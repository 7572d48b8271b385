---------------------------- MODULE GdeltSource ----------------------------
(***************************************************************************)
(* query_slice of infrastructure/external/gdelt_source.py, called for one   *)
(* slice after another: requests are paced, those that fail for the moment  *)
(* are tried again after a delay, and nothing is begun that would outlast   *)
(* the deadline.  Time is counted in units; steps that do not sleep or wait *)
(* for the provider take none.  A request is taken to last no longer than   *)
(* the timeout the client is given.                                         *)
(***************************************************************************)
EXTENDS Naturals, Sequences, FiniteSets

CONSTANTS
    Deadline,    \* the cooperative deadline
    Pace,        \* pace_interval_s
    Timeout,     \* request_timeout_s
    MaxRetries,  \* max_retries
    Base,        \* backoff_base_s
    MaxBackoff,  \* max_backoff_s
    RetryAfter,  \* what a Retry-After header may ask for
    MaxSlices    \* bound on the slices asked for

VARIABLES
    now,      \* the clock
    phase,    \* where the adapter is
    attempt,  \* of the current slice
    slices,   \* slices answered
    sent,     \* when the requests were sent: <<slice, attempt, at, timeout>>
    wait,     \* until when it sleeps
    outcome   \* what the collector is told in the end

vars == <<now, phase, attempt, slices, sent, wait, outcome>>

Outcomes == {"none", "deadline", "rate_limit", "transient", "payload", "auth", "complete"}

TypeOK ==
    /\ now \in 0 .. Deadline
    /\ phase \in {"checking", "pacing", "sending", "waiting", "backoff", "ended"}
    /\ attempt \in 0 .. MaxRetries
    /\ slices \in 0 .. MaxSlices
    /\ \A i \in DOMAIN sent : sent[i] \in (0 .. MaxSlices) \X (0 .. MaxRetries) \X Nat \X Nat
    /\ wait \in 0 .. Deadline
    /\ outcome \in Outcomes

Init ==
    /\ now = 0 /\ phase = "checking" /\ attempt = 0 /\ slices = 0
    /\ sent = <<>> /\ wait = 0 /\ outcome = "none"

Least(a, b) == IF a < b THEN a ELSE b

End(with) ==
    /\ phase' = "ended"
    /\ outcome' = with

(* Sleeps unless that would reach the deadline. *)
Sleep(seconds, next) ==
    \/ /\ seconds < Deadline - now
       /\ wait' = now + seconds
       /\ phase' = next
       /\ UNCHANGED outcome
    \/ /\ seconds >= Deadline - now
       /\ End("deadline")
       /\ UNCHANGED wait

(* _check_deadline, before an attempt. *)
Check ==
    /\ phase = "checking"
    /\ \/ /\ now >= Deadline
          /\ End("deadline")
       \/ /\ now < Deadline
          /\ phase' = "pacing"
          /\ UNCHANGED outcome
    /\ UNCHANGED <<now, attempt, slices, sent, wait>>

(* _enforce_pacing: since the last request of any slice; the first request  *)
(* of an instance comes long after its clock began.                         *)
EnforcePacing ==
    /\ phase = "pacing"
    /\ LET since == IF sent = <<>> THEN Pace ELSE now - sent[Len(sent)][3]
       IN  \/ /\ since >= Pace
              /\ wait' = now
              /\ phase' = "sending"
              /\ UNCHANGED outcome
           \/ /\ since < Pace
              /\ Sleep(Pace - since, "sending")
    /\ UNCHANGED <<now, attempt, slices, sent>>

(* Time passes while the adapter sleeps or waits for the provider.          *)
Tick ==
    /\ phase \in {"sending", "backoff", "waiting"}
    /\ now < wait
    /\ now' = now + 1
    /\ UNCHANGED <<phase, attempt, slices, sent, wait, outcome>>

(* Faulty: a request may take its full timeout whatever the deadline. *)
FullTimeout == Timeout

RequestTimeout == Least(Timeout, Deadline - now)

(* The request, for at most the time that is left. *)
Send ==
    /\ phase = "sending" /\ now = wait
    /\ sent' = Append(sent, <<slices, attempt, now, RequestTimeout>>)
    /\ wait' = now + RequestTimeout
    /\ phase' = "waiting"
    /\ UNCHANGED <<now, attempt, slices, outcome>>

(* _sleep_with_deadline_check, then the next attempt. *)
Retry(seconds) ==
    /\ attempt < MaxRetries
    /\ Sleep(Least(seconds, MaxBackoff), "backoff")
    /\ UNCHANGED <<now, attempt, slices, sent>>

GiveUp(with) ==
    /\ attempt = MaxRetries
    /\ End(with)
    /\ UNCHANGED <<now, attempt, slices, sent, wait>>

Backoff == Base * (2 ^ attempt)

(* 429, with or without a Retry-After header. *)
RateLimited ==
    /\ phase = "waiting"
    /\ \/ \E seconds \in RetryAfter \cup {Backoff} : Retry(seconds)
       \/ GiveUp("rate_limit")

(* A server error, a transport failure or, after the whole wait, a timeout. *)
FailsForNow ==
    /\ phase = "waiting"
    /\ \/ Retry(Backoff)
       \/ GiveUp("transient")

(* Refused, too large, truncated, or not what it should be. *)
Rejected ==
    /\ phase = "waiting"
    /\ \E with \in {"payload", "auth"} : End(with)
    /\ UNCHANGED <<now, attempt, slices, sent, wait>>

(* The records of the slice; the collector asks for the next or is done.    *)
Answered ==
    /\ phase = "waiting" /\ now < wait
    /\ slices' = slices + 1
    /\ attempt' = 0
    /\ wait' = now
    /\ IF slices + 1 = MaxSlices THEN End("complete")
       ELSE /\ phase' = "checking"
            /\ UNCHANGED outcome
    /\ UNCHANGED <<now, sent>>

TryAgain ==
    /\ phase = "backoff" /\ now = wait
    /\ attempt' = attempt + 1
    /\ phase' = "checking"
    /\ UNCHANGED <<now, slices, sent, wait, outcome>>

Next == \/ Check \/ EnforcePacing \/ Tick \/ Send \/ RateLimited \/ FailsForNow
        \/ Rejected \/ Answered \/ TryAgain

Spec == Init /\ [][Next]_vars

-----------------------------------------------------------------------------

(* "Pacing is strictly enforced across all outbound requests", "retries     *)
(* stop strictly after max_retries attempts" and nothing outlasts the       *)
(* deadline: requests are Pace apart whether they belong to one slice or to *)
(* two, a slice has its attempts in order, and none may end after the       *)
(* deadline.                                                                *)
RequestsAreBounded ==
    /\ \A i \in DOMAIN sent :
          /\ sent[i][3] + sent[i][4] <= Deadline
          /\ i > 1 => /\ sent[i][3] - sent[i - 1][3] >= Pace
                      /\ \/ sent[i][1] = sent[i - 1][1] /\ sent[i][2] = sent[i - 1][2] + 1
                         \/ sent[i][1] = sent[i - 1][1] + 1 /\ sent[i][2] = 0
    /\ outcome = "rate_limit" => sent[Len(sent)][2] = MaxRetries
=============================================================================
