--------------------------- MODULE ReasoningGate ---------------------------
(***************************************************************************)
(* The way of a reasoning request through one worker process: the sliding   *)
(* window of its address and the semaphore (api/rate_limit.py), the handler *)
(* (api/routers/reasoning.py) and the attempts of OllamaFashionReasoner.    *)
(*                                                                         *)
(* A request is made once per caller, in a thread of its own (the guard is  *)
(* no coroutine).  What holds a lock is one step: the clock is read before  *)
(* the lock of the window is taken; the permit, the count and the gauge are *)
(* three variables, changed in steps of their own.  The second a request    *)
(* may wait for a permit takes no time here: it is refused only while none  *)
(* is free.                                                                 *)
(***************************************************************************)
EXTENDS Naturals, Sequences, FiniteSets, SequencesExt

CONSTANTS
    Caller,      \* requests
    Address,     \* where they come from
    Limit,       \* reasoning_rate_limit_per_minute
    Window,      \* of a minute, in units
    MaxBuckets,  \* _MAX_BUCKETS
    Permits,     \* reasoning_concurrency_limit
    MaxRetries,  \* of the reasoner
    MaxTime      \* bound on the clock

VARIABLES
    clock,
    buckets,  \* in the order of their insertion: <<address, hits>>
    step,     \* where each request is
    current,  \* what the clock said when it came, until it is counted
    tries,    \* its attempts
    reply,    \* what it is answered
    free,     \* permits of the semaphore
    active,   \* _active
    read,     \* the count it has read
    gauge,    \* what the metrics show
    passed,   \* those the window let pass: <<address, current, at>> (no code reads it)
    evicted   \* addresses whose hits were forgotten (no code reads it)

vars == <<clock, buckets, step, current, tries, reply, free, active, read, gauge, passed, evicted>>

Steps == {"arriving", "limiting", "acquiring", "counting", "reading", "showing", "reasoning",
          "uncounting", "releasing", "rereading", "reshowing", "done"}

TypeOK ==
    /\ clock \in 0 .. MaxTime
    /\ \A i \in DOMAIN buckets :
          buckets[i].address \in Address /\ buckets[i].hits \in Seq(0 .. MaxTime)
    /\ step \in [Caller -> Steps]
    /\ current \in [Caller -> 0 .. clock]
    /\ tries \in [Caller -> 0 .. MaxRetries]
    /\ reply \in [Caller -> {"none", "answered", "refused", "failed", "limited"}]
    /\ free \in 0 .. Permits
    /\ active \in 0 .. Permits
    /\ read \in [Caller -> 0 .. Permits]
    /\ gauge \in 0 .. Permits

Init ==
    /\ clock = 0 /\ buckets = <<>>
    /\ step = [c \in Caller |-> "arriving"]
    /\ current = [c \in Caller |-> 0]
    /\ tries = [c \in Caller |-> 0]
    /\ reply = [c \in Caller |-> "none"]
    /\ free = Permits /\ active = 0
    /\ read = [c \in Caller |-> 0]
    /\ gauge = 0
    /\ passed = <<>> /\ evicted = {}

Goto(c, label) == step' = [step EXCEPT ![c] = label]

Tick ==
    /\ clock < MaxTime
    /\ clock' = clock + 1
    /\ UNCHANGED <<buckets, step, current, tries, reply, free, active, read, gauge, passed, evicted>>

(* _prune: from the first that has not expired. *)
Recent(hits, time) ==
    LET fresh == {i \in DOMAIN hits : time < hits[i] + Window}
    IN  IF fresh = {} THEN <<>> ELSE SubSeq(hits, Min(fresh), Len(hits))

(* Faulty: a hit is forgotten a unit too early. *)
ForgottenEarly(hits, time) == Recent(hits, time + 1)

Kept(hits, time) == Recent(hits, time)

(* The buckets with one for the address: if it has none, it gets the last   *)
(* place, and the first is evicted when all are taken.                      *)
With(address) ==
    IF \E i \in DOMAIN buckets : buckets[i].address = address THEN buckets
    ELSE Append(IF Len(buckets) >= MaxBuckets THEN Tail(buckets) ELSE buckets,
                [address |-> address, hits |-> <<>>])

(* reasoning_rate_limit: the clock is read; the lock may be long in coming. *)
Arrive(c) ==
    /\ step[c] = "arriving"
    /\ current' = [current EXCEPT ![c] = clock]
    /\ Goto(c, "limiting")
    /\ UNCHANGED <<clock, buckets, tries, reply, free, active, read, gauge, passed, evicted>>

(* With the lock: the hit is counted, at the time that was read, if it is   *)
(* allowed.                                                                 *)
Limited(c) ==
    /\ step[c] = "limiting"
    /\ \E address \in Address :
          LET with == With(address)
              i    == CHOOSE j \in DOMAIN with : with[j].address = address
              hits == Kept(with[i].hits, current[c])
          IN  /\ \/ /\ Len(hits) < Limit
                    /\ buckets' = [with EXCEPT ![i].hits = Append(hits, current[c])]
                    /\ passed' = Append(passed, <<address, current[c], clock>>)
                    /\ Goto(c, "acquiring")
                    /\ UNCHANGED reply
                 \/ /\ Len(hits) >= Limit
                    /\ buckets' = [with EXCEPT ![i].hits = hits]
                    /\ Goto(c, "done")
                    /\ reply' = [reply EXCEPT ![c] = "limited"]
                    /\ UNCHANGED passed
              /\ evicted' = evicted \cup ({b.address : b \in Range(buckets)}
                                             \ {b.address : b \in Range(with)})
    /\ current' = [current EXCEPT ![c] = 0]
    /\ UNCHANGED <<clock, tries, free, active, read, gauge>>

(* What the steps of the gate leave alone. *)
OnlyGate == UNCHANGED <<clock, buckets, current, tries, passed, evicted>>

(* limiter.acquire: a permit, or none within the second.                    *)
Acquire(c) ==
    /\ step[c] = "acquiring"
    /\ \/ /\ free > 0
          /\ free' = free - 1
          /\ Goto(c, "counting")
          /\ UNCHANGED reply
       \/ /\ free = 0
          /\ Goto(c, "done")
          /\ reply' = [reply EXCEPT ![c] = "limited"]
          /\ UNCHANGED free
    /\ OnlyGate /\ UNCHANGED <<active, read, gauge>>

Count(c) ==
    /\ step[c] = "counting"
    /\ active' = active + 1
    /\ Goto(c, "reading")
    /\ OnlyGate /\ UNCHANGED <<reply, free, read, gauge>>

(* limiter.active_count ... *)
ReadCount(c) ==
    /\ \/ step[c] = "reading" /\ Goto(c, "showing")
       \/ step[c] = "rereading" /\ Goto(c, "reshowing")
    /\ read' = [read EXCEPT ![c] = active]
    /\ OnlyGate /\ UNCHANGED <<reply, free, active, gauge>>

(* ... and set_active_concurrency, in the way in and in the way out.        *)
ShowCount(c) ==
    /\ \/ step[c] = "showing" /\ Goto(c, "reasoning")
       \/ step[c] = "reshowing" /\ Goto(c, "done")
    /\ gauge' = read[c]
    /\ read' = [read EXCEPT ![c] = 0]
    /\ OnlyGate /\ UNCHANGED <<reply, free, active>>

(* Faulty: what raises leaves the permit behind. *)
OnSuccess(with) == IF with = "answered" THEN "uncounting" ELSE "done"

(* The finally of the handler. *)
Leave(with) == "uncounting"

Reply(c, with) ==
    /\ reply' = [reply EXCEPT ![c] = with]
    /\ tries' = [tries EXCEPT ![c] = 0]
    /\ Goto(c, Leave(with))

(* The handler: the query is refused (422) or the corpus is broken (500);   *)
(* or the model is asked.  It answers (200), fails for good (502, 503), or  *)
(* for the moment: a timeout (504), a transport failure or a server error   *)
(* is tried again while attempts are left.                                  *)
Reason(c) ==
    /\ step[c] = "reasoning"
    /\ \/ tries[c] = 0 /\ Reply(c, "refused")
       \/ \E with \in {"answered", "failed"} : Reply(c, with)
       \/ /\ tries[c] < MaxRetries
          /\ tries' = [tries EXCEPT ![c] = @ + 1]
          /\ UNCHANGED <<step, reply>>
    /\ UNCHANGED <<clock, buckets, current, free, active, read, gauge, passed, evicted>>

(* limiter.release: the count, then the permit. *)
Uncount(c) ==
    /\ step[c] = "uncounting"
    /\ active' = IF active > 0 THEN active - 1 ELSE 0
    /\ Goto(c, "releasing")
    /\ OnlyGate /\ UNCHANGED <<reply, free, read, gauge>>

Release(c) ==
    /\ step[c] = "releasing"
    /\ free' = free + 1
    /\ Goto(c, "rereading")
    /\ OnlyGate /\ UNCHANGED <<reply, active, read, gauge>>

Next == \/ Tick
        \/ \E c \in Caller : \/ Arrive(c) \/ Limited(c) \/ Acquire(c) \/ Count(c) \/ ReadCount(c)
                             \/ ShowCount(c) \/ Reason(c) \/ Uncount(c) \/ Release(c)

Spec == Init /\ [][Next]_vars

-----------------------------------------------------------------------------

Inside == {c \in Caller : step[c] \in {"counting", "reading", "showing", "reasoning",
                                       "uncounting", "releasing"}}

(* "Bounded concurrency semaphore to protect single-process resources":     *)
(* whatever the order of acquisitions, failures and releases, no more than  *)
(* the permitted requests are inside, permits are neither lost nor made,    *)
(* and the count never exceeds those inside.                                *)
PermitsAreConserved ==
    /\ free + Cardinality(Inside) = Permits
    /\ active <= Cardinality(Inside)
    /\ Inside = {} => active = 0

(* "Sliding window per (scope, client IP)": of an address whose hits were   *)
(* never evicted, Limit requests at most come and are let pass within one   *)
(* window, wherever it begins and whichever of them takes the lock first;   *)
(* and memory stays bounded.  (One that read the clock and is held up       *)
(* before the lock past the end of the window does not count in it.)        *)
WindowIsKept ==
    /\ Len(buckets) <= MaxBuckets
    /\ \A address \in Address \ evicted, from \in 0 .. clock :
          Cardinality({i \in DOMAIN passed : /\ passed[i][1] = address
                                            /\ passed[i][2] >= from
                                            /\ passed[i][3] < from + Window}) <= Limit
=============================================================================
