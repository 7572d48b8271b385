------------------------ MODULE AnalysisRuns_proofs ------------------------
(* Proofs about AnalysisRuns, for any number of requests, accounts, keys and *)
(* images.                                                                   *)
EXTENDS AnalysisRuns, TLAPS

Unsubmitted == {"idle", "begin", "lookup", "create", "relookup", "unprocessable", "conflict"}
Owning      == {"analyse", "finish", "profile", "signals"}

(* A request owns a row exactly from its insert on; the row is pending until *)
(* the request settles it, and completed while the profile is updated.       *)
RowPhase(r) ==
    /\ pc[r] \in Unsubmitted => status[r] = "absent"
    /\ pc[r] \in Owning => status[r] # "absent"
    /\ pc[r] \in {"analyse", "finish"} => status[r] \in {"pending", "erased"}
    /\ pc[r] \in {"profile", "signals"} =>
         /\ status[r] \in {"completed", "erased"}
         /\ input[r].kind \in Styling
         /\ found[r].style \in {"face", "full"}
    /\ status[r] = "pending" => pc[r] \in {"analyse", "finish", "dead"}

(* The rows of an erased account are gone with it. *)
RowsHaveOwners == \A r \in Request : status[r] \in Present => input[r].user \in users

(* Only the erasure of the account erases its rows. *)
ErasedIsGone == \A r \in Request : status[r] = "erased" => input[r].user \notin users

(* At most one row was ever filed under an account and a key. *)
OneRowPerKey ==
    \A r, q \in Request :
        r # q /\ SameKey(r, q) => status[r] = "absent" \/ status[q] = "absent"

(* Before its signals a request has updated the profile of a live account. *)
SignalsAfterProfile ==
    \A r \in Request :
        pc[r] = "signals" /\ input[r].user \in users =>
            r \in applied /\ profile[input[r].user].source # None

IInv ==
    /\ TypeOK
    /\ \A r \in Request : RowPhase(r)
    /\ RowsHaveOwners
    /\ ErasedIsGone
    /\ OneRowPerKey
    /\ AnswerFitsSubmission
    /\ ProfileProvenance
    /\ SignalsAfterProfile
    /\ TraceIsEarned

-----------------------------------------------------------------------------

(* What the analysis returns is a finding. *)
LEMMA FindingsType ==
    ASSUME NEW kind \in Kind
    PROVE  Findings(kind) \subseteq Finding
  BY DEF Findings, Finding, Kind, ProfileOnly, Styling

LEMMA InputType ==
    ASSUME NEW i \in Input
    PROVE  i.user \in User /\ i.kind \in Kind
  BY DEF Input, Kind, ProfileOnly, Styling

(* The set of rows a request can be replayed onto. *)
LEMMA HoldersAre ==
    ASSUME NEW r \in Request, NEW q \in Holders(r)
    PROVE  q \in Request /\ status[q] \in Present /\ SameKey(r, q)
  BY DEF Holders

LEMMA InitType == Init => TypeOK
  BY InputsAssumption, NoneAssumption
  DEF Init, TypeOK, Working, Answered, RunStatus, Present, Terminal, Nothing, Finding,
      StyleProfile, EmptyProfile

LEMMA ReplayType ==
    ASSUME TypeOK, NEW r \in Request, NEW q \in Request, Replay(r, q)
    PROVE  /\ pc' \in [Request -> {"idle", "dead"} \cup Working \cup Answered]
           /\ answer' \in [Request -> Request \cup {None}]
  BY DEF TypeOK, Replay, Goto, Answered

LEMMA StepType ==
    ASSUME TypeOK, NEW r \in Request, Step(r)
    PROVE  TypeOK'
<1>1. CASE Begin(r)
  BY <1>1 DEF TypeOK, Begin, Goto, Working, Answered
<1>2. CASE Lookup(r)
  <2>1. CASE Holders(r) = {} /\ Goto(r, "create") /\ UNCHANGED answer
    BY <1>2, <2>1 DEF TypeOK, Lookup, Goto, Working
  <2>2. CASE \E q \in Holders(r) : Replay(r, q)
    <3>1. PICK q \in Request : Replay(r, q)
      BY <2>2, HoldersAre
    <3>2. QED
      BY <1>2, <3>1, ReplayType DEF TypeOK, Lookup
  <2>3. QED
    BY <1>2, <2>1, <2>2 DEF Lookup
<1>3. CASE Create(r)
  BY <1>3 DEF TypeOK, Create, Goto, Working, RunStatus, Present
<1>4. CASE Relookup(r)
  <2>1. CASE Holders(r) = {} /\ Goto(r, "error") /\ UNCHANGED answer
    BY <1>4, <2>1 DEF TypeOK, Relookup, Goto, Answered
  <2>2. CASE \E q \in Holders(r) : Replay(r, q)
    <3>1. PICK q \in Request : Replay(r, q)
      BY <2>2, HoldersAre
    <3>2. QED
      BY <1>4, <3>1, ReplayType DEF TypeOK, Relookup
  <2>3. QED
    BY <1>4, <2>1, <2>2 DEF Relookup
<1>5. CASE Analyse(r)
  <2>1. Findings(input[r].kind) \subseteq Finding
    BY FindingsType, InputType DEF TypeOK
  <2>2. QED
    BY <1>5, <2>1 DEF TypeOK, Analyse, Goto, Working
<1>6. CASE Complete(r)
  BY <1>6 DEF TypeOK, Complete, Settle, Goto, Working, Answered, RunStatus, Present, Terminal
<1>7. CASE Fail(r)
  BY <1>7 DEF TypeOK, Fail, Settle, Goto, Answered, RunStatus, Present, Terminal
<1>8. CASE UpdateProfile(r)
  <2>1. \A u \in User : Merge(profile[u], r) \in StyleProfile
    BY DEF TypeOK, Merge, StyleProfile
  <2>2. profile' \in [User -> StyleProfile]
    BY <1>8, <2>1, InputType DEF TypeOK, UpdateProfile
  <2>3. QED
    BY <1>8, <2>2 DEF TypeOK, UpdateProfile, Goto, Working
<1>9. CASE EmitSignals(r)
  BY <1>9, InputType DEF TypeOK, EmitSignals, Goto, Answered
<1>10. QED
  BY <1>1, <1>2, <1>3, <1>4, <1>5, <1>6, <1>7, <1>8, <1>9 DEF Step

LEMMA NextType == TypeOK /\ [Next]_vars => TypeOK'
<1>1. ASSUME TypeOK, NEW r \in Request, Submit(r) \/ Abort(r)
      PROVE  TypeOK'
  BY <1>1 DEF TypeOK, Submit, Abort, Goto, Working
<1>2. ASSUME TypeOK, NEW u \in User, EraseAccount(u)
      PROVE  TypeOK'
  <2>1. EmptyProfile \in StyleProfile
    BY DEF EmptyProfile, StyleProfile
  <2>2. QED
    BY <1>2, <2>1 DEF TypeOK, EraseAccount, RunStatus
<1>3. ASSUME TypeOK, UNCHANGED vars
      PROVE  TypeOK'
  BY <1>3 DEF TypeOK, vars
<1>4. QED
  BY <1>1, <1>2, <1>3, StepType DEF Next

(* Type correctness of the analysis surface. *)
THEOREM TypeCorrect == Spec => []TypeOK
  BY InitType, NextType, PTL DEF Spec

-----------------------------------------------------------------------------

LEMMA InitInv == Init => IInv
<1>1. ASSUME Init PROVE \A r \in Request : RowPhase(r)
  BY <1>1 DEF Init, RowPhase, Owning
<1>2. ASSUME Init PROVE RowsHaveOwners /\ ErasedIsGone /\ OneRowPerKey /\ AnswerFitsSubmission
  BY <1>2 DEF Init, RowsHaveOwners, ErasedIsGone, OneRowPerKey, AnswerFitsSubmission, Present, Terminal
<1>3. ASSUME Init PROVE ProfileProvenance /\ SignalsAfterProfile /\ TraceIsEarned
  BY <1>3 DEF Init, ProfileProvenance, SignalsAfterProfile, TraceIsEarned, EmptyProfile
<1>4. QED
  BY <1>1, <1>2, <1>3, InitType DEF IInv

(* A step that settles no row, inserts none and touches no profile or signal *)
(* keeps every conjunct but the phase of r and the answers.                  *)
LEMMA FrameInv ==
    ASSUME IInv, UNCHANGED <<users, input, status, profile, applied, traced, styled>>,
           \A q \in Request : status[q] = "completed" => found'[q] = found[q]
    PROVE  /\ RowsHaveOwners' /\ ErasedIsGone' /\ OneRowPerKey'
           /\ ProfileProvenance' /\ TraceIsEarned'
<1>1. RowsHaveOwners' /\ ErasedIsGone' /\ OneRowPerKey'
  BY DEF IInv, RowsHaveOwners, ErasedIsGone, OneRowPerKey, SameKey
<1>2. ProfileProvenance'
  BY DEF IInv, TypeOK, ProfileProvenance, Vouches, StyleProfile
<1>3. TraceIsEarned'
  BY DEF IInv, TraceIsEarned
<1>4. QED
  BY <1>1, <1>2, <1>3

(* Moving r among the places where it owns no row, or to its death. *)
LEMMA MoveInv ==
    ASSUME IInv, TypeOK', NEW r \in Request, NEW label, Goto(r, label),
           UNCHANGED <<users, input, status, found, answer, profile, applied, traced, styled>>,
           \/ pc[r] \in Unsubmitted /\ label \in Unsubmitted \cup {"error"}
           \/ label = "dead"
    PROVE  IInv'
<1>1. \A q \in Request : RowPhase(q)'
  BY DEF IInv, TypeOK, Goto, RowPhase, Unsubmitted, Owning
<1>2. AnswerFitsSubmission'
  BY DEF IInv, TypeOK, Goto, AnswerFitsSubmission, SameKey, Unsubmitted
<1>3. SignalsAfterProfile'
  BY DEF IInv, TypeOK, Goto, SignalsAfterProfile, Unsubmitted
<1>4. QED
  BY <1>1, <1>2, <1>3, FrameInv DEF IInv

(* Answering r with a run that holds its key, or with a conflict. *)
LEMMA ReplayInv ==
    ASSUME IInv, TypeOK', NEW r \in Request, NEW q \in Holders(r), Replay(r, q),
           pc[r] \in Unsubmitted,
           UNCHANGED <<users, input, status, found, profile, applied, traced, styled>>
    PROVE  IInv'
<1>1. q \in Request /\ status[q] # "absent" /\ SameKey(r, q)
  BY HoldersAre DEF Present, Terminal
<1>2. CASE ~ Compatible(r, q)
  BY <1>2, MoveInv DEF Replay, Unsubmitted
<1>3. CASE Compatible(r, q)
  <2>1. Goto(r, "accepted") /\ answer' = [answer EXCEPT ![r] = q]
    BY <1>3 DEF Replay
  <2>2. \A p \in Request : RowPhase(p)'
    BY <2>1 DEF IInv, TypeOK, Goto, RowPhase, Unsubmitted, Owning
  <2>3. AnswerFitsSubmission'
    BY <1>1, <1>3, <2>1, NoneAssumption
    DEF IInv, TypeOK, Goto, AnswerFitsSubmission, SameKey, Compatible
  <2>4. SignalsAfterProfile'
    BY <2>1 DEF IInv, TypeOK, Goto, SignalsAfterProfile
  <2>5. QED
    BY <2>2, <2>3, <2>4, FrameInv DEF IInv
<1>4. QED
  BY <1>2, <1>3

LEMMA CreateInv ==
    ASSUME IInv, TypeOK', NEW r \in Request, Create(r)
    PROVE  IInv'
<1>1. CASE ~ (input[r].user \in users /\ ~ Taken(r))
  BY <1>1, MoveInv DEF Create, Goto, Unsubmitted
<1>2. CASE input[r].user \in users /\ ~ Taken(r)
  <2>1. /\ pc[r] = "create" /\ status[r] = "absent"
        /\ status' = [status EXCEPT ![r] = "pending"]
        /\ pc' = [pc EXCEPT ![r] = "analyse"]
        /\ UNCHANGED <<users, input, found, answer, profile, applied, traced, styled>>
    BY <1>2 DEF Create, Goto, IInv, RowPhase, Unsubmitted
  <2>2. \A q \in Request : RowPhase(q)'
    BY <2>1 DEF IInv, TypeOK, RowPhase, Unsubmitted, Owning
  <2>3. RowsHaveOwners'
    BY <1>2, <2>1 DEF IInv, TypeOK, RowsHaveOwners, Present
  <2>4. \A q \in Request : q # r /\ SameKey(r, q) => status[q] = "absent"
    <3>1. SUFFICES ASSUME NEW q \in Request, q # r, SameKey(r, q), status[q] # "absent"
                   PROVE  FALSE
      OBVIOUS
    <3>2. status[q] \notin Present
      BY <1>2, <3>1 DEF Taken, Holders
    <3>3. status[q] = "erased"
      BY <3>1, <3>2 DEF IInv, TypeOK, RunStatus
    <3>4. QED
      BY <1>2, <3>1, <3>3 DEF IInv, ErasedIsGone, SameKey
  <2>5. OneRowPerKey'
    BY <2>1, <2>4 DEF IInv, TypeOK, OneRowPerKey, SameKey
  <2>6. AnswerFitsSubmission'
    BY <2>1 DEF IInv, TypeOK, AnswerFitsSubmission, SameKey
  <2>7. ProfileProvenance' /\ TraceIsEarned'
    BY <2>1 DEF IInv, TypeOK, ProfileProvenance, Vouches, StyleProfile, TraceIsEarned
  <2>8. SignalsAfterProfile' /\ ErasedIsGone'
    BY <2>1 DEF IInv, TypeOK, SignalsAfterProfile, ErasedIsGone
  <2>9. QED
    BY <2>2, <2>3, <2>5, <2>6, <2>7, <2>8 DEF IInv
<1>3. QED
  BY <1>1, <1>2

LEMMA AnalyseInv ==
    ASSUME IInv, TypeOK', NEW r \in Request, Analyse(r)
    PROVE  IInv'
<1>1. status[r] # "completed"
  BY DEF Analyse, IInv, RowPhase
<1>2. \A q \in Request : status[q] = "completed" => found'[q] = found[q]
  BY <1>1 DEF Analyse, IInv, TypeOK
<1>3. \A q \in Request : RowPhase(q)'
  BY DEF Analyse, Goto, IInv, TypeOK, RowPhase, Unsubmitted, Owning
<1>4. AnswerFitsSubmission' /\ SignalsAfterProfile'
  BY DEF Analyse, Goto, IInv, TypeOK, AnswerFitsSubmission, SignalsAfterProfile, SameKey
<1>5. QED
  BY <1>2, <1>3, <1>4, FrameInv DEF Analyse, IInv

(* Settling a row: what the write-once guard of the two SQL functions keeps. *)
LEMMA SettleInv ==
    ASSUME IInv, TypeOK', NEW r \in Request, NEW outcome \in Terminal, Settle(r, outcome),
           UNCHANGED <<users, input, found, profile, applied, traced, styled>>
    PROVE  /\ RowsHaveOwners' /\ OneRowPerKey' /\ ErasedIsGone'
           /\ ProfileProvenance' /\ TraceIsEarned'
           /\ \A q \in Request : status[q] # "absent" => status'[q] # "absent"
           /\ \A q \in Request : q # r => status'[q] = status[q]
           /\ status[r] = "pending" => status'[r] = outcome
           /\ status[r] # "pending" => status'[r] = status[r]
<1>1. /\ \A q \in Request : q # r => status'[q] = status[q]
      /\ status[r] = "pending" => status'[r] = outcome
      /\ status[r] # "pending" => status'[r] = status[r]
  BY DEF Settle, IInv, TypeOK
<1>2. RowsHaveOwners' /\ OneRowPerKey' /\ ErasedIsGone'
  BY <1>1 DEF IInv, RowsHaveOwners, OneRowPerKey, ErasedIsGone, SameKey, Present, Terminal
<1>3. \A q \in Request : status[q] = "completed" => status'[q] = "completed"
  BY <1>1
<1>4. ProfileProvenance' /\ TraceIsEarned'
  BY <1>3 DEF IInv, TypeOK, ProfileProvenance, Vouches, StyleProfile, TraceIsEarned
<1>5. QED
  BY <1>1, <1>2, <1>4 DEF Terminal

LEMMA CompleteInv ==
    ASSUME IInv, TypeOK', NEW r \in Request, Complete(r)
    PROVE  IInv'
<1>1. /\ Settle(r, "completed") /\ pc[r] = "finish"
      /\ UNCHANGED <<users, input, found, profile, applied, traced, styled>>
  BY DEF Complete
<1>2. /\ RowsHaveOwners' /\ OneRowPerKey' /\ ErasedIsGone'
      /\ ProfileProvenance' /\ TraceIsEarned'
      /\ \A q \in Request : status[q] # "absent" => status'[q] # "absent"
      /\ \A q \in Request : q # r => status'[q] = status[q]
      /\ status[r] = "pending" => status'[r] = "completed"
      /\ status[r] # "pending" => status'[r] = status[r]
  BY <1>1, SettleInv DEF Terminal
<1>3. status[r] \in {"pending", "erased"}
  BY <1>1 DEF IInv, RowPhase
<1>4. /\ \A q \in Request : q # r => pc'[q] = pc[q] /\ answer'[q] = answer[q]
      /\ pc'[r] \in {"error", "profile", "accepted"}
      /\ pc'[r] = "error" => status[r] # "pending"
      /\ pc'[r] = "profile" => input[r].kind \in Styling /\ found[r].style \in {"face", "full"}
      /\ pc'[r] # "error" => status[r] = "pending"
      /\ pc'[r] = "accepted" => answer'[r] = r
  BY DEF Complete, Goto, HasResult, IInv, TypeOK
<1>5. \A q \in Request : RowPhase(q)'
  BY <1>1, <1>2, <1>3, <1>4 DEF IInv, RowPhase, Unsubmitted, Owning
<1>6. AnswerFitsSubmission'
  BY <1>1, <1>2, <1>3, <1>4, NoneAssumption DEF IInv, TypeOK, AnswerFitsSubmission, SameKey
<1>7. SignalsAfterProfile'
  BY <1>1, <1>4 DEF IInv, SignalsAfterProfile
<1>8. QED
  BY <1>2, <1>5, <1>6, <1>7 DEF IInv

LEMMA FailInv ==
    ASSUME IInv, TypeOK', NEW r \in Request, Fail(r)
    PROVE  IInv'
<1>1. /\ Settle(r, "failed") /\ pc[r] = "finish"
      /\ UNCHANGED <<users, input, found, profile, applied, traced, styled>>
  BY DEF Fail
<1>2. /\ RowsHaveOwners' /\ OneRowPerKey' /\ ErasedIsGone'
      /\ ProfileProvenance' /\ TraceIsEarned'
      /\ \A q \in Request : status[q] # "absent" => status'[q] # "absent"
      /\ \A q \in Request : q # r => status'[q] = status[q]
      /\ status[r] = "pending" => status'[r] = "failed"
      /\ status[r] # "pending" => status'[r] = status[r]
  BY <1>1, SettleInv DEF Terminal
<1>3. status[r] \in {"pending", "erased"}
  BY <1>1 DEF IInv, RowPhase
<1>4. /\ \A q \in Request : q # r => pc'[q] = pc[q] /\ answer'[q] = answer[q]
      /\ pc'[r] = "accepted" /\ answer'[r] = r
  BY DEF Fail, Goto, IInv, TypeOK
<1>5. \A q \in Request : RowPhase(q)'
  BY <1>1, <1>2, <1>3, <1>4 DEF IInv, RowPhase, Unsubmitted, Owning
<1>6. AnswerFitsSubmission'
  BY <1>1, <1>2, <1>3, <1>4, NoneAssumption DEF IInv, TypeOK, AnswerFitsSubmission, SameKey
<1>7. SignalsAfterProfile'
  BY <1>1, <1>4 DEF IInv, SignalsAfterProfile
<1>8. QED
  BY <1>2, <1>5, <1>6, <1>7 DEF IInv

LEMMA UpdateProfileInv ==
    ASSUME IInv, TypeOK', NEW r \in Request, UpdateProfile(r)
    PROVE  IInv'
<1> DEFINE u == input[r].user
<1>1. /\ pc[r] = "profile" /\ u \in User
      /\ pc' = [pc EXCEPT ![r] = "signals"]
      /\ UNCHANGED <<users, input, status, found, answer, traced, styled>>
  BY InputType DEF UpdateProfile, Goto, IInv, TypeOK
<1>2. \A q \in Request : RowPhase(q)'
  BY <1>1 DEF IInv, TypeOK, RowPhase, Unsubmitted, Owning
<1>3. RowsHaveOwners' /\ ErasedIsGone' /\ OneRowPerKey' /\ AnswerFitsSubmission'
  BY <1>1 DEF IInv, TypeOK, RowsHaveOwners, ErasedIsGone, OneRowPerKey, AnswerFitsSubmission,
              SameKey
<1>4. CASE u \notin users
  <2>1. UNCHANGED <<profile, applied>>
    BY <1>4 DEF UpdateProfile
  <2>2. ProfileProvenance' /\ TraceIsEarned'
    BY <1>1, <2>1, FrameInv DEF IInv
  <2>3. SignalsAfterProfile'
    BY <1>1, <1>4, <2>1 DEF IInv, TypeOK, SignalsAfterProfile
  <2>4. QED
    BY <1>2, <1>3, <2>2, <2>3 DEF IInv
<1>5. CASE u \in users
  <2>1. /\ profile' = [profile EXCEPT ![u] = Merge(profile[u], r)]
        /\ applied' = applied \cup {r}
    BY <1>5 DEF UpdateProfile
  <2>2. Vouches(r, u)
    BY <1>1, <1>5 DEF IInv, RowPhase, ErasedIsGone, Vouches
  <2>3. /\ profile'[u].face = r /\ profile'[u].source = r
        /\ profile'[u].rest = IF found[r].style = "full" THEN r ELSE profile[u].rest
        /\ \A v \in User : v # u => profile'[v] = profile[v]
    BY <1>1, <2>1 DEF IInv, TypeOK, Merge
  <2>4. ProfileProvenance'
    <3>1. SUFFICES ASSUME NEW v \in User
                   PROVE  LET p == profile'[v] IN
                          /\ p.face = p.source
                          /\ p.source # None => Vouches(p.source, v)
                          /\ p.rest # None => /\ p.source # None /\ Vouches(p.rest, v)
                                             /\ found[p.rest].style = "full"
      BY <1>1 DEF ProfileProvenance, Vouches
    <3>2. CASE v # u
      BY <2>3, <3>2 DEF IInv, ProfileProvenance
    <3>3. CASE v = u
      BY <2>2, <2>3, <3>3, NoneAssumption DEF IInv, ProfileProvenance
    <3>4. QED
      BY <3>2, <3>3
  <2>5. TraceIsEarned'
    BY <1>1, <2>1, <2>3, NoneAssumption, InputType DEF IInv, TypeOK, TraceIsEarned
  <2>6. SignalsAfterProfile'
    BY <1>1, <2>1, <2>3, NoneAssumption, InputType DEF IInv, TypeOK, SignalsAfterProfile
  <2>7. QED
    BY <1>2, <1>3, <2>4, <2>5, <2>6 DEF IInv
<1>6. QED
  BY <1>4, <1>5

LEMMA EmitSignalsInv ==
    ASSUME IInv, TypeOK', NEW r \in Request, EmitSignals(r)
    PROVE  IInv'
<1> DEFINE u == input[r].user
<1>1. /\ pc[r] = "signals" /\ status[r] \in {"completed", "erased"}
      /\ UNCHANGED <<users, input, status, found, profile, applied>>
  BY DEF EmitSignals, IInv, RowPhase
<1>2. /\ \A q \in Request : q # r => pc'[q] = pc[q] /\ answer'[q] = answer[q]
      /\ pc'[r] \in {"accepted", "error"}
      /\ pc'[r] = "accepted" => answer'[r] = r
  BY DEF EmitSignals, Goto, IInv, TypeOK
<1>3. \A q \in Request : RowPhase(q)'
  BY <1>1, <1>2 DEF IInv, RowPhase, Unsubmitted, Owning
<1>4. RowsHaveOwners' /\ ErasedIsGone' /\ OneRowPerKey' /\ ProfileProvenance'
  BY <1>1 DEF IInv, TypeOK, RowsHaveOwners, ErasedIsGone, OneRowPerKey, SameKey,
              ProfileProvenance, Vouches, StyleProfile
<1>5. AnswerFitsSubmission'
  BY <1>1, <1>2, NoneAssumption DEF IInv, TypeOK, AnswerFitsSubmission, SameKey
<1>6. SignalsAfterProfile'
  BY <1>1, <1>2 DEF IInv, SignalsAfterProfile
<1>7. TraceIsEarned'
  <2>1. CASE u \notin users
    BY <1>1, <2>1 DEF EmitSignals, IInv, TraceIsEarned
  <2>2. CASE u \in users
    <3>1. status[r] = "completed"
      BY <1>1, <2>2 DEF IInv, ErasedIsGone
    <3>2. r \in applied /\ profile[u].source # None
      BY <1>1, <2>2 DEF IInv, SignalsAfterProfile
    <3>3. traced' = traced \cup {r} /\ styled' = styled \cup {u}
      BY <2>2 DEF EmitSignals
    <3>4. QED
      BY <1>1, <3>1, <3>2, <3>3 DEF IInv, TraceIsEarned
  <2>3. QED
    BY <2>1, <2>2
<1>8. QED
  BY <1>3, <1>4, <1>5, <1>6, <1>7 DEF IInv

(* The erasure cascade: what refers to the account goes in the same step.   *)
LEMMA EraseInv ==
    ASSUME IInv, TypeOK', NEW u \in User, EraseAccount(u)
    PROVE  IInv'
<1>1. /\ users' = users \ {u}
      /\ \A q \in Request : status'[q] = IF input[q].user = u /\ status[q] \in Present
                                        THEN "erased" ELSE status[q]
      /\ profile'[u] = EmptyProfile
      /\ \A v \in User : v # u => profile'[v] = profile[v]
      /\ traced' = {q \in traced : input[q].user # u}
      /\ styled' = styled \ {u}
      /\ UNCHANGED <<input, pc, found, answer, applied>>
  BY DEF EraseAccount, IInv, TypeOK
<1>2. \A q \in Request : RowPhase(q)'
  BY <1>1 DEF IInv, RowPhase, Unsubmitted, Owning, Present, Terminal
<1>3. RowsHaveOwners' /\ ErasedIsGone'
  BY <1>1 DEF IInv, RowsHaveOwners, ErasedIsGone, Present, Terminal
<1>4. OneRowPerKey'
  BY <1>1 DEF IInv, OneRowPerKey, SameKey, Present, Terminal
<1>5. AnswerFitsSubmission'
  BY <1>1, NoneAssumption DEF IInv, TypeOK, AnswerFitsSubmission, SameKey, Present, Terminal
<1>6. ProfileProvenance'
  <2>1. SUFFICES ASSUME NEW v \in User
                 PROVE  (LET p == profile[v] IN
                         /\ p.face = p.source
                         /\ p.source # None => Vouches(p.source, v)
                         /\ p.rest # None => /\ p.source # None /\ Vouches(p.rest, v)
                                            /\ found[p.rest].style = "full")'
    BY DEF ProfileProvenance
  <2>2. CASE v = u
    BY <1>1, <2>2 DEF EmptyProfile
  <2>3. CASE v # u
    <3>1. ASSUME NEW q \in Request, Vouches(q, v)
          PROVE  Vouches(q, v)'
      BY <1>1, <2>3, <3>1 DEF Vouches
    <3>2. profile[v] \in StyleProfile /\ profile'[v] = profile[v]
      BY <1>1, <2>3 DEF IInv, TypeOK
    <3>3. QED
      BY <1>1, <3>1, <3>2 DEF IInv, ProfileProvenance, StyleProfile, Vouches
  <2>4. QED
    BY <2>2, <2>3
<1>7. TraceIsEarned' /\ SignalsAfterProfile'
  BY <1>1, InputType DEF IInv, TypeOK, TraceIsEarned, SignalsAfterProfile
<1>8. QED
  BY <1>2, <1>3, <1>4, <1>5, <1>6, <1>7 DEF IInv

LEMMA NextInv == IInv /\ [Next]_vars => IInv'
<1> SUFFICES ASSUME IInv, [Next]_vars PROVE IInv'
  OBVIOUS
<1>1. TypeOK'
  BY NextType DEF IInv
<1>2. ASSUME NEW r \in Request, Submit(r) \/ Abort(r) \/ Begin(r)
      PROVE  IInv'
  <2>1. CASE Submit(r)
    BY <1>1, <2>1, MoveInv DEF Submit, Unsubmitted
  <2>2. CASE Abort(r)
    BY <1>1, <2>2, MoveInv DEF Abort
  <2>3. CASE Begin(r)
    <3>1. PICK label \in {"lookup", "unprocessable"} : Goto(r, label)
      BY <2>3 DEF Begin
    <3>2. QED
      BY <1>1, <2>3, <3>1, MoveInv DEF Begin, Unsubmitted
  <2>4. QED
    BY <1>2, <2>1, <2>2, <2>3
<1>3. ASSUME NEW r \in Request, Lookup(r) \/ Relookup(r)
      PROVE  IInv'
  <2>1. /\ pc[r] \in Unsubmitted
        /\ UNCHANGED <<users, input, status, found, profile, applied, traced, styled>>
    BY <1>3 DEF Lookup, Relookup, Unsubmitted
  <2>2. CASE \E q \in Holders(r) : Replay(r, q)
    BY <1>1, <2>1, <2>2, ReplayInv
  <2>3. CASE ~ \E q \in Holders(r) : Replay(r, q)
    <3>1. PICK label \in {"create", "error"} : Goto(r, label) /\ UNCHANGED answer
      BY <1>3, <2>3 DEF Lookup, Relookup
    <3>2. QED
      BY <1>1, <2>1, <3>1, MoveInv DEF Unsubmitted
  <2>4. QED
    BY <2>2, <2>3
<1>4. ASSUME NEW r \in Request, Step(r)
      PROVE  IInv'
  BY <1>1, <1>2, <1>3, <1>4, CreateInv, AnalyseInv, CompleteInv, FailInv, UpdateProfileInv,
     EmitSignalsInv DEF Step
<1>5. ASSUME UNCHANGED vars
      PROVE  IInv'
  BY <1>5 DEF vars, IInv, TypeOK, RowPhase, RowsHaveOwners, ErasedIsGone, OneRowPerKey, SameKey,
              AnswerFitsSubmission, ProfileProvenance, Vouches, SignalsAfterProfile, TraceIsEarned
<1>6. QED
  BY <1>1, <1>2, <1>4, <1>5, EraseInv DEF Next

(* The inductive invariant holds in every behaviour. *)
THEOREM Invariance == Spec => []IInv
  BY InitInv, NextInv, PTL DEF Spec

(* The run a 202 names is the submitter's own, or its account's, of its run  *)
(* type and, when both carried one, of its image.                            *)
THEOREM AnswersFit == Spec => []AnswerFitsSubmission
<1>1. IInv => AnswerFitsSubmission
  BY DEF IInv
<1>2. QED
  BY <1>1, Invariance, PTL

(* Two accepted submissions of an account under one key name the same run.   *)
THEOREM OneKeyOneRun == Spec => []SameKeySameRun
<1>1. IInv => SameKeySameRun
  <2>1. SUFFICES ASSUME IInv, NEW r \in Request, NEW q \in Request, SameKey(r, q),
                        pc[r] = "accepted", pc[q] = "accepted"
                 PROVE  answer[r] = answer[q]
    BY DEF SameKeySameRun
  <2>2. /\ answer[r] \in Request /\ status[answer[r]] # "absent"
        /\ answer[q] \in Request /\ status[answer[q]] # "absent"
    BY <2>1 DEF IInv, TypeOK, AnswerFitsSubmission
  <2>3. SameKey(answer[r], answer[q])
    BY <2>1 DEF IInv, AnswerFitsSubmission, SameKey
  <2>4. QED
    BY <2>1, <2>2, <2>3 DEF IInv, OneRowPerKey
<1>2. QED
  BY <1>1, Invariance, PTL

(* A row is pending only while its request works on it or after that died.   *)
THEOREM NeverStuckPending == Spec => []StuckOnlyByDeath
<1>1. IInv => StuckOnlyByDeath
  BY DEF IInv, RowPhase, StuckOnlyByDeath
<1>2. QED
  BY <1>1, Invariance, PTL

(* The stored style profile holds only what completed styling runs of its    *)
(* own account observed, and the face shape is that of the named source run. *)
THEOREM ProfilesAreObserved == Spec => []ProfileProvenance
<1>1. IInv => ProfileProvenance
  BY DEF IInv
<1>2. QED
  BY <1>1, Invariance, PTL

(* Learning signals exist only for completed runs already in the profile.    *)
THEOREM SignalsAreEarned == Spec => []TraceIsEarned
<1>1. IInv => TraceIsEarned
  BY DEF IInv
<1>2. QED
  BY <1>1, Invariance, PTL

(* While an account exists, no attribute of its style profile is forgotten.  *)
THEOREM ProfilesOnlyGrow == Spec => ProfileNeverForgets
<1>1. IInv /\ [Next]_vars =>
        [\A u \in users' :
           /\ profile[u].face # None => profile'[u].face # None
           /\ profile[u].rest # None => profile'[u].rest # None]_vars
  <2>1. SUFFICES ASSUME IInv, Next, NEW u \in users', profile'[u] # profile[u]
                 PROVE  /\ profile[u].face # None => profile'[u].face # None
                        /\ profile[u].rest # None => profile'[u].rest # None
    OBVIOUS
  <2>2. ASSUME NEW v \in User, EraseAccount(v)
        PROVE  FALSE
    BY <2>1, <2>2 DEF EraseAccount, IInv, TypeOK
  <2>3. PICK r \in Request : UpdateProfile(r)
    BY <2>1, <2>2 DEF Next, Step, Submit, Abort, Begin, Lookup, Create, Relookup, Analyse,
                      Complete, Fail, EmitSignals
  <2>4. profile' = [profile EXCEPT ![u] = Merge(profile[u], r)]
    BY <2>1, <2>3 DEF UpdateProfile, IInv, TypeOK
  <2>5. QED
    BY <2>1, <2>3, <2>4, NoneAssumption DEF UpdateProfile, Merge, IInv, TypeOK
<1>2. QED
  BY <1>1, Invariance, PTL DEF Spec, ProfileNeverForgets
=============================================================================
