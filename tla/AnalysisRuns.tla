---------------------------- MODULE AnalysisRuns ----------------------------
(***************************************************************************)
(* The analysis surface of the backend: the five use cases of              *)
(* application/analysis.py that create an analysis run (hairstyle from the *)
(* stored profile, hairstyle from an image, outfit, grooming, garment),    *)
(* run concurrently by the request threads of the API over one PostgreSQL  *)
(* database at READ COMMITTED.                                             *)
(*                                                                         *)
(* Every action is the code between two commits (or a read that another    *)
(* request can invalidate before the next statement).  A request creates   *)
(* at most one row of analysis_runs, so the row is named by its request:   *)
(* status[r] is the row's status and the row's other columns (owner,       *)
(* run_type, idempotency_key, contentHash) are those of input[r].          *)
(***************************************************************************)
EXTENDS Naturals, FiniteSets

CONSTANTS
    Request,  \* the submissions that may be in flight; also the run ids
    User,     \* accounts
    Key,      \* Idempotency-Key header values
    Image,    \* uploads, told apart by their SHA-256 contentHash
    None,     \* no key, no image, no value
    Inputs    \* the submissions clients may make, a subset of Input

ProfileOnly == {"hairstyle_profile", "grooming"}
Styling     == {"hairstyle_image", "outfit"}
Kind        == ProfileOnly \cup Styling \cup {"garment"}

RunType(kind) ==
    IF kind \in {"hairstyle_profile", "hairstyle_image"} THEN "hairstyle" ELSE kind

Input ==
    [user: User, kind: ProfileOnly, key: Key \cup {None}, image: {None}]
      \cup
    [user: User, kind: Kind \ ProfileOnly, key: Key \cup {None}, image: Image]

ASSUME InputsAssumption == Inputs \subseteq Input

ASSUME NoneAssumption ==
    /\ None \notin Request
    /\ None \notin Key
    /\ None \notin Image

VARIABLES
    users,    \* the accounts that exist
    input,    \* what each request submits (chosen once, initially)
    pc,       \* where each request is
    status,   \* analysis_runs.status of the row each request created
    found,    \* what the analysis port and the engine returned to the request
    answer,   \* the run_id a 202 answer named
    profile,  \* user_state.style_profile, each value as the run it came from
    applied,  \* the runs whose observation was merged into a style_profile
    traced,   \* the runs with their learning_signals rows
    styled    \* the users with today's activity_days row

vars == <<users, input, pc, status, found, answer, profile, applied, traced, styled>>

-----------------------------------------------------------------------------

Working   == {"begin", "lookup", "create", "relookup", "analyse", "finish",
              "profile", "signals"}
Answered  == {"accepted", "unprocessable", "conflict", "error"}
Terminal  == {"completed", "failed"}
Present   == {"pending"} \cup Terminal
RunStatus == {"absent", "erased"} \cup Present

(* What an analysis yields.  style: nothing; a measured appearance the      *)
(* decision engine then failed on; a styling result whose appearance has    *)
(* only the face shape; one with every attribute.  garment: whether the     *)
(* garment branch produced an observation.                                  *)
Finding == [style: {"none", "measured", "face", "full"}, garment: BOOLEAN]
Nothing == [style |-> "none", garment |-> FALSE]

StyleProfile == [face: Request \cup {None}, rest: Request \cup {None},
                 source: Request \cup {None}]
EmptyProfile == [face |-> None, rest |-> None, source |-> None]

TypeOK ==
    /\ users \in SUBSET User
    /\ input \in [Request -> Input]
    /\ pc \in [Request -> {"idle", "dead"} \cup Working \cup Answered]
    /\ status \in [Request -> RunStatus]
    /\ found \in [Request -> Finding]
    /\ answer \in [Request -> Request \cup {None}]
    /\ profile \in [User -> StyleProfile]
    /\ applied \in SUBSET Request
    /\ traced \in SUBSET Request
    /\ styled \in SUBSET User

Init ==
    /\ users = User
    /\ input \in [Request -> Inputs]
    /\ pc = [r \in Request |-> "idle"]
    /\ status = [r \in Request |-> "absent"]
    /\ found = [r \in Request |-> Nothing]
    /\ answer = [r \in Request |-> None]
    /\ profile = [u \in User |-> EmptyProfile]
    /\ applied = {}
    /\ traced = {}
    /\ styled = {}

-----------------------------------------------------------------------------

Goto(r, label) == pc' = [pc EXCEPT ![r] = label]

(* Faulty: takes a measured appearance for a styling result. *)
MeasuredIsEnough(f) == f.style # "none"

(* TRX-6 requires a styling result of the engine, not merely a measured     *)
(* appearance.                                                              *)
HasResult(f) == f.style \in {"face", "full"}

(* Does the analysis of a run of this kind yield anything to store?  An     *)
(* outfit run is complete with either of its two branches.                  *)
Useful(kind, f) ==
    CASE kind = "garment" -> f.garment
      [] kind = "outfit"  -> f.garment \/ HasResult(f)
      [] OTHER            -> HasResult(f)

(* What the ports and the engine can return to a use case of each kind.     *)
Findings(kind) ==
    LET Style(S) == [style: S, garment: {FALSE}] IN
    CASE kind \in ProfileOnly     -> Style({"none", "full"})
      [] kind = "hairstyle_image" -> Style({"none", "measured", "face", "full"})
      [] kind = "outfit"          -> Finding
      [] kind = "garment"         -> [style: {"none"}, garment: BOOLEAN]

(* The rows filed under the same account and the same key.                  *)
SameKey(r, q) ==
    /\ input[r].key # None
    /\ input[q].key = input[r].key
    /\ input[q].user = input[r].user

Holders(r) == {q \in Request : status[q] \in Present /\ SameKey(r, q)}

(* Faulty: the unique constraint is missing. *)
NeverTaken(r) == FALSE

(* uq_analysis_runs_idempotency refuses a second row.                       *)
Taken(r) == Holders(r) # {}

(* Faulty: blind to the image. *)
TypeAloneCompatible(r, q) == RunType(input[q].kind) = RunType(input[r].kind)

(* May request r be answered with run q?  The run type must agree, and the  *)
(* content hashes too when both submissions carry an image.                 *)
Compatible(r, q) ==
    /\ RunType(input[q].kind) = RunType(input[r].kind)
    /\ input[r].image # None /\ input[q].image # None => input[q].image = input[r].image

Replay(r, q) ==
    IF Compatible(r, q)
    THEN Goto(r, "accepted") /\ answer' = [answer EXCEPT ![r] = q]
    ELSE Goto(r, "conflict") /\ UNCHANGED answer

-----------------------------------------------------------------------------

(* A client submits; get_current_user_id resolves the session of an existing *)
(* account.                                                                  *)
Submit(r) ==
    /\ pc[r] = "idle"
    /\ input[r].user \in users
    /\ Goto(r, "begin")
    /\ UNCHANGED <<users, input, status, found, answer, profile, applied, traced, styled>>

(* The profile-only passes read style_profile and refuse without a face     *)
(* shape; the image passes validate the upload.                             *)
Begin(r) ==
    /\ pc[r] = "begin"
    /\ IF input[r].kind \in ProfileOnly
       THEN IF profile[input[r].user].face = None
            THEN Goto(r, "unprocessable")
            ELSE Goto(r, "lookup")
       ELSE \E valid \in BOOLEAN :
                Goto(r, IF valid THEN "lookup" ELSE "unprocessable")
    /\ UNCHANGED <<users, input, status, found, answer, profile, applied, traced, styled>>

(* runs.get_by_idempotency before the insert (skipped without a key).       *)
Lookup(r) ==
    /\ pc[r] = "lookup"
    /\ \/ /\ Holders(r) = {}
          /\ Goto(r, "create")
          /\ UNCHANGED answer
       \/ \E q \in Holders(r) : Replay(r, q)
    /\ UNCHANGED <<users, input, status, found, profile, applied, traced, styled>>

(* runs.create: INSERT + COMMIT of a pending row, refused by the unique     *)
(* constraint on (user_id, idempotency_key) or by the users foreign key.    *)
Create(r) ==
    /\ pc[r] = "create"
    /\ IF input[r].user \in users /\ ~ Taken(r)
       THEN /\ status' = [status EXCEPT ![r] = "pending"]
            /\ Goto(r, "analyse")
       ELSE /\ Goto(r, "relookup")
            /\ UNCHANGED status
    /\ UNCHANGED <<users, input, found, answer, profile, applied, traced, styled>>

(* Faulty: takes every integrity error for a lost race. *)
RelookupExpectingWinner(r) ==
    /\ pc[r] = "relookup"
    /\ \E q \in Holders(r) : Replay(r, q)
    /\ UNCHANGED <<users, input, status, found, profile, applied, traced, styled>>

(* except IntegrityError: re-read the winner of the key, or re-raise.       *)
Relookup(r) ==
    /\ pc[r] = "relookup"
    /\ \/ /\ Holders(r) = {}
          /\ Goto(r, "error")
          /\ UNCHANGED answer
       \/ \E q \in Holders(r) : Replay(r, q)
    /\ UNCHANGED <<users, input, status, found, profile, applied, traced, styled>>

(* The analysis ports and the decision engine: no database write.           *)
Analyse(r) ==
    /\ pc[r] = "analyse"
    /\ \E f \in Findings(input[r].kind) : found' = [found EXCEPT ![r] = f]
    /\ Goto(r, "finish")
    /\ UNCHANGED <<users, input, status, answer, profile, applied, traced, styled>>

(* complete_analysis_run / fail_analysis_run update the row only while it   *)
(* is pending and still there.                                              *)
Settle(r, outcome) ==
    status' = IF status[r] = "pending"
              THEN [status EXCEPT ![r] = outcome] ELSE status

(* Faulty: the signals are stored without the merge of the profile. *)
CompleteSkippingProfile(r) ==
    /\ pc[r] = "finish"
    /\ Useful(input[r].kind, found[r])
    /\ Settle(r, "completed")
    /\ Goto(r, IF status[r] # "pending" THEN "error" ELSE "signals")
    /\ UNCHANGED <<users, input, found, answer, profile, applied, traced, styled>>

(* runs.complete + COMMIT; False (the account was erased meanwhile) is a    *)
(* 500.  The styling kinds go on to TRX-6 when the engine had a result.     *)
Complete(r) ==
    /\ pc[r] = "finish"
    /\ Useful(input[r].kind, found[r])
    /\ Settle(r, "completed")
    /\ IF status[r] # "pending"
       THEN Goto(r, "error") /\ UNCHANGED answer
       ELSE IF input[r].kind \in Styling /\ HasResult(found[r])
       THEN Goto(r, "profile") /\ UNCHANGED answer
       ELSE Goto(r, "accepted") /\ answer' = [answer EXCEPT ![r] = r]
    /\ UNCHANGED <<users, input, found, profile, applied, traced, styled>>

(* Faulty: the run of a failed engine is answered but never settled. *)
FailUnsettled(r) ==
    /\ pc[r] = "finish"
    /\ ~ Useful(input[r].kind, found[r])
    /\ IF found[r].style = "measured" THEN UNCHANGED status ELSE Settle(r, "failed")
    /\ Goto(r, "accepted")
    /\ answer' = [answer EXCEPT ![r] = r]
    /\ UNCHANGED <<users, input, found, profile, applied, traced, styled>>

(* runs.fail + COMMIT; its result is ignored and the run id is answered.    *)
Fail(r) ==
    /\ pc[r] = "finish"
    /\ ~ Useful(input[r].kind, found[r])
    /\ Settle(r, "failed")
    /\ Goto(r, "accepted")
    /\ answer' = [answer EXCEPT ![r] = r]
    /\ UNCHANGED <<users, input, found, profile, applied, traced, styled>>

(* Faulty: replaces the profile instead of merging into it. *)
MergeWhole(p, r) ==
    [face |-> r, rest |-> IF found[r].style = "full" THEN r ELSE None, source |-> r]

(* The non-empty attributes over what the profile held. *)
Merge(p, r) ==
    [face |-> r, rest |-> IF found[r].style = "full" THEN r ELSE p.rest, source |-> r]

(* TRX-6, first commit: update_style_profile merges the attributes and the  *)
(* source run (an UPDATE of no row after an erasure).                       *)
UpdateProfile(r) ==
    LET u == input[r].user IN
    /\ pc[r] = "profile"
    /\ IF u \in users
       THEN /\ profile' = [profile EXCEPT ![u] = Merge(profile[u], r)]
            /\ applied' = applied \cup {r}
       ELSE UNCHANGED <<profile, applied>>
    /\ Goto(r, "signals")
    /\ UNCHANGED <<users, input, status, found, answer, traced, styled>>

(* TRX-6, second commit: the learning signals and the styled day together.  *)
(* The foreign key on users refuses them after an erasure.                  *)
EmitSignals(r) ==
    LET u == input[r].user IN
    /\ pc[r] = "signals"
    /\ IF u \in users
       THEN /\ traced' = traced \cup {r}
            /\ styled' = styled \cup {u}
            /\ answer' = [answer EXCEPT ![r] = r]
            /\ Goto(r, "accepted")
       ELSE /\ Goto(r, "error")
            /\ UNCHANGED <<traced, styled, answer>>
    /\ UNCHANGED <<users, input, status, found, profile, applied>>

Step(r) ==
    \/ Begin(r) \/ Lookup(r) \/ Create(r) \/ Relookup(r) \/ Analyse(r)
    \/ Complete(r) \/ Fail(r) \/ UpdateProfile(r) \/ EmitSignals(r)

(* The request ends before its next commit: the worker dies, the connection *)
(* drops, a statement raises outside the use case's handlers.  get_db       *)
(* closes the session, so nothing uncommitted survives, and nothing resumes *)
(* what was committed.                                                      *)
Abort(r) ==
    /\ pc[r] \in Working
    /\ Goto(r, "dead")
    /\ UNCHANGED <<users, input, status, found, answer, profile, applied, traced, styled>>

(* DELETE /users/me: one DELETE of the users row, cascading to its runs,    *)
(* user_state, signals and activity days.                                   *)
EraseAccount(u) ==
    /\ u \in users
    /\ users' = users \ {u}
    /\ status' = [r \in Request |->
                    IF input[r].user = u /\ status[r] \in Present
                    THEN "erased" ELSE status[r]]
    /\ profile' = [profile EXCEPT ![u] = EmptyProfile]
    /\ traced' = {r \in traced : input[r].user # u}
    /\ styled' = styled \ {u}
    /\ UNCHANGED <<input, pc, found, answer, applied>>

Next ==
    \/ \E r \in Request : Submit(r) \/ Step(r) \/ Abort(r)
    \/ \E u \in User : EraseAccount(u)

Spec == Init /\ [][Next]_vars

(* A request thread that is not killed runs its handler to the end.         *)
FairSpec == Spec /\ \A r \in Request : WF_vars(Step(r))

-----------------------------------------------------------------------------

(* One key, one run: two submissions of an account with the same            *)
(* Idempotency-Key that are both accepted are given the same run id, however *)
(* their lookups and inserts interleave and whatever an erasure removes.    *)
SameKeySameRun ==
    \A r, q \in Request :
        /\ SameKey(r, q)
        /\ pc[r] = "accepted"
        /\ pc[q] = "accepted"
        => answer[r] = answer[q]

(* The run a 202 names is the submitter's own or, under its key, one of the *)
(* same account and run type, of the same image when both carried one: the  *)
(* loser of an insert race is checked as strictly as a plain replay.        *)
AnswerFitsSubmission ==
    \A r \in Request :
        pc[r] = "accepted" =>
            /\ answer[r] # None
            /\ status[answer[r]] # "absent"
            /\ \/ answer[r] = r
               \/ LET mine == input[r]
                      its  == input[answer[r]]
                  IN  /\ SameKey(r, answer[r])
                      /\ RunType(its.kind) = RunType(mine.kind)
                      /\ \/ its.image = mine.image
                         \/ None \in {its.image, mine.image}

(* Never a stuck pending run: a row is pending only while the request that  *)
(* created it is still working on it, or after that request died; every     *)
(* failure of a port or the engine is settled before anything is answered.  *)
StuckOnlyByDeath ==
    \A r \in Request : status[r] = "pending" => pc[r] \in {"analyse", "finish", "dead"}

(* The run r is one whose observation may stand in the profile of u. *)
Vouches(r, u) ==
    /\ status[r] = "completed"
    /\ input[r].user = u
    /\ input[r].kind \in Styling
    /\ found[r].style \in {"face", "full"}

(* Every attribute of a stored style profile was observed by a completed    *)
(* styling run of the same account that had an engine result; the face      *)
(* shape is the one the named source run observed, and an older attribute   *)
(* survives only beside it (no attribute without a source).                 *)
ProfileProvenance ==
    \A u \in User :
        LET p == profile[u] IN
        /\ p.face = p.source
        /\ p.source # None => Vouches(p.source, u)
        /\ p.rest # None =>
              p.source # None /\ Vouches(p.rest, u) /\ found[p.rest].style = "full"

(* Signals are earned: a run has learning signals only when it completed,   *)
(* its observation was merged into the profile first, and the styled day of *)
(* the same commit is there.                                                *)
TraceIsEarned ==
    \A r \in traced :
        /\ status[r] = "completed"
        /\ r \in applied
        /\ input[r].user \in styled
        /\ profile[input[r].user].source # None

(* TRX-6 as documented: an accepted analysis is never applied to the        *)
(* profile without its trace.  (A request between its two commits is given  *)
(* the benefit of the doubt.)                                               *)
AppliedIsTraced ==
    \A r \in applied :
        \/ pc[r] = "signals"
        \/ status[r] = "erased"
        \/ r \in traced

(* A partial analysis never erases what the profile already knew: while the *)
(* account exists, an attribute once known stays known.                     *)
ProfileNeverForgets ==
    [][\A u \in users' :
         /\ profile[u].face # None => profile'[u].face # None
         /\ profile[u].rest # None => profile'[u].rest # None]_vars

(* Under fair request threads every submission is answered, unless its      *)
(* thread dies: no path of the handler waits for another request.           *)
RequestsAreAnswered ==
    \A r \in Request : pc[r] = "begin" ~> pc[r] \in Answered \cup {"dead"}
=============================================================================
