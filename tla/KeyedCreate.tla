----------------------------- MODULE KeyedCreate -----------------------------
(***************************************************************************)
(* What the contract's Idempotency-Key promises of a creating endpoint,    *)
(* whatever rows stand behind it (docs/api/API_CONTRACT_RULES.md, the      *)
(* docstrings of the use cases): under one slot, a key of one account, at  *)
(* most one creation lives; a submission either makes it, is handed that   *)
(* same creation when it fits the submission, or is told of the conflict;  *)
(* and a submission that was refused left nothing behind.  Every step is   *)
(* atomic.  The concrete write paths are shown to implement this module.   *)
(***************************************************************************)
CONSTANTS
    Request,  \* submissions
    Slot,     \* an account and one of its keys
    Payload,  \* what a submission asks for
    Content,  \* what a creation stored
    Fits,     \* the pairs of a payload and a content that answers it
    None      \* no creation; not a Content

VARIABLES
    ask,     \* what each request submits: a slot and a payload
    holder,  \* the content that lives under each slot
    reply    \* what each request was told

Reply ==
    [tag: {"waiting", "conflict", "refused"}]
      \cup [tag: {"created", "replayed"}, content: Content]

Fitting(r, c) == <<ask[r].payload, c>> \in Fits

Waiting(r) == reply[r].tag = "waiting"

Tell(r, what) == reply' = [reply EXCEPT ![r] = what]

Init ==
    /\ ask \in [Request -> [slot: Slot, payload: Payload]]
    /\ holder = [s \in Slot |-> None]
    /\ reply = [r \in Request |-> [tag |-> "waiting"]]

Create(r) ==
    LET s == ask[r].slot IN
    /\ Waiting(r)
    /\ holder[s] = None
    /\ \E c \in Content :
          /\ Fitting(r, c)
          /\ holder' = [holder EXCEPT ![s] = c]
          /\ Tell(r, [tag |-> "created", content |-> c])
    /\ UNCHANGED ask

Replay(r) ==
    LET c == holder[ask[r].slot] IN
    /\ Waiting(r)
    /\ c # None
    /\ Fitting(r, c)
    /\ Tell(r, [tag |-> "replayed", content |-> c])
    /\ UNCHANGED <<ask, holder>>

Conflict(r) ==
    LET c == holder[ask[r].slot] IN
    /\ Waiting(r)
    /\ c # None
    /\ ~ Fitting(r, c)
    /\ Tell(r, [tag |-> "conflict"])
    /\ UNCHANGED <<ask, holder>>

Refuse(r) ==
    /\ Waiting(r)
    /\ Tell(r, [tag |-> "refused"])
    /\ UNCHANGED <<ask, holder>>

(* The creations of some slots are deleted or erased. *)
Release(S) ==
    /\ holder' = [s \in Slot |-> IF s \in S THEN None ELSE holder[s]]
    /\ UNCHANGED <<ask, reply>>

Next ==
    \/ \E r \in Request : Create(r) \/ Replay(r) \/ Conflict(r) \/ Refuse(r)
    \/ \E S \in SUBSET Slot : Release(S)

Spec == Init /\ [][Next]_<<ask, holder, reply>>
=============================================================================
