----------------------------- MODULE SavedLooks -----------------------------
(***************************************************************************)
(* Saving a recommendation and reacting to it: SaveRecommendation and       *)
(* DeleteSavedLook (application/saved_looks.py) and                         *)
(* SubmitRecommendationFeedback (application/feedback.py), with the         *)
(* deletion of wardrobe items and of accounts running beside them.          *)
(*                                                                         *)
(* A request writes at most one row of saved_looks or of feedback_events,   *)
(* and the row is named by its request.  tx[r] is what the open transaction *)
(* of a save has written and not yet committed; while it is open it holds   *)
(* the unique index entry of its key, a share lock on the users row (the    *)
(* foreign key) and, once written, the activity_days row of the day.  All   *)
(* of it happens on one calendar day.                                       *)
(***************************************************************************)
EXTENDS FiniteSets

CONSTANTS
    Request,  \* the submissions; also the ids of the rows they write
    User,
    Key,      \* Idempotency-Key values
    Item,     \* wardrobe items
    Owner,    \* the account of each item
    Body,     \* the rest of a payload: title, look, context; rating, reason
    None,     \* no target
    Inputs    \* the submissions clients may make

(* selectedItemIds are validated for the outfit and daily contexts only; a  *)
(* save of another context is one without items.                            *)
Save     == [op: {"save"}, user: User, key: Key, body: Body, items: SUBSET Item]
Reaction == [op: {"react"}, user: User, key: Key, body: Body,
             target: Request \cup {None}]
Input    == Save \cup Reaction

ASSUME InputsAssumption == Inputs \subseteq Input

ASSUME OwnerAssumption == Owner \in [Item -> User]

ASSUME NoneAssumption == None \notin Request

VARIABLES
    users,    \* the accounts that exist
    items,    \* the wardrobe items that exist
    input,    \* what each request submits (chosen once, initially)
    pc,       \* where each request is
    tx,       \* the uncommitted writes of each save
    look,     \* the saved_looks row of each save
    signals,  \* the saves whose look_saved signal is committed
    styled,   \* the users with today's activity_days row
    reacted,  \* the requests with a feedback_events row
    target,   \* target_saved_look_id of those rows
    answer    \* the row a 200 or 201 answer carried

vars == <<users, items, input, pc, tx, look, signals, styled, reacted, target, answer>>
rows == <<look, signals, styled, reacted, target>>

-----------------------------------------------------------------------------

Working  == {"check", "lookup", "insert", "signal", "day", "commit"}
Answered == {"created", "replayed", "conflict", "invalid", "notfound", "error"}
Writes   == {"look", "signal", "day"}

TypeOK ==
    /\ users \in SUBSET User
    /\ items \in SUBSET Item
    /\ input \in [Request -> Input]
    /\ pc \in [Request -> {"idle", "dead"} \cup Working \cup Answered]
    /\ tx \in [Request -> SUBSET Writes]
    /\ look \in [Request -> {"absent", "kept", "deleted", "erased"}]
    /\ signals \in SUBSET Request
    /\ styled \in SUBSET User
    /\ reacted \in SUBSET Request
    /\ target \in [Request -> Request \cup {None}]
    /\ answer \in [Request -> Request \cup {None}]

Init ==
    /\ users = User
    /\ items = Item
    /\ input \in [Request -> Inputs]
    /\ pc = [r \in Request |-> "idle"]
    /\ tx = [r \in Request |-> {}]
    /\ look = [r \in Request |-> "absent"]
    /\ signals = {}
    /\ styled = {}
    /\ reacted = {}
    /\ target = [r \in Request |-> None]
    /\ answer = [r \in Request |-> None]

-----------------------------------------------------------------------------

Goto(r, label) == pc' = [pc EXCEPT ![r] = label]

Give(r, q) == answer' = [answer EXCEPT ![r] = q]

IsSave(r) == input[r].op = "save"

SameUser(r, q) == input[q].user = input[r].user

SameKey(r, q) ==
    SameUser(r, q) /\ input[q].op = input[r].op /\ input[q].key = input[r].key

(* The committed rows under the key of r (one index per table). *)
Holders(r) ==
    {q \in Request : SameKey(r, q) /\ (look[q] = "kept" \/ q \in reacted)}

(* Refused by uq_saved_looks_idempotency, or by the users foreign key. *)
Refused(r) == Holders(r) # {} \/ input[r].user \notin users

(* Faulty: blind to the items of a save and to the target of a reaction. *)
BodyAlone(r, q) == input[q].body = input[r].body

(* The same-payload comparison of a replay with the row as it is now.      *)
SamePayload(r, q) ==
    /\ input[q].body = input[r].body
    /\ IF IsSave(r) THEN input[q].items = input[r].items ELSE target[q] = input[r].target

(* The owned saved look a reaction may target. *)
IsOwnLook(r, q) == q \in Request /\ look[q] = "kept" /\ SameUser(r, q)

-----------------------------------------------------------------------------

(* A client submits; vocabulary, bounds and the catalog look are checked    *)
(* first (422, 404).                                                        *)
Submit(r) ==
    /\ pc[r] = "idle"
    /\ input[r].user \in users
    /\ \E next \in {"check", "invalid", "notfound"} : Goto(r, next)
    /\ UNCHANGED <<users, items, input, tx, rows, answer>>

(* Every selected item must be in the owner's wardrobe, and the target of   *)
(* a reaction an owned saved look: 404 otherwise, before the key is looked  *)
(* up.                                                                      *)
Check(r) ==
    /\ pc[r] = "check"
    /\ LET ok == IF IsSave(r)
                 THEN \A i \in input[r].items : i \in items /\ Owner[i] = input[r].user
                 ELSE input[r].target = None \/ IsOwnLook(r, input[r].target)
       IN  Goto(r, IF ok THEN "lookup" ELSE "notfound")
    /\ UNCHANGED <<users, items, input, tx, rows, answer>>

(* get_by_idempotency: the original row, 409, or go on to the insert. *)
Lookup(r) ==
    /\ pc[r] = "lookup"
    /\ \/ /\ Holders(r) = {}
          /\ Goto(r, "insert")
          /\ UNCHANGED answer
       \/ \E q \in Holders(r) :
            IF SamePayload(r, q)
            THEN Goto(r, "replayed") /\ Give(r, q)
            ELSE Goto(r, "conflict") /\ UNCHANGED answer
    /\ UNCHANGED <<users, items, input, tx, rows>>

(* The saved_looks insert waits for an open writer of its key. *)
InsertLook(r) ==
    /\ pc[r] = "insert"
    /\ IsSave(r)
    /\ ~ \E q \in Request \ {r} : SameKey(r, q) /\ "look" \in tx[q]
    /\ IF Refused(r)
       THEN Goto(r, "error") /\ UNCHANGED tx
       ELSE Goto(r, "signal") /\ tx' = [tx EXCEPT ![r] = {"look"}]
    /\ UNCHANGED <<users, items, input, rows, answer>>

(* insert_look_saved, in the same transaction. *)
InsertSignal(r) ==
    /\ pc[r] = "signal"
    /\ tx' = [tx EXCEPT ![r] = @ \cup {"signal"}]
    /\ Goto(r, "day")
    /\ UNCHANGED <<users, items, input, rows, answer>>

(* mark_styled_today: the upsert waits for an open writer of the same day.  *)
MarkStyled(r) ==
    /\ pc[r] = "day"
    /\ ~ \E q \in Request \ {r} : SameUser(r, q) /\ "day" \in tx[q]
    /\ tx' = [tx EXCEPT ![r] = @ \cup {"day"}]
    /\ Goto(r, "commit")
    /\ UNCHANGED <<users, items, input, rows, answer>>

(* TRX-3: the look, its signal and the styled day become visible together.  *)
CommitSave(r) ==
    /\ pc[r] = "commit"
    /\ look' = [look EXCEPT ![r] = "kept"]
    /\ signals' = signals \cup {r}
    /\ styled' = styled \cup {input[r].user}
    /\ tx' = [tx EXCEPT ![r] = {}]
    /\ Goto(r, "created")
    /\ Give(r, r)
    /\ UNCHANGED <<users, items, input, reacted, target>>

(* Faulty: the signal was committed on its own. *)
FailsKeepingSignal(r) ==
    /\ pc[r] \in {"insert", "signal", "day", "commit"}
    /\ signals' = IF "signal" \in tx[r] THEN signals \cup {r} ELSE signals
    /\ tx' = [tx EXCEPT ![r] = {}]
    /\ Goto(r, "error")
    /\ UNCHANGED <<users, items, input, look, styled, reacted, target, answer>>

(* A statement of the transaction raises (a lost connection, a source run   *)
(* that does not exist): rollback and 500.                                  *)
Fails(r) ==
    /\ pc[r] \in {"insert", "signal", "day", "commit"}
    /\ tx' = [tx EXCEPT ![r] = {}]
    /\ Goto(r, "error")
    /\ UNCHANGED <<users, items, input, rows, answer>>

(* Faulty: target_saved_look_id has no foreign key. *)
ReactUnchecked(r) ==
    /\ pc[r] = "insert"
    /\ ~ IsSave(r)
    /\ IF Refused(r)
       THEN Goto(r, "error") /\ UNCHANGED <<reacted, target, answer>>
       ELSE /\ reacted' = reacted \cup {r}
            /\ target' = [target EXCEPT ![r] = input[r].target]
            /\ Goto(r, "created")
            /\ Give(r, r)
    /\ UNCHANGED <<users, items, input, tx, look, signals, styled>>

(* The feedback_events insert and its commit; refused as well by the        *)
(* foreign key when the target was deleted after the check.                 *)
React(r) ==
    /\ pc[r] = "insert"
    /\ ~ IsSave(r)
    /\ IF \/ Refused(r)
          \/ input[r].target # None /\ look[input[r].target] # "kept"
       THEN Goto(r, "error") /\ UNCHANGED <<reacted, target, answer>>
       ELSE /\ reacted' = reacted \cup {r}
            /\ target' = [target EXCEPT ![r] = input[r].target]
            /\ Goto(r, "created")
            /\ Give(r, r)
    /\ UNCHANGED <<users, items, input, tx, look, signals, styled>>

Step(r) ==
    \/ Check(r) \/ Lookup(r) \/ InsertLook(r) \/ InsertSignal(r) \/ MarkStyled(r)
    \/ CommitSave(r) \/ React(r)

(* Faulty: the session is never closed, so its transaction stays open. *)
AbortHoldingLocks(r) ==
    /\ pc[r] \in Working
    /\ Goto(r, "dead")
    /\ UNCHANGED <<users, items, input, tx, rows, answer>>

(* The request dies before its commit; the database rolls it back. *)
Abort(r) ==
    /\ pc[r] \in Working
    /\ tx' = [tx EXCEPT ![r] = {}]
    /\ Goto(r, "dead")
    /\ UNCHANGED <<users, items, input, rows, answer>>

(* Faulty: ON DELETE CASCADE from a saved look to the reactions on it. *)
DeleteLookCascading(q) ==
    /\ look[q] = "kept"
    /\ look' = [look EXCEPT ![q] = "deleted"]
    /\ target' = [r \in Request |-> IF target[r] = q THEN None ELSE target[r]]
    /\ reacted' = {r \in reacted : target[r] # q}
    /\ UNCHANGED <<users, items, input, pc, tx, signals, styled, answer>>

(* DELETE /v1/looks/saved/{id}: the row goes, its signal stays, and the     *)
(* reactions that target it lose their target (ON DELETE SET NULL).         *)
DeleteLook(q) ==
    /\ look[q] = "kept"
    /\ look' = [look EXCEPT ![q] = "deleted"]
    /\ target' = [r \in Request |-> IF target[r] = q THEN None ELSE target[r]]
    /\ UNCHANGED <<users, items, input, pc, tx, signals, styled, reacted, answer>>

(* DELETE /v1/wardrobe/items/{id}: a snapshot keeps the id of the item. *)
DeleteItem(i) ==
    /\ i \in items
    /\ items' = items \ {i}
    /\ UNCHANGED <<users, input, pc, tx, rows, answer>>

(* DELETE /users/me waits for the open transactions that reference the      *)
(* account, then cascades to everything it owns.                            *)
EraseAccount(u) ==
    LET mine == {r \in Request : input[r].user = u} IN
    /\ u \in users
    /\ \A r \in mine : tx[r] = {}
    /\ users' = users \ {u}
    /\ items' = {i \in items : Owner[i] # u}
    /\ look' = [r \in Request |->
                   IF r \in mine /\ look[r] = "kept" THEN "erased" ELSE look[r]]
    /\ signals' = signals \ mine
    /\ styled' = styled \ {u}
    /\ reacted' = reacted \ mine
    /\ target' = [r \in Request |-> IF r \in mine THEN None ELSE target[r]]
    /\ UNCHANGED <<input, pc, tx, answer>>

Next ==
    \/ \E r \in Request : Submit(r) \/ Step(r) \/ Fails(r) \/ Abort(r) \/ DeleteLook(r)
    \/ \E i \in Item : DeleteItem(i)
    \/ \E u \in User : EraseAccount(u)

Spec == Init /\ [][Next]_vars

(* A request thread that is not killed runs its handler to the end, and the *)
(* database wakes a statement whose lock is free.                           *)
FairSpec == Spec /\ \A r \in Request : WF_vars(Step(r))

-----------------------------------------------------------------------------

(* TRX-3, all or nothing: a stored save has its signal and its styled day,  *)
(* and a signal stands for a save that was stored, whichever statement,     *)
(* request or account dies on the way and whatever is deleted later.        *)
SaveIsWhole ==
    \A r \in Request :
        /\ look[r] = "kept" => r \in signals /\ input[r].user \in styled
        /\ r \in signals => look[r] \in {"kept", "deleted"}

(* One live row per key and table: among the submissions of a key, at most  *)
(* one has a stored row or is past its insert, though each of them may have *)
(* looked the key up before any of them inserted.                           *)
OneRowPerKey ==
    LET live == {r \in Request : look[r] = "kept" \/ tx[r] # {} \/ r \in reacted}
    IN  \A r, q \in live : SameKey(r, q) => r = q

(* A stored reaction never points at a saved look that is gone or belongs   *)
(* to another account, even when the look is deleted between the check of   *)
(* the target and the insert.                                               *)
NoDanglingTarget ==
    \A r \in Request :
        target[r] # None => r \in reacted /\ IsOwnLook(r, target[r])

(* Reactions are append-only history: only the erasure of the account       *)
(* removes one, never the deletion of what it targets.                      *)
ReactionsSurvive ==
    [][\A r \in reacted : input[r].user \in users' => r \in reacted']_vars

(* Under fair request threads every submission past its validation is       *)
(* answered unless its thread dies: the waits on the key and on the styled  *)
(* day end.                                                                 *)
RequestsAreAnswered ==
    \A r \in Request : pc[r] = "check" ~> pc[r] \in Answered \cup {"dead"}

(* The docstring of saved_looks.py: a repeated key with the same payload    *)
(* returns the original save; it is not turned away by the item check while *)
(* the original is stored.                                                  *)
RepeatedSaveIsRecognised ==
    [][\A r \in Request :
         pc[r] = "check" /\ IsSave(r) /\ pc'[r] = "notfound" =>
            ~ \E q \in Holders(r) : SamePayload(r, q)]_vars

(* The docstring of feedback.py: a repeated key with a different payload is *)
(* a conflict; what is replayed was submitted with the same target.         *)
ReplayedReactionMatches ==
    \A r \in Request :
        pc[r] = "replayed" /\ ~ IsSave(r) => input[answer[r]].target = input[r].target

-----------------------------------------------------------------------------

(* The promise of the Idempotency-Key, for the saves.  Reactions stay out   *)
(* of it: what they stored changes when their target is deleted.            *)
Saved(r) == [body |-> input[r].body, items |-> IF IsSave(r) THEN input[r].items ELSE {}]

Asked == [r \in Request |-> [slot |-> <<input[r].user, input[r].key>>, payload |-> Saved(r)]]

Held == [s \in User \X Key |->
            IF \E r \in Request : look[r] = "kept" /\ Asked[r].slot = s
            THEN Saved(CHOOSE r \in Request : look[r] = "kept" /\ Asked[r].slot = s)
            ELSE None]

(* What a request was told; a reaction is not part of the promise.          *)
Outcome(r) ==
    CASE ~ IsSave(r) -> [tag |-> "waiting"]
      [] IsSave(r) /\ pc[r] \in {"created", "replayed"} ->
            [tag |-> pc[r], content |-> Saved(answer[r])]
      [] IsSave(r) /\ pc[r] = "conflict" -> [tag |-> "conflict"]
      [] IsSave(r) /\ pc[r] \in {"invalid", "notfound", "error", "dead"} ->
            [tag |-> "refused"]
      [] OTHER -> [tag |-> "waiting"]

Told == [r \in Request |-> Outcome(r)]

SaveContent == [body: Body, items: SUBSET Item]

ASSUME NoneIsNoContent == None \notin SaveContent

Promise == INSTANCE KeyedCreate WITH
    Slot    <- User \X Key,
    Payload <- SaveContent,
    Content <- SaveContent,
    Fits    <- {<<c, c>> : c \in SaveContent},
    ask     <- Asked,
    holder  <- Held,
    reply   <- Told

(* A save implements the promise: its commit is the creation, its lookup    *)
(* the replay or the conflict, and every other outcome leaves nothing.      *)
KeepsPromise == Promise!Spec
=============================================================================
