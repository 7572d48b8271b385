------------------------------- MODULE WearLog -------------------------------
(***************************************************************************)
(* POST /v1/wardrobe/wears: LogWearEvents (application/wardrobe.py) over    *)
(* the ledger wardrobe_wear_groups and the rows wardrobe_wear_events, with  *)
(* the deletion of wardrobe items and of accounts running beside it.        *)
(*                                                                         *)
(* A request writes one ledger row and one event row per item in a single  *)
(* transaction; both are named by the request.  While the transaction is   *)
(* open its ledger row holds the entry of the unique index on the account  *)
(* and the key, so another insert under that key waits for its end, and    *)
(* its foreign key holds a share lock on the users row, so the erasure of  *)
(* the account waits as well.                                              *)
(*                                                                         *)
(* Items are only deleted here: an item added later cannot be named by a   *)
(* request that was submitted before it.                                   *)
(***************************************************************************)
EXTENDS Integers, FiniteSets

CONSTANTS
    Request,   \* the submissions; also the ids of ledger rows
    User,
    Key,       \* Idempotency-Key values
    Item,      \* wardrobe items
    Owner,     \* the account of each item
    Instant,   \* readings of the clock
    Leeway,    \* _WORN_AT_FUTURE_LEEWAY
    MaxItems,  \* _MAX_WEAR_ITEMS
    None,      \* wornAt omitted, no group
    Inputs     \* the submissions clients may make

Input == [user: User, key: Key, items: SUBSET Item, wornAt: Instant \cup {None}]

ASSUME InputsAssumption == Inputs \subseteq Input

ASSUME OwnerAssumption == Owner \in [Item -> User]

ASSUME ClockAssumption == Instant \subseteq Int /\ Instant # {} /\ Leeway \in Nat

ASSUME MaxItemsAssumption == MaxItems \in Nat \ {0}

ASSUME NoneAssumption == None \notin Instant /\ None \notin Request

VARIABLES
    users,  \* the accounts that exist
    items,  \* the wardrobe items that exist
    input,  \* what each request submits (chosen once, initially)
    pc,     \* where each request is
    stamp,  \* effective_worn_at, once computed
    group,  \* the ledger row of each request: in an open transaction, kept ...
    rows,   \* the items with an event row under that ledger row
    seen,   \* the group a replay found
    got     \* the items of the event rows a 200 or 201 answer listed

vars == <<users, items, input, pc, stamp, group, rows, seen, got>>

-----------------------------------------------------------------------------

Working  == {"validate", "check", "insert", "log", "reread", "rows"}
Answered == {"created", "replayed", "conflict", "invalid", "notfound", "error"}

TypeOK ==
    /\ users \in SUBSET User
    /\ items \in SUBSET Item
    /\ input \in [Request -> Input]
    /\ pc \in [Request -> {"idle", "dead"} \cup Working \cup Answered]
    /\ stamp \in [Request -> Instant \cup {None}]
    /\ group \in [Request -> {"absent", "open", "kept", "erased"}]
    /\ rows \in [Request -> SUBSET Item]
    /\ seen \in [Request -> Request \cup {None}]
    /\ got \in [Request -> SUBSET Item]

Init ==
    /\ users = User
    /\ items = Item
    /\ input \in [Request -> Inputs]
    /\ pc = [r \in Request |-> "idle"]
    /\ stamp = [r \in Request |-> None]
    /\ group = [r \in Request |-> "absent"]
    /\ rows = [r \in Request |-> {}]
    /\ seen = [r \in Request |-> None]
    /\ got = [r \in Request |-> {}]

-----------------------------------------------------------------------------

Goto(r, label) == pc' = [pc EXCEPT ![r] = label]

SameKey(r, q) == input[q].user = input[r].user /\ input[q].key = input[r].key

(* The committed ledger rows under the key of r.                           *)
Kept(r) == {q \in Request : group[q] = "kept" /\ SameKey(r, q)}

(* The open transactions the unique index makes an insert by r wait for.   *)
Writers(r) == {q \in Request \ {r} : group[q] = "open" /\ SameKey(r, q)}

(* Faulty comparisons, each blind to half of the payload. *)
ItemsAlone(r, q) == input[q].items = input[r].items
InstantAlone(r, q) == input[r].wornAt \in {None, stamp[q]}

(* The payload comparison of _replay_or_conflict: the items, and the       *)
(* instant when the client supplied one.                                   *)
Matches(r, q) ==
    /\ input[q].items = input[r].items
    /\ input[r].wornAt \in {None, stamp[q]}

-----------------------------------------------------------------------------

(* A client submits with the session of an existing account. *)
Submit(r) ==
    /\ pc[r] = "idle"
    /\ input[r].user \in users
    /\ Goto(r, "validate")
    /\ UNCHANGED <<users, items, input, stamp, group, rows, seen, got>>

(* The bounds on the items, and worn_at against the server's clock. *)
Validate(r) ==
    /\ pc[r] = "validate"
    /\ \E now \in Instant :
          LET at == IF input[r].wornAt = None THEN now ELSE input[r].wornAt IN
          IF Cardinality(input[r].items) \in 1 .. MaxItems /\ at <= now + Leeway
          THEN Goto(r, "check") /\ stamp' = [stamp EXCEPT ![r] = at]
          ELSE Goto(r, "invalid") /\ UNCHANGED stamp
    /\ UNCHANGED <<users, items, input, group, rows, seen, got>>

(* Every item must be in the owner's current wardrobe.  The code asks for   *)
(* them one by one; items only go, so the outcomes are those of one look.   *)
CheckItems(r) ==
    /\ pc[r] = "check"
    /\ IF \A i \in input[r].items : i \in items /\ Owner[i] = input[r].user
       THEN Goto(r, "insert")
       ELSE Goto(r, "notfound")
    /\ UNCHANGED <<users, items, input, stamp, group, rows, seen, got>>

(* create_group: the insert waits for an open writer of the key; it raises  *)
(* IntegrityError, and the use case rolls back, when the key is taken or    *)
(* the account is gone.                                                     *)
CreateGroup(r) ==
    /\ pc[r] = "insert"
    /\ Writers(r) = {}
    /\ IF Kept(r) = {} /\ input[r].user \in users
       THEN /\ group' = [group EXCEPT ![r] = "open"]
            /\ Goto(r, "log")
       ELSE /\ Goto(r, "reread")
            /\ UNCHANGED group
    /\ UNCHANGED <<users, items, input, stamp, rows, seen, got>>

(* wears.log: one event row, flushed in the same transaction. *)
LogRow(r) ==
    /\ pc[r] = "log"
    /\ \E i \in input[r].items \ rows[r] : rows' = [rows EXCEPT ![r] = @ \cup {i}]
    /\ UNCHANGED <<users, items, input, pc, stamp, group, seen, got>>

(* Faulty: a commit after each row instead of one after the last. *)
CommitEarly(r) ==
    /\ pc[r] = "log"
    /\ rows[r] # {}
    /\ group' = [group EXCEPT ![r] = "kept"]
    /\ got' = [got EXCEPT ![r] = rows[r]]
    /\ IF rows[r] = input[r].items THEN Goto(r, "created") ELSE UNCHANGED pc
    /\ UNCHANGED <<users, items, input, stamp, rows, seen>>

(* One commit covers the ledger row and every event row. *)
Commit(r) ==
    /\ pc[r] = "log"
    /\ rows[r] = input[r].items
    /\ group' = [group EXCEPT ![r] = "kept"]
    /\ got' = [got EXCEPT ![r] = rows[r]]
    /\ Goto(r, "created")
    /\ UNCHANGED <<users, items, input, stamp, rows, seen>>

(* A flush or the commit raises: rollback of the ledger row and its rows. *)
LogFails(r) ==
    /\ pc[r] = "log"
    /\ group' = [group EXCEPT ![r] = "absent"]
    /\ rows' = [rows EXCEPT ![r] = {}]
    /\ Goto(r, "error")
    /\ UNCHANGED <<users, items, input, stamp, seen, got>>

(* groups.get_by_idempotency after the rollback: replay, 409, or 500 when   *)
(* nobody holds the key.                                                    *)
Reread(r) ==
    /\ pc[r] = "reread"
    /\ \/ /\ Kept(r) = {}
          /\ Goto(r, "error")
          /\ UNCHANGED seen
       \/ \E q \in Kept(r) :
            IF Matches(r, q)
            THEN Goto(r, "rows") /\ seen' = [seen EXCEPT ![r] = q]
            ELSE Goto(r, "conflict") /\ UNCHANGED seen
    /\ UNCHANGED <<users, items, input, stamp, group, rows, got>>

(* wears.get_by_idempotency, a second statement: the member rows that are   *)
(* committed now.                                                           *)
ReadRows(r) ==
    LET q == seen[r] IN
    /\ pc[r] = "rows"
    /\ got' = [got EXCEPT ![r] = IF group[q] = "kept" THEN rows[q] ELSE {}]
    /\ Goto(r, "replayed")
    /\ UNCHANGED <<users, items, input, stamp, group, rows, seen>>

Step(r) ==
    \/ Validate(r) \/ CheckItems(r) \/ CreateGroup(r) \/ LogRow(r)
    \/ Commit(r) \/ Reread(r) \/ ReadRows(r)

(* Faulty: the session is never closed, so its transaction stays open. *)
AbortHoldingLocks(r) ==
    /\ pc[r] \in Working
    /\ Goto(r, "dead")
    /\ UNCHANGED <<users, items, input, stamp, group, rows, seen, got>>

(* The request dies before its commit (the worker, the connection, or an    *)
(* exception outside the handlers): the database rolls the open             *)
(* transaction back.                                                        *)
Abort(r) ==
    /\ pc[r] \in Working
    /\ Goto(r, "dead")
    /\ group' = [group EXCEPT ![r] = IF @ = "open" THEN "absent" ELSE @]
    /\ rows' = [rows EXCEPT ![r] = IF group[r] = "open" THEN {} ELSE @]
    /\ UNCHANGED <<users, items, input, stamp, seen, got>>

(* Faulty: the deletion of an item cascades to its wear events. *)
DeleteItemCascading(i) ==
    /\ i \in items
    /\ items' = items \ {i}
    /\ rows' = [r \in Request |-> IF group[r] = "kept" THEN rows[r] \ {i} ELSE rows[r]]
    /\ UNCHANGED <<users, input, pc, stamp, group, seen, got>>

(* DELETE /v1/wardrobe/items/{id}: the event rows have no foreign key to it. *)
DeleteItem(i) ==
    /\ i \in items
    /\ items' = items \ {i}
    /\ UNCHANGED <<users, input, pc, stamp, group, rows, seen, got>>

(* DELETE /users/me waits for the open transactions that reference the      *)
(* account, then cascades to its items, ledger rows and event rows.         *)
EraseAccount(u) ==
    LET mine == {r \in Request : input[r].user = u} IN
    /\ u \in users
    /\ \A r \in mine : group[r] # "open"
    /\ users' = users \ {u}
    /\ items' = {i \in items : Owner[i] # u}
    /\ group' = [r \in Request |->
                    IF r \in mine /\ group[r] = "kept" THEN "erased" ELSE group[r]]
    /\ rows' = [r \in Request |-> IF r \in mine THEN {} ELSE rows[r]]
    /\ UNCHANGED <<input, pc, stamp, seen, got>>

Next ==
    \/ \E r \in Request : Submit(r) \/ Step(r) \/ LogFails(r) \/ Abort(r)
    \/ \E i \in Item : DeleteItem(i)
    \/ \E u \in User : EraseAccount(u)

Spec == Init /\ [][Next]_vars

(* A request thread that is not killed runs its handler to the end, and the *)
(* database wakes an insert whose writer has ended.                         *)
FairSpec == Spec /\ \A r \in Request : WF_vars(Step(r))

-----------------------------------------------------------------------------

(* All or nothing: a committed ledger row has an event row for exactly the  *)
(* items it names, and no event row survives without its ledger row,        *)
(* whichever flush, commit, request or account dies on the way.             *)
WholeActions ==
    \A r \in Request :
        /\ group[r] = "kept" => rows[r] = input[r].items
        /\ group[r] \in {"absent", "erased"} => rows[r] = {}

(* The ledger arbitrates: of the writers of one key at most one is past its *)
(* insert, so no two actions can fuse their rows under it, and a committed  *)
(* action bars every later one.                                             *)
OneWriterPerKey ==
    \A r, q \in Request :
        SameKey(r, q) /\ group[r] \in {"open", "kept"} /\ group[q] \in {"open", "kept"}
            => r = q

(* A replay lists what the original action lists: rows for exactly the      *)
(* items submitted, unless the account was erased between the two reads of  *)
(* the replay, and then nothing.                                            *)
ReplayListsOriginal ==
    \A r \in Request :
        pc[r] = "replayed" =>
            \/ got[r] = input[r].items /\ group[seen[r]] \in {"kept", "erased"}
            \/ got[r] = {} /\ group[seen[r]] = "erased"

(* Wear history is never mutated: while the account exists, a committed     *)
(* action keeps its ledger row, its event rows and its instant, whatever    *)
(* happens to the items.                                                    *)
HistoryIsImmutable ==
    [][\A r \in Request :
         group[r] = "kept" /\ input[r].user \in users' =>
            /\ group'[r] = "kept"
            /\ rows'[r] = rows[r]
            /\ stamp'[r] = stamp[r]]_vars

(* Under fair request threads every submission is answered unless its       *)
(* thread dies: waiting on the ledger index never hangs a request.          *)
RequestsAreAnswered ==
    \A r \in Request : pc[r] = "validate" ~> pc[r] \in Answered \cup {"dead"}

-----------------------------------------------------------------------------

(* The promise of the Idempotency-Key, seen through the ledger: the slot of *)
(* an account and a key holds the committed action of that key.             *)
Asked == [r \in Request |->
            [slot    |-> <<input[r].user, input[r].key>>,
             payload |-> [items |-> input[r].items, wornAt |-> input[r].wornAt]]]

Action(r) == [items |-> input[r].items, wornAt |-> stamp[r]]

Held == [s \in User \X Key |->
            IF \E r \in Request : group[r] = "kept" /\ Asked[r].slot = s
            THEN Action(CHOOSE r \in Request : group[r] = "kept" /\ Asked[r].slot = s)
            ELSE None]

(* What request r was told; once the replay is decided the reads that       *)
(* follow, or the death of the thread, change nothing.                      *)
Outcome(r) ==
    IF pc[r] = "created" THEN [tag |-> "created", content |-> Action(r)]
    ELSE IF seen[r] # None THEN [tag |-> "replayed", content |-> Action(seen[r])]
    ELSE IF pc[r] = "conflict" THEN [tag |-> "conflict"]
    ELSE IF pc[r] \in {"invalid", "notfound", "error", "dead"} THEN [tag |-> "refused"]
    ELSE [tag |-> "waiting"]

Told == [r \in Request |-> Outcome(r)]

WearPayload == [items: SUBSET Item, wornAt: Instant \cup {None}]
WearContent == [items: SUBSET Item, wornAt: Instant]
WearFits == {pair \in WearPayload \X WearContent :
                /\ pair[1].items = pair[2].items
                /\ pair[1].wornAt \in {None, pair[2].wornAt}}

ASSUME NoneIsNoContent == None \notin WearContent

Promise == INSTANCE KeyedCreate WITH
    Slot    <- User \X Key,
    Payload <- WearPayload,
    Content <- WearContent,
    Fits    <- WearFits,
    ask     <- Asked,
    holder  <- Held,
    reply   <- Told

(* The write path implements the promise, step by step: the commit is the   *)
(* creation, the re-read after the violated index is the replay or the      *)
(* conflict, everything else is a refusal or invisible.                     *)
KeepsPromise == Promise!Spec
=============================================================================
