--------------------------- MODULE DiscoveryEvents ---------------------------
(***************************************************************************)
(* POST /v1/discovery/events: IngestDiscoveryEvents                         *)
(* (application/discovery_events.py) and persist_events_batch               *)
(* (infrastructure/db/repositories.py) over the table discovery_events,     *)
(* with the erasure of accounts running beside it.                          *)
(*                                                                         *)
(* A batch is a sequence of events, each a client event id and the hash of  *)
(* its payload, and belongs to an account or to a guest session.  Its new   *)
(* rows are inserted one after the other, in the order of the batch, by one *)
(* transaction; an uncommitted row makes the insert of the same event of    *)
(* the same identity by another transaction wait.  A row is named by its    *)
(* event and the batch that inserted it.                                    *)
(*                                                                         *)
(* The retry of a client is another request with the same input.            *)
(***************************************************************************)
EXTENDS Naturals, Sequences, FiniteSets

CONSTANTS
    Request,  \* the batches
    User,     \* accounts
    Guest,    \* guest sessions
    EventId,  \* client_event_id values
    Hash,     \* payload_hash values
    Inputs    \* the batches clients may submit

Event == [id: EventId, hash: Hash]
Input == [who: User \cup Guest, events: Seq(Event)]

ASSUME InputsAssumption == Inputs \subseteq Input

ASSUME IdentityAssumption == User \cap Guest = {}

VARIABLES
    users,    \* the accounts that exist
    input,    \* what each request submits (chosen once, initially)
    pc,       \* where each request is
    fresh,    \* the events of the batch it read no row for
    tx,       \* those it has inserted and not yet committed
    kept,     \* the committed rows it inserted
    accepted  \* the events it was told are "accepted"

vars == <<users, input, pc, fresh, tx, kept, accepted>>

-----------------------------------------------------------------------------

Working == {"check", "read", "insert", "recheck"}
Ended   == {"answered", "conflict", "invalid", "error", "dead"}

TypeOK ==
    /\ users \in SUBSET User
    /\ input \in [Request -> Input]
    /\ pc \in [Request -> {"idle"} \cup Working \cup Ended]
    /\ fresh \in [Request -> SUBSET Event]
    /\ tx \in [Request -> SUBSET Event]
    /\ kept \in [Request -> SUBSET Event]
    /\ accepted \in [Request -> SUBSET Event]

Init ==
    /\ users = User
    /\ input \in [Request -> Inputs]
    /\ pc = [r \in Request |-> "idle"]
    /\ fresh = [r \in Request |-> {}]
    /\ tx = [r \in Request |-> {}]
    /\ kept = [r \in Request |-> {}]
    /\ accepted = [r \in Request |-> {}]

-----------------------------------------------------------------------------

Goto(r, label) == pc' = [pc EXCEPT ![r] = label]

Batch(r) == {input[r].events[i] : i \in DOMAIN input[r].events}

IsGone(r) == input[r].who \in User \ users

Peers(r) == {q \in Request : input[q].who = input[r].who}

Stored(who) == UNION {kept[q] : q \in {p \in Request : input[p].who = who}}

(* Faulty: the rows of every identity. *)
StoredByAnybody(r) == UNION {kept[q] : q \in Request}

(* The committed rows the batch reads, of its own identity only. *)
Existing(r) == Stored(input[r].who)

Collide(S, T) == \E e \in S, f \in T : e.id = f.id /\ e.hash # f.hash

(* uq_discovery_events_user_event and uq_discovery_events_guest_event.      *)
Taken(r, e) == \E f \in Existing(r) : f.id = e.id

(* The row the flush inserts next: the first of the batch not yet there.    *)
IsNext(r, e) ==
    \E i \in DOMAIN input[r].events :
        /\ e = input[r].events[i]
        /\ e \in fresh[r] \ tx[r]
        /\ \A j \in 1 .. i - 1 : input[r].events[j] \notin fresh[r] \ tx[r]

(* The open transactions that insert waits for. *)
WaitsFor(r) ==
    {q \in Peers(r) \ {r} :
        /\ pc[r] = "insert"
        /\ \E e \in Batch(r) : IsNext(r, e) /\ \E f \in tx[q] : f.id = e.id}

-----------------------------------------------------------------------------

(* A client submits, as a guest or with the session of an existing account. *)
Submit(r) ==
    /\ pc[r] = "idle"
    /\ ~ IsGone(r)
    /\ Goto(r, "check")
    /\ UNCHANGED <<users, input, fresh, tx, kept, accepted>>

(* Bounds, vocabulary and the existence of the products (422, 404), then a  *)
(* batch that contradicts itself (409).                                     *)
Check(r) ==
    /\ pc[r] = "check"
    /\ \/ Goto(r, "invalid")
       \/ Goto(r, IF Collide(Batch(r), Batch(r)) THEN "conflict" ELSE "read")
    /\ UNCHANGED <<users, input, fresh, tx, kept, accepted>>

(* The rows that are there already: a different payload under one of the    *)
(* ids is a conflict, equal ones are acknowledged, the rest is inserted.    *)
Read(r) ==
    /\ pc[r] = "read"
    /\ IF Collide(Batch(r), Existing(r))
       THEN Goto(r, "conflict") /\ UNCHANGED fresh
       ELSE /\ fresh' = [fresh EXCEPT ![r] = Batch(r) \ Existing(r)]
            /\ Goto(r, IF Batch(r) \subseteq Existing(r) THEN "answered" ELSE "insert")
    /\ UNCHANGED <<users, input, tx, kept, accepted>>

(* Faulty: every row is committed by itself. *)
InsertAutocommitted(r) ==
    \E e \in Batch(r) :
        /\ IsNext(r, e)
        /\ pc[r] = "insert"
        /\ WaitsFor(r) = {}
        /\ IF Taken(r, e) \/ IsGone(r)
           THEN Goto(r, "recheck") /\ UNCHANGED kept
           ELSE kept' = [kept EXCEPT ![r] = @ \cup {e}] /\ UNCHANGED pc
        /\ tx' = [tx EXCEPT ![r] = IF Taken(r, e) THEN {} ELSE @ \cup {e}]
        /\ UNCHANGED <<users, input, fresh, accepted>>

(* One row of the flush.  It waits for an open writer of its event; the     *)
(* unique index, or the foreign key of an erased account, raises            *)
(* IntegrityError and the rollback takes the rows inserted before it.       *)
InsertRow(r) ==
    \E e \in Batch(r) :
        /\ IsNext(r, e)
        /\ pc[r] = "insert"
        /\ WaitsFor(r) = {}
        /\ IF Taken(r, e) \/ IsGone(r)
           THEN Goto(r, "recheck") /\ tx' = [tx EXCEPT ![r] = {}]
           ELSE tx' = [tx EXCEPT ![r] = @ \cup {e}] /\ UNCHANGED pc
        /\ UNCHANGED <<users, input, fresh, kept, accepted>>

(* The commit of every row, and the 202 answer. *)
Commit(r) ==
    /\ pc[r] = "insert"
    /\ tx[r] = fresh[r]
    /\ kept' = [kept EXCEPT ![r] = tx[r]]
    /\ tx' = [tx EXCEPT ![r] = {}]
    /\ accepted' = [accepted EXCEPT ![r] = fresh[r]]
    /\ Goto(r, "answered")
    /\ UNCHANGED <<users, input, fresh>>

(* Faulty: takes every integrity error for a replay of the whole batch. *)
RecheckAcknowledging(r) ==
    /\ pc[r] = "recheck"
    /\ Goto(r, IF Collide(Batch(r), Existing(r)) THEN "conflict" ELSE "answered")
    /\ UNCHANGED <<users, input, fresh, tx, kept, accepted>>

(* except IntegrityError: what another batch stored meanwhile is a conflict *)
(* or acknowledged, and the events nobody stored keep the "accepted" they   *)
(* were given before the rollback.                                          *)
Recheck(r) ==
    /\ pc[r] = "recheck"
    /\ IF Collide(Batch(r), Existing(r))
       THEN Goto(r, "conflict") /\ UNCHANGED accepted
       ELSE /\ accepted' = [accepted EXCEPT ![r] = fresh[r] \ Existing(r)]
            /\ Goto(r, "answered")
    /\ UNCHANGED <<users, input, fresh, tx, kept>>

(* Batches that insert shared events in opposite orders wait for each       *)
(* other; PostgreSQL ends one of the cycle with an error that is no         *)
(* IntegrityError, hence a 500 and a rollback.                              *)
Deadlock(r) ==
    /\ \E S \in SUBSET Request :
          /\ r \in S
          /\ \A q \in S : WaitsFor(q) \cap S # {} /\ \E p \in S : q \in WaitsFor(p)
    /\ tx' = [tx EXCEPT ![r] = {}]
    /\ Goto(r, "error")
    /\ UNCHANGED <<users, input, fresh, kept, accepted>>

Step(r) ==
    \/ Check(r) \/ Read(r) \/ InsertRow(r) \/ Commit(r) \/ Recheck(r) \/ Deadlock(r)

(* Faulty: the session is never closed, so its transaction stays open. *)
AbortHoldingLocks(r) ==
    /\ pc[r] \in Working
    /\ Goto(r, "dead")
    /\ UNCHANGED <<users, input, fresh, tx, kept, accepted>>

(* The request dies before its commit; the database rolls it back. *)
Abort(r) ==
    /\ pc[r] \in Working
    /\ tx' = [tx EXCEPT ![r] = {}]
    /\ Goto(r, "dead")
    /\ UNCHANGED <<users, input, fresh, kept, accepted>>

(* DELETE /users/me waits for the open transactions that reference the      *)
(* account, then cascades to its events.                                    *)
EraseAccount(u) ==
    LET mine == {r \in Request : input[r].who = u} IN
    /\ u \in users
    /\ \A r \in mine : tx[r] = {}
    /\ users' = users \ {u}
    /\ kept' = [r \in Request |-> IF r \in mine THEN {} ELSE kept[r]]
    /\ UNCHANGED <<input, pc, fresh, tx, accepted>>

Next ==
    \/ \E r \in Request : Submit(r) \/ Step(r) \/ Abort(r)
    \/ \E u \in User : EraseAccount(u)

Spec == Init /\ [][Next]_vars

(* A request thread that is not killed runs its handler to the end, and the *)
(* database wakes or ends every insert that waits.                          *)
FairSpec == Spec /\ \A r \in Request : WF_vars(Step(r))

-----------------------------------------------------------------------------

(* At most one row per identity and event, counting the rows that are       *)
(* inserted and not yet committed: however many retries of an event overlap,*)
(* it is counted once, with one payload.                                    *)
OneRowPerEvent ==
    \A r, q \in Request :
        \A e \in tx[r] \cup kept[r], f \in tx[q] \cup kept[q] :
            input[r].who = input[q].who /\ e.id = f.id => r = q /\ e = f

(* Single-transaction batches: rows are stored only by a batch that was     *)
(* answered, and then all the rows it reported as accepted.                 *)
BatchIsWhole ==
    \A r \in Request :
        /\ kept[r] # {} => pc[r] = "answered" /\ kept[r] = accepted[r]
        /\ tx[r] # {} => pc[r] = "insert"

(* An event that was acknowledged as a replay is stored under the same      *)
(* identity with the same payload, and stays so until the account goes.     *)
AcknowledgedIsStored ==
    \A r \in Request :
        pc[r] = "answered" /\ ~ IsGone(r) =>
            Batch(r) \ accepted[r] \subseteq Stored(input[r].who)

(* What the shipped client relies on when it sends one event at a time and  *)
(* retries it once: a batch of a single event that was answered is stored.  *)
SingletonIsStored ==
    \A r \in Request :
        pc[r] = "answered" /\ ~ IsGone(r) /\ Cardinality(Batch(r)) = 1 =>
            Batch(r) \subseteq Stored(input[r].who)

(* Under fair request threads every submitted batch ends, the overlapping   *)
(* ones that lock each other's events included.                             *)
RequestsAreAnswered == \A r \in Request : pc[r] = "check" ~> pc[r] \in Ended

(* What the 202 answer says of a batch of any size: an accepted event is    *)
(* stored (discovery_events.py: single-transaction atomic batch writes).    *)
AcceptedIsStored ==
    \A r \in Request :
        pc[r] = "answered" /\ ~ IsGone(r) => accepted[r] \subseteq Stored(input[r].who)
=============================================================================
