------------------------ MODULE DiscoveryEvents_proofs ------------------------
(***************************************************************************)
(* Proofs about DiscoveryEvents, for every set of requests, accounts, guest *)
(* sessions, events and payloads, and for every set of inputs.              *)
(***************************************************************************)
EXTENDS DiscoveryEvents, FiniteSetTheorems, TLAPS

(* What a request has read, inserted and reported comes from its batch. *)
WithinBatch(r) ==
    /\ fresh[r] \subseteq Batch(r)
    /\ tx[r] \subseteq fresh[r]
    /\ kept[r] \subseteq Batch(r)
    /\ accepted[r] \subseteq fresh[r]

(* A batch past its check does not contradict itself. *)
Coherent(r) ==
    pc[r] \in {"read", "insert", "recheck", "answered"} => ~ Collide(Batch(r), Batch(r))

Whole(r) ==
    /\ kept[r] # {} => pc[r] = "answered" /\ kept[r] = accepted[r]
    /\ tx[r] # {} => pc[r] = "insert"
    /\ pc[r] # "answered" => accepted[r] = {}

(* What a request did not find missing is stored while the account exists.  *)
FoundIsStored(r) ==
    /\ pc[r] \in {"insert", "recheck"} /\ ~ IsGone(r) =>
          Batch(r) \ fresh[r] \subseteq Stored(input[r].who)
    /\ pc[r] = "answered" /\ ~ IsGone(r) =>
          Batch(r) \ accepted[r] \subseteq Stored(input[r].who)

(* An integrity error means that one of the events of the batch is stored   *)
(* or that the account is gone; an answered batch has a row.                *)
HasRow(r) ==
    /\ pc[r] = "recheck" /\ ~ IsGone(r) =>
          \E e \in Batch(r), f \in Stored(input[r].who) : e.id = f.id
    /\ pc[r] = "answered" /\ ~ IsGone(r) /\ Batch(r) # {} =>
          \E e \in Batch(r) : e \in Stored(input[r].who)

Sound(r) ==
    WithinBatch(r) /\ Coherent(r) /\ Whole(r) /\ FoundIsStored(r) /\ HasRow(r)

(* The inductive invariant. *)
IInv ==
    /\ TypeOK
    /\ OneRowPerEvent
    /\ \A r \in Request : Sound(r)

-----------------------------------------------------------------------------

(* The events of a batch are events. *)
LEMMA BatchType ==
    ASSUME TypeOK, NEW r \in Request
    PROVE  Batch(r) \subseteq Event
<1>1. input[r] \in Input
    BY DEF TypeOK
<1>2. input[r].events \in Seq(Event)
    BY <1>1 DEF Input
<1>3. \A i \in DOMAIN input[r].events : input[r].events[i] \in Event
    BY <1>2
<1> QED
    BY <1>3 DEF Batch

(* An event of the account or session of a request is stored by the request *)
(* that holds its row.                                                      *)
LEMMA StoredMember ==
    ASSUME TypeOK, NEW w, NEW e
    PROVE  e \in Stored(w) <=> \E q \in Request : input[q].who = w /\ e \in kept[q]
BY DEF Stored

(* While no row goes, what is stored under an identity stays stored. *)
LEMMA StoredGrows ==
    ASSUME TypeOK, TypeOK', input' = input,
           \A q \in Request : kept[q] \subseteq kept'[q],
           NEW w
    PROVE  Stored(w) \subseteq Stored(w)'
BY DEF Stored

(* The two events of a coherent batch with one id are one event. *)
LEMMA SameIdSameEvent ==
    ASSUME TypeOK, NEW r \in Request, ~ Collide(Batch(r), Batch(r)),
           NEW e \in Batch(r), NEW f \in Batch(r), e.id = f.id
    PROVE  e = f
<1>1. e \in Event /\ f \in Event
    BY BatchType
<1>2. e.hash = f.hash
    BY DEF Collide
<1> QED
    BY <1>1, <1>2 DEF Event

-----------------------------------------------------------------------------

LEMMA InitTyped == Init => TypeOK
BY InputsAssumption DEF Init, TypeOK, Working, Ended

LEMMA NextTyped == TypeOK /\ [Next]_vars => TypeOK'
<1> SUFFICES ASSUME TypeOK, [Next]_vars PROVE TypeOK'
    OBVIOUS
<1>b. \A r \in Request : Batch(r) \subseteq Event
    BY BatchType
<1> USE DEF TypeOK, Working, Ended, Goto
<1>1. ASSUME NEW r \in Request, Submit(r) PROVE TypeOK'
    BY <1>1 DEF Submit
<1>2. ASSUME NEW r \in Request, Check(r) PROVE TypeOK'
    BY <1>2 DEF Check
<1>3. ASSUME NEW r \in Request, Read(r) PROVE TypeOK'
    <2>1. Batch(r) \ Existing(r) \in SUBSET Event
        BY <1>b
    <2> QED
        BY <1>3, <2>1 DEF Read
<1>4. ASSUME NEW r \in Request, InsertRow(r) PROVE TypeOK'
    <2>1. PICK e \in Batch(r) : InsertRow(r)!(e)
        BY <1>4 DEF InsertRow
    <2>2. e \in Event
        BY <1>b
    <2> QED
        BY <2>1, <2>2
<1>5. ASSUME NEW r \in Request, Commit(r) PROVE TypeOK'
    BY <1>5 DEF Commit
<1>6. ASSUME NEW r \in Request, Recheck(r) PROVE TypeOK'
    <2>1. fresh[r] \ Existing(r) \in SUBSET Event
        OBVIOUS
    <2> QED
        BY <1>6, <2>1 DEF Recheck
<1>7. ASSUME NEW r \in Request, Deadlock(r) PROVE TypeOK'
    BY <1>7 DEF Deadlock
<1>8. ASSUME NEW r \in Request, Abort(r) PROVE TypeOK'
    BY <1>8 DEF Abort
<1>9. ASSUME NEW u \in User, EraseAccount(u) PROVE TypeOK'
    BY <1>9 DEF EraseAccount
<1>10. ASSUME UNCHANGED vars PROVE TypeOK'
    BY <1>10 DEF vars
<1> QED
    BY <1>1, <1>2, <1>3, <1>4, <1>5, <1>6, <1>7, <1>8, <1>9, <1>10 DEF Next, Step

(* Every variable keeps its type: batches move between the listed stages    *)
(* only, and rows and answers are sets of events.                           *)
THEOREM TypeCorrect == Spec => []TypeOK
BY InitTyped, NextTyped, PTL DEF Spec

-----------------------------------------------------------------------------

(* A request that a step leaves alone stays sound, when no row goes. *)
LEMMA Undisturbed ==
    ASSUME TypeOK, TypeOK', NEW q \in Request, Sound(q),
           input' = input, users' = users,
           \A p \in Request : kept[p] \subseteq kept'[p],
           pc'[q] = pc[q], fresh'[q] = fresh[q], tx'[q] = tx[q],
           kept'[q] = kept[q], accepted'[q] = accepted[q]
    PROVE  Sound(q)'
<1>1. Stored(input[q].who) \subseteq Stored(input[q].who)'
    BY StoredGrows
<1>2. Batch(q)' = Batch(q)
    BY DEF Batch
<1>3. IsGone(q)' <=> IsGone(q)
    BY DEF IsGone
<1>4. WithinBatch(q)' /\ Coherent(q)' /\ Whole(q)'
    BY <1>2 DEF Sound, WithinBatch, Coherent, Whole, Collide
<1>5. FoundIsStored(q)'
    BY <1>1, <1>2, <1>3 DEF Sound, FoundIsStored
<1>6. HasRow(q)'
    BY <1>1, <1>2, <1>3 DEF Sound, HasRow
<1> QED
    BY <1>4, <1>5, <1>6 DEF Sound

(* A request that leaves the stages in which it can have rows is sound. *)
LEMMA WithoutRows ==
    ASSUME TypeOK, NEW q \in Request, Sound(q), input' = input,
           pc[q] # "answered",
           pc'[q] \notin {"insert", "recheck", "answered"},
           pc'[q] = "read" => ~ Collide(Batch(q), Batch(q)),
           fresh'[q] = fresh[q], tx'[q] = {},
           kept'[q] = kept[q], accepted'[q] = accepted[q]
    PROVE  Sound(q)'
<1>1. Batch(q)' = Batch(q)
    BY DEF Batch
<1>2. kept[q] = {} /\ accepted[q] = {}
    BY DEF Sound, Whole
<1>3. WithinBatch(q)' /\ Coherent(q)' /\ Whole(q)'
    BY <1>1, <1>2 DEF Sound, WithinBatch, Coherent, Whole, Collide
<1>4. FoundIsStored(q)' /\ HasRow(q)'
    BY DEF FoundIsStored, HasRow
<1> QED
    BY <1>3, <1>4 DEF Sound

(* Rows that neither appear nor move leave the table in order. *)
LEMMA TableUndisturbed ==
    ASSUME OneRowPerEvent, input' = input,
           \A q \in Request : tx'[q] \cup kept'[q] \subseteq tx[q] \cup kept[q]
    PROVE  OneRowPerEvent'
BY DEF OneRowPerEvent

LEMMA InitSound == Init => IInv
<1> SUFFICES ASSUME Init PROVE IInv
    OBVIOUS
<1>1. TypeOK
    BY InitTyped
<1>2. OneRowPerEvent
    BY DEF Init, OneRowPerEvent
<1>3. ASSUME NEW r \in Request PROVE Sound(r)
    BY DEF Init, Sound, WithinBatch, Coherent, Whole, FoundIsStored, HasRow
<1> QED
    BY <1>1, <1>2, <1>3 DEF IInv

LEMMA SubmitSound ==
    ASSUME IInv, TypeOK', NEW r \in Request, Submit(r)
    PROVE  OneRowPerEvent' /\ \A q \in Request : Sound(q)'
<1> USE DEF Submit, Goto
<1>1. OneRowPerEvent'
    BY TableUndisturbed DEF IInv
<1>2. ASSUME NEW q \in Request, q # r PROVE Sound(q)'
    BY <1>2, Undisturbed DEF IInv, TypeOK
<1>3. tx[r] = {}
    BY DEF IInv, Sound, Whole
<1>4. Sound(r)'
    BY <1>3, WithoutRows DEF IInv, TypeOK
<1> QED
    BY <1>1, <1>2, <1>4

LEMMA CheckSound ==
    ASSUME IInv, TypeOK', NEW r \in Request, Check(r)
    PROVE  OneRowPerEvent' /\ \A q \in Request : Sound(q)'
<1> USE DEF Check, Goto
<1>1. OneRowPerEvent'
    BY TableUndisturbed DEF IInv
<1>2. ASSUME NEW q \in Request, q # r PROVE Sound(q)'
    BY <1>2, Undisturbed DEF IInv, TypeOK
<1>3. pc'[r] \in {"invalid", "conflict", "read"}
    BY DEF IInv, TypeOK
<1>4. pc'[r] = "read" => ~ Collide(Batch(r), Batch(r))
    BY DEF IInv, TypeOK
<1>5. tx[r] = {}
    BY DEF IInv, Sound, Whole
<1>6. Sound(r)'
    BY <1>3, <1>4, <1>5, WithoutRows DEF IInv
<1> QED
    BY <1>1, <1>2, <1>6

LEMMA ReadSound ==
    ASSUME IInv, TypeOK', NEW r \in Request, Read(r)
    PROVE  OneRowPerEvent' /\ \A q \in Request : Sound(q)'
<1> USE DEF Read, Goto
<1>1. OneRowPerEvent'
    BY TableUndisturbed DEF IInv
<1>2. ASSUME NEW q \in Request, q # r PROVE Sound(q)'
    BY <1>2, Undisturbed DEF IInv, TypeOK
<1>3. Batch(r)' = Batch(r) /\ Stored(input[r].who)' = Stored(input[r].who)
    BY DEF Batch, Stored
<1>4. kept[r] = {} /\ tx[r] = {} /\ accepted[r] = {}
    BY DEF IInv, Sound, Whole
<1>5. pc'[r] \in {"conflict", "answered", "insert"}
    BY DEF IInv, TypeOK
<1>6. kept'[r] = {} /\ tx'[r] = {} /\ accepted'[r] = {}
    BY <1>4
<1>7. WithinBatch(r)'
    BY <1>3, <1>6 DEF IInv, TypeOK, Sound, WithinBatch
<1>8. Coherent(r)' /\ Whole(r)'
    BY <1>3, <1>5, <1>6 DEF IInv, Sound, Coherent, Whole, Collide
<1>9. FoundIsStored(r)' /\ HasRow(r)'
    <2>1. CASE pc'[r] = "conflict"
        BY <2>1 DEF FoundIsStored, HasRow
    <2>2. CASE pc'[r] = "insert"
        <3>1. fresh'[r] = Batch(r) \ Stored(input[r].who)
            BY <2>2 DEF IInv, TypeOK, Existing
        <3> QED
            BY <2>2, <3>1, <1>3 DEF FoundIsStored, HasRow
    <2>3. CASE pc'[r] = "answered"
        <3>1. Batch(r) \subseteq Stored(input[r].who)
            BY <2>3 DEF IInv, TypeOK, Existing
        <3> QED
            BY <2>3, <3>1, <1>3 DEF FoundIsStored, HasRow
    <2> QED
        BY <1>5, <2>1, <2>2, <2>3
<1> QED
    BY <1>1, <1>2, <1>7, <1>8, <1>9 DEF Sound

LEMMA InsertRowSound ==
    ASSUME IInv, TypeOK', NEW r \in Request, InsertRow(r)
    PROVE  OneRowPerEvent' /\ \A q \in Request : Sound(q)'
<1> PICK e \in Batch(r) : InsertRow(r)!(e)
    BY DEF InsertRow
<1> USE DEF Goto
<1>1. /\ pc[r] = "insert" /\ e \in fresh[r] /\ e \notin tx[r] /\ e \in Event
      /\ kept[r] = {} /\ accepted[r] = {}
    BY BatchType DEF IInv, Sound, Whole, IsNext
<1>2. Batch(r)' = Batch(r) /\ Stored(input[r].who)' = Stored(input[r].who)
    BY DEF Batch, Stored
<1>3. IsGone(r)' <=> IsGone(r)
    BY DEF IsGone
<1>4. ASSUME NEW q \in Request, q # r PROVE Sound(q)'
    BY <1>4, Undisturbed DEF IInv, TypeOK
<1>5. CASE Taken(r, e) \/ IsGone(r)
    <2>1. pc'[r] = "recheck" /\ tx'[r] = {}
        BY <1>5 DEF IInv, TypeOK
    <2>2. OneRowPerEvent'
        BY <1>5, TableUndisturbed DEF IInv, TypeOK
    <2>3. WithinBatch(r)' /\ Coherent(r)' /\ Whole(r)'
        BY <1>1, <1>2, <2>1 DEF IInv, Sound, WithinBatch, Coherent, Whole, Collide
    <2>4. FoundIsStored(r)'
        BY <1>1, <1>2, <1>3, <2>1 DEF IInv, Sound, FoundIsStored
    <2>5. HasRow(r)'
        BY <1>2, <1>3, <1>5, <2>1 DEF HasRow, Taken, Existing
    <2> QED
        BY <1>4, <2>2, <2>3, <2>4, <2>5 DEF Sound
<1>6. CASE ~ (Taken(r, e) \/ IsGone(r))
    <2>1. pc'[r] = "insert" /\ tx'[r] = tx[r] \cup {e}
        BY <1>1, <1>6 DEF IInv, TypeOK
    <2>2. \A q \in Request \ {r} : tx'[q] = tx[q]
        BY <1>6 DEF IInv, TypeOK
    <2>3. ASSUME NEW q \in Request, input[q].who = input[r].who,
                 NEW f \in tx[q] \cup kept[q], f.id = e.id
          PROVE  FALSE
        <3>1. CASE f \in kept[q]
            <4>1. f \in Stored(input[r].who)
                BY <2>3, <3>1, StoredMember DEF IInv
            <4> QED
                BY <1>6, <2>3, <4>1 DEF Taken, Existing
        <3>2. CASE f \in tx[q] /\ q # r
            <4>1. q \in WaitsFor(r)
                BY <1>1, <2>3, <3>2 DEF WaitsFor, Peers
            <4> QED
                BY <4>1
        <3>3. CASE f \in tx[q] /\ q = r
            <4>1. f \in Batch(r) /\ ~ Collide(Batch(r), Batch(r))
                BY <1>1, <3>3 DEF IInv, Sound, WithinBatch, Coherent
            <4>2. f = e
                BY <2>3, <4>1, SameIdSameEvent DEF IInv
            <4> QED
                BY <1>1, <3>3, <4>2
        <3> QED
            BY <3>1, <3>2, <3>3
    <2>4. OneRowPerEvent'
        <3> SUFFICES ASSUME NEW p \in Request, NEW q \in Request,
                            NEW x \in tx'[p] \cup kept'[p], NEW f \in tx'[q] \cup kept'[q],
                            input'[p].who = input'[q].who, x.id = f.id
                     PROVE  p = q /\ x = f
            BY DEF OneRowPerEvent
        <3>1. x \in tx[p] \cup kept[p] \/ (p = r /\ x = e)
            BY <2>1, <2>2
        <3>2. f \in tx[q] \cup kept[q] \/ (q = r /\ f = e)
            BY <2>1, <2>2
        <3>3. CASE x \in tx[p] \cup kept[p] /\ f \in tx[q] \cup kept[q]
            BY <3>3 DEF IInv, OneRowPerEvent
        <3>4. CASE p = r /\ x = e /\ ~ (q = r /\ f = e)
            BY <2>3, <3>2, <3>4
        <3>5. CASE q = r /\ f = e /\ ~ (p = r /\ x = e)
            BY <2>3, <3>1, <3>5
        <3> QED
            BY <3>1, <3>2, <3>3, <3>4, <3>5
    <2>5. WithinBatch(r)' /\ Coherent(r)' /\ Whole(r)'
        BY <1>1, <1>2, <2>1 DEF IInv, Sound, WithinBatch, Coherent, Whole, Collide
    <2>6. FoundIsStored(r)' /\ HasRow(r)'
        BY <1>1, <1>2, <1>3, <2>1 DEF IInv, Sound, FoundIsStored, HasRow
    <2> QED
        BY <1>4, <2>4, <2>5, <2>6 DEF Sound
<1> QED
    BY <1>5, <1>6

LEMMA CommitSound ==
    ASSUME IInv, TypeOK', NEW r \in Request, Commit(r)
    PROVE  OneRowPerEvent' /\ \A q \in Request : Sound(q)'
<1> USE DEF Commit, Goto
<1>1. /\ kept[r] = {} /\ pc[r] = "insert"
      /\ kept'[r] = fresh[r] /\ tx'[r] = {} /\ pc'[r] = "answered"
      /\ accepted'[r] = fresh[r] /\ fresh'[r] = fresh[r]
    BY DEF IInv, TypeOK, Sound, Whole
<1>2. \A q \in Request \ {r} : tx'[q] = tx[q] /\ kept'[q] = kept[q]
    BY DEF IInv, TypeOK
<1>3. \A q \in Request : kept[q] \subseteq kept'[q]
    BY <1>1, <1>2
<1>4. OneRowPerEvent'
    <2>1. tx'[r] \cup kept'[r] = tx[r] \cup kept[r]
        BY <1>1
    <2> QED
        BY <1>2, <2>1, TableUndisturbed DEF IInv
<1>5. ASSUME NEW q \in Request, q # r PROVE Sound(q)'
    BY <1>3, <1>5, Undisturbed DEF IInv, TypeOK
<1>6. Batch(r)' = Batch(r) /\ (IsGone(r)' <=> IsGone(r))
    BY DEF Batch, IsGone
<1>7. WithinBatch(r)' /\ Coherent(r)' /\ Whole(r)'
    BY <1>1, <1>6 DEF IInv, Sound, WithinBatch, Coherent, Whole, Collide
<1>8. ~ IsGone(r) => Batch(r) \subseteq Stored(input[r].who)'
    <2>1. Stored(input[r].who) \subseteq Stored(input[r].who)'
        BY <1>3, StoredGrows DEF IInv
    <2>2. fresh[r] \subseteq Stored(input[r].who)'
        BY <1>1 DEF Stored
    <2> QED
        BY <1>1, <2>1, <2>2 DEF IInv, Sound, FoundIsStored
<1>9. FoundIsStored(r)' /\ HasRow(r)'
    BY <1>1, <1>6, <1>8 DEF FoundIsStored, HasRow
<1> QED
    BY <1>4, <1>5, <1>7, <1>9 DEF Sound

LEMMA RecheckSound ==
    ASSUME IInv, TypeOK', NEW r \in Request, Recheck(r)
    PROVE  OneRowPerEvent' /\ \A q \in Request : Sound(q)'
<1> USE DEF Recheck, Goto
<1>1. OneRowPerEvent'
    BY TableUndisturbed DEF IInv
<1>2. ASSUME NEW q \in Request, q # r PROVE Sound(q)'
    BY <1>2, Undisturbed DEF IInv, TypeOK
<1>3. kept[r] = {} /\ tx[r] = {} /\ accepted[r] = {} /\ pc[r] = "recheck"
    BY DEF IInv, Sound, Whole
<1>4. CASE Collide(Batch(r), Existing(r))
    <2>1. pc'[r] = "conflict" /\ accepted' = accepted
        BY <1>4 DEF IInv, TypeOK
    <2>2. Sound(r)'
        BY <1>3, <2>1, WithoutRows DEF IInv
    <2> QED
        BY <1>1, <1>2, <2>2
<1>5. CASE ~ Collide(Batch(r), Existing(r))
    <2>1. pc'[r] = "answered" /\ accepted'[r] = fresh[r] \ Stored(input[r].who)
        BY <1>5 DEF IInv, TypeOK, Existing
    <2>2. Batch(r)' = Batch(r) /\ Stored(input[r].who)' = Stored(input[r].who)
        BY DEF Batch, Stored
    <2>3. IsGone(r)' <=> IsGone(r)
        BY DEF IsGone
    <2>4. WithinBatch(r)' /\ Coherent(r)' /\ Whole(r)'
        BY <1>3, <2>1, <2>2 DEF IInv, Sound, WithinBatch, Coherent, Whole, Collide
    <2>5. FoundIsStored(r)'
        BY <1>3, <2>1, <2>2, <2>3 DEF IInv, Sound, FoundIsStored
    <2>6. ASSUME ~ IsGone(r) PROVE \E e \in Batch(r) : e \in Stored(input[r].who)
        <3>1. PICK e \in Batch(r), f \in Stored(input[r].who) : e.id = f.id
            BY <1>3, <2>6 DEF IInv, Sound, HasRow
        <3>2. e \in Event
            BY BatchType DEF IInv
        <3>3. f \in Event
            BY StoredMember DEF IInv, TypeOK
        <3>4. e.hash = f.hash
            BY <1>5, <3>1 DEF Collide, Existing
        <3>5. e = f
            BY <3>1, <3>2, <3>3, <3>4 DEF Event
        <3> QED
            BY <3>5
    <2>7. HasRow(r)'
        BY <2>1, <2>2, <2>3, <2>6 DEF HasRow
    <2> QED
        BY <1>1, <1>2, <2>4, <2>5, <2>7 DEF Sound
<1> QED
    BY <1>4, <1>5

(* A batch that is ended before its commit leaves nothing behind. *)
LEMMA RolledBackSound ==
    ASSUME IInv, TypeOK', NEW r \in Request, Deadlock(r) \/ Abort(r)
    PROVE  OneRowPerEvent' /\ \A q \in Request : Sound(q)'
<1>1. /\ UNCHANGED <<users, input, fresh, kept, accepted>>
      /\ tx' = [tx EXCEPT ![r] = {}]
      /\ pc' = [pc EXCEPT ![r] = pc'[r]]
      /\ pc'[r] \in {"error", "dead"}
    BY DEF Deadlock, Abort, Goto, IInv, TypeOK
<1>2. pc[r] # "answered"
    <2>1. CASE Deadlock(r)
        <3>1. PICK S \in SUBSET Request : r \in S /\ WaitsFor(r) \cap S # {}
            BY <2>1 DEF Deadlock
        <3> QED
            BY <3>1 DEF WaitsFor
    <2>2. CASE Abort(r)
        BY <2>2 DEF Abort, Working
    <2> QED
        BY <2>1, <2>2
<1>3. tx'[r] = {} /\ \A q \in Request \ {r} : tx'[q] = tx[q] /\ pc'[q] = pc[q]
    BY <1>1 DEF IInv, TypeOK
<1>4. OneRowPerEvent'
    BY <1>1, <1>3, TableUndisturbed DEF IInv
<1>5. ASSUME NEW q \in Request, q # r PROVE Sound(q)'
    BY <1>1, <1>3, <1>5, Undisturbed DEF IInv
<1>6. Sound(r)'
    BY <1>1, <1>2, <1>3, WithoutRows DEF IInv
<1> QED
    BY <1>4, <1>5, <1>6

LEMMA EraseSound ==
    ASSUME IInv, TypeOK', NEW u \in User, EraseAccount(u)
    PROVE  OneRowPerEvent' /\ \A q \in Request : Sound(q)'
<1> USE DEF EraseAccount
<1>1. \A q \in Request : input[q].who # u => kept'[q] = kept[q]
    BY DEF IInv, TypeOK
<1>2. \A q \in Request : input[q].who = u => kept'[q] = {} /\ tx[q] = {}
    BY DEF IInv, TypeOK
<1>3. OneRowPerEvent'
    <2>1. \A q \in Request : tx'[q] \cup kept'[q] \subseteq tx[q] \cup kept[q]
        BY <1>1, <1>2
    <2> QED
        BY <2>1, TableUndisturbed DEF IInv
<1>4. ASSUME NEW q \in Request PROVE Sound(q)'
    <2>1. Batch(q)' = Batch(q)
        BY DEF Batch
    <2>2. CASE input[q].who = u
        <3>1. IsGone(q)'
            BY <2>2 DEF IsGone
        <3>2. kept'[q] = {} /\ tx[q] = {}
            BY <1>2, <2>2
        <3>3. WithinBatch(q)' /\ Coherent(q)' /\ Whole(q)'
            BY <2>1, <3>2 DEF IInv, Sound, WithinBatch, Coherent, Whole, Collide
        <3>4. FoundIsStored(q)' /\ HasRow(q)'
            BY <3>1 DEF FoundIsStored, HasRow
        <3> QED
            BY <3>3, <3>4 DEF Sound
    <2>3. CASE input[q].who # u
        <3>1. kept'[q] = kept[q]
            BY <1>1, <2>3
        <3>2. IsGone(q)' <=> IsGone(q)
            BY <2>3 DEF IsGone
        <3>3. Stored(input[q].who)' = Stored(input[q].who)
            BY <1>1, <2>3 DEF Stored
        <3>4. WithinBatch(q)' /\ Coherent(q)' /\ Whole(q)'
            BY <2>1, <3>1 DEF IInv, Sound, WithinBatch, Coherent, Whole, Collide
        <3>5. FoundIsStored(q)' /\ HasRow(q)'
            BY <2>1, <3>2, <3>3 DEF IInv, Sound, FoundIsStored, HasRow
        <3> QED
            BY <3>4, <3>5 DEF Sound
    <2> QED
        BY <2>2, <2>3
<1> QED
    BY <1>3, <1>4

LEMMA StutterSound ==
    ASSUME IInv, TypeOK', UNCHANGED vars
    PROVE  OneRowPerEvent' /\ \A q \in Request : Sound(q)'
<1> USE DEF vars
<1>1. OneRowPerEvent'
    BY TableUndisturbed DEF IInv
<1>2. ASSUME NEW q \in Request PROVE Sound(q)'
    BY Undisturbed DEF IInv
<1> QED
    BY <1>1, <1>2

LEMMA NextSound == IInv /\ [Next]_vars => IInv'
<1> SUFFICES ASSUME IInv, [Next]_vars PROVE IInv'
    OBVIOUS
<1>1. TypeOK'
    BY NextTyped DEF IInv
<1>2. OneRowPerEvent' /\ \A q \in Request : Sound(q)'
    <2>1. CASE \E r \in Request : Submit(r)
        BY <1>1, <2>1, SubmitSound
    <2>2. CASE \E r \in Request : Check(r)
        BY <1>1, <2>2, CheckSound
    <2>3. CASE \E r \in Request : Read(r)
        BY <1>1, <2>3, ReadSound
    <2>4. CASE \E r \in Request : InsertRow(r)
        BY <1>1, <2>4, InsertRowSound
    <2>5. CASE \E r \in Request : Commit(r)
        BY <1>1, <2>5, CommitSound
    <2>6. CASE \E r \in Request : Recheck(r)
        BY <1>1, <2>6, RecheckSound
    <2>7. CASE \E r \in Request : Deadlock(r) \/ Abort(r)
        BY <1>1, <2>7, RolledBackSound
    <2>8. CASE \E u \in User : EraseAccount(u)
        BY <1>1, <2>8, EraseSound
    <2>9. CASE UNCHANGED vars
        BY <1>1, <2>9, StutterSound
    <2> QED
        BY <2>1, <2>2, <2>3, <2>4, <2>5, <2>6, <2>7, <2>8, <2>9 DEF Next, Step
<1> QED
    BY <1>1, <1>2 DEF IInv

(* The inductive invariant holds in every reachable state. *)
THEOREM Invariance == Spec => []IInv
BY InitSound, NextSound, PTL DEF Spec

-----------------------------------------------------------------------------

(* However the batches of one identity overlap, its table has one row per   *)
(* event: the unique indexes decide, not the read before the insert.        *)
THEOREM CountedOnce == Spec => []OneRowPerEvent
<1>1. IInv => OneRowPerEvent
    BY DEF IInv
<1> QED
    BY <1>1, Invariance, PTL

(* Only an answered batch has committed rows, and then every row that it    *)
(* reported as accepted: neither a rollback nor a death leaves a part.      *)
THEOREM StoredWholly == Spec => []BatchIsWhole
<1>1. IInv => BatchIsWhole
    BY DEF IInv, BatchIsWhole, Sound, Whole
<1> QED
    BY <1>1, Invariance, PTL

(* What was acknowledged as a replay is stored under the same identity with *)
(* the same payload, for as long as the account exists.                     *)
THEOREM AcknowledgedStays == Spec => []AcknowledgedIsStored
<1>1. IInv => AcknowledgedIsStored
    BY DEF IInv, AcknowledgedIsStored, Sound, FoundIsStored
<1> QED
    BY <1>1, Invariance, PTL

(* An answered batch of a single event is stored, so the client that sends  *)
(* events one at a time loses none to the rollback of persist_events_batch. *)
THEOREM SingletonsAreStored == Spec => []SingletonIsStored
<1>1. IInv => SingletonIsStored
    <2> SUFFICES ASSUME IInv, NEW r \in Request, pc[r] = "answered", ~ IsGone(r),
                        Cardinality(Batch(r)) = 1
                 PROVE  Batch(r) \subseteq Stored(input[r].who)
        BY DEF SingletonIsStored
    <2>1. IsFiniteSet(Batch(r))
        <3>1. input[r].events \in Seq(Event)
            BY DEF IInv, TypeOK, Input
        <3>2. Len(input[r].events) \in Nat /\ DOMAIN input[r].events = 1 .. Len(input[r].events)
            BY <3>1
        <3>3. IsFiniteSet(DOMAIN input[r].events)
            BY <3>2, FS_Interval
        <3>4. input[r].events \in Surjection(DOMAIN input[r].events, Batch(r))
            BY <3>1 DEF Batch, Surjection
        <3> QED
            BY <3>3, <3>4, FS_Surjection
    <2>2. PICK e : Batch(r) = {e}
        BY <2>1, FS_Singleton
    <2>3. \E x \in Batch(r) : x \in Stored(input[r].who)
        BY <2>2 DEF IInv, Sound, HasRow
    <2> QED
        BY <2>2, <2>3
<1> QED
    BY <1>1, Invariance, PTL
=============================================================================
