--------------------------- MODULE WearLog_proofs ---------------------------
(* Proofs about WearLog, for any number of requests, accounts, keys, items   *)
(* and instants.                                                             *)
EXTENDS WearLog, TLAPS

(* A transaction is open exactly while its request logs rows, and a ledger   *)
(* row was committed exactly when its request was answered 201.              *)
GroupPhase(r) ==
    /\ group[r] = "open" <=> pc[r] = "log"
    /\ group[r] \in {"kept", "erased"} <=> pc[r] = "created"
    /\ rows[r] \subseteq input[r].items

(* Past its validation a request has an effective instant, the client's own  *)
(* when it supplied one.                                                     *)
StampFits(r) ==
    pc[r] \in {"check", "insert", "log", "reread", "rows", "created", "replayed"} =>
        /\ stamp[r] \in Instant
        /\ input[r].wornAt \in {None, stamp[r]}

(* The group a replay found was committed and answers its payload.           *)
SeenFits(r) ==
    /\ pc[r] \in {"rows", "replayed"} => seen[r] # None
    /\ seen[r] # None =>
         /\ pc[r] \in {"rows", "replayed", "dead"}
         /\ group[seen[r]] \in {"kept", "erased"}
         /\ SameKey(r, seen[r])
         /\ Matches(r, seen[r])

IInv ==
    /\ TypeOK
    /\ \A r \in Request : GroupPhase(r) /\ StampFits(r) /\ SeenFits(r)
    /\ WholeActions
    /\ OneWriterPerKey
    /\ ReplayListsOriginal

-----------------------------------------------------------------------------

LEMMA InitType == Init => TypeOK
  BY InputsAssumption DEF Init, TypeOK

(* Validation either refuses, or fixes an instant that fits the submission. *)
LEMMA ValidateFacts ==
    ASSUME TypeOK, NEW r \in Request, Validate(r)
    PROVE  \/ Goto(r, "invalid") /\ UNCHANGED stamp
           \/ \E at \in Instant : /\ input[r].wornAt \in {None, at}
                                  /\ Goto(r, "check")
                                  /\ stamp' = [stamp EXCEPT ![r] = at]
<1> DEFINE at(now) == IF input[r].wornAt = None THEN now ELSE input[r].wornAt
<1>1. input[r].wornAt \in Instant \cup {None}
  BY DEF TypeOK, Input
<1>2. \A now \in Instant : at(now) \in Instant /\ input[r].wornAt \in {None, at(now)}
  BY <1>1
<1>3. PICK now \in Instant :
        IF Cardinality(input[r].items) \in 1 .. MaxItems /\ at(now) <= now + Leeway
        THEN Goto(r, "check") /\ stamp' = [stamp EXCEPT ![r] = at(now)]
        ELSE Goto(r, "invalid") /\ UNCHANGED stamp
  BY Zenon DEF Validate
<1>4. QED
  BY <1>2, <1>3

LEMMA InputType ==
    ASSUME TypeOK, NEW r \in Request
    PROVE  /\ input[r].user \in User /\ input[r].key \in Key
           /\ input[r].items \in SUBSET Item
           /\ input[r].wornAt \in Instant \cup {None}
  BY DEF TypeOK, Input

LEMMA NextType == IInv /\ [Next]_vars => TypeOK'
<1> SUFFICES ASSUME IInv, [Next]_vars PROVE TypeOK'
  OBVIOUS
<1> USE DEF IInv
<1>1. ASSUME NEW r \in Request, Submit(r) \/ CheckItems(r) \/ CreateGroup(r) \/ LogFails(r)
                                  \/ Abort(r)
      PROVE  TypeOK'
  BY <1>1 DEF TypeOK, Submit, CheckItems, CreateGroup, LogFails, Abort, Goto, Working, Answered
<1>2. ASSUME NEW r \in Request, Validate(r)
      PROVE  TypeOK'
  <2>1. UNCHANGED <<users, items, input, group, rows, seen, got>>
    BY <1>2 DEF Validate
  <2>2. QED
    BY <1>2, <2>1, ValidateFacts DEF TypeOK, Goto, Working, Answered
<1>3. ASSUME NEW r \in Request, LogRow(r)
      PROVE  TypeOK'
  <2>1. PICK i \in Item : rows' = [rows EXCEPT ![r] = @ \cup {i}]
    BY <1>3, InputType DEF LogRow
  <2>2. QED
    BY <1>3, <2>1 DEF TypeOK, LogRow
<1>4. ASSUME NEW r \in Request, Commit(r) \/ Reread(r)
      PROVE  TypeOK'
  BY <1>4 DEF TypeOK, Commit, Reread, Kept, Goto, Working, Answered
<1>5. ASSUME NEW r \in Request, ReadRows(r)
      PROVE  TypeOK'
  <2>1. seen[r] \in Request
    BY <1>5 DEF TypeOK, ReadRows, SeenFits
  <2>2. QED
    BY <1>5, <2>1 DEF TypeOK, ReadRows, Goto, Answered
<1>6. ASSUME NEW i \in Item, DeleteItem(i)
      PROVE  TypeOK'
  BY <1>6 DEF TypeOK, DeleteItem
<1>7. ASSUME NEW u \in User, EraseAccount(u)
      PROVE  TypeOK'
  BY <1>7 DEF TypeOK, EraseAccount
<1>8. CASE UNCHANGED vars
  BY <1>8 DEF TypeOK, vars
<1>9. QED
  BY <1>1, <1>2, <1>3, <1>4, <1>5, <1>6, <1>7, <1>8 DEF Next, Step

-----------------------------------------------------------------------------

LEMMA InitInv == Init => IInv
<1> SUFFICES ASSUME Init PROVE IInv
  OBVIOUS
<1>1. \A r \in Request : GroupPhase(r) /\ StampFits(r) /\ SeenFits(r)
  BY DEF Init, GroupPhase, StampFits, SeenFits
<1>2. WholeActions /\ OneWriterPerKey /\ ReplayListsOriginal
  BY DEF Init, WholeActions, OneWriterPerKey, ReplayListsOriginal
<1>3. QED
  BY <1>1, <1>2, InitType DEF IInv

(* A step of a request that touches neither the ledger nor what replays and  *)
(* commits recorded: only the place of r and, on its way to the check, its   *)
(* instant change.                                                           *)
LEMMA MoveInv ==
    ASSUME IInv, TypeOK', NEW r \in Request, NEW label, Goto(r, label),
           UNCHANGED <<input, group, rows, seen, got>>,
           pc[r] \notin {"log", "created", "rows", "replayed"},
           \/ /\ label \in {"validate", "invalid", "notfound", "conflict", "error"}
              /\ UNCHANGED stamp
              /\ pc[r] # "dead"
           \/ /\ label \in {"insert", "reread"}
              /\ pc[r] \in {"check", "insert"}
              /\ UNCHANGED stamp
           \/ /\ label = "check"
              /\ pc[r] = "validate"
              /\ stamp'[r] \in Instant
              /\ input[r].wornAt \in {None, stamp'[r]}
              /\ \A q \in Request \ {r} : stamp'[q] = stamp[q]
    PROVE  IInv'
<1>1. \A q \in Request : (GroupPhase(q) /\ StampFits(q))'
  BY DEF IInv, TypeOK, Goto, GroupPhase, StampFits
<1>2. \A q \in Request : SeenFits(q)'
  <2>1. \A q \in Request : seen[q] # None => seen[q] \in Request /\ stamp'[seen[q]] = stamp[seen[q]]
    BY DEF IInv, TypeOK, SeenFits, GroupPhase
  <2>2. QED
    BY <2>1 DEF IInv, TypeOK, Goto, SeenFits, SameKey, Matches
<1>3. WholeActions' /\ OneWriterPerKey'
  BY DEF IInv, WholeActions, OneWriterPerKey, SameKey
<1>4. ReplayListsOriginal'
  BY DEF IInv, TypeOK, Goto, ReplayListsOriginal
<1>5. QED
  BY <1>1, <1>2, <1>3, <1>4 DEF IInv

LEMMA CreateGroupInv ==
    ASSUME IInv, TypeOK', NEW r \in Request, CreateGroup(r)
    PROVE  IInv'
<1>1. CASE ~ (Kept(r) = {} /\ input[r].user \in users)
  BY <1>1, MoveInv DEF CreateGroup, Goto
<1>2. CASE Kept(r) = {} /\ input[r].user \in users
  <2>1. /\ pc[r] = "insert" /\ group[r] = "absent"
        /\ pc' = [pc EXCEPT ![r] = "log"] /\ group' = [group EXCEPT ![r] = "open"]
        /\ UNCHANGED <<users, items, input, stamp, rows, seen, got>>
    BY <1>2 DEF CreateGroup, Goto, IInv, TypeOK, GroupPhase
  <2>2. \A q \in Request : (GroupPhase(q) /\ StampFits(q) /\ SeenFits(q))'
    BY <2>1 DEF IInv, TypeOK, GroupPhase, StampFits, SeenFits, SameKey, Matches
  <2>3. WholeActions' /\ ReplayListsOriginal'
    BY <2>1 DEF IInv, TypeOK, WholeActions, ReplayListsOriginal, SeenFits
  <2>4. \A q \in Request \ {r} : SameKey(r, q) => group[q] \notin {"open", "kept"}
    BY <1>2 DEF CreateGroup, Writers, Kept
  <2>5. OneWriterPerKey'
    BY <2>1, <2>4 DEF IInv, TypeOK, OneWriterPerKey, SameKey
  <2>6. QED
    BY <2>2, <2>3, <2>5 DEF IInv
<1>3. QED
  BY <1>1, <1>2

LEMMA LogRowInv ==
    ASSUME IInv, TypeOK', NEW r \in Request, LogRow(r)
    PROVE  IInv'
<1>1. PICK i \in input[r].items : rows' = [rows EXCEPT ![r] = @ \cup {i}]
  BY DEF LogRow
<1>2. /\ group[r] = "open"
      /\ \A q \in Request \ {r} : rows'[q] = rows[q]
      /\ rows'[r] \subseteq input[r].items
      /\ UNCHANGED <<input, pc, stamp, group, seen, got>>
  BY <1>1 DEF LogRow, IInv, TypeOK, GroupPhase
<1>3. \A q \in Request : (GroupPhase(q) /\ StampFits(q) /\ SeenFits(q))'
  BY <1>2 DEF IInv, GroupPhase, StampFits, SeenFits, SameKey, Matches
<1>4. WholeActions' /\ OneWriterPerKey' /\ ReplayListsOriginal'
  BY <1>2 DEF IInv, WholeActions, OneWriterPerKey, ReplayListsOriginal, SameKey
<1>5. QED
  BY <1>3, <1>4 DEF IInv

LEMMA CommitInv ==
    ASSUME IInv, TypeOK', NEW r \in Request, Commit(r)
    PROVE  IInv'
<1>1. /\ group[r] = "open" /\ pc[r] = "log" /\ rows[r] = input[r].items
      /\ pc' = [pc EXCEPT ![r] = "created"] /\ group' = [group EXCEPT ![r] = "kept"]
      /\ \A q \in Request \ {r} : got'[q] = got[q]
      /\ UNCHANGED <<input, stamp, rows, seen>>
  BY DEF Commit, Goto, IInv, TypeOK, GroupPhase
<1>2. \A q \in Request : (GroupPhase(q) /\ StampFits(q) /\ SeenFits(q))'
  BY <1>1 DEF IInv, TypeOK, GroupPhase, StampFits, SeenFits, SameKey, Matches
<1>3. WholeActions' /\ OneWriterPerKey' /\ ReplayListsOriginal'
  BY <1>1 DEF IInv, TypeOK, WholeActions, OneWriterPerKey, ReplayListsOriginal, SeenFits, SameKey
<1>4. QED
  BY <1>2, <1>3 DEF IInv

(* A rollback, by the handler or by the database. *)
LEMMA RollbackInv ==
    ASSUME IInv, TypeOK', NEW r \in Request, LogFails(r) \/ Abort(r)
    PROVE  IInv'
<1>1. /\ pc[r] \in Working
      /\ \A q \in Request \ {r} : pc'[q] = pc[q] /\ group'[q] = group[q] /\ rows'[q] = rows[q]
      /\ pc'[r] \in {"error", "dead"}
      /\ pc'[r] = "error" => pc[r] = "log"
      /\ group'[r] = IF group[r] = "open" THEN "absent" ELSE group[r]
      /\ rows'[r] = IF group[r] = "open" THEN {} ELSE rows[r]
      /\ UNCHANGED <<input, stamp, seen, got>>
  BY DEF LogFails, Abort, Goto, IInv, TypeOK, GroupPhase, Working
<1>2. group[r] \in {"absent", "open"} /\ group'[r] = "absent" /\ rows'[r] = {}
  BY <1>1 DEF IInv, TypeOK, GroupPhase, WholeActions, Working
<1>3. \A q \in Request : (GroupPhase(q) /\ StampFits(q))'
  BY <1>1, <1>2 DEF IInv, GroupPhase, StampFits
<1>4. \A q \in Request : SeenFits(q)'
  BY <1>1, <1>2 DEF IInv, TypeOK, SeenFits, SameKey, Matches
<1>5. WholeActions' /\ OneWriterPerKey' /\ ReplayListsOriginal'
  BY <1>1, <1>2 DEF IInv, TypeOK, WholeActions, OneWriterPerKey, ReplayListsOriginal, SeenFits, SameKey
<1>6. QED
  BY <1>3, <1>4, <1>5 DEF IInv

LEMMA RereadInv ==
    ASSUME IInv, TypeOK', NEW r \in Request, Reread(r)
    PROVE  IInv'
<1>1. CASE Goto(r, "error") /\ UNCHANGED seen
  BY <1>1, MoveInv DEF Reread
<1>2. CASE Goto(r, "conflict") /\ UNCHANGED seen
  BY <1>2, MoveInv DEF Reread
<1>3. CASE \E q \in Kept(r) :
              Matches(r, q) /\ Goto(r, "rows") /\ seen' = [seen EXCEPT ![r] = q]
  <2>1. PICK q \in Kept(r) :
              Matches(r, q) /\ Goto(r, "rows") /\ seen' = [seen EXCEPT ![r] = q]
    BY <1>3
  <2>2. /\ q \in Request /\ group[q] = "kept" /\ SameKey(r, q) /\ Matches(r, q)
        /\ pc[r] = "reread" /\ pc' = [pc EXCEPT ![r] = "rows"]
        /\ seen' = [seen EXCEPT ![r] = q]
        /\ UNCHANGED <<input, stamp, group, rows, got>>
    BY <2>1 DEF Reread, Kept, Goto
  <2>3. \A p \in Request : (GroupPhase(p) /\ StampFits(p))'
    BY <2>2 DEF IInv, TypeOK, GroupPhase, StampFits
  <2>4. \A p \in Request : SeenFits(p)'
    BY <2>2, NoneAssumption DEF IInv, TypeOK, SeenFits, SameKey, Matches
  <2>5. WholeActions' /\ OneWriterPerKey' /\ ReplayListsOriginal'
    BY <2>2 DEF IInv, TypeOK, WholeActions, OneWriterPerKey, ReplayListsOriginal, SameKey
  <2>6. QED
    BY <2>3, <2>4, <2>5 DEF IInv
<1>4. QED
  BY <1>1, <1>2, <1>3 DEF Reread

LEMMA ReadRowsInv ==
    ASSUME IInv, TypeOK', NEW r \in Request, ReadRows(r)
    PROVE  IInv'
<1>1. /\ pc[r] = "rows" /\ pc' = [pc EXCEPT ![r] = "replayed"]
      /\ got'[r] = IF group[seen[r]] = "kept" THEN rows[seen[r]] ELSE {}
      /\ \A q \in Request \ {r} : got'[q] = got[q]
      /\ UNCHANGED <<input, stamp, group, rows, seen>>
  BY DEF ReadRows, Goto, IInv, TypeOK
<1>2. /\ seen[r] \in Request /\ group[seen[r]] \in {"kept", "erased"}
      /\ input[seen[r]].items = input[r].items
  BY <1>1 DEF IInv, TypeOK, SeenFits, Matches
<1>3. \A q \in Request : (GroupPhase(q) /\ StampFits(q) /\ SeenFits(q))'
  BY <1>1 DEF IInv, TypeOK, GroupPhase, StampFits, SeenFits, SameKey, Matches
<1>4. WholeActions' /\ OneWriterPerKey'
  BY <1>1 DEF IInv, WholeActions, OneWriterPerKey, SameKey
<1>5. ReplayListsOriginal'
  BY <1>1, <1>2 DEF IInv, TypeOK, WholeActions, ReplayListsOriginal
<1>6. QED
  BY <1>3, <1>4, <1>5 DEF IInv

LEMMA EraseInv ==
    ASSUME IInv, TypeOK', NEW u \in User, EraseAccount(u)
    PROVE  IInv'
<1>1. /\ \A q \in Request : input[q].user = u => group[q] # "open"
      /\ \A q \in Request : group'[q] = IF input[q].user = u /\ group[q] = "kept"
                                        THEN "erased" ELSE group[q]
      /\ \A q \in Request : rows'[q] = IF input[q].user = u THEN {} ELSE rows[q]
      /\ UNCHANGED <<input, pc, stamp, seen, got>>
  BY DEF EraseAccount, IInv, TypeOK
<1>2. \A q \in Request : (GroupPhase(q) /\ StampFits(q))'
  BY <1>1 DEF IInv, GroupPhase, StampFits
<1>3. \A q \in Request : SeenFits(q)'
  BY <1>1 DEF IInv, TypeOK, SeenFits, SameKey, Matches
<1>4. WholeActions' /\ OneWriterPerKey'
  BY <1>1 DEF IInv, TypeOK, WholeActions, OneWriterPerKey, SameKey
<1>5. ReplayListsOriginal'
  BY <1>1 DEF IInv, TypeOK, ReplayListsOriginal, SeenFits
<1>6. QED
  BY <1>2, <1>3, <1>4, <1>5 DEF IInv

LEMMA NextInv == IInv /\ [Next]_vars => IInv'
<1> SUFFICES ASSUME IInv, [Next]_vars PROVE IInv'
  OBVIOUS
<1>1. TypeOK'
  BY NextType
<1>2. ASSUME NEW r \in Request, Submit(r) \/ Validate(r) \/ CheckItems(r)
      PROVE  IInv'
  <2>1. CASE Submit(r)
    BY <1>1, <2>1, MoveInv DEF Submit
  <2>2. CASE Validate(r)
    <3>1. CASE Goto(r, "invalid") /\ UNCHANGED stamp
      BY <1>1, <2>2, <3>1, MoveInv DEF Validate
    <3>2. CASE ~ (Goto(r, "invalid") /\ UNCHANGED stamp)
      <4>1. PICK at \in Instant : /\ input[r].wornAt \in {None, at}
                                  /\ Goto(r, "check")
                                  /\ stamp' = [stamp EXCEPT ![r] = at]
        BY <2>2, <3>2, ValidateFacts DEF IInv
      <4>2. stamp'[r] = at /\ \A q \in Request \ {r} : stamp'[q] = stamp[q]
        BY <4>1 DEF IInv, TypeOK
      <4>3. QED
        BY <1>1, <2>2, <4>1, <4>2, MoveInv DEF Validate
    <3>3. QED
      BY <3>1, <3>2
  <2>3. CASE CheckItems(r)
    BY <1>1, <2>3, MoveInv DEF CheckItems
  <2>4. QED
    BY <1>2, <2>1, <2>2, <2>3
<1>3. ASSUME NEW r \in Request, Step(r) \/ LogFails(r) \/ Abort(r)
      PROVE  IInv'
  BY <1>1, <1>2, <1>3, CreateGroupInv, LogRowInv, CommitInv, RollbackInv, RereadInv, ReadRowsInv
  DEF Step
<1>4. ASSUME NEW i \in Item, DeleteItem(i)
      PROVE  IInv'
  BY <1>1, <1>4 DEF DeleteItem, IInv, GroupPhase, StampFits, SeenFits, WholeActions,
                    OneWriterPerKey, ReplayListsOriginal, SameKey, Matches
<1>5. ASSUME UNCHANGED vars
      PROVE  IInv'
  BY <1>1, <1>5 DEF vars, IInv, GroupPhase, StampFits, SeenFits, WholeActions,
                    OneWriterPerKey, ReplayListsOriginal, SameKey, Matches
<1>6. QED
  BY <1>1, <1>2, <1>3, <1>4, <1>5, EraseInv DEF Next

(* The inductive invariant holds in every behaviour. *)
THEOREM Invariance == Spec => []IInv
  BY InitInv, NextInv, PTL DEF Spec

(* Type correctness of the wear log. *)
THEOREM TypeCorrect == Spec => []TypeOK
<1>1. IInv => TypeOK
  BY DEF IInv
<1>2. QED
  BY <1>1, Invariance, PTL

(* All or nothing: a committed ledger row has exactly its event rows, and    *)
(* there is no event row without a ledger row.                               *)
THEOREM LoggedWholly == Spec => []WholeActions
<1>1. IInv => WholeActions
  BY DEF IInv
<1>2. QED
  BY <1>1, Invariance, PTL

(* The ledger lets at most one writer of a key past its insert.              *)
THEOREM LedgerArbitrates == Spec => []OneWriterPerKey
<1>1. IInv => OneWriterPerKey
  BY DEF IInv
<1>2. QED
  BY <1>1, Invariance, PTL

(* A replay lists the rows of the original action, or nothing when the       *)
(* account was erased under it.                                              *)
THEOREM ReplaysAreFaithful == Spec => []ReplayListsOriginal
<1>1. IInv => ReplayListsOriginal
  BY DEF IInv
<1>2. QED
  BY <1>1, Invariance, PTL

-----------------------------------------------------------------------------

(* No step touches the instant of a committed action. *)
LEMMA StampsStay ==
    ASSUME IInv, [Next]_vars, NEW q \in Request, group[q] \in {"kept", "erased"}
    PROVE  stamp'[q] = stamp[q]
<1>1. pc[q] = "created"
  BY DEF IInv, GroupPhase
<1>2. ASSUME NEW r \in Request, Validate(r)
      PROVE  stamp'[q] = stamp[q]
  BY <1>1, <1>2, ValidateFacts DEF Validate, IInv, TypeOK
<1>3. QED
  BY <1>2 DEF Next, Step, vars, Submit, CheckItems, CreateGroup, LogRow, Commit, LogFails, Reread,
              ReadRows, Abort, DeleteItem, EraseAccount

(* Committed history never changes while its account exists. *)
THEOREM HistoryStays == Spec => HistoryIsImmutable
<1>1. ASSUME IInv, [Next]_vars, NEW q \in Request, group[q] = "kept", input[q].user \in users'
      PROVE  group'[q] = "kept" /\ rows'[q] = rows[q] /\ stamp'[q] = stamp[q]
  <2>1. pc[q] = "created" /\ stamp'[q] = stamp[q]
    BY <1>1, StampsStay DEF IInv, GroupPhase
  <2>2. ASSUME NEW r \in Request, LogRow(r)
        PROVE  group'[q] = "kept" /\ rows'[q] = rows[q]
    <3>1. PICK i \in input[r].items : rows' = [rows EXCEPT ![r] = @ \cup {i}]
      BY <2>2 DEF LogRow
    <3>2. QED
      BY <1>1, <2>1, <2>2, <3>1 DEF LogRow, IInv, TypeOK
  <2>3. ASSUME NEW r \in Request, CreateGroup(r) \/ Commit(r) \/ LogFails(r) \/ Abort(r)
        PROVE  group'[q] = "kept" /\ rows'[q] = rows[q]
    BY <1>1, <2>1, <2>3
    DEF CreateGroup, Commit, LogFails, Abort, Working, IInv, TypeOK
  <2>4. ASSUME NEW u \in User, EraseAccount(u)
        PROVE  group'[q] = "kept" /\ rows'[q] = rows[q]
    BY <1>1, <2>4 DEF EraseAccount, IInv, TypeOK
  <2>5. QED
    BY <1>1, <2>1, <2>2, <2>3, <2>4
    DEF Next, Step, vars, Submit, Validate, CheckItems, Reread, ReadRows, DeleteItem
<1>2. IInv /\ [Next]_vars =>
        [\A r \in Request :
           group[r] = "kept" /\ input[r].user \in users' =>
              /\ group'[r] = "kept"
              /\ rows'[r] = rows[r]
              /\ stamp'[r] = stamp[r]]_vars
  BY <1>1
<1>3. QED
  BY <1>2, Invariance, PTL DEF Spec, HistoryIsImmutable

-----------------------------------------------------------------------------

SlotOf(q) == <<input[q].user, input[q].key>>

(* What the ledger holds under a slot: the one committed action, or nothing. *)
HeldSpec ==
    /\ \A q \in Request : group[q] = "kept" => Held[SlotOf(q)] = Action(q)
    /\ \A s \in User \X Key :
          (\A q \in Request : group[q] = "kept" => SlotOf(q) # s) => Held[s] = None

LEMMA HeldIs == IInv => HeldSpec
<1> SUFFICES ASSUME IInv PROVE HeldSpec
  OBVIOUS
<1>1. ASSUME NEW q \in Request, group[q] = "kept"
      PROVE  Held[SlotOf(q)] = Action(q)
  <2>1. SlotOf(q) \in User \X Key
    BY InputType DEF IInv, SlotOf
  <2>2. \A r \in Request : group[r] = "kept" /\ Asked[r].slot = SlotOf(q) => r = q
    BY <1>1 DEF IInv, OneWriterPerKey, SameKey, Asked, SlotOf
  <2>3. group[q] = "kept" /\ Asked[q].slot = SlotOf(q)
    BY <1>1 DEF Asked, SlotOf
  <2>4. (CHOOSE r \in Request : group[r] = "kept" /\ Asked[r].slot = SlotOf(q)) = q
    BY <2>2, <2>3
  <2>5. QED
    BY <2>1, <2>3, <2>4 DEF Held
<1>2. ASSUME NEW s \in User \X Key, \A q \in Request : group[q] = "kept" => SlotOf(q) # s
      PROVE  Held[s] = None
  <2>1. ~ \E r \in Request : group[r] = "kept" /\ Asked[r].slot = s
    BY <1>2 DEF Asked, SlotOf
  <2>2. QED
    BY <2>1 DEF Held
<1>3. QED
  BY <1>1, <1>2 DEF HeldSpec

(* The mapped state of a step: only committed rows and what was told count.  *)
LEMMA MappedStep ==
    ASSUME IInv, [Next]_vars
    PROVE  /\ HeldSpec /\ HeldSpec'
           /\ Asked' = Asked
           /\ \A q \in Request : SlotOf(q)' = SlotOf(q) /\ SlotOf(q) \in User \X Key
           /\ \A q \in Request : group[q] \in {"kept", "erased"} => Action(q)' = Action(q)
<1>1. IInv'
  BY NextInv
<1>2. HeldSpec'
  BY <1>1, HeldIs, PTL
<1>3. input' = input
  BY DEF Next, Step, vars, Submit, Validate, CheckItems, CreateGroup, LogRow, Commit, LogFails,
         Reread, ReadRows, Abort, DeleteItem, EraseAccount
<1>4. Asked' = Asked
  BY <1>3 DEF Asked
<1>5. \A q \in Request : SlotOf(q)' = SlotOf(q) /\ SlotOf(q) \in User \X Key
  BY <1>3, InputType DEF SlotOf, IInv
<1>6. \A q \in Request : group[q] \in {"kept", "erased"} => Action(q)' = Action(q)
  BY <1>3, StampsStay DEF Action
<1>7. QED
  BY <1>2, <1>4, <1>5, <1>6, HeldIs

(* While the same rows are committed, the ledger holds the same actions.     *)
LEMMA SameHeld ==
    ASSUME IInv, [Next]_vars, \A q \in Request : group'[q] = "kept" <=> group[q] = "kept"
    PROVE  Held' = Held
<1>1. ASSUME NEW s \in User \X Key
      PROVE  Held'[s] = Held[s]
  <2>1. CASE \E q \in Request : group[q] = "kept" /\ SlotOf(q) = s
    BY <2>1, MappedStep DEF HeldSpec
  <2>2. CASE ~ \E q \in Request : group[q] = "kept" /\ SlotOf(q) = s
    BY <2>2, MappedStep DEF HeldSpec
  <2>3. QED
    BY <2>1, <2>2
<1>2. QED
  BY <1>1 DEF Held

(* A request that stays where it is, or only reads on, was told the same.    *)
LEMMA SameOutcome ==
    ASSUME IInv, [Next]_vars, NEW q \in Request, seen'[q] = seen[q],
           \/ pc'[q] = pc[q]
           \/ pc[q] # "created" /\ pc'[q] # "created" /\ seen[q] # None
           \/ /\ pc[q] \in {"idle", "validate", "check", "insert", "log", "reread"}
              /\ pc'[q] \in {"idle", "validate", "check", "insert", "log", "reread"}
    PROVE  Outcome(q)' = Outcome(q)
<1>1. CASE pc[q] = "created"
  <2>1. Action(q)' = Action(q)
    BY <1>1, MappedStep DEF IInv, GroupPhase
  <2>2. pc'[q] = "created"
    BY <1>1
  <2>3. QED
    BY <1>1, <2>1, <2>2 DEF Outcome
<1>2. CASE pc[q] # "created" /\ seen[q] # None
  <2>1. seen[q] \in Request /\ group[seen[q]] \in {"kept", "erased"}
    BY <1>2 DEF IInv, TypeOK, SeenFits
  <2>2. Action(seen[q])' = Action(seen[q])
    BY <2>1, MappedStep DEF Action
  <2>3. pc'[q] # "created"
    BY <1>2
  <2>4. QED
    BY <1>2, <2>2, <2>3 DEF Outcome
<1>3. CASE pc[q] # "created" /\ seen[q] = None
  BY <1>3 DEF Outcome
<1>4. QED
  BY <1>1, <1>2, <1>3

(* One request moves and the committed rows stay: the others were told what  *)
(* they were told, so the mapped step only tells r something, or nothing.    *)
LEMMA OnlyTells ==
    ASSUME IInv, [Next]_vars, NEW r \in Request,
           \A q \in Request : group'[q] = "kept" <=> group[q] = "kept",
           \A q \in Request \ {r} : pc'[q] = pc[q] /\ seen'[q] = seen[q]
    PROVE  /\ Asked' = Asked /\ Held' = Held
           /\ Told' = [Told EXCEPT ![r] = Outcome(r)']
<1>1. \A q \in Request \ {r} : Outcome(q)' = Outcome(q)
  BY SameOutcome
<1>2. QED
  BY <1>1, SameHeld, MappedStep DEF Told

(* What stands under the slot of r, when one of the rows of its key is kept. *)
LEMMA HeldByKey ==
    ASSUME IInv, [Next]_vars, NEW r \in Request, NEW q \in Request,
           group[q] = "kept", SameKey(r, q)
    PROVE  Held[Asked[r].slot] = Action(q)
  BY MappedStep DEF HeldSpec, Asked, SlotOf, SameKey

(* A committed action is a content, and fits a submission exactly when the   *)
(* payload comparison says so.                                               *)
LEMMA ActionFits ==
    ASSUME IInv, NEW r \in Request, NEW q \in Request, group[q] \in {"kept", "erased", "open"}
    PROVE  /\ Action(q) \in WearContent
           /\ Promise!Fitting(r, Action(q)) <=> Matches(r, q)
<1>1. stamp[q] \in Instant
  BY DEF IInv, GroupPhase, StampFits
<1>2. Action(q) \in WearContent
  BY <1>1, InputType DEF IInv, Action, WearContent
<1>3. Asked[r].payload \in WearPayload
  BY InputType DEF IInv, Asked, WearPayload
<1>4. /\ Asked[r].payload.items = input[r].items
      /\ Asked[r].payload.wornAt = input[r].wornAt
      /\ Action(q).items = input[q].items
      /\ Action(q).wornAt = stamp[q]
  BY DEF Asked, Action
<1>5. <<Asked[r].payload, Action(q)>> \in WearFits <=> Matches(r, q)
  BY <1>2, <1>3, <1>4 DEF WearFits, Matches
<1>6. QED
  BY <1>2, <1>5 DEF Promise!Fitting

LEMMA PromiseInit == Init => Promise!Init
<1> SUFFICES ASSUME Init PROVE Promise!Init
  OBVIOUS
<1>1. TypeOK
  BY InitType
<1>2. Asked \in [Request -> [slot: User \X Key, payload: WearPayload]]
  BY <1>1, InputType DEF Asked, WearPayload
<1>3. Held = [s \in User \X Key |-> None]
  BY DEF Init, Held
<1>4. Told = [r \in Request |-> [tag |-> "waiting"]]
  BY DEF Init, Told, Outcome
<1>5. QED
  BY <1>2, <1>3, <1>4 DEF Promise!Init

(* Every step of the ledger is a step of the promise, or invisible in it.    *)
LEMMA PromiseStep ==
    IInv /\ [Next]_vars => [Promise!Next]_<<Asked, Held, Told>>
<1> SUFFICES ASSUME IInv, [Next]_vars
             PROVE  Promise!Next \/ UNCHANGED <<Asked, Held, Told>>
  OBVIOUS
<1>1. ASSUME NEW r \in Request, Outcome(r)' = Outcome(r),
             \A q \in Request : group'[q] = "kept" <=> group[q] = "kept",
             \A q \in Request \ {r} : pc'[q] = pc[q] /\ seen'[q] = seen[q]
      PROVE  UNCHANGED <<Asked, Held, Told>>
  BY <1>1, OnlyTells DEF Told
<1>2. ASSUME NEW r \in Request, Outcome(r) = [tag |-> "waiting"],
             Outcome(r)' = [tag |-> "refused"],
             \A q \in Request : group'[q] = "kept" <=> group[q] = "kept",
             \A q \in Request \ {r} : pc'[q] = pc[q] /\ seen'[q] = seen[q]
      PROVE  Promise!Next
  <2>1. Told[r].tag = "waiting"
    BY <1>2 DEF Told
  <2>2. /\ UNCHANGED <<Asked, Held>>
        /\ Told' = [Told EXCEPT ![r] = [tag |-> "refused"]]
    BY <1>2, OnlyTells
  <2>3. Promise!Refuse(r)
    BY <2>1, <2>2 DEF Promise!Refuse, Promise!Waiting, Promise!Tell
  <2>4. QED
    BY <2>3 DEF Promise!Next
<1>3. ASSUME NEW r \in Request, Submit(r) \/ Validate(r) \/ CheckItems(r)
      PROVE  Promise!Next \/ UNCHANGED <<Asked, Held, Told>>
  <2>1. /\ UNCHANGED <<group, seen>>
        /\ \A q \in Request \ {r} : pc'[q] = pc[q]
        /\ pc[r] \in {"idle", "validate", "check"}
        /\ pc'[r] \in {"validate", "check", "insert", "invalid", "notfound"}
    BY <1>3, ValidateFacts DEF Submit, Validate, CheckItems, Goto, IInv, TypeOK
  <2>2. CASE pc'[r] \in {"validate", "check", "insert"}
    BY <1>1, <2>1, <2>2, SameOutcome
  <2>3. CASE pc'[r] \in {"invalid", "notfound"}
    <3>1. seen[r] = None /\ seen'[r] = None
      BY <2>1 DEF IInv, SeenFits
    <3>2. QED
      BY <1>2, <2>1, <2>3, <3>1 DEF Outcome
  <2>4. QED
    BY <2>1, <2>2, <2>3
<1>4. ASSUME NEW r \in Request, CreateGroup(r) \/ LogRow(r)
      PROVE  UNCHANGED <<Asked, Held, Told>>
  <2>1. /\ seen' = seen
        /\ \A q \in Request \ {r} : pc'[q] = pc[q]
        /\ pc[r] \in {"insert", "log"}
        /\ pc'[r] \in {"log", "reread"}
        /\ \A q \in Request : group'[q] = "kept" <=> group[q] = "kept"
    BY <1>4 DEF CreateGroup, LogRow, Goto, IInv, TypeOK, GroupPhase
  <2>2. QED
    BY <1>1, <2>1, SameOutcome
<1>5. ASSUME NEW r \in Request, LogFails(r) \/ Abort(r)
      PROVE  Promise!Next \/ UNCHANGED <<Asked, Held, Told>>
  <2>1. /\ seen' = seen
        /\ \A q \in Request \ {r} : pc'[q] = pc[q]
        /\ pc[r] \in Working
        /\ pc'[r] \in {"error", "dead"}
        /\ \A q \in Request : group'[q] = "kept" <=> group[q] = "kept"
    BY <1>5 DEF LogFails, Abort, Goto, IInv, TypeOK, GroupPhase, Working
  <2>2. CASE seen[r] # None
    BY <1>1, <2>1, <2>2, SameOutcome DEF Working
  <2>3. CASE seen[r] = None
    <3>1. pc[r] \in {"validate", "check", "insert", "log", "reread"}
      BY <2>1, <2>3 DEF Working, IInv, SeenFits
    <3>2. Outcome(r) = [tag |-> "waiting"] /\ Outcome(r)' = [tag |-> "refused"]
      BY <2>1, <2>3, <3>1 DEF Outcome
    <3>3. QED
      BY <1>2, <2>1, <3>2
  <2>4. QED
    BY <2>2, <2>3
<1>6. ASSUME NEW r \in Request, Commit(r)
      PROVE  Promise!Next
  <2>1. /\ pc[r] = "log" /\ pc'[r] = "created" /\ group[r] = "open"
        /\ \A q \in Request \ {r} : pc'[q] = pc[q] /\ group'[q] = group[q]
        /\ group'[r] = "kept"
        /\ UNCHANGED <<input, stamp, seen>>
    BY <1>6 DEF Commit, Goto, IInv, TypeOK, GroupPhase
  <2>2. Action(r)' = Action(r)
    BY <2>1 DEF Action
  <2>3. Action(r) \in WearContent /\ Promise!Fitting(r, Action(r))
    BY <2>1, ActionFits DEF IInv, StampFits, Matches
  <2>4. \A q \in Request : group[q] = "kept" => SlotOf(q) # SlotOf(r)
    BY <2>1 DEF IInv, OneWriterPerKey, SameKey, SlotOf
  <2>5. Asked[r].slot = SlotOf(r) /\ SlotOf(r) \in User \X Key
    BY MappedStep DEF Asked, SlotOf
  <2>6. Held[SlotOf(r)] = None
    BY <2>4, <2>5, MappedStep DEF HeldSpec
  <2>7. Held'[SlotOf(r)] = Action(r)
    BY <2>1, <2>2, MappedStep DEF HeldSpec
  <2>8. ASSUME NEW s \in User \X Key, s # SlotOf(r)
        PROVE  Held'[s] = Held[s]
    <3>1. CASE \E q \in Request : group[q] = "kept" /\ SlotOf(q) = s
      BY <2>1, <2>8, <3>1, MappedStep DEF HeldSpec
    <3>2. CASE ~ \E q \in Request : group[q] = "kept" /\ SlotOf(q) = s
      BY <2>1, <2>8, <3>2, MappedStep DEF HeldSpec
    <3>3. QED
      BY <3>1, <3>2
  <2>9. Held' = [Held EXCEPT ![SlotOf(r)] = Action(r)]
    <3>1. /\ Held = [s \in User \X Key |-> Held[s]]
          /\ Held' = [s \in User \X Key |-> Held'[s]]
      BY DEF Held
    <3>2. QED
      BY <2>5, <2>7, <2>8, <3>1
  <2>10. \A q \in Request \ {r} : Outcome(q)' = Outcome(q)
    BY <2>1, SameOutcome
  <2>11. /\ Outcome(r) = [tag |-> "waiting"]
         /\ Outcome(r)' = [tag |-> "created", content |-> Action(r)]
    BY <2>1, <2>2 DEF Outcome, IInv, SeenFits
  <2>12. Told' = [Told EXCEPT ![r] = [tag |-> "created", content |-> Action(r)]]
    BY <2>10, <2>11 DEF Told
  <2>13. Told[r].tag = "waiting"
    BY <2>11 DEF Told
  <2>14. Promise!Create(r)
    BY <2>3, <2>5, <2>6, <2>9, <2>12, <2>13, MappedStep
    DEF Promise!Create, Promise!Waiting, Promise!Tell
  <2>15. QED
    BY <2>14 DEF Promise!Next
<1>7. ASSUME NEW r \in Request, Reread(r)
      PROVE  Promise!Next
  <2>1. /\ UNCHANGED <<input, stamp, group>> /\ pc[r] = "reread" /\ seen[r] = None
        /\ \A q \in Request \ {r} : pc'[q] = pc[q] /\ seen'[q] = seen[q]
        /\ Outcome(r) = [tag |-> "waiting"]
    BY <1>7 DEF Reread, Goto, Outcome, IInv, TypeOK, SeenFits
  <2>2. CASE Goto(r, "error") /\ UNCHANGED seen
    <3>1. pc'[r] = "error" /\ seen'[r] = None
      BY <2>1, <2>2 DEF Goto, IInv, TypeOK
    <3>2. Outcome(r)' = [tag |-> "refused"]
      BY <3>1 DEF Outcome
    <3>3. QED
      BY <1>2, <2>1, <3>2
  <2>3. ASSUME NEW q \in Kept(r), ~ Matches(r, q), Goto(r, "conflict"), UNCHANGED seen
        PROVE  Promise!Next
    <3>1. q \in Request /\ group[q] = "kept" /\ SameKey(r, q)
      BY DEF Kept
    <3>2. Outcome(r)' = [tag |-> "conflict"]
      BY <2>1, <2>3 DEF Goto, Outcome, IInv, TypeOK
    <3>3. Held[Asked[r].slot] = Action(q) /\ Action(q) # None
      BY <3>1, HeldByKey, ActionFits, NoneIsNoContent
    <3>4. ~ Promise!Fitting(r, Action(q))
      BY <2>3, <3>1, ActionFits
    <3>5. /\ Told[r].tag = "waiting" /\ UNCHANGED <<Asked, Held>>
          /\ Told' = [Told EXCEPT ![r] = [tag |-> "conflict"]]
      BY <2>1, <2>3, <3>2, OnlyTells DEF Told
    <3>6. Promise!Conflict(r)
      BY <3>3, <3>4, <3>5 DEF Promise!Conflict, Promise!Waiting, Promise!Tell
    <3>7. QED
      BY <3>6 DEF Promise!Next
  <2>4. ASSUME NEW q \in Kept(r), Matches(r, q), Goto(r, "rows"), seen' = [seen EXCEPT ![r] = q]
        PROVE  Promise!Next
    <3>1. q \in Request /\ group[q] = "kept" /\ SameKey(r, q)
      BY DEF Kept
    <3>2. pc'[r] = "rows" /\ seen'[r] = q /\ q # None /\ Action(q)' = Action(q)
      BY <2>1, <2>4, <3>1, NoneAssumption, MappedStep DEF Goto, IInv, TypeOK
    <3>3. Outcome(r)' = [tag |-> "replayed", content |-> Action(q)]
      BY <3>2 DEF Outcome, Action
    <3>4. Held[Asked[r].slot] = Action(q) /\ Action(q) # None
      BY <3>1, HeldByKey, ActionFits, NoneIsNoContent
    <3>5. Promise!Fitting(r, Action(q))
      BY <2>4, <3>1, ActionFits
    <3>6. /\ Told[r].tag = "waiting" /\ UNCHANGED <<Asked, Held>>
          /\ Told' = [Told EXCEPT ![r] = [tag |-> "replayed", content |-> Action(q)]]
      BY <2>1, <3>3, OnlyTells DEF Told
    <3>7. Promise!Replay(r)
      BY <3>4, <3>5, <3>6 DEF Promise!Replay, Promise!Waiting, Promise!Tell
    <3>8. QED
      BY <3>7 DEF Promise!Next
  <2>5. QED
    BY <1>7, <2>2, <2>3, <2>4 DEF Reread
<1>8. ASSUME NEW r \in Request, ReadRows(r)
      PROVE  UNCHANGED <<Asked, Held, Told>>
  <2>1. /\ UNCHANGED <<group, seen>> /\ pc[r] = "rows" /\ pc'[r] = "replayed"
        /\ \A q \in Request \ {r} : pc'[q] = pc[q]
    BY <1>8 DEF ReadRows, Goto, IInv, TypeOK
  <2>2. Outcome(r)' = Outcome(r)
    BY <2>1, SameOutcome DEF IInv, SeenFits
  <2>3. QED
    BY <1>1, <2>1, <2>2
<1>9. ASSUME NEW u \in User, EraseAccount(u)
      PROVE  Promise!Next
  <2>1. /\ UNCHANGED <<input, pc, stamp, seen>>
        /\ \A q \in Request : group'[q] = "kept" <=> group[q] = "kept" /\ input[q].user # u
    BY <1>9 DEF EraseAccount, IInv, TypeOK
  <2>2. Told' = Told
    BY <2>1, SameOutcome DEF Told
  <2>3. ASSUME NEW s \in User \X Key
        PROVE  Held'[s] = IF s \in {u} \X Key THEN None ELSE Held[s]
    <3>1. CASE s \in {u} \X Key
      BY <2>1, <3>1, MappedStep DEF HeldSpec, SlotOf
    <3>2. CASE s \notin {u} \X Key /\ \E q \in Request : group[q] = "kept" /\ SlotOf(q) = s
      <4>1. PICK q \in Request : group[q] = "kept" /\ SlotOf(q) = s
        BY <3>2
      <4>2. input[q].user # u
        BY <3>2, <4>1, InputType DEF SlotOf, IInv
      <4>3. QED
        BY <2>1, <3>2, <4>1, <4>2, MappedStep DEF HeldSpec
    <3>3. CASE s \notin {u} \X Key /\ ~ \E q \in Request : group[q] = "kept" /\ SlotOf(q) = s
      BY <2>1, <3>3, MappedStep DEF HeldSpec
    <3>4. QED
      BY <3>1, <3>2, <3>3
  <2>4. Held' = [s \in User \X Key |-> IF s \in {u} \X Key THEN None ELSE Held[s]]
    BY <2>3 DEF Held
  <2>5. Promise!Release({u} \X Key)
    BY <2>2, <2>4, MappedStep DEF Promise!Release
  <2>6. {u} \X Key \in SUBSET (User \X Key)
    OBVIOUS
  <2>7. QED
    BY <2>5, <2>6 DEF Promise!Next
<1>10. ASSUME UNCHANGED vars \/ \E i \in Item : DeleteItem(i)
       PROVE  UNCHANGED <<Asked, Held, Told>>
  <2>1. UNCHANGED <<input, pc, group, seen>>
    BY <1>10 DEF vars, DeleteItem
  <2>2. Held' = Held
    BY <2>1, SameHeld
  <2>3. Told' = Told
    BY <2>1, SameOutcome DEF Told
  <2>4. QED
    BY <2>2, <2>3, MappedStep
<1>11. QED
  BY <1>3, <1>4, <1>5, <1>6, <1>7, <1>8, <1>9, <1>10 DEF Next, Step

(* The ledger implements the promise of the Idempotency-Key.                 *)
THEOREM ImplementsPromise == Spec => KeepsPromise
  BY Invariance, PromiseInit, PromiseStep, PTL DEF Spec, KeepsPromise, Promise!Spec
=============================================================================
