-------------------------- MODULE SavedLooks_proofs --------------------------
(* Proofs about SavedLooks, for any number of requests, accounts, keys,      *)
(* items and payloads.                                                       *)
EXTENDS SavedLooks, TLAPS

(* What an open transaction has written follows the place of its request;    *)
(* only saves have one, and a row was stored exactly by a 201.               *)
Phase(r) ==
    /\ tx[r] = CASE pc[r] = "signal" -> {"look"}
                 [] pc[r] = "day"    -> {"look", "signal"}
                 [] pc[r] = "commit" -> Writes
                 [] OTHER            -> {}
    /\ pc[r] \in {"signal", "day", "commit"} => IsSave(r)
    /\ look[r] # "absent" => pc[r] = "created" /\ IsSave(r)
    /\ r \in reacted => pc[r] = "created" /\ ~ IsSave(r)

(* Past its check a reaction targets a look of its own account, if any.      *)
CheckedOwner(r) ==
    /\ pc[r] \in {"lookup", "insert"}
    /\ ~ IsSave(r)
    /\ input[r].target # None
    => SameUser(r, input[r].target)

IInv ==
    /\ TypeOK
    /\ \A r \in Request : Phase(r) /\ CheckedOwner(r)
    /\ SaveIsWhole
    /\ OneRowPerKey
    /\ NoDanglingTarget

-----------------------------------------------------------------------------

LEMMA InputType ==
    ASSUME TypeOK, NEW r \in Request
    PROVE  /\ input[r].user \in User
           /\ ~ IsSave(r) => input[r].target \in Request \cup {None}
  BY DEF TypeOK, Input, Save, Reaction, IsSave

LEMMA InitType == Init => TypeOK
  BY InputsAssumption DEF Init, TypeOK

LEMMA NextType == TypeOK /\ [Next]_vars => TypeOK'
<1> SUFFICES ASSUME TypeOK, [Next]_vars PROVE TypeOK'
  OBVIOUS
<1>1. ASSUME NEW r \in Request, Submit(r) \/ Check(r) \/ Fails(r) \/ Abort(r)
      PROVE  TypeOK'
  BY <1>1 DEF TypeOK, Submit, Check, Fails, Abort, Goto, Working, Answered, rows
<1>2. ASSUME NEW r \in Request, Lookup(r)
      PROVE  TypeOK'
  BY <1>2 DEF TypeOK, Lookup, Holders, Goto, Give, Working, Answered, rows
<1>3. ASSUME NEW r \in Request, InsertLook(r) \/ InsertSignal(r) \/ MarkStyled(r)
      PROVE  TypeOK'
  BY <1>3 DEF TypeOK, InsertLook, InsertSignal, MarkStyled, Goto, Working, Answered, Writes, rows
<1>4. ASSUME NEW r \in Request, CommitSave(r) \/ React(r)
      PROVE  TypeOK'
  BY <1>4, InputType DEF TypeOK, CommitSave, React, Goto, Give, Answered
<1>5. ASSUME NEW q \in Request, DeleteLook(q)
      PROVE  TypeOK'
  BY <1>5 DEF TypeOK, DeleteLook
<1>6. ASSUME NEW i \in Item, DeleteItem(i)
      PROVE  TypeOK'
  BY <1>6 DEF TypeOK, DeleteItem, rows
<1>7. ASSUME NEW u \in User, EraseAccount(u)
      PROVE  TypeOK'
  BY <1>7 DEF TypeOK, EraseAccount
<1>8. CASE UNCHANGED vars
  BY <1>8 DEF TypeOK, vars
<1>9. QED
  BY <1>1, <1>2, <1>3, <1>4, <1>5, <1>6, <1>7, <1>8 DEF Next, Step

(* Type correctness of saves and reactions. *)
THEOREM TypeCorrect == Spec => []TypeOK
  BY InitType, NextType, PTL DEF Spec

-----------------------------------------------------------------------------

LEMMA InitInv == Init => IInv
<1> SUFFICES ASSUME Init PROVE IInv
  OBVIOUS
<1>1. \A r \in Request : Phase(r) /\ CheckedOwner(r)
  BY DEF Init, Phase, CheckedOwner
<1>2. SaveIsWhole /\ OneRowPerKey /\ NoDanglingTarget
  BY DEF Init, SaveIsWhole, OneRowPerKey, NoDanglingTarget
<1>3. QED
  BY <1>1, <1>2, InitType DEF IInv

(* While no row changes, only the open transactions can disturb the rows'    *)
(* invariants, and only by writing.                                          *)
LEMMA RowsInv ==
    ASSUME IInv, UNCHANGED <<input, rows>>,
           \A q \in Request : tx[q] = {} => tx'[q] = {}
    PROVE  SaveIsWhole' /\ OneRowPerKey' /\ NoDanglingTarget'
<1>1. SaveIsWhole' /\ NoDanglingTarget'
  BY DEF IInv, TypeOK, rows, SaveIsWhole, NoDanglingTarget, IsOwnLook, SameUser
<1>2. OneRowPerKey'
  BY DEF IInv, TypeOK, rows, OneRowPerKey, SameKey, SameUser
<1>3. QED
  BY <1>1, <1>2

(* A request with no open transaction and no row moves on without one. *)
LEMMA MoveInv ==
    ASSUME IInv, TypeOK', NEW r \in Request, NEW label, Goto(r, label),
           pc[r] \in {"idle", "check", "lookup", "insert"},
           label \in {"check", "lookup", "insert"} \cup (Answered \ {"created"}),
           label = "insert" => pc[r] = "lookup",
           label = "lookup" /\ ~ IsSave(r) /\ input[r].target # None
              => SameUser(r, input[r].target),
           UNCHANGED <<input, tx, rows>>
    PROVE  IInv'
<1>1. \A q \in Request : Phase(q)'
  BY DEF IInv, TypeOK, Goto, Phase, IsSave, Answered, rows
<1>2. \A q \in Request : CheckedOwner(q)'
  BY DEF IInv, TypeOK, Goto, CheckedOwner, IsSave, SameUser, Answered
<1>3. QED
  BY <1>1, <1>2, RowsInv DEF IInv

LEMMA InsertLookInv ==
    ASSUME IInv, TypeOK', NEW r \in Request, InsertLook(r)
    PROVE  IInv'
<1>1. CASE Refused(r)
  BY <1>1, MoveInv DEF InsertLook, Goto, Answered
<1>2. CASE ~ Refused(r)
  <2>1. /\ pc[r] = "insert" /\ IsSave(r)
        /\ pc' = [pc EXCEPT ![r] = "signal"] /\ tx' = [tx EXCEPT ![r] = {"look"}]
        /\ UNCHANGED <<users, items, input, look, signals, styled, reacted, target, answer>>
    BY <1>2 DEF InsertLook, Goto, rows
  <2>2. \A q \in Request : (Phase(q) /\ CheckedOwner(q))'
    BY <2>1 DEF IInv, TypeOK, Phase, CheckedOwner, IsSave, SameUser
  <2>3. \A q \in Request \ {r} :
           SameKey(r, q) => look[q] # "kept" /\ tx[q] = {} /\ q \notin reacted
    <3>1. ASSUME NEW q \in Request \ {r}, SameKey(r, q)
          PROVE  "look" \notin tx[q] /\ look[q] # "kept" /\ q \notin reacted
      BY <1>2, <3>1 DEF InsertLook, Refused, Holders
    <3>2. \A q \in Request : tx[q] # {} => "look" \in tx[q]
      BY DEF IInv, Phase, Writes
    <3>3. QED
      BY <3>1, <3>2
  <2>4. OneRowPerKey'
    BY <2>1, <2>3 DEF IInv, TypeOK, OneRowPerKey, SameKey, SameUser
  <2>5. SaveIsWhole' /\ NoDanglingTarget'
    BY <2>1 DEF IInv, SaveIsWhole, NoDanglingTarget, IsOwnLook, SameUser
  <2>6. QED
    BY <2>2, <2>4, <2>5 DEF IInv
<1>3. QED
  BY <1>1, <1>2

(* The signal and the day are written by a transaction that is open already. *)
LEMMA WriteInv ==
    ASSUME IInv, TypeOK', NEW r \in Request, InsertSignal(r) \/ MarkStyled(r)
    PROVE  IInv'
<1>1. /\ \/ pc[r] = "signal" /\ pc'[r] = "day" /\ tx'[r] = tx[r] \cup {"signal"}
         \/ pc[r] = "day" /\ pc'[r] = "commit" /\ tx'[r] = tx[r] \cup {"day"}
      /\ \A q \in Request \ {r} : pc'[q] = pc[q] /\ tx'[q] = tx[q]
      /\ UNCHANGED <<users, items, input, rows, answer>>
  BY DEF InsertSignal, MarkStyled, Goto, IInv, TypeOK
<1>2. \A q \in Request \ {r} : Phase(q)'
  BY <1>1 DEF IInv, Phase, IsSave, rows
<1>3. Phase(r)' /\ tx[r] # {}
  BY <1>1 DEF IInv, Phase, IsSave, Writes, rows
<1>4. \A q \in Request : CheckedOwner(q)'
  BY <1>1 DEF IInv, CheckedOwner, IsSave, SameUser
<1>5. QED
  BY <1>1, <1>2, <1>3, <1>4, RowsInv DEF IInv

LEMMA CommitInv ==
    ASSUME IInv, TypeOK', NEW r \in Request, CommitSave(r)
    PROVE  IInv'
<1>0. pc[r] = "commit" => IsSave(r) /\ tx[r] = Writes /\ r \notin reacted /\ look[r] = "absent"
  BY DEF IInv, Phase
<1>1. /\ pc[r] = "commit" /\ IsSave(r) /\ tx[r] # {} /\ r \notin reacted /\ look[r] = "absent"
      /\ pc' = [pc EXCEPT ![r] = "created"] /\ tx' = [tx EXCEPT ![r] = {}]
      /\ look' = [look EXCEPT ![r] = "kept"] /\ signals' = signals \cup {r}
      /\ styled' = styled \cup {input[r].user}
      /\ UNCHANGED <<input, reacted, target>>
  BY <1>0 DEF CommitSave, Goto, Writes
<1>2. \A q \in Request : (Phase(q) /\ CheckedOwner(q))'
  BY <1>1, ZenonT(30) DEF IInv, TypeOK, Phase, CheckedOwner, IsSave, SameUser
<1>3. SaveIsWhole'
  BY <1>1 DEF IInv, TypeOK, SaveIsWhole
<1>4. OneRowPerKey'
  BY <1>1 DEF IInv, TypeOK, OneRowPerKey, SameKey, SameUser
<1>5. NoDanglingTarget'
  BY <1>1 DEF IInv, TypeOK, NoDanglingTarget, IsOwnLook, SameUser
<1>6. QED
  BY <1>2, <1>3, <1>4, <1>5 DEF IInv

LEMMA RollbackInv ==
    ASSUME IInv, TypeOK', NEW r \in Request, Fails(r) \/ Abort(r)
    PROVE  IInv'
<1>1. /\ pc[r] \in Working /\ pc'[r] \in {"error", "dead"} /\ tx'[r] = {}
      /\ \A q \in Request \ {r} : pc'[q] = pc[q] /\ tx'[q] = tx[q]
      /\ UNCHANGED <<users, items, input, rows, answer>>
  BY DEF Fails, Abort, Goto, IInv, TypeOK, Working
<1>2. \A q \in Request \ {r} : Phase(q)'
  BY <1>1 DEF IInv, Phase, IsSave, rows
<1>3. Phase(r)'
  BY <1>1 DEF IInv, Phase, IsSave, Working, rows
<1>4. \A q \in Request : CheckedOwner(q)'
  BY <1>1 DEF IInv, CheckedOwner, IsSave, SameUser
<1>5. QED
  BY <1>1, <1>2, <1>3, <1>4, RowsInv DEF IInv

LEMMA ReactInv ==
    ASSUME IInv, TypeOK', NEW r \in Request, React(r)
    PROVE  IInv'
<1>1. CASE Refused(r) \/ (input[r].target # None /\ look[input[r].target] # "kept")
  BY <1>1, MoveInv DEF React, Goto, Answered, rows
<1>2. CASE ~ (Refused(r) \/ (input[r].target # None /\ look[input[r].target] # "kept"))
  <2>1. /\ pc[r] = "insert" /\ ~ IsSave(r) /\ Holders(r) = {}
        /\ input[r].target # None => look[input[r].target] = "kept"
        /\ pc' = [pc EXCEPT ![r] = "created"]
        /\ reacted' = reacted \cup {r} /\ target' = [target EXCEPT ![r] = input[r].target]
        /\ UNCHANGED <<users, items, input, tx, look, signals, styled>>
    BY <1>2 DEF React, Goto, Refused
  <2>2. \A q \in Request : (Phase(q) /\ CheckedOwner(q))'
    BY <2>1 DEF IInv, TypeOK, Phase, CheckedOwner, IsSave, SameUser
  <2>3. \A q \in Request : SameKey(r, q) => look[q] # "kept" /\ tx[q] = {} /\ q \notin reacted
    BY <2>1 DEF IInv, Phase, Holders, SameKey, IsSave
  <2>4. OneRowPerKey'
    BY <2>1, <2>3 DEF IInv, TypeOK, OneRowPerKey, SameKey, SameUser
  <2>5. NoDanglingTarget'
    <3>1. input[r].target # None => IsOwnLook(r, input[r].target)
      BY <2>1, InputType DEF IInv, CheckedOwner, IsOwnLook
    <3>2. QED
      BY <2>1, <3>1 DEF IInv, TypeOK, NoDanglingTarget, IsOwnLook, SameUser
  <2>6. SaveIsWhole'
    BY <2>1 DEF IInv, SaveIsWhole
  <2>7. QED
    BY <2>2, <2>4, <2>5, <2>6 DEF IInv
<1>3. QED
  BY <1>1, <1>2

(* Deleting a look clears every target that named it in the same step. *)
LEMMA DeleteLookInv ==
    ASSUME IInv, TypeOK', NEW q \in Request, DeleteLook(q)
    PROVE  IInv'
<1>1. /\ look[q] = "kept" /\ look' = [look EXCEPT ![q] = "deleted"]
      /\ \A r \in Request : target'[r] = IF target[r] = q THEN None ELSE target[r]
      /\ UNCHANGED <<input, pc, tx, signals, styled, reacted>>
  BY DEF DeleteLook, IInv, TypeOK
<1>2. \A r \in Request : (Phase(r) /\ CheckedOwner(r))'
  BY <1>1 DEF IInv, TypeOK, Phase, CheckedOwner, IsSave, SameUser
<1>3. SaveIsWhole' /\ OneRowPerKey'
  BY <1>1 DEF IInv, TypeOK, SaveIsWhole, OneRowPerKey, SameKey, SameUser
<1>4. NoDanglingTarget'
  BY <1>1 DEF IInv, TypeOK, NoDanglingTarget, IsOwnLook, SameUser
<1>5. QED
  BY <1>2, <1>3, <1>4 DEF IInv

(* The erasure takes the looks of the account and, as targets are its own,   *)
(* every reaction that names one.                                            *)
LEMMA EraseInv ==
    ASSUME IInv, TypeOK', NEW u \in User, EraseAccount(u)
    PROVE  IInv'
<1>1. /\ \A r \in Request : look'[r] = IF input[r].user = u /\ look[r] = "kept"
                                       THEN "erased" ELSE look[r]
      /\ signals' = {r \in signals : input[r].user # u}
      /\ styled' = styled \ {u}
      /\ reacted' = {r \in reacted : input[r].user # u}
      /\ \A r \in Request : target'[r] = IF input[r].user = u THEN None ELSE target[r]
      /\ UNCHANGED <<input, pc, tx>>
  BY DEF EraseAccount, IInv, TypeOK
<1>2. \A r \in Request : (Phase(r) /\ CheckedOwner(r))'
  BY <1>1 DEF IInv, Phase, CheckedOwner, IsSave, SameUser
<1>3. SaveIsWhole' /\ OneRowPerKey'
  BY <1>1 DEF IInv, TypeOK, SaveIsWhole, OneRowPerKey, SameKey, SameUser
<1>4. NoDanglingTarget'
  BY <1>1 DEF IInv, TypeOK, NoDanglingTarget, IsOwnLook, SameUser
<1>5. QED
  BY <1>2, <1>3, <1>4 DEF IInv

LEMMA NextInv == IInv /\ [Next]_vars => IInv'
<1> SUFFICES ASSUME IInv, [Next]_vars PROVE IInv'
  OBVIOUS
<1>1. TypeOK'
  BY NextType DEF IInv
<1>2. ASSUME NEW r \in Request, Submit(r) \/ Check(r) \/ Lookup(r)
      PROVE  IInv'
  <2>1. CASE Submit(r)
    <3>1. PICK label \in {"check", "invalid", "notfound"} : Goto(r, label)
      BY <2>1 DEF Submit
    <3>2. QED
      BY <1>1, <2>1, <3>1, MoveInv DEF Submit, Answered
  <2>2. CASE Check(r)
    <3>1. PICK label \in {"lookup", "notfound"} :
             /\ Goto(r, label)
             /\ label = "lookup" /\ ~ IsSave(r) =>
                   input[r].target = None \/ IsOwnLook(r, input[r].target)
      BY <2>2 DEF Check
    <3>2. QED
      BY <1>1, <2>2, <3>1, MoveInv DEF Check, IsOwnLook, Answered
  <2>3. CASE Lookup(r)
    <3>1. PICK label \in {"insert", "replayed", "conflict"} : Goto(r, label)
      BY <2>3 DEF Lookup
    <3>2. QED
      BY <1>1, <2>3, <3>1, MoveInv DEF Lookup, Answered
  <2>4. QED
    BY <1>2, <2>1, <2>2, <2>3
<1>3. ASSUME NEW r \in Request, Step(r) \/ Fails(r) \/ Abort(r)
      PROVE  IInv'
  BY <1>1, <1>2, <1>3, InsertLookInv, WriteInv, CommitInv, RollbackInv, ReactInv DEF Step
<1>4. ASSUME NEW i \in Item, DeleteItem(i)
      PROVE  IInv'
  BY <1>1, <1>4, RowsInv DEF DeleteItem, IInv, Phase, CheckedOwner, IsSave, SameUser, rows
<1>5. ASSUME UNCHANGED vars
      PROVE  IInv'
  BY <1>1, <1>5, RowsInv DEF vars, IInv, Phase, CheckedOwner, IsSave, SameUser, rows
<1>6. QED
  BY <1>1, <1>2, <1>3, <1>4, <1>5, DeleteLookInv, EraseInv DEF Next

(* The inductive invariant holds in every behaviour. *)
THEOREM Invariance == Spec => []IInv
  BY InitInv, NextInv, PTL DEF Spec

(* TRX-3: a stored save has its signal and its styled day, and a signal      *)
(* stands for a save that was stored.                                        *)
THEOREM SavedWholly == Spec => []SaveIsWhole
<1>1. IInv => SaveIsWhole
  BY DEF IInv
<1>2. QED
  BY <1>1, Invariance, PTL

(* One live row per key and table, however lookups and inserts interleave.   *)
THEOREM OneKeyOneRow == Spec => []OneRowPerKey
<1>1. IInv => OneRowPerKey
  BY DEF IInv
<1>2. QED
  BY <1>1, Invariance, PTL

(* Every stored target is a stored look of the reaction's own account.       *)
THEOREM TargetsStand == Spec => []NoDanglingTarget
<1>1. IInv => NoDanglingTarget
  BY DEF IInv
<1>2. QED
  BY <1>1, Invariance, PTL

(* Only the erasure of the account removes a reaction.                       *)
THEOREM ReactionsStay == Spec => ReactionsSurvive
<1>1. [Next]_vars =>
        [\A r \in reacted : input[r].user \in users' => r \in reacted']_vars
  BY DEF Next, Step, vars, rows, Submit, Check, Lookup, InsertLook, InsertSignal, MarkStyled,
         CommitSave, Fails, React, Abort, DeleteLook, DeleteItem, EraseAccount
<1>2. QED
  BY <1>1, PTL DEF Spec, ReactionsSurvive

-----------------------------------------------------------------------------
(* The refinement of the promise. *)

SlotOf(q) == <<input[q].user, input[q].key>>

(* What is held under a slot: the one save that is kept, or nothing.         *)
HeldSpec ==
    /\ \A q \in Request : look[q] = "kept" => Held[SlotOf(q)] = Saved(q)
    /\ \A s \in User \X Key :
          (\A q \in Request : look[q] = "kept" => SlotOf(q) # s) => Held[s] = None

LEMMA SlotType ==
    ASSUME TypeOK, NEW q \in Request
    PROVE  SlotOf(q) \in User \X Key /\ Saved(q) \in SaveContent
  BY DEF TypeOK, Input, Save, Reaction, IsSave, SlotOf, Saved, SaveContent

(* Two saves that are kept under one slot are one.                           *)
LEMMA OneKept ==
    ASSUME IInv, NEW q \in Request, NEW r \in Request, look[q] = "kept",
           look[r] = "kept" \/ tx[r] # {}, SlotOf(q) = SlotOf(r)
    PROVE  q = r
<1>1. IsSave(q) /\ IsSave(r)
  BY DEF IInv, Phase, Writes
<1>2. SameKey(q, r)
  BY <1>1 DEF SameKey, SameUser, SlotOf, IsSave
<1>3. QED
  BY <1>2 DEF IInv, OneRowPerKey

LEMMA HeldIs == IInv => HeldSpec
<1> SUFFICES ASSUME IInv PROVE HeldSpec
  OBVIOUS
<1>1. ASSUME NEW q \in Request, look[q] = "kept"
      PROVE  Held[SlotOf(q)] = Saved(q)
  <2>1. SlotOf(q) \in User \X Key
    BY SlotType DEF IInv
  <2>2. \A r \in Request : look[r] = "kept" /\ Asked[r].slot = SlotOf(q) => r = q
    BY <1>1, OneKept DEF Asked, SlotOf
  <2>3. look[q] = "kept" /\ Asked[q].slot = SlotOf(q)
    BY <1>1 DEF Asked, SlotOf
  <2>4. (CHOOSE r \in Request : look[r] = "kept" /\ Asked[r].slot = SlotOf(q)) = q
    BY <2>2, <2>3
  <2>5. QED
    BY <2>1, <2>3, <2>4 DEF Held
<1>2. ASSUME NEW s \in User \X Key, \A q \in Request : look[q] = "kept" => SlotOf(q) # s
      PROVE  Held[s] = None
  <2>1. ~ \E r \in Request : look[r] = "kept" /\ Asked[r].slot = s
    BY <1>2 DEF Asked, SlotOf
  <2>2. QED
    BY <2>1 DEF Held
<1>3. QED
  BY <1>1, <1>2 DEF HeldSpec

(* The mapped state of a step: only what is kept and what was told count.    *)
LEMMA MappedStep ==
    ASSUME IInv, [Next]_vars
    PROVE  /\ HeldSpec /\ HeldSpec'
           /\ Asked' = Asked
           /\ \A q \in Request : /\ IsSave(q)' = IsSave(q) /\ Saved(q)' = Saved(q)
                                 /\ SlotOf(q)' = SlotOf(q) /\ SlotOf(q) \in User \X Key
<1>1. IInv'
  BY NextInv
<1>2. HeldSpec'
  BY <1>1, HeldIs, PTL
<1>3. input' = input
  BY DEF Next, Step, vars, Submit, Check, Lookup, InsertLook, InsertSignal, MarkStyled,
         CommitSave, Fails, React, Abort, DeleteLook, DeleteItem, EraseAccount
<1>4. Asked' = Asked
  BY <1>3 DEF Asked, Saved, IsSave
<1>5. \A q \in Request : /\ IsSave(q)' = IsSave(q) /\ Saved(q)' = Saved(q)
                         /\ SlotOf(q)' = SlotOf(q) /\ SlotOf(q) \in User \X Key
  BY <1>3, SlotType DEF SlotOf, Saved, IsSave, IInv
<1>6. QED
  BY <1>2, <1>4, <1>5, HeldIs

(* What is held under a slot no kept look of which changes.                  *)
LEMMA SameSlot ==
    ASSUME IInv, [Next]_vars, NEW s \in User \X Key,
           \A q \in Request : SlotOf(q) = s => (look'[q] = "kept" <=> look[q] = "kept")
    PROVE  Held'[s] = Held[s]
<1>1. CASE \E q \in Request : look[q] = "kept" /\ SlotOf(q) = s
  <2>1. PICK q \in Request : look[q] = "kept" /\ SlotOf(q) = s
    BY <1>1
  <2>2. look'[q] = "kept" /\ SlotOf(q)' = s /\ Saved(q)' = Saved(q)
    BY <2>1, MappedStep
  <2>3. Held[s] = Saved(q) /\ Held'[s] = Saved(q)
    BY <2>1, <2>2, MappedStep DEF HeldSpec
  <2>4. QED
    BY <2>3
<1>2. CASE ~ \E q \in Request : look[q] = "kept" /\ SlotOf(q) = s
  BY <1>2, MappedStep DEF HeldSpec
<1>3. QED
  BY <1>1, <1>2

LEMMA SameHeld ==
    ASSUME IInv, [Next]_vars, \A q \in Request : look'[q] = "kept" <=> look[q] = "kept"
    PROVE  Held' = Held
<1>1. \A s \in User \X Key : Held'[s] = Held[s]
  BY SameSlot
<1>2. QED
  BY <1>1 DEF Held

LEMMA SameOutcome ==
    ASSUME IInv, [Next]_vars, NEW q \in Request, answer'[q] = answer[q],
           \/ pc'[q] = pc[q]
           \/ ~ IsSave(q)
           \/ /\ pc[q] \in {"idle"} \cup Working
              /\ pc'[q] \in {"idle"} \cup Working
    PROVE  Outcome(q)' = Outcome(q)
<1>1. input' = input
  BY DEF Next, Step, vars, Submit, Check, Lookup, InsertLook, InsertSignal, MarkStyled,
         CommitSave, Fails, React, Abort, DeleteLook, DeleteItem, EraseAccount
<1>2. QED
  BY <1>1 DEF Outcome, IsSave, Saved, Working

(* One request moves and the rows stay: the mapped step only tells it        *)
(* something, or nothing.                                                    *)
LEMMA OnlyTells ==
    ASSUME IInv, [Next]_vars, NEW r \in Request,
           \A q \in Request : look'[q] = "kept" <=> look[q] = "kept",
           \A q \in Request \ {r} : pc'[q] = pc[q] /\ answer'[q] = answer[q]
    PROVE  /\ Asked' = Asked /\ Held' = Held
           /\ Told' = [Told EXCEPT ![r] = Outcome(r)']
<1>1. \A q \in Request \ {r} : Outcome(q)' = Outcome(q)
  BY SameOutcome
<1>2. QED
  BY <1>1, SameHeld, MappedStep DEF Told

(* A save that is kept fits a submission when the comparison says so.        *)
LEMMA SavedFits ==
    ASSUME IInv, NEW r \in Request, NEW q \in Request, IsSave(r), IsSave(q)
    PROVE  /\ Saved(q) # None
           /\ Promise!Fitting(r, Saved(q)) <=> SamePayload(r, q)
<1>1. Saved(q) \in SaveContent /\ Saved(r) \in SaveContent
  BY SlotType DEF IInv
<1>2. Asked[r].payload = Saved(r)
  BY DEF Asked
<1>3. Saved(r) = Saved(q) <=> SamePayload(r, q)
  <2>1. /\ Saved(r) = [body |-> input[r].body, items |-> input[r].items]
        /\ Saved(q) = [body |-> input[q].body, items |-> input[q].items]
    BY DEF Saved
  <2>2. QED
    BY <2>1 DEF SamePayload
<1>4. Promise!Fitting(r, Saved(q)) <=> Saved(r) = Saved(q)
  BY <1>1, <1>2 DEF Promise!Fitting
<1>5. QED
  BY <1>1, <1>3, <1>4, NoneIsNoContent

LEMMA PromiseInit == Init => Promise!Init
<1> SUFFICES ASSUME Init PROVE Promise!Init
  OBVIOUS
<1>1. TypeOK
  BY InitType
<1>2. Asked \in [Request -> [slot: User \X Key, payload: SaveContent]]
  BY <1>1, SlotType DEF Asked, SlotOf
<1>3. Held = [s \in User \X Key |-> None]
  BY DEF Init, Held
<1>4. Told = [r \in Request |-> [tag |-> "waiting"]]
  BY DEF Init, Told, Outcome
<1>5. QED
  BY <1>2, <1>3, <1>4 DEF Promise!Init

(* The commit of a save is the creation. *)
LEMMA CommitCreates ==
    ASSUME IInv, [Next]_vars, NEW r \in Request, CommitSave(r)
    PROVE  Promise!Next
<1>1. /\ pc[r] = "commit" /\ pc'[r] = "created" /\ answer'[r] = r /\ look'[r] = "kept"
      /\ \A q \in Request \ {r} : pc'[q] = pc[q] /\ answer'[q] = answer[q] /\ look'[q] = look[q]
  BY DEF CommitSave, Goto, Give, IInv, TypeOK
<1>2. IsSave(r) /\ tx[r] # {} /\ look[r] = "absent"
  BY <1>1 DEF IInv, Phase, Writes
<1>3. SlotOf(r) \in User \X Key /\ Saved(r) \in SaveContent /\ Asked[r].slot = SlotOf(r)
  BY SlotType DEF IInv, Asked, SlotOf
<1>4. \A q \in Request : look[q] = "kept" => SlotOf(q) # SlotOf(r)
  BY <1>2, OneKept
<1>5. Held[SlotOf(r)] = None
  BY <1>3, <1>4, MappedStep DEF HeldSpec
<1>6. Held'[SlotOf(r)] = Saved(r)
  BY <1>1, MappedStep DEF HeldSpec
<1>7. \A s \in User \X Key : s # SlotOf(r) => Held'[s] = Held[s]
  BY <1>1, SameSlot
<1>8. Held' = [Held EXCEPT ![SlotOf(r)] = Saved(r)]
  <2>1. /\ Held = [s \in User \X Key |-> Held[s]]
        /\ Held' = [s \in User \X Key |-> Held'[s]]
    BY DEF Held
  <2>2. QED
    BY <1>3, <1>6, <1>7, <2>1
<1>9. \A q \in Request \ {r} : Outcome(q)' = Outcome(q)
  BY <1>1, SameOutcome
<1>10. /\ Outcome(r) = [tag |-> "waiting"]
       /\ Outcome(r)' = [tag |-> "created", content |-> Saved(r)]
  <2>1. IsSave(r)' /\ Saved(r)' = Saved(r)
    BY <1>2, MappedStep
  <2>2. Outcome(r) = [tag |-> "waiting"]
    BY <1>1, <1>2 DEF Outcome
  <2>3. Outcome(r)' = [tag |-> "created", content |-> Saved(answer[r])']
    BY <1>1, <2>1 DEF Outcome
  <2>4. Saved(answer[r])' = Saved(r)
    BY <1>1, <2>1 DEF Saved
  <2>5. QED
    BY <2>2, <2>3, <2>4
<1>11. /\ Told' = [Told EXCEPT ![r] = [tag |-> "created", content |-> Saved(r)]]
       /\ Told[r].tag = "waiting"
  <2>1. Told' = [Told EXCEPT ![r] = Outcome(r)']
    BY <1>9 DEF Told
  <2>2. Told[r] = [tag |-> "waiting"]
    BY <1>10 DEF Told
  <2>3. QED
    BY <1>10, <2>1, <2>2
<1>12. Promise!Fitting(r, Saved(r))
  BY <1>2, SavedFits DEF SamePayload
<1>13. Promise!Create(r)
  BY <1>3, <1>5, <1>8, <1>11, <1>12, MappedStep
  DEF Promise!Create, Promise!Waiting, Promise!Tell
<1>14. QED
  BY <1>13 DEF Promise!Next

(* The lookup of a save replays the row of its key, or says it differs.      *)
LEMMA LookupTells ==
    ASSUME IInv, [Next]_vars, NEW r \in Request, Lookup(r), IsSave(r)
    PROVE  Promise!Next \/ UNCHANGED <<Asked, Held, Told>>
<1>1. /\ look' = look /\ pc[r] = "lookup"
      /\ \A q \in Request \ {r} : pc'[q] = pc[q] /\ answer'[q] = answer[q]
  BY DEF Lookup, Goto, Give, rows, IInv, TypeOK
<1>2. Told[r] = [tag |-> "waiting"] /\ IsSave(r)'
  BY <1>1, MappedStep DEF Told, Outcome
<1>3. CASE Goto(r, "insert") /\ UNCHANGED answer
  <2>1. Outcome(r)' = Outcome(r)
    BY <1>1, <1>3, SameOutcome DEF Goto, Working, IInv, TypeOK
  <2>2. QED
    BY <1>1, <2>1, OnlyTells DEF Told
<1>4. ASSUME NEW q \in Holders(r),
             \/ SamePayload(r, q) /\ Goto(r, "replayed") /\ Give(r, q)
             \/ ~ SamePayload(r, q) /\ Goto(r, "conflict") /\ UNCHANGED answer
      PROVE  Promise!Next
  <2>1. q \in Request /\ SameKey(r, q) /\ IsSave(q) /\ look[q] = "kept"
    BY DEF Holders, SameKey, IsSave, IInv, Phase
  <2>2. SlotOf(q) = SlotOf(r) /\ Asked[r].slot = SlotOf(r)
    BY <2>1 DEF SameKey, SameUser, SlotOf, Asked
  <2>3. Held[Asked[r].slot] = Saved(q)
    BY <2>1, <2>2, MappedStep DEF HeldSpec
  <2>4. Saved(q) # None /\ (Promise!Fitting(r, Saved(q)) <=> SamePayload(r, q))
    BY <2>1, SavedFits
  <2>5. CASE SamePayload(r, q) /\ Goto(r, "replayed") /\ Give(r, q)
    <3>1. pc'[r] = "replayed" /\ answer'[r] = q
      BY <2>5 DEF Goto, Give, IInv, TypeOK
    <3>2. Saved(answer[r])' = Saved(q)
      BY <2>1, <3>1, MappedStep DEF Saved
    <3>3. Outcome(r)' = [tag |-> "replayed", content |-> Saved(q)]
      BY <1>2, <3>1, <3>2 DEF Outcome
    <3>4. /\ UNCHANGED <<Asked, Held>>
          /\ Told' = [Told EXCEPT ![r] = [tag |-> "replayed", content |-> Saved(q)]]
      BY <1>1, <3>3, OnlyTells
    <3>5. Promise!Replay(r)
      BY <1>2, <2>3, <2>4, <2>5, <3>4 DEF Promise!Replay, Promise!Waiting, Promise!Tell
    <3>6. QED
      BY <3>5 DEF Promise!Next
  <2>6. CASE ~ SamePayload(r, q) /\ Goto(r, "conflict") /\ UNCHANGED answer
    <3>1. pc'[r] = "conflict"
      BY <2>6 DEF Goto, IInv, TypeOK
    <3>2. Outcome(r)' = [tag |-> "conflict"]
      BY <1>2, <3>1 DEF Outcome
    <3>3. /\ UNCHANGED <<Asked, Held>>
          /\ Told' = [Told EXCEPT ![r] = [tag |-> "conflict"]]
      BY <1>1, <3>2, OnlyTells
    <3>4. Promise!Conflict(r)
      BY <1>2, <2>3, <2>4, <2>6, <3>3 DEF Promise!Conflict, Promise!Waiting, Promise!Tell
    <3>5. QED
      BY <3>4 DEF Promise!Next
  <2>7. QED
    BY <1>4, <2>5, <2>6
<1>5. QED
  BY <1>3, <1>4 DEF Lookup

(* Rows that go away free the slots of a set.                                *)
LEMMA Frees ==
    ASSUME IInv, [Next]_vars, UNCHANGED <<pc, answer>>, NEW S \in SUBSET (User \X Key),
           \A q \in Request :
              look'[q] = "kept" <=> look[q] = "kept" /\ SlotOf(q) \notin S
    PROVE  Promise!Next
<1>1. Told' = Told
  BY SameOutcome DEF Told
<1>2. ASSUME NEW s \in User \X Key
      PROVE  Held'[s] = IF s \in S THEN None ELSE Held[s]
  <2>1. CASE s \in S
    <3>1. \A q \in Request : look'[q] = "kept" => SlotOf(q)' # s
      BY <2>1, MappedStep
    <3>2. QED
      BY <2>1, <3>1, MappedStep DEF HeldSpec
  <2>2. CASE s \notin S
    BY <2>2, SameSlot
  <2>3. QED
    BY <2>1, <2>2
<1>3. Held' = [s \in User \X Key |-> IF s \in S THEN None ELSE Held[s]]
  BY <1>2 DEF Held
<1>4. Promise!Release(S)
  BY <1>1, <1>3, MappedStep DEF Promise!Release
<1>5. QED
  BY <1>4 DEF Promise!Next

(* Every step is a step of the promise, or invisible in it.                  *)
LEMMA PromiseStep ==
    IInv /\ [Next]_vars => [Promise!Next]_<<Asked, Held, Told>>
<1> SUFFICES ASSUME IInv, [Next]_vars
             PROVE  Promise!Next \/ UNCHANGED <<Asked, Held, Told>>
  OBVIOUS
<1>1. ASSUME NEW r \in Request, answer' = answer,
             \A q \in Request : look'[q] = "kept" <=> look[q] = "kept",
             \A q \in Request \ {r} : pc'[q] = pc[q],
             \/ ~ IsSave(r)
             \/ pc[r] \in {"idle"} \cup Working /\ pc'[r] \in {"idle"} \cup Working
      PROVE  UNCHANGED <<Asked, Held, Told>>
  BY <1>1, OnlyTells, SameOutcome DEF Told
<1>2. ASSUME NEW r \in Request, answer' = answer, IsSave(r),
             \A q \in Request : look'[q] = "kept" <=> look[q] = "kept",
             \A q \in Request \ {r} : pc'[q] = pc[q],
             pc[r] \in {"idle"} \cup Working,
             pc'[r] \in {"invalid", "notfound", "error", "dead"}
      PROVE  Promise!Next
  <2>1. Told[r].tag = "waiting"
    BY <1>2 DEF Told, Outcome, Working
  <2>2. Outcome(r)' = [tag |-> "refused"]
    <3>1. IsSave(r)'
      BY <1>2, MappedStep
    <3>2. QED
      BY <1>2, <3>1 DEF Outcome
  <2>3. /\ UNCHANGED <<Asked, Held>>
        /\ Told' = [Told EXCEPT ![r] = [tag |-> "refused"]]
    BY <1>2, <2>2, OnlyTells
  <2>4. Promise!Refuse(r)
    BY <2>1, <2>3 DEF Promise!Refuse, Promise!Waiting, Promise!Tell
  <2>5. QED
    BY <2>4 DEF Promise!Next
<1>3. ASSUME NEW r \in Request,
             \/ Submit(r) \/ Check(r) \/ InsertLook(r) \/ InsertSignal(r) \/ MarkStyled(r)
             \/ Fails(r) \/ Abort(r)
      PROVE  Promise!Next \/ UNCHANGED <<Asked, Held, Told>>
  <2>1. /\ answer' = answer /\ look' = look
        /\ \A q \in Request \ {r} : pc'[q] = pc[q]
        /\ pc[r] \in {"idle"} \cup Working
        /\ pc'[r] \in Working \cup {"invalid", "notfound", "error", "dead"}
    BY <1>3 DEF Submit, Check, InsertLook, InsertSignal, MarkStyled, Fails, Abort, Goto, rows,
                Working, IInv, TypeOK
  <2>2. CASE ~ IsSave(r) \/ pc'[r] \in Working
    BY <1>1, <2>1, <2>2
  <2>3. CASE IsSave(r) /\ pc'[r] \in {"invalid", "notfound", "error", "dead"}
    BY <1>2, <2>1, <2>3
  <2>4. QED
    BY <2>1, <2>2, <2>3
<1>4. ASSUME NEW r \in Request, Lookup(r)
      PROVE  Promise!Next \/ UNCHANGED <<Asked, Held, Told>>
  <2>1. CASE IsSave(r)
    BY <1>4, <2>1, LookupTells
  <2>2. CASE ~ IsSave(r)
    <3>1. /\ look' = look
          /\ \A q \in Request \ {r} : pc'[q] = pc[q] /\ answer'[q] = answer[q]
      BY <1>4 DEF Lookup, Goto, Give, rows, IInv, TypeOK
    <3>2. Outcome(r)' = Outcome(r)
      BY <2>2, MappedStep DEF Outcome
    <3>3. QED
      BY <3>1, <3>2, OnlyTells DEF Told
  <2>3. QED
    BY <2>1, <2>2
<1>5. ASSUME NEW r \in Request, React(r)
      PROVE  UNCHANGED <<Asked, Held, Told>>
  <2>1. /\ look' = look /\ ~ IsSave(r)
        /\ \A q \in Request \ {r} : pc'[q] = pc[q] /\ answer'[q] = answer[q]
    BY <1>5 DEF React, Goto, Give, IInv, TypeOK
  <2>2. Outcome(r)' = Outcome(r)
    BY <2>1, MappedStep DEF Outcome
  <2>3. QED
    BY <2>1, <2>2, OnlyTells DEF Told
<1>6. ASSUME NEW q \in Request, DeleteLook(q)
      PROVE  Promise!Next
  <2>1. /\ look[q] = "kept" /\ UNCHANGED <<pc, answer>>
        /\ \A r \in Request : look'[r] = IF r = q THEN "deleted" ELSE look[r]
    BY <1>6 DEF DeleteLook, IInv, TypeOK
  <2>2. \A r \in Request :
           look'[r] = "kept" <=> look[r] = "kept" /\ SlotOf(r) \notin {SlotOf(q)}
    BY <2>1, OneKept
  <2>3. {SlotOf(q)} \in SUBSET (User \X Key)
    BY SlotType DEF IInv
  <2>4. QED
    BY <2>1, <2>2, <2>3, Frees
<1>7. ASSUME NEW u \in User, EraseAccount(u)
      PROVE  Promise!Next
  <2>1. /\ UNCHANGED <<pc, answer>>
        /\ \A q \in Request : look'[q] = IF input[q].user = u /\ look[q] = "kept"
                                         THEN "erased" ELSE look[q]
    BY <1>7 DEF EraseAccount
  <2>2. \A q \in Request :
           look'[q] = "kept" <=> look[q] = "kept" /\ SlotOf(q) \notin {u} \X Key
    BY <2>1, SlotType DEF SlotOf, IInv
  <2>3. {u} \X Key \in SUBSET (User \X Key)
    OBVIOUS
  <2>4. QED
    BY <2>1, <2>2, <2>3, Frees
<1>8. ASSUME UNCHANGED vars \/ \E i \in Item : DeleteItem(i)
      PROVE  UNCHANGED <<Asked, Held, Told>>
  <2>1. UNCHANGED <<pc, look, answer>>
    BY <1>8 DEF vars, DeleteItem, rows
  <2>2. Told' = Told /\ Held' = Held
    BY <2>1, SameOutcome, SameHeld DEF Told
  <2>3. QED
    BY <2>2, MappedStep
<1>9. ASSUME NEW r \in Request, CommitSave(r)
      PROVE  Promise!Next
  BY <1>9, CommitCreates
<1>10. QED
  BY <1>3, <1>4, <1>5, <1>6, <1>7, <1>8, <1>9 DEF Next, Step

(* The saves implement the promise of the Idempotency-Key.                   *)
THEOREM ImplementsPromise == Spec => KeepsPromise
  BY Invariance, PromiseInit, PromiseStep, PTL DEF Spec, KeepsPromise, Promise!Spec
=============================================================================
