--------------------------- MODULE Serving_proofs ---------------------------
(* Proofs about Serving: the gate of reasoning, the adapters of providers,   *)
(* the reads that go page by page and the wardrobe, for any number of        *)
(* requests, addresses and items, and for every limit, pace and page size.   *)
(* The last part is of accounts.                                             *)
EXTENDS Serving, FiniteSetTheorems, WellFoundedInduction, SequenceTheorems, TLAPS

(* A behaviour of the whole is one of each of its parts, which rests while    *)
(* another family is in play.                                                 *)
LEMMA ServesGate == ServingSpec => Gate!Spec
  <1>1. ServingInit => Gate!Init
    BY DEF ServingInit, Starting
  <1>2. [ServingNext]_all => [Gate!Next]_(Gate!vars)
    BY DEF ServingNext, all, gate, Gate!vars
  <1> QED
    BY <1>1, <1>2, PTL DEF ServingSpec, Gate!Spec

LEMMA ServesGdelt == ServingSpec => Gdelt!Spec
  <1>1. ServingInit => Gdelt!Init
    BY DEF ServingInit, Starting
  <1>2. [ServingNext]_all => [Gdelt!Next]_(Gdelt!vars)
    BY DEF ServingNext, all, gdelt, Gdelt!vars
  <1> QED
    BY <1>1, <1>2, PTL DEF ServingSpec, Gdelt!Spec

LEMMA ServesSource == ServingSpec => Feed!Spec
  <1>1. ServingInit => Feed!Init
    BY DEF ServingInit, Starting
  <1>2. [ServingNext]_all => [Feed!Next]_(Feed!vars)
    BY DEF ServingNext, all, source, Feed!vars
  <1> QED
    BY <1>1, <1>2, PTL DEF ServingSpec, Feed!Spec

LEMMA ServesPages == ServingSpec => Pages!Init /\ [][Pages!Next]_(Pages!vars)
  <1>1. ServingInit => Pages!Init
    BY DEF ServingInit, Starting
  <1>2. [ServingNext]_all => [Pages!Next]_(Pages!vars)
    BY DEF ServingNext, all, paging, Pages!vars, Pages!feed, Pages!read, Pages!Next
  <1> QED
    BY <1>1, <1>2, PTL DEF ServingSpec

LEMMA ServesWardrobe == ServingSpec => Closet!Init /\ [][Closet!Next]_(Closet!vars)
  <1>1. ServingInit => Closet!Init
    BY DEF ServingInit, Starting
  <1>2. [ServingNext]_all => [Closet!Next]_(Closet!vars)
    BY DEF ServingNext, all, wardrobe, Closet!vars
  <1> QED
    BY <1>1, <1>2, PTL DEF ServingSpec

-----------------------------------------------------------------------------
(* A set of numbers that is not empty has a least one.                        *)
LEMMA LeastNumber ==
    ASSUME NEW S \in SUBSET Nat, S # {}
    PROVE  \E x \in S : \A y \in S : x <= y
  <1> DEFINE R == {ss \in Nat \X Nat : ss[1] < ss[2]}
  <1>1. IsWellFoundedOn(R, Nat)
    BY NatLessThanWellFounded DEF OpToRel
  <1>2. PICK x \in S : \A y \in S : <<y, x>> \notin R
    <2> HIDE DEF R
    <2> QED
      BY <1>1, WFMin
  <1>3. ASSUME NEW y \in S PROVE x <= y
    <2>1. x \in Nat /\ y \in Nat /\ <<y, x>> \in Nat \X Nat
      OBVIOUS
    <2>2. ~ (y < x)
      BY <1>2, <2>1
    <2> QED
      BY <2>1, <2>2
  <1> QED
    BY <1>3

(* The requests that _active counts. *)
Counted == {c \in Caller : step[c] \in {"reading", "showing", "reasoning", "uncounting"}}

GateInv ==
    /\ step \in [Caller -> Gate!Steps]
    /\ free \in Nat /\ active \in Nat
    /\ free + Cardinality(Gate!Inside) = Permits
    /\ active = Cardinality(Counted)

(* What a step of one request does to a set of requests that depends on where *)
(* each of them is.                                                           *)
LEMMA Moves ==
    ASSUME IsFiniteSet(Caller), NEW S \in SUBSET Caller, NEW c \in Caller
    PROVE  /\ IsFiniteSet(S) /\ Cardinality(S) \in Nat
           /\ c \notin S => Cardinality(S \cup {c}) = Cardinality(S) + 1
           /\ c \in S => Cardinality(S \ {c}) = Cardinality(S) - 1 /\ Cardinality(S) > 0
  <1>1. IsFiniteSet(S) /\ Cardinality(S) \in Nat
    BY FS_Subset, FS_CardinalityType
  <1>2. c \notin S => Cardinality(S \cup {c}) = Cardinality(S) + 1
    BY <1>1, FS_AddElement
  <1>3. c \in S => Cardinality(S \ {c}) = Cardinality(S) - 1
    BY <1>1, FS_RemoveElement
  <1>4. c \in S => Cardinality(S) > 0
    <2>1. IsFiniteSet(S \ {c}) /\ Cardinality(S \ {c}) \in Nat
      BY <1>1, FS_Subset, FS_CardinalityType
    <2> QED
      BY <1>1, <1>3, <2>1
  <1> QED
    BY <1>1, <1>2, <1>3, <1>4

LEMMA GateInit ==
    ASSUME Permits \in Nat, Gate!Init
    PROVE  GateInv
  <1>1. Gate!Inside = {} /\ Counted = {}
    BY DEF Gate!Init, Gate!Inside, Counted
  <1> QED
    BY <1>1, FS_EmptySet DEF Gate!Init, GateInv, Gate!Steps

(* A step that leaves both sets as they are. *)
LEMMA NoMove ==
    ASSUME GateInv, step' \in [Caller -> Gate!Steps], free' = free, active' = active,
           Gate!Inside' = Gate!Inside, Counted' = Counted
    PROVE  GateInv'
  BY DEF GateInv

LEMMA GateStep ==
    ASSUME IsFiniteSet(Caller), GateInv, [Gate!Next]_(Gate!vars)
    PROVE  GateInv'
  <1>1. Gate!Inside \in SUBSET Caller /\ Counted \in SUBSET Caller
    BY DEF Gate!Inside, Counted
  <1>2. CASE Gate!Tick
    BY <1>2, NoMove DEF Gate!Tick, GateInv, Gate!Inside, Counted
  <1>3. ASSUME NEW c \in Caller, Gate!Arrive(c) \/ Gate!Limited(c) PROVE GateInv'
    <2>1. /\ step[c] \in {"arriving", "limiting"} /\ free' = free /\ active' = active
          /\ \E label \in {"limiting", "acquiring", "done"} : step' = [step EXCEPT ![c] = label]
      BY <1>3 DEF Gate!Arrive, Gate!Limited, Gate!Goto
    <2> QED
      BY <2>1, NoMove DEF GateInv, Gate!Inside, Counted, Gate!Steps
  <1>4. ASSUME NEW c \in Caller, Gate!Acquire(c) PROVE GateInv'
    <2>1. CASE free > 0 /\ free' = free - 1 /\ Gate!Goto(c, "counting")
      <3>1. /\ step' = [step EXCEPT ![c] = "counting"] /\ step[c] = "acquiring"
            /\ active' = active
        BY <1>4, <2>1 DEF Gate!Acquire, Gate!Goto, Gate!OnlyGate
      <3>2. Gate!Inside' = Gate!Inside \cup {c} /\ c \notin Gate!Inside /\ Counted' = Counted
        BY <3>1 DEF GateInv, Gate!Inside, Counted
      <3>3. Cardinality(Gate!Inside') = Cardinality(Gate!Inside) + 1 /\ Cardinality(Gate!Inside) \in Nat
        BY <1>1, <3>2, Moves
      <3> QED
        BY <2>1, <3>1, <3>2, <3>3 DEF GateInv, Gate!Steps
    <2>2. CASE free = 0 /\ Gate!Goto(c, "done") /\ UNCHANGED free
      <3>1. /\ step' = [step EXCEPT ![c] = "done"] /\ step[c] = "acquiring"
            /\ active' = active /\ free' = free
        BY <1>4, <2>2 DEF Gate!Acquire, Gate!Goto, Gate!OnlyGate
      <3> QED
        BY <3>1, NoMove DEF GateInv, Gate!Inside, Counted, Gate!Steps
    <2> QED
      BY <1>4, <2>1, <2>2 DEF Gate!Acquire
  <1>5. ASSUME NEW c \in Caller, Gate!Count(c) PROVE GateInv'
    <2>1. /\ step' = [step EXCEPT ![c] = "reading"] /\ step[c] = "counting"
          /\ active' = active + 1 /\ free' = free
      BY <1>5 DEF Gate!Count, Gate!Goto
    <2>2. Counted' = Counted \cup {c} /\ c \notin Counted /\ Gate!Inside' = Gate!Inside
      BY <2>1 DEF GateInv, Gate!Inside, Counted
    <2>3. Cardinality(Counted') = Cardinality(Counted) + 1
      BY <1>1, <2>2, Moves
    <2> QED
      BY <2>1, <2>2, <2>3 DEF GateInv, Gate!Steps
  <1>6. ASSUME NEW c \in Caller, Gate!ReadCount(c) \/ Gate!ShowCount(c) PROVE GateInv'
    <2>1. /\ free' = free /\ active' = active
          /\ \E pair \in {<<"reading", "showing">>, <<"rereading", "reshowing">>,
                          <<"showing", "reasoning">>, <<"reshowing", "done">>} :
                step[c] = pair[1] /\ step' = [step EXCEPT ![c] = pair[2]]
      BY <1>6 DEF Gate!ReadCount, Gate!ShowCount, Gate!Goto
    <2> QED
      BY <2>1, NoMove DEF GateInv, Gate!Inside, Counted, Gate!Steps
  <1>7. ASSUME NEW c \in Caller, Gate!Reason(c) PROVE GateInv'
    <2>1. /\ free' = free /\ active' = active /\ step[c] = "reasoning"
          /\ step' = step \/ step' = [step EXCEPT ![c] = "uncounting"]
      BY <1>7 DEF Gate!Reason, Gate!Reply, Gate!Goto, Gate!Leave
    <2> QED
      BY <2>1, NoMove DEF GateInv, Gate!Inside, Counted, Gate!Steps
  <1>8. ASSUME NEW c \in Caller, Gate!Uncount(c) PROVE GateInv'
    <2>1. /\ step' = [step EXCEPT ![c] = "releasing"] /\ step[c] = "uncounting"
          /\ active' = (IF active > 0 THEN active - 1 ELSE 0) /\ free' = free
      BY <1>8 DEF Gate!Uncount, Gate!Goto
    <2>2. Counted' = Counted \ {c} /\ c \in Counted /\ Gate!Inside' = Gate!Inside
      BY <2>1 DEF GateInv, Gate!Inside, Counted
    <2>3. Cardinality(Counted') = Cardinality(Counted) - 1 /\ Cardinality(Counted) > 0
      BY <1>1, <2>2, Moves
    <2> QED
      BY <2>1, <2>2, <2>3 DEF GateInv, Gate!Steps
  <1>9. ASSUME NEW c \in Caller, Gate!Release(c) PROVE GateInv'
    <2>1. /\ step' = [step EXCEPT ![c] = "rereading"] /\ step[c] = "releasing"
          /\ active' = active /\ free' = free + 1
      BY <1>9 DEF Gate!Release, Gate!Goto
    <2>2. Gate!Inside' = Gate!Inside \ {c} /\ c \in Gate!Inside /\ Counted' = Counted
      BY <2>1 DEF GateInv, Gate!Inside, Counted
    <2>3. Cardinality(Gate!Inside') = Cardinality(Gate!Inside) - 1 /\ Cardinality(Gate!Inside) \in Nat
      BY <1>1, <2>2, Moves
    <2> QED
      BY <2>1, <2>2, <2>3 DEF GateInv, Gate!Steps
  <1>10. CASE UNCHANGED Gate!vars
    BY <1>10, NoMove DEF Gate!vars, GateInv, Gate!Inside, Counted
  <1> QED
    BY <1>2, <1>3, <1>4, <1>5, <1>6, <1>7, <1>8, <1>9, <1>10 DEF Gate!Next

LEMMA GateCardinality == \A S : Gate!Cardinality(S) = Cardinality(S)
  BY DEF Gate!Cardinality, Cardinality

(* Permits are neither lost nor made, whatever the order of acquisitions,     *)
(* failures and releases, and the reported count never exceeds the requests   *)
(* that hold one (LoadLimiter, finally of the handler).                       *)
THEOREM ConservedPermits ==
    ASSUME IsFiniteSet(Caller), Permits \in Nat
    PROVE  ServingSpec => []PermitsAreConserved
  <1>1. Gate!Init => GateInv
    BY GateInit
  <1>2. GateInv /\ [Gate!Next]_(Gate!vars) => GateInv'
    BY GateStep
  <1>3. GateInv => PermitsAreConserved
    <2> SUFFICES ASSUME GateInv PROVE PermitsAreConserved
      OBVIOUS
    <2>1. Counted \subseteq Gate!Inside /\ Gate!Inside \subseteq Caller
      BY DEF Counted, Gate!Inside
    <2>2. Cardinality(Counted) <= Cardinality(Gate!Inside)
      BY <2>1, FS_Subset
    <2>3. Gate!Inside = {} => Counted = {} /\ Cardinality(Counted) = 0
      BY <2>1, FS_EmptySet
    <2> QED
      BY <2>2, <2>3, GateCardinality DEF PermitsAreConserved, Gate!PermitsAreConserved, GateInv
  <1>4. ServingSpec => Gate!Spec
    BY ServesGate
  <1> QED
    BY <1>1, <1>2, <1>3, <1>4, PTL DEF Gate!Spec

-----------------------------------------------------------------------------
(* ReasoningGate: the sliding window of an address.                           *)

Hits(hits, from) == {k \in DOMAIN hits : hits[k] >= from}

Passes(address, from) == {n \in DOMAIN passed : passed[n][1] = address /\ passed[n][2] >= from}

PassesWithin(address, from) ==
    {n \in DOMAIN passed : passed[n][1] = address /\ passed[n][2] >= from /\ passed[n][3] < from + GateWindow}

Bucket == [address : Address, hits : Seq(Int)]

(* What came from an address within the last window and passed is in its      *)
(* bucket: whoever takes hits out of it has read the clock before now.        *)
Remembered(address) ==
    \A from \in Int : from + GateWindow > clock /\ Passes(address, from) # {} =>
        \E i \in DOMAIN buckets :
            /\ buckets[i].address = address
            /\ Cardinality(Passes(address, from)) <= Cardinality(Hits(buckets[i].hits, from))

Distinct(table) == \A i, j \in DOMAIN table : table[i].address = table[j].address => i = j

WindowInv ==
    /\ clock \in Nat /\ current \in [Caller -> Int] /\ \A c \in Caller : current[c] <= clock
    /\ buckets \in Seq(Bucket) /\ Len(buckets) <= MaxBuckets /\ Distinct(buckets)
    /\ passed \in Seq(Address \X Int \X Int)
    /\ \A address \in Address \ evicted :
          Remembered(address) /\ \A from \in Int : Cardinality(PassesWithin(address, from)) <= GateLimit

(* An entry at the end of a sequence of times.                                *)
LEMMA HitsType ==
    ASSUME NEW hits \in Seq(Int), NEW from \in Int
    PROVE  /\ IsFiniteSet(Hits(hits, from)) /\ Cardinality(Hits(hits, from)) \in Nat
           /\ Cardinality(Hits(hits, from)) <= Len(hits) /\ Hits(hits, from) \subseteq 1 .. Len(hits)
  <1>1. Len(hits) \in Nat /\ DOMAIN hits = 1 .. Len(hits)
    OBVIOUS
  <1>2. IsFiniteSet(1 .. Len(hits)) /\ Cardinality(1 .. Len(hits)) = Len(hits)
    BY <1>1, FS_Interval, SMTT(30)
  <1> QED
    BY <1>1, <1>2, FS_Subset, FS_CardinalityType DEF Hits

LEMMA HitsOfAppended ==
    ASSUME NEW hits \in Seq(Int), NEW from \in Int, NEW at \in Int
    PROVE  /\ Append(hits, at) \in Seq(Int)
           /\ Cardinality(Hits(Append(hits, at), from)) =
                 Cardinality(Hits(hits, from)) + IF at >= from THEN 1 ELSE 0
  <1> DEFINE more == Append(hits, at)
  <1>1. /\ more \in Seq(Int) /\ Len(more) = Len(hits) + 1 /\ more[Len(hits) + 1] = at
        /\ \A k \in 1 .. Len(hits) : more[k] = hits[k]
        /\ DOMAIN more = 1 .. Len(hits) + 1 /\ DOMAIN hits = 1 .. Len(hits) /\ Len(hits) \in Nat
    OBVIOUS
  <1> HIDE DEF more
  <1>2. Hits(more, from) = Hits(hits, from) \cup IF at >= from THEN {Len(hits) + 1} ELSE {}
    BY <1>1 DEF Hits
  <1>3. Len(hits) + 1 \notin Hits(hits, from)
    BY <1>1 DEF Hits
  <1>4. IsFiniteSet(Hits(hits, from)) /\ Cardinality(Hits(hits, from)) \in Nat
    BY HitsType
  <1>5. CASE at >= from
    BY <1>1, <1>2, <1>3, <1>4, <1>5, FS_AddElement DEF more
  <1>6. CASE ~ (at >= from)
    <2>1. Hits(more, from) = Hits(hits, from)
      BY <1>2, <1>6
    <2> QED
      BY <1>1, <1>4, <1>6, <2>1 DEF more
  <1> QED
    BY <1>5, <1>6

(* What _prune takes away are hits that have expired.                         *)
LEMMA HitsOfRecent ==
    ASSUME GateWindow \in Int, NEW instant \in Int, NEW hits \in Seq(Int)
    PROVE  /\ Gate!Recent(hits, instant) \in Seq(Int)
           /\ \A from \in Int : from + GateWindow > instant =>
                 Cardinality(Hits(hits, from)) <= Cardinality(Hits(Gate!Recent(hits, instant), from))
  <1> DEFINE fresh == {i \in DOMAIN hits : instant < hits[i] + GateWindow}
             first == Gate!Min(fresh)
             rest == SubSeq(hits, first, Len(hits))
  <1>1. /\ DOMAIN hits = 1 .. Len(hits) /\ Len(hits) \in Nat /\ \A i \in DOMAIN hits : hits[i] \in Int
        /\ <<>> \in Seq(Int)
    OBVIOUS
  <1>2. Gate!Recent(hits, instant) = IF fresh = {} THEN <<>> ELSE rest
    BY DEF Gate!Recent
  <1>3. \A from \in Int : from + GateWindow > instant => Hits(hits, from) \subseteq fresh
    BY <1>1 DEF Hits
  <1> HIDE DEF fresh
  <1>4. CASE fresh = {}
    <2>1. \A from \in Int : from + GateWindow > instant => Cardinality(Hits(hits, from)) = 0
      BY <1>3, <1>4, FS_EmptySet
    <2>2. \A from \in Int : Cardinality(Hits(<<>>, from)) \in Nat
      BY <1>1, HitsType
    <2> QED
      BY <1>1, <1>2, <1>4, <2>1, <2>2
  <1>5. CASE fresh # {}
    <2>1. first \in fresh /\ \A i \in fresh : first <= i
      <3>1. fresh \in SUBSET Nat
        BY <1>1 DEF fresh
      <3> QED
        BY <1>5, <3>1, LeastNumber DEF Gate!Min
    <2> HIDE DEF first
    <2>2. first \in 1 .. Len(hits)
      BY <1>1, <2>1 DEF fresh
    <2>3. /\ rest \in Seq(Int) /\ Len(rest) = Len(hits) - first + 1
          /\ \A i \in 1 .. Len(hits) - first + 1 : rest[i] = hits[first + i - 1]
      <3>1. \A i \in first .. Len(hits) : hits[i] \in Int
        BY <1>1, <2>2
      <3> QED
        BY <1>1, <2>2, <3>1, SubSeqProperties
    <2> HIDE DEF rest
    <2>4. ASSUME NEW from \in Int, from + GateWindow > instant
          PROVE  Cardinality(Hits(hits, from)) <= Cardinality(Hits(rest, from))
      <3> DEFINE shift == [k \in Hits(hits, from) |-> k - first + 1]
      <3>1. \A k \in Hits(hits, from) : k \in 1 .. Len(hits) /\ k >= first /\ hits[k] >= from
        BY <1>1, <1>3, <2>1, <2>4 DEF Hits
      <3>2. DOMAIN rest = 1 .. Len(hits) - first + 1
        BY <2>3
      <3>3. \A k \in Hits(hits, from) : k - first + 1 \in Hits(rest, from)
        <4> SUFFICES ASSUME NEW k \in Hits(hits, from) PROVE k - first + 1 \in Hits(rest, from)
          OBVIOUS
        <4>1. k - first + 1 \in 1 .. Len(hits) - first + 1 /\ first + (k - first + 1) - 1 = k
          BY <1>1, <2>2, <3>1
        <4>2. rest[k - first + 1] = hits[k]
          BY <2>3, <4>1
        <4> QED
          BY <3>1, <3>2, <4>1, <4>2 DEF Hits
      <3>4. shift \in Injection(Hits(hits, from), Hits(rest, from))
        <4>1. shift \in [Hits(hits, from) -> Hits(rest, from)]
          BY <3>3
        <4>2. \A a, b \in Hits(hits, from) : shift[a] = shift[b] => a = b
          BY <2>2, <3>1
        <4> QED
          BY <4>1, <4>2 DEF Injection, IsInjective
      <3>5. IsFiniteSet(Hits(rest, from))
        BY <2>3, HitsType
      <3> QED
        BY <3>4, <3>5, FS_Injection
    <2> QED
      BY <1>2, <1>5, <2>3, <2>4
  <1> QED
    BY <1>4, <1>5

LEMMA PassesType ==
    ASSUME passed \in Seq(Address \X Int \X Int), NEW address, NEW from \in Int
    PROVE  /\ IsFiniteSet(Passes(address, from)) /\ Cardinality(Passes(address, from)) \in Nat
           /\ IsFiniteSet(PassesWithin(address, from)) /\ Cardinality(PassesWithin(address, from)) \in Nat
  <1>1. Len(passed) \in Nat /\ DOMAIN passed = 1 .. Len(passed)
    OBVIOUS
  <1>2. IsFiniteSet(1 .. Len(passed))
    BY <1>1, FS_Interval
  <1>3. Passes(address, from) \subseteq 1 .. Len(passed) /\ PassesWithin(address, from) \subseteq 1 .. Len(passed)
    BY <1>1 DEF Passes, PassesWithin
  <1> QED
    BY <1>2, <1>3, FS_Subset, FS_CardinalityType

LEMMA WindowInit ==
    ASSUME MaxBuckets \in Nat, GateLimit \in Nat, Gate!Init
    PROVE  WindowInv
  <1>1. buckets = <<>> /\ passed = <<>> /\ clock = 0 /\ current = [c \in Caller |-> 0]
    BY DEF Gate!Init
  <1>2. \A address, from : Passes(address, from) = {} /\ PassesWithin(address, from) = {}
    BY <1>1 DEF Passes, PassesWithin
  <1>3. \A address, from : Cardinality(PassesWithin(address, from)) = 0
    BY <1>2, FS_EmptySet
  <1>4. /\ <<>> \in Seq(Bucket) /\ <<>> \in Seq(Address \X Int \X Int) /\ Len(<<>>) = 0 /\ DOMAIN <<>> = {}
    OBVIOUS
  <1> QED
    BY <1>1, <1>2, <1>3, <1>4 DEF WindowInv, Remembered, Distinct

(* The table with a bucket for the address: what is gone counts as evicted.   *)
LEMMA TableWith ==
    ASSUME MaxBuckets \in Nat \ {0}, WindowInv, NEW address \in Address
    PROVE  LET table == Gate!With(address)
           IN  /\ table \in Seq(Bucket) /\ Len(table) <= MaxBuckets /\ Distinct(table)
               /\ \E j \in DOMAIN table : table[j].address = address
               /\ \A i \in DOMAIN buckets, j \in DOMAIN table :
                     buckets[i].address = table[j].address => buckets[i] = table[j]
  <1> DEFINE still == IF Len(buckets) >= MaxBuckets THEN Tail(buckets) ELSE buckets
             new == [address |-> address, hits |-> <<>>]
             table == Append(still, new)
  <1>1. /\ buckets \in Seq(Bucket) /\ Len(buckets) <= MaxBuckets /\ Distinct(buckets) /\ Len(buckets) \in Nat
        /\ DOMAIN buckets = 1 .. Len(buckets)
    BY DEF WindowInv
  <1>2. CASE \E i \in DOMAIN buckets : buckets[i].address = address
    BY <1>1, <1>2 DEF Gate!With, Distinct
  <1>3. CASE ~ \E i \in DOMAIN buckets : buckets[i].address = address
    <2>1. Gate!With(address) = table
      BY <1>3 DEF Gate!With
    <2>2. new \in Bucket /\ new.address = address
      BY DEF Bucket
    <2>3. /\ still \in Seq(Bucket) /\ Len(still) < MaxBuckets
          /\ \E shift \in {0, 1} : \A i \in 1 .. Len(still) :
                i + shift \in DOMAIN buckets /\ still[i] = buckets[i + shift]
      <3>1. CASE Len(buckets) >= MaxBuckets
        <4>1. buckets # <<>>
          BY <1>1, <3>1
        <4>2. /\ Tail(buckets) \in Seq(Bucket) /\ Len(Tail(buckets)) = Len(buckets) - 1
              /\ \A i \in 1 .. Len(Tail(buckets)) : Tail(buckets)[i] = buckets[i + 1]
          BY <1>1, <4>1, HeadTailProperties
        <4> QED
          BY <1>1, <3>1, <4>2
      <3>2. CASE ~ (Len(buckets) >= MaxBuckets)
        BY <1>1, <3>2
      <3> QED
        BY <3>1, <3>2
    <2> HIDE DEF still, new
    <2>4. PICK shift \in {0, 1} : \A i \in 1 .. Len(still) :
                i + shift \in DOMAIN buckets /\ still[i] = buckets[i + shift]
      BY <2>3
    <2>5. /\ table \in Seq(Bucket) /\ Len(table) = Len(still) + 1 /\ DOMAIN table = 1 .. Len(still) + 1
          /\ table[Len(still) + 1] = new /\ \A i \in 1 .. Len(still) : table[i] = still[i]
          /\ Len(still) \in Nat
      BY <2>2, <2>3
    <2> HIDE DEF table
    <2>6. Distinct(table)
      <3> SUFFICES ASSUME NEW i \in DOMAIN table, NEW j \in DOMAIN table, table[i].address = table[j].address
                   PROVE  i = j
        BY DEF Distinct
      <3>1. CASE i <= Len(still) /\ j <= Len(still)
        <4>1. i \in 1 .. Len(still) /\ j \in 1 .. Len(still)
          BY <2>5, <3>1
        <4>2. i + shift = j + shift
          <5>1. i + shift \in DOMAIN buckets /\ table[i] = buckets[i + shift]
            BY <2>4, <2>5, <4>1
          <5>2. j + shift \in DOMAIN buckets /\ table[j] = buckets[j + shift]
            BY <2>4, <2>5, <4>1
          <5>3. buckets[i + shift].address = buckets[j + shift].address
            BY <5>1, <5>2
          <5> HIDE DEF table
          <5> QED
            BY <1>1, <5>1, <5>2, <5>3 DEF Distinct
        <4> QED
          BY <2>4, <4>1, <4>2
      <3>2. CASE i = Len(still) + 1 \/ j = Len(still) + 1
        <4>1. \A k \in 1 .. Len(still) : table[k].address # address
          BY <1>3, <2>4, <2>5
        <4> QED
          BY <2>2, <2>5, <3>2, <4>1
      <3> QED
        BY <2>5, <3>1, <3>2
    <2>7. ASSUME NEW i \in DOMAIN buckets, NEW j \in DOMAIN table, buckets[i].address = table[j].address
          PROVE  buckets[i] = table[j]
      <3>1. j \in 1 .. Len(still)
        BY <1>3, <2>2, <2>5, <2>7
      <3>2. table[j] = buckets[j + shift] /\ j + shift \in DOMAIN buckets
        BY <2>4, <2>5, <3>1
      <3> QED
        BY <1>1, <2>7, <3>2 DEF Distinct
    <2>8. Len(still) + 1 \in DOMAIN table /\ table[Len(still) + 1].address = address /\ Len(table) <= MaxBuckets
      BY <2>2, <2>3, <2>5
    <2> QED
      BY <2>1, <2>5, <2>6, <2>7, <2>8
  <1> QED
    BY <1>2, <1>3

(* A pass at the end of the log. *)
LEMMA PassesOfAppended ==
    ASSUME passed \in Seq(Address \X Int \X Int), clock \in Int, NEW address \in Address, NEW came \in Int,
           passed' = Append(passed, <<address, came, clock>>)
    PROVE  /\ passed' \in Seq(Address \X Int \X Int)
           /\ \A other \in Address \ {address} : \A from \in Int :
                 Passes(other, from)' = Passes(other, from) /\ PassesWithin(other, from)' = PassesWithin(other, from)
           /\ \A from \in Int :
                 /\ Passes(address, from)' = Passes(address, from)
                                             \cup IF came >= from THEN {Len(passed) + 1} ELSE {}
                 /\ PassesWithin(address, from)' = PassesWithin(address, from)
                       \cup IF came >= from /\ clock < from + GateWindow THEN {Len(passed) + 1} ELSE {}
           /\ Len(passed) + 1 \notin DOMAIN passed
  <1> DEFINE n == Len(passed) + 1
  <1>1. /\ passed' \in Seq(Address \X Int \X Int) /\ DOMAIN passed' = DOMAIN passed \cup {n} /\ n \notin DOMAIN passed
        /\ passed'[n] = <<address, came, clock>> /\ \A i \in DOMAIN passed : passed'[i] = passed[i]
    <2> DEFINE pass == <<address, came, clock>>
    <2>1. pass \in Address \X Int \X Int
      OBVIOUS
    <2> HIDE DEF pass
    <2>2. /\ Append(passed, pass) \in Seq(Address \X Int \X Int)
          /\ Len(Append(passed, pass)) = n /\ Append(passed, pass)[n] = pass
          /\ \A i \in 1 .. Len(passed) : Append(passed, pass)[i] = passed[i]
      BY <2>1, AppendProperties
    <2> QED
      BY <2>2 DEF pass
  <1> HIDE DEF n
  <1>2. passed'[n][1] = address /\ passed'[n][2] = came /\ passed'[n][3] = clock
    BY <1>1
  <1>3. ASSUME NEW other \in Address \ {address}, NEW from \in Int
        PROVE  Passes(other, from)' = Passes(other, from) /\ PassesWithin(other, from)' = PassesWithin(other, from)
    BY <1>1, <1>2 DEF Passes, PassesWithin
  <1>4. ASSUME NEW from \in Int
        PROVE  /\ Passes(address, from)' = Passes(address, from) \cup IF came >= from THEN {n} ELSE {}
               /\ PassesWithin(address, from)' = PassesWithin(address, from)
                     \cup IF came >= from /\ clock < from + GateWindow THEN {n} ELSE {}
    BY <1>1, <1>2 DEF Passes, PassesWithin
  <1> QED
    BY <1>1, <1>3, <1>4 DEF n

LEMMA WindowLimited ==
    ASSUME GateWindow \in Int, GateLimit \in Nat, MaxBuckets \in Nat \ {0}, WindowInv,
           NEW c \in Caller, Gate!Limited(c)
    PROVE  WindowInv'
  <1>0. PICK address \in Address :
            LET table == Gate!With(address)
                j     == CHOOSE k \in DOMAIN table : table[k].address = address
                hits  == Gate!Kept(table[j].hits, current[c])
            IN  /\ \/ /\ Len(hits) < GateLimit
                      /\ buckets' = [table EXCEPT ![j].hits = Append(hits, current[c])]
                      /\ passed' = Append(passed, <<address, current[c], clock>>)
                   \/ /\ Len(hits) >= GateLimit
                      /\ buckets' = [table EXCEPT ![j].hits = hits]
                      /\ passed' = passed
                /\ evicted' = evicted \cup ({b.address : b \in Gate!Range(buckets)}
                                               \ {b.address : b \in Gate!Range(table)})
                /\ clock' = clock /\ current' = [current EXCEPT ![c] = 0]
    BY DEF Gate!Limited
  <1> DEFINE table == Gate!With(address)
             j == CHOOSE k \in DOMAIN table : table[k].address = address
             hits == Gate!Kept(table[j].hits, current[c])
             stored == IF Len(hits) < GateLimit THEN Append(hits, current[c]) ELSE hits
  <1>1. /\ table \in Seq(Bucket) /\ Len(table) <= MaxBuckets /\ Distinct(table)
        /\ \E k \in DOMAIN table : table[k].address = address
        /\ \A i \in DOMAIN buckets, k \in DOMAIN table :
              buckets[i].address = table[k].address => buckets[i] = table[k]
    BY TableWith
  <1>2. /\ clock' = clock /\ buckets' = [table EXCEPT ![j].hits = stored]
        /\ evicted \subseteq evicted'
        /\ \A i \in DOMAIN buckets : buckets[i].address \notin evicted' =>
              \E k \in DOMAIN table : table[k].address = buckets[i].address
    <2>1. clock' = clock /\ buckets' = [table EXCEPT ![j].hits = stored]
      <3>1. /\ clock' = clock
            /\ \/ Len(hits) < GateLimit /\ buckets' = [table EXCEPT ![j].hits = Append(hits, current[c])]
               \/ ~ (Len(hits) < GateLimit) /\ buckets' = [table EXCEPT ![j].hits = hits]
        BY <1>0
      <3> HIDE DEF table, j, hits
      <3> QED
        BY <3>1
    <2>2. evicted' = evicted \cup ({b.address : b \in {buckets[i] : i \in DOMAIN buckets}}
                                      \ {b.address : b \in {table[i] : i \in DOMAIN table}})
      BY <1>0 DEF Gate!Range
    <2> HIDE DEF table
    <2> QED
      BY <2>1, <2>2
  <1>3. \/ Len(hits) < GateLimit /\ passed' = Append(passed, <<address, current[c], clock>>)
        \/ ~ (Len(hits) < GateLimit) /\ passed' = passed
    BY <1>0
  <1> HIDE DEF table
  <1>4. j \in DOMAIN table /\ table[j].address = address
    BY <1>1
  <1> HIDE DEF j
  <1>5. /\ clock \in Int /\ current[c] \in Int /\ current[c] <= clock /\ passed \in Seq(Address \X Int \X Int)
        /\ \A other \in Address \ evicted' :
              Remembered(other) /\ \A from \in Int : Cardinality(PassesWithin(other, from)) <= GateLimit
    BY <1>2 DEF WindowInv
  <1> DEFINE came == current[c]
  <1>18. came \in Int /\ came <= clock
    BY <1>5
  <1>19. ASSUME passed' = Append(passed, <<address, current[c], clock>>)
         PROVE  /\ passed' \in Seq(Address \X Int \X Int)
                /\ \A other \in Address \ {address} : \A from \in Int :
                      /\ Passes(other, from)' = Passes(other, from)
                      /\ PassesWithin(other, from)' = PassesWithin(other, from)
                /\ \A from \in Int :
                      /\ Passes(address, from)' = Passes(address, from)
                                                  \cup IF came >= from THEN {Len(passed) + 1} ELSE {}
                      /\ PassesWithin(address, from)' = PassesWithin(address, from)
                            \cup IF came >= from /\ clock < from + GateWindow THEN {Len(passed) + 1} ELSE {}
    <2>1. passed' = Append(passed, <<address, came, clock>>)
      BY <1>19
    <2> HIDE DEF came
    <2> QED
      BY <1>5, <1>18, <2>1, PassesOfAppended
  <1>6. table[j].hits \in Seq(Int)
    <2>1. table[j] \in Bucket
      BY <1>1, <1>4
    <2> QED
      BY <2>1 DEF Bucket
  <1>7. /\ hits \in Seq(Int)
        /\ \A from \in Int : from + GateWindow > clock =>
              Cardinality(Hits(table[j].hits, from)) <= Cardinality(Hits(hits, from))
    BY <1>5, <1>6, HitsOfRecent DEF Gate!Kept
  <1> HIDE DEF hits
  <1>8. stored \in Seq(Int)
    BY <1>5, <1>7, HitsOfAppended
  <1> HIDE DEF stored
  <1>9. /\ buckets' \in Seq(Bucket) /\ Len(buckets') <= MaxBuckets /\ DOMAIN buckets' = DOMAIN table
        /\ buckets'[j].hits = stored /\ buckets'[j].address = address
        /\ \A k \in DOMAIN table \ {j} : buckets'[k] = table[k]
    <2> DEFINE bucket == [table[j] EXCEPT !.hits = stored]
    <2>1. table[j] \in Bucket
      BY <1>1, <1>4
    <2>2. bucket \in Bucket /\ bucket.hits = stored /\ bucket.address = address
      BY <1>4, <1>8, <2>1 DEF Bucket
    <2>3. buckets' = [table EXCEPT ![j] = bucket]
      BY <1>2
    <2> HIDE DEF bucket
    <2>4. j \in 1 .. Len(table) /\ DOMAIN table = 1 .. Len(table)
      BY <1>1, <1>4
    <2>5. /\ buckets' \in Seq(Bucket) /\ Len(buckets') = Len(table)
          /\ \A k \in 1 .. Len(table) : buckets'[k] = IF k = j THEN bucket ELSE table[k]
      BY <1>1, <2>2, <2>3, <2>4, ExceptSeq
    <2> QED
      BY <1>1, <2>2, <2>4, <2>5
  <1>10. \A k \in DOMAIN table : buckets'[k].address = table[k].address
    BY <1>4, <1>9
  <1>11. Distinct(buckets)'
    BY <1>1, <1>9, <1>10 DEF Distinct
  <1>12. ASSUME NEW other \in Address \ evicted', other # address
         PROVE  Remembered(other)'
    <2> SUFFICES ASSUME NEW from \in Int, from + GateWindow > clock, Passes(other, from)' # {}
                 PROVE  \E i \in DOMAIN buckets' :
                           /\ buckets'[i].address = other
                           /\ Cardinality(Passes(other, from)') <= Cardinality(Hits(buckets'[i].hits, from))
      BY <1>2 DEF Remembered, Hits
    <2>1. Passes(other, from)' = Passes(other, from)
      <3>1. CASE passed' = passed
        BY <3>1 DEF Passes
      <3>2. CASE passed' = Append(passed, <<address, current[c], clock>>)
        BY <1>5, <1>12, <3>2, <1>19
      <3> QED
        BY <1>3, <3>1, <3>2
    <2>2. PICK i \in DOMAIN buckets :
             /\ buckets[i].address = other
             /\ Cardinality(Passes(other, from)) <= Cardinality(Hits(buckets[i].hits, from))
      BY <1>5, <1>12, <2>1 DEF Remembered
    <2>3. PICK k \in DOMAIN table : table[k] = buckets[i]
      BY <1>1, <1>2, <1>12, <2>2
    <2>4. k # j /\ buckets'[k] = buckets[i] /\ k \in DOMAIN buckets'
      BY <1>4, <1>9, <1>12, <2>2, <2>3
    <2> QED
      BY <2>1, <2>2, <2>4
  <1>13. ASSUME address \notin evicted', NEW from \in Int, from + GateWindow > clock
         PROVE  /\ Cardinality(Passes(address, from)) \in Nat
                /\ Cardinality(Passes(address, from)) <= Cardinality(Hits(hits, from))
    <2>1. Cardinality(Passes(address, from)) \in Nat /\ Cardinality(Hits(hits, from)) \in Nat
      BY <1>5, <1>7, PassesType, HitsType
    <2>2. CASE Passes(address, from) = {}
      BY <2>1, <2>2, FS_EmptySet
    <2>3. CASE Passes(address, from) # {}
      <3>1. PICK i \in DOMAIN buckets :
               /\ buckets[i].address = address
               /\ Cardinality(Passes(address, from)) <= Cardinality(Hits(buckets[i].hits, from))
        BY <1>5, <1>13, <2>3 DEF Remembered
      <3>2. buckets[i] = table[j]
        BY <1>1, <1>4, <3>1
      <3>3. /\ Cardinality(Hits(table[j].hits, from)) \in Nat
            /\ Cardinality(Hits(table[j].hits, from)) <= Cardinality(Hits(hits, from))
        BY <1>6, <1>7, <1>13, HitsType
      <3> QED
        BY <2>1, <3>1, <3>2, <3>3
    <2> QED
      BY <2>2, <2>3
  <1>14. ASSUME address \notin evicted'
         PROVE  Remembered(address)'
    <2> SUFFICES ASSUME NEW from \in Int, from + GateWindow > clock
                 PROVE  Cardinality(Passes(address, from)') <= Cardinality(Hits(stored, from))
      BY <1>2, <1>4, <1>9 DEF Remembered, Hits
    <2>1. /\ Cardinality(Passes(address, from)) \in Nat /\ Cardinality(Hits(hits, from)) \in Nat
          /\ Cardinality(Passes(address, from)) <= Cardinality(Hits(hits, from))
      BY <1>7, <1>13, <1>14, HitsType
    <2>2. CASE ~ (Len(hits) < GateLimit) /\ passed' = passed
      <3>1. Passes(address, from)' = Passes(address, from) /\ stored = hits
        BY <2>2 DEF Passes, stored
      <3> QED
        BY <2>1, <3>1
    <2>3. CASE Len(hits) < GateLimit /\ passed' = Append(passed, <<address, current[c], clock>>)
      <3>1. Passes(address, from)' = Passes(address, from)
                                        \cup IF current[c] >= from THEN {Len(passed) + 1} ELSE {}
        BY <1>5, <2>3, <1>19
      <3>2. Cardinality(Passes(address, from)') = Cardinality(Passes(address, from)) + IF current[c] >= from THEN 1 ELSE 0
        <4>1. IsFiniteSet(Passes(address, from)) /\ Len(passed) + 1 \notin Passes(address, from)
          <5>1. Len(passed) + 1 \notin DOMAIN passed
            BY <1>5
          <5> QED
            BY <1>5, <5>1, PassesType DEF Passes
        <4>2. CASE current[c] >= from
          BY <3>1, <4>1, <4>2, FS_AddElement
        <4>3. CASE ~ (current[c] >= from)
          <5>1. Passes(address, from)' = Passes(address, from)
            BY <3>1, <4>3
          <5> QED
            BY <2>1, <4>3, <5>1
        <4> QED
          BY <4>2, <4>3
      <3>3. stored = Append(hits, current[c])
        BY <2>3 DEF stored
      <3>4. Cardinality(Hits(stored, from)) = Cardinality(Hits(hits, from)) + IF current[c] >= from THEN 1 ELSE 0
        BY <1>5, <1>7, <3>3, HitsOfAppended
      <3> QED
        BY <1>5, <2>1, <3>2, <3>4
    <2> QED
      BY <1>3, <2>2, <2>3
  <1>15. ASSUME NEW other \in Address \ evicted', NEW from \in Int
         PROVE  Cardinality(PassesWithin(other, from))' <= GateLimit
    <2>1. Cardinality(PassesWithin(other, from)) <= GateLimit
      BY <1>5, <1>15
    <2>2. CASE PassesWithin(other, from)' = PassesWithin(other, from)
      BY <2>1, <2>2
    <2>3. CASE PassesWithin(other, from)' # PassesWithin(other, from)
      <3>1. Len(hits) < GateLimit /\ passed' = Append(passed, <<address, current[c], clock>>)
        BY <1>3, <2>3 DEF PassesWithin
      <3>2. other = address /\ clock < from + GateWindow
            /\ PassesWithin(address, from)' = PassesWithin(address, from) \cup {Len(passed) + 1}
        BY <1>5, <2>3, <3>1, <1>19
      <3>3. from + GateWindow > clock /\ PassesWithin(address, from) \subseteq Passes(address, from)
        BY <1>5, <3>2 DEF PassesWithin, Passes
      <3>4. /\ IsFiniteSet(Passes(address, from)) /\ IsFiniteSet(PassesWithin(address, from))
            /\ Cardinality(PassesWithin(address, from)) \in Nat
            /\ Cardinality(PassesWithin(address, from)) <= Cardinality(Passes(address, from))
        BY <1>5, <3>3, PassesType, FS_Subset
      <3>5. Len(passed) + 1 \notin PassesWithin(address, from)
        BY <1>5 DEF PassesWithin
      <3>6. Cardinality(PassesWithin(address, from)') = Cardinality(PassesWithin(address, from)) + 1
        BY <3>2, <3>4, <3>5, FS_AddElement
      <3>7. /\ Cardinality(Passes(address, from)) \in Nat
            /\ Cardinality(Passes(address, from)) <= Cardinality(Hits(hits, from))
        BY <1>13, <1>15, <3>2, <3>3
      <3>8. Cardinality(Hits(hits, from)) \in Nat /\ Cardinality(Hits(hits, from)) <= Len(hits) /\ Len(hits) \in Nat
        BY <1>7, HitsType
      <3> QED
        BY <3>1, <3>2, <3>4, <3>6, <3>7, <3>8
    <2> QED
      BY <2>2, <2>3
  <1>16. passed' \in Seq(Address \X Int \X Int)
    BY <1>3, <1>5, <1>19
  <1>17. clock' \in Nat /\ current' \in [Caller -> Int] /\ \A d \in Caller : current'[d] <= clock'
    <2>1. clock \in Nat /\ current \in [Caller -> Int] /\ \A d \in Caller : current[d] <= clock
      BY DEF WindowInv
    <2> QED
      BY <1>0, <2>1
  <1> QED
    BY <1>2, <1>5, <1>9, <1>11, <1>12, <1>14, <1>15, <1>16, <1>17 DEF WindowInv

LEMMA WindowStep ==
    ASSUME GateWindow \in Int, GateLimit \in Nat, MaxBuckets \in Nat \ {0}, WindowInv, [Gate!Next]_(Gate!vars)
    PROVE  WindowInv'
  <1>1. CASE \E c \in Caller : Gate!Limited(c)
    BY <1>1, WindowLimited
  <1>2. CASE /\ clock' \in {clock, clock + 1} /\ UNCHANGED <<buckets, passed, evicted>>
             /\ current' = current \/ \E c \in Caller : current' = [current EXCEPT ![c] = clock]
    <2>1. /\ \A address, from : Passes(address, from)' = Passes(address, from)
          /\ \A address, from : PassesWithin(address, from)' = PassesWithin(address, from)
          /\ buckets' = buckets /\ passed' = passed /\ evicted' = evicted
          /\ clock \in Nat /\ clock' \in Nat /\ clock' >= clock
      BY <1>2 DEF Passes, PassesWithin, WindowInv
    <2>2. ASSUME NEW address \in Address \ evicted
          PROVE  Remembered(address)'
      <3>1. Remembered(address)
        BY DEF WindowInv
      <3>2. \A from \in Int : from + GateWindow > clock' => from + GateWindow > clock
        BY <2>1
      <3>3. \A from \in Int : from + GateWindow > clock' /\ Passes(address, from) # {} =>
               \E i \in DOMAIN buckets :
                  /\ buckets[i].address = address
                  /\ Cardinality(Passes(address, from)) <= Cardinality(Hits(buckets[i].hits, from))
        BY <3>1, <3>2 DEF Remembered
      <3> QED
        BY <2>1, <3>3 DEF Remembered, Hits
    <2>3. Distinct(buckets)'
      BY <2>1 DEF WindowInv, Distinct
    <2>4. current' \in [Caller -> Int] /\ \A c \in Caller : current'[c] <= clock'
      <3>1. current \in [Caller -> Int] /\ \A c \in Caller : current[c] <= clock
        BY DEF WindowInv
      <3> QED
        BY <1>2, <2>1, <3>1
    <2> QED
      BY <2>1, <2>2, <2>3, <2>4 DEF WindowInv
  <1>3. CASE Gate!Tick
    BY <1>2, <1>3 DEF Gate!Tick
  <1>4. CASE UNCHANGED <<clock, buckets, current, passed, evicted>>
    BY <1>2, <1>4
  <1>5. CASE \E c \in Caller : Gate!Arrive(c)
    BY <1>2, <1>5 DEF Gate!Arrive
  <1> QED
    BY <1>1, <1>3, <1>4, <1>5 DEF Gate!Next, Gate!vars, Gate!Acquire, Gate!Count, Gate!ReadCount, Gate!ShowCount,
                            Gate!Reason, Gate!Uncount, Gate!Release, Gate!OnlyGate

(* Of an address whose hits were never evicted GateLimit requests at most     *)
(* come and are let pass within one window, wherever it begins and however    *)
(* late each of them takes the lock after it read the clock, and the table of *)
(* buckets stays bounded (rate_limit.check).                                  *)
THEOREM SlidingWindow ==
    ASSUME GateWindow \in Int, GateLimit \in Nat, MaxBuckets \in Nat \ {0}
    PROVE  ServingSpec => []WindowIsKept
  <1>1. Gate!Init => WindowInv
    BY WindowInit
  <1>2. WindowInv /\ [Gate!Next]_(Gate!vars) => WindowInv'
    BY WindowStep
  <1>3. WindowInv => WindowIsKept
    <2> SUFFICES ASSUME WindowInv PROVE WindowIsKept
      OBVIOUS
    <2>1. \A from \in 0 .. clock : from \in Int
      BY DEF WindowInv
    <2> QED
      BY <2>1, GateCardinality DEF WindowIsKept, Gate!WindowIsKept, WindowInv, PassesWithin
  <1> QED
    BY <1>1, <1>2, <1>3, ServesGate, PTL DEF Gate!Spec

-----------------------------------------------------------------------------
(* GdeltSource: the requests of a query of media reports, slice by slice.     *)

(* A request after another: the next attempt of its slice, or the next slice. *)
Follows(last, slice, nth) ==
    \/ slice = last[1] /\ nth = last[2] + 1
    \/ slice = last[1] + 1 /\ nth = 0

Query == Int \X Int \X Int \X Int

LastQuery == sent[Len(sent)]

(* Where the adapter is, in terms of the last request it has sent.            *)
SlicePosition ==
    /\ phase \in {"checking", "pacing", "sending"} /\ sent # <<>> => Follows(LastQuery, slices, attempt)
    /\ phase = "sending" /\ sent # <<>> => wait - LastQuery[3] >= GdeltPace
    /\ phase \in {"waiting", "backoff"} => sent # <<>> /\ LastQuery[1] = slices /\ LastQuery[2] = attempt
    /\ outcome # "none" => phase = "ended"
    /\ outcome = "rate_limit" => sent # <<>> /\ LastQuery[2] = GdeltRetries

SlicesPaced ==
    \A i \in DOMAIN sent :
        /\ sent[i][3] + sent[i][4] <= Deadline
        /\ i > 1 => /\ sent[i][3] - sent[i - 1][3] >= GdeltPace
                    /\ Follows(sent[i - 1], sent[i][1], sent[i][2])

SliceInv ==
    /\ now \in Int /\ slices \in Int /\ attempt \in Int
    /\ sent \in Seq(Query)
    /\ phase = "sending" => wait \in Int
    /\ SlicePosition
    /\ SlicesPaced

LEMMA LastQueryType ==
    ASSUME sent \in Seq(Query), sent # <<>>
    PROVE  LastQuery \in Query /\ Len(sent) \in DOMAIN sent
  <1>1. Len(sent) \in 1 .. Len(sent)
    OBVIOUS
  <1> QED
    BY <1>1 DEF LastQuery

LEMMA SliceInit ==
    ASSUME Gdelt!Init
    PROVE  SliceInv
  <1>1. <<>> \in Seq(Query) /\ DOMAIN <<>> = {}
    OBVIOUS
  <1> QED
    BY <1>1 DEF Gdelt!Init, SliceInv, SlicePosition, SlicesPaced

(* The request that is sent now is paced and ends in time. *)
LEMMA SliceSend ==
    ASSUME Deadline \in Int, GdeltTimeout \in Int, SliceInv, Gdelt!Send
    PROVE  SliceInv'
  <1> DEFINE query == <<slices, attempt, now, Gdelt!RequestTimeout>>
  <1>1. /\ phase = "sending" /\ now = wait /\ sent' = Append(sent, query)
        /\ phase' = "waiting"
        /\ now' = now /\ attempt' = attempt /\ slices' = slices /\ outcome' = outcome
    BY DEF Gdelt!Send
  <1>2. Gdelt!RequestTimeout \in Int /\ now + Gdelt!RequestTimeout <= Deadline
    BY DEF Gdelt!RequestTimeout, Gdelt!Least, SliceInv
  <1>3. query \in Query
    BY <1>2 DEF SliceInv, Query
  <1>4. /\ sent' \in Seq(Query) /\ Len(sent') = Len(sent) + 1 /\ sent'[Len(sent')] = query
        /\ Len(sent) \in Nat
        /\ \A i \in 1 .. Len(sent) : sent'[i] = sent[i]
    <2>1. sent \in Seq(Query)
      BY DEF SliceInv
    <2> HIDE DEF query
    <2> QED
      BY <1>1, <1>3, <2>1
  <1>5. outcome = "none"
    BY <1>1 DEF SliceInv, SlicePosition
  <1>6. SlicePosition'
    <2>1. sent' # <<>>
      BY <1>4
    <2> QED
      BY <1>1, <1>4, <1>5, <2>1 DEF SlicePosition, LastQuery
  <1>7. SlicesPaced'
    <2> SUFFICES ASSUME NEW i \in DOMAIN sent'
                 PROVE  /\ sent'[i][3] + sent'[i][4] <= Deadline
                        /\ i > 1 => /\ sent'[i][3] - sent'[i - 1][3] >= GdeltPace
                                    /\ Follows(sent'[i - 1], sent'[i][1], sent'[i][2])
      BY DEF SlicesPaced, Follows
    <2>1. i \in 1 .. Len(sent) + 1 /\ DOMAIN sent = 1 .. Len(sent)
      BY <1>4 DEF SliceInv
    <2>2. CASE i <= Len(sent)
      <3>1. i \in DOMAIN sent /\ sent'[i] = sent[i] /\ (i > 1 => sent'[i - 1] = sent[i - 1])
        BY <1>4, <2>1, <2>2
      <3> QED
        BY <3>1 DEF SliceInv, SlicesPaced
    <2>3. CASE i = Len(sent) + 1
      <3>1. sent'[i] = query
        BY <1>4, <2>3
      <3>2. i > 1 => sent # <<>> /\ sent'[i - 1] = LastQuery
        BY <1>4, <2>3 DEF LastQuery, SliceInv
      <3>3. sent # <<>> => Follows(LastQuery, slices, attempt) /\ now - LastQuery[3] >= GdeltPace
        BY <1>1 DEF SliceInv, SlicePosition
      <3> QED
        BY <1>2, <3>1, <3>2, <3>3
    <2> QED
      BY <1>4, <2>1, <2>2, <2>3
  <1> QED
    BY <1>1, <1>3, <1>4, <1>6, <1>7 DEF SliceInv

LEMMA SliceStep ==
    ASSUME Deadline \in Int, GdeltTimeout \in Int, GdeltPace \in Int, SliceInv, [Gdelt!Next]_(Gdelt!vars)
    PROVE  SliceInv'
  <1>0. sent # <<>> => LastQuery \in Query
    BY LastQueryType DEF SliceInv
  <1>1. CASE Gdelt!Check
    BY <1>1 DEF Gdelt!Check, Gdelt!End, SliceInv, SlicePosition, SlicesPaced, LastQuery
  <1>2. CASE Gdelt!EnforcePacing
    <2>1. /\ phase = "pacing" /\ sent' = sent /\ UNCHANGED <<now, attempt, slices>>
          /\ \/ /\ phase' = "sending" /\ outcome' = outcome
                /\ wait' \in Int /\ (sent # <<>> => wait' - LastQuery[3] >= GdeltPace)
             \/ phase' = "ended" /\ outcome' = "deadline"
      <3> DEFINE since == IF sent = <<>> THEN GdeltPace ELSE now - LastQuery[3]
      <3>1. phase = "pacing" /\ sent' = sent /\ UNCHANGED <<now, attempt, slices>>
        BY <1>2 DEF Gdelt!EnforcePacing
      <3>2. \/ since >= GdeltPace /\ wait' = now /\ phase' = "sending" /\ outcome' = outcome
            \/ /\ since < GdeltPace /\ wait' = now + (GdeltPace - since)
               /\ phase' = "sending" /\ outcome' = outcome
            \/ phase' = "ended" /\ outcome' = "deadline"
        BY <1>2 DEF Gdelt!EnforcePacing, Gdelt!Sleep, Gdelt!End, LastQuery
      <3>3. now \in Int /\ (sent # <<>> => LastQuery[3] \in Int /\ since = now - LastQuery[3])
        BY <1>0 DEF SliceInv, Query
      <3>4. since \in Int
        BY <3>3
      <3> HIDE DEF since
      <3> QED
        BY <3>1, <3>2, <3>3, <3>4
    <2> QED
      BY <2>1 DEF SliceInv, SlicePosition, SlicesPaced, LastQuery
  <1>3. CASE Gdelt!Tick
    BY <1>3 DEF Gdelt!Tick, SliceInv, SlicePosition, SlicesPaced, LastQuery
  <1>4. CASE Gdelt!Send
    BY <1>4, SliceSend
  <1>5. CASE Gdelt!RateLimited \/ Gdelt!FailsForNow
    <2>1. /\ phase = "waiting" /\ sent' = sent /\ UNCHANGED <<now, attempt, slices>>
          /\ \/ phase' = "backoff" /\ outcome' = outcome
             \/ phase' = "ended" /\ outcome' \in {"deadline", "transient"}
             \/ phase' = "ended" /\ outcome' = "rate_limit" /\ attempt = GdeltRetries
      BY <1>5 DEF Gdelt!RateLimited, Gdelt!FailsForNow, Gdelt!Retry, Gdelt!GiveUp, Gdelt!Sleep, Gdelt!End
    <2> QED
      BY <2>1 DEF SliceInv, SlicePosition, SlicesPaced, LastQuery
  <1>6. CASE Gdelt!Rejected
    BY <1>6 DEF Gdelt!Rejected, Gdelt!End, SliceInv, SlicePosition, SlicesPaced, LastQuery
  <1>7. CASE Gdelt!Answered
    <2>1. /\ phase = "waiting" /\ sent' = sent /\ now' = now
          /\ slices' = slices + 1 /\ attempt' = 0
          /\ \/ phase' = "checking" /\ outcome' = outcome
             \/ phase' = "ended" /\ outcome' = "complete"
      BY <1>7 DEF Gdelt!Answered, Gdelt!End
    <2> QED
      BY <1>0, <2>1 DEF SliceInv, SlicePosition, SlicesPaced, LastQuery, Follows
  <1>8. CASE Gdelt!TryAgain
    <2>1. /\ phase = "backoff" /\ sent' = sent /\ now' = now /\ slices' = slices
          /\ attempt' = attempt + 1 /\ phase' = "checking" /\ outcome' = outcome
      BY <1>8 DEF Gdelt!TryAgain
    <2> QED
      BY <1>0, <2>1 DEF SliceInv, SlicePosition, SlicesPaced, LastQuery, Follows
  <1>9. CASE UNCHANGED Gdelt!vars
    BY <1>9 DEF Gdelt!vars, SliceInv, SlicePosition, SlicesPaced, LastQuery
  <1> QED
    BY <1>1, <1>2, <1>3, <1>4, <1>5, <1>6, <1>7, <1>8, <1>9 DEF Gdelt!Next

(* Requests are GdeltPace apart within a slice and across slices, each slice has   *)
(* its attempts in order, none may end after the deadline, and a rate limit   *)
(* is reported only after the last attempt (query_slice).                     *)
LEMMA BoundedSlices ==
    ASSUME Deadline \in Int, GdeltTimeout \in Int, GdeltPace \in Int
    PROVE  Gdelt!Spec => []Gdelt!RequestsAreBounded
  <1>1. Gdelt!Init => SliceInv
    BY SliceInit
  <1>2. SliceInv /\ [Gdelt!Next]_(Gdelt!vars) => SliceInv'
    BY SliceStep
  <1>3. SliceInv => Gdelt!RequestsAreBounded
    BY DEF SliceInv, SlicePosition, SlicesPaced, Follows, Gdelt!RequestsAreBounded, LastQuery
  <1> QED
    BY <1>1, <1>2, <1>3, PTL DEF Gdelt!Spec

-----------------------------------------------------------------------------
(* PagedSources: the requests to a retailer or to a provider of videos.       *)

Sent == [page : Int, attempt : Int, at : Int, until : Int]

LastSent == requests[Len(requests)]

(* A request after another: the next attempt of its page, or the next page.   *)
ComesAfter(last, nth, attempts) ==
    \/ nth = last.page /\ attempts = last.attempt + 1 /\ attempts <= MaxRetries
    \/ nth = last.page + 1 /\ attempts = 0

(* Where the adapter is, in terms of the last request it has sent.            *)
SourcePosition ==
    /\ leg \in {"asking", "sending"} /\ requests # <<>> => ComesAfter(LastSent, turns, tried)
    /\ leg \in {"asking", "sending", "waiting"} /\ requests # <<>> => time >= LastSent.until
    /\ leg = "waiting" /\ provider # "seeded" =>
          requests # <<>> /\ LastSent.page = turns /\ LastSent.attempt = tried
    /\ provider = "seeded" => requests = <<>> /\ leg # "sending"
    /\ leg # "ended" => verdict = "none"
    /\ verdict = "transient" => requests # <<>> /\ LastSent.attempt = MaxRetries

SourcePaced ==
    \A i \in DOMAIN requests \ {1} :
        /\ requests[i].at >= requests[i - 1].at + Pace /\ requests[i].at >= requests[i - 1].until
        /\ ComesAfter(requests[i - 1], requests[i].page, requests[i].attempt)

SourceInv ==
    /\ time \in Int /\ tried \in Nat /\ turns \in Int
    /\ requests \in Seq(Sent)
    /\ SourcePosition
    /\ SourcePaced

LEMMA PowersOfTwo == \A n \in Nat : 2 ^ n \in Nat
  <1> SUFFICES ASSUME NEW n \in Nat PROVE 2 ^ n \in Nat
    OBVIOUS
  <1>1. IsFiniteSet(1 .. n) /\ Cardinality(1 .. n) = n
    BY FS_Interval
  <1>2. IsFiniteSet(SUBSET (1 .. n)) /\ Cardinality(SUBSET (1 .. n)) = 2 ^ n
    BY <1>1, FS_SUBSET
  <1> QED
    BY <1>2, FS_CardinalityType

LEMMA LastSentType ==
    ASSUME requests \in Seq(Sent), requests # <<>>
    PROVE  /\ LastSent \in Sent /\ Len(requests) \in DOMAIN requests
           /\ LastSent.page \in Int /\ LastSent.attempt \in Int
           /\ LastSent.at \in Int /\ LastSent.until \in Int
  <1>1. Len(requests) \in 1 .. Len(requests)
    OBVIOUS
  <1>2. LastSent \in Sent
    BY <1>1 DEF LastSent
  <1> QED
    BY <1>1, <1>2 DEF Sent

LEMMA Prolonged ==
    ASSUME NEW last \in Sent, NEW when \in Int
    PROVE  LET r == [last EXCEPT !.until = when]
           IN  /\ r \in Sent /\ r.until = when
               /\ r.page = last.page /\ r.attempt = last.attempt /\ r.at = last.at
  BY DEF Sent

LEMMA SourceInit ==
    ASSUME Feed!Init
    PROVE  SourceInv
  <1>1. <<>> \in Seq(Sent) /\ DOMAIN <<>> = {}
    OBVIOUS
  <1> QED
    BY <1>1 DEF Feed!Init, SourceInv, SourcePosition, SourcePaced

(* A request is sent Pace after the last, and not before it is allowed.       *)
LEMMA SourceSend ==
    ASSUME Pace \in Int, SourceInv, Feed!Send
    PROVE  SourceInv'
  <1> DEFINE next == [page |-> turns, attempt |-> tried, at |-> Feed!Paced, until |-> Feed!Paced]
  <1>1. /\ leg = "sending" /\ time' = Feed!Paced /\ requests' = Append(requests, next) /\ leg' = "waiting"
        /\ tried' = tried /\ turns' = turns /\ verdict' = verdict /\ provider' = provider
    BY DEF Feed!Send
  <1>2. /\ Feed!Paced \in Int
        /\ requests # <<>> => Feed!Paced >= LastSent.at + Pace /\ Feed!Paced >= LastSent.until
    <2>1. CASE requests = <<>>
      BY <2>1 DEF Feed!Paced, SourceInv
    <2>2. CASE requests # <<>>
      <3>1. time >= LastSent.until /\ LastSent.at \in Int /\ LastSent.until \in Int /\ time \in Int
        BY <1>1, <2>2, LastSentType DEF SourceInv, SourcePosition
      <3>2. Feed!Paced = IF time > LastSent.at + Pace THEN time ELSE LastSent.at + Pace
        BY <2>2 DEF Feed!Paced, Feed!Most, Feed!Last, LastSent
      <3> QED
        BY <3>1, <3>2
    <2> QED
      BY <2>1, <2>2
  <1>3. next \in Sent
    BY <1>2 DEF SourceInv, Sent
  <1>4. /\ requests' \in Seq(Sent) /\ Len(requests') = Len(requests) + 1 /\ requests'[Len(requests')] = next
        /\ Len(requests) \in Nat /\ requests' # <<>>
        /\ \A i \in 1 .. Len(requests) : requests'[i] = requests[i]
    <2>1. requests \in Seq(Sent)
      BY DEF SourceInv
    <2> HIDE DEF next
    <2> QED
      BY <1>1, <1>3, <2>1
  <1>5. verdict = "none" /\ provider # "seeded"
    BY <1>1 DEF SourceInv, SourcePosition
  <1>6. SourcePosition'
    BY <1>1, <1>2, <1>4, <1>5 DEF SourcePosition, LastSent
  <1>7. SourcePaced'
    <2> SUFFICES ASSUME NEW i \in DOMAIN requests' \ {1}
                 PROVE  /\ requests'[i].at >= requests'[i - 1].at + Pace
                        /\ requests'[i].at >= requests'[i - 1].until
                        /\ ComesAfter(requests'[i - 1], requests'[i].page, requests'[i].attempt)
      BY DEF SourcePaced, ComesAfter
    <2>1. i \in 2 .. Len(requests) + 1 /\ DOMAIN requests = 1 .. Len(requests)
      BY <1>4 DEF SourceInv
    <2>2. CASE i <= Len(requests)
      <3>1. i \in DOMAIN requests \ {1} /\ requests'[i] = requests[i] /\ requests'[i - 1] = requests[i - 1]
        BY <1>4, <2>1, <2>2
      <3> QED
        BY <3>1 DEF SourceInv, SourcePaced
    <2>3. CASE i = Len(requests) + 1
      <3>1. requests'[i] = next /\ requests # <<>> /\ requests'[i - 1] = LastSent
        BY <1>4, <2>1, <2>3 DEF LastSent, SourceInv
      <3>2. ComesAfter(LastSent, turns, tried)
        BY <1>1, <3>1 DEF SourceInv, SourcePosition
      <3> QED
        BY <1>2, <3>1, <3>2
    <2> QED
      BY <1>4, <2>1, <2>2, <2>3
  <1> QED
    BY <1>1, <1>2, <1>4, <1>6, <1>7 DEF SourceInv

(* Whatever the failure: another attempt, not before its time, or the end.    *)
LEMMA SourceRetry ==
    ASSUME SourceInv, leg = "waiting", provider # "seeded",
           NEW came \in Feed!Came, Timeout \in Nat, MaxRetries \in Nat, NEW seconds \in Nat,
           Feed!Retry(came, seconds)
    PROVE  SourceInv'
  <1> DEFINE n == Len(requests)
  <1>1. /\ tried < MaxRetries /\ tried' = tried + 1 /\ time' = came + seconds /\ leg' = "sending"
        /\ requests' = [requests EXCEPT ![n].until = came + seconds]
        /\ turns' = turns /\ verdict' = verdict /\ provider' = provider
    BY DEF Feed!Retry, Feed!OnlyTime
  <1>2. came \in Int
    BY DEF Feed!Came, SourceInv
  <1>3. /\ requests # <<>> /\ n \in DOMAIN requests /\ LastSent \in Sent /\ requests \in Seq(Sent)
        /\ LastSent.page = turns /\ LastSent.attempt = tried
    BY LastSentType DEF SourceInv, SourcePosition
  <1>4. /\ DOMAIN requests' = DOMAIN requests /\ Len(requests') = n
        /\ requests'[n] = [LastSent EXCEPT !.until = came + seconds]
        /\ \A i \in DOMAIN requests \ {n} : requests'[i] = requests[i]
        /\ requests' \in Seq(Sent)
    <2>1. [LastSent EXCEPT !.until = came + seconds] \in Sent
      BY <1>2, <1>3, Prolonged
    <2>2. requests' = [requests EXCEPT ![n] = [LastSent EXCEPT !.until = came + seconds]]
      BY <1>1, <1>3 DEF LastSent
    <2> HIDE DEF n
    <2>3. requests' \in Seq(Sent) /\ Len(requests') = Len(requests)
      BY <1>3, <2>1, <2>2, ExceptSeq
    <2> QED
      BY <1>3, <2>1, <2>2, <2>3 DEF n
  <1>5. /\ LastSent'.page = turns /\ LastSent'.attempt = tried /\ LastSent'.until = came + seconds
        /\ LastSent'.at = LastSent.at
    <2>1. came + seconds \in Int /\ LastSent' = [LastSent EXCEPT !.until = came + seconds]
      BY <1>2, <1>4 DEF LastSent
    <2> QED
      BY <1>3, <2>1, Prolonged
  <1>6. SourcePosition'
    <2>1. requests' # <<>> /\ time' >= LastSent'.until
      BY <1>1, <1>2, <1>3, <1>4, <1>5
    <2>2. ComesAfter(LastSent', turns', tried')
      <3>1. turns' = LastSent'.page /\ tried' = LastSent'.attempt + 1 /\ tried \in Nat
        BY <1>1, <1>5 DEF SourceInv
      <3>2. tried' <= MaxRetries
        BY <1>1, <3>1
      <3> QED
        BY <3>1, <3>2 DEF ComesAfter
    <2>3. verdict = "none"
      BY DEF SourceInv, SourcePosition
    <2> QED
      BY <1>1, <2>1, <2>2, <2>3 DEF SourcePosition
  <1>7. SourcePaced'
    <2> SUFFICES ASSUME NEW i \in DOMAIN requests' \ {1}
                 PROVE  /\ requests'[i].at >= requests'[i - 1].at + Pace
                        /\ requests'[i].at >= requests'[i - 1].until
                        /\ ComesAfter(requests'[i - 1], requests'[i].page, requests'[i].attempt)
      BY DEF SourcePaced, ComesAfter
    <2>2. i \in DOMAIN requests \ {1} /\ i - 1 \in DOMAIN requests /\ i - 1 # n
      BY <1>3, <1>4
    <2>3. /\ requests[i].at >= requests[i - 1].at + Pace /\ requests[i].at >= requests[i - 1].until
          /\ ComesAfter(requests[i - 1], requests[i].page, requests[i].attempt)
      BY <2>2 DEF SourceInv, SourcePaced
    <2>4. /\ requests'[i].at = requests[i].at /\ requests'[i].page = requests[i].page
          /\ requests'[i].attempt = requests[i].attempt
      <3>1. CASE i = n
        BY <1>3, <1>4, <1>5, <3>1 DEF LastSent
      <3>2. CASE i # n
        <4>1. requests'[i] = requests[i]
          BY <1>4, <2>2, <3>2
        <4> QED
          BY <4>1
      <3> QED
        BY <3>1, <3>2
    <2>5. requests'[i - 1] = requests[i - 1]
      BY <1>4, <2>2
    <2> QED
      BY <2>3, <2>4, <2>5 DEF ComesAfter
  <1> QED
    BY <1>1, <1>2, <1>4, <1>6, <1>7 DEF SourceInv

LEMMA SourceGiveUp ==
    ASSUME SourceInv, leg = "waiting", provider # "seeded", NEW came \in Feed!Came, Timeout \in Nat,
           NEW with, with = "transient" => tried = MaxRetries, Feed!GiveUp(came, with)
    PROVE  SourceInv'
  <1>1. /\ time' = came /\ leg' = "ended" /\ verdict' = with /\ tried' = tried /\ requests' = requests
        /\ turns' = turns /\ provider' = provider
    BY DEF Feed!GiveUp, Feed!End, Feed!OnlyTime
  <1>2. came \in Int
    BY DEF Feed!Came, SourceInv
  <1> QED
    BY <1>1, <1>2 DEF SourceInv, SourcePosition, SourcePaced, LastSent

LEMMA SourceStep ==
    ASSUME Pace \in Int, Timeout \in Nat, Base \in Nat, MaxBackoff \in Nat, RetryAfter \subseteq Nat,
           MaxRetries \in Nat, SourceInv, [Feed!Next]_(Feed!vars)
    PROVE  SourceInv'
  <1>1. CASE Feed!Ask
    BY <1>1 DEF Feed!Ask, Feed!End, SourceInv, SourcePosition, SourcePaced, LastSent, ComesAfter
  <1>2. CASE Feed!Send
    BY <1>2, SourceSend
  <1>3. CASE Feed!Fails
    <2>0. leg = "waiting" /\ tried \in Nat
      BY <1>3 DEF Feed!Fails, SourceInv
    <2>1. PICK came \in Feed!Came : Feed!AmazonFails(came) \/ Feed!YouTubeFails(came) \/ Feed!Refused(came)
      BY <1>3 DEF Feed!Fails
    <2>2. provider # "seeded"
      BY <2>1 DEF Feed!AmazonFails, Feed!YouTubeFails, Feed!Refused, Feed!IsAmazon
    <2>3. Base * 2 ^ tried \in Nat /\ Feed!Least(Base * 2 ^ tried, MaxBackoff) \in Nat
      <3>1. 2 ^ tried \in Nat
        BY <2>0, PowersOfTwo
      <3>2. Base * 2 ^ tried \in Nat
        BY <3>1
      <3> QED
        BY <3>2 DEF Feed!Least
    <2>4. \/ \E seconds \in Nat : Feed!Retry(came, seconds)
          \/ \E with \in Feed!Verdicts : /\ with = "transient" => tried = MaxRetries
                                         /\ Feed!GiveUp(came, with)
      BY <2>1, <2>3 DEF Feed!AmazonFails, Feed!YouTubeFails, Feed!Refused, Feed!Verdicts
    <2> QED
      BY <2>0, <2>2, <2>4, SourceRetry, SourceGiveUp
  <1>4. CASE Feed!Answered
    <2>1. /\ leg = "waiting" /\ time' \in Feed!Came /\ requests' = requests /\ provider' = provider
          /\ \/ leg' = "ended" /\ verdict' \in {"raised", "completed"} /\ tried' = tried /\ turns' = turns
             \/ /\ turns' = turns + 1 /\ tried' = 0
                /\ \/ leg' = "ended" /\ verdict' = "completed"
                   \/ leg' = "asking" /\ verdict' = verdict
      BY <1>4 DEF Feed!Answered, Feed!End
    <2>2. time' \in Int /\ time' >= time
      BY <2>1 DEF Feed!Came, SourceInv
    <2>3. requests # <<>> => LastSent.until \in Int
      BY LastSentType DEF SourceInv
    <2> QED
      BY <2>1, <2>2, <2>3 DEF SourceInv, SourcePosition, SourcePaced, LastSent, ComesAfter
  <1>5. CASE UNCHANGED Feed!vars
    BY <1>5 DEF Feed!vars, SourceInv, SourcePosition, SourcePaced, LastSent, ComesAfter
  <1> QED
    BY <1>1, <1>2, <1>3, <1>4, <1>5 DEF Feed!Next

LEMMA SourceIsPaced == SourceInv => Feed!RequestsArePaced
  <1> SUFFICES ASSUME SourceInv PROVE Feed!RequestsArePaced
    OBVIOUS
  <1>1. \A i \in DOMAIN requests \ {1} :
            /\ requests[i].at >= requests[i - 1].at + Pace /\ requests[i].at >= requests[i - 1].until
            /\ ComesAfter(requests[i - 1], requests[i].page, requests[i].attempt)
    BY DEF SourceInv, SourcePaced
  <1> QED
    BY <1>1 DEF SourceInv, SourcePosition, ComesAfter, Feed!RequestsArePaced, Feed!Last, LastSent

(* The adapter of a retailer or of videos keeps its pace.                     *)
LEMMA PacedSource ==
    ASSUME Pace \in Int, Timeout \in Nat, Base \in Nat, MaxBackoff \in Nat, RetryAfter \subseteq Nat,
           MaxRetries \in Nat
    PROVE  Feed!Spec => []Feed!RequestsArePaced
  <1>1. Feed!Init => SourceInv
    BY SourceInit
  <1>2. SourceInv /\ [Feed!Next]_(Feed!vars) => SourceInv'
    BY SourceStep
  <1>3. SourceInv => Feed!RequestsArePaced
    BY SourceIsPaced
  <1> QED
    BY <1>1, <1>2, <1>3, PTL DEF Feed!Spec

(* The requests of every adapter of a provider are paced, backed off and      *)
(* bounded in number, whatever the provider answers and however late, and a   *)
(* query to GDELT ends within its deadline.                                   *)
THEOREM BoundedRequests ==
    ASSUME Deadline \in Int, GdeltPace \in Int, GdeltTimeout \in Int,
           Pace \in Int, Timeout \in Nat, Base \in Nat, MaxBackoff \in Nat, RetryAfter \subseteq Nat,
           MaxRetries \in Nat
    PROVE  ServingSpec => []RequestsAreBounded
  <1>1. Gdelt!Spec => []Gdelt!RequestsAreBounded
    BY BoundedSlices
  <1>2. Feed!Spec => []Feed!RequestsArePaced
    BY PacedSource
  <1>3. Gdelt!RequestsAreBounded /\ Feed!RequestsArePaced => RequestsAreBounded
    BY DEF RequestsAreBounded
  <1> QED
    BY <1>1, <1>2, <1>3, ServesGdelt, ServesSource, PTL

-----------------------------------------------------------------------------
(* Wardrobe: edits that overlap.                                              *)

(* The patches of a field of an item that another need not have seen ...      *)
Latest(i, f) ==
    {n \in Closet!Naming(i, f) : \A m \in Closet!Naming(i, f) : m > n => prior[log[m]] < n}

(* ... and whether one of those committed after the first p wanted this.      *)
WantedSince(i, f, p, value) == \E n \in Latest(i, f) : n > p /\ value = input[log[n]].fields[f]

Unedited(i, f) == rows[i][f] = ClosetStock[i][f]

(* What a patch that has selected its row does not know of the row is owed to *)
(* the patches committed since.                                               *)
SelectedOf(c, i) == i = input[c].id /\ input[c].kind = "patch" /\ stage[c] = "write"

KnownBut(c, i) == \A f \in DOMAIN rows[i] :
    rows[i][f] = loaded[c][1][f] \/ WantedSince(i, f, prior[c], rows[i][f])

EditInv ==
    /\ DOMAIN stage = Client /\ DOMAIN loaded = Client /\ prior \in [Client -> Nat]
    /\ \A c \in Client : prior[c] <= Len(log)
    /\ made \in Nat /\ \A i \in DOMAIN ClosetStock : i \in Nat /\ i <= made
    /\ log \in Seq(Client)
    /\ \A n \in DOMAIN log : stage[log[n]] = "done"
    /\ \A i \in DOMAIN ClosetStock \cap DOMAIN rows : \A f \in DOMAIN rows[i] :
          IF Latest(i, f) = {} THEN Unedited(i, f) ELSE WantedSince(i, f, 0, rows[i][f])
    /\ \A c \in Client, i \in DOMAIN ClosetStock \cap DOMAIN rows : SelectedOf(c, i) => KnownBut(c, i)

(* A step of one request that writes no patch.                                *)
LEMMA NoEdit ==
    ASSUME EditInv, NEW r \in Client,
           input' = input, log' = log, stage[r] # "done",
           DOMAIN stage' = Client, DOMAIN loaded' = Client, prior' \in [Client -> Nat],
           prior'[r] <= Len(log),
           \A c \in Client \ {r} : stage'[c] = stage[c] /\ loaded'[c] = loaded[c] /\ prior'[c] = prior[c],
           made' \in Nat, made' >= made,
           \A i \in DOMAIN ClosetStock \cap DOMAIN rows' : i \in DOMAIN rows /\ rows'[i] = rows[i],
           stage'[r] = "write" => loaded'[r] = <<rows[input[r].id]>>
    PROVE  EditInv'
  <1>1. \A n \in DOMAIN log : log[n] \in Client \ {r} /\ stage'[log[n]] = "done" /\ prior'[log[n]] = prior[log[n]]
    BY DEF EditInv
  <1>2. \A i, f : Closet!Naming(i, f)' = Closet!Naming(i, f) /\ Closet!Naming(i, f) \subseteq DOMAIN log
    BY DEF Closet!Naming
  <1>3. \A i, f : Latest(i, f)' = Latest(i, f)
    BY <1>1, <1>2 DEF Latest
  <1>4. \A i, f, p, v : WantedSince(i, f, p, v) => \E n \in Latest(i, f)' : n > p /\ v = input'[log'[n]].fields[f]
    BY <1>3 DEF WantedSince
  <1>5. ASSUME NEW i \in DOMAIN ClosetStock \cap DOMAIN rows', NEW f \in DOMAIN rows'[i]
        PROVE  IF Latest(i, f)' = {} THEN Unedited(i, f)' ELSE WantedSince(i, f, 0, rows[i][f])'
    <2>1. i \in DOMAIN ClosetStock \cap DOMAIN rows /\ rows'[i] = rows[i]
      BY <1>5
    <2>2. IF Latest(i, f) = {} THEN Unedited(i, f) ELSE WantedSince(i, f, 0, rows[i][f])
      BY <1>5, <2>1 DEF EditInv
    <2>3. CASE Latest(i, f) = {}
      BY <1>3, <2>1, <2>2, <2>3 DEF Unedited
    <2>4. CASE Latest(i, f) # {}
      <3>1. \E n \in Latest(i, f)' : n > 0 /\ rows'[i][f] = input'[log'[n]].fields[f]
        BY <1>4, <2>1, <2>2, <2>4
      <3> QED
        BY <1>3, <2>4, <3>1 DEF WantedSince
    <2> QED
      BY <2>3, <2>4
  <1>6. ASSUME NEW c \in Client, NEW i \in DOMAIN ClosetStock \cap DOMAIN rows', SelectedOf(c, i)'
        PROVE  KnownBut(c, i)'
    <2>1. i \in DOMAIN ClosetStock \cap DOMAIN rows /\ rows'[i] = rows[i]
      BY <1>6
    <2>2. CASE c = r
      BY <1>6, <2>1, <2>2 DEF SelectedOf, KnownBut
    <2>3. CASE c # r
      <3>1. SelectedOf(c, i) /\ loaded'[c] = loaded[c] /\ prior'[c] = prior[c]
        BY <1>6, <2>3 DEF SelectedOf
      <3>2. KnownBut(c, i)
        BY <2>1, <3>1 DEF EditInv
      <3> SUFFICES ASSUME NEW f \in DOMAIN rows'[i]
                   PROVE  rows'[i][f] = loaded'[c][1][f] \/ WantedSince(i, f, prior[c], rows[i][f])'
        BY DEF KnownBut
      <3>3. rows'[i][f] = loaded'[c][1][f] \/ WantedSince(i, f, prior[c], rows'[i][f])
        BY <2>1, <3>1, <3>2 DEF KnownBut
      <3>4. WantedSince(i, f, prior[c], rows'[i][f]) =>
                \E n \in Latest(i, f)' : n > prior'[c] /\ rows'[i][f] = input'[log'[n]].fields[f]
        BY <1>4, <3>1
      <3> QED
        BY <3>3, <3>4 DEF WantedSince
    <2> QED
      BY <2>2, <2>3
  <1>7. \A i \in DOMAIN ClosetStock : i \in Nat /\ i <= made'
    BY DEF EditInv
  <1>8. \A c \in Client : prior'[c] <= Len(log')
    BY DEF EditInv
  <1> QED
    BY <1>1, <1>5, <1>6, <1>7, <1>8 DEF EditInv

(* A patch that is committed: those it did not see count as much as it does.  *)
LEMMA Edit ==
    ASSUME EditInv, NEW r \in Client, input[r].kind = "patch", stage[r] = "write",
           input[r].id \in DOMAIN rows,
           rows' = [rows EXCEPT ![input[r].id] =
                       Closet!Merged(rows[input[r].id], loaded[r][1], input[r].fields)],
           log' = Append(log, r), stage' = [stage EXCEPT ![r] = "done"],
           UNCHANGED <<input, made, loaded, prior>>
    PROVE  EditInv'
  <1> DEFINE id == input[r].id
             last == Len(log) + 1
             Edited(i, f) == i = id /\ f \in DOMAIN input[r].fields
  <1>1. /\ log' \in Seq(Client) /\ Len(log') = last /\ DOMAIN log' = DOMAIN log \cup {last} /\ log'[last] = r
        /\ \A n \in DOMAIN log : log'[n] = log[n] /\ n < last /\ n # last /\ n \in Nat
        /\ last \in Nat /\ last > 0 /\ DOMAIN log' \subseteq Nat
    BY DEF EditInv
  <1>2. \A c \in Client : prior[c] \in Nat /\ prior[c] < last
    BY DEF EditInv
  <1> HIDE DEF last
  <1>3. ASSUME NEW i, NEW f
        PROVE  /\ Closet!Naming(i, f) \subseteq DOMAIN log
               /\ Closet!Naming(i, f)' = Closet!Naming(i, f) \cup IF Edited(i, f) THEN {last} ELSE {}
    BY <1>1 DEF Closet!Naming
  <1>4. \A n \in DOMAIN log' : prior'[log'[n]] \in Nat /\ prior'[log'[n]] < last
    BY <1>1, <1>2 DEF EditInv
  <1>5. ASSUME NEW i, NEW f, ~ Edited(i, f)
        PROVE  Latest(i, f)' = Latest(i, f)
    BY <1>1, <1>3, <1>5 DEF Latest
  <1>6. ASSUME NEW i, NEW f, Edited(i, f)
        PROVE  /\ last \in Latest(i, f)'
               /\ \A m \in Latest(i, f) : prior[r] < m => m \in Latest(i, f)'
    <2>1. Closet!Naming(i, f)' = Closet!Naming(i, f) \cup {last} /\ Closet!Naming(i, f) \subseteq DOMAIN log
      BY <1>3, <1>6
    <2>2. last \in Latest(i, f)'
      BY <1>1, <2>1 DEF Latest
    <2>3. ASSUME NEW m \in Latest(i, f), prior[r] < m
          PROVE  m \in Latest(i, f)'
      <3>1. m \in Closet!Naming(i, f)' /\ \A n \in Closet!Naming(i, f) : n > m => prior[log[n]] < m
        BY <2>1, <2>3 DEF Latest
      <3>2. \A n \in Closet!Naming(i, f) : n > m => prior'[log'[n]] < m
        BY <1>1, <2>1, <3>1
      <3>3. prior'[log'[last]] < m
        BY <1>1, <2>3
      <3> QED
        BY <2>1, <3>1, <3>2, <3>3 DEF Latest
    <2> QED
      BY <2>2, <2>3
  <1>7. /\ DOMAIN rows' = DOMAIN rows
        /\ \A i \in DOMAIN rows : DOMAIN rows'[i] = DOMAIN rows[i]
        /\ \A i \in DOMAIN rows : \A f \in DOMAIN rows[i] :
              ~ Edited(i, f) => rows'[i][f] = rows[i][f]
        /\ \A i \in DOMAIN rows : \A f \in DOMAIN rows[i] :
              Edited(i, f) => \/ rows'[i][f] = input[r].fields[f]
                              \/ rows'[i][f] = rows[i][f] /\ rows[i][f] # loaded[r][1][f]
    <2> DEFINE merged == Closet!Merged(rows[id], loaded[r][1], input[r].fields)
    <2>1. /\ DOMAIN rows' = DOMAIN rows
          /\ \A i \in DOMAIN rows \ {id} : rows'[i] = rows[i]
          /\ rows'[id] = merged
      OBVIOUS
    <2>2. /\ DOMAIN merged = DOMAIN rows[id]
          /\ \A f \in DOMAIN rows[id] : f \notin DOMAIN input[r].fields => merged[f] = rows[id][f]
          /\ \A f \in DOMAIN rows[id] : f \in DOMAIN input[r].fields =>
                \/ merged[f] = input[r].fields[f]
                \/ merged[f] = rows[id][f] /\ rows[id][f] # loaded[r][1][f]
      BY DEF Closet!Merged
    <2> HIDE DEF merged
    <2>3. ASSUME NEW i \in DOMAIN rows
          PROVE  /\ DOMAIN rows'[i] = DOMAIN rows[i]
                 /\ \A f \in DOMAIN rows[i] : ~ Edited(i, f) => rows'[i][f] = rows[i][f]
                 /\ \A f \in DOMAIN rows[i] :
                       Edited(i, f) => \/ rows'[i][f] = input[r].fields[f]
                                       \/ rows'[i][f] = rows[i][f] /\ rows[i][f] # loaded[r][1][f]
      <3>1. CASE i = id
        <4>1. rows'[i] = merged /\ rows[i] = rows[id] /\ \A f : Edited(i, f) <=> f \in DOMAIN input[r].fields
          BY <2>1, <3>1
        <4>2. DOMAIN rows'[i] = DOMAIN rows[i]
          BY <2>2, <4>1
        <4> SUFFICES ASSUME NEW f \in DOMAIN rows[i]
                     PROVE  /\ ~ Edited(i, f) => rows'[i][f] = rows[i][f]
                            /\ Edited(i, f) => \/ rows'[i][f] = input[r].fields[f]
                                               \/ rows'[i][f] = rows[i][f] /\ rows[i][f] # loaded[r][1][f]
          BY <4>2
        <4>3. f \in DOMAIN rows[id] /\ rows'[i][f] = merged[f] /\ rows[i][f] = rows[id][f]
          BY <4>1
        <4> HIDE DEF Edited, id
        <4> QED
          BY <2>2, <4>1, <4>3
      <3>2. CASE i # id
        BY <2>1, <3>2
      <3> QED
        BY <3>1, <3>2
    <2> QED
      BY <2>1, <2>3
  <1>8. ASSUME NEW i \in DOMAIN ClosetStock \cap DOMAIN rows, NEW f \in DOMAIN rows[i], Edited(i, f)
        PROVE  \/ rows'[i][f] = input[r].fields[f]
               \/ rows'[i][f] = rows[i][f] /\ WantedSince(i, f, prior[r], rows[i][f])
    <2>1. SelectedOf(r, i) => KnownBut(r, i)
      BY DEF EditInv
    <2> QED
      BY <1>7, <1>8, <2>1 DEF SelectedOf, KnownBut
  <1>9. ASSUME NEW i \in DOMAIN ClosetStock \cap DOMAIN rows', NEW f \in DOMAIN rows'[i]
        PROVE  IF Latest(i, f)' = {} THEN Unedited(i, f)' ELSE WantedSince(i, f, 0, rows[i][f])'
    <2>0. i \in DOMAIN ClosetStock \cap DOMAIN rows /\ f \in DOMAIN rows[i]
      BY <1>7
    <2>1. CASE Edited(i, f)
      <3>1. CASE rows'[i][f] = input[r].fields[f]
        BY <1>1, <1>6, <2>1, <3>1 DEF WantedSince
      <3>2. CASE rows'[i][f] = rows[i][f] /\ WantedSince(i, f, prior[r], rows[i][f])
        <4>1. PICK m \in Latest(i, f) : m > prior[r] /\ rows[i][f] = input[log[m]].fields[f]
          BY <3>2 DEF WantedSince
        <4>2. m \in DOMAIN log
          BY <1>3 DEF Latest
        <4>3. m \in Latest(i, f)' /\ m > 0 /\ log'[m] = log[m]
          BY <1>1, <1>2, <1>6, <2>1, <4>1, <4>2
        <4> QED
          BY <3>2, <4>1, <4>3 DEF WantedSince
      <3> QED
        BY <1>8, <2>0, <2>1, <3>1, <3>2
    <2>2. CASE ~ Edited(i, f)
      <3>1. rows'[i][f] = rows[i][f] /\ Latest(i, f)' = Latest(i, f)
        BY <1>5, <1>7, <2>0, <2>2
      <3>2. IF Latest(i, f) = {} THEN Unedited(i, f) ELSE WantedSince(i, f, 0, rows[i][f])
        BY <2>0 DEF EditInv
      <3>3. \A m \in Latest(i, f) : log'[m] = log[m]
        BY <1>1, <1>3 DEF Latest
      <3> QED
        BY <3>1, <3>2, <3>3 DEF Unedited, WantedSince
    <2> QED
      BY <2>1, <2>2
  <1>10. ASSUME NEW c \in Client, NEW i \in DOMAIN ClosetStock \cap DOMAIN rows', SelectedOf(c, i)'
         PROVE  KnownBut(c, i)'
    <2>1. SelectedOf(c, i) /\ loaded'[c] = loaded[c] /\ prior'[c] = prior[c]
      BY <1>10 DEF SelectedOf, EditInv
    <2>2. i \in DOMAIN ClosetStock \cap DOMAIN rows /\ KnownBut(c, i)
      BY <1>7, <2>1 DEF EditInv
    <2> SUFFICES ASSUME NEW f \in DOMAIN rows'[i]
                 PROVE  rows'[i][f] = loaded[c][1][f] \/ WantedSince(i, f, prior[c], rows[i][f])'
      BY <2>1 DEF KnownBut
    <2>3. f \in DOMAIN rows[i]
      BY <1>7, <2>2
    <2>4. \A m \in Latest(i, f) : m \in Nat /\ log'[m] = log[m]
      BY <1>1, <1>3 DEF Latest
    <2>5. CASE rows'[i][f] = rows[i][f] /\ ~ Edited(i, f)
      <3>1. Latest(i, f)' = Latest(i, f)
        BY <1>5, <2>5
      <3>2. rows[i][f] = loaded[c][1][f] \/ WantedSince(i, f, prior[c], rows[i][f])
        BY <2>2, <2>3 DEF KnownBut
      <3> QED
        BY <2>1, <2>4, <2>5, <3>1, <3>2 DEF WantedSince
    <2>6. CASE Edited(i, f) /\ rows'[i][f] = input[r].fields[f]
      BY <1>1, <1>2, <1>6, <2>1, <2>6 DEF WantedSince
    <2>7. CASE Edited(i, f) /\ rows'[i][f] = rows[i][f] /\ WantedSince(i, f, prior[r], rows[i][f])
      <3>1. PICK m \in Latest(i, f) : m > prior[r] /\ rows[i][f] = input[log[m]].fields[f]
        BY <2>7 DEF WantedSince
      <3>2. rows[i][f] = loaded[c][1][f] \/ WantedSince(i, f, prior[c], rows[i][f])
        BY <2>2, <2>3 DEF KnownBut
      <3>3. CASE WantedSince(i, f, prior[c], rows[i][f])
        <4>1. PICK n \in Latest(i, f) : n > prior[c] /\ rows[i][f] = input[log[n]].fields[f]
          BY <3>3 DEF WantedSince
        <4>2. CASE prior[c] <= prior[r]
          <5>1. m > prior[c] /\ m > prior[r] /\ log'[m] = log[m]
            <6>1. m \in Nat /\ log'[m] = log[m]
              BY <2>4
            <6>2. prior[c] \in Nat /\ prior[r] \in Nat
              BY <1>2
            <6> QED
              BY <3>1, <4>2, <6>1, <6>2
          <5>2. m \in Latest(i, f)'
            BY <1>6, <2>7, <3>1, <5>1
          <5>3. rows'[i][f] = input'[log'[m]].fields[f]
            BY <2>7, <3>1, <5>1
          <5> QED
            BY <2>1, <5>1, <5>2, <5>3 DEF WantedSince
        <4>3. CASE prior[r] < prior[c]
          <5>1. n > prior[c] /\ n > prior[r] /\ log'[n] = log[n]
            <6>1. n \in Nat /\ log'[n] = log[n]
              BY <2>4
            <6>2. prior[c] \in Nat /\ prior[r] \in Nat
              BY <1>2
            <6> QED
              BY <4>1, <4>3, <6>1, <6>2
          <5>2. n \in Latest(i, f)'
            BY <1>6, <2>7, <4>1, <5>1
          <5>3. rows'[i][f] = input'[log'[n]].fields[f]
            BY <2>7, <4>1, <5>1
          <5> QED
            BY <2>1, <5>1, <5>2, <5>3 DEF WantedSince
        <4> QED
          BY <1>2, <4>2, <4>3
      <3> QED
        BY <2>7, <3>2, <3>3
    <2> QED
      BY <1>7, <1>8, <2>2, <2>3, <2>5, <2>6, <2>7
  <1>11. \A n \in DOMAIN log' : stage'[log'[n]] = "done"
    BY <1>1 DEF EditInv
  <1>12. \A c \in Client : prior'[c] <= Len(log')
    BY <1>1, <1>2
  <1> QED
    BY <1>1, <1>9, <1>10, <1>11, <1>12 DEF EditInv

LEMMA ClosetCardinality == \A S : Closet!Cardinality(S) = Cardinality(S)
  BY DEF Closet!Cardinality, Cardinality

LEMMA EditInit ==
    ASSUME NEW Row, ClosetStock \in Seq(Row), Closet!Init
    PROVE  EditInv
  <1>1. log = <<>> /\ rows = ClosetStock /\ made = Len(ClosetStock) /\ DOMAIN ClosetStock = 1 .. Len(ClosetStock) /\ Len(ClosetStock) \in Nat
    <2>1. DOMAIN ClosetStock = 1 .. Len(ClosetStock) /\ Len(ClosetStock) \in Nat
      OBVIOUS
    <2>2. Cardinality(1 .. Len(ClosetStock)) = Len(ClosetStock)
      BY <2>1, FS_Interval
    <2> QED
      BY <2>1, <2>2, ClosetCardinality DEF Closet!Init
  <1>2. \A i, f : Latest(i, f) = {}
    BY <1>1 DEF Latest, Closet!Naming
  <1>3. \A i \in DOMAIN ClosetStock : i \in Nat /\ i <= made
    BY <1>1
  <1>4. <<>> \in Seq(Client) /\ DOMAIN <<>> = {} /\ Len(<<>>) = 0
    OBVIOUS
  <1>5. /\ DOMAIN stage = Client /\ DOMAIN loaded = Client /\ prior \in [Client -> Nat]
        /\ \A c \in Client : prior[c] = 0 /\ stage[c] = "start"
    BY DEF Closet!Init
  <1> QED
    BY <1>1, <1>2, <1>3, <1>4, <1>5 DEF EditInv, Unedited, SelectedOf

LEMMA EditStep ==
    ASSUME EditInv, [Closet!Next]_(Closet!vars)
    PROVE  EditInv'
  <1> USE DEF Closet!At, Closet!Goto, Closet!Reply, Closet!Store, Closet!KeepRows
  <1>0. SUFFICES ASSUME NEW r \in Client,
                        \/ Closet!Add(r) \/ Closet!Signal(r) \/ Closet!Load(r) \/ Closet!Select(r)
                        \/ Closet!Write(r) \/ Closet!Delete(r) \/ Closet!CountItems(r)
                        \/ Closet!ReadItems(r) \/ Closet!Derive(r) \/ Closet!DeriveToday(r)
                        \/ Closet!Summarize(r) \/ Closet!Cover(r) \/ Closet!Die(r)
                 PROVE  EditInv'
    <2>1. CASE UNCHANGED Closet!vars
      <3>0. /\ input' = input /\ rows' = rows /\ made' = made /\ stage' = stage /\ loaded' = loaded
            /\ log' = log /\ prior' = prior
        BY <2>1 DEF Closet!vars
      <3>1. \A i, f : Closet!Naming(i, f)' = Closet!Naming(i, f)
        BY <3>0 DEF Closet!Naming
      <3>2. \A i, f : Latest(i, f)' = Latest(i, f)
        BY <3>0, <3>1 DEF Latest
      <3> QED
        BY <3>0, <3>2 DEF EditInv, Unedited, WantedSince, SelectedOf, KnownBut
    <2> QED
      BY <2>1 DEF Closet!Next
  <1> DEFINE Rest ==
          /\ input' = input /\ log' = log /\ stage[r] # "done"
          /\ DOMAIN stage' = Client /\ DOMAIN loaded' = Client /\ prior' \in [Client -> Nat]
          /\ prior'[r] <= Len(log)
          /\ \A c \in Client \ {r} : stage'[c] = stage[c] /\ loaded'[c] = loaded[c] /\ prior'[c] = prior[c]
          /\ made' \in Nat /\ made' >= made
          /\ \A i \in DOMAIN ClosetStock \cap DOMAIN rows' : i \in DOMAIN rows /\ rows'[i] = rows[i]
          /\ stage'[r] = "write" => loaded'[r] = <<rows[input[r].id]>>
  <1>1. Rest => EditInv'
    BY NoEdit
  <1>2. /\ DOMAIN stage = Client /\ DOMAIN loaded = Client /\ prior \in [Client -> Nat] /\ made \in Nat
        /\ prior[r] <= Len(log) /\ Len(log) \in Nat
    BY DEF EditInv
  <1>3. CASE Closet!Add(r)
    <2>1. \A i \in DOMAIN ClosetStock : i \in Nat /\ i <= made
      BY DEF EditInv
    <2> QED
      BY <1>1, <1>2, <1>3, <2>1 DEF Closet!Add
  <1>4. CASE Closet!Signal(r)
    BY <1>1, <1>2, <1>4 DEF Closet!Signal
  <1>5. CASE Closet!Load(r)
    BY <1>1, <1>2, <1>5 DEF Closet!Load
  <1>6. CASE Closet!Select(r)
    BY <1>1, <1>2, <1>6 DEF Closet!Select
  <1>7. CASE Closet!Write(r)
    <2>1. CASE input[r].id \in DOMAIN rows /\ Closet!IsKnown(input[r].fields)
      BY <1>7, <2>1, Edit DEF Closet!Write
    <2>2. CASE ~ (input[r].id \in DOMAIN rows /\ Closet!IsKnown(input[r].fields))
      BY <1>1, <1>2, <1>7, <2>2 DEF Closet!Write
    <2> QED
      BY <2>1, <2>2
  <1>8. CASE Closet!Delete(r)
    BY <1>1, <1>2, <1>8 DEF Closet!Delete
  <1>9. CASE Closet!CountItems(r)
    BY <1>1, <1>2, <1>9 DEF Closet!CountItems, Closet!Readers
  <1>10. CASE Closet!ReadItems(r)
    BY <1>1, <1>2, <1>10 DEF Closet!ReadItems, Closet!Readers
  <1>11. CASE Closet!Derive(r) \/ Closet!DeriveToday(r)
    BY <1>1, <1>2, <1>11 DEF Closet!Derive, Closet!DeriveToday
  <1>12. CASE Closet!Summarize(r)
    BY <1>1, <1>2, <1>12 DEF Closet!Summarize
  <1>13. CASE Closet!Cover(r) \/ Closet!Die(r)
    BY <1>1, <1>2, <1>13 DEF Closet!Cover, Closet!Die
  <1> QED
    BY <1>0, <1>3, <1>4, <1>5, <1>6, <1>7, <1>8, <1>9, <1>10, <1>11, <1>12, <1>13

(* A patch of a wardrobe item never undoes another's field, and prevails over *)
(* what was committed before it selected its row.                             *)
THEOREM OverlappingEdits ==
    ASSUME NEW Row, ClosetStock \in Seq(Row)
    PROVE  ServingSpec => []EditsPrevail
  <1>1. Closet!Init => EditInv
    BY EditInit
  <1>2. EditInv /\ [Closet!Next]_(Closet!vars) => EditInv'
    BY EditStep
  <1>3. EditInv => EditsPrevail
    BY DEF EditInv, EditsPrevail, Closet!EditsPrevail, Latest, WantedSince, Unedited
  <1> QED
    BY <1>1, <1>2, <1>3, ServesWardrobe, PTL

-----------------------------------------------------------------------------
(* Places in an order.  A set of things is read from a place, by offset: what *)
(* stands before it is at the top, the rest below.                            *)

IsOrder(R, S) ==
    /\ \A x, y, z \in S : <<x, y>> \in R /\ <<y, z>> \in R => <<x, z>> \in R
    /\ \A x \in S : <<x, x>> \notin R
    /\ \A x, y \in S : x # y => <<x, y>> \in R \/ <<y, x>> \in R

Before(R, S, x) == {y \in S : <<y, x>> \in R}

Rank(R, S, x) == Cardinality(Before(R, S, x))

Top(R, S, o) == {x \in S : Rank(R, S, x) < o}

Below(R, S, o) == {x \in S : Rank(R, S, x) >= o}

LEMMA RankType ==
    ASSUME NEW R, NEW S, IsFiniteSet(S), NEW x
    PROVE  IsFiniteSet(Before(R, S, x)) /\ Rank(R, S, x) \in Nat
  BY FS_Subset, FS_CardinalityType DEF Before, Rank

LEMMA RankGrows ==
    ASSUME NEW R, NEW S, IsFiniteSet(S), IsOrder(R, S), NEW x \in S, NEW y \in S, <<x, y>> \in R
    PROVE  Rank(R, S, x) < Rank(R, S, y)
  <1>1. Before(R, S, x) \subseteq Before(R, S, y) /\ x \in Before(R, S, y) /\ x \notin Before(R, S, x)
    BY DEF IsOrder, Before
  <1>2. Rank(R, S, x) <= Rank(R, S, y) /\ Rank(R, S, x) # Rank(R, S, y)
    BY <1>1, RankType, FS_Subset DEF Rank
  <1> QED
    BY <1>2, RankType

(* The places are 0, 1, ..., one of each thing. *)
LEMMA Ranks ==
    ASSUME NEW R, NEW S, IsFiniteSet(S), IsOrder(R, S)
    PROVE  /\ Cardinality(S) \in Nat
           /\ \A x \in S : Rank(R, S, x) \in 0 .. Cardinality(S) - 1
           /\ \A x, y \in S : Rank(R, S, x) = Rank(R, S, y) => x = y
           /\ \A n \in 0 .. Cardinality(S) - 1 : \E x \in S : Rank(R, S, x) = n
  <1> DEFINE places == 0 .. Cardinality(S) - 1
             place == [x \in S |-> Rank(R, S, x)]
  <1>1. Cardinality(S) \in Nat
    BY FS_CardinalityType
  <1>2. IsFiniteSet(places) /\ Cardinality(places) = Cardinality(S)
    <2>1. Cardinality(S) - 1 \in Int /\ 0 \in Int
      BY <1>1
    <2>2. IsFiniteSet(places) /\ Cardinality(places) = IF 0 > Cardinality(S) - 1 THEN 0 ELSE Cardinality(S) - 1 - 0 + 1
      BY <2>1, FS_Interval
    <2> QED
      BY <1>1, <2>2
  <1>3. ASSUME NEW x \in S PROVE Rank(R, S, x) \in places
    <2>1. Before(R, S, x) \subseteq S /\ x \notin Before(R, S, x)
      BY DEF Before, IsOrder
    <2>2. Rank(R, S, x) <= Cardinality(S) /\ Rank(R, S, x) # Cardinality(S)
      BY <2>1, FS_Subset DEF Rank
    <2> QED
      BY <1>1, <2>2, RankType
  <1>4. ASSUME NEW x \in S, NEW y \in S, Rank(R, S, x) = Rank(R, S, y) PROVE x = y
    <2>1. <<x, y>> \notin R /\ <<y, x>> \notin R
      BY <1>4, RankGrows, RankType
    <2> QED
      BY <2>1 DEF IsOrder
  <1>5. place \in Injection(S, places)
    <2>1. place \in [S -> places]
      BY <1>3
    <2>2. \A x, y \in S : place[x] = place[y] => x = y
      BY <1>4
    <2> QED
      BY <2>1, <2>2 DEF Injection, IsInjective
  <1>6. place \in Surjection(S, places)
    BY <1>2, <1>5, FS_Injection
  <1>7. \A n \in places : \E x \in S : Rank(R, S, x) = n
    BY <1>6 DEF Surjection
  <1> QED
    BY <1>1, <1>3, <1>4, <1>7

LEMMA Places ==
    ASSUME NEW R, NEW S, IsFiniteSet(S), IsOrder(R, S), NEW o \in Nat
    PROVE  /\ IsFiniteSet(Top(R, S, o)) /\ Top(R, S, o) \subseteq S
           /\ Cardinality(Top(R, S, o)) = IF o <= Cardinality(S) THEN o ELSE Cardinality(S)
           /\ IsFiniteSet(Below(R, S, o)) /\ Below(R, S, o) = S \ Top(R, S, o)
           /\ Cardinality(Below(R, S, o)) = IF o <= Cardinality(S) THEN Cardinality(S) - o ELSE 0
           /\ Cardinality(S) \in Nat
  <1> DEFINE size == IF o <= Cardinality(S) THEN o ELSE Cardinality(S)
             place == [x \in Top(R, S, o) |-> Rank(R, S, x) + 1]
  <1>1. Cardinality(S) \in Nat /\ size \in Nat
    BY FS_CardinalityType
  <1>2. Top(R, S, o) \in SUBSET S /\ IsFiniteSet(Top(R, S, o)) /\ Top(R, S, o) \cap S = Top(R, S, o)
    BY FS_Subset DEF Top
  <1>3. IsFiniteSet(1 .. size) /\ Cardinality(1 .. size) = size
    <2>1. IsFiniteSet(1 .. size) /\ Cardinality(1 .. size) = IF 1 > size THEN 0 ELSE size - 1 + 1
      <3> HIDE DEF size
      <3> QED
        BY <1>1, FS_Interval
    <2> QED
      BY <1>1, <2>1
  <1>4. place \in Injection(Top(R, S, o), 1 .. size)
    <2>1. \A x \in Top(R, S, o) : Rank(R, S, x) \in Nat /\ Rank(R, S, x) < size
      BY <1>1, Ranks DEF Top
    <2>2. place \in [Top(R, S, o) -> 1 .. size]
      BY <1>1, <2>1
    <2>3. \A x, y \in Top(R, S, o) : place[x] = place[y] => x = y
      BY <1>2, <2>1, Ranks
    <2> QED
      BY <2>2, <2>3 DEF Injection, IsInjective
  <1>5. place \in Surjection(Top(R, S, o), 1 .. size)
    <2>1. ASSUME NEW n \in 1 .. size PROVE \E x \in Top(R, S, o) : place[x] = n
      <3>1. n - 1 \in 0 .. Cardinality(S) - 1 /\ n - 1 < o /\ n - 1 + 1 = n
        BY <1>1
      <3>2. PICK x \in S : Rank(R, S, x) = n - 1
        BY <3>1, Ranks
      <3> QED
        BY <3>1, <3>2 DEF Top
    <2>2. place \in [Top(R, S, o) -> 1 .. size]
      BY <1>4 DEF Injection
    <2> QED
      BY <2>1, <2>2 DEF Surjection
  <1>6. Cardinality(Top(R, S, o)) = size
    BY <1>3, <1>4, <1>5, FS_Injection
  <1>7. Below(R, S, o) = S \ Top(R, S, o)
    BY RankType DEF Below, Top
  <1>8. IsFiniteSet(Below(R, S, o)) /\ Cardinality(Below(R, S, o)) = Cardinality(S) - Cardinality(S \cap Top(R, S, o))
    BY <1>7, FS_Difference
  <1>9. S \cap Top(R, S, o) = Top(R, S, o)
    BY <1>2
  <1> QED
    BY <1>1, <1>2, <1>6, <1>7, <1>8, <1>9

LEMMA SubOrder ==
    ASSUME NEW R, NEW S, IsOrder(R, S), NEW T \in SUBSET S
    PROVE  IsOrder(R, T)
  BY DEF IsOrder

(* What comes in may push one more thing below the place, none above it.      *)
LEMMA Enters ==
    ASSUME NEW R, NEW S, IsFiniteSet(S), NEW z, z \notin S, IsOrder(R, S \cup {z}), NEW o \in Nat
    PROVE  /\ Top(R, S \cup {z}, o) \cap S \subseteq Top(R, S, o)
           /\ Below(R, S, o) \subseteq Below(R, S \cup {z}, o)
           /\ Cardinality(Below(R, S \cup {z}, o)) <= Cardinality(Below(R, S, o)) + 1
  <1> DEFINE T == S \cup {z}
  <1>1. IsFiniteSet(T) /\ Cardinality(T) = Cardinality(S) + 1 /\ IsOrder(R, S)
    BY FS_AddElement, SubOrder
  <1>2. ASSUME NEW x \in S PROVE Rank(R, S, x) <= Rank(R, T, x)
    <2>1. Before(R, S, x) \subseteq Before(R, T, x)
      BY DEF Before
    <2> QED
      BY <1>1, <2>1, RankType, FS_Subset DEF Rank
  <1>3. ASSUME NEW x \in S PROVE Rank(R, S, x) \in Nat /\ Rank(R, T, x) \in Nat
    BY <1>1, RankType
  <1> HIDE DEF T
  <1>4. Cardinality(Below(R, T, o)) <= Cardinality(Below(R, S, o)) + 1
    BY <1>1, Places DEF T
  <1>5. Top(R, T, o) \cap S \subseteq Top(R, S, o)
    BY <1>2, <1>3 DEF Top
  <1>6. Below(R, S, o) \subseteq Below(R, T, o)
    BY <1>2, <1>3 DEF Below, T
  <1> QED
    BY <1>4, <1>5, <1>6 DEF T

(* What leaves may pull one more thing above the place, none below it.        *)
LEMMA Leaves ==
    ASSUME NEW R, NEW S, IsFiniteSet(S), NEW p \in S, IsOrder(R, S), NEW o \in Nat
    PROVE  /\ Below(R, S \ {p}, o) \subseteq Below(R, S, o)
           /\ IsFiniteSet(Top(R, S \ {p}, o) \ Top(R, S, o))
           /\ Cardinality(Top(R, S \ {p}, o) \ Top(R, S, o)) \in {0, 1}
  <1> DEFINE T == S \ {p}
             A == Top(R, T, o)
             B == Top(R, S, o) \ {p}
  <1>1. IsFiniteSet(T) /\ Cardinality(T) = Cardinality(S) - 1 /\ IsOrder(R, T)
    BY FS_RemoveElement, SubOrder
  <1>2. ASSUME NEW x \in T
        PROVE  Rank(R, T, x) <= Rank(R, S, x) /\ Rank(R, S, x) \in Nat /\ Rank(R, T, x) \in Nat
    <2>1. Before(R, T, x) \subseteq Before(R, S, x)
      BY DEF Before
    <2> QED
      BY <1>1, <2>1, RankType, FS_Subset DEF Rank
  <1>3. Below(R, T, o) \subseteq Below(R, S, o)
    BY <1>2 DEF Below
  <1>4. B \subseteq A /\ A \subseteq T /\ p \notin A
    BY <1>2 DEF Top
  <1>5. A \ Top(R, S, o) = A \ B /\ A \cap B = B
    BY <1>4
  <1> DEFINE a == Cardinality(A)
             b == Cardinality(B)
             n == Cardinality(S)
             t == Cardinality(Top(R, S, o))
  <1>6. /\ IsFiniteSet(A) /\ a = (IF o <= n - 1 THEN o ELSE n - 1)
        /\ IsFiniteSet(Top(R, S, o)) /\ t = (IF o <= n THEN o ELSE n)
        /\ n \in Nat /\ n - 1 \in Nat
    BY <1>1, Places
  <1>7. IsFiniteSet(A \ B) /\ Cardinality(A \ B) = a - b
    <2>1. IsFiniteSet(A \ B) /\ Cardinality(A \ B) = Cardinality(A) - Cardinality(A \cap B)
      <3> HIDE DEF A, B
      <3> QED
        BY <1>6, FS_Difference
    <2> QED
      BY <1>5, <2>1
  <1>8. p \in Top(R, S, o) => b = t - 1
    BY <1>6, FS_RemoveElement
  <1>9. p \notin Top(R, S, o) => b = t /\ o < n
    <2>1. Rank(R, S, p) \in Nat /\ Rank(R, S, p) < n
      BY <1>6, Ranks
    <2>2. p \notin Top(R, S, o) => B = Top(R, S, o)
      OBVIOUS
    <2> QED
      BY <1>6, <2>1, <2>2 DEF Top
  <1>10. a - b \in {0, 1}
    <2>1. p \in Top(R, S, o) \/ p \notin Top(R, S, o)
      OBVIOUS
    <2>2. b <= a
      BY <1>4, <1>6, FS_Subset
    <2> HIDE DEF a, b, n, t, A, B, T
    <2>3. CASE b = t - 1
      <3>1. o <= n - 1 \/ (o = n /\ a = n - 1 /\ t = n) \/ (o > n /\ a = n - 1 /\ t = n)
        BY <1>6
      <3> QED
        BY <1>6, <2>2, <2>3, <3>1
    <2>4. CASE b = t /\ o < n
      BY <1>6, <2>2, <2>4
    <2> QED
      BY <1>8, <1>9, <2>1, <2>3, <2>4
  <1> QED
    BY <1>3, <1>5, <1>7, <1>10

-----------------------------------------------------------------------------
(* A reading by offset, one page after another.  K is what it should have, of *)
(* what there is now (S), found what it has, o the place it has come to.      *)

Page(R, S, o, m) == Top(R, S, o + m) \ Top(R, S, o)

(* What should have been read before the place, and was not.                  *)
Missed(R, S, K, found, o) == Cardinality((K \ found) \cap Top(R, S, o))

(* What was read and will be again. *)
Ahead(R, S, found, o) == Cardinality(found \cap Below(R, S, o))

LEMMA CountsType ==
    ASSUME NEW R, NEW S, IsFiniteSet(S), NEW K, NEW found, NEW o
    PROVE  Missed(R, S, K, found, o) \in Nat /\ Ahead(R, S, found, o) \in Nat
  <1>1. IsFiniteSet((K \ found) \cap Top(R, S, o)) /\ IsFiniteSet(found \cap Below(R, S, o))
    BY FS_Subset DEF Top, Below
  <1> QED
    BY <1>1, FS_CardinalityType DEF Missed, Ahead

(* How many things there are on a page. *)
Filled(S, o, m) ==
    LET upto == IF o + m < Cardinality(S) THEN o + m ELSE Cardinality(S)
    IN  IF upto > o THEN upto - o ELSE 0

(* What is listed on a page, in order, is the page, without a repeat. *)
LEMMA PageIsRead ==
    ASSUME NEW R, NEW S, IsFiniteSet(S), IsOrder(R, S), NEW o \in Nat, NEW m \in Nat, NEW s,
           \A k \in 1 .. Filled(S, o, m) : s[k] = CHOOSE x \in S : Rank(R, S, x) = o + k - 1
    PROVE  /\ {s[k] : k \in 1 .. Filled(S, o, m)} = Page(R, S, o, m)
           /\ Filled(S, o, m) \in Nat
           /\ Cardinality(Page(R, S, o, m)) = Filled(S, o, m) /\ IsFiniteSet(Page(R, S, o, m))
  <1> DEFINE n == Cardinality(S)
             f == Filled(S, o, m)
  <1>1. n \in Nat /\ o + m \in Nat
    BY FS_CardinalityType
  <1>2. f \in Nat /\ (\A k \in 1 .. f : o + k - 1 \in 0 .. n - 1 /\ o + k - 1 < o + m)
    BY <1>1 DEF Filled
  <1>3. \A k \in 1 .. f : s[k] \in S /\ Rank(R, S, s[k]) = o + k - 1
    <2> SUFFICES ASSUME NEW k \in 1 .. f
                 PROVE  s[k] \in S /\ Rank(R, S, s[k]) = o + k - 1
      OBVIOUS
    <2>1. o + k - 1 \in 0 .. n - 1
      BY <1>2
    <2>2. \E x \in S : Rank(R, S, x) = o + k - 1
      BY <2>1, Ranks
    <2> QED
      BY <2>2
  <1>4. ASSUME NEW k \in 1 .. f
        PROVE  s[k] \in Page(R, S, o, m)
    <2>1. o + k - 1 < o + m /\ ~ (o + k - 1 < o)
      BY <1>1, <1>2
    <2> QED
      BY <1>3, <2>1 DEF Page, Top
  <1>5. ASSUME NEW x \in Page(R, S, o, m)
        PROVE  \E k \in 1 .. f : s[k] = x
    <2>1. x \in S /\ Rank(R, S, x) < o + m /\ ~ (Rank(R, S, x) < o)
      BY DEF Page, Top
    <2>2. Rank(R, S, x) \in 0 .. n - 1
      BY <2>1, Ranks
    <2>3. Rank(R, S, x) - o + 1 \in 1 .. f /\ o + (Rank(R, S, x) - o + 1) - 1 = Rank(R, S, x)
      BY <1>1, <2>1, <2>2 DEF Filled
    <2>4. Rank(R, S, s[Rank(R, S, x) - o + 1]) = Rank(R, S, x) /\ s[Rank(R, S, x) - o + 1] \in S
      BY <1>3, <2>3
    <2>5. s[Rank(R, S, x) - o + 1] = x
      BY <2>1, <2>4, Ranks
    <2> QED
      BY <2>3, <2>5
  <1>6. Top(R, S, o) \subseteq Top(R, S, o + m)
    <2> SUFFICES ASSUME NEW x \in S, Rank(R, S, x) < o
                 PROVE  Rank(R, S, x) < o + m
      BY DEF Top
    <2>1. Rank(R, S, x) \in Nat
      BY RankType
    <2> QED
      BY <2>1
  <1>7. /\ IsFiniteSet(Top(R, S, o)) /\ IsFiniteSet(Top(R, S, o + m))
        /\ Cardinality(Top(R, S, o)) = IF o <= n THEN o ELSE n
        /\ Cardinality(Top(R, S, o + m)) = IF o + m <= n THEN o + m ELSE n
    BY <1>1, Places
  <1>8. Top(R, S, o + m) \cap Top(R, S, o) = Top(R, S, o)
    BY <1>6
  <1>9. /\ IsFiniteSet(Page(R, S, o, m))
        /\ Cardinality(Page(R, S, o, m)) = Cardinality(Top(R, S, o + m)) - Cardinality(Top(R, S, o))
    BY <1>7, <1>8, FS_Difference, ZenonT(30) DEF Page
  <1>10. Cardinality(Page(R, S, o, m)) = f
    BY <1>1, <1>7, <1>9 DEF Filled
  <1> QED
    BY <1>2, <1>4, <1>5, <1>9, <1>10

(* A page more: whatever is read twice by it was ahead. *)
LEMMA Turns ==
    ASSUME NEW R, NEW S, IsFiniteSet(S), IsOrder(R, S), NEW o \in Nat, NEW m \in Nat,
           NEW K, NEW found, IsFiniteSet(found), IsFiniteSet(Page(R, S, o, m))
    PROVE  LET B == Page(R, S, o, m)
           IN  /\ IsFiniteSet(found \cup B)
               /\ Cardinality(found \cup B) + Ahead(R, S, found, o)
                      = Cardinality(found) + Cardinality(B) + Ahead(R, S, found \cup B, o + m)
               /\ Missed(R, S, K, found \cup B, o + m) <= Missed(R, S, K, found, o)
  <1> DEFINE B == Page(R, S, o, m)
             N == found \cap Below(R, S, o + m)
  <1>1. \A x \in S : Rank(R, S, x) \in Nat /\ (Rank(R, S, x) < o => Rank(R, S, x) < o + m)
    BY RankType
  <1>2. /\ found \cap Below(R, S, o) = (found \cap B) \cup N
        /\ (found \cap B) \cap N = {}
        /\ (found \cup B) \cap Below(R, S, o + m) = N
    BY <1>1 DEF Page, Top, Below
  <1>3. (K \ (found \cup B)) \cap Top(R, S, o + m) \subseteq (K \ found) \cap Top(R, S, o)
    BY DEF Page
  <1>4. IsFiniteSet((K \ found) \cap Top(R, S, o))
    BY FS_Subset DEF Top
  <1>5. Missed(R, S, K, found \cup B, o + m) <= Missed(R, S, K, found, o)
    BY <1>3, <1>4, FS_Subset DEF Missed
  <1>6. IsFiniteSet(found \cap B) /\ IsFiniteSet(N)
    BY FS_Subset
  <1>7. /\ IsFiniteSet(found \cup B)
        /\ Cardinality(found \cup B) = Cardinality(found) + Cardinality(B) - Cardinality(found \cap B)
    <2> HIDE DEF B
    <2> QED
      BY FS_Union DEF B
  <1>8. Cardinality((found \cap B) \cup N) = Cardinality(found \cap B) + Cardinality(N) - Cardinality((found \cap B) \cap N)
    <2> HIDE DEF B, N
    <2> QED
      BY <1>6, FS_Union
  <1>9. Cardinality((found \cap B) \cap N) = 0
    BY <1>2, FS_EmptySet
  <1>10. Ahead(R, S, found, o) = Cardinality((found \cap B) \cup N) /\ Ahead(R, S, found \cup B, o + m) = Cardinality(N)
    BY <1>2 DEF Ahead
  <1>11. /\ Cardinality(found) \in Nat /\ Cardinality(B) \in Nat /\ Cardinality(N) \in Nat
         /\ Cardinality(found \cap B) \in Nat
    BY <1>6, FS_CardinalityType
  <1>12. Cardinality(found \cup B) + Ahead(R, S, found, o)
             = Cardinality(found) + Cardinality(B) + Ahead(R, S, found \cup B, o + m)
    <2> HIDE DEF B, N
    <2> QED
      BY <1>7, <1>8, <1>9, <1>10, <1>11
  <1> QED
    BY <1>5, <1>7, <1>12

(* One thing more pushes at most one that was read below the place. *)
LEMMA ReadingEnters ==
    ASSUME NEW R, NEW S, IsFiniteSet(S), NEW z, z \notin S, IsOrder(R, S \cup {z}), NEW o \in Nat,
           NEW K \in SUBSET S, NEW found, IsFiniteSet(found)
    PROVE  /\ Missed(R, S \cup {z}, K, found, o) <= Missed(R, S, K, found, o)
           /\ Ahead(R, S \cup {z}, found, o) <= Ahead(R, S, found, o) + 1
  <1> DEFINE T == S \cup {z}
             A == found \cap Below(R, S, o)
             N == found \cap (Below(R, T, o) \ Below(R, S, o))
  <1>1. /\ Top(R, T, o) \cap S \subseteq Top(R, S, o) /\ Below(R, S, o) \subseteq Below(R, T, o)
        /\ Cardinality(Below(R, T, o)) <= Cardinality(Below(R, S, o)) + 1
    BY Enters
  <1>2. IsFiniteSet((K \ found) \cap Top(R, S, o))
    BY FS_Subset DEF Top
  <1>3. (K \ found) \cap Top(R, T, o) \subseteq (K \ found) \cap Top(R, S, o)
    BY <1>1
  <1>4. IsFiniteSet(T)
    BY FS_AddElement
  <1>5. /\ IsFiniteSet(Below(R, T, o)) /\ IsFiniteSet(Below(R, S, o))
        /\ IsFiniteSet(Below(R, T, o) \ Below(R, S, o))
    BY <1>4, FS_Subset DEF Below
  <1>6. /\ Cardinality(Below(R, T, o) \ Below(R, S, o))
                = Cardinality(Below(R, T, o)) - Cardinality(Below(R, T, o) \cap Below(R, S, o))
        /\ Below(R, T, o) \cap Below(R, S, o) = Below(R, S, o)
    BY <1>1, <1>5, FS_Difference
  <1>7. /\ Cardinality(Below(R, T, o)) \in Nat /\ Cardinality(Below(R, S, o)) \in Nat
        /\ Cardinality(Below(R, T, o) \ Below(R, S, o)) \in Nat
    BY <1>5, FS_CardinalityType
  <1>8. Cardinality(Below(R, T, o) \ Below(R, S, o)) <= 1
    <2>1. Cardinality(Below(R, T, o) \ Below(R, S, o)) = Cardinality(Below(R, T, o)) - Cardinality(Below(R, S, o))
      BY <1>6
    <2>2. Cardinality(Below(R, T, o)) <= Cardinality(Below(R, S, o)) + 1
      BY <1>1
    <2> HIDE DEF T
    <2> QED
      BY <1>7, <2>1, <2>2
  <1>9. IsFiniteSet(N) /\ Cardinality(N) <= Cardinality(Below(R, T, o) \ Below(R, S, o))
    BY <1>5, FS_Subset
  <1>10. IsFiniteSet(A) /\ A \cap N = {} /\ found \cap Below(R, T, o) = A \cup N
    BY <1>1, <1>5, FS_Subset
  <1>11. Cardinality(A \cup N) = Cardinality(A) + Cardinality(N) - Cardinality(A \cap N)
    <2> HIDE DEF A, N
    <2> QED
      BY <1>9, <1>10, FS_Union
  <1>12. Cardinality(A \cap N) = 0 /\ Cardinality(A) \in Nat /\ Cardinality(N) \in Nat
    BY <1>9, <1>10, FS_EmptySet, FS_CardinalityType
  <1>13. Cardinality(A \cup N) <= Cardinality(A) + 1
    <2> HIDE DEF A, N
    <2> QED
      BY <1>7, <1>8, <1>9, <1>11, <1>12
  <1> QED
    BY <1>2, <1>3, <1>10, <1>13, FS_Subset DEF Missed, Ahead

(* One thing less pulls at most one that was not read above the place. *)
LEMMA ReadingLeaves ==
    ASSUME NEW R, NEW S, IsFiniteSet(S), NEW p \in S, IsOrder(R, S), NEW o \in Nat,
           NEW K, NEW found
    PROVE  /\ Missed(R, S \ {p}, K \ {p}, found, o) <= Missed(R, S, K, found, o) + 1
           /\ Ahead(R, S \ {p}, found, o) <= Ahead(R, S, found, o)
  <1> DEFINE T == S \ {p}
             A == (K \ found) \cap Top(R, S, o)
             N == Top(R, T, o) \ Top(R, S, o)
  <1>1. /\ Below(R, T, o) \subseteq Below(R, S, o)
        /\ IsFiniteSet(N) /\ Cardinality(N) \in {0, 1}
    BY Leaves
  <1>2. IsFiniteSet(A) /\ IsFiniteSet(found \cap Below(R, S, o))
    BY FS_Subset DEF Top, Below
  <1>3. Ahead(R, T, found, o) <= Ahead(R, S, found, o)
    BY <1>1, <1>2, FS_Subset DEF Ahead
  <1>4. ((K \ {p}) \ found) \cap Top(R, T, o) \subseteq A \cup N
    OBVIOUS
  <1>5. IsFiniteSet(A \cup N) /\ Cardinality(A \cup N) = Cardinality(A) + Cardinality(N) - Cardinality(A \cap N)
    <2> HIDE DEF A, N
    <2> QED
      BY <1>1, <1>2, FS_Union
  <1>6. IsFiniteSet(A \cap N) /\ Cardinality(A \cap N) \in Nat /\ Cardinality(A) \in Nat
    BY <1>1, <1>2, FS_Subset, FS_CardinalityType
  <1>7. Cardinality(((K \ {p}) \ found) \cap Top(R, T, o)) <= Cardinality(A \cup N)
    BY <1>4, <1>5, FS_Subset
  <1>8. Cardinality(((K \ {p}) \ found) \cap Top(R, T, o)) \in Nat
    BY <1>4, <1>5, FS_Subset, FS_CardinalityType
  <1>9. Missed(R, T, K \ {p}, found, o) <= Missed(R, S, K, found, o) + 1
    <2>1. Missed(R, T, K \ {p}, found, o) = Cardinality(((K \ {p}) \ found) \cap Top(R, T, o))
      BY DEF Missed
    <2>2. Missed(R, S, K, found, o) = Cardinality(A)
      BY DEF Missed
    <2> HIDE DEF A, N, T
    <2> QED
      BY <1>1, <1>5, <1>6, <1>7, <1>8, <2>1, <2>2
  <1> QED
    BY <1>3, <1>9

(* What is missed in the end is above the place, or there is more below it. *)
LEMMA ReadingEnds ==
    ASSUME NEW R, NEW S, IsFiniteSet(S), IsOrder(R, S), NEW o \in Nat, NEW K \in SUBSET S, NEW found
    PROVE  /\ IsFiniteSet(K \ found) /\ Cardinality(K \ found) \in Nat
           /\ Cardinality(K \ found) <= Missed(R, S, K, found, o)
                                        + (IF o <= Cardinality(S) THEN Cardinality(S) - o ELSE 0)
  <1> DEFINE A == (K \ found) \cap Top(R, S, o)
             N == Below(R, S, o)
  <1>1. /\ IsFiniteSet(N) /\ N = S \ Top(R, S, o) /\ Cardinality(S) \in Nat
        /\ Cardinality(N) = IF o <= Cardinality(S) THEN Cardinality(S) - o ELSE 0
    BY Places
  <1>2. IsFiniteSet(A)
    BY FS_Subset DEF Top
  <1>3. K \ found \subseteq A \cup N
    BY <1>1
  <1>4. IsFiniteSet(A \cup N) /\ Cardinality(A \cup N) = Cardinality(A) + Cardinality(N) - Cardinality(A \cap N)
    <2> HIDE DEF A, N
    <2> QED
      BY <1>1, <1>2, FS_Union
  <1>5. IsFiniteSet(A \cap N) /\ Cardinality(A \cap N) \in Nat /\ Cardinality(A) \in Nat
    BY <1>1, <1>2, FS_Subset, FS_CardinalityType
  <1>6. IsFiniteSet(K \ found) /\ Cardinality(K \ found) \in Nat /\ Cardinality(K \ found) <= Cardinality(A \cup N)
    BY <1>3, <1>4, FS_Subset, FS_CardinalityType
  <1>7. Missed(R, S, K, found, o) = Cardinality(A)
    BY DEF Missed
  <1> HIDE DEF A, N
  <1> QED
    BY <1>1, <1>4, <1>5, <1>6, <1>7

-----------------------------------------------------------------------------
(* The pool of products, gathered page by page while products come and go     *)
(* (for_you.py over candidate_retrieval.py).                                  *)

LEMMA PagesCardinality == \A S : Pages!Cardinality(S) = Cardinality(S)
  BY DEF Pages!Cardinality, Cardinality

(* The newest come first. *)
Newer == {e \in Int \X Int : e[1] > e[2]}

LEMMA NewerIsOrder ==
    ASSUME NEW S \in SUBSET Int
    PROVE  /\ IsOrder(Newer, S)
           /\ \A x \in S : Before(Newer, S, x) = {y \in S : y > x}
  <1>1. \A x, y \in S : <<x, y>> \in Newer <=> x > y
    BY DEF Newer
  <1>2. IsOrder(Newer, S)
    BY <1>1 DEF IsOrder
  <1>3. ASSUME NEW x \in S
        PROVE  Before(Newer, S, x) = {y \in S : y > x}
    BY <1>1 DEF Before
  <1> QED
    BY <1>2, <1>3

Found == {pool[i] : i \in DOMAIN pool}

Offset == (page - 1) * PoolPage

(* Each change has one product missed at most, before the place the reading   *)
(* has come to or beyond the last page that will be read, and one read twice  *)
(* at most, already or still to be.                                           *)
PoolInv ==
    /\ changes \in Nat /\ page \in Nat \ {0} /\ pool \in Seq(Int)
    /\ IsFiniteSet(eligible) /\ eligible \subseteq Int /\ steady \subseteq eligible
    /\ \A p \in eligible : p <= PoolPage * PoolPages + changes
    /\ pages = None => page = 1 /\ pool = <<>> /\ Cardinality(eligible) <= PoolPage * PoolPages
    /\ pages # None =>
          /\ pages \in Nat /\ page <= pages + 1
          /\ Missed(Newer, eligible, steady, Found, Offset) + Cardinality(eligible) - pages * PoolPage <= changes
    /\ Missed(Newer, eligible, steady, Found, Offset) <= changes
    /\ Len(pool) - Cardinality(Found) + Ahead(Newer, eligible, Found, Offset) <= changes

LEMMA FoundType ==
    ASSUME pool \in Seq(Int)
    PROVE  /\ IsFiniteSet(Found) /\ Cardinality(Found) \in Nat /\ Cardinality(Found) <= Len(pool)
           /\ DOMAIN pool = 1 .. Len(pool) /\ Len(pool) \in Nat
  <1>1. Len(pool) \in Nat /\ DOMAIN pool = 1 .. Len(pool)
    OBVIOUS
  <1>2. IsFiniteSet(1 .. Len(pool)) /\ Cardinality(1 .. Len(pool)) = Len(pool)
    BY <1>1, FS_Interval, SMTT(30)
  <1> DEFINE f == [i \in 1 .. Len(pool) |-> pool[i]]
  <1>3. f \in Surjection(1 .. Len(pool), Found)
    BY <1>1 DEF Found, Surjection
  <1>4. IsFiniteSet(Found) /\ Cardinality(Found) <= Cardinality(1 .. Len(pool))
    BY <1>2, <1>3, FS_Surjection
  <1> QED
    BY <1>1, <1>2, <1>4, FS_CardinalityType

LEMMA Times ==
    ASSUME NEW a \in Nat, NEW b \in Nat, NEW c \in Nat, a <= b
    PROVE  a * c \in Nat /\ b * c \in Nat /\ a * c <= b * c
  OBVIOUS

LEMMA Farther ==
    ASSUME NEW p \in Int, NEW top \in Int, NEW c \in Int, NEW d \in Int, p <= top + c, c <= d
    PROVE  p <= top + d
  OBVIOUS

LEMMA PoolInit ==
    ASSUME PoolPage \in Nat \ {0}, PoolPages \in Nat \ {0}, Pages!Init
    PROVE  PoolInv
  <1>1. /\ changes = 0 /\ page = 1 /\ pool = <<>> /\ steady = eligible /\ pages = None
        /\ \E n \in 0 .. PoolPage * PoolPages : eligible = 1 .. n
    BY DEF Pages!Init
  <1>2. PICK n \in 0 .. PoolPage * PoolPages : eligible = 1 .. n
    BY <1>1
  <1>3. PoolPage * PoolPages \in Nat
    OBVIOUS
  <1>4. /\ IsFiniteSet(eligible) /\ Cardinality(eligible) = n /\ eligible \subseteq Int
        /\ n <= PoolPage * PoolPages
    BY <1>2, <1>3, FS_Interval
  <1>5. \A p \in eligible : p <= PoolPage * PoolPages + changes
    BY <1>1, <1>2, <1>3
  <1>6. Offset = 0
    BY <1>1 DEF Offset
  <1>7. Top(Newer, eligible, 0) = {} /\ Found = {} /\ Len(<<>>) = 0 /\ <<>> \in Seq(Int)
    <2>1. \A x \in eligible : Rank(Newer, eligible, x) \in Nat
      BY <1>4, RankType
    <2> QED
      BY <1>1, <2>1 DEF Top, Found
  <1>8. /\ Missed(Newer, eligible, steady, Found, Offset) = 0
        /\ Ahead(Newer, eligible, Found, Offset) = 0
        /\ Cardinality(Found) = 0
    BY <1>6, <1>7, FS_EmptySet DEF Missed, Ahead
  <1> QED
    BY <1>1, <1>4, <1>5, <1>7, <1>8 DEF PoolInv

LEMMA PoolCount ==
    ASSUME PoolPage \in Nat \ {0}, PoolPages \in Nat \ {0}, None \notin Int, PoolInv, Pages!Count
    PROVE  PoolInv'
  <1> DEFINE n == Cardinality(eligible)
             needed == (n + PoolPage - 1) \div PoolPage
  <1>1. /\ pages = None /\ UNCHANGED <<eligible, steady, pool, page, changes>>
        /\ pages' = IF needed > PoolPages THEN PoolPages ELSE IF needed < 1 THEN 1 ELSE needed
    BY PagesCardinality DEF Pages!Count
  <1>2. n \in Nat /\ n <= PoolPage * PoolPages /\ page = 1
    BY <1>1, FS_CardinalityType DEF PoolInv
  <1>3. needed \in Nat /\ n <= needed * PoolPage
    <2> HIDE DEF n
    <2> QED
      BY <1>2
  <1>4. pages' \in Nat /\ pages' >= 1
    <2> HIDE DEF needed
    <2> QED
      BY <1>1, <1>3
  <1>5. n <= pages' * PoolPage
    <2>1. CASE pages' = PoolPages
      <3> HIDE DEF n
      <3> QED
        BY <1>2, <2>1
    <2>2. CASE pages' >= needed
      <3> HIDE DEF needed, n
      <3>1. /\ needed * PoolPage <= pages' * PoolPage
            /\ pages' * PoolPage \in Nat /\ needed * PoolPage \in Nat
        BY <1>3, <1>4, <2>2, Times
      <3> QED
        BY <1>2, <1>3, <3>1
    <2> HIDE DEF needed, n
    <2> QED
      BY <1>1, <1>3, <2>1, <2>2
  <1>6. Found' = Found /\ Offset' = Offset
    BY <1>1 DEF Found, Offset
  <1>7. Missed(Newer, eligible, steady, Found, Offset) \in Nat /\ Missed(Newer, eligible, steady, Found, Offset) <= changes
    BY CountsType DEF PoolInv
  <1>8. Missed(Newer, eligible, steady, Found, Offset) + n - pages' * PoolPage <= changes
    <2>1. pages' * PoolPage \in Nat /\ changes \in Nat
      BY <1>4, Times DEF PoolInv
    <2> HIDE DEF n
    <2> QED
      BY <1>2, <1>5, <1>7, <2>1
  <1> QED
    BY <1>1, <1>2, <1>4, <1>6, <1>8 DEF PoolInv

LEMMA PoolReadPage ==
    ASSUME PoolPage \in Nat \ {0}, PoolPages \in Nat \ {0}, None \notin Int, PoolInv, Pages!ReadPage
    PROVE  PoolInv'
  <1> DEFINE n == Cardinality(eligible)
             o == Offset
             upto == IF o + PoolPage < n THEN o + PoolPage ELSE n
             s == SubSeq(Pages!InOrder(eligible), o + 1, upto)
             B == Page(Newer, eligible, o, PoolPage)
             len == Filled(eligible, o, PoolPage)
  <1>1. /\ pages # None /\ pages \in Nat /\ page <= pages /\ page' = page + 1
        /\ UNCHANGED <<eligible, steady, pages, changes>>
        /\ pool' = pool \o s
    BY PagesCardinality DEF Pages!ReadPage, Pages!IsReading, Pages!Offset, Offset, PoolInv
  <1>2. o \in Nat /\ n \in Nat /\ IsFiniteSet(eligible) /\ eligible \subseteq Int /\ page \in Nat \ {0}
    <2>1. page \in Nat \ {0} /\ IsFiniteSet(eligible) /\ eligible \subseteq Int
      BY DEF PoolInv
    <2> QED
      BY <2>1, FS_CardinalityType DEF Offset
  <1>3. IsOrder(Newer, eligible)
    BY <1>2, NewerIsOrder
  <1>4. \A k \in 1 .. n : Pages!InOrder(eligible)[k] = CHOOSE x \in eligible : Rank(Newer, eligible, x) = k - 1
    <2>1. Pages!InOrder(eligible) = [k \in 1 .. n |->
              CHOOSE x \in eligible : Cardinality({y \in eligible : y > x}) = k - 1]
      BY DEF Pages!InOrder, Pages!Sorted, Pages!Cardinality, Cardinality
    <2>2. \A x \in eligible : Rank(Newer, eligible, x) = Cardinality({y \in eligible : y > x})
      BY <1>2, NewerIsOrder DEF Rank
    <2> QED
      BY <2>1, <2>2
  <1>5. len \in Nat /\ len = (IF o + 1 <= upto THEN upto - (o + 1) + 1 ELSE 0) /\ (len > 0 => o + len = upto)
    BY <1>2 DEF Filled
  <1>6. \A i \in o + 1 .. upto : Pages!InOrder(eligible)[i] \in Int
    <2> SUFFICES ASSUME NEW i \in o + 1 .. upto
                 PROVE  Pages!InOrder(eligible)[i] \in Int
      OBVIOUS
    <2>1. i \in 1 .. n /\ i - 1 \in 0 .. n - 1
      BY <1>2
    <2>2. \E x \in eligible : Rank(Newer, eligible, x) = i - 1
      <3>1. \A j \in 0 .. n - 1 : \E x \in eligible : Rank(Newer, eligible, x) = j
        BY <1>2, <1>3, Ranks
      <3> HIDE DEF n
      <3> QED
        BY <2>1, <3>1
    <2> QED
      BY <1>2, <1>4, <2>1, <2>2
  <1>7. s \in Seq(Int) /\ Len(s) = len /\ \A k \in 1 .. len : s[k] = Pages!InOrder(eligible)[o + k]
    <2>1. o + 1 \in Int /\ upto \in Int
      BY <1>2
    <2>2. /\ s \in Seq(Int) /\ Len(s) = (IF o + 1 <= upto THEN upto - (o + 1) + 1 ELSE 0)
          /\ \A k \in 1 .. upto - (o + 1) + 1 : s[k] = Pages!InOrder(eligible)[(o + 1) + k - 1]
      <3> HIDE DEF upto, o
      <3> QED
        BY <1>6, <2>1, SubSeqProperties
    <2>3. \A k \in 1 .. len : k \in 1 .. upto - (o + 1) + 1 /\ (o + 1) + k - 1 = o + k
      <3> HIDE DEF upto, o, len
      <3> QED
        BY <1>2, <1>5, <2>1
    <2> QED
      BY <1>5, <2>2, <2>3
  <1>8. \A k \in 1 .. len : s[k] = CHOOSE x \in eligible : Rank(Newer, eligible, x) = o + k - 1
    <2> SUFFICES ASSUME NEW k \in 1 .. len
                 PROVE  s[k] = CHOOSE x \in eligible : Rank(Newer, eligible, x) = o + k - 1
      OBVIOUS
    <2>1. o + k \in 1 .. n /\ (o + k) - 1 = o + k - 1
      <3>1. len > 0 /\ upto <= n
        BY <1>2, <1>5
      <3> HIDE DEF upto, o, len
      <3> QED
        BY <1>2, <1>5, <3>1
    <2> QED
      BY <1>4, <1>7, <2>1
  <1>9. /\ {s[k] : k \in 1 .. len} = B /\ Cardinality(B) = len /\ IsFiniteSet(B)
    <2> HIDE DEF s, o
    <2> QED
      BY <1>2, <1>3, <1>8, PageIsRead
  <1>10. pool \in Seq(Int) /\ IsFiniteSet(Found) /\ Cardinality(Found) \in Nat /\ Len(pool) \in Nat
    BY FoundType DEF PoolInv
  <1>11. pool' \in Seq(Int) /\ Len(pool') = Len(pool) + len /\ Found' = Found \cup B
    <2> HIDE DEF s, o, B, len
    <2>1. pool' \in Seq(Int) /\ Len(pool') = Len(pool) + len
      BY <1>1, <1>7, <1>10, ConcatProperties
    <2>2. \A i \in 1 .. Len(pool) : pool'[i] = pool[i]
      BY <1>1, <1>7, <1>10
    <2>3. \A i \in 1 .. len : pool'[Len(pool) + i] = s[i]
      BY <1>1, <1>5, <1>7, <1>10
    <2>8. DOMAIN pool' = 1 .. Len(pool) + len
      BY <2>1
    <2>4. ASSUME NEW i \in DOMAIN pool'
          PROVE  pool'[i] \in Found \cup B
      <3>1. i \in 1 .. Len(pool) \/ (i - Len(pool) \in 1 .. len /\ i = Len(pool) + (i - Len(pool)))
        BY <1>5, <1>10, <2>8
      <3>2. CASE i \in 1 .. Len(pool)
        BY <1>10, <2>2, <3>2 DEF Found
      <3>3. CASE i - Len(pool) \in 1 .. len /\ i = Len(pool) + (i - Len(pool))
        BY <1>9, <2>3, <3>3
      <3> QED
        BY <3>1, <3>2, <3>3
    <2>5. ASSUME NEW x \in Found
          PROVE  x \in Found'
      <3>1. PICK i \in 1 .. Len(pool) : x = pool[i]
        BY <1>10 DEF Found
      <3>2. i \in DOMAIN pool' /\ pool'[i] = x
        BY <1>5, <1>10, <2>1, <2>2, <3>1, SMTT(30)
      <3> QED
        BY <3>2 DEF Found
    <2>6. ASSUME NEW x \in B
          PROVE  x \in Found'
      <3>1. PICK k \in 1 .. len : x = s[k]
        BY <1>9
      <3>2. Len(pool) + k \in DOMAIN pool' /\ pool'[Len(pool) + k] = x
        BY <1>5, <1>10, <2>1, <2>3, <3>1
      <3> QED
        BY <3>2 DEF Found
    <2>7. \A x \in Found' : x \in Found \cup B
      BY <2>4 DEF Found
    <2> QED
      BY <2>1, <2>5, <2>6, <2>7
  <1>12. Offset' = o + PoolPage
    BY <1>1, <1>2 DEF Offset
  <1>13. /\ Cardinality(Found \cup B) + Ahead(Newer, eligible, Found, o)
                = Cardinality(Found) + len + Ahead(Newer, eligible, Found \cup B, o + PoolPage)
         /\ Missed(Newer, eligible, steady, Found \cup B, o + PoolPage) <= Missed(Newer, eligible, steady, Found, o)
         /\ IsFiniteSet(Found \cup B)
    <2> HIDE DEF o, s, len
    <2>1. /\ Cardinality(Found \cup B) + Ahead(Newer, eligible, Found, o)
                 = Cardinality(Found) + Cardinality(B) + Ahead(Newer, eligible, Found \cup B, o + PoolPage)
          /\ Missed(Newer, eligible, steady, Found \cup B, o + PoolPage) <= Missed(Newer, eligible, steady, Found, o)
          /\ IsFiniteSet(Found \cup B)
      BY <1>2, <1>3, <1>9, <1>10, Turns
    <2> QED
      BY <1>9, <2>1
  <1> DEFINE a  == Ahead(Newer, eligible, Found, o)
             a1 == Ahead(Newer, eligible, Found \cup B, o + PoolPage)
             m  == Missed(Newer, eligible, steady, Found, o)
             m1 == Missed(Newer, eligible, steady, Found \cup B, o + PoolPage)
             c  == Cardinality(Found)
             c1 == Cardinality(Found \cup B)
  <1>14. a \in Nat /\ a1 \in Nat /\ m \in Nat /\ m1 \in Nat /\ c1 \in Nat /\ c \in Nat
    BY <1>2, <1>10, <1>13, CountsType, FS_CardinalityType
  <1>15. /\ m + n - pages * PoolPage <= changes /\ m <= changes /\ Len(pool) - c + a <= changes
         /\ changes \in Nat
    BY <1>1 DEF PoolInv
  <1>16. m1 <= changes /\ m1 + n - pages * PoolPage <= changes
    <2>1. pages * PoolPage \in Int
      BY <1>1
    <2> HIDE DEF m, m1, n
    <2> QED
      BY <1>2, <1>13, <1>14, <1>15, <2>1, SMTT(30) DEF m, m1
  <1>17. Len(pool') - c1 + a1 <= changes
    <2>1. c1 + a = c + len + a1
      BY <1>13
    <2>2. len \in Nat /\ Len(pool) \in Nat /\ Len(pool') = Len(pool) + len
      BY <1>5, <1>10, <1>11
    <2>3. Len(pool) - c + a <= changes /\ changes \in Nat
      BY <1>15
    <2> HIDE DEF c, c1, a, a1, len
    <2> QED
      BY <1>14, <2>1, <2>2, <2>3
  <1>18. page' \in Nat \ {0} /\ page' <= pages' + 1
    BY <1>1, <1>2
  <1> QED
    BY <1>1, <1>11, <1>12, <1>16, <1>17, <1>18 DEF PoolInv

LEMMA PoolInsert ==
    ASSUME PoolPage \in Nat \ {0}, PoolPages \in Nat \ {0}, None \notin Int, PoolInv, Pages!Insert
    PROVE  PoolInv'
  <1> DEFINE z == PoolPage * PoolPages + changes + 1
             n == Cardinality(eligible)
             m == Missed(Newer, eligible, steady, Found, Offset)
             m1 == Missed(Newer, eligible \cup {z}, steady, Found, Offset)
             a == Ahead(Newer, eligible, Found, Offset)
             a1 == Ahead(Newer, eligible \cup {z}, Found, Offset)
  <1>1. /\ pages # None /\ eligible' = eligible \cup {z} /\ changes' = changes + 1
        /\ UNCHANGED <<steady, pool, page, pages>>
    BY DEF Pages!Insert, Pages!IsReading
  <1>2. /\ IsFiniteSet(eligible) /\ eligible \subseteq Int /\ steady \subseteq eligible
        /\ page \in Nat \ {0} /\ changes \in Nat /\ pages \in Nat /\ page <= pages + 1
        /\ \A p \in eligible : p <= PoolPage * PoolPages + changes
        /\ m + n - pages * PoolPage <= changes /\ m <= changes
        /\ Len(pool) - Cardinality(Found) + a <= changes
    BY <1>1 DEF PoolInv
  <1>3. PoolPage * PoolPages \in Nat /\ pages * PoolPage \in Nat /\ Offset \in Nat
    <2>1. (page - 1) \in Nat
      BY <1>2
    <2> QED
      BY <1>2, <2>1, Times DEF Offset
  <1>4. z \in Int /\ z \notin eligible /\ \A p \in eligible \cup {z} : p <= PoolPage * PoolPages + (changes + 1)
    <2> DEFINE top == PoolPage * PoolPages
    <2>1. top \in Nat /\ (\A p \in eligible : p <= top + changes) /\ z = top + changes + 1
      BY <1>2, <1>3
    <2> HIDE DEF top, z
    <2>2. z \in Int /\ (\A p \in eligible \cup {z} : p <= top + (changes + 1)) /\ z \notin eligible
      BY <1>2, <2>1
    <2> QED
      BY <2>2 DEF top
  <1>5. IsFiniteSet(eligible \cup {z}) /\ Cardinality(eligible \cup {z}) = n + 1 /\ n \in Nat
    BY <1>2, <1>4, FS_AddElement, FS_CardinalityType
  <1>6. IsOrder(Newer, eligible \cup {z})
    BY <1>2, <1>4, NewerIsOrder
  <1>7. IsFiniteSet(Found) /\ Cardinality(Found) \in Nat /\ Len(pool) \in Nat
    BY FoundType DEF PoolInv
  <1>8. m1 <= m /\ a1 <= a + 1
    <2> HIDE DEF z
    <2> QED
      BY <1>2, <1>3, <1>4, <1>6, <1>7, ReadingEnters
  <1>9. m \in Nat /\ m1 \in Nat /\ a \in Nat /\ a1 \in Nat
    BY <1>2, <1>5, CountsType
  <1>10. Found' = Found /\ Offset' = Offset
    BY <1>1 DEF Found, Offset
  <1>11. /\ m1 + (n + 1) - pages * PoolPage <= changes + 1 /\ m1 <= changes + 1
         /\ Len(pool) - Cardinality(Found) + a1 <= changes + 1
    <2> HIDE DEF m, m1, a, a1, n
    <2> QED
      BY <1>2, <1>3, <1>5, <1>7, <1>8, <1>9
  <1>12. eligible \cup {z} \subseteq Int /\ steady \subseteq eligible \cup {z} /\ pool \in Seq(Int)
    BY <1>2, <1>4 DEF PoolInv
  <1>13. /\ Missed(Newer, eligible, steady, Found, Offset)' = m1 /\ Ahead(Newer, eligible, Found, Offset)' = a1
         /\ Cardinality(eligible)' = n + 1 /\ Cardinality(Found)' = Cardinality(Found)
    BY <1>1, <1>5, <1>10
  <1> HIDE DEF m1, a1, z, n
  <1> QED
    BY <1>1, <1>2, <1>4, <1>5, <1>11, <1>12, <1>13 DEF PoolInv

LEMMA PoolWithdraw ==
    ASSUME PoolPage \in Nat \ {0}, PoolPages \in Nat \ {0}, None \notin Int, PoolInv,
           NEW p \in eligible, Pages!Withdraw(p)
    PROVE  PoolInv'
  <1> DEFINE n == Cardinality(eligible)
             m == Missed(Newer, eligible, steady, Found, Offset)
             m1 == Missed(Newer, eligible \ {p}, steady \ {p}, Found, Offset)
             a == Ahead(Newer, eligible, Found, Offset)
             a1 == Ahead(Newer, eligible \ {p}, Found, Offset)
  <1>1. /\ pages # None /\ eligible' = eligible \ {p} /\ steady' = steady \ {p} /\ changes' = changes + 1
        /\ UNCHANGED <<pool, page, pages>>
    BY DEF Pages!Withdraw, Pages!IsReading
  <1>2. /\ IsFiniteSet(eligible) /\ eligible \subseteq Int /\ steady \subseteq eligible
        /\ page \in Nat \ {0} /\ changes \in Nat /\ pages \in Nat /\ page <= pages + 1
        /\ \A q \in eligible : q <= PoolPage * PoolPages + changes
        /\ m + n - pages * PoolPage <= changes /\ m <= changes
        /\ Len(pool) - Cardinality(Found) + a <= changes
    BY <1>1 DEF PoolInv
  <1>3. PoolPage * PoolPages \in Nat /\ pages * PoolPage \in Nat /\ Offset \in Nat
    <2>1. (page - 1) \in Nat
      BY <1>2
    <2> QED
      BY <1>2, <2>1, Times DEF Offset
  <1>4. \A q \in eligible \ {p} : q <= PoolPage * PoolPages + (changes + 1)
    <2> DEFINE top == PoolPage * PoolPages
    <2>1. top \in Nat /\ (\A q \in eligible : q <= top + changes /\ q \in Int)
      BY <1>2, <1>3
    <2> HIDE DEF top
    <2>2. \A q \in eligible \ {p} : q <= top + (changes + 1)
      BY <1>2, <2>1
    <2> QED
      BY <2>2 DEF top
  <1>5. IsFiniteSet(eligible \ {p}) /\ Cardinality(eligible \ {p}) = n - 1 /\ n \in Nat
    BY <1>2, FS_RemoveElement, FS_CardinalityType
  <1>6. IsOrder(Newer, eligible)
    BY <1>2, NewerIsOrder
  <1>7. IsFiniteSet(Found) /\ Cardinality(Found) \in Nat /\ Len(pool) \in Nat
    BY FoundType DEF PoolInv
  <1>8. m1 <= m + 1 /\ a1 <= a
    BY <1>2, <1>3, <1>6, ReadingLeaves
  <1>9. m \in Nat /\ m1 \in Nat /\ a \in Nat /\ a1 \in Nat
    BY <1>2, <1>5, CountsType
  <1>10. Found' = Found /\ Offset' = Offset
    BY <1>1 DEF Found, Offset
  <1>11. /\ m1 + (n - 1) - pages * PoolPage <= changes + 1 /\ m1 <= changes + 1
         /\ Len(pool) - Cardinality(Found) + a1 <= changes + 1
    <2> HIDE DEF m, m1, a, a1, n
    <2> QED
      BY <1>2, <1>3, <1>5, <1>7, <1>8, <1>9
  <1>12. eligible \ {p} \subseteq Int /\ steady \ {p} \subseteq eligible \ {p} /\ pool \in Seq(Int)
    BY <1>2 DEF PoolInv
  <1>13. /\ Missed(Newer, eligible, steady, Found, Offset)' = m1 /\ Ahead(Newer, eligible, Found, Offset)' = a1
         /\ Cardinality(eligible)' = n - 1 /\ Cardinality(Found)' = Cardinality(Found)
    BY <1>1, <1>5, <1>10
  <1> HIDE DEF m1, a1, n
  <1> QED
    BY <1>1, <1>2, <1>4, <1>5, <1>11, <1>12, <1>13 DEF PoolInv

(* The pool keeps what it has while the feed is browsed. *)
LEMMA PoolRests ==
    ASSUME PoolPage \in Nat \ {0}, PoolPages \in Nat \ {0}, PoolInv,
           UNCHANGED Pages!read, changes' \in Nat, changes' >= changes
    PROVE  PoolInv'
  <1>1. UNCHANGED <<eligible, steady, pool, page, pages>>
    BY DEF Pages!read
  <1>2. Found' = Found /\ Offset' = Offset
    BY <1>1 DEF Found, Offset
  <1>3. PoolPage * PoolPages \in Nat /\ (pages # None => pages * PoolPage \in Nat) /\ changes \in Nat
    BY Times DEF PoolInv
  <1>4. IsFiniteSet(Found) /\ Cardinality(Found) \in Nat /\ Len(pool) \in Nat
    BY FoundType DEF PoolInv
  <1>5. /\ Missed(Newer, eligible, steady, Found, Offset) \in Nat /\ Ahead(Newer, eligible, Found, Offset) \in Nat
        /\ Cardinality(eligible) \in Nat
    BY CountsType, FS_CardinalityType DEF PoolInv
  <1>6. \A p \in eligible : p <= PoolPage * PoolPages + changes'
    <2> SUFFICES ASSUME NEW p \in eligible
                 PROVE  p <= PoolPage * PoolPages + changes'
      OBVIOUS
    <2>1. PoolPage * PoolPages \in Int /\ p <= PoolPage * PoolPages + changes /\ p \in Int
      BY <1>3 DEF PoolInv
    <2>2. changes \in Int /\ changes' \in Int /\ changes <= changes'
      BY <1>3
    <2> QED
      BY <2>1, <2>2, Farther
  <1>7. /\ pages # None =>
              Missed(Newer, eligible, steady, Found, Offset) + Cardinality(eligible) - pages * PoolPage <= changes'
        /\ Missed(Newer, eligible, steady, Found, Offset) <= changes'
        /\ Len(pool) - Cardinality(Found) + Ahead(Newer, eligible, Found, Offset) <= changes'
    <2>1. /\ pages # None =>
                Missed(Newer, eligible, steady, Found, Offset) + Cardinality(eligible) - pages * PoolPage <= changes
          /\ Missed(Newer, eligible, steady, Found, Offset) <= changes
          /\ Len(pool) - Cardinality(Found) + Ahead(Newer, eligible, Found, Offset) <= changes
      BY DEF PoolInv
    <2> QED
      BY <1>3, <1>4, <1>5, <2>1
  <1> QED
    BY <1>1, <1>2, <1>6, <1>7 DEF PoolInv

LEMMA PoolStep ==
    ASSUME PoolPage \in Nat \ {0}, PoolPages \in Nat \ {0}, None \notin Int, PoolInv, [Pages!Next]_(Pages!vars)
    PROVE  PoolInv'
  <1>1. CASE UNCHANGED Pages!vars
    <2>1. UNCHANGED Pages!read /\ changes' = changes /\ changes \in Nat
      BY <1>1 DEF Pages!vars, PoolInv
    <2> QED
      BY <2>1, PoolRests
  <1>2. CASE Pages!BrowseFeed
    <2>1. UNCHANGED Pages!read /\ changes' \in {changes, changes + 1} /\ changes \in Nat
      BY <1>2 DEF Pages!BrowseFeed, Pages!NextPage, Pages!NextPageUnread, Pages!React,
                  Pages!Save, Pages!Unsave, PoolInv
    <2> QED
      BY <2>1, PoolRests
  <1>3. CASE Pages!Count
    BY <1>3, PoolCount
  <1>4. CASE Pages!ReadPage
    BY <1>4, PoolReadPage
  <1>5. CASE Pages!Insert
    BY <1>5, PoolInsert
  <1>6. ASSUME NEW p \in eligible, Pages!Withdraw(p)
        PROVE  PoolInv'
    BY <1>6, PoolWithdraw
  <1> QED
    BY <1>1, <1>2, <1>3, <1>4, <1>5, <1>6 DEF Pages!Next, Pages!GatherPool

(* What PoolLosesOnlyWhatMoved says, of all the pages that are read. *)
LEMMA PoolIsGathered ==
    ASSUME PoolPage \in Nat \ {0}, None \notin Int, PoolInv
    PROVE  Pages!PoolLosesOnlyWhatMoved
  <1> DEFINE n == Cardinality(eligible)
             m == Missed(Newer, eligible, steady, Found, Offset)
             left == Cardinality(steady \ Found)
  <1>1. Pages!Range(pool) = Found
    BY DEF Pages!Range, Found
  <1>2. /\ IsFiniteSet(Found) /\ Cardinality(Found) \in Nat /\ Len(pool) \in Nat /\ changes \in Nat
        /\ Ahead(Newer, eligible, Found, Offset) \in Nat /\ m \in Nat /\ n \in Nat
    BY FoundType, CountsType, FS_CardinalityType DEF PoolInv
  <1>3. Len(pool) - Cardinality(Found) <= changes
    <2>1. Len(pool) - Cardinality(Found) + Ahead(Newer, eligible, Found, Offset) <= changes
      BY DEF PoolInv
    <2> QED
      BY <1>2, <2>1
  <1>4. ASSUME pages # None, ~ Pages!IsReading
        PROVE  left <= changes
    <2>1. /\ pages \in Nat /\ page = pages + 1 /\ m + n - pages * PoolPage <= changes /\ m <= changes
          /\ IsFiniteSet(eligible) /\ eligible \subseteq Int /\ steady \subseteq eligible
      BY <1>4 DEF Pages!IsReading, PoolInv
    <2>2. Offset = pages * PoolPage /\ Offset \in Nat
      BY <2>1, Times DEF Offset
    <2>3. IsOrder(Newer, eligible)
      BY <2>1, NewerIsOrder
    <2>4. left \in Nat /\ left <= m + (IF Offset <= n THEN n - Offset ELSE 0)
      BY <2>1, <2>2, <2>3, ReadingEnds
    <2>5. m + n - Offset <= changes
      BY <2>1, <2>2
    <2> HIDE DEF n, m, left
    <2> QED
      BY <1>2, <2>1, <2>2, <2>4, <2>5
  <1> QED
    BY <1>1, <1>3, <1>4, PagesCardinality DEF Pages!PoolLosesOnlyWhatMoved

-----------------------------------------------------------------------------
(* The wardrobe, read page by page until there are as many items as were      *)
(* counted, while items come, go and change (_load_owner_wardrobe).           *)

ReadsAll(c) == input[c].kind \in {"outfit", "today"}

Chosen(c) == Closet!Selected(c, rows)

IdsRead(c) == {loaded[c][n].id : n \in DOMAIN loaded[c]}

Place(c) == (turn[c] - 1) * input[c].size

(* Between two statements of a reading: what is missed before the place it    *)
(* has come to, and what is read twice, each had a change of its own.         *)
UnderWay(c) ==
    /\ kept[c] \subseteq Chosen(c)
    /\ Missed(Newer, Chosen(c), kept[c], IdsRead(c), Place(c)) <= moved[c]
    /\ Len(loaded[c]) - Cardinality(IdsRead(c)) + Ahead(Newer, Chosen(c), IdsRead(c), Place(c)) <= moved[c]
    /\ Len(loaded[c]) <= Place(c)
    /\ moved[c] = 0 => kept[c] = Chosen(c) /\ IdsRead(c) \subseteq Chosen(c)

(* After a count, so does what was missed with what the count left out.       *)
IsCounted(c) ==
    Missed(Newer, Chosen(c), kept[c], IdsRead(c), Place(c)) + Cardinality(Chosen(c)) - total[c] <= moved[c]

IsRead(c) ==
    /\ Cardinality(kept[c] \ IdsRead(c)) <= moved[c]
    /\ Len(loaded[c]) - Cardinality(IdsRead(c)) <= moved[c]
    /\ moved[c] = 0 => IdsRead(c) = kept[c]

Reading(c) ==
    /\ moved[c] \in Nat /\ turn[c] \in Nat \ {0} /\ total[c] \in Nat
    /\ \E T : loaded[c] \in Seq(T)
    /\ stage[c] = "start" => turn[c] = 1 /\ loaded[c] = <<>> /\ moved[c] = 0
    /\ stage[c] \in {"count", "rows"} => UnderWay(c)
    /\ stage[c] = "rows" => IsCounted(c)
    /\ stage[c] = "derive" => IsRead(c)

RowsInv == /\ made \in Nat /\ IsFiniteSet(DOMAIN rows)
           /\ \A i \in DOMAIN rows : i \in Nat /\ i <= made

ReadInv ==
    /\ RowsInv
    /\ DOMAIN stage = Client /\ DOMAIN turn = Client /\ DOMAIN total = Client
    /\ DOMAIN loaded = Client /\ DOMAIN kept = Client /\ DOMAIN moved = Client
    /\ \A c \in Client : ReadsAll(c) => input[c].size \in Nat \ {0} /\ Reading(c)

SizesArePositive ==
    \A s \in WardrobeScripts : \A c \in Client :
        s[c].kind \in {"outfit", "today"} => s[c].size \in Nat \ {0}

LEMMA ChosenType ==
    ASSUME RowsInv, NEW c
    PROVE  Chosen(c) \subseteq DOMAIN rows /\ Chosen(c) \subseteq Int /\ IsFiniteSet(Chosen(c)) /\ Cardinality(Chosen(c)) \in Nat
  <1>1. Chosen(c) \subseteq DOMAIN rows
    BY DEF Chosen, Closet!Selected
  <1>2. DOMAIN rows \subseteq Int /\ IsFiniteSet(DOMAIN rows)
    BY DEF RowsInv
  <1> QED
    BY <1>1, <1>2, FS_Subset, FS_CardinalityType

LEMMA IdsType ==
    ASSUME NEW c, NEW T, loaded[c] \in Seq(T)
    PROVE  /\ Len(loaded[c]) \in Nat /\ DOMAIN loaded[c] = 1 .. Len(loaded[c])
           /\ IsFiniteSet(IdsRead(c)) /\ Cardinality(IdsRead(c)) \in Nat
           /\ Cardinality(IdsRead(c)) <= Len(loaded[c])
  <1>1. Len(loaded[c]) \in Nat /\ DOMAIN loaded[c] = 1 .. Len(loaded[c])
    OBVIOUS
  <1>2. IsFiniteSet(1 .. Len(loaded[c])) /\ Cardinality(1 .. Len(loaded[c])) = Len(loaded[c])
    BY <1>1, FS_Interval
  <1> DEFINE f == [n \in 1 .. Len(loaded[c]) |-> loaded[c][n].id]
  <1>3. f \in Surjection(1 .. Len(loaded[c]), IdsRead(c))
    BY <1>1 DEF IdsRead, Surjection
  <1>4. IsFiniteSet(IdsRead(c)) /\ Cardinality(IdsRead(c)) <= Cardinality(1 .. Len(loaded[c]))
    BY <1>2, <1>3, FS_Surjection
  <1> QED
    BY <1>1, <1>2, <1>4, FS_CardinalityType

(* A reading that nothing has happened to. *)
LEMMA ReadingRests ==
    ASSUME NEW c, Reading(c), input' = input, Chosen(c)' = Chosen(c),
           stage'[c] = stage[c], turn'[c] = turn[c], total'[c] = total[c], loaded'[c] = loaded[c],
           kept'[c] = kept[c], moved'[c] = moved[c]
    PROVE  Reading(c)'
  <1>1. IdsRead(c)' = IdsRead(c) /\ Place(c)' = Place(c)
    BY DEF IdsRead, Place
  <1> QED
    BY <1>1 DEF Reading, UnderWay, IsCounted, IsRead

(* Another request stores rows that differ in one item. *)
LEMMA ReadingMoves ==
    ASSUME NEW c \in Client, ReadInv, ReadsAll(c), input' = input, NEW i \in Int, NEW items,
           Closet!Selected(c, items) \ {i} = Chosen(c) \ {i}, Closet!Store(items),
           stage'[c] = stage[c], turn'[c] = turn[c], total'[c] = total[c], loaded'[c] = loaded[c]
    PROVE  Reading(c)'
  <1> DEFINE S == Chosen(c)
             S1 == Closet!Selected(c, items)
             o == Place(c)
             m == Missed(Newer, S, kept[c], IdsRead(c), o)
             m1 == Missed(Newer, S1, kept[c] \cap S1, IdsRead(c), o)
             a == Ahead(Newer, S, IdsRead(c), o)
             a1 == Ahead(Newer, S1, IdsRead(c), o)
  <1>1. RowsInv /\ Reading(c) /\ input[c].size \in Nat \ {0}
    BY DEF ReadInv
  <1>2. S \subseteq Int /\ IsFiniteSet(S) /\ Cardinality(S) \in Nat
    BY <1>1, ChosenType
  <1>3. Chosen(c)' = S1
    BY DEF Closet!Store, Chosen, Closet!Selected
  <1>4. IdsRead(c)' = IdsRead(c) /\ Place(c)' = Place(c)
    BY DEF IdsRead, Place
  <1>5. CASE ~ (stage[c] \in {"count", "rows"})
    <2>1. kept'[c] = kept[c] /\ moved'[c] = moved[c]
      BY <1>5 DEF Closet!Store, Closet!At, Closet!Readers, ReadInv
    <2> QED
      BY <1>1, <1>4, <1>5, <2>1 DEF Reading, IsRead
  <1>6. CASE stage[c] \in {"count", "rows"}
    <2>1. /\ kept'[c] = kept[c] \cap S1
          /\ moved'[c] = moved[c] + Cardinality((S \ S1) \cup (S1 \ S))
      BY <1>6, ClosetCardinality DEF Closet!Store, Closet!Readers, Closet!SymDiff, Chosen, ReadsAll
    <2>2. /\ moved[c] \in Nat /\ turn[c] \in Nat \ {0} /\ total[c] \in Nat
          /\ UnderWay(c) /\ (stage[c] = "rows" => IsCounted(c)) /\ stage[c] # "start" /\ stage[c] # "derive"
      BY <1>1, <1>6 DEF Reading
    <2>3. PICK T : loaded[c] \in Seq(T)
      BY <1>1 DEF Reading
    <2>4. IsFiniteSet(IdsRead(c)) /\ Cardinality(IdsRead(c)) \in Nat /\ Len(loaded[c]) \in Nat
      BY <2>3, IdsType
    <2>5. o \in Nat
      BY <1>1, <2>2, Times DEF Place
    <2>6. /\ kept[c] \subseteq S /\ m <= moved[c] /\ Len(loaded[c]) - Cardinality(IdsRead(c)) + a <= moved[c]
          /\ Len(loaded[c]) <= o /\ (moved[c] = 0 => kept[c] = S /\ IdsRead(c) \subseteq S)
      BY <2>2 DEF UnderWay
    <2>7. stage[c] = "rows" => m + Cardinality(S) - total[c] <= moved[c]
      BY <2>2 DEF IsCounted
    <2> DEFINE k == moved'[c] - moved[c]
    <2>8. /\ IsFiniteSet(S1) /\ Cardinality(S1) \in Nat
          /\ k \in Nat /\ moved'[c] = moved[c] + k
          /\ m1 <= m + k /\ a1 <= a + k
          /\ m1 + Cardinality(S1) <= m + Cardinality(S) + k
          /\ k = 0 => S1 = S
      <3>0. m \in Nat /\ a \in Nat
        BY <1>2, CountsType
      <3>1. S1 = S \/ (i \notin S /\ S1 = S \cup {i}) \/ (i \in S /\ S1 = S \ {i})
        OBVIOUS
      <3>2. CASE S1 = S
        <4>1. (S \ S1) \cup (S1 \ S) = {} /\ kept[c] \cap S1 = kept[c]
          BY <2>6, <3>2
        <4>2. k = 0 /\ moved'[c] = moved[c]
          <5>1. Cardinality((S \ S1) \cup (S1 \ S)) = 0
            BY <4>1, FS_EmptySet
          <5> HIDE DEF S, S1
          <5>2. moved'[c] = moved[c] + 0
            BY <2>1, <5>1
          <5> QED
            BY <2>2, <5>2
        <4>3. m1 = m /\ a1 = a
          BY <3>2, <4>1
        <4> HIDE DEF k, m, m1, a, a1, S1, S
        <4> QED
          BY <1>2, <2>2, <3>0, <3>2, <4>2, <4>3
      <3>3. CASE i \notin S /\ S1 = S \cup {i}
        <4>1. (S \ S1) \cup (S1 \ S) = {i} /\ kept[c] \cap S1 = kept[c]
          BY <2>6, <3>3
        <4>2. k = 1 /\ moved'[c] = moved[c] + 1
          <5>1. Cardinality((S \ S1) \cup (S1 \ S)) = 1
            BY <4>1, FS_Singleton
          <5> HIDE DEF S, S1
          <5>2. moved'[c] = moved[c] + 1
            BY <2>1, <5>1
          <5> QED
            BY <2>2, <5>2
        <4>3. IsFiniteSet(S1) /\ Cardinality(S1) = Cardinality(S) + 1
          <5> HIDE DEF S, S1
          <5>1. IsFiniteSet(S \cup {i}) /\ Cardinality(S \cup {i}) = Cardinality(S) + 1
            BY <1>2, <3>3, FS_AddElement
          <5> QED
            BY <3>3, <5>1
        <4>4. IsOrder(Newer, S \cup {i})
          BY <1>2, NewerIsOrder
        <4>5. m1 <= m /\ a1 <= a + 1
          <5>1. /\ Missed(Newer, S \cup {i}, kept[c], IdsRead(c), o) <= m
                /\ Ahead(Newer, S \cup {i}, IdsRead(c), o) <= a + 1
            <6> HIDE DEF S, o, S1
            <6> QED
              BY <1>2, <2>4, <2>5, <2>6, <3>3, <4>4, ReadingEnters
          <5> QED
            BY <3>3, <4>1, <5>1
        <4>6. m1 \in Nat /\ a1 \in Nat
          BY <4>3, CountsType
        <4> HIDE DEF k, m, m1, a, a1, S1, S
        <4> QED
          BY <1>2, <2>2, <3>0, <4>2, <4>3, <4>5, <4>6
      <3>4. CASE i \in S /\ S1 = S \ {i}
        <4>1. (S \ S1) \cup (S1 \ S) = {i} /\ kept[c] \cap S1 = kept[c] \ {i}
          BY <2>6, <3>4
        <4>2. k = 1 /\ moved'[c] = moved[c] + 1
          <5>1. Cardinality((S \ S1) \cup (S1 \ S)) = 1
            BY <4>1, FS_Singleton
          <5> HIDE DEF S, S1
          <5>2. moved'[c] = moved[c] + 1
            BY <2>1, <5>1
          <5> QED
            BY <2>2, <5>2
        <4>3. IsFiniteSet(S1) /\ Cardinality(S1) = Cardinality(S) - 1 /\ Cardinality(S1) \in Nat
          <5> HIDE DEF S, S1
          <5>1. IsFiniteSet(S \ {i}) /\ Cardinality(S \ {i}) = Cardinality(S) - 1
            BY <1>2, <3>4, FS_RemoveElement
          <5>2. Cardinality(S \ {i}) \in Nat
            BY <5>1, FS_CardinalityType
          <5> QED
            BY <3>4, <5>1, <5>2
        <4>4. IsOrder(Newer, S)
          BY <1>2, NewerIsOrder
        <4>5. m1 <= m + 1 /\ a1 <= a
          <5>1. /\ Missed(Newer, S \ {i}, kept[c] \ {i}, IdsRead(c), o) <= m + 1
                /\ Ahead(Newer, S \ {i}, IdsRead(c), o) <= a
            <6> HIDE DEF S, o, S1
            <6> QED
              BY <1>2, <2>5, <3>4, <4>4, ReadingLeaves
          <5> QED
            BY <3>4, <4>1, <5>1
        <4>6. m1 \in Nat /\ a1 \in Nat
          BY <4>3, CountsType
        <4> HIDE DEF k, m, m1, a, a1, S1, S
        <4> QED
          BY <1>2, <2>2, <3>0, <4>2, <4>3, <4>5, <4>6
      <3> QED
        BY <3>1, <3>2, <3>3, <3>4
    <2>9. m \in Nat /\ m1 \in Nat /\ a \in Nat /\ a1 \in Nat
      BY <1>2, <2>8, CountsType
    <2>10. /\ moved'[c] \in Nat /\ m1 <= moved'[c]
           /\ Len(loaded[c]) - Cardinality(IdsRead(c)) + a1 <= moved'[c]
           /\ (stage[c] = "rows" => m1 + Cardinality(S1) - total[c] <= moved'[c])
           /\ (moved'[c] = 0 => moved[c] = 0 /\ S1 = S)
      <3> HIDE DEF k, m, m1, a, a1, S1, S, o
      <3>1. moved[c] \in Nat /\ total[c] \in Nat /\ k \in Nat /\ moved'[c] = moved[c] + k
        BY <2>2, <2>8
      <3>2. moved'[c] \in Nat /\ (moved'[c] = 0 => moved[c] = 0 /\ S1 = S)
        BY <2>8, <3>1
      <3>3. m1 <= moved'[c]
        BY <2>6, <2>8, <2>9, <3>1
      <3>4. Len(loaded[c]) - Cardinality(IdsRead(c)) + a1 <= moved'[c]
        <4> DEFINE x == Len(loaded[c])
                   d == Cardinality(IdsRead(c))
                   u == moved[c]
                   v == moved'[c]
        <4>1. x \in Nat /\ d \in Nat /\ u \in Nat /\ v = u + k
          BY <2>4, <3>1
        <4>2. x - d + a <= u
          BY <2>6
        <4>3. a1 <= a + k /\ k \in Nat
          BY <2>8
        <4>4. a \in Nat /\ a1 \in Nat
          BY <2>9
        <4> HIDE DEF x, d, u, v
        <4>5. x - d + a1 <= v
          BY <4>1, <4>2, <4>3, <4>4
        <4> QED
          BY <4>5 DEF x, d, v
      <3>5. stage[c] = "rows" => m1 + Cardinality(S1) - total[c] <= moved'[c]
        BY <1>2, <2>7, <2>8, <2>9, <3>1
      <3> QED
        BY <3>2, <3>3, <3>4, <3>5
    <2>11. kept'[c] \subseteq S1 /\ (moved'[c] = 0 => kept'[c] = S1 /\ IdsRead(c) \subseteq S1)
      BY <2>1, <2>6, <2>10
    <2>12. /\ Missed(Newer, Chosen(c), kept[c], IdsRead(c), Place(c))' = m1
           /\ Ahead(Newer, Chosen(c), IdsRead(c), Place(c))' = a1
      BY <1>3, <1>4, <2>1
    <2>13. UnderWay(c)'
      BY <1>3, <1>4, <2>6, <2>10, <2>11, <2>12 DEF UnderWay
    <2>14. stage[c] = "rows" => IsCounted(c)'
      BY <1>3, <2>10, <2>12 DEF IsCounted
    <2> QED
      BY <2>2, <2>3, <2>10, <2>13, <2>14 DEF Reading
  <1> QED
    BY <1>5, <1>6

LEMMA Advance ==
    ASSUME NEW t \in Nat \ {0}, NEW size \in Nat, NEW u, u = t + 1, NEW z, z = size
    PROVE  (u - 1) * z = (t - 1) * size + size
  OBVIOUS

LEMMA FilledFits ==
    ASSUME NEW S, Cardinality(S) \in Nat, NEW o \in Nat, NEW size \in Nat
    PROVE  LET f == Filled(S, o, size)
           IN  f <= size /\ (f < size => Cardinality(S) <= o + f) /\ (f = 0 => Cardinality(S) <= o \/ size = 0)
  BY DEF Filled

LEMMA ReadInit ==
    ASSUME NEW Row, ClosetStock \in Seq(Row), SizesArePositive, Closet!Init
    PROVE  ReadInv
  <1>1. DOMAIN ClosetStock = 1 .. Len(ClosetStock) /\ Len(ClosetStock) \in Nat
    OBVIOUS
  <1>2. IsFiniteSet(1 .. Len(ClosetStock)) /\ Cardinality(1 .. Len(ClosetStock)) = Len(ClosetStock)
    BY <1>1, FS_Interval
  <1>3. RowsInv
    BY <1>1, <1>2, ClosetCardinality DEF Closet!Init, RowsInv
  <1>4. /\ DOMAIN stage = Client /\ DOMAIN turn = Client /\ DOMAIN total = Client
        /\ DOMAIN loaded = Client /\ DOMAIN kept = Client /\ DOMAIN moved = Client
        /\ \A c \in Client : stage[c] = "start" /\ turn[c] = 1 /\ total[c] = 0 /\ loaded[c] = <<>> /\ moved[c] = 0
        /\ input \in WardrobeScripts
    BY DEF Closet!Init
  <1>5. <<>> \in Seq({})
    OBVIOUS
  <1>6. ASSUME NEW c \in Client
        PROVE  Reading(c)
    <2>1. \E T : loaded[c] \in Seq(T)
      BY <1>4, <1>5
    <2>2. moved[c] \in Nat /\ turn[c] \in Nat \ {0} /\ total[c] \in Nat /\ stage[c] = "start"
      BY <1>4
    <2> QED
      BY <1>4, <2>1, <2>2 DEF Reading
  <1> QED
    BY <1>3, <1>4, <1>6 DEF ReadInv, SizesArePositive, ReadsAll

LEMMA ReadingCounts ==
    ASSUME NEW c \in Client, ReadInv, ReadsAll(c), Closet!CountItems(c)
    PROVE  Reading(c)'
  <1>1. RowsInv /\ Reading(c) /\ input[c].size \in Nat \ {0}
    BY DEF ReadInv
  <1>2. /\ rows' = rows /\ input' = input /\ loaded' = loaded /\ moved' = moved
        /\ stage'[c] = "rows" /\ turn' = turn /\ total'[c] = Cardinality(Chosen(c))
        /\ \/ stage[c] = "start" /\ kept'[c] = Chosen(c)
           \/ stage[c] = "count" /\ kept'[c] = kept[c]
    BY ClosetCardinality DEF Closet!CountItems, Closet!At, Closet!Goto, ReadInv, Chosen, ReadsAll
  <1>3. Chosen(c)' = Chosen(c) /\ IdsRead(c)' = IdsRead(c) /\ Place(c)' = Place(c)
    BY <1>2 DEF Chosen, Closet!Selected, IdsRead, Place
  <1>4. Chosen(c) \subseteq Int /\ IsFiniteSet(Chosen(c)) /\ Cardinality(Chosen(c)) \in Nat
    BY <1>1, ChosenType
  <1>5. UnderWay(c)'
    <2>1. CASE stage[c] = "start"
      <3>1. turn[c] = 1 /\ loaded[c] = <<>> /\ moved[c] = 0 /\ kept'[c] = Chosen(c)
        BY <1>1, <1>2, <2>1 DEF Reading
      <3>2. Place(c) = 0 /\ IdsRead(c) = {} /\ Len(loaded[c]) = 0
        BY <1>1, <3>1 DEF Place, IdsRead
      <3>3. Top(Newer, Chosen(c), 0) = {}
        <4>1. \A x \in Chosen(c) : Rank(Newer, Chosen(c), x) \in Nat
          BY <1>4, RankType
        <4> QED
          BY <4>1 DEF Top
      <3>4. /\ Missed(Newer, Chosen(c), Chosen(c), IdsRead(c), Place(c)) = 0
            /\ Ahead(Newer, Chosen(c), IdsRead(c), Place(c)) = 0 /\ Cardinality(IdsRead(c)) = 0
        BY <3>2, <3>3, FS_EmptySet DEF Missed, Ahead
      <3> QED
        BY <1>2, <1>3, <3>1, <3>2, <3>4 DEF UnderWay
    <2>2. CASE stage[c] = "count"
      <3>1. UnderWay(c) /\ kept'[c] = kept[c]
        BY <1>1, <1>2, <2>2 DEF Reading
      <3> QED
        BY <1>2, <1>3, <3>1 DEF UnderWay
    <2> QED
      BY <1>2, <2>1, <2>2
  <1>6. IsCounted(c)'
    <2> DEFINE m == Missed(Newer, Chosen(c), kept[c], IdsRead(c), Place(c))'
    <2>1. m <= moved[c] /\ moved[c] \in Nat
      BY <1>1, <1>2, <1>5 DEF UnderWay, Reading
    <2>2. m \in Nat
      BY <1>3, <1>4, CountsType
    <2>3. Cardinality(Chosen(c))' = Cardinality(Chosen(c)) /\ total'[c] = Cardinality(Chosen(c))
      BY <1>2, <1>3
    <2> HIDE DEF m
    <2>4. m + Cardinality(Chosen(c)) - Cardinality(Chosen(c)) <= moved[c]
      BY <1>4, <2>1, <2>2
    <2> QED
      BY <1>2, <2>3, <2>4 DEF IsCounted, m
  <1>7. \E T : loaded'[c] \in Seq(T)
    BY <1>1, <1>2 DEF Reading
  <1>8. moved'[c] \in Nat /\ turn'[c] \in Nat \ {0} /\ total'[c] \in Nat
    BY <1>1, <1>2, <1>4 DEF Reading
  <1> QED
    BY <1>2, <1>5, <1>6, <1>7, <1>8 DEF Reading

(* What a batch is: the items of the page. *)
LEMMA BatchIsPage ==
    ASSUME NEW c \in Client, ReadInv, ReadsAll(c), Place(c) \in Nat
    PROVE  LET f == Filled(Chosen(c), Place(c), input[c].size)
               B == Page(Newer, Chosen(c), Place(c), input[c].size)
               b == Closet!Batch(c)
           IN  /\ f \in Nat /\ DOMAIN b = 1 .. f /\ Cardinality(B) = f /\ IsFiniteSet(B)
               /\ {b[n].id : n \in 1 .. f} = B
               /\ \E T : b \in [1 .. f -> T]
  <1> DEFINE S == Chosen(c)
             o == Place(c)
             m == input[c].size
             f == Filled(S, o, m)
             B == Page(Newer, S, o, m)
             b == Closet!Batch(c)
             ids == Closet!Newest(S)
             s == [n \in 1 .. f |-> ids[o + n]]
  <1>1. m \in Nat \ {0} /\ S \subseteq Int /\ IsFiniteSet(S) /\ Cardinality(S) \in Nat
    BY ChosenType DEF ReadInv
  <1>2. ids = [k \in 1 .. Cardinality(S) |-> CHOOSE x \in S : Cardinality({y \in S : y > x}) = k - 1]
    BY DEF Closet!Newest, Closet!Cardinality, Cardinality
  <1>3. Len(ids) = Cardinality(S)
    <2> HIDE DEF S
    <2> QED
      BY <1>1, <1>2
  <1>4. \A k \in 1 .. Cardinality(S) : ids[k] = CHOOSE x \in S : Rank(Newer, S, x) = k - 1
    <2>1. \A x \in S : Rank(Newer, S, x) = Cardinality({y \in S : y > x})
      BY <1>1, NewerIsOrder DEF Rank
    <2> HIDE DEF S
    <2> QED
      BY <1>2, <2>1
  <1>5. b = [n \in 1 .. f |-> [id |-> ids[o + n], row |-> rows[ids[o + n]]]]
    BY <1>3 DEF Closet!Batch, Closet!Skipped, Place, Chosen, Filled
  <1>6. f \in Nat /\ \A k \in 1 .. f : o + k \in 1 .. Cardinality(S) /\ (o + k) - 1 = o + k - 1
    BY <1>1 DEF Filled
  <1>7. \A k \in 1 .. f : s[k] = CHOOSE x \in S : Rank(Newer, S, x) = o + k - 1
    <2> HIDE DEF S, o, f, ids
    <2> QED
      BY <1>4, <1>6
  <1>8. IsOrder(Newer, S)
    BY <1>1, NewerIsOrder
  <1>9. {s[k] : k \in 1 .. f} = B /\ Cardinality(B) = f /\ IsFiniteSet(B)
    <2>1. o \in Nat /\ m \in Nat
      BY <1>1
    <2> HIDE DEF S, o, m, s
    <2> QED
      BY <1>1, <1>7, <1>8, <2>1, PageIsRead
  <1>10. \A n \in 1 .. f : b[n].id = s[n]
    <2> HIDE DEF S, o, f, ids
    <2> QED
      BY <1>5
  <1>11. {b[n].id : n \in 1 .. f} = B
    <2> HIDE DEF b, f, s
    <2> QED
      BY <1>9, <1>10
  <1>12. DOMAIN b = 1 .. f /\ b \in [1 .. f -> {b[n] : n \in 1 .. f}]
    <2>1. b = [n \in 1 .. f |-> b[n]]
      BY <1>5
    <2> HIDE DEF b, f
    <2> QED
      BY <2>1
  <1> QED
    BY <1>6, <1>9, <1>11, <1>12

LEMMA ReadingReads ==
    ASSUME NEW c \in Client, ReadInv, ReadsAll(c), Closet!ReadItems(c)
    PROVE  Reading(c)'
  <1> DEFINE S == Chosen(c)
             o == Place(c)
             size == input[c].size
             f == Filled(S, o, size)
             B == Page(Newer, S, o, size)
             b == Closet!Batch(c)
             len == Len(loaded[c])
             R == IdsRead(c)
             R1 == R \cup B
             m == Missed(Newer, S, kept[c], R, o)
             m1 == Missed(Newer, S, kept[c], R1, o + size)
             a == Ahead(Newer, S, R, o)
             a1 == Ahead(Newer, S, R1, o + size)
             n == Cardinality(S)
             d == Cardinality(R)
             d1 == Cardinality(R1)
  <1>1. RowsInv /\ Reading(c) /\ size \in Nat \ {0} /\ stage[c] = "rows"
    BY DEF ReadInv, Closet!ReadItems, Closet!At
  <1>2. /\ rows' = rows /\ input' = input /\ total' = total /\ kept' = kept /\ moved' = moved
        /\ loaded'[c] = loaded[c] \o b
        /\ \/ /\ Len(loaded'[c]) >= total[c] \/ b = <<>>
              /\ stage'[c] = "derive" /\ turn'[c] = turn[c]
           \/ /\ ~ (Len(loaded'[c]) >= total[c])
              /\ stage'[c] = "count" /\ turn'[c] = turn[c] + 1
    BY DEF Closet!ReadItems, Closet!At, Closet!Goto, ReadsAll, ReadInv
  <1>3. /\ moved[c] \in Nat /\ turn[c] \in Nat \ {0} /\ total[c] \in Nat /\ UnderWay(c) /\ IsCounted(c)
    BY <1>1 DEF Reading
  <1>4. S \subseteq Int /\ IsFiniteSet(S) /\ n \in Nat /\ IsOrder(Newer, S)
    BY <1>1, ChosenType, NewerIsOrder
  <1>5. o \in Nat /\ size \in Nat
    BY <1>1, <1>3, Times DEF Place
  <1>6. /\ f \in Nat /\ DOMAIN b = 1 .. f /\ Cardinality(B) = f /\ IsFiniteSet(B)
        /\ {b[k].id : k \in 1 .. f} = B
        /\ \E T : b \in [1 .. f -> T]
    BY <1>5, BatchIsPage
  <1>7. PICK T : loaded[c] \in Seq(T)
    BY <1>1 DEF Reading
  <1>8. PICK U : b \in [1 .. f -> U]
    BY <1>6
  <1>9. IsFiniteSet(R) /\ d \in Nat /\ len \in Nat /\ DOMAIN loaded[c] = 1 .. len /\ d <= len
    BY <1>7, IdsType
  <1>10. /\ loaded'[c] \in Seq(T \cup U) /\ Len(loaded'[c]) = len + f
         /\ \A k \in 1 .. len : loaded'[c][k] = loaded[c][k]
         /\ \A k \in 1 .. f : loaded'[c][len + k] = b[k]
    <2>1. b \in Seq(U) /\ Len(b) = f
      <3> HIDE DEF b, f
      <3> QED
        BY <1>6, <1>8
    <2>2. loaded[c] \in Seq(T \cup U) /\ b \in Seq(T \cup U)
      <3> HIDE DEF b
      <3> QED
        BY <1>7, <2>1
    <2> HIDE DEF b, f
    <2>3. loaded'[c] \in Seq(T \cup U) /\ Len(loaded'[c]) = len + f
      BY <1>2, <2>1, <2>2, ConcatProperties, ZenonT(30)
    <2>4. \A k \in 1 .. len : loaded'[c][k] = loaded[c][k]
      BY <1>2, <2>1, <2>2
    <2>5. \A k \in 1 .. f : loaded'[c][len + k] = b[k]
      <3> HIDE DEF len
      <3> QED
        BY <1>2, <1>6, <1>9, <2>1, <2>2 DEF len
    <2> QED
      BY <2>3, <2>4, <2>5
  <1>11. IdsRead(c)' = R1
    <2>1. DOMAIN loaded'[c] = 1 .. len + f
      <3> HIDE DEF f
      <3> QED
        BY <1>10
    <2>2. ASSUME NEW k \in DOMAIN loaded'[c]
          PROVE  loaded'[c][k].id \in R1
      <3>1. k \in 1 .. len \/ (k - len \in 1 .. f /\ k = len + (k - len))
        <4> HIDE DEF f, len
        <4> QED
          BY <1>6, <1>9, <2>1
      <3>2. CASE k \in 1 .. len
        BY <1>9, <1>10, <3>2 DEF IdsRead
      <3>3. CASE k - len \in 1 .. f /\ k = len + (k - len)
        <4> HIDE DEF f, b, B, len
        <4>1. loaded'[c][k] = b[k - len]
          BY <1>10, <3>3
        <4>2. b[k - len].id \in B
          BY <1>6, <3>3
        <4> QED
          BY <4>1, <4>2
      <3> QED
        BY <3>1, <3>2, <3>3
    <2>3. ASSUME NEW x \in R
          PROVE  \E k \in DOMAIN loaded'[c] : loaded'[c][k].id = x
      <3>1. PICK k \in 1 .. len : loaded[c][k].id = x
        BY <1>9 DEF IdsRead
      <3>2. k \in 1 .. len + f
        <4> HIDE DEF len, f
        <4> QED
          BY <1>6, <1>9, <3>1
      <3> QED
        BY <1>10, <2>1, <3>1, <3>2
    <2>4. ASSUME NEW x \in B
          PROVE  \E k \in DOMAIN loaded'[c] : loaded'[c][k].id = x
      <3>1. PICK k \in 1 .. f : b[k].id = x
        <4> HIDE DEF b, f, B
        <4> QED
          BY <1>6
      <3>2. len + k \in 1 .. len + f
        <4> HIDE DEF len, f
        <4> QED
          BY <1>6, <1>9, <3>1
      <3> HIDE DEF b, f, len
      <3>3. loaded'[c][len + k].id = x
        BY <1>10, <3>1
      <3> QED
        BY <2>1, <3>2, <3>3
    <2>5. IdsRead(c)' = {loaded'[c][k].id : k \in DOMAIN loaded'[c]}
      BY DEF IdsRead
    <2> HIDE DEF B, R
    <2> QED
      BY <2>2, <2>3, <2>4, <2>5
  <1>12. Chosen(c)' = S
    BY <1>2 DEF Chosen, Closet!Selected
  <1>13. /\ IsFiniteSet(R1) /\ d1 + a = d + f + a1 /\ m1 <= m
    <2>1. /\ IsFiniteSet(R1) /\ d1 + a = d + Cardinality(B) + a1 /\ m1 <= m
      <3>1. IsFiniteSet(R) /\ IsFiniteSet(S) /\ IsOrder(Newer, S) /\ o \in Nat /\ size \in Nat
            /\ IsFiniteSet(Page(Newer, S, o, size))
        BY <1>4, <1>5, <1>6, <1>9
      <3> HIDE DEF S, o, R, size
      <3> QED
        BY <3>1, Turns
    <2> HIDE DEF d1, a, d, B, f, a1, m1, m, R1
    <2> QED
      BY <1>6, <2>1
  <1>14. m \in Nat /\ m1 \in Nat /\ a \in Nat /\ a1 \in Nat /\ d1 \in Nat
    BY <1>4, <1>13, CountsType, FS_CardinalityType
  <1>15. /\ kept[c] \subseteq S /\ m <= moved[c] /\ len - d + a <= moved[c] /\ len <= o
         /\ m + n - total[c] <= moved[c]
         /\ (moved[c] = 0 => kept[c] = S /\ R \subseteq S)
    BY <1>3 DEF UnderWay, IsCounted
  <1>16. m1 <= moved[c] /\ (len + f) - d1 + a1 <= moved[c] /\ (len + f) - d1 <= moved[c]
    <2> HIDE DEF m, m1, a, a1, d, d1, len, f
    <2>1. m1 <= moved[c]
      BY <1>3, <1>13, <1>14, <1>15
    <2>2. (len + f) - d1 + a1 <= moved[c]
      BY <1>3, <1>6, <1>9, <1>13, <1>14, <1>15
    <2> QED
      BY <1>3, <1>6, <1>9, <1>14, <2>1, <2>2
  <1>17. B \subseteq S /\ (moved[c] = 0 => R1 \subseteq S)
    BY <1>15 DEF Page, Top
  <1>18. f <= size /\ (f < size => n <= o + f)
    <2>1. Cardinality(S) \in Nat /\ o \in Nat /\ size \in Nat
      BY <1>4, <1>5
    <2> HIDE DEF o, size, S
    <2> QED
      BY <2>1, FilledFits
  <1>19. CASE stage'[c] = "derive"
    <2> DEFINE left == Cardinality(kept[c] \ R1)
    <2>1. /\ IsFiniteSet(kept[c] \ R1) /\ left \in Nat
          /\ left <= m1 + (IF o + size <= n THEN n - (o + size) ELSE 0)
      <3>1. o + size \in Nat
        BY <1>5
      <3> HIDE DEF S, o, size, R1
      <3> QED
        BY <1>4, <1>15, <3>1, ReadingEnds DEF n, left, m1
    <2>2. len + f >= total[c] \/ f = 0
      <3>1. b = <<>> => f = 0
        <4> HIDE DEF b, f
        <4> QED
          BY <1>6
      <3> QED
        BY <1>2, <1>10, <1>19, <3>1
    <2>3. left <= moved[c]
      <3> HIDE DEF left, m, m1, n, o, size, f, len
      <3>1. CASE n <= o + size
        <4>1. left <= m1
          BY <1>4, <1>5, <1>14, <2>1, <3>1
        <4> QED
          BY <1>3, <1>14, <1>16, <2>1, <4>1
      <3>2. CASE n > o + size
        <4>1. f = size /\ f # 0
          BY <1>1, <1>4, <1>5, <1>6, <1>18, <3>2
        <4>2. o + size >= total[c]
          BY <1>3, <1>5, <1>6, <1>9, <1>15, <2>2, <4>1
        <4>3. left <= m1 + (n - (o + size))
          BY <1>4, <1>5, <2>1, <3>2
        <4> QED
          BY <1>3, <1>4, <1>5, <1>13, <1>14, <1>15, <2>1, <4>2, <4>3
      <3> QED
        BY <1>4, <1>5, <3>1, <3>2
    <2>4. moved[c] = 0 => R1 = kept[c]
      <3> SUFFICES ASSUME moved[c] = 0
                   PROVE  R1 = kept[c]
        OBVIOUS
      <3>1. left = 0
        <4> HIDE DEF left
        <4> QED
          BY <2>1, <2>3
      <3>2. kept[c] \ R1 = {}
        BY <2>1, <3>1, FS_EmptySet
      <3> HIDE DEF R1, S
      <3> QED
        BY <1>15, <1>17, <3>2
    <2>5. IsRead(c)'
      <3> HIDE DEF R1, d1, len, f
      <3> QED
        BY <1>2, <1>10, <1>11, <1>16, <2>3, <2>4 DEF IsRead, d1
    <2>6. \E V : loaded'[c] \in Seq(V)
      BY <1>10
    <2> QED
      BY <1>2, <1>3, <1>19, <2>5, <2>6 DEF Reading
  <1>20. CASE stage'[c] = "count" /\ turn'[c] = turn[c] + 1
    <2>1. Place(c)' = o + size
      <3>1. Place(c)' = (turn'[c] - 1) * input'[c].size
        BY DEF Place
      <3>2. turn'[c] = turn[c] + 1 /\ input'[c].size = size
        BY <1>2, <1>20
      <3>3. (turn'[c] - 1) * input'[c].size = (turn[c] - 1) * size + size
        <4> HIDE DEF size
        <4> QED
          BY <1>3, <1>5, <3>2, Advance
      <3>4. o = (turn[c] - 1) * size
        BY DEF Place
      <3> HIDE DEF o
      <3> QED
        BY <3>1, <3>3, <3>4
    <2>2. len + f <= o + size
      <3> HIDE DEF len, f, o, size
      <3> QED
        BY <1>5, <1>6, <1>9, <1>15, <1>18
    <2>3. /\ Missed(Newer, Chosen(c), kept[c], IdsRead(c), Place(c))' = m1
          /\ Ahead(Newer, Chosen(c), IdsRead(c), Place(c))' = a1
          /\ Cardinality(IdsRead(c))' = d1 /\ Len(loaded[c])' = len + f
      BY <1>2, <1>10, <1>11, <1>12, <2>1
    <2>4. UnderWay(c)'
      <3>1. kept'[c] = kept[c] /\ moved'[c] = moved[c]
        BY <1>2
      <3> HIDE DEF S, R, R1, o, size, f, len, m1, a1, d1
      <3> QED
        BY <1>11, <1>12, <1>15, <1>16, <1>17, <2>1, <2>2, <2>3, <3>1 DEF UnderWay
    <2>5. \E V : loaded'[c] \in Seq(V)
      BY <1>10
    <2>6. turn'[c] \in Nat \ {0} /\ moved'[c] \in Nat /\ total'[c] \in Nat
      BY <1>2, <1>3, <1>20
    <2> QED
      BY <1>20, <2>4, <2>5, <2>6 DEF Reading
  <1> QED
    BY <1>2, <1>19, <1>20

(* A step of one request that stores rows is a change of one item to those    *)
(* that are reading ...                                                       *)
LEMMA OthersStore ==
    ASSUME ReadInv, NEW r \in Client, ~ ReadsAll(r), NEW i \in Int, NEW items, Closet!Store(items),
           \A j : j # i => (j \in DOMAIN items <=> j \in DOMAIN rows) /\ (j \in DOMAIN rows => items[j] = rows[j]),
           RowsInv', input' = input, turn' = turn, total' = total,
           DOMAIN stage' = Client, DOMAIN loaded' = Client,
           \A c \in Client \ {r} : stage'[c] = stage[c] /\ loaded'[c] = loaded[c]
    PROVE  ReadInv'
  <1>1. \A c : Closet!Selected(c, items) \ {i} = Chosen(c) \ {i}
    BY DEF Chosen, Closet!Selected
  <1>2. ASSUME NEW c \in Client, ReadsAll(c)
        PROVE  Reading(c)'
    <2>1. c # r
      BY <1>2
    <2> QED
      BY <1>1, <1>2, <2>1, ReadingMoves
  <1>3. DOMAIN kept' = Client /\ DOMAIN moved' = Client
    BY DEF Closet!Store
  <1>4. DOMAIN turn' = Client /\ DOMAIN total' = Client
    BY DEF ReadInv
  <1>5. \A c \in Client : ReadsAll(c)' => ReadsAll(c) /\ input'[c].size \in Nat \ {0}
    BY DEF ReadInv, ReadsAll
  <1> QED
    BY <1>2, <1>3, <1>4, <1>5 DEF ReadInv

(* ... and one that stores none is nothing to them. *)
LEMMA OthersRest ==
    ASSUME ReadInv, NEW r \in Client, ReadsAll(r) => Reading(r)',
           input' = input, rows' = rows, made' = made,
           DOMAIN stage' = Client, DOMAIN turn' = Client, DOMAIN total' = Client,
           DOMAIN loaded' = Client, DOMAIN kept' = Client, DOMAIN moved' = Client,
           \A c \in Client \ {r} :
               /\ stage'[c] = stage[c] /\ turn'[c] = turn[c] /\ total'[c] = total[c]
               /\ loaded'[c] = loaded[c] /\ kept'[c] = kept[c] /\ moved'[c] = moved[c]
    PROVE  ReadInv'
  <1>1. RowsInv'
    BY DEF ReadInv, RowsInv
  <1>2. \A c : Chosen(c)' = Chosen(c)
    BY DEF Chosen, Closet!Selected
  <1>3. ASSUME NEW c \in Client, ReadsAll(c)
        PROVE  Reading(c)'
    <2>1. Reading(c)
      BY <1>3 DEF ReadInv
    <2>2. CASE c # r
      BY <1>2, <2>1, <2>2, ReadingRests
    <2> QED
      BY <1>3, <2>2
  <1>4. \A c \in Client : ReadsAll(c)' => ReadsAll(c) /\ input'[c].size \in Nat \ {0}
    BY DEF ReadInv, ReadsAll
  <1> QED
    BY <1>1, <1>3, <1>4 DEF ReadInv

LEMMA ReadStep ==
    ASSUME ReadInv, [Closet!Next]_(Closet!vars)
    PROVE  ReadInv'
  <1> USE DEF Closet!At, Closet!Goto, Closet!Reply, Closet!KeepRows
  <1>0. /\ DOMAIN stage = Client /\ DOMAIN turn = Client /\ DOMAIN total = Client
        /\ DOMAIN loaded = Client /\ DOMAIN kept = Client /\ DOMAIN moved = Client
        /\ made \in Nat /\ IsFiniteSet(DOMAIN rows) /\ \A i \in DOMAIN rows : i \in Nat /\ i <= made
    BY DEF ReadInv, RowsInv
  <1>1. CASE UNCHANGED Closet!vars
    <2>1. /\ input' = input /\ rows' = rows /\ made' = made /\ stage' = stage /\ turn' = turn
          /\ total' = total /\ loaded' = loaded /\ kept' = kept /\ moved' = moved
      BY <1>1 DEF Closet!vars
    <2>2. \A c : Chosen(c)' = Chosen(c)
      BY <2>1 DEF Chosen, Closet!Selected
    <2>3. \A c \in Client : ReadsAll(c)' => ReadsAll(c) /\ input'[c].size \in Nat \ {0}
      BY <2>1 DEF ReadInv, ReadsAll
    <2>4. \A c \in Client : ReadsAll(c) => Reading(c)
      BY DEF ReadInv
    <2>5. \A c \in Client : ReadsAll(c) => Reading(c)'
      BY <2>1, <2>2, <2>4, ReadingRests
    <2>6. RowsInv'
      BY <1>0, <2>1 DEF RowsInv
    <2> QED
      BY <1>0, <2>1, <2>3, <2>5, <2>6 DEF ReadInv
  <1>2. ASSUME NEW r \in Client, Closet!Add(r) \/ Closet!Write(r) \/ Closet!Delete(r)
        PROVE  ReadInv'
    <2>1. /\ ~ ReadsAll(r) /\ input' = input /\ turn' = turn /\ total' = total
          /\ DOMAIN stage' = Client /\ DOMAIN loaded' = Client
          /\ \A c \in Client \ {r} : stage'[c] = stage[c] /\ loaded'[c] = loaded[c]
      BY <1>0, <1>2 DEF Closet!Add, Closet!Write, Closet!Delete, ReadsAll
    <2>2. CASE UNCHANGED <<rows, made, kept, moved>>
      BY <1>0, <2>1, <2>2, OthersRest
    <2>3. CASE /\ Closet!Add(r) /\ made' = made + 1
               /\ Closet!Store([i \in DOMAIN rows \cup {made'} |-> IF i = made' THEN input[r].item ELSE rows[i]])
      <3> DEFINE items == [i \in DOMAIN rows \cup {made'} |-> IF i = made' THEN input[r].item ELSE rows[i]]
      <3>1. rows' = items /\ DOMAIN items = DOMAIN rows \cup {made'} /\ made' \in Int
        BY <1>0, <2>3 DEF Closet!Store
      <3>2. IsFiniteSet(DOMAIN rows \cup {made'})
        BY <1>0, FS_AddElement
      <3>3. RowsInv'
        BY <1>0, <2>3, <3>1, <3>2 DEF RowsInv
      <3>4. \A j : j # made' => (j \in DOMAIN items <=> j \in DOMAIN rows) /\ (j \in DOMAIN rows => items[j] = rows[j])
        OBVIOUS
      <3>5. Closet!Store(items)
        BY <2>3
      <3> HIDE DEF items
      <3> QED
        BY <2>1, <3>1, <3>3, <3>4, <3>5, OthersStore
    <2>4. CASE /\ Closet!Write(r) /\ input[r].id \in DOMAIN rows
               /\ Closet!Store([rows EXCEPT ![input[r].id] =
                                    Closet!Merged(@, loaded[r][1], input[r].fields)])
      <3> DEFINE items == [rows EXCEPT ![input[r].id] = Closet!Merged(@, loaded[r][1], input[r].fields)]
      <3>1. rows' = items /\ DOMAIN items = DOMAIN rows /\ input[r].id \in Int /\ made' = made
        BY <1>0, <2>4 DEF Closet!Store, Closet!Write
      <3>3. RowsInv'
        BY <1>0, <3>1 DEF RowsInv
      <3>4. \A j : j # input[r].id =>
                (j \in DOMAIN items <=> j \in DOMAIN rows) /\ (j \in DOMAIN rows => items[j] = rows[j])
        OBVIOUS
      <3>5. Closet!Store(items)
        BY <2>4
      <3> HIDE DEF items
      <3> QED
        BY <2>1, <3>1, <3>3, <3>4, <3>5, OthersStore
    <2>5. CASE Closet!Delete(r)
      <3> DEFINE items == [i \in DOMAIN rows \ {input[r].id} |-> rows[i]]
      <3>1. /\ rows' = items /\ DOMAIN items = DOMAIN rows \ {input[r].id} /\ made' = made
            /\ Closet!Store(items)
        BY <2>5 DEF Closet!Store, Closet!Delete
      <3>2. IsFiniteSet(DOMAIN rows \ {input[r].id})
        BY <1>0, FS_Subset
      <3>3. RowsInv'
        BY <1>0, <3>1, <3>2 DEF RowsInv
      <3>4. \A j : j # input[r].id =>
                (j \in DOMAIN items <=> j \in DOMAIN rows) /\ (j \in DOMAIN rows => items[j] = rows[j])
        OBVIOUS
      <3>5. CASE input[r].id \in DOMAIN rows
        <4>1. input[r].id \in Int
          BY <1>0, <3>5
        <4> HIDE DEF items
        <4> QED
          BY <2>1, <3>1, <3>3, <3>4, <4>1, OthersStore
      <3>6. CASE input[r].id \notin DOMAIN rows
        <4>1. \A j : j # 0 =>
                (j \in DOMAIN items <=> j \in DOMAIN rows) /\ (j \in DOMAIN rows => items[j] = rows[j])
          BY <3>6
        <4>2. 0 \in Int
          OBVIOUS
        <4> HIDE DEF items
        <4> QED
          BY <2>1, <3>1, <3>3, <4>1, <4>2, OthersStore
      <3> QED
        BY <3>5, <3>6
    <2> QED
      BY <1>2, <2>2, <2>3, <2>4, <2>5 DEF Closet!Add, Closet!Write
  <1>3. ASSUME NEW r \in Client, ReadsAll(r), Closet!CountItems(r) \/ Closet!ReadItems(r)
        PROVE  ReadInv'
    <2>1. Reading(r)'
      BY <1>3, ReadingCounts, ReadingReads
    <2>2. /\ input' = input /\ rows' = rows /\ made' = made
          /\ DOMAIN stage' = Client /\ DOMAIN turn' = Client /\ DOMAIN total' = Client
          /\ DOMAIN loaded' = Client /\ DOMAIN kept' = Client /\ DOMAIN moved' = Client
          /\ \A c \in Client \ {r} :
                /\ stage'[c] = stage[c] /\ turn'[c] = turn[c] /\ total'[c] = total[c]
                /\ loaded'[c] = loaded[c] /\ kept'[c] = kept[c] /\ moved'[c] = moved[c]
      BY <1>0, <1>3 DEF Closet!CountItems, Closet!ReadItems
    <2> QED
      BY <2>1, <2>2, OthersRest
  <1>4. ASSUME NEW r \in Client,
               \/ Closet!Signal(r) \/ Closet!Load(r) \/ Closet!Select(r)
               \/ (~ ReadsAll(r) /\ Closet!CountItems(r)) \/ (~ ReadsAll(r) /\ Closet!ReadItems(r))
               \/ Closet!Derive(r) \/ Closet!DeriveToday(r)
               \/ Closet!Summarize(r) \/ Closet!Cover(r) \/ Closet!Die(r)
        PROVE  ReadInv'
    <2>1. /\ input' = input /\ rows' = rows /\ made' = made
          /\ DOMAIN stage' = Client /\ DOMAIN turn' = Client /\ DOMAIN total' = Client
          /\ DOMAIN loaded' = Client /\ DOMAIN kept' = Client /\ DOMAIN moved' = Client
          /\ \A c \in Client \ {r} :
                /\ stage'[c] = stage[c] /\ turn'[c] = turn[c] /\ total'[c] = total[c]
                /\ loaded'[c] = loaded[c] /\ kept'[c] = kept[c] /\ moved'[c] = moved[c]
      BY <1>0, <1>4
      DEF Closet!Signal, Closet!Load, Closet!Select, Closet!CountItems, Closet!ReadItems,
          Closet!Derive, Closet!DeriveToday, Closet!Summarize, Closet!Cover, Closet!Die
    <2>2. ASSUME ReadsAll(r)
          PROVE  Reading(r)'
      <3>1. stage'[r] \in {"done", "dead"} /\ UNCHANGED <<turn, total, loaded, moved>>
        BY <1>0, <1>4, <2>2
        DEF ReadsAll, Closet!Signal, Closet!Load, Closet!Select,
            Closet!Derive, Closet!DeriveToday, Closet!Summarize, Closet!Cover, Closet!Die
      <3>2. Reading(r)
        BY <2>2 DEF ReadInv
      <3> QED
        BY <3>1, <3>2 DEF Reading
    <2> QED
      BY <2>1, <2>2, OthersRest
  <1> QED
    BY <1>1, <1>2, <1>3, <1>4 DEF Closet!Next

LEMMA ReadingIsWhole ==
    ASSUME ReadInv
    PROVE  Closet!ReadingsMissOnlyWhatMoved
  <1> SUFFICES ASSUME NEW c \in Client, Closet!At(c, {"outfit", "today"}, "derive")
               PROVE  LET found == {x.id : x \in Closet!Range(loaded[c])}
                      IN  /\ Cardinality(kept[c] \ found) <= moved[c]
                          /\ Len(loaded[c]) - Cardinality(found) <= moved[c]
                          /\ moved[c] = 0 => found = kept[c]
    BY ClosetCardinality DEF Closet!ReadingsMissOnlyWhatMoved
  <1>1. IsRead(c)
    BY DEF ReadInv, Reading, ReadsAll, Closet!At
  <1>2. {x.id : x \in Closet!Range(loaded[c])} = IdsRead(c)
    BY DEF Closet!Range, IdsRead
  <1> QED
    BY <1>1, <1>2 DEF IsRead

-----------------------------------------------------------------------------
(* The feed of looks, by cursor, while its owner saves and removes looks      *)
(* (discover.py).                                                             *)

FeedAssumptions ==
    /\ IsFiniteSet(Look) /\ Look \subseteq Int /\ Seed \in [Look -> Int] /\ FeedBoost \in Int
    /\ FeedPage \in Nat \ {0} /\ RowsRead \in Nat /\ SavedRows \subseteq Seq(Look \cup {None})
    /\ None \notin [score : Int, code : Look]

(* The best score first, then the first code. *)
Better(preferred) ==
    {e \in Look \X Look :
        \/ Pages!Boosted(preferred, e[1]) > Pages!Boosted(preferred, e[2])
        \/ Pages!Boosted(preferred, e[1]) = Pages!Boosted(preferred, e[2]) /\ e[1] < e[2]}

Shown == {shown[i] : i \in DOMAIN shown}

(* The looks that are boosted, and those whose boost may have changed.        *)
Liked == Pages!Preferred(saved)

Moved == touched \cup pushed

(* Whether a look stands where the cursor points, or before.                  *)
IsBehind(preferred, l) ==
    \/ Pages!Boosted(preferred, l) > cursor.score
    \/ Pages!Boosted(preferred, l) = cursor.score /\ l <= cursor.code

(* Of the looks that were left alone, those that stand before the cursor were *)
(* shown, and no others, each once.                                           *)
FeedInv ==
    /\ shown \in Seq(Look)
    /\ \A i, j \in DOMAIN shown : i < j /\ shown[i] = shown[j] => shown[i] \in Moved
    /\ browsing = "no" => cursor = None /\ shown = <<>>
    /\ browsing = "more" => /\ cursor \in [score : Int, code : Look]
                            /\ \A l \in Look \ Moved : l \in Shown <=> IsBehind(Liked, l)
    /\ browsing = "end" => Look \ Moved \subseteq Shown
    /\ saved \in Seq(Look \cup {None}) /\ changes \in Nat
    /\ IsFiniteSet(pushed) /\ Cardinality(pushed) <= changes

LEMMA BoostedType ==
    ASSUME FeedAssumptions, NEW preferred, NEW l \in Look
    PROVE  Pages!Boosted(preferred, l) \in Int /\ l \in Int
  BY DEF FeedAssumptions, Pages!Boosted

LEMMA BetterIsOrder ==
    ASSUME FeedAssumptions, NEW preferred
    PROVE  IsOrder(Better(preferred), Look)
  <1> DEFINE s(l) == Pages!Boosted(preferred, l)
             R == Better(preferred)
  <1>1. \A l \in Look : s(l) \in Int /\ l \in Int
    BY BoostedType
  <1>2. \A a, b \in Look : <<a, b>> \in R <=> (s(a) > s(b) \/ (s(a) = s(b) /\ a < b))
    BY DEF Better
  <1> HIDE DEF s, R
  <1>3. \A a, b, c \in Look : <<a, b>> \in R /\ <<b, c>> \in R => <<a, c>> \in R
    BY <1>1, <1>2
  <1>4. \A a \in Look : <<a, a>> \notin R
    BY <1>1, <1>2
  <1>5. \A a, b \in Look : a # b => <<a, b>> \in R \/ <<b, a>> \in R
    BY <1>1, <1>2
  <1> QED
    BY <1>3, <1>4, <1>5 DEF IsOrder, R

(* The ranking has each look once, and the better before. *)
LEMMA RankingIsOrdered ==
    ASSUME FeedAssumptions, NEW preferred
    PROVE  LET n == Cardinality(Look)
               ranking == Pages!Ranking(preferred)
           IN  /\ n \in Nat /\ Len(ranking) = n /\ DOMAIN ranking = 1 .. n
               /\ \A i \in 1 .. n : ranking[i] \in Look
               /\ \A l \in Look : \E i \in 1 .. n : ranking[i] = l
               /\ \A i, j \in 1 .. n : i < j => <<ranking[i], ranking[j]>> \in Better(preferred)
  <1> DEFINE n == Cardinality(Look)
             R == Better(preferred)
             ranking == Pages!Ranking(preferred)
  <1>1. n \in Nat /\ IsFiniteSet(Look) /\ IsOrder(R, Look)
    BY BetterIsOrder, FS_CardinalityType DEF FeedAssumptions
  <1>2. ranking = [i \in 1 .. n |-> CHOOSE x \in Look : Cardinality({y \in Look :
                      \/ Pages!Boosted(preferred, y) > Pages!Boosted(preferred, x)
                      \/ Pages!Boosted(preferred, y) = Pages!Boosted(preferred, x) /\ y < x}) = i - 1]
    BY DEF Pages!Ranking, Pages!Sorted, Pages!Cardinality, Cardinality
  <1>3. \A x \in Look : Rank(R, Look, x) = Cardinality({y \in Look :
                      \/ Pages!Boosted(preferred, y) > Pages!Boosted(preferred, x)
                      \/ Pages!Boosted(preferred, y) = Pages!Boosted(preferred, x) /\ y < x})
    <2>1. \A x \in Look : Before(R, Look, x) = {y \in Look :
                      \/ Pages!Boosted(preferred, y) > Pages!Boosted(preferred, x)
                      \/ Pages!Boosted(preferred, y) = Pages!Boosted(preferred, x) /\ y < x}
      BY DEF Before, Better
    <2> QED
      BY <2>1 DEF Rank
  <1>4. \A i \in 1 .. n : ranking[i] = CHOOSE x \in Look : Rank(R, Look, x) = i - 1
    BY <1>2, <1>3
  <1>5. /\ \A x \in Look : Rank(R, Look, x) \in 0 .. n - 1
        /\ \A x, y \in Look : Rank(R, Look, x) = Rank(R, Look, y) => x = y
        /\ \A k \in 0 .. n - 1 : \E x \in Look : Rank(R, Look, x) = k
    BY <1>1, Ranks
  <1>6. Len(ranking) = n /\ DOMAIN ranking = 1 .. n
    <2> HIDE DEF n
    <2> QED
      BY <1>1, <1>2
  <1> HIDE DEF n, R, ranking
  <1>7. \A i \in 1 .. n : ranking[i] \in Look /\ Rank(R, Look, ranking[i]) = i - 1
    <2> SUFFICES ASSUME NEW i \in 1 .. n
                 PROVE  ranking[i] \in Look /\ Rank(R, Look, ranking[i]) = i - 1
      OBVIOUS
    <2>1. i - 1 \in 0 .. n - 1
      BY <1>1
    <2>2. \E x \in Look : Rank(R, Look, x) = i - 1
      BY <1>5, <2>1
    <2> QED
      BY <1>4, <2>2
  <1>8. ASSUME NEW l \in Look
        PROVE  \E i \in 1 .. n : ranking[i] = l
    <2>1. Rank(R, Look, l) + 1 \in 1 .. n /\ (Rank(R, Look, l) + 1) - 1 = Rank(R, Look, l)
      BY <1>1, <1>5
    <2> QED
      BY <1>5, <1>7, <2>1
  <1>9. ASSUME NEW i \in 1 .. n, NEW j \in 1 .. n, i < j
        PROVE  <<ranking[i], ranking[j]>> \in R
    <2>1. Rank(R, Look, ranking[i]) = i - 1 /\ Rank(R, Look, ranking[j]) = j - 1
      BY <1>7
    <2>2. ranking[i] # ranking[j] /\ ~ (Rank(R, Look, ranking[j]) < Rank(R, Look, ranking[i]))
      BY <1>1, <1>9, <2>1
    <2>3. <<ranking[j], ranking[i]>> \notin R
      BY <1>1, <1>7, <2>2, RankGrows
    <2> QED
      BY <1>1, <1>7, <2>2, <2>3 DEF IsOrder
  <1> QED
    BY <1>1, <1>6, <1>7, <1>8, <1>9 DEF n, R, ranking

(* In a ranking, what stands behind the place j is what stands before or at it. *)
LEMMA StandsBehind ==
    ASSUME FeedAssumptions, NEW preferred, NEW i \in 1 .. Cardinality(Look), NEW j \in 1 .. Cardinality(Look)
    PROVE  LET l == Pages!Ranking(preferred)[i]
               c == Pages!Ranking(preferred)[j]
           IN  /\ i <= j <=> \/ Pages!Boosted(preferred, l) > Pages!Boosted(preferred, c)
                             \/ Pages!Boosted(preferred, l) = Pages!Boosted(preferred, c) /\ l <= c
               /\ l = c <=> i = j
  <1> DEFINE n == Cardinality(Look)
             l == Pages!Ranking(preferred)[i]
             c == Pages!Ranking(preferred)[j]
             s == Pages!Boosted(preferred, l)
             t == Pages!Boosted(preferred, c)
  <1>1. l \in Look /\ c \in Look /\ n \in Nat
    BY RankingIsOrdered
  <1>2. s \in Int /\ t \in Int /\ l \in Int /\ c \in Int
    BY <1>1, BoostedType
  <1>3. i < j => s > t \/ (s = t /\ l < c)
    BY RankingIsOrdered DEF Better
  <1>4. j < i => t > s \/ (t = s /\ c < l)
    BY RankingIsOrdered DEF Better
  <1>5. (i = j => l = c) /\ (l = c => s = t)
    OBVIOUS
  <1>6. i \in Int /\ j \in Int
    BY <1>1
  <1> HIDE DEF n, l, c, s, t
  <1>7. /\ i <= j <=> (s > t \/ (s = t /\ l <= c))
        /\ l = c <=> i = j
    <2>1. CASE i < j
      BY <1>2, <1>3, <1>5, <1>6, <2>1
    <2>2. CASE j < i
      BY <1>2, <1>4, <1>5, <1>6, <2>2
    <2>3. CASE i = j
      BY <1>2, <1>5, <1>6, <2>3
    <2> QED
      BY <1>6, <2>1, <2>2, <2>3
  <1> QED
    BY <1>7 DEF l, c, s, t

LEMMA FeedWindow ==
    ASSUME FeedAssumptions, FeedInv, NEW preferred, Pages!Window(preferred),
           browsing \in {"no", "more"}, touched \subseteq touched', UNCHANGED <<saved, pushed>>, changes' \in {changes, changes + 1},
           \A l \in Look \ Moved' : Pages!Boosted(preferred, l) = Pages!Boosted(Liked, l)
    PROVE  FeedInv'
  <1> DEFINE n == Cardinality(Look)
             ranking == Pages!Ranking(preferred)
             start == IF cursor = None THEN 0 ELSE CHOOSE i \in Pages!Position(preferred, cursor) : TRUE
             end == IF start + FeedPage < Len(ranking) THEN start + FeedPage ELSE Len(ranking)
             last == ranking[end]
             new == SubSeq(ranking, start + 1, end)
             len == Len(shown)
  <1>0. /\ shown \in Seq(Look) /\ len \in Nat /\ DOMAIN shown = 1 .. len
        /\ \A i, j \in DOMAIN shown : i < j /\ shown[i] = shown[j] => shown[i] \in Moved
    BY DEF FeedInv
  <1>3. Liked' = Liked /\ Moved \subseteq Moved'
    BY DEF Liked, Moved, Pages!Preferred
  <1>4. /\ saved' \in Seq(Look \cup {None}) /\ changes' \in Nat
        /\ IsFiniteSet(pushed') /\ Cardinality(pushed') <= changes'
    <2>1. /\ saved \in Seq(Look \cup {None}) /\ changes \in Nat
          /\ IsFiniteSet(pushed) /\ Cardinality(pushed) <= changes
      BY DEF FeedInv
    <2>2. Cardinality(pushed) \in Nat /\ pushed' = pushed /\ saved' = saved
      BY <2>1, FS_CardinalityType
    <2> QED
      BY <2>1, <2>2
  <1>1. CASE browsing' = "refused" /\ shown' = shown
    BY <1>0, <1>1, <1>3, <1>4 DEF FeedInv
  <1>2. CASE /\ cursor = None \/ Pages!Position(preferred, cursor) # {}
             /\ shown' = shown \o new
             /\ browsing' = IF end < Len(ranking) THEN "more" ELSE "end"
             /\ cursor' = IF end < Len(ranking)
                          THEN [score |-> Pages!Boosted(preferred, last), code |-> last] ELSE None
    <2>1. /\ n \in Nat /\ Len(ranking) = n /\ DOMAIN ranking = 1 .. n
          /\ \A i \in 1 .. n : ranking[i] \in Look
          /\ \A l \in Look : \E i \in 1 .. n : ranking[i] = l
      BY RankingIsOrdered
    <2>2. \A i, j \in 1 .. n : ranking[i] = ranking[j] => i = j
      BY StandsBehind
    <2>3. /\ start \in 0 .. n
          /\ \A i \in 1 .. n : ranking[i] \notin Moved' => (ranking[i] \in Shown <=> i <= start)
      <3>1. CASE cursor = None
        <4>1. shown = <<>>
          BY <3>1 DEF FeedInv, FeedAssumptions
        <4>2. start = 0 /\ Shown = {}
          BY <3>1, <4>1 DEF Shown
        <4> HIDE DEF start, ranking, n
        <4> QED
          BY <2>1, <4>2
      <3>2. CASE cursor # None
        <4>1. start \in Pages!Position(preferred, cursor)
          BY <1>2, <3>2
        <4>2. start \in 1 .. n /\ ranking[start] = cursor.code /\ Pages!Boosted(preferred, cursor.code) = cursor.score
          BY <2>1, <4>1 DEF Pages!Position
        <4>3. \A l \in Look \ Moved : l \in Shown <=> IsBehind(Liked, l)
          BY <3>2 DEF FeedInv
        <4> HIDE DEF start
        <4>4. ASSUME NEW i \in 1 .. n, ranking[i] \notin Moved'
              PROVE  ranking[i] \in Shown <=> i <= start
          <5>1. ranking[i] \in Look \ Moved'
            BY <2>1, <4>4
          <5>2. ranking[i] \in Shown <=> IsBehind(Liked, ranking[i])
            BY <1>3, <4>3, <5>1
          <5>3. Pages!Boosted(preferred, ranking[i]) = Pages!Boosted(Liked, ranking[i])
            BY <5>1
          <5>4. i <= start <=> \/ Pages!Boosted(preferred, ranking[i]) > Pages!Boosted(preferred, ranking[start])
                               \/ /\ Pages!Boosted(preferred, ranking[i]) = Pages!Boosted(preferred, ranking[start])
                                  /\ ranking[i] <= ranking[start]
            BY <4>2, StandsBehind
          <5> HIDE DEF ranking
          <5> QED
            BY <4>2, <5>2, <5>3, <5>4 DEF IsBehind
        <4> QED
          BY <2>1, <4>2, <4>4
      <3> QED
        BY <3>1, <3>2
    <2>4. FeedPage \in Nat \ {0}
      BY DEF FeedAssumptions
    <2>5. end \in start .. n /\ (end < n => end >= 1 /\ end \in 1 .. n)
      <3> HIDE DEF start, ranking, n
      <3> QED
        BY <2>1, <2>3, <2>4
    <2>6. /\ new \in Seq(Look) /\ Len(new) = end - start
          /\ \A k \in 1 .. end - start : new[k] = ranking[start + k]
      <3>1. start + 1 \in Int /\ end \in Int /\ \A i \in start + 1 .. end : ranking[i] \in Look
        <4> HIDE DEF start, end, ranking, n
        <4> QED
          BY <2>1, <2>3, <2>5
      <3>2. /\ new \in Seq(Look) /\ Len(new) = (IF start + 1 <= end THEN end - (start + 1) + 1 ELSE 0)
            /\ \A k \in 1 .. end - (start + 1) + 1 : new[k] = ranking[(start + 1) + k - 1]
        <4> HIDE DEF start, end, ranking
        <4> QED
          BY <3>1, SubSeqProperties
      <3> HIDE DEF start, end, new, ranking, n
      <3>3. end - (start + 1) + 1 = end - start /\ \A k \in 1 .. end - start : (start + 1) + k - 1 = start + k
        BY <2>1, <2>3, <2>5
      <3> QED
        BY <2>1, <2>3, <2>5, <3>2, <3>3
    <2> HIDE DEF start, end, new, ranking, n, last
    <2>7. /\ shown' \in Seq(Look) /\ Len(shown') = len + (end - start) /\ end - start \in Nat
          /\ DOMAIN shown' = 1 .. len + (end - start)
          /\ \A i \in 1 .. len : shown'[i] = shown[i]
          /\ \A k \in 1 .. end - start : shown'[len + k] = ranking[start + k]
      <3>1. end - start \in Nat
        BY <2>1, <2>3, <2>5
      <3>2. shown' \in Seq(Look) /\ Len(shown') = len + (end - start)
        <4>1. shown' = shown \o new
          BY <1>2
        <4>2. shown \in Seq(Look) /\ new \in Seq(Look)
          BY <1>0, <2>6
        <4>3. shown \o new \in Seq(Look) /\ Len(shown \o new) = len + Len(new)
          BY <4>2, ConcatProperties
        <4> QED
          BY <2>6, <4>1, <4>3
      <3>3. \A i \in 1 .. len : shown'[i] = shown[i]
        BY <1>0, <1>2, <2>6
      <3>4. \A k \in 1 .. end - start : shown'[len + k] = new[k]
        <4> HIDE DEF len
        <4> QED
          BY <1>0, <1>2, <2>6, <3>1 DEF len
      <3> QED
        BY <2>6, <3>1, <3>2, <3>3, <3>4
    <2> HIDE DEF len
    <2>8. \A i \in 1 .. len + (end - start) :
              i \in 1 .. len \/ (i - len \in 1 .. end - start /\ i = len + (i - len))
      BY <1>0, <2>7
    <2>9. ASSUME NEW i \in 1 .. n, ranking[i] \notin Moved'
          PROVE  ranking[i] \in Shown' <=> i <= end
      <3>1. ASSUME ranking[i] \in Shown'
            PROVE  i <= end
        <4>1. PICK k \in 1 .. len + (end - start) : shown'[k] = ranking[i]
          BY <2>7, <3>1 DEF Shown
        <4>2. CASE k \in 1 .. len
          <5>1. ranking[i] \in Shown
            BY <1>0, <2>7, <4>1, <4>2 DEF Shown
          <5> QED
            BY <2>1, <2>3, <2>5, <2>9, <5>1
        <4>3. CASE k - len \in 1 .. end - start /\ k = len + (k - len)
          <5>1. ranking[start + (k - len)] = ranking[i]
            BY <2>7, <4>1, <4>3
          <5>2. start + (k - len) \in 1 .. n /\ start + (k - len) <= end
            BY <1>0, <2>1, <2>3, <2>5, <4>3
          <5> QED
            BY <2>2, <5>1, <5>2
        <4> QED
          BY <2>8, <4>1, <4>2, <4>3
      <3>2. ASSUME i <= end
            PROVE  ranking[i] \in Shown'
        <4>1. CASE i <= start
          <5>1. PICK k \in 1 .. len : shown[k] = ranking[i]
            BY <1>0, <2>3, <2>9, <4>1 DEF Shown
          <5>2. k \in DOMAIN shown' /\ shown'[k] = ranking[i]
            BY <1>0, <2>7, <5>1
          <5> QED
            BY <5>2 DEF Shown
        <4>2. CASE i > start
          <5>1. i - start \in 1 .. end - start /\ start + (i - start) = i
            BY <2>1, <2>3, <2>5, <3>2, <4>2
          <5>2. shown'[len + (i - start)] = ranking[i]
            BY <2>7, <5>1
          <5>3. len + (i - start) \in DOMAIN shown'
            BY <1>0, <2>7, <5>1
          <5> QED
            BY <5>2, <5>3 DEF Shown
        <4> QED
          BY <2>1, <2>3, <4>1, <4>2
      <3> QED
        BY <3>1, <3>2
    <2>10. ASSUME NEW i \in DOMAIN shown', NEW j \in DOMAIN shown', i < j, shown'[i] = shown'[j]
           PROVE  shown'[i] \in Moved'
      <3>1. /\ i \in 1 .. len \/ (i - len \in 1 .. end - start /\ i = len + (i - len))
            /\ j \in 1 .. len \/ (j - len \in 1 .. end - start /\ j = len + (j - len))
        BY <2>7, <2>8
      <3>2. CASE j \in 1 .. len
        <4>1. i \in 1 .. len
          BY <1>0, <2>7, <2>10, <3>2
        <4> QED
          BY <1>0, <1>3, <2>7, <2>10, <3>2, <4>1
      <3>3. CASE i \in 1 .. len /\ j - len \in 1 .. end - start /\ j = len + (j - len)
        <4>1. shown'[i] \in Shown /\ shown'[i] = ranking[start + (j - len)]
          BY <1>0, <2>7, <2>10, <3>3 DEF Shown
        <4>2. start + (j - len) \in 1 .. n /\ ~ (start + (j - len) <= start)
          BY <1>0, <2>1, <2>3, <2>5, <3>3, SMTT(30)
        <4> QED
          BY <2>3, <4>1, <4>2
      <3>4. CASE /\ i - len \in 1 .. end - start /\ i = len + (i - len)
                 /\ j - len \in 1 .. end - start /\ j = len + (j - len)
        <4>1. ranking[start + (i - len)] = ranking[start + (j - len)]
          BY <2>7, <2>10, <3>4
        <4>2. /\ start + (i - len) \in 1 .. n /\ start + (j - len) \in 1 .. n
              /\ start + (i - len) # start + (j - len)
          <5>1. i \in Int /\ j \in Int /\ start \in Int /\ end \in Int /\ n \in Int /\ len \in Int
            BY <1>0, <2>1, <2>3, <2>5, <2>7
          <5>2. 0 <= start /\ end <= n /\ start <= end
            BY <2>1, <2>3, <2>5
          <5>3. start + (i - len) \in 1 .. n
            BY <3>4, <5>1, <5>2
          <5>4. start + (j - len) \in 1 .. n
            BY <3>4, <5>1, <5>2
          <5> QED
            BY <2>10, <5>1, <5>3, <5>4
        <4> QED
          BY <2>2, <4>1, <4>2
      <3>5. j \in 1 .. len => i \in 1 .. len
        BY <1>0, <2>7, <2>10
      <3> QED
        BY <3>1, <3>2, <3>3, <3>4, <3>5
    <2>11. ASSUME browsing' = "more"
           PROVE  /\ cursor' \in [score : Int, code : Look]
                  /\ \A l \in Look \ Moved' : l \in Shown' <=> IsBehind(Liked, l)'
      <3>1. end < n /\ end \in 1 .. n
        BY <1>2, <2>1, <2>5, <2>11
      <3>2. cursor' = [score |-> Pages!Boosted(preferred, last), code |-> last]
        BY <1>2, <2>1, <3>1
      <3>3. last \in Look /\ last = ranking[end]
        BY <2>1, <3>1 DEF last
      <3>4. Pages!Boosted(preferred, last) \in Int
        BY <3>3, BoostedType
      <3>5. ASSUME NEW l \in Look \ Moved'
            PROVE  l \in Shown' <=> IsBehind(Liked, l)'
        <4>1. PICK i \in 1 .. n : ranking[i] = l
          BY <2>1
        <4>2. l \in Shown' <=> i <= end
          BY <2>9, <4>1
        <4>3. i <= end <=> \/ Pages!Boosted(preferred, l) > Pages!Boosted(preferred, last)
                           \/ Pages!Boosted(preferred, l) = Pages!Boosted(preferred, last) /\ l <= last
          BY <3>1, <3>3, <4>1, StandsBehind DEF n, ranking
        <4>4. Pages!Boosted(preferred, l) = Pages!Boosted(Liked, l)
          OBVIOUS
        <4>5. Pages!Boosted(Liked, l)' = Pages!Boosted(Liked, l)
          BY <1>3 DEF Pages!Boosted
        <4> QED
          BY <3>2, <4>2, <4>3, <4>4, <4>5 DEF IsBehind
      <3> QED
        BY <3>2, <3>3, <3>4, <3>5
    <2>12. ASSUME browsing' = "end"
           PROVE  Look \ Moved' \subseteq Shown'
      <3>1. end = n
        BY <1>2, <2>1, <2>3, <2>5, <2>12
      <3> SUFFICES ASSUME NEW l \in Look \ Moved'
                   PROVE  l \in Shown'
        OBVIOUS
      <3>2. PICK i \in 1 .. n : ranking[i] = l
        BY <2>1
      <3>3. i <= end
        BY <2>1, <3>1
      <3> QED
        BY <2>9, <3>2, <3>3
    <2>13. browsing' # "no"
      BY <1>2
    <2> QED
      BY <1>4, <2>7, <2>10, <2>11, <2>12, <2>13 DEF FeedInv
  <1> QED
    BY <1>1, <1>2 DEF Pages!Window

LEMMA FeedInit ==
    ASSUME FeedAssumptions, Pages!Init
    PROVE  FeedInv
  <1>1. shown = <<>> /\ cursor = None /\ browsing = "no" /\ pushed = {} /\ changes = 0
    BY DEF Pages!Init
  <1>2. <<>> \in Seq(Look) /\ DOMAIN <<>> = {}
    OBVIOUS
  <1>3. saved \in Seq(Look \cup {None})
    BY DEF Pages!Init, FeedAssumptions
  <1>4. IsFiniteSet({}) /\ Cardinality({}) = 0
    BY FS_EmptySet
  <1> QED
    BY <1>1, <1>2, <1>3, <1>4 DEF FeedInv

(* The rows that are read, when one is put in or taken out: at most one look  *)
(* beside it falls out or comes in.                                           *)
LEMMA RowComes ==
    ASSUME RowsRead \in Nat, NEW list \in Seq(Look \cup {None}), NEW l \in Look \cup {None},
           NEW place \in 1 .. Len(list) + 1
    PROVE  LET more == Pages!InsertAt(list, place, l)
           IN  /\ more \in Seq(Look \cup {None})
               /\ Pages!Preferred(more) \ Pages!Preferred(list) \subseteq {l}
               /\ \E p : Pages!Preferred(list) \ Pages!Preferred(more) \subseteq {p}
  <1> DEFINE R == Look \cup {None}
             before == SubSeq(list, 1, place - 1)
             after == SubSeq(list, place, Len(list))
             more == before \o <<l>> \o after
             n == Len(list)
  <1>1. Pages!InsertAt(list, place, l) = more
    BY DEF Pages!InsertAt
  <1>2. n \in Nat /\ place \in Nat /\ 1 <= place /\ place <= n + 1 /\ \A i \in 1 .. n : list[i] \in R
    OBVIOUS
  <1>3. /\ before \in Seq(R) /\ Len(before) = place - 1
        /\ \A i \in 1 .. place - 1 : before[i] = list[i]
    <2>1. \A i \in 1 .. place - 1 : list[i] \in R
      BY <1>2
    <2>2. 1 \in Int /\ place - 1 \in Int /\ (1 <= place - 1 => place - 1 - 1 + 1 = place - 1)
      BY <1>2
    <2> HIDE DEF R, n
    <2> QED
      BY <1>2, <2>1, <2>2, SubSeqProperties
  <1>4. /\ after \in Seq(R) /\ Len(after) = n - place + 1
        /\ \A i \in 1 .. n - place + 1 : after[i] = list[place + i - 1]
    <2>1. \A i \in place .. n : list[i] \in R
      BY <1>2
    <2> HIDE DEF R
    <2> QED
      BY <1>2, <2>1, SubSeqProperties
  <1> HIDE DEF before, after
  <1>5. /\ more \in Seq(R) /\ Len(more) = n + 1
        /\ \A i \in 1 .. place - 1 : more[i] = list[i]
        /\ more[place] = l
        /\ \A i \in place + 1 .. n + 1 : more[i] = list[i - 1]
    <2>1. /\ before \o <<l>> \in Seq(R) /\ Len(before \o <<l>>) = place
          /\ \A i \in 1 .. place - 1 : (before \o <<l>>)[i] = before[i]
          /\ (before \o <<l>>)[place] = l
      BY <1>2, <1>3
    <2> DEFINE first == before \o <<l>>
    <2> HIDE DEF first, R, n
    <2>2. /\ more \in Seq(R) /\ Len(more) = place + (n - place + 1)
          /\ \A i \in 1 .. place : more[i] = first[i]
          /\ \A i \in 1 .. n - place + 1 : more[place + i] = after[i]
      <3>1. first \in Seq(R) /\ Len(first) = place /\ more = first \o after
        BY <2>1 DEF first
      <3> HIDE DEF more
      <3>2. /\ more \in Seq(R) /\ Len(more) = Len(first) + Len(after)
            /\ \A i \in 1 .. Len(first) + Len(after) :
                  more[i] = IF i <= Len(first) THEN first[i] ELSE after[i - Len(first)]
        BY <1>4, <3>1, ConcatProperties
      <3>3. ASSUME NEW i \in 1 .. n - place + 1
            PROVE  more[place + i] = after[i]
        <4>1. place + i \in 1 .. Len(first) + Len(after) /\ ~ (place + i <= Len(first)) /\ place + i - Len(first) = i
          BY <1>2, <1>4, <3>1
        <4> QED
          BY <3>2, <4>1
      <3>4. ASSUME NEW i \in 1 .. place
            PROVE  more[i] = first[i]
        BY <1>2, <1>4, <3>1, <3>2
      <3> QED
        BY <1>4, <3>1, <3>2, <3>3, <3>4
    <2>3. ASSUME NEW i \in place + 1 .. n + 1
          PROVE  more[i] = list[i - 1]
      <3>1. i - place \in 1 .. n - place + 1 /\ place + (i - place) = i /\ place + (i - place) - 1 = i - 1
        BY <1>2
      <3>2. more[place + (i - place)] = after[i - place] /\ after[i - place] = list[place + (i - place) - 1]
        BY <1>4, <2>2, <3>1
      <3> QED
        BY <3>1, <3>2
    <2> HIDE DEF more
    <2>4. /\ \A i \in 1 .. place - 1 : first[i] = before[i]
          /\ first[place] = l
      BY <2>1 DEF first
    <2>5. ASSUME NEW i \in 1 .. place - 1
          PROVE  more[i] = list[i]
      <3>1. i \in 1 .. place
        BY <1>2
      <3> QED
        BY <1>3, <2>2, <2>4, <3>1
    <2>6. more[place] = l
      <3>1. place \in 1 .. place
        BY <1>2
      <3> QED
        BY <2>2, <2>4, <3>1
    <2>7. more \in Seq(R) /\ Len(more) = n + 1
      BY <1>2, <2>2
    <2> QED
      BY <2>3, <2>5, <2>6, <2>7
  <1> HIDE DEF more, R
  <1>6. /\ DOMAIN list = 1 .. n /\ DOMAIN more = 1 .. n + 1
    BY <1>2, <1>5
  <1>7. ASSUME NEW x \in Pages!Preferred(more), x # l
        PROVE  x \in Pages!Preferred(list)
    <2>1. PICK i \in 1 .. n + 1 : i <= RowsRead /\ more[i] = x /\ x \in Look
      BY <1>6 DEF Pages!Preferred
    <2>2. CASE i < place
      <3>1. i \in 1 .. place - 1 /\ i \in 1 .. n
        BY <1>2, <2>1, <2>2
      <3> QED
        BY <1>5, <1>6, <2>1, <3>1 DEF Pages!Preferred
    <2>3. CASE i > place
      <3>1. i \in place + 1 .. n + 1 /\ i - 1 \in 1 .. n /\ i - 1 <= RowsRead
        BY <1>2, <2>1, <2>3
      <3> QED
        BY <1>5, <1>6, <2>1, <3>1 DEF Pages!Preferred
    <2> QED
      BY <1>2, <1>5, <1>7, <2>1, <2>2, <2>3
  <1>8. ASSUME NEW x \in Pages!Preferred(list), x \notin Pages!Preferred(more)
        PROVE  x = list[RowsRead]
    <2>1. PICK i \in 1 .. n : i <= RowsRead /\ list[i] = x /\ x \in Look
      BY <1>6 DEF Pages!Preferred
    <2>2. CASE i < place
      <3>1. i \in 1 .. place - 1 /\ i \in 1 .. n + 1
        BY <1>2, <2>1, <2>2
      <3> QED
        BY <1>5, <1>6, <1>8, <2>1, <3>1 DEF Pages!Preferred
    <2>3. CASE i >= place
      <3>1. i + 1 \in place + 1 .. n + 1 /\ i + 1 \in 1 .. n + 1 /\ (i + 1) - 1 = i
        BY <1>2, <2>1, <2>3
      <3>2. ~ (i + 1 <= RowsRead)
        BY <1>5, <1>6, <1>8, <2>1, <3>1 DEF Pages!Preferred
      <3> QED
        BY <2>1, <3>2
    <2> QED
      BY <1>2, <2>1, <2>2, <2>3
  <1> QED
    BY <1>1, <1>5, <1>7, <1>8 DEF R

LEMMA RowGoes ==
    ASSUME RowsRead \in Nat, NEW list \in Seq(Look \cup {None}), NEW place \in DOMAIN list
    PROVE  LET less == Pages!RemoveAt(list, place)
           IN  /\ less \in Seq(Look \cup {None})
               /\ Pages!Preferred(list) \ Pages!Preferred(less) \subseteq {list[place]}
               /\ \E p : Pages!Preferred(less) \ Pages!Preferred(list) \subseteq {p}
  <1> DEFINE R == Look \cup {None}
             before == SubSeq(list, 1, place - 1)
             after == SubSeq(list, place + 1, Len(list))
             less == before \o after
             n == Len(list)
  <1>1. Pages!RemoveAt(list, place) = less
    BY DEF Pages!RemoveAt
  <1>2. n \in Nat /\ place \in Nat /\ 1 <= place /\ place <= n /\ \A i \in 1 .. n : list[i] \in R
    OBVIOUS
  <1>3. /\ before \in Seq(R) /\ Len(before) = place - 1
        /\ \A i \in 1 .. place - 1 : before[i] = list[i]
    <2>1. \A i \in 1 .. place - 1 : list[i] \in R
      BY <1>2
    <2>2. 1 \in Int /\ place - 1 \in Int /\ (1 <= place - 1 => place - 1 - 1 + 1 = place - 1)
      BY <1>2
    <2> HIDE DEF R, n
    <2> QED
      BY <1>2, <2>1, <2>2, SubSeqProperties
  <1>4. /\ after \in Seq(R) /\ Len(after) = n - place
        /\ \A i \in 1 .. n - place : after[i] = list[place + i]
    <2>1. \A i \in place + 1 .. n : list[i] \in R
      BY <1>2
    <2>2. place + 1 \in Int /\ n - (place + 1) + 1 = n - place /\ \A i \in 1 .. n - place : place + 1 + i - 1 = place + i
      BY <1>2
    <2> HIDE DEF R
    <2> QED
      BY <1>2, <2>1, <2>2, SubSeqProperties
  <1> HIDE DEF before, after
  <1>5. /\ less \in Seq(R) /\ Len(less) = n - 1
        /\ \A i \in 1 .. place - 1 : less[i] = list[i]
        /\ \A i \in place .. n - 1 : less[i] = list[i + 1]
    <2>1. /\ less \in Seq(R) /\ Len(less) = (place - 1) + (n - place)
          /\ \A i \in 1 .. place - 1 : less[i] = before[i]
          /\ \A i \in 1 .. n - place : less[place - 1 + i] = after[i]
      <3> HIDE DEF less, R
      <3>1. less = before \o after
        BY DEF less
      <3>2. /\ less \in Seq(R) /\ Len(less) = Len(before) + Len(after)
            /\ \A i \in 1 .. Len(before) + Len(after) :
                  less[i] = IF i <= Len(before) THEN before[i] ELSE after[i - Len(before)]
        BY <1>3, <1>4, <3>1, ConcatProperties
      <3> HIDE DEF n
      <3>3. ASSUME NEW i \in 1 .. n - place
            PROVE  less[place - 1 + i] = after[i]
        <4>1. n \in Int /\ place \in Int /\ i \in Int /\ 1 <= i /\ i <= n - place /\ 1 <= place
          BY <1>2
        <4>2. Len(before) = place - 1 /\ Len(after) = n - place
          BY <1>3, <1>4
        <4> DEFINE k == place - 1 + i
        <4>3. k \in 1 .. (place - 1) + (n - place) /\ ~ (k <= place - 1) /\ k - (place - 1) = i
          BY <4>1
        <4> HIDE DEF k
        <4>4. less[k] = IF k <= Len(before) THEN before[k] ELSE after[k - Len(before)]
          BY <3>2, <4>2, <4>3
        <4> QED
          BY <4>2, <4>3, <4>4 DEF k
      <3>4. ASSUME NEW i \in 1 .. place - 1
            PROVE  less[i] = before[i]
        <4>1. i \in 1 .. Len(before) + Len(after) /\ i <= Len(before)
          BY <1>2, <1>3, <1>4
        <4> QED
          BY <3>2, <4>1
      <3> QED
        BY <1>3, <1>4, <3>2, <3>3, <3>4
    <2>2. ASSUME NEW i \in place .. n - 1
          PROVE  less[i] = list[i + 1]
      <3>1. i - place + 1 \in 1 .. n - place /\ place - 1 + (i - place + 1) = i /\ place + (i - place + 1) = i + 1
        BY <1>2
      <3>2. less[place - 1 + (i - place + 1)] = after[i - place + 1] /\ after[i - place + 1] = list[place + (i - place + 1)]
        BY <1>4, <2>1, <3>1
      <3> QED
        BY <3>1, <3>2
    <2> HIDE DEF less, R
    <2> QED
      BY <1>2, <1>3, <2>1, <2>2
  <1> HIDE DEF less, R
  <1>6. DOMAIN list = 1 .. n /\ DOMAIN less = 1 .. n - 1
    BY <1>2, <1>5
  <1>7. ASSUME NEW x \in Pages!Preferred(list), x # list[place]
        PROVE  x \in Pages!Preferred(less)
    <2>1. PICK i \in 1 .. n : i <= RowsRead /\ list[i] = x /\ x \in Look
      BY <1>6 DEF Pages!Preferred
    <2>2. CASE i < place
      <3>1. i \in 1 .. place - 1 /\ i \in 1 .. n - 1
        BY <1>2, <2>1, <2>2
      <3> QED
        BY <1>5, <1>6, <2>1, <3>1 DEF Pages!Preferred
    <2>3. CASE i > place
      <3>1. i - 1 \in place .. n - 1 /\ i - 1 \in 1 .. n - 1 /\ (i - 1) + 1 = i /\ i - 1 <= RowsRead
        BY <1>2, <2>1, <2>3
      <3>2. less[i - 1] = list[i]
        BY <1>5, <3>1
      <3> QED
        BY <1>6, <2>1, <3>1, <3>2 DEF Pages!Preferred
    <2> QED
      BY <1>2, <1>7, <2>1, <2>2, <2>3
  <1>8. ASSUME NEW x \in Pages!Preferred(less), x \notin Pages!Preferred(list)
        PROVE  x = less[RowsRead]
    <2>1. PICK i \in 1 .. n - 1 : i <= RowsRead /\ less[i] = x /\ x \in Look
      BY <1>6 DEF Pages!Preferred
    <2>2. CASE i < place
      <3>1. i \in 1 .. place - 1 /\ i \in 1 .. n
        BY <1>2, <2>1, <2>2
      <3> QED
        BY <1>5, <1>6, <1>8, <2>1, <3>1 DEF Pages!Preferred
    <2>3. CASE i >= place
      <3>1. i \in place .. n - 1 /\ i + 1 \in 1 .. n
        BY <1>2, <2>1, <2>3
      <3>2. ~ (i + 1 <= RowsRead)
        BY <1>5, <1>6, <1>8, <2>1, <3>1 DEF Pages!Preferred
      <3> QED
        BY <2>1, <3>2
    <2> QED
      BY <1>2, <2>1, <2>2, <2>3
  <1> QED
    BY <1>1, <1>5, <1>7, <1>8 DEF R

(* A change of the rows, by one that was read or is.                          *)
LEMMA FeedReact ==
    ASSUME FeedAssumptions, FeedInv, NEW l, NEW list \in Seq(Look \cup {None}), NEW p,
           Pages!React(l, list),
           (Pages!Preferred(saved) \ Pages!Preferred(list)) \cup (Pages!Preferred(list) \ Pages!Preferred(saved))
               \subseteq {l, p}
    PROVE  FeedInv'
  <1>1. /\ browsing = "more" /\ touched' = touched \cup {l} /\ saved' = list
        /\ UNCHANGED <<cursor, shown, browsing>> /\ changes' = changes + 1
        /\ pushed' = pushed \cup (((Liked \ Pages!Preferred(list)) \cup (Pages!Preferred(list) \ Liked)) \ {l})
    BY DEF Pages!React, Liked
  <1>2. Liked' = Pages!Preferred(list)
    BY <1>1 DEF Liked, Pages!Preferred
  <1>3. Moved \subseteq Moved' /\ Shown' = Shown
    BY <1>1 DEF Moved, Shown
  <1>4. \A k \in Look \ Moved' : IsBehind(Liked, k)' <=> IsBehind(Liked, k)
    <2>1. \A k \in Look \ Moved' : k \in Liked' <=> k \in Liked
      BY <1>1, <1>2 DEF Moved
    <2> QED
      BY <1>1, <2>1 DEF IsBehind, Pages!Boosted
  <1>5. IsFiniteSet(pushed') /\ Cardinality(pushed') <= changes'
    <2>1. IsFiniteSet(pushed) /\ Cardinality(pushed) <= changes /\ Cardinality(pushed) \in Nat /\ changes \in Nat
      BY FS_CardinalityType DEF FeedInv
    <2>2. pushed' = pushed \/ pushed' = pushed \cup {p}
      BY <1>1 DEF Liked
    <2>3. IsFiniteSet(pushed') /\ Cardinality(pushed') <= Cardinality(pushed) + 1 /\ Cardinality(pushed') \in Nat
      <3>1. CASE pushed' = pushed
        BY <2>1, <3>1
      <3>2. CASE pushed' = pushed \cup {p}
        <4>1. IsFiniteSet(pushed \cup {p}) /\ Cardinality(pushed \cup {p}) \in {Cardinality(pushed), Cardinality(pushed) + 1}
          BY <2>1, FS_AddElement
        <4> QED
          BY <2>1, <3>2, <4>1
      <3> QED
        BY <2>2, <3>1, <3>2
    <2> QED
      BY <1>1, <2>1, <2>3
  <1>6. /\ shown \in Seq(Look) /\ \A l_1 \in Look \ Moved : l_1 \in Shown <=> IsBehind(Liked, l_1)
        /\ \A i, j \in DOMAIN shown : i < j /\ shown[i] = shown[j] => shown[i] \in Moved
        /\ cursor \in [score : Int, code : Look] /\ changes \in Nat
    BY <1>1 DEF FeedInv
  <1>7. \A k \in Look \ Moved' : k \in Shown' <=> IsBehind(Liked, k)'
    BY <1>3, <1>4, <1>6
  <1> QED
    BY <1>1, <1>3, <1>5, <1>6, <1>7 DEF FeedInv

LEMMA FeedStep ==
    ASSUME FeedAssumptions, FeedInv, [Pages!Next]_(Pages!vars)
    PROVE  FeedInv'
  <1>0. saved \in Seq(Look \cup {None}) /\ RowsRead \in Nat
    BY DEF FeedInv, FeedAssumptions
  <1>1. CASE UNCHANGED <<saved, cursor, shown, touched, pushed, browsing>> /\ changes' \in {changes, changes + 1}
    <2>1. Shown' = Shown /\ Liked' = Liked /\ Moved' = Moved
      BY <1>1 DEF Shown, Liked, Moved, Pages!Preferred
    <2>2. \A l : IsBehind(Liked, l)' <=> IsBehind(Liked, l)
      BY <1>1, <2>1 DEF IsBehind, Pages!Boosted
    <2>3. Cardinality(pushed) \in Nat
      BY FS_CardinalityType DEF FeedInv
    <2>4. changes' \in Nat /\ Cardinality(pushed') <= changes' /\ IsFiniteSet(pushed')
      BY <1>1, <2>3 DEF FeedInv
    <2> QED
      BY <1>1, <2>1, <2>2, <2>4 DEF FeedInv
  <1>2. CASE Pages!NextPage
    BY <1>2, FeedWindow DEF Pages!NextPage, Liked
  <1>3. CASE Pages!NextPageUnread
    <2>1. /\ Pages!Window({}) /\ browsing \in {"no", "more"} /\ touched' = touched \cup Liked
          /\ UNCHANGED <<saved, pushed>> /\ changes' = changes + 1
      BY <1>3 DEF Pages!NextPageUnread, Liked
    <2>2. \A l \in Look \ Moved' : Pages!Boosted({}, l) = Pages!Boosted(Liked, l)
      BY <2>1 DEF Pages!Boosted, Moved
    <2> QED
      BY <2>1, <2>2, FeedWindow
  <1>4. ASSUME NEW l \in Look \cup {None}, Pages!Save(l)
        PROVE  FeedInv'
    <2>1. PICK place \in 1 .. Len(saved) + 1 : Pages!React(l, Pages!InsertAt(saved, place, l))
      BY <1>4 DEF Pages!Save
    <2> DEFINE more == Pages!InsertAt(saved, place, l)
    <2> HIDE DEF more
    <2>2. /\ more \in Seq(Look \cup {None})
          /\ Pages!Preferred(more) \ Pages!Preferred(saved) \subseteq {l}
          /\ \E p : Pages!Preferred(saved) \ Pages!Preferred(more) \subseteq {p}
      BY <1>0, RowComes DEF more
    <2>3. Pages!React(l, more)
      BY <2>1 DEF more
    <2>4. PICK p : Pages!Preferred(saved) \ Pages!Preferred(more) \subseteq {p}
      BY <2>2
    <2>5. (Pages!Preferred(saved) \ Pages!Preferred(more)) \cup (Pages!Preferred(more) \ Pages!Preferred(saved))
              \subseteq {l, p}
      BY <2>2, <2>4
    <2> QED
      BY <2>2, <2>3, <2>5, FeedReact
  <1>5. CASE Pages!Unsave
    <2>1. PICK place \in DOMAIN saved : Pages!React(saved[place], Pages!RemoveAt(saved, place))
      BY <1>5 DEF Pages!Unsave
    <2> DEFINE less == Pages!RemoveAt(saved, place)
               l == saved[place]
    <2> HIDE DEF less
    <2>2. /\ less \in Seq(Look \cup {None})
          /\ Pages!Preferred(saved) \ Pages!Preferred(less) \subseteq {l}
          /\ \E p : Pages!Preferred(less) \ Pages!Preferred(saved) \subseteq {p}
      BY <1>0, RowGoes DEF less
    <2> HIDE DEF l
    <2>3. Pages!React(l, less)
      BY <2>1 DEF less, l
    <2>4. PICK p : Pages!Preferred(less) \ Pages!Preferred(saved) \subseteq {p}
      BY <2>2
    <2>5. (Pages!Preferred(saved) \ Pages!Preferred(less)) \cup (Pages!Preferred(less) \ Pages!Preferred(saved))
              \subseteq {l, p}
      BY <2>2, <2>4
    <2> QED
      BY <2>2, <2>3, <2>5, FeedReact
  <1> QED
    BY <1>1, <1>2, <1>3, <1>4, <1>5
    DEF Pages!Next, Pages!BrowseFeed, Pages!GatherPool, Pages!Count, Pages!ReadPage, Pages!Insert,
        Pages!Withdraw, Pages!vars, Pages!feed

LEMMA FeedIsFollowed ==
    ASSUME FeedInv
    PROVE  Pages!UnchangedLooksAreShownOnce
  <1>1. Pages!Range(shown) = Shown
    BY DEF Pages!Range, Shown
  <1> QED
    BY <1>1, PagesCardinality DEF FeedInv, Moved, Pages!UnchangedLooksAreShownOnce

-----------------------------------------------------------------------------
(* Sets of numbers as sequences, from the least to the greatest.              *)

Older == {e \in Int \X Int : e[1] < e[2]}

Lists(q, S) ==
    /\ q \in Seq(Int)
    /\ \A i, j \in DOMAIN q : i < j => q[i] < q[j]
    /\ \A i \in DOMAIN q : q[i] \in S
    /\ \A x \in S : \E i \in DOMAIN q : q[i] = x

Held(q) == {q[i] : i \in DOMAIN q}

First(q, m) == {q[i] : i \in 1 .. m}

LEMMA OlderIsOrder == \A S \in SUBSET Int : IsOrder(Older, S)
  BY DEF IsOrder, Older

LEMMA OrderedAt ==
    ASSUME NEW S \in SUBSET Int
    PROVE  Feed!Ordered(S) = [n \in 1 .. Cardinality(S) |-> CHOOSE x \in S : Rank(Older, S, x) = n - 1]
  <1>1. \A x \in S : Before(Older, S, x) = {j \in S : j < x}
    BY DEF Before, Older
  <1>2. \A x \in S : Rank(Older, S, x) = Feed!Cardinality({j \in S : j < x})
    BY <1>1 DEF Rank, Feed!Cardinality, Cardinality
  <1> DEFINE A(n) == CHOOSE x \in S : Rank(Older, S, x) = n
             B(n) == CHOOSE x \in S : Feed!Cardinality({j \in S : j < x}) = n
  <1>3. \A n : A(n) = B(n)
    BY <1>2
  <1>4. Feed!Cardinality(S) = Cardinality(S)
    BY DEF Feed!Cardinality, Cardinality
  <1>5. Feed!Ordered(S) = [n \in 1 .. Cardinality(S) |-> B(n - 1)]
    BY <1>4 DEF Feed!Ordered
  <1>6. [n \in 1 .. Cardinality(S) |-> A(n - 1)] = [n \in 1 .. Cardinality(S) |-> B(n - 1)]
    <2> HIDE DEF A, B
    <2> QED
      BY <1>3
  <1> QED
    BY <1>5, <1>6

LEMMA OrderedLists ==
    ASSUME NEW S \in SUBSET Int, IsFiniteSet(S)
    PROVE  /\ Lists(Feed!Ordered(S), S)
           /\ Len(Feed!Ordered(S)) = Cardinality(S)
  <1> DEFINE q == Feed!Ordered(S)
             n == Cardinality(S)
  <1>1. /\ IsOrder(Older, S) /\ n \in Nat
        /\ \A x \in S : Rank(Older, S, x) \in 0 .. n - 1
        /\ \A x, y \in S : Rank(Older, S, x) = Rank(Older, S, y) => x = y
        /\ \A k \in 0 .. n - 1 : \E x \in S : Rank(Older, S, x) = k
    <2>1. IsOrder(Older, S)
      BY OlderIsOrder
    <2> QED
      BY <2>1, Ranks
  <1>2. q = [k \in 1 .. n |-> CHOOSE x \in S : Rank(Older, S, x) = k - 1]
    BY OrderedAt
  <1>3. ASSUME NEW k \in 1 .. n
        PROVE  q[k] \in S /\ Rank(Older, S, q[k]) = k - 1
    <2>1. k - 1 \in 0 .. n - 1
      BY <1>1
    <2>2. \E x \in S : Rank(Older, S, x) = k - 1
      BY <1>1, <2>1
    <2> QED
      BY <1>2, <2>2
  <1>4. DOMAIN q = 1 .. n /\ q \in Seq(Int) /\ Len(q) = n
    <2>1. q \in [1 .. n -> Int]
      <3>1. DOMAIN q = 1 .. n /\ \A k \in 1 .. n : q[k] \in Int
        BY <1>2, <1>3
      <3>2. q = [k \in 1 .. n |-> q[k]]
        BY <1>2
      <3> HIDE DEF q
      <3> QED
        BY <3>1, <3>2
    <2> HIDE DEF q, n
    <2> QED
      BY <1>1, <2>1
  <1> HIDE DEF q, n
  <1>5. ASSUME NEW i \in 1 .. n, NEW j \in 1 .. n, i < j
        PROVE  q[i] < q[j]
    <2>1. q[i] \in S /\ q[j] \in S /\ Rank(Older, S, q[i]) < Rank(Older, S, q[j])
          /\ Rank(Older, S, q[i]) \in Int /\ Rank(Older, S, q[j]) \in Int
      BY <1>1, <1>3, <1>5
    <2>2. ~ (q[j] < q[i])
      <3>1. q[j] < q[i] => <<q[j], q[i]>> \in Older
        BY <2>1 DEF Older
      <3> QED
        BY <1>1, <2>1, <3>1, RankGrows
    <2>3. q[i] # q[j]
      BY <2>1
    <2>4. q[i] \in Int /\ q[j] \in Int
      BY <2>1
    <2> QED
      BY <2>2, <2>3, <2>4
  <1>6. ASSUME NEW x \in S
        PROVE  \E k \in 1 .. n : q[k] = x
    <2> DEFINE k == Rank(Older, S, x) + 1
    <2>1. k \in 1 .. n /\ k - 1 = Rank(Older, S, x)
      BY <1>1
    <2> HIDE DEF k
    <2>2. q[k] \in S /\ Rank(Older, S, q[k]) = Rank(Older, S, x)
      BY <1>3, <2>1
    <2>3. q[k] = x
      BY <1>1, <2>2
    <2> QED
      BY <2>1, <2>3
  <1> QED
    BY <1>3, <1>4, <1>5, <1>6 DEF Lists, q, n

LEMMA ListHolds ==
    ASSUME NEW q, NEW S, Lists(q, S)
    PROVE  Held(q) = S
  BY DEF Lists, Held

(* There is one such sequence of a set. *)
LEMMA ListIsOrdered ==
    ASSUME NEW q, NEW S, Lists(q, S)
    PROVE  /\ q = Feed!Ordered(S) /\ IsFiniteSet(S) /\ Cardinality(S) = Len(q) /\ S \in SUBSET Int
  <1> DEFINE n == Len(q)
  <1>1. /\ q \in Seq(Int) /\ DOMAIN q = 1 .. n /\ n \in Nat /\ \A i \in 1 .. n : q[i] \in S /\ q[i] \in Int
        /\ \A i, j \in 1 .. n : i < j => q[i] < q[j]
        /\ \A x \in S : \E i \in 1 .. n : q[i] = x
    BY DEF Lists
  <1> HIDE DEF n
  <1>2. S \in SUBSET Int
    BY <1>1
  <1>3. ASSUME NEW i \in 1 .. n, NEW j \in 1 .. n
        PROVE  /\ q[i] < q[j] <=> i < j
               /\ q[i] = q[j] => i = j
    <2>1. i < j \/ i = j \/ j < i
      BY <1>1
    <2>2. q[i] \in Int /\ q[j] \in Int
      BY <1>1
    <2> QED
      BY <1>1, <2>1, <2>2
  <1>4. ASSUME NEW m \in 0 .. n
        PROVE  LET P == {q[i] : i \in 1 .. m} IN IsFiniteSet(P) /\ Cardinality(P) = m
    <2> DEFINE P == {q[i] : i \in 1 .. m}
               f == [i \in 1 .. m |-> q[i]]
    <2>0. m \in Nat /\ \A i \in 1 .. m : i \in 1 .. n
      BY <1>1
    <2>1. IsFiniteSet(1 .. m) /\ Cardinality(1 .. m) = m
      <3>1. IsFiniteSet(1 .. m) /\ Cardinality(1 .. m) = IF 1 > m THEN 0 ELSE m - 1 + 1
        BY <2>0, FS_Interval
      <3> QED
        BY <2>0, <3>1
    <2>2. f \in Injection(1 .. m, P) /\ f \in Surjection(1 .. m, P)
      <3>1. f \in [1 .. m -> P]
        OBVIOUS
      <3>2. \A i, j \in 1 .. m : f[i] = f[j] => i = j
        BY <1>3, <2>0
      <3> QED
        BY <3>1, <3>2 DEF Injection, IsInjective, Surjection
    <2>3. f \in Bijection(1 .. m, P)
      BY <2>2 DEF Bijection
    <2> QED
      BY <2>1, <2>3, FS_Bijection DEF ExistsBijection
  <1>5. IsFiniteSet(S) /\ Cardinality(S) = n
    <2>1. S = {q[i] : i \in 1 .. n}
      BY <1>1
    <2>2. n \in 0 .. n
      BY <1>1
    <2> QED
      BY <1>4, <2>1, <2>2
  <1>6. ASSUME NEW i \in 1 .. n
        PROVE  Rank(Older, S, q[i]) = i - 1
    <2>1. Before(Older, S, q[i]) = {q[k] : k \in 1 .. i - 1}
      <3>1. Before(Older, S, q[i]) = {x \in S : x < q[i]}
        BY <1>1, <1>2 DEF Before, Older
      <3>2. ASSUME NEW x \in S, x < q[i] PROVE \E k \in 1 .. i - 1 : x = q[k]
        <4>1. PICK k \in 1 .. n : q[k] = x
          BY <1>1
        <4>2. k < i
          BY <1>3, <3>2, <4>1
        <4> QED
          BY <4>1, <4>2
      <3>3. ASSUME NEW k \in 1 .. i - 1 PROVE q[k] \in S /\ q[k] < q[i]
        BY <1>1
      <3> QED
        BY <3>1, <3>2, <3>3
    <2>2. i - 1 \in 0 .. n
      BY <1>1
    <2> QED
      BY <1>4, <2>1, <2>2 DEF Rank
  <1>7. ASSUME NEW k \in 1 .. n
        PROVE  q[k] = CHOOSE x \in S : Rank(Older, S, x) = k - 1
    <2>1. q[k] \in S /\ Rank(Older, S, q[k]) = k - 1
      BY <1>1, <1>6
    <2>2. ASSUME NEW x \in S, Rank(Older, S, x) = k - 1 PROVE x = q[k]
      <3>1. PICK j \in 1 .. n : q[j] = x
        BY <1>1
      <3>2. j - 1 = k - 1
        BY <1>6, <2>2, <3>1
      <3> QED
        BY <1>1, <3>1, <3>2
    <2> QED
      BY <2>1, <2>2
  <1>8. q = [k \in 1 .. n |-> CHOOSE x \in S : Rank(Older, S, x) = k - 1]
    <2>1. q = [k \in 1 .. n |-> q[k]]
      BY <1>1
    <2> QED
      BY <1>7, <2>1
  <1>9. q = Feed!Ordered(S)
    BY <1>2, <1>5, <1>8, OrderedAt
  <1> QED
    BY <1>2, <1>5, <1>9 DEF n

(* The beginning of a list lists the least.                                   *)
LEMMA ListBegins ==
    ASSUME NEW q, NEW S, Lists(q, S), NEW m \in 0 .. Len(q)
    PROVE  /\ Lists(SubSeq(q, 1, m), First(q, m)) /\ Len(SubSeq(q, 1, m)) = m
           /\ First(q, m) \subseteq S
           /\ \A x \in First(q, m), y \in S : y < x => y \in First(q, m)
           /\ m = Len(q) => First(q, m) = S
  <1> DEFINE n == Len(q)
             p == SubSeq(q, 1, m)
             P == {q[i] : i \in 1 .. m}
  <1>1. /\ q \in Seq(Int) /\ DOMAIN q = 1 .. n /\ n \in Nat /\ \A i \in 1 .. n : q[i] \in S /\ q[i] \in Int
        /\ \A i, j \in 1 .. n : i < j => q[i] < q[j]
        /\ \A x \in S : \E i \in 1 .. n : q[i] = x
    BY DEF Lists
  <1>2. p \in Seq(Int) /\ Len(p) = m /\ DOMAIN p = 1 .. m /\ \A i \in 1 .. m : p[i] = q[i] /\ i \in 1 .. n
    BY <1>1, SubSeqProperties
  <1> HIDE DEF n, p
  <1>3. Lists(p, P)
    <2>1. \A i, j \in 1 .. m : i < j => p[i] < p[j]
      BY <1>1, <1>2
    <2>2. \A i \in 1 .. m : p[i] \in P
      BY <1>2
    <2>3. \A x \in P : \E i \in 1 .. m : p[i] = x
      BY <1>2
    <2> HIDE DEF P
    <2> QED
      BY <1>2, <2>1, <2>2, <2>3 DEF Lists
  <1>4. P \subseteq S
    BY <1>1, <1>2
  <1>5. ASSUME NEW x \in P, NEW y \in S, y < x PROVE y \in P
    <2>1. PICK i \in 1 .. m : x = q[i]
      OBVIOUS
    <2>2. PICK j \in 1 .. n : y = q[j]
      BY <1>1
    <2>3. i \in 1 .. n /\ q[i] \in Int /\ q[j] \in Int
      BY <1>1, <1>2
    <2>4. j < i
      <3>1. j = i \/ i < j \/ j < i
        BY <1>1, <2>3
      <3> QED
        BY <1>1, <1>5, <2>1, <2>2, <2>3, <3>1
    <2>5. j \in 1 .. m
      BY <2>4
    <2> QED
      BY <2>2, <2>5
  <1>6. ASSUME m = n PROVE P = S
    BY <1>1, <1>6
  <1>7. First(q, m) = P
    BY DEF First
  <1> HIDE DEF P
  <1> QED
    BY <1>2, <1>3, <1>4, <1>5, <1>6, <1>7 DEF n, p

(* A list and another of what comes after are a list.                         *)
LEMMA ListsJoin ==
    ASSUME NEW q, NEW r, NEW S, NEW T, Lists(q, S), Lists(r, T), \A x \in S, y \in T : x < y
    PROVE  Lists(q \o r, S \cup T)
  <1> DEFINE n == Len(q)
             m == Len(r)
             s == q \o r
  <1>1. /\ q \in Seq(Int) /\ DOMAIN q = 1 .. n /\ n \in Nat /\ \A i \in 1 .. n : q[i] \in S
        /\ \A i, j \in 1 .. n : i < j => q[i] < q[j]
        /\ \A x \in S : \E i \in 1 .. n : q[i] = x
    BY DEF Lists
  <1>2. /\ r \in Seq(Int) /\ DOMAIN r = 1 .. m /\ m \in Nat /\ \A i \in 1 .. m : r[i] \in T
        /\ \A i, j \in 1 .. m : i < j => r[i] < r[j]
        /\ \A x \in T : \E i \in 1 .. m : r[i] = x
    BY DEF Lists
  <1>3. /\ s \in Seq(Int) /\ DOMAIN s = 1 .. n + m
        /\ \A i \in 1 .. n : s[i] = q[i]
        /\ \A i \in 1 .. m : s[n + i] = r[i]
        /\ \A i \in n + 1 .. n + m : s[i] = r[i - n]
    BY <1>1, <1>2
  <1> HIDE DEF n, m, s
  <1>4. ASSUME NEW i \in DOMAIN s, NEW j \in DOMAIN s, i < j PROVE s[i] < s[j]
    <2>0. i \in 1 .. n + m /\ j \in 1 .. n + m /\ i \in Int /\ j \in Int
      BY <1>1, <1>2, <1>3
    <2>1. CASE j <= n
      BY <1>1, <1>3, <1>4, <2>0, <2>1
    <2>2. CASE i > n
      <3>1. i - n \in 1 .. m /\ j - n \in 1 .. m /\ i - n < j - n
        BY <1>1, <1>2, <1>4, <2>0, <2>2
      <3>2. s[i] = r[i - n] /\ s[j] = r[j - n]
        <4>1. i \in n + 1 .. n + m /\ j \in n + 1 .. n + m
          BY <1>1, <1>2, <1>4, <2>0, <2>2
        <4> QED
          BY <1>3, <4>1
      <3> QED
        BY <1>2, <3>1, <3>2
    <2>3. CASE i <= n /\ j > n
      <3>1. i \in 1 .. n /\ j - n \in 1 .. m /\ j \in n + 1 .. n + m
        BY <1>1, <1>2, <2>0, <2>3, SMTT(30)
      <3> QED
        BY <1>1, <1>2, <1>3, <3>1
    <2> QED
      BY <1>1, <2>0, <2>1, <2>2, <2>3
  <1>5. ASSUME NEW i \in DOMAIN s PROVE s[i] \in S \cup T
    <2>1. i \in 1 .. n \/ (i \in n + 1 .. n + m /\ i - n \in 1 .. m)
      BY <1>1, <1>2, <1>3
    <2> QED
      BY <1>1, <1>2, <1>3, <2>1
  <1>6. ASSUME NEW x \in S \cup T PROVE \E i \in DOMAIN s : s[i] = x
    <2>1. CASE x \in S
      <3>1. PICK i \in 1 .. n : q[i] = x
        BY <1>1, <2>1
      <3>2. i \in 1 .. n + m
        BY <1>1, <1>2
      <3> QED
        BY <1>3, <3>1, <3>2
    <2>2. CASE x \in T
      <3>1. PICK i \in 1 .. m : r[i] = x
        BY <1>2, <2>2
      <3>2. n + i \in 1 .. n + m
        BY <1>1, <1>2
      <3> QED
        BY <1>3, <3>1, <3>2
    <2> QED
      BY <2>1, <2>2
  <1> QED
    BY <1>3, <1>4, <1>5, <1>6 DEF Lists, s

-----------------------------------------------------------------------------
(* PagedSources: what is collected.                                           *)

CollectAssumptions ==
    /\ MaxRecords \in Nat /\ MaxPages \in Nat
    /\ SourceBatch \in Nat \ {0} /\ PageCap \in Nat \ {0} /\ PageLimit \in Nat \ {0}
    /\ None \notin Nat
    /\ \A l \in Listings : Len(l) \in Nat /\ DOMAIN l = 1 .. Len(l)

(* PA-API was asked for pages of one size.                                    *)
Same == provider = "paapi" => Cardinality(asked) <= 1

Taken == Held(collected)

Usables == Feed!Usable(DOMAIN listing)

(* The items of the pages before a continuation.                              *)
FrontAt(next) ==
    IF next = None THEN 0
    ELSE IF provider = "paapi" THEN (next - 1) * (CHOOSE k \in asked : TRUE)
    ELSE IF provider = "rainforest" THEN (next - 1) * PageCap
    ELSE next

Front == FrontAt(continuation)

UpTo(n) == {i \in Usables : i <= n}

Finished ==
    \/ Usables \subseteq Taken
    \/ blank \/ turns = MaxPages
    \/ provider = "rainforest" /\ ~ stated
    \/ provider = "paapi" /\ turns = PageLimit

(* Where the collection is.                                                   *)
CollectPosition ==
    /\ leg # "ended" =>
          /\ verdict = "none"
          /\ continuation # None => asked # {}
          /\ provider \in {"paapi", "rainforest"} =>
                IF continuation = None THEN turns = 0 ELSE continuation = turns + 1
          /\ provider = "paapi" => turns < PageLimit
    /\ leg \in {"sending", "waiting"} =>
          Len(collected) < MaxRecords /\ turns < MaxPages /\ Feed!Count \in asked

(* What is collected is the beginning of the list: what is usable before the  *)
(* place where the next page begins.                                          *)
CollectedSoFar ==
    /\ Lists(collected, Taken) /\ Taken \subseteq Usables
    /\ \A i \in Taken, j \in Usables : j < i => j \in Taken
    /\ leg # "ended" /\ Len(collected) < MaxRecords => Taken = UpTo(Front)
    /\ verdict = "completed" /\ Len(collected) < MaxRecords => Finished

CollectInv ==
    /\ provider \in Feed!Providers /\ listing \in Listings
    /\ turns \in 0 .. MaxPages /\ continuation \in Nat \cup {None}
    /\ collected \in Seq(Int) /\ Len(collected) <= MaxRecords
    /\ asked \in SUBSET Nat /\ IsFiniteSet(asked)
    /\ CollectPosition
    /\ Same => CollectedSoFar

LEMMA ListingType ==
    ASSUME CollectAssumptions, listing \in Listings
    PROVE  /\ Len(listing) \in Nat /\ DOMAIN listing = 1 .. Len(listing)
           /\ Usables \subseteq DOMAIN listing
           /\ \A places \in SUBSET DOMAIN listing :
                 /\ Feed!Usable(places) \in SUBSET Int /\ IsFiniteSet(Feed!Usable(places))
                 /\ Feed!Usable(places) = places \cap Usables
  <1>1. Len(listing) \in Nat /\ DOMAIN listing = 1 .. Len(listing)
    BY DEF CollectAssumptions
  <1>2. IsFiniteSet(DOMAIN listing)
    BY <1>1, FS_Interval
  <1>3. ASSUME NEW places \in SUBSET DOMAIN listing
        PROVE  /\ Feed!Usable(places) \in SUBSET Int /\ IsFiniteSet(Feed!Usable(places))
               /\ Feed!Usable(places) = places \cap Usables
    <2>1. Feed!Usable(places) \subseteq DOMAIN listing /\ DOMAIN listing \subseteq Int
      BY <1>1 DEF Feed!Usable
    <2>2. Feed!Usable(places) = places \cap Usables
      BY DEF Feed!Usable, Usables
    <2> QED
      BY <1>2, <2>1, <2>2, FS_Subset
  <1> QED
    BY <1>1, <1>3 DEF Usables, Feed!Usable

LEMMA UsablesStay ==
    ASSUME UNCHANGED <<provider, listing>>
    PROVE  Usables' = Usables
  BY DEF Usables, Feed!Usable, Feed!Parses, Feed!PaapiParses, Feed!RainforestParses, Feed!YouTubeParses

LEMMA SizesType ==
    ASSUME CollectAssumptions, Len(collected) \in Nat, Len(collected) < MaxRecords
    PROVE  Feed!Limit \in Nat \ {0} /\ Feed!Count \in Nat \ {0}
  <1>1. MaxRecords - Len(collected) \in Nat \ {0}
    BY DEF CollectAssumptions
  <1>2. Feed!Limit \in Nat \ {0}
    BY <1>1 DEF CollectAssumptions, Feed!Limit, Feed!Least
  <1> QED
    BY <1>2 DEF CollectAssumptions, Feed!Count, Feed!Least

(* As many pages as it takes hold the whole.                                  *)
LEMMA PagesHold ==
    ASSUME NEW n \in Nat, NEW c \in Nat \ {0}, NEW p \in Nat, p >= (n + c - 1) \div c
    PROVE  n <= p * c
  <1> DEFINE d == (n + c - 1) \div c
             r == (n + c - 1) % c
  <1>1. n + c - 1 \in Nat
    OBVIOUS
  <1>2. d \in Nat /\ r \in Nat /\ r < c /\ n + c - 1 = c * d + r
    <2> DEFINE a == n + c - 1
    <2>1. a \in Nat
      BY <1>1
    <2> HIDE DEF a
    <2>2. a \div c \in Int /\ a % c \in 0 .. c - 1 /\ a = (c * (a \div c)) + (a % c)
      BY <2>1
    <2>3. a \div c \in Nat
      BY <2>1
    <2> QED
      BY <2>1, <2>2, <2>3 DEF a
  <1>3. d <= p
    OBVIOUS
  <1> HIDE DEF d, r
  <1>4. d * c <= p * c /\ d * c \in Nat /\ p * c \in Nat
    BY <1>2, <1>3, Times
  <1>5. c * d = d * c
    BY <1>2
  <1> QED
    BY <1>2, <1>4, <1>5

LEMMA CollectInit ==
    ASSUME CollectAssumptions, Feed!Init
    PROVE  CollectInv
  <1>1. /\ provider \in Feed!Providers /\ listing \in Listings /\ leg = "asking" /\ continuation = None
        /\ turns = 0 /\ collected = <<>> /\ verdict = "none" /\ asked = {}
    BY DEF Feed!Init
  <1>2. IsFiniteSet({}) /\ <<>> \in Seq(Int) /\ Len(<<>>) = 0 /\ DOMAIN <<>> = {}
    BY FS_EmptySet
  <1>3. Taken = {}
    BY <1>1, <1>2 DEF Taken, Held
  <1>4. Lists(collected, Taken)
    BY <1>1, <1>2, <1>3 DEF Lists
  <1>5. UpTo(Front) = {}
    <2>1. Front = 0
      BY <1>1 DEF Front, FrontAt
    <2>2. \A i \in Usables : i \in Nat /\ i >= 1
      BY <1>1, ListingType
    <2> QED
      BY <2>1, <2>2 DEF UpTo
  <1>6. CollectedSoFar
    BY <1>1, <1>3, <1>4, <1>5 DEF CollectedSoFar
  <1>7. CollectPosition
    BY <1>1 DEF CollectPosition, CollectAssumptions
  <1> QED
    BY <1>1, <1>2, <1>6, <1>7 DEF CollectInv, CollectAssumptions

(* A step that asks for nothing new and collects nothing.                     *)
LEMMA CollectRests ==
    ASSUME CollectInv, UNCHANGED <<provider, listing, stated, continuation, turns, collected, asked, blank>>,
           \/ leg' = leg /\ verdict' = verdict
           \/ leg \in {"sending", "waiting"} /\ leg' \in {"sending", "waiting"} /\ verdict' = verdict
           \/ leg' = "ended" /\ verdict' # "completed"
    PROVE  CollectInv'
  <1>1. /\ Same' = Same /\ Taken' = Taken /\ Usables' = Usables /\ Front' = Front
        /\ Finished' = Finished /\ Feed!Count' = Feed!Count
    BY UsablesStay DEF Same, Taken, Front, FrontAt, Finished, Feed!Count, Feed!Limit
  <1>2. UpTo(Front)' = UpTo(Front)
    BY <1>1 DEF UpTo
  <1>3. CollectPosition'
    BY <1>1 DEF CollectInv, CollectPosition
  <1>4. Same' => CollectedSoFar'
    BY <1>1, <1>2 DEF CollectInv, CollectedSoFar
  <1> QED
    BY <1>3, <1>4 DEF CollectInv

LEMMA CollectAsk ==
    ASSUME CollectAssumptions, CollectInv, Feed!Ask
    PROVE  CollectInv'
  <1>1. /\ leg = "asking" /\ verdict = "none"
        /\ UNCHANGED <<provider, listing, stated, continuation, turns, collected, blank>>
    BY DEF Feed!Ask, CollectInv, CollectPosition
  <1>2. Taken' = Taken /\ Usables' = Usables /\ Finished' = Finished /\ Feed!Count' = Feed!Count
    BY <1>1, UsablesStay DEF Taken, Finished, Feed!Count, Feed!Limit
  <1>3. CASE ~ (Len(collected) < MaxRecords /\ turns < MaxPages)
    <2>1. leg' = "ended" /\ verdict' = "completed" /\ asked' = asked
      BY <1>3 DEF Feed!Ask, Feed!End
    <2>2. Len(collected) < MaxRecords => turns = MaxPages
      BY <1>3 DEF CollectInv, CollectAssumptions
    <2>3. Same' = Same
      BY <1>1, <2>1 DEF Same
    <2>4. Same' => CollectedSoFar'
      BY <1>1, <1>2, <2>1, <2>2, <2>3 DEF CollectInv, CollectedSoFar, Finished
    <2>5. CollectPosition'
      BY <2>1 DEF CollectPosition
    <2> QED
      BY <1>1, <2>1, <2>4, <2>5 DEF CollectInv
  <1>4. CASE Len(collected) < MaxRecords /\ turns < MaxPages
    <2>1. leg' \in {"sending", "waiting"} /\ asked' = asked \cup {Feed!Count} /\ verdict' = verdict
      BY <1>4 DEF Feed!Ask
    <2>2. Feed!Count \in Nat \ {0}
      BY <1>4, SizesType DEF CollectInv
    <2>3. asked' \in SUBSET Nat /\ IsFiniteSet(asked') /\ IsFiniteSet(asked)
      BY <2>1, <2>2, FS_AddElement DEF CollectInv
    <2>4. CollectPosition'
      BY <1>1, <1>2, <1>4, <2>1 DEF CollectInv, CollectPosition
    <2>5. ASSUME Same'
          PROVE  CollectedSoFar'
      <3>1. provider = "paapi" => Cardinality(asked) <= Cardinality(asked') /\ Cardinality(asked') <= 1
                                  /\ (asked # {} => asked' = asked)
        <4>1. asked \in SUBSET asked'
          BY <2>1
        <4>2. Cardinality(asked) <= Cardinality(asked')
          BY <2>3, <4>1, FS_Subset
        <4>3. Cardinality(asked) \in Nat /\ Cardinality(asked') \in Nat /\ (asked # {} => Cardinality(asked) # 0)
          BY <2>3, FS_CardinalityType, FS_EmptySet
        <4>4. Cardinality(asked) = Cardinality(asked') => asked = asked'
          BY <2>3, <4>1, FS_Subset
        <4>5. provider = "paapi" => Cardinality(asked') <= 1
          BY <1>1, <2>5 DEF Same
        <4> QED
          BY <4>2, <4>3, <4>4, <4>5
      <3>2. Same
        BY <2>3, <3>1, FS_CardinalityType DEF Same
      <3>3. Front' = Front
        <4>1. continuation # None => asked # {}
          BY <1>1 DEF CollectInv, CollectPosition
        <4>2. CASE continuation = None
          BY <1>1, <4>2 DEF Front, FrontAt
        <4>3. CASE provider # "paapi"
          BY <1>1, <4>3 DEF Front, FrontAt
        <4>4. CASE continuation # None /\ provider = "paapi"
          <5>1. asked' = asked
            BY <3>1, <4>1, <4>4
          <5> QED
            BY <1>1, <5>1 DEF Front, FrontAt
        <4> QED
          BY <4>2, <4>3, <4>4
      <3>4. UpTo(Front)' = UpTo(Front)
        BY <1>2, <3>3 DEF UpTo
      <3> QED
        BY <1>1, <1>2, <2>1, <3>2, <3>4 DEF CollectInv, CollectedSoFar
    <2> QED
      BY <1>1, <2>1, <2>3, <2>4, <2>5 DEF CollectInv
  <1> QED
    BY <1>3, <1>4

(* The page that is read begins where the last ended; another begins where it *)
(* ends, and the last of them holds the end of the list, but for the bounds   *)
(* of Amazon's.                                                               *)
PageFollows(size) ==
    /\ Feed!Page.items = Feed!Places(Front, size)
    /\ Feed!Page.next # None => FrontAt(Feed!Page.next) = Front + size
    /\ Feed!Page.next = None /\ Feed!Page.items # {} =>
          \/ Len(listing) <= Front + size
          \/ provider = "rainforest" /\ ~ stated
          \/ provider = "paapi" /\ turns + 1 = PageLimit

LEMMA PageOfPaapi ==
    ASSUME CollectAssumptions, CollectInv, leg = "waiting", provider = "paapi"
    PROVE  /\ Feed!Page.items \subseteq DOMAIN listing
           /\ Feed!Page.next # None => Feed!Page.next = turns + 2 /\ turns + 1 < PageLimit
           /\ Same => Front \in Nat /\ PageFollows(Feed!Count)
  <1> DEFINE nth == Feed!Start(1)
             c == Feed!Count
             last == IF stated /\ listing # <<>>
                     THEN Feed!Least(PageLimit, Feed!PagesOf(Feed!Count)) ELSE PageLimit
             items == Feed!Places((nth - 1) * c, c)
             n == Len(listing)
  <1>1. Feed!Page = [items |-> items, next |-> IF nth < last /\ items # {} THEN nth + 1 ELSE None]
    BY DEF Feed!Page, Feed!PaapiPage
  <1>2. Feed!Page.items = items /\ Feed!Page.next = IF nth < last /\ items # {} THEN nth + 1 ELSE None
    BY <1>1
  <1>3. c \in Nat \ {0} /\ n \in Nat /\ DOMAIN listing = 1 .. n
    BY SizesType, ListingType DEF CollectInv, CollectPosition
  <1>4. nth = turns + 1 /\ turns \in Nat /\ turns < PageLimit /\ PageLimit \in Nat /\ None \notin Nat
    BY DEF CollectInv, CollectPosition, CollectAssumptions, Feed!Start
  <1>5. Feed!PagesOf(c) \in Int
    BY <1>3 DEF Feed!PagesOf
  <1>6. last \in Int /\ last <= PageLimit /\ (last = PageLimit \/ last = Feed!PagesOf(c))
    BY <1>4, <1>5 DEF Feed!Least
  <1>7. items \subseteq DOMAIN listing
    BY DEF Feed!Places
  <1> HIDE DEF nth, last, items
  <1>8. Feed!Page.next # None => Feed!Page.next = turns + 2 /\ turns + 1 < PageLimit
    <2>1. nth + 1 = turns + 2
      BY <1>4
    <2>2. nth < last => turns + 1 < PageLimit
      BY <1>4, <1>6
    <2> QED
      BY <1>2, <2>1, <2>2
  <1>9. ASSUME Same
        PROVE  Front \in Nat /\ PageFollows(c)
    <2>1. asked = {c}
      <3>1. c \in asked /\ IsFiniteSet(asked) /\ Cardinality(asked) <= 1
        BY <1>9 DEF Same, CollectInv, CollectPosition
      <3>2. {c} \in SUBSET asked /\ IsFiniteSet({c}) /\ Cardinality({c}) = 1
        BY <3>1, FS_Singleton
      <3>3. Cardinality({c}) <= Cardinality(asked) /\ (Cardinality({c}) = Cardinality(asked) => {c} = asked)
        BY <3>1, <3>2, FS_Subset
      <3> QED
        BY <3>1, <3>2, <3>3, FS_CardinalityType
    <2>2. (CHOOSE k \in asked : TRUE) = c
      BY <2>1
    <2>3. Front = turns * c /\ (nth - 1) * c = turns * c /\ turns * c \in Nat
      <3>1. nth - 1 = turns
        BY <1>4
      <3>2. CASE continuation = None
        <4>1. turns = 0
          BY <3>2 DEF CollectInv, CollectPosition
        <4> QED
          BY <1>3, <3>1, <3>2, <4>1 DEF Front, FrontAt
      <3>3. CASE continuation # None
        <4>1. continuation - 1 = turns
          BY <1>4, <3>3 DEF CollectInv, CollectPosition
        <4>2. Front = turns * c
          BY <2>2, <3>3, <4>1 DEF Front, FrontAt
        <4> QED
          BY <1>3, <1>4, <3>1, <4>2
      <3> QED
        BY <3>2, <3>3
    <2>4. (turns + 1) * c = turns * c + c
      BY <1>3, <1>4
    <2>5. ASSUME Feed!Page.next # None PROVE FrontAt(Feed!Page.next) = Front + c
      <3>1. Feed!Page.next - 1 = turns + 1
        BY <1>4, <1>8, <2>5
      <3>2. FrontAt(Feed!Page.next) = (turns + 1) * c
        BY <2>2, <2>5, <3>1 DEF FrontAt
      <3> QED
        BY <2>3, <2>4, <3>2
    <2>6. ASSUME Feed!Page.next = None, items # {}
          PROVE  n <= Front + c \/ turns + 1 = PageLimit
      <3>1. nth >= last
        <4>1. nth + 1 # None
          BY <1>4
        <4> QED
          BY <1>2, <1>4, <1>6, <2>6, <4>1
      <3>2. CASE last = PageLimit
        BY <1>4, <3>1, <3>2
      <3>3. CASE last = Feed!PagesOf(c)
        <4>1. turns + 1 >= (n + c - 1) \div c
          BY <1>4, <3>1, <3>3 DEF Feed!PagesOf
        <4>2. n <= (turns + 1) * c
          <5> HIDE DEF n, c
          <5> QED
            BY <1>3, <1>4, <4>1, PagesHold
        <4> QED
          BY <2>3, <2>4, <4>2
      <3> QED
        BY <1>6, <3>2, <3>3
    <2> QED
      BY <1>2, <2>3, <2>5, <2>6 DEF PageFollows, items
  <1> QED
    BY <1>2, <1>7, <1>8, <1>9 DEF items

LEMMA PageOfRainforest ==
    ASSUME CollectAssumptions, CollectInv, leg = "waiting", provider = "rainforest"
    PROVE  /\ Feed!Page.items \subseteq DOMAIN listing
           /\ Feed!Page.next # None => Feed!Page.next = turns + 2
           /\ Front \in Nat /\ PageFollows(PageCap)
  <1> DEFINE nth == Feed!Start(1)
             last == IF stated THEN Feed!PagesOf(PageCap) ELSE 1
             items == Feed!Places((nth - 1) * PageCap, PageCap)
             n == Len(listing)
  <1>1. Feed!Page = [items |-> items, next |-> IF nth < last THEN nth + 1 ELSE None]
    BY DEF Feed!Page, Feed!RainforestPage
  <1>2. Feed!Page.items = items /\ Feed!Page.next = IF nth < last THEN nth + 1 ELSE None
    BY <1>1
  <1>3. PageCap \in Nat \ {0} /\ n \in Nat
    BY ListingType DEF CollectInv, CollectAssumptions
  <1>4. nth = turns + 1 /\ turns \in Nat /\ None \notin Nat
    BY DEF CollectInv, CollectPosition, CollectAssumptions, Feed!Start
  <1>5. Feed!PagesOf(PageCap) \in Int /\ last \in Int
    BY <1>3 DEF Feed!PagesOf
  <1>6. items \subseteq DOMAIN listing
    BY DEF Feed!Places
  <1>7. Front = turns * PageCap /\ (nth - 1) * PageCap = turns * PageCap /\ turns * PageCap \in Nat
    <2>1. nth - 1 = turns
      BY <1>4
    <2>2. CASE continuation = None
      <3>1. turns = 0
        BY <2>2 DEF CollectInv, CollectPosition
      <3> QED
        BY <1>3, <2>1, <2>2, <3>1 DEF Front, FrontAt
    <2>3. CASE continuation # None
      <3>1. continuation - 1 = turns
        BY <1>4, <2>3 DEF CollectInv, CollectPosition
      <3>2. Front = turns * PageCap
        BY <2>3, <3>1 DEF Front, FrontAt
      <3> QED
        BY <1>3, <1>4, <2>1, <3>2
    <2> QED
      BY <2>2, <2>3
  <1>8. (turns + 1) * PageCap = turns * PageCap + PageCap
    BY <1>3, <1>4
  <1> HIDE DEF nth, last, items
  <1>9. Feed!Page.next # None => Feed!Page.next = turns + 2
    <2>1. nth + 1 = turns + 2
      BY <1>4
    <2> QED
      BY <1>2, <2>1
  <1>10. ASSUME Feed!Page.next # None PROVE FrontAt(Feed!Page.next) = Front + PageCap
    <2>1. Feed!Page.next - 1 = turns + 1
      BY <1>4, <1>9, <1>10
    <2>2. FrontAt(Feed!Page.next) = (turns + 1) * PageCap
      BY <1>10, <2>1 DEF FrontAt
    <2> QED
      BY <1>7, <1>8, <2>2
  <1>11. ASSUME Feed!Page.next = None, stated PROVE n <= Front + PageCap
    <2>1. nth >= Feed!PagesOf(PageCap)
      <3>1. nth + 1 # None
        BY <1>4
      <3> QED
        BY <1>2, <1>4, <1>5, <1>11, <3>1 DEF last
    <2>2. turns + 1 >= (n + PageCap - 1) \div PageCap
      BY <1>4, <2>1 DEF Feed!PagesOf
    <2>3. n <= (turns + 1) * PageCap
      <3> HIDE DEF n
      <3> QED
        BY <1>3, <1>4, <2>2, PagesHold
    <2> QED
      BY <1>7, <1>8, <2>3
  <1> QED
    BY <1>2, <1>6, <1>7, <1>9, <1>10, <1>11 DEF PageFollows, items

LEMMA PageByOffset ==
    ASSUME CollectAssumptions, CollectInv, leg = "waiting", provider \in {"youtube", "seeded"}
    PROVE  /\ Feed!Page.items \subseteq DOMAIN listing
           /\ Feed!Page.next # None => Feed!Page.next \in Nat
           /\ Front \in Nat /\ \E size \in Nat \ {0} : PageFollows(size)
  <1> DEFINE size == IF provider = "youtube" THEN Feed!Count ELSE Feed!Limit
             from == Feed!Start(0)
             n == Len(listing)
  <1>1. size \in Nat \ {0} /\ n \in Nat
    BY SizesType, ListingType DEF CollectInv, CollectPosition
  <1>2. from \in Nat /\ None \notin Nat /\ Front = from
    BY DEF CollectInv, CollectAssumptions, Feed!Start, Front, FrontAt
  <1>3. Feed!Page.items = Feed!Places(from, size)
    BY DEF Feed!Page, Feed!YouTubePage, Feed!SeededPage
  <1>4. Feed!Page.next = IF from + size < n THEN from + size ELSE None
    <2>1. CASE provider = "youtube"
      BY <2>1 DEF Feed!Page, Feed!YouTubePage
    <2>2. CASE provider = "seeded"
      <3> DEFINE end == Feed!Least(from + Feed!Limit, n)
      <3>1. Feed!Page.next = IF end < n THEN end ELSE None
        BY <2>2 DEF Feed!Page, Feed!SeededPage
      <3>2. size = Feed!Limit
        BY <2>2
      <3> HIDE DEF from, n, size
      <3> QED
        BY <1>1, <1>2, <3>1, <3>2 DEF Feed!Least
    <2> QED
      BY <2>1, <2>2
  <1> HIDE DEF size, from
  <1>5. Feed!Page.next # None => FrontAt(Feed!Page.next) = Front + size /\ Feed!Page.next \in Nat
    BY <1>1, <1>2, <1>4 DEF FrontAt
  <1>6. Feed!Page.next = None => n <= Front + size
    BY <1>1, <1>2, <1>4
  <1>7. PageFollows(size)
    BY <1>2, <1>3, <1>5, <1>6 DEF PageFollows
  <1>8. Feed!Page.items \subseteq DOMAIN listing
    BY <1>3 DEF Feed!Places
  <1> QED
    BY <1>1, <1>2, <1>5, <1>7, <1>8

LEMMA AnsweredPage ==
    ASSUME CollectAssumptions, CollectInv, leg = "waiting", NEW got \in Feed!Answers
    PROVE  /\ got.items \subseteq DOMAIN listing /\ got.next \in Nat \cup {None}
           /\ got = Feed!Page \/ got.items = {}
           /\ got.next # None =>
                 /\ provider \in {"paapi", "rainforest"} => got.next = turns + 2
                 /\ provider = "paapi" => turns + 1 < PageLimit
           /\ Same => Front \in Nat /\ \E size \in Nat \ {0} : PageFollows(size)
  <1>1. /\ Feed!Page.items \subseteq DOMAIN listing /\ Feed!Page.next \in Nat \cup {None}
        /\ Feed!Page.next # None =>
              /\ provider \in {"paapi", "rainforest"} => Feed!Page.next = turns + 2
              /\ provider = "paapi" => turns + 1 < PageLimit
        /\ Same => Front \in Nat /\ \E size \in Nat \ {0} : PageFollows(size)
    <2>0. turns + 2 \in Nat
      BY DEF CollectInv, CollectAssumptions
    <2>1. CASE provider = "paapi"
      <3>1. Feed!Count \in Nat \ {0}
        BY SizesType DEF CollectInv, CollectPosition
      <3> QED
        BY <2>0, <2>1, <3>1, PageOfPaapi
    <2>2. CASE provider = "rainforest"
      <3>1. PageCap \in Nat \ {0}
        BY DEF CollectAssumptions
      <3> QED
        BY <2>0, <2>2, <3>1, PageOfRainforest
    <2>3. CASE provider \in {"youtube", "seeded"}
      BY <2>3, PageByOffset
    <2> QED
      BY <2>1, <2>2, <2>3 DEF CollectInv, Feed!Providers
  <1>2. got = Feed!Page \/ got = [items |-> {}, next |-> None]
    BY DEF Feed!Answers
  <1>3. CASE got = Feed!Page
    BY <1>1, <1>3
  <1>4. CASE got = [items |-> {}, next |-> None]
    <2>1. got.items = {} /\ got.next = None
      BY <1>4
    <2> QED
      BY <1>1, <2>1
  <1> QED
    BY <1>2, <1>3, <1>4

(* A page without a usable record is the end of the list, or is blank.        *)
LEMMA CollectNothing ==
    ASSUME CollectAssumptions, CollectInv, leg = "waiting", NEW got \in Feed!Answers,
           Feed!End("completed"), blank' = (got.items # {} \/ got # Feed!Page),
           UNCHANGED <<provider, listing, stated, continuation, turns, collected, asked>>
    PROVE  CollectInv'
  <1>1. Same' = Same /\ Taken' = Taken /\ Usables' = Usables /\ leg' = "ended"
    BY UsablesStay DEF Same, Taken, Feed!End
  <1>2. Len(collected) < MaxRecords
    BY DEF CollectInv, CollectPosition
  <1>3. ASSUME Same, got.items = {}, got = Feed!Page
        PROVE  Usables \subseteq Taken
    <2>1. PICK size \in Nat \ {0} : PageFollows(size)
      BY <1>3, AnsweredPage
    <2>2. Front \in Nat /\ Feed!Places(Front, size) = {} /\ Taken = UpTo(Front)
      BY <1>2, <1>3, <2>1, AnsweredPage DEF PageFollows, CollectInv, CollectedSoFar
    <2>3. Len(listing) \in Nat /\ DOMAIN listing = 1 .. Len(listing) /\ Usables \subseteq DOMAIN listing
      BY ListingType DEF CollectInv
    <2>4. Len(listing) <= Front
      <3>1. ASSUME Front + 1 \in DOMAIN listing PROVE FALSE
        <4>1. Front + 1 \in Feed!Places(Front, size)
          BY <2>2, <3>1 DEF Feed!Places
        <4> QED
          BY <2>2, <4>1
      <3> QED
        BY <2>2, <2>3, <3>1
    <2> QED
      BY <2>2, <2>3, <2>4 DEF UpTo
  <1>4. Same' => CollectedSoFar'
    <2>1. Same => Finished'
      BY <1>1, <1>3 DEF Finished
    <2> QED
      BY <1>1, <2>1 DEF CollectInv, CollectedSoFar
  <1>5. CollectPosition'
    BY <1>1 DEF CollectPosition
  <1> QED
    BY <1>4, <1>5 DEF CollectInv

(* The records of a page are taken up to the bound.                           *)
LEMMA CollectPage ==
    ASSUME CollectAssumptions, CollectInv, leg = "waiting", NEW got \in Feed!Answers,
           NEW records, records = Feed!Ordered(Feed!Usable(got.items)), records # <<>>,
           collected' = collected \o
               SubSeq(records, 1, Feed!Least(Len(records), MaxRecords - Len(collected))),
           turns' = turns + 1, continuation' = got.next,
           IF continuation' = None THEN Feed!End("completed") ELSE leg' = "asking" /\ UNCHANGED verdict,
           UNCHANGED <<provider, listing, stated, asked, blank>>
    PROVE  CollectInv'
  <1> DEFINE U == Feed!Usable(got.items)
             m == Feed!Least(Len(records), MaxRecords - Len(collected))
             part == SubSeq(records, 1, m)
             P == First(records, m)
  <1>1. /\ Len(collected) < MaxRecords /\ turns < MaxPages /\ verdict = "none" /\ asked # {}
        /\ Len(collected) \in Nat /\ MaxRecords \in Nat /\ MaxPages \in Nat /\ turns \in Nat
        /\ collected \in Seq(Int)
    BY DEF CollectInv, CollectPosition, CollectAssumptions
  <1>2. /\ U \in SUBSET Int /\ IsFiniteSet(U) /\ U = got.items \cap Usables
    BY AnsweredPage, ListingType DEF CollectInv
  <1>3. Lists(records, U) /\ Len(records) \in Nat /\ records \in Seq(Int)
    <2>1. records = Feed!Ordered(U)
      OBVIOUS
    <2> HIDE DEF U
    <2>2. Lists(records, U)
      BY <1>2, <2>1, OrderedLists
    <2> QED
      BY <2>2 DEF Lists
  <1>4. got.items # {} /\ got = Feed!Page
    <2>1. U = {} => Len(records) = 0
      BY <1>2, OrderedLists, FS_EmptySet
    <2>2. U # {}
      BY <1>3, <2>1
    <2> QED
      BY <1>2, <2>2, AnsweredPage
  <1>5. /\ m \in 0 .. Len(records) /\ Len(collected) + m <= MaxRecords
        /\ Len(collected) + m < MaxRecords => m = Len(records)
    BY <1>1, <1>3 DEF Feed!Least
  <1>6. /\ Lists(part, P) /\ Len(part) = m /\ P \subseteq U
        /\ \A x \in P, y \in U : y < x => y \in P
        /\ m = Len(records) => P = U
    <2> HIDE DEF m, U
    <2>1. Lists(records, U)
      BY <1>3
    <2>2. m \in 0 .. Len(records)
      BY <1>5
    <2> QED
      BY <2>1, <2>2, ListBegins
  <1> HIDE DEF U, m, part, P
  <1>7. collected' = collected \o part
    BY DEF part, m
  <1>8. collected' \in Seq(Int) /\ Len(collected') = Len(collected) + m
    <2>1. part \in Seq(Int) /\ collected \in Seq(Int) /\ Len(part) = m
      BY <1>1, <1>6 DEF Lists
    <2>2. collected \o part \in Seq(Int) /\ Len(collected \o part) = Len(collected) + Len(part)
      BY <2>1, ConcatProperties
    <2> QED
      BY <1>7, <2>1, <2>2
  <1>9. CollectPosition'
    <2>1. continuation' # None => leg' = "asking" /\ verdict' = "none"
      BY <1>1
    <2>2. continuation' = None => leg' = "ended"
      BY DEF Feed!End
    <2>3. continuation' # None => /\ provider \in {"paapi", "rainforest"} => continuation' = turns' + 1
                                  /\ provider = "paapi" => turns' < PageLimit
      <3>1. turns + 2 = turns + 1 + 1
        BY <1>1
      <3> QED
        BY <3>1, AnsweredPage
    <2> QED
      BY <1>1, <2>1, <2>2, <2>3 DEF CollectPosition
  <1>10. ASSUME Same'
         PROVE  CollectedSoFar'
    <2>1. Same /\ Usables' = Usables
      <3>1. Same' = Same
        BY DEF Same
      <3>2. Usables' = Usables
        BY UsablesStay
      <3> QED
        BY <1>10, <3>1, <3>2
    <2>2. Front \in Nat /\ \E size \in Nat \ {0} : PageFollows(size)
      BY <2>1, AnsweredPage
    <2>3. PICK size \in Nat \ {0} : PageFollows(size)
      BY <2>2
    <2>4. Lists(collected, Taken) /\ Taken = UpTo(Front) /\ Taken \subseteq Usables
      BY <1>1, <2>1 DEF CollectInv, CollectedSoFar
    <2>5. U = {i \in Usables : Front < i /\ i <= Front + size} /\ Usables \subseteq Int
      <3>1. got.items = Feed!Places(Front, size)
        BY <1>4, <2>3 DEF PageFollows
      <3>2. Usables \subseteq DOMAIN listing /\ DOMAIN listing \subseteq Int
        BY ListingType DEF CollectInv
      <3> QED
        BY <1>2, <3>1, <3>2 DEF Feed!Places
    <2>6. Lists(collected', Taken \cup P)
      <3>1. \A x \in Taken, y \in P : x < y
        BY <1>6, <2>2, <2>4, <2>5 DEF UpTo
      <3>2. Lists(collected, Taken)
        BY <2>4
      <3>3. Lists(part, P)
        BY <1>6
      <3>4. Lists(collected \o part, Taken \cup P)
        BY <3>1, <3>2, <3>3, ListsJoin
      <3> QED
        BY <1>7, <3>4
    <2>7. Taken' = Taken \cup P
      <3>1. Held(collected') = Taken \cup P
        BY <2>6, ListHolds
      <3> QED
        BY <3>1 DEF Taken
    <2>8. Taken' \subseteq Usables
      BY <1>6, <2>4, <2>5, <2>7
    <2>9. ASSUME NEW i \in Taken', NEW j \in Usables, j < i
          PROVE  j \in Taken'
      <3>1. CASE i \in Taken
        BY <2>1, <2>7, <2>9, <3>1 DEF CollectInv, CollectedSoFar
      <3>2. CASE i \in P
        <4>1. i \in U /\ i \in Int /\ j \in Int
          BY <1>6, <2>5, <3>2
        <4>2. CASE j <= Front
          BY <2>4, <2>7, <4>2 DEF UpTo
        <4>3. CASE j > Front
          <5>1. j \in U
            BY <2>2, <2>5, <2>9, <4>1, <4>3
          <5> QED
            BY <1>6, <2>7, <2>9, <3>2, <5>1
        <4> QED
          BY <2>2, <4>1, <4>2, <4>3
      <3> QED
        BY <2>7, <3>1, <3>2
    <2>10. ASSUME Len(collected') < MaxRecords
           PROVE  Taken' = UpTo(Front + size)
      <3>1. P = U
        BY <1>5, <1>6, <1>8, <2>10
      <3>2. \A i \in Usables : i <= Front + size <=> i <= Front \/ (Front < i /\ i <= Front + size)
        BY <2>2, <2>5
      <3>3. Taken' = UpTo(Front) \cup U
        BY <2>4, <2>7, <3>1
      <3> QED
        BY <2>5, <3>2, <3>3 DEF UpTo
    <2>11. ASSUME leg' # "ended", Len(collected') < MaxRecords
           PROVE  Taken' = UpTo(Front)'
      <3>1. continuation' # None
        BY <2>11 DEF Feed!End
      <3>2. Front' = FrontAt(got.next)
        BY <3>1 DEF Front, FrontAt
      <3>3. Front' = Front + size
        BY <1>4, <2>3, <3>1, <3>2 DEF PageFollows
      <3> QED
        BY <2>1, <2>10, <2>11, <3>3 DEF UpTo
    <2>12. ASSUME verdict' = "completed", Len(collected') < MaxRecords
           PROVE  Finished'
      <3>1. got.next = None
        BY <1>1, <2>12
      <3>2. \/ Len(listing) <= Front + size
            \/ provider = "rainforest" /\ ~ stated
            \/ provider = "paapi" /\ turns + 1 = PageLimit
        BY <1>4, <2>3, <3>1 DEF PageFollows
      <3>3. CASE Len(listing) <= Front + size
        <4>1. \A i \in Usables : i <= Front + size
          <5>1. \A i \in Usables : i \in Int /\ i <= Len(listing)
            BY ListingType DEF CollectInv
          <5>2. Len(listing) \in Int /\ Front + size \in Int
            BY <2>2, ListingType DEF CollectInv
          <5> QED
            BY <3>3, <5>1, <5>2
        <4>2. Usables' \subseteq Taken'
          BY <2>1, <2>10, <2>12, <4>1 DEF UpTo
        <4> QED
          BY <4>2 DEF Finished
      <3>4. CASE provider = "rainforest" /\ ~ stated
        BY <3>4 DEF Finished
      <3>5. CASE provider = "paapi" /\ turns + 1 = PageLimit
        BY <3>5 DEF Finished
      <3> QED
        BY <3>2, <3>3, <3>4, <3>5
    <2>13. Lists(collected, Taken)'
      BY <2>6, <2>7 DEF Lists
    <2> QED
      BY <2>1, <2>8, <2>9, <2>11, <2>12, <2>13 DEF CollectedSoFar
  <1>11. turns' \in 0 .. MaxPages /\ continuation' \in Nat \cup {None}
    BY <1>1, AnsweredPage
  <1> QED
    BY <1>5, <1>8, <1>9, <1>10, <1>11 DEF CollectInv

LEMMA CollectStep ==
    ASSUME CollectAssumptions, CollectInv, [Feed!Next]_(Feed!vars)
    PROVE  CollectInv'
  <1>1. CASE Feed!Ask
    BY <1>1, CollectAsk
  <1>2. CASE Feed!Send
    BY <1>2, CollectRests DEF Feed!Send
  <1>3. CASE Feed!Fails
    <2>1. PICK came \in Feed!Came : Feed!AmazonFails(came) \/ Feed!YouTubeFails(came) \/ Feed!Refused(came)
      BY <1>3 DEF Feed!Fails
    <2>2. \/ \E seconds : Feed!Retry(came, seconds)
          \/ \E with \in {"transient", "rate_limit", "auth", "payload", "raised"} : Feed!GiveUp(came, with)
      BY <2>1 DEF Feed!AmazonFails, Feed!YouTubeFails, Feed!Refused
    <2>3. leg = "waiting"
      BY <1>3 DEF Feed!Fails
    <2>4. CASE \E seconds : Feed!Retry(came, seconds)
      BY <2>3, <2>4, CollectRests DEF Feed!Retry, Feed!OnlyTime
    <2>5. CASE \E with \in {"transient", "rate_limit", "auth", "payload", "raised"} : Feed!GiveUp(came, with)
      BY <2>5, CollectRests DEF Feed!GiveUp, Feed!End, Feed!OnlyTime
    <2> QED
      BY <2>2, <2>4, <2>5
  <1>4. CASE Feed!Answered
    <2>1. leg = "waiting" /\ UNCHANGED <<provider, listing, stated, asked>>
      BY <1>4 DEF Feed!Answered
    <2>2. PICK got \in Feed!Answers :
             LET records == Feed!Ordered(Feed!Usable(got.items))
             IN  IF \E i \in got.items : Feed!Parses(listing[i]) = "error"
                 THEN Feed!End("raised") /\ UNCHANGED <<tried, continuation, turns, collected, blank>>
                 ELSE IF records = <<>>
                 THEN /\ Feed!End("completed")
                      /\ blank' = (got.items # {} \/ got # Feed!Page)
                      /\ UNCHANGED <<tried, continuation, turns, collected>>
                 ELSE /\ collected' = collected \o
                             SubSeq(records, 1, Feed!Least(Len(records), MaxRecords - Len(collected)))
                      /\ turns' = turns + 1
                      /\ tried' = 0
                      /\ continuation' = got.next
                      /\ IF continuation' = None THEN Feed!End("completed")
                         ELSE leg' = "asking" /\ UNCHANGED verdict
                      /\ UNCHANGED blank
      BY <1>4 DEF Feed!Answered
    <2>3. CASE Feed!End("raised") /\ UNCHANGED <<continuation, turns, collected, blank>>
      BY <2>1, <2>3, CollectRests DEF Feed!End
    <2>4. CASE /\ Feed!End("completed") /\ blank' = (got.items # {} \/ got # Feed!Page)
               /\ UNCHANGED <<continuation, turns, collected>>
      BY <2>1, <2>4, CollectNothing
    <2>5. CASE LET records == Feed!Ordered(Feed!Usable(got.items))
               IN  /\ records # <<>>
                   /\ collected' = collected \o
                          SubSeq(records, 1, Feed!Least(Len(records), MaxRecords - Len(collected)))
                   /\ turns' = turns + 1 /\ continuation' = got.next
                   /\ IF continuation' = None THEN Feed!End("completed")
                      ELSE leg' = "asking" /\ UNCHANGED verdict
                   /\ UNCHANGED blank
      BY <2>1, <2>5, CollectPage
    <2> QED
      BY <2>2, <2>3, <2>4, <2>5
  <1>5. CASE UNCHANGED Feed!vars
    BY <1>5, CollectRests DEF Feed!vars
  <1> QED
    BY <1>1, <1>2, <1>3, <1>4, <1>5 DEF Feed!Next

LEMMA CollectionIsListed == CollectInv => Feed!CollectedAsListed
  <1> SUFFICES ASSUME CollectInv, provider = "paapi" => Feed!Cardinality(asked) <= 1
               PROVE  /\ collected = Feed!Ordered(Taken)
                      /\ \A i \in Taken, j \in Usables : j < i => j \in Taken
                      /\ verdict = "completed" /\ Len(collected) < MaxRecords => Finished
    BY DEF Feed!CollectedAsListed, Feed!ToSet, Taken, Held, Usables, Finished
  <1>1. Feed!Cardinality(asked) = Cardinality(asked)
    BY DEF Feed!Cardinality, Cardinality
  <1>2. CollectedSoFar
    BY <1>1 DEF CollectInv, Same
  <1> QED
    BY <1>2, ListIsOrdered DEF CollectedSoFar

-----------------------------------------------------------------------------
(* A look that is left alone is shown once, whatever else is saved meanwhile. *)
LEMMA FeedIsWhole ==
    ASSUME FeedAssumptions
    PROVE  ServingSpec => []Pages!UnchangedLooksAreShownOnce
  <1>1. Pages!Init => FeedInv
    BY FeedInit
  <1>2. FeedInv /\ [Pages!Next]_(Pages!vars) => FeedInv'
    BY FeedStep
  <1>3. FeedInv => Pages!UnchangedLooksAreShownOnce
    BY FeedIsFollowed
  <1> QED
    BY <1>1, <1>2, <1>3, ServesPages, PTL

(* A pool loses or repeats at most one product for each that came or went.    *)
LEMMA PoolIsWhole ==
    ASSUME PoolPage \in Nat \ {0}, PoolPages \in Nat \ {0}, None \notin Int
    PROVE  ServingSpec => []Pages!PoolLosesOnlyWhatMoved
  <1>1. Pages!Init => PoolInv
    BY PoolInit
  <1>2. PoolInv /\ [Pages!Next]_(Pages!vars) => PoolInv'
    BY PoolStep
  <1>3. PoolInv => Pages!PoolLosesOnlyWhatMoved
    BY PoolIsGathered
  <1> QED
    BY <1>1, <1>2, <1>3, ServesPages, PTL

(* What a provider lists is collected without gap or repeat.                  *)
LEMMA CollectionIsWhole ==
    ASSUME CollectAssumptions
    PROVE  ServingSpec => []Feed!CollectedAsListed
  <1>1. Feed!Init => CollectInv
    BY CollectInit
  <1>2. CollectInv /\ [Feed!Next]_(Feed!vars) => CollectInv'
    BY CollectStep
  <1>3. CollectInv => Feed!CollectedAsListed
    BY CollectionIsListed
  <1> QED
    BY <1>1, <1>2, <1>3, ServesSource, PTL DEF Feed!Spec

(* A reading of a wardrobe misses or repeats at most one item for each that   *)
(* came, went or moved.                                                       *)
LEMMA WardrobeIsWhole ==
    ASSUME NEW Row, ClosetStock \in Seq(Row), SizesArePositive
    PROVE  ServingSpec => []Closet!ReadingsMissOnlyWhatMoved
  <1>1. Closet!Init => ReadInv
    BY ReadInit
  <1>2. ReadInv /\ [Closet!Next]_(Closet!vars) => ReadInv'
    BY ReadStep
  <1>3. ReadInv => Closet!ReadingsMissOnlyWhatMoved
    BY ReadingIsWhole
  <1> QED
    BY <1>1, <1>2, <1>3, ServesWardrobe, PTL

(* Whatever is read page by page while it changes, nothing that is left alone *)
(* is lost or repeated but for what moved: the feed of looks, where a look    *)
(* moves too when a change of others pushes it over the edge of the rows that *)
(* are read, the pool of products, what a provider lists, and a wardrobe.     *)
THEOREM WholeReads ==
    ASSUME FeedAssumptions,
           PoolPage \in Nat \ {0}, PoolPages \in Nat \ {0}, None \notin Int,
           NEW Item, Listings \subseteq Seq(Item), MaxRecords \in Nat, MaxPages \in Nat,
           SourceBatch \in Nat \ {0}, PageCap \in Nat \ {0}, PageLimit \in Nat \ {0},
           NEW Row, ClosetStock \in Seq(Row), SizesArePositive
    PROVE  ServingSpec => []PagesLoseOnlyWhatMoved
  <1>1. ServingSpec => []Pages!UnchangedLooksAreShownOnce
    BY FeedIsWhole
  <1>2. ServingSpec => []Pages!PoolLosesOnlyWhatMoved
    BY PoolIsWhole
  <1>3. ServingSpec => []Feed!CollectedAsListed
    <2>1. \A l \in Listings : Len(l) \in Nat /\ DOMAIN l = 1 .. Len(l)
      OBVIOUS
    <2>2. CollectAssumptions
      BY <2>1 DEF CollectAssumptions
    <2> QED
      BY <2>2, CollectionIsWhole
  <1>4. ServingSpec => []Closet!ReadingsMissOnlyWhatMoved
    BY WardrobeIsWhole
  <1>5. /\ Pages!UnchangedLooksAreShownOnce /\ Pages!PoolLosesOnlyWhatMoved
        /\ Feed!CollectedAsListed /\ Closet!ReadingsMissOnlyWhatMoved
        => PagesLoseOnlyWhatMoved
    BY DEF PagesLoseOnlyWhatMoved
  <1> QED
    BY <1>1, <1>2, <1>3, <1>4, <1>5, PTL

-----------------------------------------------------------------------------
(* Accounts, sessions, events and preferences, which the others rest beside: *)
(* for any number of requests, addresses, keys and event types, and for every *)
(* script.                                                                    *)

(* Where a request has not inserted a row yet. *)
Early == {"idle", "find", "create", "resolve", "find_dev", "insert_dev"}

(* Where a request has found its account. *)
Known == {"issue", "profile", "act", "revoke", "erase", "insert", "get", "update", "delete",
          "patch", "read_prefs", "write_prefs"}

(* What a request is, where its handler has got to. *)
Phase(r) ==
    /\ pc[r] \in {"find", "issue"} => Op(r).kind \in {"register", "login"}
    /\ pc[r] = "create" => Op(r).kind = "register"
    /\ pc[r] \in {"resolve", "find_dev", "insert_dev", "act"} =>
          Op(r).kind \notin {"register", "login"}
    /\ pc[r] \in {"insert", "update", "read_prefs", "write_prefs"} =>
          Op(r).kind \in {"create", "update"}
    /\ pc[r] = "get" => Op(r).kind \in {"update", "delete"}
    /\ pc[r] = "patch" => Op(r).kind = "patch"
    /\ pc[r] \in Known => who[r] \in Request
    /\ answer[r] # "none" => pc[r] = "done"
    /\ r \in fed => pc[r] = "done"

Described(r) == [subject |-> Op(r).email, key |-> Op(r).key, word |-> Op(r).word]

(* A row of users is named by a request past its insert, and so is what has  *)
(* been found, also when it is gone by now.                                  *)
RowsAreLate ==
    /\ \A u \in DOMAIN users : pc[u] \notin Early
    /\ \A r \in Request : who[r] # None => pc[who[r]] \notin Early

(* A registration finds, and has a session of, the account it describes. *)
FindsItsOwn ==
    \A r \in Request : Op(r).kind = "register" =>
        /\ r \in DOMAIN sessions => users[sessions[r].user] = Described(r)
        /\ pc[r] = "issue" /\ who[r] \in DOMAIN users => users[who[r]] = Described(r)

(* What is sent with a dead token is not past its resolution, and the token  *)
(* stays dead: the request that minted it has ended.                         *)
StaleStaysStale ==
    \A r \in stale : /\ pc[r] \in {"resolve", "done"} /\ answer[r] # "ok"
                     /\ token[r] \in Request /\ pc[token[r]] = "done"
                     /\ IsDead(token[r])

AccountsInv ==
    /\ TypeOK
    /\ \A r \in Request : Phase(r)
    /\ RowsAreLate
    /\ RowsHaveOneOwner
    /\ FindsItsOwn
    /\ StaleStaysStale
    /\ OccasionsAreKept

-----------------------------------------------------------------------------

(* What the parameters of a request are. *)
LEMMA OpType ==
    ASSUME TypeOK, NEW r \in Request
    PROVE  /\ Op(r).kind \in {"register", "login", "logout", "erase", "delete", "create",
                              "update", "patch"}
           /\ Op(r).kind = "register" =>
                 Op(r).email \in Subject \ {Dev} /\ Op(r).key \in IdemKey /\ Op(r).word \in Word
           /\ Op(r).kind = "login" => Op(r).email \in Subject \ {Dev} /\ Op(r).word \in Word
           /\ Op(r).kind \in {"create", "update"} => Op(r).type \in Type
           /\ Op(r).kind = "patch" => Op(r).list \subseteq Type
  <1>1. script[r] \in Script
    BY AccountsAssumption DEF TypeOK
  <1>2. CASE script[r] \in Registers
    BY <1>2 DEF Registers, Op
  <1>3. CASE script[r] \in Logins
    BY <1>3 DEF Logins, Op
  <1>4. CASE script[r] \in Others
    BY <1>4 DEF Others, Op
  <1>5. CASE script[r] \in Writes
    BY <1>5 DEF Writes, Op
  <1>6. CASE script[r] \in Patches
    BY <1>6 DEF Patches, Op
  <1> QED
    BY <1>1, <1>2, <1>3, <1>4, <1>5, <1>6 DEF Script

(* What a request does to its own stage and answer it does to no other's. *)
LEMMA GotoType ==
    ASSUME TypeOK, NEW r \in Request, NEW label \in Labels, Goto(r, label)
    PROVE  /\ pc' \in [Request -> Labels] /\ answer' \in [Request -> Answers]
           /\ pc'[r] = label /\ \A q \in Request \ {r} : pc'[q] = pc[q]
           /\ answer' = answer
  BY DEF TypeOK, Goto

LEMMA AnswerType ==
    ASSUME TypeOK, NEW r \in Request, NEW with \in Answers, Answer(r, with)
    PROVE  /\ pc' \in [Request -> Labels] /\ answer' \in [Request -> Answers]
           /\ pc'[r] = "done" /\ answer'[r] = with
           /\ \A q \in Request \ {r} : pc'[q] = pc[q] /\ answer'[q] = answer[q]
  BY DEF TypeOK, Answer, Labels

(* What a step of a request leaves alone. *)
LEMMA StepFrame ==
    ASSUME TypeOK, \A q \in Request : Phase(q), NEW r \in Request, Step(r)
    PROVE  /\ script' = script
           /\ pc' \in [Request -> Labels] /\ answer' \in [Request -> Answers]
           /\ \A q \in Request \ {r} : /\ pc'[q] = pc[q] /\ answer'[q] = answer[q]
                                       /\ who'[q] = who[q] /\ token'[q] = token[q]
                                       /\ q \in fed' <=> q \in fed
                                       /\ q \in stale' <=> q \in stale
           /\ pc[r] # "done"
           /\ pc[r] \notin Early => pc'[r] \notin Early
  <1>0. Phase(r)
    OBVIOUS
  <1>1. CASE Submit(r)
    BY <1>1 DEF Submit, Goto, history, TypeOK, Labels, Answers, Early
  <1>2. CASE Find(r)
    BY <1>2 DEF Find, Goto, Answer, history, TypeOK, Labels, Answers, Early
  <1>3. CASE Create(r)
    BY <1>3 DEF Create, Goto, Answer, history, TypeOK, Labels, Answers, Early
  <1>4. CASE Issue(r)
    BY <1>4 DEF Issue, Goto, Answer, history, TypeOK, Labels, Answers, Early
  <1>5. CASE Profile(r)
    BY <1>5 DEF Profile, Answer, history, TypeOK, Labels, Answers, Early
  <1>6. CASE Resolve(r)
    BY <1>6 DEF Resolve, Goto, Answer, history, TypeOK, Labels, Answers, Early
  <1>7. CASE FindDev(r)
    BY <1>7 DEF FindDev, Goto, history, TypeOK, Labels, Answers, Early
  <1>8. CASE InsertDev(r)
    BY <1>8 DEF InsertDev, Goto, Answer, history, TypeOK, Labels, Answers, Early
  <1>9. CASE Act(r)
    <2>1. Op(r).kind \in {"logout", "erase", "delete", "create", "update", "patch"}
      BY <1>0, <1>9, OpType DEF Act, Phase
    <2> QED
      BY <1>9, <2>1 DEF Act, Goto, history, TypeOK, Labels, Answers, Early
  <1>10. CASE Revoke(r)
    BY <1>10 DEF Revoke, Answer, history, TypeOK, Labels, Answers, Early
  <1>11. CASE Erase(r)
    BY <1>11 DEF Erase, Answer, history, TypeOK, Labels, Answers, Early
  <1>12. CASE Insert(r)
    BY <1>12 DEF Insert, Goto, Answer, history, TypeOK, Labels, Answers, Early
  <1>13. CASE Get(r)
    <2>1. Op(r).kind \in {"update", "delete"}
      BY <1>0, <1>13 DEF Get, Phase
    <2> QED
      BY <1>13, <2>1 DEF Get, Goto, Answer, history, TypeOK, Labels, Answers, Early
  <1>14. CASE Update(r)
    BY <1>14 DEF Update, Goto, Answer, history, TypeOK, Labels, Answers, Early
  <1>15. CASE Delete(r)
    BY <1>15 DEF Delete, Answer, history, TypeOK, Labels, Answers, Early
  <1>16. CASE ReadPrefs(r)
    BY <1>16 DEF ReadPrefs, Goto, Answer, history, TypeOK, Labels, Answers, Early
  <1>17. CASE WritePrefs(r)
    BY <1>17 DEF WritePrefs, Answer, history, TypeOK, Labels, Answers, Early
  <1>18. CASE Patch(r)
    BY <1>18 DEF Patch, Goto, history, TypeOK, Labels, Answers, Early
  <1>19. CASE Die(r)
    BY <1>19 DEF Die, Answer, history, TypeOK, Labels, Answers, Early
  <1> QED
    BY <1>1, <1>2, <1>3, <1>4, <1>5, <1>6, <1>7, <1>8, <1>9, <1>10, <1>11, <1>12, <1>13, <1>14,
       <1>15, <1>16, <1>17, <1>18, <1>19 DEF Step

(* Types, and the stages of the request that takes a step. *)
LEMMA StepPhase ==
    ASSUME TypeOK, \A q \in Request : Phase(q), NEW r \in Request, Step(r)
    PROVE  TypeOK' /\ Phase(r)'
  <1>0. /\ Phase(r) /\ Op(r)' = Op(r)
        /\ pc' \in [Request -> Labels] /\ answer' \in [Request -> Answers]
    BY StepFrame DEF Op
  <1>1. CASE Submit(r)
    BY <1>1, <1>0, OpType DEF Submit, Goto, Minted, Phase, Known, TypeOK, Labels, history
  <1>2. CASE Find(r)
    BY <1>2, <1>0, OpType DEF Find, Goto, Answer, Of, Phase, Known, TypeOK, Labels, history
  <1>3. CASE Create(r)
    <2>1. Described(r) \in User /\ [user |-> r, live |-> TRUE] \in Session
      BY <1>0, <1>3, OpType DEF Create, Phase, Described, User, Session
    <2>2. CASE Of(Op(r).email) = {}
      <3>1. DOMAIN users' \subseteq Request /\ \A u \in DOMAIN users' : users'[u] \in User
        <4>1. users' = Put(users, r, Described(r))
          BY <1>3, <2>2 DEF Create, Described
        <4> QED
          BY <2>1, <4>1 DEF Put, TypeOK
      <3>2. /\ DOMAIN sessions' \subseteq Request
            /\ \A s \in DOMAIN sessions' : sessions'[s] \in Session
        BY <1>3, <2>1, <2>2 DEF Create, Put, TypeOK
      <3>3. DOMAIN prefs' = DOMAIN users' /\ \A u \in DOMAIN prefs' : prefs'[u] \subseteq Type
        BY <1>3, <2>2 DEF Create, Put, TypeOK
      <3>4. /\ pc[r] = "create" /\ Goto(r, "profile") /\ who' = [who EXCEPT ![r] = r]
            /\ UNCHANGED <<script, token, what, seen, events, history>>
        BY <1>3, <2>2 DEF Create
      <3> QED
        BY <1>0, <3>1, <3>2, <3>3, <3>4
        DEF Goto, Phase, Known, TypeOK, Labels, history
    <2>3. CASE Of(Op(r).email) # {}
      BY <1>0, <1>3, <2>3 DEF Create, Answer, Phase, Known, TypeOK, Labels, history
    <2> QED
      BY <2>2, <2>3
  <1>4. CASE Issue(r)
    <2>1. CASE who[r] \in DOMAIN users
      <3>1. [user |-> who[r], live |-> TRUE] \in Session
        BY <2>1 DEF TypeOK, Session
      <3>2. /\ DOMAIN sessions' \subseteq Request
            /\ \A s \in DOMAIN sessions' : sessions'[s] \in Session
        BY <1>4, <2>1, <3>1 DEF Issue, Put, TypeOK
      <3> QED
        BY <1>0, <1>4, <2>1, <3>2 DEF Issue, Goto, Phase, Known, TypeOK, Labels, history
    <2>2. CASE who[r] \notin DOMAIN users
      BY <1>0, <1>4, <2>2 DEF Issue, Answer, Phase, Known, TypeOK, Labels, history
    <2> QED
      BY <2>1, <2>2
  <1>5. CASE Profile(r)
    BY <1>5, <1>0, OpType DEF Profile, Answer, Phase, Known, TypeOK, Labels, history
  <1>6. CASE Resolve(r)
    BY <1>6, <1>0, OpType
    DEF Resolve, Goto, Answer, Resolves, Session, Phase, Known, TypeOK, Labels, history
  <1>7. CASE FindDev(r)
    BY <1>7, <1>0, OpType DEF FindDev, Goto, Of, Phase, Known, TypeOK, Labels, history
  <1>8. CASE InsertDev(r)
    <2>1. CASE Of(Dev) = {}
      <3>1. [subject |-> Dev, key |-> None, word |-> None] \in User
        BY AccountsAssumption DEF User
      <3>2. DOMAIN users' \subseteq Request /\ \A u \in DOMAIN users' : users'[u] \in User
        BY <1>8, <2>1, <3>1 DEF InsertDev, Put, TypeOK
      <3>3. DOMAIN prefs' = DOMAIN users' /\ \A u \in DOMAIN prefs' : prefs'[u] \subseteq Type
        BY <1>8, <2>1 DEF InsertDev, Put, TypeOK
      <3> QED
        BY <1>0, <1>8, <2>1, <3>2, <3>3
        DEF InsertDev, Goto, Phase, Known, TypeOK, Labels, history
    <2>2. CASE Of(Dev) # {}
      BY <1>0, <1>8, <2>2 DEF InsertDev, Answer, Phase, Known, TypeOK, Labels, history
    <2> QED
      BY <2>1, <2>2
  <1>9. CASE Act(r)
    <2>1. Op(r).kind \in {"logout", "erase", "delete", "create", "update", "patch"}
      BY <1>0, <1>9, OpType DEF Act, Phase
    <2> QED
      BY <1>9, <2>1, <1>0, OpType DEF Act, Goto, Phase, Known, TypeOK, Labels, history
  <1>10. CASE Revoke(r)
    BY <1>10, <1>0, OpType
    DEF Revoke, Answer, Ended, Session, Phase, Known, TypeOK, Labels, history
  <1>11. CASE Erase(r)
    BY <1>11, <1>0, OpType
    DEF Erase, Answer, CascadeState, CascadeSessions, Without, Phase, Known, TypeOK, Labels,
        history
  <1>12. CASE Insert(r)
    BY <1>12, <1>0, OpType
    DEF Insert, Goto, Answer, Put, Event, Phase, Known, TypeOK, Labels, history
  <1>13. CASE Get(r)
    <2>1. \A e \in DOMAIN events : e \in Request /\ events[e].type \in Type
      BY DEF TypeOK, Event
    <2>2. what' \in [Request -> [event: Request \cup {None}, type: Type \cup {None}]]
      BY <1>13, <2>1 DEF Get, TypeOK
    <2>3. Op(r).kind \in {"update", "delete"}
      BY <1>0, <1>13 DEF Get, Phase
    <2> QED
      BY <1>0, <1>13, <2>2, <2>3 DEF Get, Goto, Answer, Phase, Known, TypeOK, Labels, history
  <1>14. CASE Update(r)
    BY <1>14, <1>0, OpType
    DEF Update, Goto, Answer, Put, Event, Phase, Known, TypeOK, Labels, history
  <1>15. CASE Delete(r)
    BY <1>15, <1>0, OpType DEF Delete, Answer, Without, Phase, Known, TypeOK, Labels, history
  <1>16. CASE ReadPrefs(r)
    BY <1>16, <1>0, OpType, SMTT(30) DEF ReadPrefs, Goto, Answer, Phase, Known, TypeOK, Labels, history
  <1>17. CASE WritePrefs(r)
    BY <1>17, <1>0, OpType
    DEF WritePrefs, Answer, Extended, Phase, Known, TypeOK, Labels, history
  <1>18. CASE Patch(r)
    BY <1>18, <1>0, OpType DEF Patch, Goto, Phase, Known, TypeOK, Labels, history
  <1>19. CASE Die(r)
    BY <1>19, <1>0, OpType DEF Die, Answer, Phase, Known, TypeOK, Labels, history
  <1> QED
    BY <1>1, <1>2, <1>3, <1>4, <1>5, <1>6, <1>7, <1>8, <1>9, <1>10, <1>11, <1>12, <1>13, <1>14,
       <1>15, <1>16, <1>17, <1>18, <1>19 DEF Step

(* A row belongs to a row of users, and an address has one of them. *)
LEMMA StepOwners ==
    ASSUME TypeOK, RowsHaveOneOwner, NEW r \in Request, Step(r)
    PROVE  RowsHaveOneOwner'
  <1>1. CASE Create(r)
    <2>1. CASE Of(Op(r).email) = {}
      BY <1>1, <2>1 DEF Create, Put, Of, Goto, RowsHaveOneOwner, history
    <2> QED
      BY <1>1, <2>1 DEF Create, RowsHaveOneOwner, history
  <1>2. CASE Issue(r)
    BY <1>2 DEF Issue, Put, RowsHaveOneOwner, history
  <1>3. CASE InsertDev(r)
    <2>1. CASE Of(Dev) = {}
      BY <1>3, <2>1 DEF InsertDev, Put, Of, Goto, RowsHaveOneOwner, history
    <2> QED
      BY <1>3, <2>1 DEF InsertDev, RowsHaveOneOwner, history
  <1>4. CASE Revoke(r)
    BY <1>4 DEF Revoke, Ended, RowsHaveOneOwner, history
  <1>5. CASE Erase(r)
    BY <1>5 DEF Erase, CascadeState, CascadeSessions, Without, RowsHaveOneOwner, history
  <1>6. CASE Insert(r)
    BY <1>6 DEF Insert, Put, RowsHaveOneOwner, history
  <1>7. CASE Update(r)
    BY <1>7 DEF Update, Put, RowsHaveOneOwner, history
  <1>8. CASE Delete(r)
    BY <1>8 DEF Delete, Without, RowsHaveOneOwner, history
  <1>9. CASE \/ Submit(r) \/ Find(r) \/ Profile(r) \/ Resolve(r) \/ FindDev(r)
             \/ Act(r) \/ Get(r) \/ ReadPrefs(r) \/ WritePrefs(r) \/ Patch(r)
             \/ Die(r)
    BY <1>9
    DEF Submit, Find, Profile, Resolve, FindDev, Act, Get, ReadPrefs, WritePrefs, Patch, Die,
        RowsHaveOneOwner
  <1> QED
    BY <1>1, <1>2, <1>3, <1>4, <1>5, <1>6, <1>7, <1>8, <1>9 DEF Step

(* What has been inserted or found is past its insert. *)
LEMMA StepLate ==
    ASSUME TypeOK, \A q \in Request : Phase(q), RowsAreLate, RowsHaveOneOwner,
           NEW r \in Request, Step(r)
    PROVE  RowsAreLate'
  <1>1. \A q \in Request : pc[q] \notin Early => pc'[q] \notin Early
    BY StepFrame
  <1>2. ASSUME DOMAIN users' \subseteq DOMAIN users, who'[r] \in {who[r]} \cup DOMAIN users
        PROVE  RowsAreLate'
    <2>1. \A q \in Request : who'[q] # None => who'[q] \in Request /\ pc[who'[q]] \notin Early
      BY <1>2, StepFrame DEF RowsAreLate, TypeOK
    <2> QED
      BY <1>1, <1>2, <2>1 DEF RowsAreLate, TypeOK
  <1>3. ASSUME DOMAIN users' \subseteq DOMAIN users \cup {r}, who'[r] = r, pc'[r] \notin Early
        PROVE  RowsAreLate'
    <2>1. \A q \in Request \ {r} :
             who'[q] # None => who'[q] \in Request /\ pc[who'[q]] \notin Early
      BY StepFrame DEF RowsAreLate, TypeOK
    <2> QED
      BY <1>1, <1>3, <2>1 DEF RowsAreLate, TypeOK
  <1>4. CASE Find(r)
    BY <1>2, <1>4 DEF Find, Of, TypeOK
  <1>5. CASE Create(r)
    <2>1. CASE Of(Op(r).email) = {}
      BY <1>3, <1>5, <2>1 DEF Create, Put, Goto, Early, TypeOK
    <2> QED
      BY <1>2, <1>5, <2>1 DEF Create, TypeOK
  <1>6. CASE Resolve(r)
    BY <1>2, <1>6 DEF Resolve, Resolves, RowsHaveOneOwner, TypeOK
  <1>7. CASE FindDev(r)
    BY <1>2, <1>7 DEF FindDev, Of, TypeOK
  <1>8. CASE InsertDev(r)
    <2>1. CASE Of(Dev) = {}
      BY <1>3, <1>8, <2>1 DEF InsertDev, Put, Goto, Early, TypeOK
    <2> QED
      BY <1>2, <1>8, <2>1 DEF InsertDev, TypeOK
  <1>9. CASE Erase(r)
    BY <1>2, <1>9 DEF Erase, Without, TypeOK
  <1>10. CASE \/ Submit(r) \/ Issue(r) \/ Profile(r) \/ Act(r) \/ Revoke(r)
             \/ Insert(r) \/ Get(r) \/ Update(r) \/ Delete(r) \/ ReadPrefs(r)
             \/ WritePrefs(r) \/ Patch(r) \/ Die(r)
    BY <1>2, <1>10
    DEF Submit, Issue, Profile, Act, Revoke, Insert, Get, Update, Delete, ReadPrefs, WritePrefs,
        Patch, Die
  <1> QED
    BY <1>4, <1>5, <1>6, <1>7, <1>8, <1>9, <1>10 DEF Step

(* A registration keeps to the account that it describes. *)
LEMMA StepFinds ==
    ASSUME TypeOK, \A q \in Request : Phase(q), RowsAreLate, RowsHaveOneOwner, FindsItsOwn,
           NEW r \in Request, Step(r)
    PROVE  FindsItsOwn'
  <1>0. \A q \in Request : Op(q)' = Op(q) /\ Described(q)' = Described(q)
    BY StepFrame DEF Op, Described
  <1>1. \A q \in Request \ {r} : pc'[q] = pc[q] /\ who'[q] = who[q]
    BY StepFrame
  <1>2. CASE Create(r)
    <2>1. CASE Of(Op(r).email) = {}
      <3>1. r \notin DOMAIN users /\ \A q \in Request : who[q] # r
        BY <1>2, AccountsAssumption DEF Create, RowsAreLate, Early
      <3>2. /\ users' = Put(users, r, Described(r))
            /\ sessions' = Put(sessions, r, [user |-> r, live |-> TRUE])
            /\ who' = [who EXCEPT ![r] = r] /\ pc'[r] = "profile"
        BY <1>2, <2>1 DEF Create, Goto, Described, TypeOK
      <3> QED
        BY <1>0, <1>1, <3>1, <3>2 DEF Put, FindsItsOwn, RowsHaveOneOwner
    <2>2. CASE Of(Op(r).email) # {}
      BY <1>0, <1>1, <1>2, <2>2 DEF Create, Answer, FindsItsOwn, TypeOK
    <2> QED
      BY <2>1, <2>2
  <1>3. CASE InsertDev(r)
    <2>1. CASE Of(Dev) = {}
      <3>1. r \notin DOMAIN users /\ \A q \in Request : who[q] # r
        BY <1>3, AccountsAssumption DEF InsertDev, RowsAreLate, Early
      <3>2. /\ \A u \in DOMAIN users : users'[u] = users[u]
            /\ DOMAIN users' = DOMAIN users \cup {r}
            /\ sessions' = sessions /\ pc'[r] = "act"
        BY <1>3, <2>1, <3>1 DEF InsertDev, Goto, Put, TypeOK
      <3> QED
        BY <1>0, <1>1, <3>1, <3>2 DEF FindsItsOwn, RowsHaveOneOwner
    <2>2. CASE Of(Dev) # {}
      BY <1>0, <1>1, <1>3, <2>2 DEF InsertDev, Answer, FindsItsOwn, TypeOK
    <2> QED
      BY <2>1, <2>2
  <1>4. CASE Find(r)
    <2>1. UNCHANGED <<users, sessions>>
      BY <1>4 DEF Find
    <2>2. ASSUME Op(r).kind = "register", pc'[r] = "issue", who'[r] \in DOMAIN users
          PROVE  users[who'[r]] = Described(r)
      <3>1. PICK u \in Of(Op(r).email) : IsRepeat(r, u) /\ who' = [who EXCEPT ![r] = u]
        BY <1>4, <2>2 DEF Find, Goto, Answer, TypeOK
      <3>2. users[u] \in User /\ users[u].subject = Op(r).email /\ who'[r] = u
        BY <3>1 DEF Of, TypeOK
      <3> QED
        BY <3>1, <3>2 DEF IsRepeat, Described, User
    <2> QED
      BY <1>0, <1>1, <2>1, <2>2 DEF FindsItsOwn
  <1>5. CASE Issue(r)
    BY <1>0, <1>1, <1>5 DEF Issue, Goto, Answer, Put, FindsItsOwn, TypeOK
  <1>6. CASE Revoke(r)
    BY <1>0, <1>1, <1>6 DEF Revoke, Answer, Ended, FindsItsOwn, TypeOK
  <1>7. CASE Erase(r)
    BY <1>0, <1>1, <1>7
    DEF Erase, Answer, CascadeSessions, Without, FindsItsOwn, RowsHaveOneOwner, TypeOK
  <1>8. CASE \/ Submit(r) \/ Profile(r) \/ Resolve(r) \/ FindDev(r) \/ Act(r)
             \/ Insert(r) \/ Get(r) \/ Update(r) \/ Delete(r) \/ ReadPrefs(r)
             \/ WritePrefs(r) \/ Patch(r) \/ Die(r)
    <2>1. UNCHANGED <<users, sessions>>
      BY <1>8
      DEF Submit, Profile, Resolve, FindDev, Act, Insert, Get, Update, Delete, ReadPrefs,
          WritePrefs, Patch, Die
    <2>2. pc'[r] # "issue"
      <3>1. Phase(r)
        OBVIOUS
      <3> QED
        BY <1>8, <3>1, OpType
        DEF Submit, Profile, Resolve, FindDev, Act, Insert, Get, Update, Delete, ReadPrefs,
            WritePrefs, Patch, Die, Goto, Answer, TypeOK, Phase
    <2> QED
      BY <1>0, <1>1, <2>1, <2>2 DEF FindsItsOwn
  <1> QED
    BY <1>2, <1>3, <1>4, <1>5, <1>6, <1>7, <1>8 DEF Step

(* A dead token stays dead, and is refused. *)
LEMMA StepStale ==
    ASSUME TypeOK, \A q \in Request : Phase(q), StaleStaysStale, NEW r \in Request, Step(r)
    PROVE  StaleStaysStale'
  <1>0. pc[r] # "done" /\ \A q \in Request \ {r} :
           /\ pc'[q] = pc[q] /\ answer'[q] = answer[q] /\ token'[q] = token[q]
           /\ q \in stale' <=> q \in stale
    BY StepFrame
  <1>1. \A q \in Request : pc[q] = "done" => pc'[q] = "done"
    BY <1>0
  <1>2. \A t \in Request : pc[t] = "done" /\ IsDead(t) => IsDead(t)'
    <2>1. CASE Create(r)
      BY <1>0, <2>1 DEF Create, Put, IsDead
    <2>2. CASE Issue(r)
      BY <1>0, <2>2 DEF Issue, Put, IsDead
    <2>3. CASE Revoke(r)
      BY <2>3 DEF Revoke, Ended, IsDead
    <2>4. CASE Erase(r)
      BY <2>4 DEF Erase, CascadeSessions, Without, IsDead
    <2>5. CASE \/ Submit(r) \/ Find(r) \/ Profile(r) \/ Resolve(r) \/ FindDev(r)
               \/ InsertDev(r) \/ Act(r) \/ Insert(r) \/ Get(r) \/ Update(r)
               \/ Delete(r) \/ ReadPrefs(r) \/ WritePrefs(r) \/ Patch(r) \/ Die(r)
      BY <2>5
      DEF Submit, Find, Profile, Resolve, FindDev, InsertDev, Act, Insert, Get, Update, Delete,
          ReadPrefs, WritePrefs, Patch, Die, IsDead
    <2> QED
      BY <2>1, <2>2, <2>3, <2>4, <2>5 DEF Step
  <1>3. ASSUME r \in stale'
        PROVE  /\ pc'[r] \in {"resolve", "done"} /\ answer'[r] # "ok"
               /\ token'[r] \in Request /\ pc'[token'[r]] = "done"
               /\ (IsDead(token[r]))'
    <2>1. CASE Submit(r)
      <3>1. /\ pc[r] = "idle" /\ answer'[r] = answer[r] /\ pc'[r] = "resolve"
            /\ token'[r] \in Minted \cup {Dev} /\ IsDead(token'[r])
            /\ sessions' = sessions
        BY <1>3, <2>1 DEF Submit, Goto, StaleStaysStale, TypeOK
      <3>2. token'[r] \in Request /\ pc[token'[r]] = "done"
        BY <3>1 DEF IsDead, Minted, Phase
      <3>3. answer[r] # "ok"
        BY <3>1 DEF Phase
      <3> QED
        BY <1>1, <3>1, <3>2, <3>3 DEF IsDead
    <2>2. CASE Resolve(r)
      <3>1. r \in stale
        BY <1>3, <2>2 DEF Resolve, history
      <3>2. IsDead(token[r]) /\ token[r] \in Request /\ pc[token[r]] = "done"
        BY <3>1 DEF StaleStaysStale
      <3>3. token' = token /\ pc'[r] = "done" /\ answer'[r] = "unauthorized"
        BY <2>2, <3>2 DEF Resolve, Resolves, IsDead, Answer, TypeOK
      <3> QED
        BY <1>1, <1>2, <3>2, <3>3
    <2>3. CASE Die(r)
      <3>1. r \in stale
        BY <1>3, <2>3 DEF Die, history
      <3>2. IsDead(token[r]) /\ token[r] \in Request /\ pc[token[r]] = "done"
        BY <3>1 DEF StaleStaysStale
      <3>3. token' = token /\ pc'[r] = "done" /\ answer'[r] = "dead"
        BY <2>3 DEF Die, Answer, TypeOK
      <3> QED
        BY <1>1, <1>2, <3>2, <3>3
    <2>4. CASE \/ Find(r) \/ Create(r) \/ Issue(r) \/ Profile(r) \/ FindDev(r)
               \/ InsertDev(r) \/ Act(r) \/ Revoke(r) \/ Erase(r) \/ Insert(r)
               \/ Get(r) \/ Update(r) \/ Delete(r) \/ ReadPrefs(r) \/ WritePrefs(r)
               \/ Patch(r)
      <3>1. stale' = stale /\ pc[r] \notin {"resolve", "done"}
        BY <2>4
        DEF Find, Create, Issue, Profile, FindDev, InsertDev, Act, Revoke, Erase, Insert, Get,
            Update, Delete, ReadPrefs, WritePrefs, Patch, history
      <3> QED
        BY <1>3, <3>1 DEF StaleStaysStale
    <2> QED
      BY <2>1, <2>2, <2>3, <2>4 DEF Step
  <1>4. ASSUME NEW q \in stale', q # r
        PROVE  /\ pc'[q] \in {"resolve", "done"} /\ answer'[q] # "ok"
               /\ token'[q] \in Request /\ pc'[token'[q]] = "done"
               /\ (IsDead(token[q]))'
    <2>1. q \in Request \ {r}
      BY <1>4, StepPhase DEF TypeOK
    <2>2. /\ pc'[q] = pc[q] /\ answer'[q] = answer[q] /\ token'[q] = token[q] /\ q \in stale
      BY <1>0, <1>4, <2>1
    <2>3. /\ pc[q] \in {"resolve", "done"} /\ answer[q] # "ok"
          /\ token[q] \in Request /\ pc[token[q]] = "done" /\ IsDead(token[q])
      BY <2>2 DEF StaleStaysStale
    <2>4. pc'[token[q]] = "done"
      BY <1>1, <2>3
    <2> QED
      BY <1>2, <2>2, <2>3, <2>4 DEF IsDead
  <1> QED
    BY <1>3, <1>4 DEF StaleStaysStale

(* A feed never takes an occasion from a list that nobody replaced. *)
LEMMA StepOccasions ==
    ASSUME TypeOK, TypeOK', \A q \in Request : Phase(q), RowsAreLate, OccasionsAreKept,
           NEW r \in Request, Step(r)
    PROVE  OccasionsAreKept'
  <1>0. /\ \A q \in Request : Op(q)' = Op(q)
        /\ pc[r] # "done"
        /\ \A q \in Request \ {r} : who'[q] = who[q] /\ (q \in fed' <=> q \in fed)
    BY StepFrame DEF Op
  <1>1. r \notin fed
    BY <1>0 DEF Phase
  <1>2. ASSUME fed' = fed, replaced' = replaced, DOMAIN users' \subseteq DOMAIN users,
               \A u \in DOMAIN users' : prefs'[u] = prefs[u]
        PROVE  OccasionsAreKept'
    BY <1>0, <1>1, <1>2 DEF OccasionsAreKept, TypeOK
  <1>3. ASSUME fed' = fed, replaced' = replaced, DOMAIN users' = DOMAIN users \cup {r},
               \A u \in DOMAIN users : u # r => prefs'[u] = prefs[u],
               pc[r] \in Early
        PROVE  OccasionsAreKept'
    <2>1. \A q \in fed : who[q] # r
      BY <1>3, AccountsAssumption DEF RowsAreLate, TypeOK
    <2> QED
      BY <1>0, <1>1, <1>3, <2>1 DEF OccasionsAreKept, TypeOK
  <1>4. CASE Create(r)
    <2>1. CASE Of(Op(r).email) = {}
      BY <1>3, <1>4, <2>1 DEF Create, Put, Early, TypeOK, history
    <2> QED
      BY <1>2, <1>4, <2>1 DEF Create, TypeOK, history
  <1>5. CASE InsertDev(r)
    <2>1. CASE Of(Dev) = {}
      BY <1>3, <1>5, <2>1 DEF InsertDev, Put, Early, TypeOK, history
    <2> QED
      BY <1>2, <1>5, <2>1 DEF InsertDev, TypeOK, history
  <1>6. CASE Erase(r)
    BY <1>2, <1>6 DEF Erase, CascadeState, Without, TypeOK, history
  <1>7. CASE ReadPrefs(r)
    BY <1>0, <1>1, <1>7 DEF ReadPrefs, OccasionsAreKept, TypeOK
  <1>8. CASE WritePrefs(r)
    <2>1. CASE UNCHANGED <<prefs, replaced, fed>>
      BY <1>2, <1>8, <2>1 DEF WritePrefs
    <2>2. CASE /\ who[r] \in DOMAIN users
               /\ prefs' = [prefs EXCEPT ![who[r]] = Extended(r)]
               /\ replaced' = IF prefs[who[r]] # seen[r] THEN replaced \cup {who[r]} ELSE replaced
               /\ fed' = fed \cup {r}
      <3>1. users' = users /\ who' = who
        BY <1>8 DEF WritePrefs
      <3>2. Op(r).type \in prefs'[who[r]]
        BY <2>2 DEF Extended, TypeOK
      <3>3. ASSUME NEW q \in fed, who[q] \in DOMAIN users \ replaced'
            PROVE  Op(q).type \in prefs'[who[q]]
        <4>1. Op(q).type \in prefs[who[q]]
          BY <2>2, <3>3 DEF OccasionsAreKept
        <4>2. CASE who[q] = who[r]
          BY <2>2, <3>3, <4>1, <4>2 DEF Extended, TypeOK
        <4>3. CASE who[q] # who[r]
          BY <2>2, <3>3, <4>1, <4>3 DEF TypeOK
        <4> QED
          BY <4>2, <4>3
      <3> QED
        BY <1>0, <2>2, <3>1, <3>2, <3>3 DEF OccasionsAreKept, TypeOK
    <2> QED
      BY <1>8, <2>1, <2>2 DEF WritePrefs
  <1>9. CASE Patch(r)
    BY <1>0, <1>1, <1>9 DEF Patch, OccasionsAreKept, TypeOK
  <1>10. CASE \/ Submit(r) \/ Find(r) \/ Issue(r) \/ Profile(r) \/ Resolve(r)
             \/ FindDev(r) \/ Act(r) \/ Revoke(r) \/ Insert(r) \/ Get(r)
             \/ Update(r) \/ Delete(r) \/ Die(r)
    BY <1>2, <1>10
    DEF Submit, Find, Issue, Profile, Resolve, FindDev, Act, Revoke, Insert, Get, Update,
        Delete, Die, history
  <1> QED
    BY <1>4, <1>5, <1>6, <1>7, <1>8, <1>9, <1>10 DEF Step

-----------------------------------------------------------------------------

LEMMA AccountsInitInv == Init => AccountsInv
  <1> SUFFICES ASSUME Init PROVE AccountsInv
    OBVIOUS
  <1>1. TypeOK
    BY AccountsAssumption DEF Init, TypeOK, NoRows, Labels, Answers
  <1>2. \A r \in Request : Phase(r)
    BY DEF Init, Phase, Known
  <1> QED
    BY <1>1, <1>2
    DEF AccountsInv, Init, NoRows, RowsAreLate, RowsHaveOneOwner, FindsItsOwn, StaleStaysStale,
        OccasionsAreKept

LEMMA AccountsStepInv ==
    ASSUME AccountsInv, NEW r \in Request, Step(r)
    PROVE  AccountsInv'
  <1>1. TypeOK' /\ Phase(r)'
    BY StepPhase DEF AccountsInv
  <1>2. ASSUME NEW q \in Request \ {r} PROVE Phase(q)'
    BY StepFrame DEF AccountsInv, Phase, Op
  <1>3. \A q \in Request : Phase(q)'
    BY <1>1, <1>2
  <1> QED
    BY <1>1, <1>3, StepLate, StepOwners, StepFinds, StepStale, StepOccasions DEF AccountsInv

LEMMA AccountsExpireInv ==
    ASSUME AccountsInv, NEW s \in Request, Expire(s)
    PROVE  AccountsInv'
  <1> USE DEF AccountsInv, Expire, request, history
  <1>1. TypeOK'
    <2>1. Ended(s) \in Session
      BY DEF Ended, TypeOK, Session
    <2> QED
      BY <2>1 DEF Put, TypeOK
  <1>2. \A r \in Request : Phase(r)'
    BY DEF Phase, Op
  <1>3. RowsAreLate' /\ OccasionsAreKept'
    BY DEF RowsAreLate, OccasionsAreKept, Op
  <1>4. RowsHaveOneOwner' /\ FindsItsOwn'
    BY DEF Put, Ended, RowsHaveOneOwner, FindsItsOwn, Op, Described
  <1>5. StaleStaysStale'
    BY DEF Put, Ended, StaleStaysStale, IsDead
  <1> QED
    BY <1>1, <1>2, <1>3, <1>4, <1>5

(* The inductive invariant: what each request knows at its stage, that rows   *)
(* are named by requests past their inserts, and the properties themselves.   *)
THEOREM AccountsInvariance == Spec => []AccountsInv
  <1>1. AccountsInv /\ [Next]_vars => AccountsInv'
    <2> SUFFICES ASSUME AccountsInv, [Next]_vars PROVE AccountsInv'
      OBVIOUS
    <2>1. CASE UNCHANGED vars
      BY <2>1
      DEF AccountsInv, vars, request, history, TypeOK, Phase, Op, RowsAreLate, RowsHaveOneOwner,
          FindsItsOwn, Described, StaleStaysStale, IsDead, OccasionsAreKept
    <2>2. ASSUME NEW r \in Request, Step(r) PROVE AccountsInv'
      BY <2>2, AccountsStepInv
    <2>3. ASSUME NEW s \in Request, Expire(s) PROVE AccountsInv'
      BY <2>3, AccountsExpireInv
    <2> QED
      BY <2>1, <2>2, <2>3 DEF Next
  <1> QED
    BY AccountsInitInv, <1>1, PTL DEF Spec

(* Accounts, sessions, events and lists of occasions keep their types.        *)
THEOREM AccountsTyped == Spec => []TypeOK
  <1>1. AccountsInv => TypeOK
    BY DEF AccountsInv
  <1> QED
    BY AccountsInvariance, <1>1, PTL

(* One account per address, however registrations and first requests race,    *)
(* and an erasure leaves no session and no event behind.                      *)
THEOREM OwnersStand == Spec => []RowsHaveOneOwner
  <1>1. AccountsInv => RowsHaveOneOwner
    BY DEF AccountsInv
  <1> QED
    BY AccountsInvariance, <1>1, PTL

(* An answered registration has a session of the account it described, and    *)
(* every repetition a session of the same account.                            *)
THEOREM RegistrationsAreTrue == Spec => []RegisteredAsDescribed
  <1>1. AccountsInv => RegisteredAsDescribed
    <2> SUFFICES ASSUME AccountsInv, NEW r \in Request,
                        Op(r).kind = "register", answer[r] = "ok", r \in DOMAIN sessions
                 PROVE  /\ users[sessions[r].user] = Described(r)
                        /\ \A q \in Request :
                              /\ Op(q).kind = "register" /\ Op(q).email = Op(r).email
                              /\ answer[q] = "ok" /\ q \in DOMAIN sessions
                              => sessions[q].user = sessions[r].user
      BY DEF RegisteredAsDescribed, Described
    <2>1. users[sessions[r].user] = Described(r)
      BY DEF AccountsInv, FindsItsOwn
    <2>2. ASSUME NEW q \in Request, Op(q).kind = "register", Op(q).email = Op(r).email,
                 q \in DOMAIN sessions
          PROVE  sessions[q].user = sessions[r].user
      <3>1. users[sessions[q].user] = Described(q)
        BY <2>2 DEF AccountsInv, FindsItsOwn
      <3>2. Described(q).subject = Described(r).subject
        BY <2>2 DEF Described
      <3> QED
        BY <2>1, <2>2, <3>1, <3>2 DEF AccountsInv, RowsHaveOneOwner
    <2> QED
      BY <2>1, <2>2
  <1> QED
    BY AccountsInvariance, <1>1, PTL

(* What is sent with the token of a session that has ended is refused.        *)
THEOREM TheDeadAreRefused == Spec => []DeadTokensAreRefused
  <1>1. AccountsInv => DeadTokensAreRefused
    BY DEF AccountsInv, StaleStaysStale, DeadTokensAreRefused
  <1> QED
    BY AccountsInvariance, <1>1, PTL

(* An occasion that was fed stays until the list is replaced.                 *)
THEOREM OccasionsStay == Spec => []OccasionsAreKept
  <1>1. AccountsInv => OccasionsAreKept
    BY DEF AccountsInv
  <1> QED
    BY AccountsInvariance, <1>1, PTL
=============================================================================
