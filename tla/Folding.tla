------------------------------ MODULE Folding -------------------------------
(***************************************************************************)
(* Inductions over data: over the numbers and the subsets of a finite set,  *)
(* the members of a finite set in an order, and what a fold over a sequence *)
(* computes.  The step of the fold is a parameter of the module: a module   *)
(* that folds instantiates this one with its own.                           *)
(***************************************************************************)
EXTENDS Integers, Sequences, FiniteSets, SequencesExt, FiniteSetTheorems, WellFoundedInduction, TLAPS

CONSTANTS Step(_, _), Base

(* Induction over the numbers, with a set for the predicate.                *)
LEMMA NumbersFollow ==
    ASSUME NEW S, 0 \in S, \A n \in Nat : n \in S => n + 1 \in S
    PROVE  Nat \subseteq S
  <1> DEFINE T == Nat \ S
  <1>1. SUFFICES ASSUME T # {} PROVE FALSE
    OBVIOUS
  <1>2. PICK x \in T : \A y \in T : ~ (<<y, x>> \in OpToRel(<, Nat))
    <2>1. T \subseteq Nat
      OBVIOUS
    <2> HIDE DEF T
    <2> QED
      BY <1>1, <2>1, NatLessThanWellFounded, WFMin
  <1>3. \A y \in T : ~ (y < x)
    <2> TAKE y \in T
    <2>1. ~ (<<y, x>> \in OpToRel(<, Nat))
      BY <1>2
    <2>2. <<y, x>> \in Nat \X Nat
      OBVIOUS
    <2> QED
      BY <2>1, <2>2 DEF OpToRel
  <1>4. x # 0 /\ x - 1 \in Nat /\ x - 1 \in S
    BY <1>3
  <1> QED
    BY <1>4

(* Induction over the subsets of a finite set.                              *)
LEMMA SubsetsFollow ==
    ASSUME NEW U, IsFiniteSet(U), NEW S, {} \in S,
           \A T \in SUBSET U, x \in U : T \in S => T \cup {x} \in S
    PROVE  U \in S
  <1> DEFINE sizes == {n \in Nat : \A T \in SUBSET U : Cardinality(T) = n => T \in S}
  <1>1. \A T \in SUBSET U : IsFiniteSet(T) /\ Cardinality(T) \in Nat
    BY FS_Subset, FS_CardinalityType
  <1>2. 0 \in sizes
    BY <1>1, FS_EmptySet
  <1>3. ASSUME NEW n \in Nat, n \in sizes PROVE n + 1 \in sizes
    <2>1. SUFFICES ASSUME NEW T \in SUBSET U, Cardinality(T) = n + 1 PROVE T \in S
      OBVIOUS
    <2>2. T # {}
      <3>1. Cardinality({}) = 0
        BY FS_EmptySet
      <3>2. n + 1 # 0
        OBVIOUS
      <3> QED
        BY <2>1, <3>1, <3>2
    <2>3. PICK x \in T : TRUE
      BY <2>2
    <2>4. Cardinality(T \ {x}) = n
      BY <1>1, <2>1, FS_RemoveElement
    <2>5. T \ {x} \in S
      BY <1>3, <2>4
    <2>6. (T \ {x}) \cup {x} = T
      OBVIOUS
    <2> QED
      BY <2>5, <2>6
  <1> HIDE DEF sizes
  <1>4. Nat \subseteq sizes
    BY <1>2, <1>3, NumbersFollow
  <1> QED
    BY <1>1, <1>4 DEF sizes

(* What comes before x in a set, in an order of which R has the pairs.      *)
Under(P, R, x) == {y \in P : <<y, x>> \in R}

(* Such an order gives each of the members of a finite set a place of its   *)
(* own.                                                                     *)
LEMMA Ranks ==
    ASSUME NEW P, IsFiniteSet(P), NEW R,
           \A x \in P : <<x, x>> \notin R,
           \A x, y \in P : x = y \/ <<x, y>> \in R \/ <<y, x>> \in R,
           \A x, y, z \in P : <<x, y>> \in R /\ <<y, z>> \in R => <<x, z>> \in R
    PROVE  /\ Cardinality(P) \in Nat
           /\ \A x \in P : /\ Cardinality(Under(P, R, x)) \in Nat
                           /\ Cardinality(Under(P, R, x)) < Cardinality(P)
           /\ \A x, y \in P : <<x, y>> \in R <=> Cardinality(Under(P, R, x)) < Cardinality(Under(P, R, y))
           /\ \A n \in 1 .. Cardinality(P) : \E x \in P : Cardinality(Under(P, R, x)) = n - 1
  <1> DEFINE under(x) == {y \in P : <<y, x>> \in R}
             size == Cardinality(P)
             rank == [x \in P |-> Cardinality(under(x)) + 1]
  <1>1. size \in Nat
    BY FS_CardinalityType
  <1>2. ASSUME NEW x \in P
        PROVE  IsFiniteSet(under(x)) /\ Cardinality(under(x)) \in Nat /\ Cardinality(under(x)) < size
    <2>1. under(x) \in SUBSET P /\ under(x) # P
      OBVIOUS
    <2> HIDE DEF under
    <2>2. IsFiniteSet(under(x)) /\ Cardinality(under(x)) <= size /\ Cardinality(under(x)) # size
      BY <2>1, FS_Subset
    <2> QED
      BY <1>1, <2>2, FS_CardinalityType
  <1>3. ASSUME NEW x \in P, NEW y \in P, <<x, y>> \in R
        PROVE  Cardinality(under(x)) < Cardinality(under(y))
    <2>1. under(x) \in SUBSET under(y) /\ x \in under(y) /\ x \notin under(x)
      BY <1>3
    <2>2. IsFiniteSet(under(y)) /\ Cardinality(under(x)) \in Nat /\ Cardinality(under(y)) \in Nat
      BY <1>2
    <2> HIDE DEF under
    <2>3. Cardinality(under(x)) <= Cardinality(under(y)) /\ Cardinality(under(x)) # Cardinality(under(y))
      BY <2>1, <2>2, FS_Subset
    <2> QED
      BY <2>2, <2>3
  <1> HIDE DEF under
  <1>4. IsFiniteSet(1 .. size) /\ Cardinality(1 .. size) = size
    <2> HIDE DEF size
    <2>1. IsFiniteSet(1 .. size) /\ Cardinality(1 .. size) = IF 1 > size THEN 0 ELSE size - 1 + 1
      BY <1>1, FS_Interval
    <2> QED
      BY <1>1, <2>1
  <1>5. rank \in Injection(P, 1 .. size)
    <2>1. \A x \in P : rank[x] \in 1 .. size
      BY <1>1, <1>2
    <2>2. \A x, y \in P : rank[x] = rank[y] => x = y
      <3> SUFFICES ASSUME NEW x \in P, NEW y \in P, x # y PROVE rank[x] # rank[y]
        OBVIOUS
      <3>1. <<x, y>> \in R \/ <<y, x>> \in R
        OBVIOUS
      <3>2. Cardinality(under(x)) # Cardinality(under(y))
        BY <1>2, <1>3, <3>1
      <3> QED
        BY <1>2, <3>2
    <2>3. rank \in [P -> 1 .. size]
      BY <2>1
    <2> QED
      BY <2>2, <2>3 DEF Injection, IsInjective
  <1>6. rank \in Surjection(P, 1 .. size)
    BY <1>4, <1>5, FS_Injection
  <1>7. ASSUME NEW n \in 1 .. size PROVE \E x \in P : Cardinality(under(x)) = n - 1
    <2>1. PICK x \in P : rank[x] = n
      BY <1>6 DEF Surjection
    <2> QED
      BY <1>2, <2>1
  <1>8. ASSUME NEW x \in P, NEW y \in P, Cardinality(under(x)) < Cardinality(under(y))
        PROVE  <<x, y>> \in R
    <2>1. <<y, x>> \notin R /\ x # y
      BY <1>2, <1>3, <1>8
    <2> QED
      BY <2>1
  <1>9. \A x : under(x) = Under(P, R, x)
    BY DEF under, Under
  <1> HIDE DEF rank
  <1> QED
    BY <1>1, <1>2, <1>3, <1>7, <1>8, <1>9

(* The n-th of them. *)
Nth(P, R, n) == CHOOSE x \in P : Cardinality({y \in P : <<y, x>> \in R}) = n - 1

LEMMA Ranked ==
    ASSUME NEW P, IsFiniteSet(P), NEW R,
           \A x \in P : <<x, x>> \notin R,
           \A x, y \in P : x = y \/ <<x, y>> \in R \/ <<y, x>> \in R,
           \A x, y, z \in P : <<x, y>> \in R /\ <<y, z>> \in R => <<x, z>> \in R
    PROVE  /\ Cardinality(P) \in Nat
           /\ \A n \in 1 .. Cardinality(P) : Nth(P, R, n) \in P
           /\ \A m, n \in 1 .. Cardinality(P) : m < n => <<Nth(P, R, m), Nth(P, R, n)>> \in R
           /\ \A x \in P : Nth(P, R, Cardinality(Under(P, R, x)) + 1) = x
           /\ \A x \in P : \E n \in 1 .. Cardinality(P) : Nth(P, R, n) = x
  <1> DEFINE rank(x) == Cardinality(Under(P, R, x))
             size == Cardinality(P)
  <1>1. /\ size \in Nat
        /\ \A x \in P : rank(x) \in Nat /\ rank(x) < size
        /\ \A x, y \in P : <<x, y>> \in R <=> rank(x) < rank(y)
        /\ \A n \in 1 .. size : \E x \in P : rank(x) = n - 1
    BY Ranks
  <1>2. \A n : Nth(P, R, n) = CHOOSE x \in P : rank(x) = n - 1
    BY DEF Nth, Under
  <1> HIDE DEF rank, size
  <1>3. \A n \in 1 .. size : Nth(P, R, n) \in P /\ rank(Nth(P, R, n)) = n - 1
    <2> TAKE n \in 1 .. size
    <2>1. \E x \in P : rank(x) = n - 1
      BY <1>1
    <2> QED
      BY <1>2, <2>1
  <1>4. ASSUME NEW m \in 1 .. size, NEW n \in 1 .. size, m < n
        PROVE  <<Nth(P, R, m), Nth(P, R, n)>> \in R
    <2>1. m - 1 < n - 1
      BY <1>1, <1>4
    <2> QED
      BY <1>1, <1>3, <2>1
  <1>5. \A x \in P : rank(x) + 1 \in 1 .. size /\ (rank(x) + 1) - 1 = rank(x)
    BY <1>1
  <1>6. ASSUME NEW x \in P PROVE Nth(P, R, rank(x) + 1) = x
    <2> DEFINE a == Nth(P, R, rank(x) + 1)
    <2>1. a \in P /\ rank(a) = rank(x)
      BY <1>3, <1>5
    <2> HIDE DEF a
    <2>2. a = x
      BY <1>1, <2>1
    <2> QED
      BY <2>2 DEF a
  <1>7. \A x \in P : \E n \in 1 .. size : Nth(P, R, n) = x
    BY <1>5, <1>6
  <1> QED
    BY <1>1, <1>3, <1>4, <1>6, <1>7 DEF rank, size

(* The n-th of a finite set of numbers, from the least.                     *)
Least(P, n) == CHOOSE x \in P : Cardinality({y \in P : y < x}) = n - 1

LEMMA Numbered ==
    ASSUME NEW P \in SUBSET Int, IsFiniteSet(P)
    PROVE  /\ Cardinality(P) \in Nat
           /\ \A n \in 1 .. Cardinality(P) : Least(P, n) \in P
           /\ \A m, n \in 1 .. Cardinality(P) : m < n => Least(P, m) < Least(P, n)
           /\ \A x \in P : Least(P, Cardinality({y \in P : y < x}) + 1) = x
           /\ \A x \in P : \E n \in 1 .. Cardinality(P) : Least(P, n) = x
  <1> DEFINE R == {p \in P \X P : p[1] < p[2]}
  <1>1. \A x, y \in P : <<x, y>> \in R <=> x < y
    OBVIOUS
  <1>2. \A x \in P : {y \in P : <<y, x>> \in R} = {y \in P : y < x}
    BY <1>1
  <1>3. \A n : Nth(P, R, n) = Least(P, n)
    <2> TAKE n
    <2> HIDE DEF R
    <2>1. \A x \in P : Cardinality({y \in P : <<y, x>> \in R}) = n - 1
                     <=> Cardinality({y \in P : y < x}) = n - 1
      BY <1>2
    <2> QED
      BY <2>1 DEF Nth, Least
  <1> HIDE DEF R
  <1>4. \A x \in P : <<x, x>> \notin R
    BY <1>1
  <1>5. \A x, y \in P : x = y \/ <<x, y>> \in R \/ <<y, x>> \in R
    <2>1. \A x, y \in P : x = y \/ x < y \/ y < x
      OBVIOUS
    <2> QED
      BY <1>1, <2>1
  <1>6. \A x, y, z \in P : <<x, y>> \in R /\ <<y, z>> \in R => <<x, z>> \in R
    <2>1. \A x, y, z \in P : x < y /\ y < z => x < z
      OBVIOUS
    <2> QED
      BY <1>1, <2>1
  <1>7. /\ Cardinality(P) \in Nat
        /\ \A n \in 1 .. Cardinality(P) : Nth(P, R, n) \in P
        /\ \A m, n \in 1 .. Cardinality(P) : m < n => <<Nth(P, R, m), Nth(P, R, n)>> \in R
        /\ \A x \in P : Nth(P, R, Cardinality(Under(P, R, x)) + 1) = x
        /\ \A x \in P : \E n \in 1 .. Cardinality(P) : Nth(P, R, n) = x
    BY <1>4, <1>5, <1>6, Ranked
  <1>8. \A x \in P : Under(P, R, x) = {y \in P : y < x}
    BY <1>2 DEF Under
  <1> QED
    BY <1>1, <1>3, <1>7, <1>8

(* A number that comes after all of them comes last, and moves none.        *)
LEMMA NumberedAfter ==
    ASSUME NEW P \in SUBSET Int, IsFiniteSet(P), NEW m \in Int, \A x \in P : x < m
    PROVE  /\ Cardinality(P \cup {m}) = Cardinality(P) + 1
           /\ \A n \in 1 .. Cardinality(P) : Least(P \cup {m}, n) = Least(P, n)
           /\ Least(P \cup {m}, Cardinality(P) + 1) = m
  <1> DEFINE Q == P \cup {m}
             size == Cardinality(P)
  <1>1. m \notin P /\ Q \in SUBSET Int
    OBVIOUS
  <1>2. size \in Nat /\ IsFiniteSet(Q) /\ Cardinality(Q) = size + 1
    BY <1>1, FS_CardinalityType, FS_AddElement
  <1>3. {y \in Q : y < m} = P
    <2>1. ~ (m < m)
      OBVIOUS
    <2> QED
      BY <2>1
  <1>4. \A x \in P : {y \in Q : y < x} = {y \in P : y < x}
    <2> TAKE x \in P
    <2>1. x < m /\ x \in Int
      OBVIOUS
    <2>2. ~ (m < x)
      BY <2>1
    <2> QED
      BY <2>2
  <1> HIDE DEF Q
  <1>5. \A x \in Q : Least(Q, Cardinality({y \in Q : y < x}) + 1) = x
    BY <1>1, <1>2, Numbered
  <1>6. Least(Q, size + 1) = m
    <2>1. m \in Q
      BY DEF Q
    <2>2. Least(Q, Cardinality({y \in Q : y < m}) + 1) = m
      BY <1>5, <2>1
    <2> QED
      BY <1>3, <2>2
  <1>7. ASSUME NEW n \in 1 .. size PROVE Least(Q, n) = Least(P, n)
    <2>1. /\ \A k \in 1 .. size : Least(P, k) \in P
          /\ \A x \in P : Least(P, Cardinality({y \in P : y < x}) + 1) = x
          /\ \A j, k \in 1 .. size : j < k => Least(P, j) < Least(P, k)
      BY Numbered
    <2> DEFINE x == Least(P, n)
               under == {y \in P : y < x}
               k == Cardinality(under) + 1
    <2>2. x \in P /\ Least(P, k) = x
      BY <2>1
    <2>3. under \in SUBSET P /\ under # P
      <3> HIDE DEF x
      <3>1. x \in Int /\ ~ (x < x)
        BY <2>2
      <3>2. x \notin under
        BY <3>1
      <3> QED
        BY <2>2, <3>2
    <2>4. Cardinality(under) \in Nat /\ Cardinality(under) < size
      <3> HIDE DEF under
      <3>1. IsFiniteSet(under) /\ Cardinality(under) <= size /\ Cardinality(under) # size
        BY <2>3, FS_Subset
      <3> QED
        BY <1>2, <3>1, FS_CardinalityType
    <2>5. k \in 1 .. size
      <3> HIDE DEF under
      <3> QED
        BY <1>2, <2>4
    <2>6. k = n
      <3> HIDE DEF k
      <3>1. k \in Int /\ n \in Int /\ Least(P, k) \in Int
        <4>1. \A i \in 1 .. size : i \in Int
          BY <1>2
        <4>2. Least(P, k) \in P
          BY <2>1, <2>5
        <4> QED
          BY <2>5, <4>1, <4>2
      <3>2. ~ (k < n) /\ ~ (n < k)
        <4>1. k < n => Least(P, k) < Least(P, n)
          BY <2>1, <2>5
        <4>2. n < k => Least(P, n) < Least(P, k)
          BY <2>1, <2>5
        <4>3. Least(P, k) = Least(P, n)
          BY <2>2
        <4> HIDE DEF x
        <4> QED
          BY <3>1, <4>1, <4>2, <4>3
      <3> QED
        BY <3>1, <3>2
    <2>7. x \in Q /\ {y \in Q : y < x} = under
      BY <1>4, <2>2 DEF Q
    <2>8. Least(Q, Cardinality({y \in Q : y < x}) + 1) = x
      <3> HIDE DEF x
      <3> QED
        BY <1>5, <2>7
    <2>9. Least(Q, k) = x
      <3> HIDE DEF x, under
      <3> QED
        BY <2>7, <2>8
    <2> HIDE DEF k
    <2> QED
      BY <2>6, <2>9 DEF x
  <1> QED
    BY <1>2, <1>6, <1>7 DEF Q
-----------------------------------------------------------------------------
(* The fold, as a function on the sets of places that are folded.           *)
Folded(f, U, s) ==
    f = [t \in SUBSET U |-> IF t = {} THEN Base ELSE Step(f[t \ {Max(t)}], s[Max(t)])]

LEMMA MaxOfInterval ==
    ASSUME NEW n \in Nat, n # 0, NEW t \in SUBSET (1 .. n), n \in t
    PROVE  Max(t) = n
  <1>1. \A y \in t : y \in Int /\ n >= y
    OBVIOUS
  <1>2. \A x \in t : (\A y \in t : x >= y) => x = n
    BY <1>1
  <1> QED
    BY <1>1, <1>2 DEF Max

LEMMA FoldsExist ==
    ASSUME NEW n \in Nat, NEW s
    PROVE  \E f : Folded(f, 1 .. n, s)
  <1> DEFINE good == {m \in Nat : \E f : Folded(f, 1 .. m, s)}
  <1>1. 0 \in good
    <2> DEFINE f == [t \in SUBSET (1 .. 0) |-> Base]
    <2>1. SUBSET (1 .. 0) = {{}}
      OBVIOUS
    <2>2. Folded(f, 1 .. 0, s)
      BY <2>1 DEF Folded
    <2> QED
      BY <2>2
  <1>2. ASSUME NEW m \in Nat, m \in good PROVE m + 1 \in good
    <2>1. PICK f : Folded(f, 1 .. m, s)
      BY <1>2
    <2> DEFINE g == [t \in SUBSET (1 .. m + 1) |->
                        IF m + 1 \in t THEN Step(f[t \ {m + 1}], s[m + 1]) ELSE f[t]]
    <2>2. ASSUME NEW t \in SUBSET (1 .. m + 1)
          PROVE  g[t] = IF t = {} THEN Base ELSE Step(g[t \ {Max(t)}], s[Max(t)])
      <3>1. CASE m + 1 \in t
        <4>1. Max(t) = m + 1
          BY <3>1, MaxOfInterval
        <4>2. t \ {m + 1} \in SUBSET (1 .. m + 1) /\ m + 1 \notin t \ {m + 1}
          OBVIOUS
        <4>3. g[t \ {m + 1}] = f[t \ {m + 1}]
          BY <4>2
        <4> QED
          BY <3>1, <4>1, <4>3
      <3>2. CASE m + 1 \notin t
        <4>1. t \in SUBSET (1 .. m)
          BY <3>2
        <4>2. f[t] = IF t = {} THEN Base ELSE Step(f[t \ {Max(t)}], s[Max(t)])
          BY <2>1, <4>1 DEF Folded
        <4>3. g[t] = f[t]
          BY <3>2
        <4>4. g[t \ {Max(t)}] = f[t \ {Max(t)}]
          BY <3>2
        <4> QED
          BY <4>2, <4>3, <4>4
      <3> QED
        BY <3>1, <3>2
    <2>3. Folded(g, 1 .. m + 1, s)
      <3> DEFINE h == [t \in SUBSET (1 .. m + 1) |-> IF t = {} THEN Base ELSE Step(g[t \ {Max(t)}], s[Max(t)])]
      <3>1. \A t \in SUBSET (1 .. m + 1) : g[t] = h[t]
        BY <2>2
      <3>2. g = h
        BY <3>1
      <3> HIDE DEF g
      <3> QED
        BY <3>2 DEF Folded
    <2> QED
      BY <2>3
  <1> HIDE DEF good
  <1>3. Nat \subseteq good
    BY <1>1, <1>2, NumbersFollow
  <1> QED
    BY <1>3 DEF good

(* What holds of the base, and of what a step makes of what it holds of,    *)
(* holds of the fold: Good[n] is what may have become of the first n.       *)
THEOREM FoldKeeps ==
    ASSUME NEW s, NEW n \in Nat, DOMAIN s = 1 .. n,
           NEW Good, Base \in Good[0],
           \A k \in 0 .. n - 1 : \A x \in Good[k] : Step(x, s[k + 1]) \in Good[k + 1]
    PROVE  FoldLeft(Step, Base, s) \in Good[n]
  <1> DEFINE f == CHOOSE g : Folded(g, 1 .. n, s)
  <1>1. FoldLeft(Step, Base, s) = f[1 .. n]
    <2>1. FoldLeft(Step, Base, s) =
            LET iter[t \in SUBSET DOMAIN s] ==
                  IF t = {} THEN Base ELSE Step(iter[t \ {Max(t)}], s[Max(t)])
            IN  iter[DOMAIN s]
      BY DEF FoldLeft, MapThenFoldSet
    <2> QED
      BY <2>1 DEF Folded
  <1>2. Folded(f, 1 .. n, s)
    BY FoldsExist
  <1> HIDE DEF f
  <1> DEFINE kept == {k \in Nat : k <= n => f[1 .. k] \in Good[k]}
  <1>3. 0 \in kept
    <2>1. 1 .. 0 = {} /\ {} \in SUBSET (1 .. n)
      OBVIOUS
    <2>2. f[{}] = Base
      BY <1>2, <2>1 DEF Folded
    <2> QED
      BY <2>1, <2>2
  <1>4. ASSUME NEW k \in Nat, k \in kept PROVE k + 1 \in kept
    <2>1. SUFFICES ASSUME k + 1 <= n PROVE f[1 .. k + 1] \in Good[k + 1]
      OBVIOUS
    <2>2. 1 .. k + 1 \in SUBSET (1 .. n) /\ k + 1 \in 1 .. k + 1 /\ k \in 0 .. n - 1
      BY <2>1
    <2>3. Max(1 .. k + 1) = k + 1
      BY MaxOfInterval
    <2>4. (1 .. k + 1) \ {k + 1} = 1 .. k
      OBVIOUS
    <2>5. f[1 .. k + 1] = Step(f[1 .. k], s[k + 1])
      BY <1>2, <2>2, <2>3, <2>4 DEF Folded
    <2>6. f[1 .. k] \in Good[k]
      BY <1>4, <2>1
    <2> QED
      BY <2>2, <2>5, <2>6
  <1> HIDE DEF kept
  <1>5. Nat \subseteq kept
    BY <1>3, <1>4, NumbersFollow
  <1> QED
    BY <1>1, <1>5 DEF kept
(* A fold over one more is a step more.                                     *)
THEOREM FoldAppends ==
    ASSUME NEW n \in Nat, NEW s, DOMAIN s = 1 .. n, NEW t, DOMAIN t = 1 .. n + 1,
           \A i \in 1 .. n : t[i] = s[i]
    PROVE  FoldLeft(Step, Base, t) = Step(FoldLeft(Step, Base, s), t[n + 1])
  <1>1. PICK f : Folded(f, 1 .. n + 1, t)
    BY FoldsExist
  <1>2. f[{}] = Base /\ 1 .. 0 = {}
    <2>1. {} \in SUBSET (1 .. n + 1)
      OBVIOUS
    <2>2. f[{}] = Base
      BY <1>1, <2>1 DEF Folded
    <2> QED
      BY <2>2
  <1>3. ASSUME NEW k \in 0 .. n
        PROVE  f[1 .. k + 1] = Step(f[1 .. k], t[k + 1])
    <2>1. 1 .. k + 1 \in SUBSET (1 .. n + 1) /\ k + 1 \in 1 .. k + 1 /\ k \in Nat
      OBVIOUS
    <2>2. Max(1 .. k + 1) = k + 1
      BY <2>1, MaxOfInterval
    <2>3. (1 .. k + 1) \ {k + 1} = 1 .. k
      BY <2>1
    <2> QED
      BY <1>1, <2>1, <2>2, <2>3 DEF Folded
  <1> DEFINE G == [k \in Nat |-> {f[1 .. k]}]
  <1>4. FoldLeft(Step, Base, s) \in G[n]
    <2>1. Base \in G[0]
      BY <1>2
    <2>2. \A k \in 0 .. n - 1 : \A x \in G[k] : Step(x, s[k + 1]) \in G[k + 1]
      <3> SUFFICES ASSUME NEW k \in 0 .. n - 1 PROVE Step(f[1 .. k], s[k + 1]) = f[1 .. k + 1]
        OBVIOUS
      <3>1. k \in 0 .. n /\ k + 1 \in 1 .. n
        OBVIOUS
      <3> QED
        BY <1>3, <3>1
    <2> HIDE DEF G
    <2> QED
      BY <2>1, <2>2, FoldKeeps
  <1>5. FoldLeft(Step, Base, t) \in G[n + 1]
    <2>1. Base \in G[0]
      BY <1>2
    <2>2. \A k \in 0 .. (n + 1) - 1 : \A x \in G[k] : Step(x, t[k + 1]) \in G[k + 1]
      <3> SUFFICES ASSUME NEW k \in 0 .. n PROVE Step(f[1 .. k], t[k + 1]) = f[1 .. k + 1]
        OBVIOUS
      <3> QED
        BY <1>3
    <2>3. n + 1 \in Nat
      OBVIOUS
    <2> HIDE DEF G
    <2> QED
      BY <2>1, <2>2, <2>3, FoldKeeps
  <1>6. f[1 .. n + 1] = Step(f[1 .. n], t[n + 1])
    <2>1. n \in 0 .. n
      OBVIOUS
    <2> QED
      BY <1>3, <2>1
  <1>7. G[n] = {f[1 .. n]} /\ G[n + 1] = {f[1 .. n + 1]}
    OBVIOUS
  <1> HIDE DEF G
  <1> QED
    BY <1>4, <1>5, <1>6, <1>7
-----------------------------------------------------------------------------
(* The greatest of a set of numbers. *)
LEMMA Greatest ==
    ASSUME NEW S \in SUBSET Int, IsFiniteSet(S), S # {}
    PROVE  Max(S) \in S /\ \A y \in S : Max(S) >= y
  <1> DEFINE G == {T \in SUBSET S : T = {} \/ \E x \in T : \A y \in T : x >= y}
  <1>1. ASSUME NEW T \in SUBSET S, NEW a \in S, T \in G PROVE T \cup {a} \in G
    <2>1. SUFFICES \E x \in T \cup {a} : \A y \in T \cup {a} : x >= y
      OBVIOUS
    <2>2. CASE T = {}
      BY <2>2
    <2>3. CASE T # {}
      <3>1. PICK x \in T : \A y \in T : x >= y
        BY <1>1, <2>3
      <3>2. x \in Int /\ a \in Int /\ \A y \in T : y \in Int
        OBVIOUS
      <3>3. CASE x >= a
        BY <3>1, <3>2, <3>3
      <3>4. CASE a >= x
        BY <3>1, <3>2, <3>4
      <3> QED
        BY <3>2, <3>3, <3>4
    <2> QED
      BY <2>2, <2>3
  <1>2. {} \in G
    OBVIOUS
  <1> HIDE DEF G
  <1>3. S \in G
    BY <1>1, <1>2, SubsetsFollow
  <1>4. \E x \in S : \A y \in S : x >= y
    BY <1>3 DEF G
  <1> QED
    BY <1>4 DEF Max
-----------------------------------------------------------------------------
(* Sums over a finite set, as a function on its subsets.                    *)
AddUp(F, f, t) == IF t = {} THEN 0 ELSE LET x == CHOOSE x \in t : TRUE IN F[x] + f[t \ {x}]

Sums(F, f, U) == f = [t \in SUBSET U |-> AddUp(F, f, t)]

SumOver(F, U) == (CHOOSE f : Sums(F, f, U))[U]

LEMMA SumsExist ==
    ASSUME NEW F, NEW U, IsFiniteSet(U)
    PROVE  \E f : Sums(F, f, U)
  <1> DEFINE fits(f, m) == \A t \in SUBSET U : Cardinality(t) <= m => f[t] = AddUp(F, f, t)
             good == {m \in Nat : \E f : fits(f, m)}
  <1>1. \A t \in SUBSET U : IsFiniteSet(t) /\ Cardinality(t) \in Nat /\ Cardinality(t) <= Cardinality(U)
    BY FS_Subset, FS_CardinalityType
  <1>2. 0 \in good
    <2> DEFINE f == [t \in SUBSET U |-> 0]
    <2>1. ASSUME NEW t \in SUBSET U, Cardinality(t) <= 0 PROVE t = {}
      BY <1>1, <2>1, FS_EmptySet
    <2>2. fits(f, 0)
      BY <2>1 DEF AddUp
    <2> QED
      BY <2>2
  <1>3. ASSUME NEW m \in Nat, m \in good PROVE m + 1 \in good
    <2>1. PICK f : fits(f, m)
      BY <1>3
    <2> DEFINE g == [t \in SUBSET U |-> AddUp(F, f, t)]
    <2>2. \A t \in SUBSET U : Cardinality(t) <= m => g[t] = f[t]
      BY <2>1
    <2>3. ASSUME NEW t \in SUBSET U, Cardinality(t) <= m + 1 PROVE g[t] = AddUp(F, g, t)
      <3>1. CASE t = {}
        BY <3>1 DEF AddUp
      <3>2. CASE t # {}
        <4> DEFINE x == CHOOSE x \in t : TRUE
        <4>1. x \in t
          BY <3>2
        <4> HIDE DEF x
        <4>2. t \ {x} \in SUBSET U /\ Cardinality(t \ {x}) <= m
          <5>1. Cardinality(t \ {x}) = Cardinality(t) - 1
            BY <1>1, <4>1, FS_RemoveElement
          <5> QED
            BY <1>1, <2>3, <5>1
        <4>3. g[t \ {x}] = f[t \ {x}]
          BY <2>2, <4>2
        <4>4. g[t] = F[x] + f[t \ {x}]
          BY <3>2 DEF AddUp, x
        <4>5. AddUp(F, g, t) = F[x] + g[t \ {x}]
          <5> HIDE DEF g
          <5> QED
            BY <3>2 DEF AddUp, x
        <4> QED
          BY <4>3, <4>4, <4>5
      <3> QED
        BY <3>1, <3>2
    <2>4. fits(g, m + 1)
      BY <2>3
    <2> HIDE DEF fits, g
    <2> QED
      BY <2>4
  <1> HIDE DEF good
  <1>4. Cardinality(U) \in good
    <2>1. Nat \subseteq good
      BY <1>2, <1>3, NumbersFollow
    <2> QED
      BY <1>1, <2>1
  <1>5. PICK f : fits(f, Cardinality(U))
    BY <1>4 DEF good
  <1> DEFINE g == [t \in SUBSET U |-> f[t]]
  <1>6. ASSUME NEW t \in SUBSET U PROVE g[t] = AddUp(F, g, t)
    <2>1. g[t] = AddUp(F, f, t)
      BY <1>1, <1>5
    <2>2. AddUp(F, f, t) = AddUp(F, g, t)
      <3>1. CASE t = {}
        BY <3>1 DEF AddUp
      <3>2. CASE t # {}
        <4> DEFINE x == CHOOSE x \in t : TRUE
        <4>1. t \ {x} \in SUBSET U
          OBVIOUS
        <4>2. g[t \ {x}] = f[t \ {x}]
          BY <4>1
        <4> HIDE DEF g
        <4> QED
          BY <3>2, <4>2 DEF AddUp
      <3> QED
        BY <3>1, <3>2
    <2> QED
      BY <2>1, <2>2
  <1>7. g = [t \in SUBSET U |-> AddUp(F, g, t)]
    <2> DEFINE h == [t \in SUBSET U |-> AddUp(F, g, t)]
    <2>1. \A t \in SUBSET U : g[t] = h[t]
      BY <1>6
    <2> QED
      BY <2>1
  <1> HIDE DEF g
  <1> QED
    BY <1>7 DEF Sums

(* There is one such function, whatever is chosen first.                    *)
LEMMA SumsAreOne ==
    ASSUME NEW F, NEW f, NEW g, NEW U, NEW V, NEW S \in SUBSET (U \cap V), IsFiniteSet(S),
           Sums(F, f, U), Sums(F, g, V)
    PROVE  f[S] = g[S]
  <1> DEFINE good == {m \in Nat : \A t \in SUBSET S : Cardinality(t) <= m => f[t] = g[t]}
  <1>1. \A t \in SUBSET S : IsFiniteSet(t) /\ Cardinality(t) \in Nat
    BY FS_Subset, FS_CardinalityType
  <1>2. \A t \in SUBSET S : f[t] = AddUp(F, f, t) /\ g[t] = AddUp(F, g, t)
    BY DEF Sums
  <1>3. 0 \in good
    <2>1. ASSUME NEW t \in SUBSET S, Cardinality(t) <= 0 PROVE f[t] = g[t]
      <3>1. t = {}
        BY <1>1, <2>1, FS_EmptySet
      <3> QED
        BY <1>2, <3>1 DEF AddUp
    <2> QED
      BY <2>1
  <1>4. ASSUME NEW m \in Nat, m \in good PROVE m + 1 \in good
    <2>1. ASSUME NEW t \in SUBSET S, Cardinality(t) <= m + 1 PROVE f[t] = g[t]
      <3>1. CASE t = {}
        BY <1>2, <3>1 DEF AddUp
      <3>2. CASE t # {}
        <4> DEFINE x == CHOOSE x \in t : TRUE
        <4>1. x \in t
          BY <3>2
        <4>2. f[t] = F[x] + f[t \ {x}] /\ g[t] = F[x] + g[t \ {x}]
          BY <1>2, <3>2 DEF AddUp
        <4> HIDE DEF x
        <4>3. t \ {x} \in SUBSET S /\ Cardinality(t \ {x}) <= m
          <5>1. Cardinality(t \ {x}) = Cardinality(t) - 1
            BY <1>1, <4>1, FS_RemoveElement
          <5> QED
            BY <1>1, <2>1, <5>1
        <4>4. f[t \ {x}] = g[t \ {x}]
          BY <1>4, <4>3
        <4> QED
          BY <4>2, <4>4
      <3> QED
        BY <3>1, <3>2
    <2> QED
      BY <2>1
  <1> HIDE DEF good
  <1>5. Cardinality(S) \in good
    <2>1. Nat \subseteq good
      BY <1>3, <1>4, NumbersFollow
    <2> QED
      BY <1>1, <2>1
  <1> QED
    BY <1>1, <1>5 DEF good

(* A sum of numbers is that of any one of them and of the rest, and that of  *)
(* natural numbers is one of them.                                          *)
THEOREM SumsAddUp ==
    ASSUME NEW F, NEW U, IsFiniteSet(U), \A x \in U : F[x] \in Int
    PROVE  /\ SumOver(F, U) \in Int
           /\ (\A x \in U : F[x] \in Nat) => SumOver(F, U) \in Nat
           /\ SumOver(F, {}) = 0
           /\ \A x \in U : SumOver(F, U) = F[x] + SumOver(F, U \ {x})
  <1>1. \A t \in SUBSET U : IsFiniteSet(t) /\ Cardinality(t) \in Nat
    BY FS_Subset, FS_CardinalityType
  <1>2. PICK f : Sums(F, f, U)
    BY SumsExist
  <1>3. ASSUME NEW S \in SUBSET U PROVE SumOver(F, S) = f[S]
    <2> DEFINE g == CHOOSE g : Sums(F, g, S)
    <2>1. IsFiniteSet(S)
      BY <1>1
    <2>2. Sums(F, g, S)
      BY <2>1, SumsExist
    <2> HIDE DEF g
    <2>3. g[S] = f[S]
      BY <1>2, <2>1, <2>2, SumsAreOne
    <2> QED
      BY <2>3 DEF SumOver, g
  <1>4. \A t \in SUBSET U : f[t] = AddUp(F, f, t)
    BY <1>2 DEF Sums
  <1>5. f[{}] = 0
    BY <1>4 DEF AddUp
  <1> DEFINE natural == \A x \in U : F[x] \in Nat
             adds(t) == /\ f[t] \in Int /\ (natural => f[t] \in Nat)
                        /\ \A x \in t : f[t] = F[x] + f[t \ {x}]
             good == {m \in Nat : \A t \in SUBSET U : Cardinality(t) <= m => adds(t)}
  <1>6. 0 \in good
    <2>1. ASSUME NEW t \in SUBSET U, Cardinality(t) <= 0 PROVE adds(t)
      <3>1. t = {}
        BY <1>1, <2>1, FS_EmptySet
      <3> QED
        BY <1>5, <3>1
    <2> QED
      BY <2>1
  <1>7. ASSUME NEW m \in Nat, m \in good PROVE m + 1 \in good
    <2>1. ASSUME NEW t \in SUBSET U, Cardinality(t) <= m + 1 PROVE adds(t)
      <3>1. CASE t = {}
        BY <1>5, <3>1
      <3>2. CASE t # {}
        <4> DEFINE c == CHOOSE x \in t : TRUE
        <4>1. c \in t
          BY <3>2
        <4>2. f[t] = F[c] + f[t \ {c}]
          BY <1>4, <3>2 DEF AddUp
        <4> HIDE DEF c
        <4>3. ASSUME NEW x \in t PROVE t \ {x} \in SUBSET U /\ adds(t \ {x})
          <5>1. Cardinality(t \ {x}) = Cardinality(t) - 1
            BY <1>1, FS_RemoveElement
          <5>2. t \ {x} \in SUBSET U /\ Cardinality(t \ {x}) <= m
            BY <1>1, <2>1, <5>1
          <5> QED
            BY <1>7, <5>2
        <4>4. ASSUME NEW x \in t PROVE f[t] = F[x] + f[t \ {x}]
          <5>1. CASE x = c
            BY <4>2, <5>1
          <5>2. CASE x # c
            <6> DEFINE rest == (t \ {c}) \ {x}
            <6>1. rest = (t \ {x}) \ {c} /\ x \in t \ {c} /\ c \in t \ {x}
              BY <4>1, <5>2
            <6>2. f[t \ {c}] = F[x] + f[rest] /\ f[t \ {c}] \in Int
              BY <4>1, <4>3, <6>1
            <6>3. f[t \ {x}] = F[c] + f[rest] /\ f[t \ {x}] \in Int
              BY <4>3, <6>1
            <6>4. f[rest] \in Int
              <7>1. adds(rest)
                <8>1. Cardinality(t \ {c}) = Cardinality(t) - 1
                  BY <1>1, <4>1, FS_RemoveElement
                <8>2. Cardinality(rest) = Cardinality(t \ {c}) - 1 /\ rest \in SUBSET U
                  <9>1. t \ {c} \in SUBSET U
                    OBVIOUS
                  <9> QED
                    BY <1>1, <6>1, <9>1, FS_RemoveElement
                <8>3. Cardinality(rest) <= m
                  <9> HIDE DEF rest
                  <9> QED
                    BY <1>1, <2>1, <8>1, <8>2
                <8> HIDE DEF rest
                <8> QED
                  BY <1>7, <8>2, <8>3
              <7> QED
                BY <7>1
            <6> HIDE DEF rest
            <6>5. F[x] \in Int /\ F[c] \in Int
              BY <4>1
            <6> QED
              BY <4>2, <6>2, <6>3, <6>4, <6>5
          <5> QED
            BY <5>1, <5>2
        <4>5. f[t] \in Int
          <5>1. f[t \ {c}] \in Int /\ F[c] \in Int
            BY <4>1, <4>3
          <5> QED
            BY <4>2, <5>1
        <4>6. natural => f[t] \in Nat
          <5>1. natural => f[t \ {c}] \in Nat /\ F[c] \in Nat
            BY <4>1, <4>3
          <5> HIDE DEF natural
          <5> QED
            BY <4>2, <5>1
        <4> QED
          BY <4>4, <4>5, <4>6
      <3> QED
        BY <3>1, <3>2
    <2> HIDE DEF adds
    <2> QED
      BY <2>1
  <1> HIDE DEF good, adds
  <1>8. Nat \subseteq good
    BY <1>6, <1>7, NumbersFollow
  <1>9. adds(U)
    <2>1. Cardinality(U) \in good
      BY <1>1, <1>8
    <2> QED
      BY <1>1, <2>1 DEF good
  <1>10. \A x \in U : U \ {x} \in SUBSET U
    OBVIOUS
  <1> QED
    BY <1>3, <1>5, <1>9, <1>10 DEF adds
-----------------------------------------------------------------------------
(* A list that has each member of a set once.                               *)
Enlists(q, P) ==
    /\ q \in Seq(P)
    /\ \A i, j \in 1 .. Len(q) : q[i] = q[j] => i = j
    /\ \A x \in P : \E i \in 1 .. Len(q) : q[i] = x

(* Its length is the size of the set. *)
LEMMA EnlistedLength ==
    ASSUME NEW q, NEW P, Enlists(q, P)
    PROVE  IsFiniteSet(P) /\ Cardinality(P) = Len(q)
  <1> DEFINE n == Len(q)
  <1>1. n \in Nat /\ q \in [1 .. n -> P]
    BY DEF Enlists
  <1>2. q \in Surjection(1 .. n, P) /\ q \in Injection(1 .. n, P)
    BY <1>1 DEF Enlists, Surjection, Injection, IsInjective
  <1>3. IsFiniteSet(1 .. n) /\ Cardinality(1 .. n) = n
    <2> HIDE DEF n
    <2>1. IsFiniteSet(1 .. n) /\ Cardinality(1 .. n) = IF 1 > n THEN 0 ELSE n - 1 + 1
      BY <1>1, FS_Interval
    <2> QED
      BY <1>1, <2>1
  <1> HIDE DEF n
  <1>4. IsFiniteSet(P) /\ Cardinality(P) = Cardinality(1 .. n)
    BY <1>2, <1>3, FS_Surjection
  <1> QED
    BY <1>3, <1>4 DEF n

(* A finite set in an order. *)
InTurn(P, R) == [i \in 1 .. Cardinality(P) |-> Nth(P, R, i)]

LEMMA InTheirOrder ==
    ASSUME NEW P, IsFiniteSet(P), NEW R,
           \A x \in P : <<x, x>> \notin R,
           \A x, y \in P : x = y \/ <<x, y>> \in R \/ <<y, x>> \in R,
           \A x, y, z \in P : <<x, y>> \in R /\ <<y, z>> \in R => <<x, z>> \in R
    PROVE  /\ Enlists(InTurn(P, R), P) /\ Len(InTurn(P, R)) = Cardinality(P)
           /\ \A i, j \in 1 .. Cardinality(P) : i < j => <<InTurn(P, R)[i], InTurn(P, R)[j]>> \in R
  <1> DEFINE size == Cardinality(P)
             nth(i) == Nth(P, R, i)
             q == InTurn(P, R)
  <1>1. /\ size \in Nat
        /\ \A n \in 1 .. size : nth(n) \in P
        /\ \A m, n \in 1 .. size : m < n => <<nth(m), nth(n)>> \in R
        /\ \A x \in P : \E n \in 1 .. size : nth(n) = x
    BY Ranked
  <1>2. q = [i \in 1 .. size |-> nth(i)]
    BY DEF InTurn
  <1> HIDE DEF nth, size, q
  <1>3. Len(q) = size /\ DOMAIN q = 1 .. size
    BY <1>1, <1>2
  <1>4. \A i \in 1 .. size : q[i] = nth(i)
    BY <1>2
  <1>5. ASSUME NEW i \in 1 .. size, NEW j \in 1 .. size, i < j
        PROVE  <<q[i], q[j]>> \in R
    <2>1. <<nth(i), nth(j)>> \in R
      BY <1>1, <1>5
    <2> QED
      BY <1>4, <2>1
  <1>6. \A i \in 1 .. size : q[i] \in P
    BY <1>1, <1>4
  <1>7. \A i, j \in 1 .. size : q[i] = q[j] => i = j
    <2> SUFFICES ASSUME NEW i \in 1 .. size, NEW j \in 1 .. size, i # j, q[i] = q[j] PROVE FALSE
      OBVIOUS
    <2>1. i < j \/ j < i
      BY <1>1
    <2>2. <<q[i], q[j]>> \in R \/ <<q[j], q[i]>> \in R
      BY <1>5, <2>1
    <2>3. q[i] \in P /\ q[j] \in P
      BY <1>6
    <2>4. <<q[i], q[i]>> \in R
      BY <2>2
    <2> QED
      BY <2>3, <2>4
  <1>8. ASSUME NEW x \in P PROVE \E i \in 1 .. size : q[i] = x
    <2>1. PICK i \in 1 .. size : nth(i) = x
      BY <1>1
    <2>2. q[i] = x
      BY <1>4, <2>1
    <2> QED
      BY <2>2
  <1>9. q \in Seq(P)
    <2>1. q \in [1 .. size -> P]
      BY <1>2, <1>4, <1>6
    <2> QED
      BY <1>1, <2>1
  <1>10. Enlists(q, P)
    BY <1>3, <1>7, <1>8, <1>9 DEF Enlists
  <1> QED
    BY <1>3, <1>5, <1>10 DEF size, q

(* Those of a list that are at some of its places, in their order.          *)
AtPlaces(s, places) == [n \in 1 .. Cardinality(places) |-> s[Least(places, n)]]

LEMMA AtPlacesEnlists ==
    ASSUME NEW s, NEW P, Enlists(s, P), NEW places \in SUBSET (1 .. Len(s))
    PROVE  Enlists(AtPlaces(s, places), {s[i] : i \in places})
  <1> DEFINE size == Cardinality(places)
             at(n) == Least(places, n)
             top == Len(s)
             q == AtPlaces(s, places)
             Q == {s[i] : i \in places}
  <1>1. top \in Nat
    BY DEF Enlists
  <1>2. places \in SUBSET Int /\ IsFiniteSet(places)
    <2>1. places \in SUBSET (1 .. top)
      OBVIOUS
    <2> HIDE DEF top
    <2>2. IsFiniteSet(1 .. top)
      BY <1>1, FS_Interval
    <2>3. IsFiniteSet(places)
      BY <2>1, <2>2, FS_Subset
    <2>4. places \in SUBSET Int
      BY <1>1, <2>1
    <2> QED
      BY <2>3, <2>4
  <1>3. /\ size \in Nat
        /\ \A n \in 1 .. size : at(n) \in places
        /\ \A m, n \in 1 .. size : m < n => at(m) < at(n)
        /\ \A x \in places : \E n \in 1 .. size : at(n) = x
    BY <1>2, Numbered
  <1>4. q = [n \in 1 .. size |-> s[at(n)]]
    BY DEF AtPlaces
  <1>5. \A i, j \in places : s[i] = s[j] => i = j
    BY DEF Enlists
  <1>6. \A n \in 1 .. size : s[at(n)] \in Q
    BY <1>3
  <1>7. \A x \in Q : \E i \in places : s[i] = x
    OBVIOUS
  <1> HIDE DEF size, at, top, q, Q
  <1>8. Len(q) = size /\ DOMAIN q = 1 .. size
    BY <1>3, <1>4
  <1>9. \A n \in 1 .. size : q[n] = s[at(n)]
    BY <1>4
  <1>10. ASSUME NEW m \in 1 .. size, NEW n \in 1 .. size, q[m] = q[n] PROVE m = n
    <2>1. at(m) \in places /\ at(n) \in places
      BY <1>3
    <2>2. at(m) = at(n)
      BY <1>5, <1>9, <1>10, <2>1
    <2>3. at(m) \in Int /\ at(n) \in Int
      BY <1>2, <2>1
    <2>4. ~ (at(m) < at(n)) /\ ~ (at(n) < at(m))
      BY <2>2, <2>3
    <2>5. ~ (m < n) /\ ~ (n < m)
      BY <1>3, <2>4
    <2> QED
      BY <1>3, <2>5
  <1>11. ASSUME NEW x \in Q PROVE \E n \in 1 .. size : q[n] = x
    <2>1. PICK i \in places : s[i] = x
      BY <1>7
    <2>2. PICK n \in 1 .. size : at(n) = i
      BY <1>3
    <2> QED
      BY <1>9, <2>1, <2>2
  <1>12. q \in Seq(Q)
    <2>1. q \in [1 .. size -> Q]
      BY <1>4, <1>6, <1>9
    <2> QED
      BY <1>3, <2>1
  <1> QED
    BY <1>8, <1>10, <1>11, <1>12 DEF Enlists, q, Q

(* A part of a list. *)
Part(s, offset, limit) ==
    LET end == IF offset + limit < Len(s) THEN offset + limit ELSE Len(s)
    IN  [n \in 1 .. end - offset |-> s[offset + n]]

Room(s, offset, limit) ==
    IF offset + limit < Len(s) THEN limit ELSE IF offset < Len(s) THEN Len(s) - offset ELSE 0

IsPart(q, s, offset, size) ==
    /\ size \in Nat /\ (offset + size <= Len(s) \/ size = 0)
    /\ q = [n \in 1 .. size |-> s[offset + n]]
    /\ Len(q) = size /\ DOMAIN q = 1 .. size
    /\ \A n \in 1 .. size : q[n] = s[offset + n]

LEMMA PartIs ==
    ASSUME NEW s, Len(s) \in Nat, NEW offset \in Nat, NEW limit \in Nat
    PROVE  IsPart(Part(s, offset, limit), s, offset, Room(s, offset, limit))
  <1> DEFINE top == Len(s)
             end == IF offset + limit < top THEN offset + limit ELSE top
             size == Room(s, offset, limit)
             h(n) == s[offset + n]
             q == Part(s, offset, limit)
  <1>1. 1 .. end - offset = 1 .. size /\ size \in Nat /\ (offset + size <= top \/ size = 0)
    <2>1. /\ top \in Nat /\ end = (IF offset + limit < top THEN offset + limit ELSE top)
          /\ size = IF offset + limit < top THEN limit ELSE IF offset < top THEN top - offset ELSE 0
      BY DEF Room
    <2> HIDE DEF top, end, size
    <2>2. CASE offset + limit < top
      BY <2>1, <2>2
    <2>3. CASE ~ (offset + limit < top) /\ offset < top
      BY <2>1, <2>3
    <2>4. CASE ~ (offset + limit < top) /\ ~ (offset < top)
      BY <2>1, <2>4
    <2> QED
      BY <2>2, <2>3, <2>4
  <1>2. q = [n \in 1 .. end - offset |-> h(n)]
    BY DEF Part
  <1> HIDE DEF h, end, q, size
  <1>3. q = [n \in 1 .. size |-> h(n)]
    BY <1>1, <1>2
  <1>4. Len(q) = size /\ DOMAIN q = 1 .. size
    BY <1>1, <1>3
  <1>5. \A n \in 1 .. size : q[n] = h(n)
    BY <1>3
  <1> QED
    BY <1>1, <1>3, <1>4, <1>5 DEF h, q, size, IsPart

(* The beginning of a list. *)
Cut(s, n) == IF n < Len(s) THEN n ELSE Len(s)

LEMMA Beginning ==
    ASSUME NEW S, NEW s \in Seq(S), NEW n \in Nat
    PROVE  /\ Cut(s, n) \in Nat /\ Cut(s, n) <= Len(s) /\ (n >= Len(s) => Cut(s, n) = Len(s))
           /\ Part(s, 0, n) = [i \in 1 .. Cut(s, n) |-> s[i]]
           /\ Len(Part(s, 0, n)) = Cut(s, n) /\ Part(s, 0, n) \in Seq(S)
           /\ \A i \in 1 .. Cut(s, n) : Part(s, 0, n)[i] = s[i]
  <1> DEFINE top == Len(s)
             size == Cut(s, n)
             q == Part(s, 0, n)
  <1>1. top \in Nat /\ \A i \in 1 .. top : s[i] \in S
    OBVIOUS
  <1>2. size \in Nat /\ size <= top /\ (n >= top => size = top) /\ size = Room(s, 0, n)
    <2>1. size = (IF n < top THEN n ELSE top)
          /\ Room(s, 0, n) = IF 0 + n < top THEN n ELSE IF 0 < top THEN top - 0 ELSE 0
      BY DEF Cut, Room
    <2> HIDE DEF top, size
    <2> QED
      BY <1>1, <2>1
  <1>3. IsPart(q, s, 0, Room(s, 0, n))
    BY <1>1, PartIs
  <1>4. q = [i \in 1 .. size |-> s[0 + i]] /\ Len(q) = size /\ \A i \in 1 .. size : q[i] = s[0 + i]
    <2> HIDE DEF q, size
    <2> QED
      BY <1>2, <1>3 DEF IsPart
  <1> HIDE DEF q, size, top
  <1>5. \A i \in 1 .. size : 0 + i = i /\ i \in 1 .. top
    BY <1>1, <1>2
  <1>6. q = [i \in 1 .. size |-> s[i]]
    BY <1>4, <1>5
  <1>7. \A i \in 1 .. size : q[i] = s[i] /\ s[i] \in S
    BY <1>1, <1>4, <1>5
  <1>8. q \in Seq(S)
    <2>1. q \in [1 .. size -> S]
      BY <1>6, <1>7
    <2> QED
      BY <1>2, <2>1
  <1> QED
    BY <1>2, <1>4, <1>6, <1>7, <1>8 DEF q, size, top

LEMMA BeginningEnlists ==
    ASSUME NEW s, NEW P, Enlists(s, P), NEW n \in Nat
    PROVE  /\ Enlists(Part(s, 0, n), {s[i] : i \in 1 .. Cut(s, n)})
           /\ n >= Len(s) => Part(s, 0, n) = s
  <1> DEFINE q == Part(s, 0, n)
             size == Cut(s, n)
             Q == {s[i] : i \in 1 .. size}
  <1>1. /\ s \in Seq(P) /\ Len(s) \in Nat
        /\ \A i, j \in 1 .. Len(s) : s[i] = s[j] => i = j
    BY DEF Enlists
  <1>2. /\ size \in Nat /\ size <= Len(s) /\ (n >= Len(s) => size = Len(s))
        /\ q = [i \in 1 .. size |-> s[i]]
        /\ Len(q) = size /\ q \in Seq(P)
        /\ \A i \in 1 .. size : q[i] = s[i]
    BY <1>1, Beginning
  <1>3. (\A i \in 1 .. size : s[i] \in Q) /\ \A x \in Q : \E i \in 1 .. size : s[i] = x
    OBVIOUS
  <1> HIDE DEF q, size, Q
  <1>4. \A i, j \in 1 .. size : q[i] = q[j] => i = j
    <2> SUFFICES ASSUME NEW i \in 1 .. size, NEW j \in 1 .. size, q[i] = q[j] PROVE i = j
      OBVIOUS
    <2>1. i \in 1 .. Len(s) /\ j \in 1 .. Len(s)
      BY <1>1, <1>2
    <2> QED
      BY <1>1, <1>2, <2>1
  <1>5. q \in Seq(Q)
    <2>1. q \in [1 .. size -> Q]
      BY <1>2, <1>3
    <2> QED
      BY <1>2, <2>1
  <1>6. Enlists(q, Q)
    BY <1>2, <1>3, <1>4, <1>5 DEF Enlists
  <1>7. s = [i \in 1 .. Len(s) |-> s[i]]
    BY <1>1
  <1>8. n >= Len(s) => q = s
    BY <1>2, <1>7
  <1> QED
    BY <1>6, <1>8 DEF q, size, Q

IsJoined(q, S, u, v) ==
    /\ q \in Seq(S) /\ Len(q) = Len(u) + Len(v)
    /\ \A i \in 1 .. Len(u) : q[i] = u[i]
    /\ \A i \in 1 .. Len(v) : q[Len(u) + i] = v[i]

LEMMA Joined ==
    ASSUME NEW S, NEW u \in Seq(S), NEW v \in Seq(S)
    PROVE  IsJoined(u \o v, S, u, v)
  BY DEF IsJoined

LEMMA PartsMeet ==
    ASSUME NEW S, NEW s \in Seq(S), NEW a \in Nat, NEW k \in Nat
    PROVE  Part(s, 0, a) \o Part(s, a, k) = Part(s, 0, a + k)
  <1> DEFINE top == Len(s)
             rest == Room(s, a, k)
             u == Part(s, 0, a)
             v == Part(s, a, k)
             w == Part(s, 0, a + k)
  <1>1. top \in Nat /\ (\A i \in 1 .. top : s[i] \in S) /\ a + k \in Nat
    OBVIOUS
  <1>2. /\ Cut(s, a) + rest = Cut(s, a + k) /\ Cut(s, a) \in Nat /\ Cut(s, a + k) \in Nat
        /\ rest \in Nat /\ (rest # 0 => Cut(s, a) = a /\ a + rest <= top)
    <2>1. /\ Cut(s, a) = (IF a < top THEN a ELSE top)
          /\ Cut(s, a + k) = (IF a + k < top THEN a + k ELSE top)
          /\ rest = IF a + k < top THEN k ELSE IF a < top THEN top - a ELSE 0
      BY DEF Cut, Room
    <2> HIDE DEF top, rest
    <2> QED
      BY <1>1, <2>1
  <1>3. IsPart(v, s, a, rest)
    BY <1>1, PartIs
  <1>4. /\ Len(u) = Cut(s, a) /\ u \in Seq(S) /\ \A i \in 1 .. Cut(s, a) : u[i] = s[i]
        /\ Len(w) = Cut(s, a + k) /\ w \in Seq(S) /\ \A i \in 1 .. Cut(s, a + k) : w[i] = s[i]
    <2> HIDE DEF top, rest
    <2> QED
      BY <1>1, Beginning
  <1> HIDE DEF rest, u, v, w, top
  <1>5. /\ v = [i \in 1 .. rest |-> s[a + i]] /\ Len(v) = rest
        /\ \A i \in 1 .. rest : v[i] = s[a + i] /\ s[a + i] \in S
    <2>1. \A i \in 1 .. rest : a + i \in 1 .. top
      BY <1>1, <1>2
    <2> QED
      BY <1>1, <1>3, <2>1 DEF IsPart
  <1>6. v \in Seq(S)
    <2>1. v \in [1 .. rest -> S]
      BY <1>5
    <2> QED
      BY <1>2, <2>1
  <1> DEFINE x == u \o v
  <1>7. /\ x \in Seq(S) /\ Len(x) = Len(u) + Len(v)
        /\ \A i \in 1 .. Len(u) : x[i] = u[i]
        /\ \A i \in 1 .. Len(v) : x[Len(u) + i] = v[i]
    <2>1. u \in Seq(S) /\ v \in Seq(S)
      BY <1>4, <1>6
    <2>2. IsJoined(u \o v, S, u, v)
      BY <2>1, Joined
    <2> QED
      BY <2>2 DEF IsJoined
  <1> HIDE DEF x
  <1>8. ASSUME NEW i \in 1 .. Cut(s, a + k) PROVE x[i] = w[i]
    <2>1. CASE i <= Cut(s, a)
      <3>1. i \in 1 .. Cut(s, a)
        BY <1>2, <2>1
      <3> QED
        BY <1>4, <1>7, <3>1
    <2>2. CASE ~ (i <= Cut(s, a))
      <3> DEFINE j == i - Cut(s, a)
      <3>1. j \in 1 .. rest /\ rest # 0 /\ i = Cut(s, a) + j
        BY <1>2, <2>2
      <3> HIDE DEF j
      <3>2. x[Cut(s, a) + j] = s[a + j]
        BY <1>4, <1>5, <1>7, <3>1
      <3>3. w[i] = s[i]
        BY <1>4
      <3> QED
        BY <1>2, <3>1, <3>2, <3>3
    <2> QED
      BY <2>1, <2>2
  <1>9. Len(x) = Len(w)
    BY <1>2, <1>4, <1>5, <1>7
  <1>10. x = w
    <2>1. x = [i \in 1 .. Len(x) |-> x[i]] /\ w = [i \in 1 .. Len(w) |-> w[i]]
      BY <1>4, <1>7
    <2> QED
      BY <1>4, <1>8, <1>9, <2>1
  <1> QED
    BY <1>10 DEF u, v, w, x

(* The parts of a list, one after the other, are its beginning.             *)
THEOREM PartsJoin ==
    ASSUME NEW S, NEW s \in Seq(S), NEW k \in Nat, NEW m \in Nat
    PROVE  FlattenSeq([n \in 1 .. m |-> Part(s, (n - 1) * k, k)]) = Part(s, 0, m * k)
  <1> DEFINE q == [n \in 1 .. m |-> Part(s, (n - 1) * k, k)]
             next(f) == [i \in 1 .. m |-> IF i = 1 THEN q[i] ELSE f[i - 1] \o q[i]]
             g == [i \in 1 .. m |-> Part(s, 0, i * k)]
             flatten == CHOOSE f : f = next(f)
  <1>1. Len(q) = m /\ \A n \in 1 .. m : q[n] = Part(s, (n - 1) * k, k)
    OBVIOUS
  <1>2. FlattenSeq(q) = IF m = 0 THEN q ELSE flatten[m]
    <2>1. FlattenSeq(q) = IF Len(q) = 0 THEN q
                          ELSE (CHOOSE f : f = [i \in 1 .. Len(q) |-> IF i = 1 THEN q[i] ELSE f[i - 1] \o q[i]])[Len(q)]
      BY Zenon DEF FlattenSeq
    <2> HIDE DEF q
    <2> QED
      BY <1>1, <2>1, Zenon
  <1>3. CASE m = 0
    <2>1. Part(s, 0, 0) = [i \in 1 .. Cut(s, 0) |-> s[i]] /\ Cut(s, 0) = 0
      <3>1. 0 \in Nat /\ Len(s) \in Nat
        OBVIOUS
      <3>2. Part(s, 0, 0) = [i \in 1 .. Cut(s, 0) |-> s[i]]
        BY <3>1, Beginning
      <3> QED
        BY <3>1, <3>2 DEF Cut
    <2>2. 1 .. 0 = {} /\ m * k = 0
      BY <1>3
    <2>3. q = Part(s, 0, 0)
      BY <1>3, <2>1, <2>2
    <2> HIDE DEF q
    <2> QED
      BY <1>2, <1>3, <2>2, <2>3 DEF q
  <1>4. CASE m # 0
    <2>1. ASSUME NEW i \in 1 .. m
          PROVE  g[i] = IF i = 1 THEN q[i] ELSE g[i - 1] \o q[i]
      <3>1. CASE i = 1
        <4>1. (1 - 1) * k = 0 /\ 1 * k = k
          OBVIOUS
        <4> QED
          BY <1>1, <3>1, <4>1
      <3>2. CASE i # 1
        <4> DEFINE a == (i - 1) * k
        <4>1. a \in Nat /\ a + k = i * k
          OBVIOUS
        <4>2. g[i - 1] = Part(s, 0, a) /\ i - 1 \in 1 .. m
          BY <3>2
        <4>3. q[i] = Part(s, a, k)
          BY <1>1
        <4>4. g[i] = Part(s, 0, i * k)
          OBVIOUS
        <4> HIDE DEF a, g, q
        <4>5. Part(s, 0, a) \o Part(s, a, k) = Part(s, 0, a + k)
          BY <4>1, PartsMeet
        <4>6. g[i] = g[i - 1] \o q[i]
          BY <4>1, <4>2, <4>3, <4>4, <4>5, Zenon
        <4> QED
          BY <3>2, <4>6, Zenon
      <3> QED
        BY <3>1, <3>2
    <2>2. g = next(g)
      <3> DEFINE h == next(g)
      <3>1. \A i \in 1 .. m : h[i] = IF i = 1 THEN q[i] ELSE g[i - 1] \o q[i]
        OBVIOUS
      <3>2. DOMAIN h = 1 .. m /\ h = [i \in 1 .. m |-> h[i]]
        OBVIOUS
      <3>3. g = [i \in 1 .. m |-> g[i]]
        OBVIOUS
      <3> HIDE DEF g, h, q
      <3>4. \A i \in 1 .. m : g[i] = h[i]
        BY <2>1, <3>1
      <3> QED
        BY <3>2, <3>3, <3>4 DEF h
    <2> HIDE DEF g, q
    <2>3. flatten = next(flatten)
      BY <2>2, Zenon
    <2> HIDE DEF flatten
    <2>4. \A i \in 1 .. m : flatten[i] = IF i = 1 THEN q[i] ELSE flatten[i - 1] \o q[i]
      BY <2>3
    <2> DEFINE good == {n \in Nat : n + 1 <= m => flatten[n + 1] = g[n + 1]}
    <2>5. 0 \in good
      BY <1>4, <2>1, <2>4
    <2>6. ASSUME NEW n \in Nat, n \in good PROVE n + 1 \in good
      <3>1. SUFFICES ASSUME n + 2 <= m PROVE flatten[n + 2] = g[n + 2]
        OBVIOUS
      <3>2. n + 2 \in 1 .. m /\ n + 2 # 1 /\ (n + 2) - 1 = n + 1
        BY <3>1
      <3>3. flatten[n + 1] = g[n + 1]
        BY <2>6, <3>1
      <3>4. flatten[n + 2] = flatten[n + 1] \o q[n + 2]
        BY <2>4, <3>2
      <3>5. g[n + 2] = g[n + 1] \o q[n + 2]
        BY <2>1, <3>2
      <3> QED
        BY <3>3, <3>4, <3>5
    <2> HIDE DEF good
    <2>7. m - 1 \in good
      <3>1. Nat \subseteq good
        BY <2>5, <2>6, NumbersFollow
      <3> QED
        BY <1>4, <3>1
    <2>8. flatten[m] = g[m]
      BY <1>4, <2>7 DEF good
    <2>9. g[m] = Part(s, 0, m * k)
      BY <1>4 DEF g
    <2> QED
      BY <1>2, <1>4, <2>8, <2>9 DEF q
  <1> QED
    BY <1>3, <1>4

(* A sum of natural numbers is not less than that of some of them.          *)
LEMMA SumsGrow ==
    ASSUME NEW F, NEW U, IsFiniteSet(U), \A x \in U : F[x] \in Nat, NEW A \in SUBSET U
    PROVE  SumOver(F, A) <= SumOver(F, U)
  <1> DEFINE sum(T) == SumOver(F, T)
             G == {T \in SUBSET U : sum(T \cap A) <= sum(T)}
  <1>1. ASSUME NEW T \in SUBSET U
        PROVE  sum(T) \in Nat /\ sum({}) = 0 /\ \A x \in T : sum(T) = F[x] + sum(T \ {x})
    <2>1. IsFiniteSet(T)
      BY FS_Subset
    <2>2. (\A x \in T : F[x] \in Int) /\ \A x \in T : F[x] \in Nat
      OBVIOUS
    <2> QED
      BY <2>1, <2>2, SumsAddUp
  <1> HIDE DEF sum
  <1>2. ASSUME NEW T \in SUBSET U, NEW x \in U, x \notin T
        PROVE  sum(T \cup {x}) = F[x] + sum(T)
    <2>1. T \cup {x} \in SUBSET U /\ (T \cup {x}) \ {x} = T /\ x \in T \cup {x}
      BY <1>2
    <2>2. sum(T \cup {x}) = F[x] + sum((T \cup {x}) \ {x})
      BY <1>1, <2>1
    <2> QED
      BY <2>1, <2>2
  <1>3. {} \in G
    <2>1. {} \cap A = {} /\ sum({}) = 0 /\ {} \in SUBSET U
      BY <1>1
    <2> QED
      BY <2>1
  <1>4. ASSUME NEW T \in SUBSET U, NEW x \in U, T \in G PROVE T \cup {x} \in G
    <2>1. CASE x \in T
      <3>1. T \cup {x} = T
        BY <2>1
      <3> QED
        BY <1>4, <3>1
    <2>2. CASE x \notin T
      <3>1. T \cup {x} \in SUBSET U /\ T \cap A \in SUBSET U
        OBVIOUS
      <3>2. sum(T \cup {x}) = F[x] + sum(T)
        BY <1>2, <2>2
      <3>3. sum(T) \in Nat /\ sum(T \cap A) \in Nat /\ F[x] \in Nat /\ sum(T \cap A) <= sum(T)
        BY <1>1, <1>4, <3>1
      <3>4. CASE x \in A
        <4>1. (T \cup {x}) \cap A = (T \cap A) \cup {x} /\ x \notin T \cap A
          BY <2>2, <3>4
        <4>2. sum((T \cap A) \cup {x}) = F[x] + sum(T \cap A)
          BY <1>2, <3>1, <4>1
        <4>3. sum((T \cup {x}) \cap A) = F[x] + sum(T \cap A)
          BY <4>1, <4>2
        <4>4. F[x] + sum(T \cap A) <= F[x] + sum(T)
          BY <3>3
        <4>5. sum((T \cup {x}) \cap A) <= sum(T \cup {x})
          BY <3>2, <4>3, <4>4
        <4> QED
          BY <3>1, <4>5
      <3>5. CASE x \notin A
        <4>1. (T \cup {x}) \cap A = T \cap A
          BY <3>5
        <4>2. sum(T \cap A) <= F[x] + sum(T)
          BY <3>3
        <4>3. sum((T \cup {x}) \cap A) <= sum(T \cup {x})
          BY <3>2, <4>1, <4>2
        <4> QED
          BY <3>1, <4>3
      <3> QED
        BY <3>4, <3>5
    <2> QED
      BY <2>1, <2>2
  <1> HIDE DEF G
  <1>5. U \in G
    BY <1>3, <1>4, SubsetsFollow
  <1>6. U \cap A = A
    OBVIOUS
  <1> QED
    BY <1>5, <1>6 DEF G, sum
=============================================================================
