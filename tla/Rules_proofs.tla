----------------------------- MODULE Rules_proofs -----------------------------
(***************************************************************************)
(* Proofs about the pure rules: what they promise of every case that may be *)
(* put to them, for every vocabulary, corpus and set of cases.              *)
(*                                                                          *)
(* The recursion of FoldLeft and of the sums over sets is reasoned about    *)
(* with the theorems of Folding, whose step is here Keep.                   *)
(***************************************************************************)
EXTENDS Rules, FiniteSetTheorems, TLAPS

Orders == INSTANCE Folding WITH Step <- Trend!Keep, Base <- {}

(* The notions of size of Folding, of Trends and of the library are one.      *)
LEMMA OrdersFinite ==
    \A S : /\ Orders!Cardinality(S) = Cardinality(S)
           /\ Orders!IsFiniteSet(S) <=> IsFiniteSet(S)
  BY DEF Orders!Cardinality, Cardinality, Orders!IsFiniteSet, IsFiniteSet

LEMMA TrendCardinality ==
    \A S : Trend!Cardinality(S) = Cardinality(S)
  BY DEF Trend!Cardinality, Cardinality

(* The image of a finite set is finite.                                       *)
LEMMA ImageIsFinite ==
    ASSUME NEW S, IsFiniteSet(S), NEW f, DOMAIN f = S
    PROVE  IsFiniteSet({f[x] : x \in S})
  <1> DEFINE T == {f[x] : x \in S}
             g == [x \in S |-> f[x]]
  <1>1. g \in Surjection(S, T)
    BY DEF Surjection
  <1> QED
    BY <1>1, FS_Surjection

(* A list is a sequence of its members.                                       *)
LEMMA ListIs ==
    ASSUME NEW s, IsList(s)
    PROVE  Len(s) \in Nat /\ DOMAIN s = 1 .. Len(s) /\ s \in Seq({s[i] : i \in DOMAIN s})
  <1> DEFINE n == Len(s)
  <1>1. n \in Nat /\ s = [i \in 1 .. n |-> s[i]]
    BY DEF IsList
  <1> HIDE DEF n
  <1>2. DOMAIN s = 1 .. n
    BY <1>1
  <1>3. s \in [1 .. n -> {s[i] : i \in DOMAIN s}]
    BY <1>1, <1>2
  <1>4. s \in Seq({s[i] : i \in DOMAIN s})
    BY <1>1, <1>3
  <1> QED
    BY <1>1, <1>2, <1>4 DEF n
-----------------------------------------------------------------------------
(* The feed.                                                                  *)

(* A set of two things or more has two that differ.                           *)
LEMMA TwoDiffer ==
    ASSUME NEW S, Cardinality(S) >= 2
    PROVE  \E x, y \in S : x # y
  <1>1. S # {}
    BY FS_EmptySet
  <1>2. PICK x \in S : TRUE
    BY <1>1
  <1>3. S # {x}
    BY FS_Singleton
  <1> QED
    BY <1>2, <1>3

(* The least of a finite set of numbers is one of them.                       *)
LEMMA MinIs ==
    ASSUME NEW S \in SUBSET Int, IsFiniteSet(S), S # {}
    PROVE  Outfits!Min(S) \in S /\ \A y \in S : Outfits!Min(S) <= y
  <1> DEFINE R == {x \in S \X S : x[1] < x[2]}
  <1>1. \A x, y \in S : <<x, y>> \in R <=> x < y
    OBVIOUS
  <1> HIDE DEF R
  <1>2. /\ \A x \in S : <<x, x>> \notin R
        /\ \A x, y \in S : x = y \/ <<x, y>> \in R \/ <<y, x>> \in R
        /\ \A x, y, z \in S : <<x, y>> \in R /\ <<y, z>> \in R => <<x, z>> \in R
    BY <1>1
  <1>3. 1 \in 1 .. Cardinality(S)
    <2>1. Cardinality(S) \in Nat /\ Cardinality(S) # 0
      BY FS_CardinalityType, FS_EmptySet
    <2> QED
      BY <2>1
  <1>4. \E x \in S : Orders!Cardinality(Orders!Under(S, R, x)) = 1 - 1
    <2>1. 1 \in 1 .. Orders!Cardinality(S)
      BY <1>3, OrdersFinite
    <2>2. \A n \in 1 .. Orders!Cardinality(S) : \E x \in S : Orders!Cardinality(Orders!Under(S, R, x)) = n - 1
      BY <1>2, OrdersFinite, Orders!Ranks
    <2> QED
      BY <2>1, <2>2
  <1>5. PICK x \in S : Cardinality(Orders!Under(S, R, x)) = 0
    BY <1>4, OrdersFinite
  <1>6. Orders!Under(S, R, x) = {}
    <2>1. Orders!Under(S, R, x) \in SUBSET S
      BY DEF Orders!Under
    <2>2. IsFiniteSet(Orders!Under(S, R, x))
      BY <2>1, FS_Subset
    <2> QED
      BY <1>5, <2>2, FS_EmptySet
  <1>7. \A y \in S : x <= y
    <2> SUFFICES ASSUME NEW y \in S PROVE x <= y
      OBVIOUS
    <2>1. ~ (y < x)
      BY <1>1, <1>6 DEF Orders!Under
    <2>2. x \in Int /\ y \in Int
      OBVIOUS
    <2> QED
      BY <2>1, <2>2
  <1> QED
    BY <1>7 DEF Outfits!Min

(* A sum of growths, as a sum of Folding.                                     *)
LEMMA GrowthsAddUp ==
    ASSUME NEW U, IsFiniteSet(U), NEW S \in SUBSET U
    PROVE  Trend!MapThenSumSet(LAMBDA v : v.growth, S) = Orders!SumOver([v \in U |-> v.growth], S)
  <1> DEFINE F == [v \in U |-> v.growth]
             body(f, t) == IF t = {} THEN 0 ELSE LET x == CHOOSE x \in t : TRUE IN x.growth + f[t \ {x}]
             is(f) == f = [t \in SUBSET S |-> body(f, t)]
             sum == CHOOSE f : is(f)
  <1>1. Trend!MapThenSumSet(LAMBDA v : v.growth, S) = sum[S]
    BY Zenon DEF Trend!MapThenSumSet, Trend!MapThenFoldSet
  <1>2. ASSUME NEW f, NEW t \in SUBSET S PROVE body(f, t) = Orders!AddUp(F, f, t)
    <2>1. CASE t = {}
      BY <2>1 DEF Orders!AddUp
    <2>2. CASE t # {}
      <3> DEFINE x == CHOOSE x \in t : TRUE
      <3>1. x \in U
        BY <2>2
      <3>2. body(f, t) = x.growth + f[t \ {x}]
        BY <2>2
      <3>3. Orders!AddUp(F, f, t) = F[x] + f[t \ {x}]
        BY <2>2 DEF Orders!AddUp
      <3> HIDE DEF x
      <3> QED
        BY <3>1, <3>2, <3>3
    <2> QED
      BY <2>1, <2>2
  <1>3. ASSUME NEW f PROVE is(f) <=> Orders!Sums(F, f, S)
    <2>1. [t \in SUBSET S |-> body(f, t)] = [t \in SUBSET S |-> Orders!AddUp(F, f, t)]
      <3> HIDE DEF body, F
      <3> QED
        BY <1>2
    <2> HIDE DEF body, F
    <2> QED
      BY <2>1 DEF Orders!Sums
  <1> HIDE DEF is, F
  <1>4. Orders!IsFiniteSet(S)
    BY FS_Subset, OrdersFinite
  <1>5. is(sum)
    <2>1. \E f : is(f)
      BY <1>3, <1>4, Orders!SumsExist
    <2> QED
      BY <2>1
  <1> HIDE DEF sum
  <1> DEFINE other == CHOOSE f : Orders!Sums(F, f, S)
  <1>6. Orders!Sums(F, other, S)
    BY <1>4, Orders!SumsExist
  <1> HIDE DEF other
  <1>7. sum[S] = other[S]
    BY <1>3, <1>4, <1>5, <1>6, Orders!SumsAreOne
  <1> QED
    BY <1>1, <1>7 DEF Orders!SumOver, other, F

(* A mean that is clamped moves towards what is added to it.                  *)
LEMMA MeansMove ==
    ASSUME NEW n \in Nat, n # 0, NEW S \in Int, NEW g \in Int
    PROVE  LET old == Trend!Clamp(0, S, 100 * n)
               new == Trend!Clamp(0, S + g, 100 * (n + 1))
           IN  /\ old \in Int /\ new \in Int
               /\ g * (100 * n) <= 100 * old => new * n <= old * (n + 1)
               /\ g * (100 * n) >= 100 * old => new * n >= old * (n + 1)
  <1> DEFINE old == Trend!Clamp(0, S, 100 * n)
             new == Trend!Clamp(0, S + g, 100 * (n + 1))
  <1>1. /\ old = IF S < 0 THEN 0 ELSE IF S > 100 * n THEN 100 * n ELSE S
        /\ new = IF S + g < 0 THEN 0 ELSE IF S + g > 100 * (n + 1) THEN 100 * (n + 1) ELSE S + g
    BY DEF Trend!Clamp
  <1>2. old \in Int /\ new \in Int
    BY <1>1
  <1> HIDE DEF old, new
  <1>3. g * (100 * n) = 100 * (g * n) /\ g * n \in Int
    OBVIOUS
  <1>4. S < 0 => old = 0
    BY <1>1
  <1>5. S > 100 * n => old = 100 * n
    BY <1>1
  <1>6. S >= 0 /\ S <= 100 * n => old = S
    BY <1>1
  <1>7. old * (n + 1) = old * n + old /\ old * n \in Int
    BY <1>2
  <1>8. ASSUME NEW k \in Int, k <= 0 PROVE k * n <= 0
    BY <1>8
  <1>9. ASSUME NEW k \in Int, NEW l \in Int, k <= l PROVE k * n <= l * n
    <2>1. (k - l) * n <= 0
      BY <1>8, <1>9
    <2> QED
      BY <2>1
  <1>10. ASSUME NEW k \in Int, k * n <= 0 PROVE k <= 0
    BY <1>10
  <1>11. ASSUME g * n <= old PROVE new * n <= old * (n + 1)
    <2>1. CASE S < 0
      <3>1. g <= 0
        BY <1>4, <1>10, <1>11, <2>1
      <3>2. new = 0 /\ old = 0
        BY <1>1, <1>4, <2>1, <3>1
      <3> QED
        BY <3>2
    <2>2. CASE S > 100 * n
      <3>1. new <= 100 * (n + 1)
        BY <1>1
      <3>2. new * n <= (100 * (n + 1)) * n
        BY <1>2, <1>9, <3>1
      <3> QED
        BY <1>2, <1>5, <2>2, <3>2
    <2>3. CASE S >= 0 /\ S <= 100 * n
      <3>1. CASE S + g < 0
        <4>1. new = 0
          BY <1>1, <3>1
        <4> QED
          BY <1>6, <2>3, <4>1
      <3>2. CASE S + g >= 0
        <4>1. new <= S + g
          BY <1>1, <3>2
        <4>2. new * n <= (S + g) * n
          BY <1>2, <1>9, <4>1
        <4>3. (S + g) * n = S * n + g * n
          OBVIOUS
        <4> QED
          BY <1>2, <1>3, <1>6, <1>7, <1>11, <2>3, <4>2, <4>3
      <3> QED
        BY <3>1, <3>2
    <2> QED
      BY <2>1, <2>2, <2>3
  <1>12. ASSUME g * n >= old PROVE new * n >= old * (n + 1)
    <2>1. CASE S < 0
      <3>1. new >= 0 /\ old = 0
        BY <1>1, <1>4, <2>1
      <3> QED
        BY <1>2, <3>1
    <2>2. CASE S > 100 * n
      <3>1. old = 100 * n
        BY <1>5, <2>2
      <3>2. (100 - g) * n <= 0
        BY <1>12, <3>1
      <3>3. g >= 100
        BY <1>10, <3>2
      <3>4. new = 100 * (n + 1)
        BY <1>1, <2>2, <3>3
      <3> QED
        BY <3>1, <3>4
    <2>3. CASE S >= 0 /\ S <= 100 * n
      <3>1. old = S
        BY <1>6, <2>3
      <3>2. (0 - g) * n <= 0
        BY <1>3, <1>12, <2>3, <3>1
      <3>3. g >= 0
        BY <1>10, <3>2
      <3>4. CASE new = S + g
        <4>1. (S + g) * n = S * n + g * n
          OBVIOUS
        <4> QED
          BY <1>3, <1>7, <1>12, <3>1, <3>4, <4>1
      <3>5. CASE new = 100 * (n + 1)
        <4>1. (100 * (n + 1)) * n = (100 * n) * (n + 1)
          OBVIOUS
        <4>2. S * n <= (100 * n) * n
          BY <1>9, <2>3
        <4>3. (100 * n) * (n + 1) = (100 * n) * n + 100 * n
          OBVIOUS
        <4> QED
          BY <1>7, <2>3, <3>1, <3>5, <4>1, <4>2, <4>3
      <3> QED
        BY <1>1, <2>3, <3>3, <3>4, <3>5
    <2> QED
      BY <2>1, <2>2, <2>3
  <1> QED
    BY <1>2, <1>3, <1>11, <1>12 DEF old, new

(* Of two means over so many, with as much besides, the greater one passes    *)
(* where the other does.                                                      *)
LEMMA GreaterPasses ==
    ASSUME NEW n \in Nat, n # 0, NEW m \in Nat, m # 0, NEW a \in Int, NEW b \in Int, NEW K \in Int,
           b * n <= a * m, 1680 * b + m * K >= 0
    PROVE  1680 * a + n * K >= 0
  <1>1. (1680 * b + m * K) * n >= 0
    OBVIOUS
  <1>2. (1680 * b + m * K) * n = 1680 * (b * n) + (n * K) * m
    OBVIOUS
  <1>3. (1680 * a + n * K) * m = 1680 * (a * m) + (n * K) * m
    OBVIOUS
  <1>4. (1680 * a + n * K) * m >= 0
    BY <1>1, <1>2, <1>3
  <1> QED
    BY <1>4

(* What the score of signals is made of.                                      *)
Grown(S) == {x \in S : x.growth # Unknown}
Lifted(S) == Trend!MapThenSumSet(LAMBDA x : x.growth, Grown(S))
Number(S) == Trend!Max({1, Trend!Cardinality(Grown(S))})
Speed(S) == Trend!Clamp(0, Lifted(S), 100 * Number(S))
Beside(ages, sources, heard) ==
    3000 * Trend!Clamp(0, 48 - Trend!Min(ages), 48)
        + 4800 * ((IF Trend!Cardinality(sources) >= 2 THEN 25 ELSE 0) + (IF heard THEN 10 ELSE 0))
        - 264000
Heard(S) == \E x \in S : x.volume # Unknown
Besides(S, now) == Beside({now - x.at : x \in S}, {x.source : x \in S}, Heard(S))
Passes(S, now) == Trend!Score(S, now).score[1] >= 55 * Trend!Score(S, now).score[2]

AreSignals(S) == /\ IsFiniteSet(S) /\ S # {}
                 /\ \A x \in S : x.at \in Int /\ x.growth \in Int \cup {Unknown}

LEMMA NumberIs ==
    ASSUME NEW S, IsFiniteSet(S)
    PROVE  /\ Number(S) \in Nat /\ Number(S) # 0
           /\ Grown(S) # {} => Number(S) = Cardinality(Grown(S))
  <1> DEFINE k == Cardinality(Grown(S))
             T == {1, k}
  <1>1. IsFiniteSet(Grown(S))
    BY FS_Subset DEF Grown
  <1>2. k \in Nat /\ (Grown(S) # {} => k # 0)
    BY <1>1, FS_CardinalityType, FS_EmptySet
  <1>3. Number(S) = Trend!Max(T)
    BY TrendCardinality DEF Number
  <1> HIDE DEF k
  <1>4. \E x \in T : \A y \in T : x >= y
    <2>1. CASE k >= 1
      BY <1>2, <2>1
    <2>2. CASE k < 1
      BY <1>2, <2>2
    <2> QED
      BY <1>2, <2>1, <2>2
  <1>5. Trend!Max(T) \in T /\ \A y \in T : Trend!Max(T) >= y
    <2> HIDE DEF T
    <2> QED
      BY <1>4 DEF Trend!Max
  <1> QED
    BY <1>2, <1>3, <1>5 DEF k

LEMMA SpeedScoreIs ==
    ASSUME NEW S, AreSignals(S), NEW now \in Int
    PROVE  /\ Trend!Score(S, now).speed = <<Speed(S), 100 * Number(S)>>
           /\ Speed(S) \in Int => Besides(S, now) \in Int
           /\ Speed(S) \in Int => (Passes(S, now) <=> 1680 * Speed(S) + Number(S) * Besides(S, now) >= 0)
  <1> DEFINE fresh == Trend!Clamp(0, 48 - Trend!Min({now - x.at : x \in S}), 48)
             others == IF Trend!Cardinality({x.source : x \in S}) >= 2 THEN 25 ELSE 0
             volume == IF \E x \in S : x.volume # Unknown THEN 10 ELSE 0
  <1>1. Trend!Score(S, now) =
            [speed |-> <<Speed(S), 100 * Number(S)>>,
             score |-> <<35 * Speed(S) * 48 + 3000 * Number(S) * fresh + 4800 * Number(S) * (others + volume),
                         4800 * Number(S)>>]
    BY Zenon DEF Trend!Score, Speed, Number, Lifted, Grown
  <1>2. Besides(S, now) = 3000 * fresh + 4800 * (others + volume) - 264000
    BY DEF Besides, Beside, Heard
  <1>3. Number(S) \in Nat
    BY NumberIs DEF AreSignals
  <1>4. Trend!Min({now - x.at : x \in S}) \in Int
    <2> DEFINE f == [x \in S |-> now - x.at]
               T == {now - x.at : x \in S}
    <2>1. IsFiniteSet({f[x] : x \in S})
      BY ImageIsFinite DEF AreSignals
    <2>2. {f[x] : x \in S} = T
      OBVIOUS
    <2>3. T \in SUBSET Int /\ T # {}
      BY DEF AreSignals
    <2> HIDE DEF T, f
    <2>4. Outfits!Min(T) \in T
      BY <2>1, <2>2, <2>3, MinIs
    <2>5. Outfits!Min(T) = Trend!Min(T)
      BY DEF Outfits!Min, Trend!Min
    <2>6. Trend!Min(T) \in Int
      BY <2>3, <2>4, <2>5
    <2> QED
      BY <2>6 DEF T
  <1>5. fresh \in Int /\ others \in Int /\ volume \in Int
    BY <1>4 DEF Trend!Clamp
  <1> HIDE DEF fresh, others, volume
  <1>6. Passes(S, now) <=>
            35 * Speed(S) * 48 + 3000 * Number(S) * fresh + 4800 * Number(S) * (others + volume)
                >= 55 * (4800 * Number(S))
    BY <1>1 DEF Passes
  <1>7. Besides(S, now) \in Int
    BY <1>2, <1>5
  <1>8. ASSUME Speed(S) \in Int
        PROVE  Passes(S, now) <=> 1680 * Speed(S) + Number(S) * Besides(S, now) >= 0
    <2>1. Number(S) * Besides(S, now) =
              3000 * Number(S) * fresh + 4800 * Number(S) * (others + volume) - 264000 * Number(S)
      BY <1>2, <1>3, <1>5
    <2> QED
      BY <1>3, <1>5, <1>6, <1>8, <2>1
  <1> QED
    BY <1>1, <1>7, <1>8

(* One more signal of a growth makes the mean pass only where the growth is   *)
(* greater than it was, and fail only where it is less.                       *)
LEMMA RepeatsPull ==
    ASSUME NEW A, AreSignals(A), NEW s \in A, NEW r, r \notin A, NEW now \in Int,
           r.growth = s.growth, r.source = s.source, r.at = s.at, r.volume = s.volume
    PROVE  LET speed == Trend!Score(A, now).speed
           IN  /\ ~ Passes(A, now) /\ Passes(A \cup {r}, now) =>
                     s.growth # Unknown /\ s.growth * speed[2] > 100 * speed[1]
               /\ Passes(A, now) /\ ~ Passes(A \cup {r}, now) =>
                     s.growth # Unknown /\ s.growth * speed[2] < 100 * speed[1]
  <1> DEFINE B == A \cup {r}
             g == s.growth
  <1>1. IsFiniteSet(A) /\ IsFiniteSet(B) /\ AreSignals(B)
    BY FS_AddElement DEF AreSignals
  <1>2. {x.source : x \in B} = {x.source : x \in A} /\ {now - x.at : x \in B} = {now - x.at : x \in A}
        /\ ((\E x \in B : x.volume # Unknown) <=> (\E x \in A : x.volume # Unknown))
    OBVIOUS
  <1> HIDE DEF B
  <1>3. Besides(B, now) = Besides(A, now)
    <2>1. Heard(B) = Heard(A)
      BY <1>2 DEF Heard
    <2> QED
      BY <1>2, <2>1 DEF Besides
  <1>4. /\ Lifted(A) \in Int /\ Lifted(B) \in Int
        /\ g # Unknown => Lifted(B) = Lifted(A) + g
    <2> DEFINE F == [x \in B |-> x.growth]
    <2>1. Grown(A) \in SUBSET B /\ Grown(B) \in SUBSET B
      BY DEF B, Grown
    <2>2. Lifted(A) = Orders!SumOver(F, Grown(A)) /\ Lifted(B) = Orders!SumOver(F, Grown(B))
      BY <1>1, <2>1, GrowthsAddUp DEF Lifted
    <2>3. \A x \in Grown(B) : F[x] \in Int
      BY <1>1, <2>1 DEF AreSignals, Grown
    <2>4. \A x \in Grown(A) : F[x] \in Int
      BY <2>3 DEF Grown, B
    <2>5. Orders!IsFiniteSet(Grown(A)) /\ Orders!IsFiniteSet(Grown(B))
      BY <1>1, <2>1, FS_Subset, OrdersFinite
    <2>6. g # Unknown => r \in Grown(B) /\ F[r] = g /\ Grown(B) \ {r} = Grown(A)
      BY DEF Grown, B
    <2> HIDE DEF F
    <2>7. Orders!SumOver(F, Grown(A)) \in Int
      BY <2>4, <2>5, Orders!SumsAddUp
    <2>8. /\ Orders!SumOver(F, Grown(B)) \in Int
          /\ \A x \in Grown(B) : Orders!SumOver(F, Grown(B)) = F[x] + Orders!SumOver(F, Grown(B) \ {x})
      BY <2>3, <2>5, Orders!SumsAddUp
    <2>9. g # Unknown => g \in Int
      BY DEF AreSignals
    <2> QED
      BY <2>2, <2>6, <2>7, <2>8, <2>9
  <1>5. Number(A) \in Nat /\ Number(A) # 0 /\ Number(B) \in Nat /\ Number(B) # 0
    BY <1>1, NumberIs
  <1>6. Speed(A) \in Int /\ Speed(B) \in Int
    BY <1>4, <1>5 DEF Speed, Trend!Clamp
  <1>7. /\ Trend!Score(A, now).speed = <<Speed(A), 100 * Number(A)>>
        /\ Besides(A, now) \in Int
        /\ Passes(A, now) <=> 1680 * Speed(A) + Number(A) * Besides(A, now) >= 0
        /\ Passes(B, now) <=> 1680 * Speed(B) + Number(B) * Besides(A, now) >= 0
    BY <1>1, <1>3, <1>6, SpeedScoreIs
  <1>8. CASE g = Unknown
    <2>1. Grown(B) = Grown(A)
      BY <1>8 DEF Grown, B
    <2>2. Speed(B) = Speed(A) /\ Number(B) = Number(A)
      BY <2>1 DEF Speed, Number, Lifted
    <2> QED
      BY <1>7, <2>2 DEF B
  <1>9. CASE g # Unknown
    <2> DEFINE n == Number(A)
    <2>1. g \in Int /\ s \in Grown(A) /\ r \in Grown(B) /\ Grown(B) = Grown(A) \cup {r} /\ r \notin Grown(A)
      BY <1>9 DEF AreSignals, Grown, B
    <2>2. Number(B) = n + 1
      <3>1. IsFiniteSet(Grown(A))
        BY <1>1, FS_Subset DEF Grown
      <3>2. Cardinality(Grown(B)) = Cardinality(Grown(A)) + 1
        <4>1. Grown(B) = Grown(A) \cup {r} /\ r \notin Grown(A)
          BY <2>1
        <4> QED
          BY <3>1, <4>1, FS_AddElement
      <3>3. Number(A) = Cardinality(Grown(A)) /\ Number(B) = Cardinality(Grown(B))
        BY <1>1, <2>1, NumberIs
      <3> QED
        BY <3>2, <3>3
    <2>3. /\ Speed(A) = Trend!Clamp(0, Lifted(A), 100 * n)
          /\ Speed(B) = Trend!Clamp(0, Lifted(A) + g, 100 * (n + 1))
      BY <1>4, <1>9, <2>2 DEF Speed
    <2> HIDE DEF n, g
    <2>4. n \in Nat /\ n # 0
      BY <1>5 DEF n
    <2>5. /\ g * (100 * n) <= 100 * Speed(A) => Speed(B) * n <= Speed(A) * (n + 1)
          /\ g * (100 * n) >= 100 * Speed(A) => Speed(B) * n >= Speed(A) * (n + 1)
      BY <1>4, <2>1, <2>3, <2>4, MeansMove
    <2>6. ASSUME Passes(B, now), g * (100 * n) <= 100 * Speed(A) PROVE Passes(A, now)
      <3>1. Speed(B) * n <= Speed(A) * Number(B) /\ 1680 * Speed(B) + Number(B) * Besides(A, now) >= 0
        BY <1>7, <2>2, <2>5, <2>6
      <3>2. 1680 * Speed(A) + n * Besides(A, now) >= 0
        BY <1>5, <1>6, <1>7, <2>4, <3>1, GreaterPasses
      <3> QED
        BY <1>7, <3>2 DEF n
    <2>7. ASSUME Passes(A, now), g * (100 * n) >= 100 * Speed(A) PROVE Passes(B, now)
      <3>1. Speed(A) * Number(B) <= Speed(B) * n /\ 1680 * Speed(A) + n * Besides(A, now) >= 0
        <4>1. Speed(A) * Number(B) <= Speed(B) * n
          <5>1. Speed(B) * n \in Int /\ Speed(A) * (n + 1) \in Int
            BY <1>6, <2>4
          <5> QED
            BY <2>2, <2>5, <2>7, <5>1
        <4> QED
          BY <1>7, <2>7, <4>1 DEF n
      <3>2. 1680 * Speed(B) + Number(B) * Besides(A, now) >= 0
        BY <1>5, <1>6, <1>7, <2>4, <3>1, GreaterPasses
      <3> QED
        BY <1>7, <3>2
    <2>8. g * (100 * n) \in Int /\ 100 * Speed(A) \in Int
      BY <1>6, <2>1, <2>4
    <2> QED
      BY <1>7, <1>9, <2>6, <2>7, <2>8 DEF n, g, B
  <1> QED
    BY <1>8, <1>9

(* The signals of one source make no trend, and one more of a signal moves    *)
(* the velocity of its own trend only, towards its growth                     *)
(* (TrendsAreCorroborated).                                                   *)
LEMMA FeedHolds ==
    ASSUME NEW c, IsFeedCase(c)
    PROVE  Trend!TrendsAreCorroborated(c.signals, c.now)
  <1> DEFINE signals == c.signals
             moment == c.now
             displayed == Trend!Trending(signals, moment)
             about(S, t) == {x \in S : Trend!Slug(x.term) = t}
             corroborated(S, t) == Trend!Cardinality({x.source : x \in about(S, t)}) >= 2
  <1>1. \A S : Trend!Trending(S, moment) =
            {t \in {Trend!Slug(x.term) : x \in S} : Passes(about(S, t), moment) /\ corroborated(S, t)}
    BY DEF Trend!Trending, Passes
  <1>2. ASSUME NEW t \in displayed
        PROVE  \E s, r \in signals : Trend!Slug(s.term) = t /\ Trend!Slug(r.term) = t /\ s.source # r.source
    <2> DEFINE sources == {s.source : s \in {s \in signals : Trend!Slug(s.term) = t}}
    <2>1. Trend!Cardinality(sources) >= 2
      BY DEF Trend!Trending
    <2> HIDE DEF sources
    <2>2. \E x, y \in sources : x # y
      BY <2>1, TrendCardinality, TwoDiffer
    <2> QED
      BY <2>2 DEF sources
  <1>3. ASSUME NEW s \in signals
        PROVE  LET t     == Trend!Slug(s.term)
                   again == Trend!Trending(signals \cup {[s EXCEPT !.id = 0]}, moment)
                   speed == Trend!Score(about(signals, t), moment).speed
               IN  /\ again \ {t} = displayed \ {t}
                   /\ t \in again \ displayed => s.growth # Unknown /\ s.growth * speed[2] > 100 * speed[1]
                   /\ t \in displayed \ again => s.growth # Unknown /\ s.growth * speed[2] < 100 * speed[1]
    <2> DEFINE r == [s EXCEPT !.id = 0]
               more == signals \cup {r}
               t == Trend!Slug(s.term)
               A == about(signals, t)
               slugs(S) == {Trend!Slug(x.term) : x \in S}
    <2>1. /\ r.term = s.term /\ r.source = s.source /\ r.at = s.at /\ r.growth = s.growth /\ r.volume = s.volume
          /\ r.id = 0 /\ \A x \in signals : x.id # 0
      BY DEF IsFeedCase
    <2> HIDE DEF r
    <2>2. slugs(more) = slugs(signals)
      BY <2>1
    <2>3. \A u : u # t => about(more, u) = about(signals, u)
      BY <2>1
    <2>4. about(more, t) = A \cup {r} /\ r \notin A /\ s \in A
      BY <2>1
    <2>5. AreSignals(A) /\ moment \in Int
      <3>1. A \in SUBSET signals /\ A # {}
        BY <2>4
      <3>2. \A x \in A : x.at \in Int /\ x.growth \in Int \cup {Unknown}
        BY DEF IsFeedCase
      <3> HIDE DEF A
      <3>3. IsFiniteSet(A)
        BY <3>1, FS_Subset DEF IsFeedCase
      <3> QED
        BY <3>1, <3>2, <3>3 DEF AreSignals, IsFeedCase
    <2>6. {x.source : x \in about(more, t)} = {x.source : x \in A}
      BY <2>1, <2>4
    <2>7. \A u : u \in Trend!Trending(more, moment) <=>
                  u \in slugs(more) /\ Passes(about(more, u), moment) /\ corroborated(more, u)
      <3> HIDE DEF about, more, corroborated
      <3> QED
        BY <1>1 DEF slugs
    <2>8. \A u : u \in displayed <=>
                  u \in slugs(signals) /\ Passes(about(signals, u), moment) /\ corroborated(signals, u)
      <3> HIDE DEF about, signals, corroborated
      <3> QED
        BY <1>1 DEF slugs
    <2>9. \A u : corroborated(more, u) <=> corroborated(signals, u)
      <3>1. \A u : {x.source : x \in about(more, u)} = {x.source : x \in about(signals, u)}
        <4> HIDE DEF about, more
        <4> QED
          BY <2>3, <2>6
      <3> HIDE DEF about, more, signals
      <3> QED
        BY <3>1
    <2> HIDE DEF displayed, slugs, corroborated
    <2>10. Trend!Trending(more, moment) \ {t} = displayed \ {t}
      <3> HIDE DEF about, more, t, signals
      <3> QED
        BY <2>2, <2>3, <2>7, <2>8, <2>9
    <2> DEFINE speed == Trend!Score(A, moment).speed
    <2>11. /\ ~ Passes(A, moment) /\ Passes(A \cup {r}, moment) =>
                 s.growth # Unknown /\ s.growth * speed[2] > 100 * speed[1]
           /\ Passes(A, moment) /\ ~ Passes(A \cup {r}, moment) =>
                 s.growth # Unknown /\ s.growth * speed[2] < 100 * speed[1]
      <3> HIDE DEF A, moment
      <3> QED
        BY <2>1, <2>4, <2>5, RepeatsPull
    <2>12. (t \in Trend!Trending(more, moment) \ displayed => ~ Passes(A, moment) /\ Passes(A \cup {r}, moment))
           /\ (t \in displayed \ Trend!Trending(more, moment) => Passes(A, moment) /\ ~ Passes(A \cup {r}, moment))
      <3>1. about(more, t) = A \cup {r} /\ about(signals, t) = A
        BY <2>4
      <3> HIDE DEF about, more, t, signals, A
      <3> QED
        BY <2>2, <2>7, <2>8, <2>9, <3>1
    <2> HIDE DEF speed, about
    <2>13. /\ Trend!Trending(more, moment) \ {t} = displayed \ {t}
           /\ t \in Trend!Trending(more, moment) \ displayed => s.growth # Unknown /\ s.growth * speed[2] > 100 * speed[1]
           /\ t \in displayed \ Trend!Trending(more, moment) => s.growth # Unknown /\ s.growth * speed[2] < 100 * speed[1]
      BY <2>10, <2>11, <2>12
    <2> QED
      BY <2>13 DEF more, r, speed
  <1> QED
    BY <1>2, <1>3 DEF Trend!TrendsAreCorroborated
-----------------------------------------------------------------------------
(* Search interest.                                                           *)

(* A period that is collected again adds nothing to its series, and what is   *)
(* missing is no number (SeriesAreNotInflated).                               *)
LEMMA InterestHolds ==
    ASSUME NEW c, IsInterestCase(c)
    PROVE  Trend!SeriesAreNotInflated(c.first, c.second, c.window)
  <1> DEFINE one == Trend!Observation(c.first)
             two == Trend!Observation(c.second)
             stored == IF Trend!IsAccepted(c.first) THEN Trend!Insert({}, one).rows ELSE {}
             both   == IF Trend!IsAccepted(c.second) THEN Trend!Insert(stored, two).rows ELSE stored
  <1>1. \A table, o : \/ Trend!Insert(table, o).rows = table
                      \/ /\ Trend!Insert(table, o).rows = table \cup {o}
                         /\ Trend!IsStorable(o)
                         /\ \A x \in table : Trend!NaturalKey(x) # Trend!NaturalKey(o)
    BY DEF Trend!Insert
  <1>2. stored = {} \/ (stored = {one} /\ Trend!IsStorable(one) /\ Trend!IsAccepted(c.first))
    <2> HIDE DEF one
    <2>1. {} \cup {one} = {one}
      OBVIOUS
    <2> QED
      BY <1>1, <2>1
  <1>3. \/ both = stored
        \/ /\ both = stored \cup {two} /\ Trend!IsStorable(two) /\ Trend!IsAccepted(c.second)
           /\ \A x \in stored : Trend!NaturalKey(x) # Trend!NaturalKey(two)
    <2> HIDE DEF one, two, stored
    <2> QED
      BY <1>1
  <1>4. ASSUME NEW p \in {c.first, c.second}, Trend!IsAccepted(p)
        PROVE  /\ Trend!Observation(p).start \in Int /\ Trend!Observation(p).end \in Int
               /\ Trend!Observation(p).end > Trend!Observation(p).start
    <2>1. p.start \in Int /\ p.end \in Int /\ p.end > p.start
      BY <1>4 DEF IsInterestCase, Trend!IsAccepted
    <2>2. Trend!Observation(p).start = p.start /\ Trend!Observation(p).end = p.end
      BY DEF IsInterestCase, Trend!Observation
    <2> QED
      BY <2>1, <2>2
  <1> HIDE DEF one, two, stored, both
  <1>5. \A o \in both : /\ Trend!IsStorable(o)
                        /\ o.start \in Int /\ o.end \in Int /\ o.end > o.start
    BY <1>2, <1>3, <1>4 DEF one, two
  <1>6. \A o \in both : (o.value = Unknown) <=> (o.status # "present")
    BY <1>5 DEF Trend!IsStorable
  <1>7. stored \subseteq both
    BY <1>3
  <1>8. stored # {} /\ Trend!NaturalKey(one) = Trend!NaturalKey(two) => both = stored
    BY <1>2, <1>3
  <1>9. ASSUME NEW o \in Trend!Series(both, c.window) PROVE Trend!Within(o.start, c.window)
    <2>1. o \in both /\ c.window.start <= o.start /\ o.end <= c.window.end
      BY DEF Trend!Series
    <2>2. c.window.end \in Int
      BY DEF IsInterestCase, IsWindow
    <2> QED
      BY <1>5, <2>1, <2>2 DEF Trend!Within
  <1> QED
    BY <1>6, <1>7, <1>8, <1>9 DEF Trend!SeriesAreNotInflated, one, two, stored, both
-----------------------------------------------------------------------------
(* The catalogue.                                                             *)

(* What a candidate says of the rows it is made of.                           *)
LEMMA CandidateIs ==
    ASSUME NEW counted, NEW w
    PROVE  LET k == Trend!Candidate(counted, w)
           IN  /\ k.growth = Trend!CatalogGrowth(counted, w)
               /\ k.count = Cardinality(counted)
               /\ k.stage = Trend!Stage(Cardinality(counted), Trend!CatalogGrowth(counted, w))
               /\ k.products = Cardinality({o.product : o \in counted})
               /\ k.sources = Cardinality({o.source : o \in counted})
               /\ k.confidence = Trend!Confidence(Cardinality(counted), Cardinality({o.source : o \in counted}),
                                                  w.end - Trend!Max({o.at : o \in counted}), 24, 168)
               /\ ~ k.publishable
               /\ (k.growth = Unknown) <=> ("zero_baseline" \in k.reasons)
               /\ (k.stage = "insufficient_evidence") <=> (k.reasons \cap {"zero_baseline", "too_few"} # {})
  <1> DEFINE k == Trend!Candidate(counted, w)
             growth == Trend!CatalogGrowth(counted, w)
             trusted == Trend!IsConfident(k.confidence, 24, 168)
  <1>1. /\ k.growth = growth
        /\ k.count = Cardinality(counted)
        /\ k.products = Cardinality({o.product : o \in counted})
        /\ k.sources = Cardinality({o.source : o \in counted})
        /\ k.confidence = Trend!Confidence(Cardinality(counted), Cardinality({o.source : o \in counted}),
                                           w.end - Trend!Max({o.at : o \in counted}), 24, 168)
        /\ k.stage = Trend!Stage(Cardinality(counted), growth)
        /\ ~ k.publishable
    BY TrendCardinality DEF Trend!Candidate, Trend!Fresh, Trend!Stale, Trend!DemandSignalAvailable
  <1>2. k.reasons = (IF \E o \in counted : o.made THEN {"fixture"} ELSE {})
                     \cup (IF Trend!DemandSignalAvailable THEN {} ELSE {"no_demand"})
                     \cup (IF growth = Unknown THEN {"zero_baseline"} ELSE {})
                     \cup (IF Cardinality(counted) < 3 THEN {"too_few"} ELSE {})
                     \cup (IF trusted THEN {} ELSE {"low_confidence"})
    BY TrendCardinality DEF Trend!Candidate, Trend!Fresh, Trend!Stale
  <1>3. (Trend!Stage(Cardinality(counted), growth) = "insufficient_evidence") <=> (Cardinality(counted) < 3 \/ growth = Unknown)
    BY DEF Trend!Stage
  <1> HIDE DEF k, growth, trusted
  <1>4. ("zero_baseline" \in k.reasons <=> growth = Unknown) /\ ("too_few" \in k.reasons <=> Cardinality(counted) < 3)
    BY <1>2
  <1> QED
    BY <1>1, <1>3, <1>4 DEF k, growth

(* More rows of the same sources, and no older, make the confidence no less.  *)
LEMMA ConfidenceGrows ==
    ASSUME NEW m \in Nat, NEW n \in Nat, m <= n, NEW s \in Nat,
           NEW age \in Int, NEW old \in Int, age <= old
    PROVE  Trend!Confidence(n, s, age, 24, 168) >= Trend!Confidence(m, s, old, 24, 168)
  <1>1. Trend!Clamp(0, m, 10) \in Int /\ Trend!Clamp(0, n, 10) \in Int /\ Trend!Clamp(0, m, 10) <= Trend!Clamp(0, n, 10)
    BY DEF Trend!Clamp
  <1>2. /\ Trend!Clamp(0, s, 2) \in Int
        /\ Trend!Clamp(0, 168 - age, 168 - 24) \in Int /\ Trend!Clamp(0, 168 - old, 168 - 24) \in Int
        /\ Trend!Clamp(0, 168 - age, 168 - 24) >= Trend!Clamp(0, 168 - old, 168 - 24)
    BY DEF Trend!Clamp
  <1> QED
    BY <1>1, <1>2 DEF Trend!Confidence

(* One more row moves the stage only of what has a baseline and lacked a      *)
(* third.                                                                     *)
LEMMA StageStays ==
    ASSUME NEW n \in Nat, NEW growth, Trend!Stage(n + 1, growth) # Trend!Stage(n, growth)
    PROVE  Trend!Stage(n, growth) = "insufficient_evidence" /\ growth # Unknown /\ n + 1 = 3
  BY DEF Trend!Stage

(* The latest time of a finite set of them is one of them.                    *)
LEMMA LatestIs ==
    ASSUME NEW S, IsFiniteSet(S), S # {}, \A x \in S : x.at \in Int
    PROVE  LET latest == Trend!Max({x.at : x \in S})
           IN  latest \in Int /\ latest \in {x.at : x \in S} /\ \A x \in S : latest >= x.at
  <1> DEFINE f == [x \in S |-> x.at]
             T == {x.at : x \in S}
  <1>1. IsFiniteSet({f[x] : x \in S})
    BY ImageIsFinite
  <1>2. {f[x] : x \in S} = T
    OBVIOUS
  <1>3. T \in SUBSET Int /\ T # {} /\ \A x \in S : x.at \in T
    OBVIOUS
  <1> HIDE DEF T, f
  <1>4. Orders!Max(T) \in T /\ \A y \in T : Orders!Max(T) >= y
    BY <1>1, <1>2, <1>3, OrdersFinite, Orders!Greatest
  <1>5. Orders!Max(T) = Trend!Max(T)
    BY DEF Orders!Max, Trend!Max
  <1>6. Trend!Max(T) \in Int /\ Trend!Max(T) \in T /\ \A x \in S : Trend!Max(T) >= x.at
    BY <1>3, <1>4, <1>5
  <1> QED
    BY <1>6 DEF T

(* Windows that meet share no observation, and one more row of a product and  *)
(* source that were observed in the half moves no growth, and the stage only  *)
(* of what lacked a third row (CatalogueIsCounted).                           *)
LEMMA HistoryHolds ==
    ASSUME NEW c, IsHistoryCase(c)
    PROVE  Trend!CatalogueIsCounted(c.history, c.window, c.next)
  <1> DEFINE past == c.history
             w == c.window
             next == c.next
             named(h) == {o \in Trend!Observed(h, w) : o.category # Unknown}
             of(h, t) == {o \in named(h) : Trend!Slug(o.category) = t}
             entire(h) == Trend!Analysis(h, w).candidates
             concepts(h) == {Trend!Slug(o.category) : o \in named(h)}
  <1>1. \A h : DOMAIN entire(h) = concepts(h) /\ \A t \in concepts(h) : entire(h)[t] = Trend!Candidate(of(h, t), w)
    BY DEF Trend!Analysis
  <1>2. /\ w.start \in Int /\ w.end \in Int /\ w.start <= w.end /\ next.start = w.end
        /\ next.end \in Int /\ next.start <= next.end
        /\ \A o \in past : o.at \in Int
    BY DEF IsHistoryCase, IsWindow
  <1>3. Trend!Observed(past, w) \cap Trend!Observed(past, next) = {}
    <2> HIDE DEF past, w, next
    <2> QED
      BY <1>2 DEF Trend!Observed, Trend!Within
  <1>4. Trend!Observed(past, w) \cup Trend!Observed(past, next)
            = Trend!Observed(past, [start |-> w.start, end |-> next.end])
    <2> HIDE DEF past, w, next
    <2> QED
      BY <1>2 DEF Trend!Observed, Trend!Within
  <1>5. \A S : LET k == Trend!Candidate(S, w)
              IN  /\ ~ k.publishable
                  /\ (k.growth = Unknown) <=> ("zero_baseline" \in k.reasons)
                  /\ (k.stage = "insufficient_evidence") <=> k.reasons \cap {"zero_baseline", "too_few"} # {}
    <2> HIDE DEF w
    <2> QED
      BY CandidateIs
  <1>6. Trend!Published(Trend!Analysis(past, w)) = {}
    <2>1. Trend!Published(Trend!Analysis(past, w)) = {t \in DOMAIN entire(past) : entire(past)[t].publishable}
      BY DEF Trend!Published
    <2> HIDE DEF concepts, of, entire, past, w
    <2>2. \A t \in DOMAIN entire(past) : ~ entire(past)[t].publishable
      BY <1>1, <1>5
    <2> QED
      BY <2>1, <2>2
  <1>7. ASSUME NEW t \in DOMAIN entire(past)
        PROVE  LET k == entire(past)[t]
               IN  /\ (k.growth = Unknown) <=> ("zero_baseline" \in k.reasons)
                   /\ (k.stage = "insufficient_evidence") <=> k.reasons \cap {"zero_baseline", "too_few"} # {}
    <2> HIDE DEF concepts, of, entire, past, w
    <2>1. entire(past)[t] = Trend!Candidate(of(past, t), w)
      BY <1>1
    <2> QED
      BY <1>5, <2>1
  <1>8. ASSUME NEW o \in Trend!Observed(past, w), NEW then \in Trend!Observed(past, w), o.category # Unknown,
               Trend!IsEarly(then.at, w) <=> Trend!IsEarly(o.at, w)
        PROVE  LET again  == entire(past \cup {[o EXCEPT !.id = 0, !.at = then.at]})[Trend!Slug(o.category)]
                   before == entire(past)[Trend!Slug(o.category)]
               IN  /\ again.count = before.count + 1
                   /\ again.growth = before.growth /\ again.products = before.products
                   /\ again.sources = before.sources
                   /\ again.confidence >= before.confidence
                   /\ again.stage # before.stage =>
                         /\ before.stage = "insufficient_evidence" /\ before.growth # Unknown
                         /\ again.count = 3
    <2> DEFINE r == [o EXCEPT !.id = 0, !.at = then.at]
               more == past \cup {r}
               t == Trend!Slug(o.category)
               A == of(past, t)
               B == of(more, t)
    <2>1. o \in past /\ Trend!Within(o.at, w) /\ then \in past /\ Trend!Within(then.at, w)
      BY DEF Trend!Observed
    <2>2. /\ r.product = o.product /\ r.category = o.category /\ r.source = o.source /\ r.at = then.at /\ r.id = 0
          /\ r.at \in Int /\ \A x \in past : x.id # 0
      BY <2>1 DEF IsHistoryCase
    <2> HIDE DEF r
    <2>3. B = A \cup {r} /\ o \in A /\ r \notin A
      BY <1>8, <2>1, <2>2 DEF Trend!Observed
    <2>4. t \in concepts(past) /\ t \in concepts(more)
      BY <2>3
    <2>5. entire(past)[t] = Trend!Candidate(A, w) /\ entire(more)[t] = Trend!Candidate(B, w)
      BY <1>1, <2>4
    <2>6. A \in SUBSET past /\ IsFiniteSet(A)
      <3>1. A \in SUBSET past
        BY DEF Trend!Observed
      <3> HIDE DEF A
      <3> QED
        BY <3>1, FS_Subset DEF IsHistoryCase
    <2> HIDE DEF A, B, t
    <2>7. {x.product : x \in B} = {x.product : x \in A} /\ {x.source : x \in B} = {x.source : x \in A}
      BY <2>2, <2>3
    <2>8. \A x \in B : x.at \in Int
      BY <1>2, <2>2, <2>3, <2>6
    <2>9. Trend!CatalogGrowth(B, w) = Trend!CatalogGrowth(A, w)
      <3>1. Trend!IsEarly(r.at, w) <=> Trend!IsEarly(o.at, w)
        BY <1>8, <2>2
      <3>2. {x.product : x \in {y \in B : Trend!IsEarly(y.at, w)}} = {x.product : x \in {y \in A : Trend!IsEarly(y.at, w)}}
        BY <2>2, <2>3, <3>1
      <3>3. {x.product : x \in {y \in B : ~ Trend!IsEarly(y.at, w)}} = {x.product : x \in {y \in A : ~ Trend!IsEarly(y.at, w)}}
        BY <2>2, <2>3, <3>1
      <3> QED
        BY <3>2, <3>3 DEF Trend!CatalogGrowth
    <2>10. Cardinality(A) \in Nat /\ IsFiniteSet(B) /\ Cardinality(B) = Cardinality(A) + 1
      BY <2>3, <2>6, FS_AddElement, FS_CardinalityType
    <2>11. Cardinality({x.source : x \in A}) \in Nat
      <3> DEFINE f == [x \in A |-> x.source]
      <3>1. IsFiniteSet({f[x] : x \in A})
        BY <2>6, ImageIsFinite
      <3>2. {f[x] : x \in A} = {x.source : x \in A}
        OBVIOUS
      <3> QED
        BY <3>1, <3>2, FS_CardinalityType
    <2> HIDE DEF entire, more, of, named, concepts, w
    <2> DEFINE sources(S) == Cardinality({x.source : x \in S})
               latest(S) == Trend!Max({x.at : x \in S})
               age(S) == w.end - latest(S)
    <2>12. /\ latest(A) \in Int /\ latest(A) \in {x.at : x \in A}
           /\ latest(B) \in Int /\ \A x \in B : latest(B) >= x.at
      <3>1. A # {} /\ B # {} /\ (\A x \in A : x.at \in Int)
        BY <2>3, <2>8
      <3> QED
        BY <2>6, <2>8, <2>10, <3>1, LatestIs
    <2>13. age(A) \in Int /\ age(B) \in Int /\ age(B) <= age(A)
      <3> HIDE DEF latest
      <3>1. latest(B) >= latest(A)
        BY <2>3, <2>12
      <3> QED
        BY <1>2, <2>12, <3>1
    <2>14. \A S : /\ Trend!Candidate(S, w).growth = Trend!CatalogGrowth(S, w)
                  /\ Trend!Candidate(S, w).count = Cardinality(S)
                  /\ Trend!Candidate(S, w).stage = Trend!Stage(Cardinality(S), Trend!CatalogGrowth(S, w))
                  /\ Trend!Candidate(S, w).products = Cardinality({x.product : x \in S})
                  /\ Trend!Candidate(S, w).sources = sources(S)
                  /\ Trend!Candidate(S, w).confidence = Trend!Confidence(Cardinality(S), sources(S), age(S), 24, 168)
      <3> TAKE S
      <3> QED
        BY CandidateIs, ZenonT(60)
    <2>15. sources(A) = sources(B) /\ sources(A) \in Nat
      BY <2>7, <2>11
    <2> HIDE DEF sources, age
    <2>16. Trend!Candidate(B, w).confidence >= Trend!Candidate(A, w).confidence
      <3>1. Cardinality(B) \in Nat /\ Cardinality(A) <= Cardinality(B)
        BY <2>10
      <3> QED
        BY <2>10, <2>13, <2>14, <2>15, <3>1, ConfidenceGrows
    <2>17. /\ Trend!Candidate(B, w).count = Trend!Candidate(A, w).count + 1
           /\ Trend!Candidate(B, w).growth = Trend!Candidate(A, w).growth
           /\ Trend!Candidate(B, w).products = Trend!Candidate(A, w).products
           /\ Trend!Candidate(B, w).sources = Trend!Candidate(A, w).sources
      BY <2>7, <2>9, <2>10, <2>14, <2>15
    <2>18. Trend!Candidate(B, w).stage # Trend!Candidate(A, w).stage =>
             /\ Trend!Candidate(A, w).stage = "insufficient_evidence"
             /\ Trend!Candidate(A, w).growth # Unknown
             /\ Trend!Candidate(B, w).count = 3
      BY <2>9, <2>10, <2>14, StageStays
    <2> QED
      BY <2>5, <2>16, <2>17, <2>18 DEF t, more, r
  <1> HIDE DEF entire, concepts, of, named, next
  <1> QED
    BY <1>3, <1>4, <1>6, <1>7, <1>8 DEF Trend!CatalogueIsCounted, entire, next
-----------------------------------------------------------------------------
(* Products.                                                                  *)

(* The weights of the traits that are met, as a sum of Folding.               *)
LEMMA WeightsAddUp ==
    \A S : Trend!MapThenSumSet(LAMBDA t : Trend!Weight[t], S) = Orders!SumOver(Trend!Weight, S)
  BY Zenon DEF Trend!MapThenSumSet, Trend!MapThenFoldSet, Orders!SumOver, Orders!Sums, Orders!AddUp

(* The compatibility of a product is a number: its weights add up.            *)
LEMMA CompatibilityType ==
    ASSUME NEW c \in DOMAIN Vocabulary, NEW p
    PROVE  Trend!Compatibility(c, p) \in Int
  <1> DEFINE d      == Vocabulary[c]
             met(t) == d.traits[t] \cap (p.traits[t] \cup p.title
                                         \cup (IF t = "style_tags" THEN p.kind ELSE {})) # {}
             T      == {t \in DOMAIN d.traits : met(t)}
             kinds  == IF d.kinds \cap p.kind # {} THEN 25 ELSE IF d.kinds \cap p.title # {} THEN 15 ELSE 0
             traits == Trend!MapThenSumSet(LAMBDA t : Trend!Weight[t], T)
             named  == IF Trend!Hits(d.patterns, p.title) THEN 20 ELSE 0
  <1>1. Trend!Compatibility(c, p) = Trend!Clamp(0, 20 + kinds + traits + named, 100)
    BY DEF Trend!Compatibility
  <1>2. kinds \in Nat /\ named \in Nat
    OBVIOUS
  <1>3. T \subseteq DOMAIN Trend!Weight
    BY VocabularyAssumption
  <1>4. DOMAIN Trend!Weight = {"material", "fit", "silhouette", "style_tags"}
        /\ \A t \in DOMAIN Trend!Weight : Trend!Weight[t] \in Nat
    BY DEF Trend!Weight
  <1> HIDE DEF T
  <1>5. IsFiniteSet(T)
    <2>1. IsFiniteSet({"material", "fit", "silhouette", "style_tags"})
      <3>1. IsFiniteSet({"material"})
        BY FS_Singleton
      <3>2. IsFiniteSet({"material"} \cup {"fit"})
        BY <3>1, FS_AddElement
      <3>3. IsFiniteSet(({"material"} \cup {"fit"}) \cup {"silhouette"})
        BY <3>2, FS_AddElement
      <3>4. IsFiniteSet((({"material"} \cup {"fit"}) \cup {"silhouette"}) \cup {"style_tags"})
        BY <3>3, FS_AddElement
      <3>5. (({"material"} \cup {"fit"}) \cup {"silhouette"}) \cup {"style_tags"}
                = {"material", "fit", "silhouette", "style_tags"}
        OBVIOUS
      <3> QED
        BY <3>4, <3>5
    <2> QED
      BY <1>3, <1>4, <2>1, FS_Subset
  <1>6. Orders!SumOver(Trend!Weight, T) \in Nat
    <2>1. Orders!IsFiniteSet(T) /\ \A t \in T : Trend!Weight[t] \in Nat
      BY <1>3, <1>4, <1>5, OrdersFinite
    <2> QED
      BY <2>1, Orders!SumsAddUp
  <1>7. traits \in Nat
    BY <1>6, WeightsAddUp
  <1> HIDE DEF kinds, traits, named
  <1> QED
    BY <1>1, <1>2, <1>7 DEF Trend!Clamp

(* The products that are shown: the first of their ranks, and none that is    *)
(* made moves one (MatchesAreGenuine).                                        *)
LEMMA ProductsHold ==
    ASSUME NEW c, IsProductsCase(c)
    PROVE  Trend!MatchesAreGenuine(c.concept, c.products, c.limit)
  <1> DEFINE products == c.products
             limit == c.limit
             score(p) == Trend!Compatibility(c.concept, p)
             fitting == {p \in products : Trend!Fits(c.concept, p)}
             better(q, p) == score(q) > score(p) \/ (score(q) = score(p) /\ q.id < p.id)
             R == {qp \in fitting \X fitting : better(qp[1], qp[2])}
             rank(p) == Cardinality(Orders!Under(fitting, R, p))
             size == Cardinality(fitting)
             listed == {p \in fitting : rank(p) < limit}
             currency(p) == IF p.currency = Unknown THEN "INR" ELSE p.currency
             row(p) == [id |-> p.id, rank |-> rank(p) + 1, score |-> score(p), currency |-> currency(p)]
             displayed == Trend!Matched(c.concept, products, limit)
             most == IF size < limit THEN size ELSE limit
  <1>1. /\ IsFiniteSet(fitting) /\ limit \in Nat
        /\ \A p \in fitting : p.id \in Int /\ score(p) \in Int
        /\ \A p, q \in fitting : p.id = q.id => p = q
    <2>1. fitting \in SUBSET products
      OBVIOUS
    <2> HIDE DEF fitting
    <2> QED
      BY <2>1, FS_Subset, CompatibilityType DEF IsProductsCase
  <1>2. \A p, q \in fitting : <<q, p>> \in R <=> better(q, p)
    <2> HIDE DEF fitting, better
    <2> QED
      OBVIOUS
  <1>3. /\ \A x \in fitting : ~ better(x, x)
        /\ \A x, y \in fitting : x = y \/ better(x, y) \/ better(y, x)
        /\ \A x, y, z \in fitting : better(x, y) /\ better(y, z) => better(x, z)
    <2> HIDE DEF fitting, score
    <2> QED
      BY <1>1
  <1>4. \A p \in fitting : Orders!Under(fitting, R, p) = {q \in fitting : better(q, p)}
    <2> HIDE DEF R, fitting, better
    <2> QED
      BY <1>2 DEF Orders!Under
  <1>5. displayed = {row(p) : p \in listed}
    <2> DEFINE ahead(p) == {q \in fitting : better(q, p)}
    <2>1. displayed = {[id |-> p.id, rank |-> Cardinality(ahead(p)) + 1, score |-> score(p), currency |-> currency(p)] :
                      p \in {q \in fitting : Cardinality(ahead(q)) < limit}}
      BY TrendCardinality DEF Trend!Matched
    <2>2. \A p \in fitting : rank(p) = Cardinality(ahead(p))
      <3> HIDE DEF ahead, R, fitting
      <3> QED
        BY <1>4 DEF ahead
    <2> HIDE DEF ahead, rank, fitting, score, currency, displayed
    <2>3. {q \in fitting : Cardinality(ahead(q)) < limit} = listed
      BY <2>2
    <2> QED
      BY <2>1, <2>2, <2>3
  <1> HIDE DEF better
  <1>6. /\ size \in Nat
        /\ \A p \in fitting : rank(p) \in Nat /\ rank(p) < size
        /\ \A p, q \in fitting : <<p, q>> \in R <=> rank(p) < rank(q)
        /\ \A n \in 1 .. size : \E p \in fitting : rank(p) = n - 1
    <2>1. /\ Orders!IsFiniteSet(fitting)
          /\ \A x \in fitting : <<x, x>> \notin R
          /\ \A x, y \in fitting : x = y \/ <<x, y>> \in R \/ <<y, x>> \in R
          /\ \A x, y, z \in fitting : <<x, y>> \in R /\ <<y, z>> \in R => <<x, z>> \in R
      <3> HIDE DEF fitting, R
      <3> QED
        BY <1>1, <1>2, <1>3, OrdersFinite
    <2> HIDE DEF fitting, R
    <2> QED
      BY <2>1, OrdersFinite, Orders!Ranks
  <1> HIDE DEF displayed, fitting, R, rank, size, score, currency, products, limit
  <1>7. \A p, q \in fitting : rank(p) = rank(q) => p = q
    BY <1>2, <1>3, <1>6
  <1>8. most \in Nat /\ most <= limit /\ \A p \in fitting : p \in listed <=> rank(p) + 1 \in 1 .. most
    BY <1>1, <1>6
  <1>9. {m.rank : m \in displayed} = 1 .. most
    <2>1. \A m \in displayed : m.rank \in 1 .. most
      BY <1>5, <1>8
    <2>2. ASSUME NEW n \in 1 .. most PROVE \E m \in displayed : m.rank = n
      <3>1. n \in 1 .. size /\ n \in Int
        BY <1>1, <1>6
      <3>2. PICK p \in fitting : rank(p) = n - 1
        BY <1>6, <3>1
      <3>3. rank(p) + 1 = n
        BY <3>1, <3>2
      <3>4. p \in listed
        BY <1>8, <3>3
      <3>5. row(p) \in displayed /\ row(p).rank = n
        BY <1>5, <3>3, <3>4
      <3> HIDE DEF row
      <3> QED
        BY <3>5
    <2> HIDE DEF most
    <2> QED
      BY <2>1, <2>2
  <1>10. Cardinality(displayed) = most
    <2> DEFINE f == [m \in displayed |-> m.rank]
    <2>1. \A m \in displayed : m.rank \in 1 .. most
      BY <1>9
    <2>2. \A m, n \in displayed : m.rank = n.rank => m = n
      <3> SUFFICES ASSUME NEW p \in listed, NEW q \in listed, row(p).rank = row(q).rank PROVE row(p) = row(q)
        BY <1>5
      <3>1. rank(p) = rank(q)
        BY <1>6
      <3>2. p = q
        BY <1>7, <3>1
      <3> QED
        BY <3>2
    <2>3. f \in Injection(displayed, 1 .. most)
      BY <2>1, <2>2 DEF Injection, IsInjective
    <2>4. f \in Surjection(displayed, 1 .. most)
      BY <1>9, <2>1 DEF Surjection
    <2>5. IsFiniteSet(1 .. most) /\ Cardinality(1 .. most) = most
      <3> HIDE DEF most
      <3>1. IsFiniteSet(1 .. most) /\ Cardinality(1 .. most) = IF 1 > most THEN 0 ELSE most - 1 + 1
        BY <1>8, FS_Interval
      <3> QED
        BY <1>8, <3>1
    <2> HIDE DEF f, most
    <2> QED
      BY <2>3, <2>4, <2>5, FS_Injection
  <1> HIDE DEF most
  <1>11. ASSUME NEW m \in displayed, NEW n \in displayed, m.rank < n.rank PROVE m.score >= n.score
    <2>1. PICK p \in listed : m = row(p)
      BY <1>5
    <2>2. PICK q \in listed : n = row(q)
      BY <1>5
    <2>3. rank(p) < rank(q)
      BY <1>6, <1>11, <2>1, <2>2
    <2>4. better(p, q)
      BY <1>2, <1>6, <2>3
    <2> QED
      BY <1>1, <2>1, <2>2, <2>4 DEF better
  <1>12. ASSUME NEW p \in products
         PROVE  Trend!Matched(c.concept, products \cup {[p EXCEPT !.id = 0, !.made = TRUE]}, limit) = displayed
    <2> DEFINE r == [p EXCEPT !.id = 0, !.made = TRUE]
               more == products \cup {r}
    <2>1. r.made
      BY DEF IsProductsCase, products
    <2>2. ~ Trend!Fits(c.concept, r)
      <3> HIDE DEF r
      <3> QED
        BY <2>1 DEF Trend!Fits
    <2> HIDE DEF r
    <2>3. {x \in more : Trend!Fits(c.concept, x)} = {x \in products : Trend!Fits(c.concept, x)}
      BY <2>2
    <2> HIDE DEF more
    <2>4. Trend!Matched(c.concept, more, limit) = Trend!Matched(c.concept, products, limit)
      BY <2>3 DEF Trend!Matched
    <2> QED
      BY <2>4 DEF more, r, displayed
  <1> QED
    BY <1>8, <1>9, <1>10, <1>11, <1>12, TrendCardinality DEF Trend!MatchesAreGenuine, displayed, products, limit
-----------------------------------------------------------------------------
(* Videos.                                                                    *)

(* The sum of what is known of the views, as a sum of Folding.                *)
Viewed(K) == {v \in K : v.views # Unknown}
Views(K) == Trend!MapThenSumSet(LAMBDA v : v.views, Viewed(K))

LEMMA ViewsAddUp ==
    ASSUME NEW U, IsFiniteSet(U), NEW S \in SUBSET U
    PROVE  Trend!MapThenSumSet(LAMBDA v : v.views, S) = Orders!SumOver([v \in U |-> v.views], S)
  <1> DEFINE F == [v \in U |-> v.views]
             body(f, t) == IF t = {} THEN 0 ELSE LET x == CHOOSE x \in t : TRUE IN x.views + f[t \ {x}]
             is(f) == f = [t \in SUBSET S |-> body(f, t)]
             sum == CHOOSE f : is(f)
  <1>1. Trend!MapThenSumSet(LAMBDA v : v.views, S) = sum[S]
    BY Zenon DEF Trend!MapThenSumSet, Trend!MapThenFoldSet
  <1>2. ASSUME NEW f, NEW t \in SUBSET S PROVE body(f, t) = Orders!AddUp(F, f, t)
    <2>1. CASE t = {}
      BY <2>1 DEF Orders!AddUp
    <2>2. CASE t # {}
      <3> DEFINE x == CHOOSE x \in t : TRUE
      <3>1. x \in U
        BY <2>2
      <3>2. body(f, t) = x.views + f[t \ {x}]
        BY <2>2
      <3>3. Orders!AddUp(F, f, t) = F[x] + f[t \ {x}]
        BY <2>2 DEF Orders!AddUp
      <3> HIDE DEF x
      <3> QED
        BY <3>1, <3>2, <3>3
    <2> QED
      BY <2>1, <2>2
  <1>3. ASSUME NEW f PROVE is(f) <=> Orders!Sums(F, f, S)
    <2>1. [t \in SUBSET S |-> body(f, t)] = [t \in SUBSET S |-> Orders!AddUp(F, f, t)]
      <3> HIDE DEF body, F
      <3> QED
        BY <1>2
    <2> HIDE DEF body, F
    <2> QED
      BY <2>1 DEF Orders!Sums
  <1> HIDE DEF is, F
  <1>4. Orders!IsFiniteSet(S)
    BY FS_Subset, OrdersFinite
  <1>5. is(sum)
    <2>1. \E f : is(f)
      BY <1>3, <1>4, Orders!SumsExist
    <2> QED
      BY <2>1
  <1> HIDE DEF sum
  <1> DEFINE other == CHOOSE f : Orders!Sums(F, f, S)
  <1>6. Orders!Sums(F, other, S)
    BY <1>4, Orders!SumsExist
  <1> HIDE DEF other
  <1>7. sum[S] = other[S]
    BY <1>3, <1>4, <1>5, <1>6, Orders!SumsAreOne
  <1> QED
    BY <1>1, <1>7 DEF Orders!SumOver, other, F

(* Two finite sets of counts: one with a count that is not less than that of  *)
(* the one it takes the place of.                                             *)
LEMMA ViewsDoNotFall ==
    ASSUME NEW S, IsFiniteSet(S), NEW T, NEW r, r \in T, r.views \in Nat, \A x \in S : x.views \in Nat,
           \/ T \ {r} = S
           \/ \E v \in S : T \ {r} = S \ {v} /\ r.views >= v.views
    PROVE  LET sum(X) == Trend!MapThenSumSet(LAMBDA v : v.views, X)
           IN  sum(S) \in Nat /\ sum(T) \in Nat /\ sum(T) >= sum(S)
  <1> DEFINE U == S \cup {r}
             F == [x \in U |-> x.views]
             sum(X) == Trend!MapThenSumSet(LAMBDA v : v.views, X)
  <1>1. IsFiniteSet(U) /\ T \in SUBSET U /\ S \in SUBSET U /\ r \in U
    BY FS_AddElement
  <1>2. \A x \in U : F[x] \in Nat /\ F[x] = x.views
    OBVIOUS
  <1> HIDE DEF F
  <1>3. ASSUME NEW X \in SUBSET U
        PROVE  sum(X) \in Nat /\ \A x \in X : sum(X) = F[x] + sum(X \ {x})
    <2>1. IsFiniteSet(X)
      BY <1>1, FS_Subset
    <2>2. /\ Orders!SumOver(F, X) \in Nat
          /\ \A x \in X : Orders!SumOver(F, X) = F[x] + Orders!SumOver(F, X \ {x})
      BY <1>2, <2>1, OrdersFinite, Orders!SumsAddUp
    <2>3. \A Y \in SUBSET U : sum(Y) = Orders!SumOver(F, Y)
      BY <1>1, ViewsAddUp DEF F
    <2>4. \A x \in X : X \ {x} \in SUBSET U
      OBVIOUS
    <2> HIDE DEF sum, U
    <2> QED
      BY <2>2, <2>3, <2>4
  <1> HIDE DEF sum
  <1>4. sum(T) = F[r] + sum(T \ {r}) /\ sum(S) \in Nat /\ sum(T) \in Nat /\ F[r] \in Nat
    BY <1>1, <1>2, <1>3
  <1> HIDE DEF U
  <1>5. ASSUME T \ {r} = S
        PROVE  sum(S) \in Nat /\ sum(T) \in Nat /\ sum(T) >= sum(S)
    <2>1. sum(T) = F[r] + sum(S)
      BY <1>4, <1>5
    <2> QED
      BY <1>4, <2>1
  <1>6. ASSUME NEW v \in S, T \ {r} = S \ {v}, r.views >= v.views
        PROVE  sum(S) \in Nat /\ sum(T) \in Nat /\ sum(T) >= sum(S)
    <2>1. sum(S) = F[v] + sum(S \ {v}) /\ S \ {v} \in SUBSET U /\ v \in U
      BY <1>1, <1>3
    <2>2. sum(S \ {v}) \in Nat /\ F[v] \in Nat /\ F[r] >= F[v]
      BY <1>1, <1>2, <1>3, <1>6, <2>1
    <2>3. sum(T) = F[r] + sum(S \ {v})
      BY <1>4, <1>6
    <2> QED
      BY <1>4, <2>1, <2>2, <2>3
  <1>7. sum(S) \in Nat /\ sum(T) \in Nat /\ sum(T) >= sum(S)
    BY <1>5, <1>6
  <1> QED
    BY <1>7 DEF sum

(* What is kept of a list of records: for each video one of its records.      *)
IsKept(K, a, n) ==
    /\ K \subseteq {a[j] : j \in 1 .. n}
    /\ \A v, x \in K : v.video = x.video => v = x
    /\ \A j \in 1 .. n : \E v \in K : v.video = a[j].video

(* What is kept of a list is a fold over it.                                  *)
LEMMA DedupedFolds ==
    \A a : Trend!Deduped(a) = Orders!FoldLeft(Trend!Keep, {}, a)
  BY DEF Trend!Deduped, Trend!FoldLeft, Trend!MapThenFoldSet, Trend!Max,
         Orders!FoldLeft, Orders!MapThenFoldSet, Orders!Max

(* For each video that a list has, Deduped keeps one of its records: by       *)
(* induction over the list (FoldKeeps).                                       *)
LEMMA DedupedIsKept ==
    ASSUME NEW n \in Nat, NEW a, DOMAIN a = 1 .. n
    PROVE  IsKept(Trend!Deduped(a), a, n)
  <1> DEFINE All == {a[j] : j \in 1 .. n}
             Good == [k \in Nat |-> {K \in SUBSET All : k <= n => IsKept(K, a, k)}]
  <1>1. {} \in Good[0]
    BY DEF IsKept
  <1>2. ASSUME NEW k \in 0 .. n - 1, NEW K \in Good[k]
        PROVE  Trend!Keep(K, a[k + 1]) \in Good[k + 1]
    <2> DEFINE r == a[k + 1]
               L == Trend!Keep(K, r)
    <2>1. k \in Nat /\ k + 1 \in 1 .. n /\ k <= n /\ 1 .. k + 1 = (1 .. k) \cup {k + 1}
      OBVIOUS
    <2>2. K \in SUBSET All /\ IsKept(K, a, k)
      BY <1>2, <2>1
    <2>3. r \in All
      BY <2>1
    <2> HIDE DEF All, Good, r
    <2>4. IsKept(L, a, k + 1) /\ L \in SUBSET All
      <3>1. CASE \E v \in K : v.video = r.video /\ ~ Trend!Replaces(r, v)
        <4>1. L = K
          BY <3>1 DEF Trend!Keep
        <4> HIDE DEF L
        <4>2. \A j \in 1 .. k + 1 : \E v \in K : v.video = a[j].video
          <5> TAKE j \in 1 .. k + 1
          <5>1. j \in 1 .. k \/ a[j] = r
            BY <2>1 DEF r
          <5> QED
            BY <2>2, <3>1, <5>1 DEF IsKept
        <4>3. K \subseteq {a[j] : j \in 1 .. k + 1}
          BY <2>1, <2>2 DEF IsKept
        <4> QED
          BY <2>2, <4>1, <4>2, <4>3 DEF IsKept
      <3>2. CASE ~ \E v \in K : v.video = r.video /\ ~ Trend!Replaces(r, v)
        <4>1. L = {v \in K : v.video # r.video} \cup {r}
          BY <3>2 DEF Trend!Keep
        <4> HIDE DEF L
        <4>2. L \subseteq {a[j] : j \in 1 .. k + 1}
          BY <2>1, <2>2, <4>1 DEF IsKept, r
        <4>3. \A v, x \in L : v.video = x.video => v = x
          BY <2>2, <4>1 DEF IsKept
        <4>4. ASSUME NEW j \in 1 .. k + 1 PROVE \E v \in L : v.video = a[j].video
          <5>1. CASE a[j].video = r.video
            BY <4>1, <5>1
          <5>2. CASE a[j].video # r.video
            <6>1. j \in 1 .. k
              BY <2>1, <5>2 DEF r
            <6> QED
              BY <2>2, <4>1, <5>2, <6>1 DEF IsKept
          <5> QED
            BY <5>1, <5>2
        <4>5. L \in SUBSET All
          BY <2>2, <2>3, <4>1
        <4> QED
          BY <4>2, <4>3, <4>4, <4>5 DEF IsKept
      <3> QED
        BY <3>1, <3>2
    <2> HIDE DEF L
    <2>5. Good[k + 1] = {X \in SUBSET All : k + 1 <= n => IsKept(X, a, k + 1)}
      BY <2>1 DEF Good
    <2> QED
      BY <2>4, <2>5 DEF L, r
  <1>3. Good[n] = {K \in SUBSET All : n <= n => IsKept(K, a, n)}
    OBVIOUS
  <1> HIDE DEF Good
  <1>4. Orders!FoldLeft(Trend!Keep, {}, a) \in Good[n]
    BY <1>1, <1>2, Orders!FoldKeeps
  <1> HIDE DEF All
  <1> QED
    BY <1>3, <1>4, DedupedFolds

(* The records that are about a concept, and one more.                        *)
Places(c, s, w) == {i \in DOMAIN s : c \in Trend!Extracted(s[i]) /\ Trend!Within(s[i].at, w)}

LEMMA AboutIs ==
    ASSUME NEW c, NEW w, NEW s, IsList(s)
    PROVE  /\ Cardinality(Places(c, s, w)) \in Nat
           /\ IsFiniteSet(Places(c, s, w)) /\ Places(c, s, w) \in SUBSET Int
           /\ Trend!About(c, s, w) = [n \in 1 .. Cardinality(Places(c, s, w)) |-> s[Orders!Least(Places(c, s, w), n)]]
           /\ \A n \in 1 .. Cardinality(Places(c, s, w)) : Orders!Least(Places(c, s, w), n) \in Places(c, s, w)
           /\ \A i \in Places(c, s, w) : \E n \in 1 .. Cardinality(Places(c, s, w)) : Orders!Least(Places(c, s, w), n) = i
  <1> DEFINE P == Places(c, s, w)
             last == Len(s)
             nth(n) == CHOOSE i \in P : Trend!Cardinality({j \in P : j < i}) = n - 1
             size == Trend!Cardinality(P)
  <1>1. last \in Nat /\ P \subseteq 1 .. last
    BY ListIs DEF Places
  <1>2. Trend!About(c, s, w) = [n \in 1 .. size |-> s[nth(n)]]
    BY DEF Trend!About, Places
  <1> HIDE DEF P, last
  <1>3. IsFiniteSet(P) /\ P \in SUBSET Int
    <2>1. IsFiniteSet(1 .. last)
      BY <1>1, FS_Interval
    <2>2. IsFiniteSet(P)
      BY <1>1, <2>1, FS_Subset
    <2>3. P \in SUBSET Int
      BY <1>1
    <2> QED
      BY <2>2, <2>3
  <1>4. \A n : nth(n) = Orders!Least(P, n)
    BY TrendCardinality, OrdersFinite DEF Orders!Least
  <1>5. size = Cardinality(P)
    BY TrendCardinality
  <1> HIDE DEF nth, size
  <1>6. Trend!About(c, s, w) = [n \in 1 .. Cardinality(P) |-> s[Orders!Least(P, n)]]
    BY <1>2, <1>4, <1>5
  <1>7. /\ Cardinality(P) \in Nat
        /\ \A n \in 1 .. Cardinality(P) : Orders!Least(P, n) \in P
        /\ \A i \in P : \E n \in 1 .. Cardinality(P) : Orders!Least(P, n) = i
    BY <1>3, OrdersFinite, Orders!Numbered
  <1> QED
    BY <1>3, <1>6, <1>7 DEF P

(* A list and one more record.                                                *)
LEMMA AppendIs ==
    ASSUME NEW s, IsList(s), NEW r
    PROVE  /\ IsList(Append(s, r)) /\ DOMAIN Append(s, r) = 1 .. Len(s) + 1
           /\ \A i \in 1 .. Len(s) : Append(s, r)[i] = s[i]
           /\ Append(s, r)[Len(s) + 1] = r
  <1> DEFINE S == {s[i] : i \in DOMAIN s} \cup {r}
             t == Append(s, r)
             n == Len(s)
  <1>1. n \in Nat /\ s \in Seq(S)
    <2>1. s \in Seq({s[i] : i \in DOMAIN s})
      BY ListIs
    <2>2. {s[i] : i \in DOMAIN s} \subseteq S
      OBVIOUS
    <2> HIDE DEF S
    <2> QED
      BY <2>1, <2>2, ListIs
  <1>2. r \in S
    OBVIOUS
  <1> HIDE DEF S
  <1>3. /\ t \in Seq(S) /\ Len(t) = n + 1
        /\ \A i \in 1 .. n : t[i] = s[i]
        /\ t[n + 1] = r
    BY <1>1, <1>2
  <1>4. t = [i \in 1 .. Len(t) |-> t[i]] /\ DOMAIN t = 1 .. n + 1
    <2> HIDE DEF t
    <2> QED
      BY <1>3
  <1> HIDE DEF t
  <1>5. IsList(t)
    BY <1>1, <1>3, <1>4 DEF IsList
  <1> QED
    BY <1>3, <1>4, <1>5 DEF t

(* A record that is read again is kept by the step that keeps each.           *)
LEMMA AboutAppends ==
    ASSUME NEW c, NEW w, NEW s, IsList(s), NEW r
    PROVE  LET fits == c \in Trend!Extracted(r) /\ Trend!Within(r.at, w)
           IN  Trend!Deduped(Trend!About(c, Append(s, r), w))
                 = IF fits THEN Trend!Keep(Trend!Deduped(Trend!About(c, s, w)), r)
                           ELSE Trend!Deduped(Trend!About(c, s, w))
  <1> DEFINE fits == c \in Trend!Extracted(r) /\ Trend!Within(r.at, w)
             t == Append(s, r)
             n == Len(s)
             P == Places(c, s, w)
             Q == Places(c, t, w)
             a == Trend!About(c, s, w)
             b == Trend!About(c, t, w)
             p == Cardinality(P)
  <1>1. /\ IsList(t) /\ DOMAIN t = 1 .. n + 1 /\ t[n + 1] = r
        /\ \A i \in 1 .. n : t[i] = s[i]
        /\ n \in Nat /\ DOMAIN s = 1 .. n
    BY AppendIs, ListIs
  <1>2. Q = IF fits THEN P \cup {n + 1} ELSE P
    <2>1. 1 .. n + 1 = (1 .. n) \cup {n + 1} /\ n + 1 \notin 1 .. n
      BY <1>1
    <2> HIDE DEF t, n
    <2> QED
      BY <1>1, <2>1 DEF Places
  <1>3. /\ p \in Nat /\ IsFiniteSet(P) /\ P \in SUBSET Int
        /\ a = [k \in 1 .. p |-> s[Orders!Least(P, k)]]
        /\ \A k \in 1 .. p : Orders!Least(P, k) \in P
    BY AboutIs
  <1>4. b = [k \in 1 .. Cardinality(Q) |-> t[Orders!Least(Q, k)]]
    <2> HIDE DEF t
    <2> QED
      BY <1>1, AboutIs
  <1>5. \A i \in P : i \in 1 .. n
    BY <1>1 DEF Places
  <1> HIDE DEF t, n, P, Q, a, b, p
  <1>6. CASE ~ fits
    <2>1. Q = P
      BY <1>2, <1>6
    <2>2. b = a
      BY <1>1, <1>3, <1>4, <1>5, <2>1 DEF p
    <2> QED
      BY <1>6, <2>2 DEF a, b, t
  <1>7. CASE fits
    <2>1. Q = P \cup {n + 1}
      BY <1>2, <1>7
    <2>2. /\ Cardinality(Q) = p + 1
          /\ \A k \in 1 .. p : Orders!Least(Q, k) = Orders!Least(P, k)
          /\ Orders!Least(Q, p + 1) = n + 1
      <3>1. n + 1 \in Int /\ \A i \in P : i < n + 1
        BY <1>1, <1>5
      <3> QED
        BY <1>3, <2>1, <3>1, OrdersFinite, Orders!NumberedAfter DEF p
    <2>3. DOMAIN a = 1 .. p /\ DOMAIN b = 1 .. p + 1
      BY <1>3, <1>4, <2>2
    <2>4. \A k \in 1 .. p : b[k] = a[k]
      <3> TAKE k \in 1 .. p
      <3>1. k \in 1 .. p + 1
        BY <1>3
      <3>2. b[k] = t[Orders!Least(P, k)] /\ a[k] = s[Orders!Least(P, k)] /\ Orders!Least(P, k) \in P
        BY <1>3, <1>4, <2>2, <3>1
      <3> QED
        BY <1>1, <1>5, <3>2
    <2>5. b[p + 1] = r
      <3>1. p + 1 \in 1 .. p + 1
        BY <1>3
      <3> QED
        BY <1>1, <1>4, <2>2, <3>1
    <2>6. Orders!FoldLeft(Trend!Keep, {}, b) = Trend!Keep(Orders!FoldLeft(Trend!Keep, {}, a), b[p + 1])
      BY <1>3, <2>3, <2>4, Orders!FoldAppends
    <2>7. Trend!Deduped(b) = Trend!Keep(Trend!Deduped(a), r)
      BY <2>5, <2>6, DedupedFolds
    <2> QED
      BY <1>7, <2>7 DEF a, b, t
  <1> QED
    BY <1>6, <1>7

(* What is concluded of videos, when there are any.                           *)
Channels(K) == {v.channel : v \in K} \ {Unknown}
GrowthOf(K, w) == Trend!Growth({v.video : v \in {x \in K : Trend!IsEarly(x.at, w)}},
                               {v.video : v \in {x \in K : ~ Trend!IsEarly(x.at, w)}})
Sources(K) == Trend!Max({1, Trend!Cardinality(Channels(K))})
Age(K, w) == w.end - Trend!Max({v.at : v \in K})
Certainty(K, w) == Trend!Confidence(Trend!Cardinality(K), Sources(K), Age(K, w), Trend!VideoFresh, Trend!Stale)

Concluded(K, w) ==
    LET level == Trend!Stage(Trend!Cardinality(K), GrowthOf(K, w))
    IN  [videos |-> Trend!Cardinality(K), channels |-> Sources(K), growth |-> GrowthOf(K, w), stage |-> level,
         confidence |-> Certainty(K, w),
         views |-> IF Viewed(K) = {} THEN Unknown ELSE Views(K),
         publishable |-> level # "insufficient_evidence" /\ Trend!IsConfident(Certainty(K, w), Trend!VideoFresh, Trend!Stale)]

(* The attention of a concept is what is concluded of the videos kept.        *)
LEMMA AttentionIs ==
    \A c, s, w : Trend!Attention(c, s, w) = IF Trend!Deduped(Trend!About(c, s, w)) = {} THEN Unknown
                                            ELSE Concluded(Trend!Deduped(Trend!About(c, s, w)), w)
  BY DEF Trend!Attention, Concluded, Channels, GrowthOf, Sources, Age, Certainty, Viewed, Views

(* The greatest of a finite set of numbers is one of them.                    *)
LEMMA MaxIsOne ==
    ASSUME NEW S \in SUBSET Int, IsFiniteSet(S), S # {}
    PROVE  Trend!Max(S) \in S
  <1>1. Orders!Max(S) \in S
    BY OrdersFinite, Orders!Greatest
  <1> QED
    BY <1>1 DEF Orders!Max, Trend!Max

(* What is read of a video, whenever it is read.                              *)
AreVideos(K) ==
    /\ IsFiniteSet(K)
    /\ \A v \in K : v.at \in Int /\ v.views \in Nat \cup {Unknown}

(* What is concluded is of its type, publishable only with a growth and three *)
(* videos, and has views when one of its videos has.                          *)
LEMMA ConcludedType ==
    ASSUME NEW K, AreVideos(K), K # {}, NEW w, w.end \in Int
    PROVE  /\ Concluded(K, w) \in Trend!Attentions
           /\ Concluded(K, w).publishable => Concluded(K, w).growth # Unknown /\ Concluded(K, w).videos >= 3
           /\ (Concluded(K, w).views # Unknown) <=> (Viewed(K) # {})
           /\ Viewed(K) # {} => Concluded(K, w).views = Views(K)
  <1> DEFINE k == Concluded(K, w)
  <1>1. Cardinality(K) \in Nat
    BY FS_CardinalityType DEF AreVideos
  <1>2. Sources(K) \in Nat
    <2> DEFINE f == [v \in K |-> v.channel]
               C == Cardinality(Channels(K))
    <2>1. IsFiniteSet({f[v] : v \in K})
      BY ImageIsFinite DEF AreVideos
    <2>2. Channels(K) \in SUBSET {f[v] : v \in K}
      BY DEF Channels
    <2>3. C \in Nat
      <3> HIDE DEF f
      <3> QED
        BY <2>1, <2>2, FS_Subset, FS_CardinalityType
    <2> HIDE DEF C
    <2>4. IsFiniteSet({1, C})
      <3>1. {1, C} = {1} \cup {C}
        OBVIOUS
      <3>2. IsFiniteSet({1})
        BY FS_Singleton
      <3>3. IsFiniteSet({1} \cup {C})
        BY <3>2, FS_AddElement
      <3> QED
        BY <3>1, <3>3
    <2>5. {1, C} \in SUBSET Int /\ {1, C} # {}
      BY <2>3
    <2>6. Trend!Max({1, C}) \in {1, C}
      BY <2>4, <2>5, MaxIsOne
    <2> QED
      BY <2>3, <2>6, TrendCardinality DEF Sources, C
  <1>3. Age(K, w) \in Int
    <2> DEFINE f == [v \in K |-> v.at]
               T == {v.at : v \in K}
    <2>1. IsFiniteSet({f[v] : v \in K})
      BY ImageIsFinite DEF AreVideos
    <2>2. T = {f[v] : v \in K} /\ T # {} /\ T \in SUBSET Int
      BY DEF AreVideos
    <2> HIDE DEF f, T
    <2>3. Trend!Max(T) \in Int
      BY <2>1, <2>2, MaxIsOne
    <2> QED
      BY <2>3 DEF Age, T
  <1>4. GrowthOf(K, w) \in (Int \X Int) \cup {Unknown}
    <2>1. ASSUME NEW S \in SUBSET K PROVE Cardinality({v.video : v \in S}) \in Nat
      <3> DEFINE f == [v \in S |-> v.video]
      <3>1. IsFiniteSet(S)
        BY FS_Subset DEF AreVideos
      <3>2. IsFiniteSet({f[v] : v \in S})
        BY <3>1, ImageIsFinite
      <3>3. {f[v] : v \in S} = {v.video : v \in S}
        OBVIOUS
      <3> QED
        BY <3>2, <3>3, FS_CardinalityType
    <2> DEFINE early == {x \in K : Trend!IsEarly(x.at, w)}
               late == {x \in K : ~ Trend!IsEarly(x.at, w)}
    <2>2. /\ Cardinality({v.video : v \in early}) \in Nat
          /\ Cardinality({v.video : v \in late}) \in Nat
      BY <2>1
    <2> HIDE DEF early, late
    <2>3. Trend!Growth({v.video : v \in early}, {v.video : v \in late}) \in (Int \X Int) \cup {Unknown}
      BY <2>2, TrendCardinality DEF Trend!Growth
    <2> QED
      BY <2>3 DEF GrowthOf, early, late
  <1>5. Certainty(K, w) \in Int
    BY <1>1, <1>2, <1>3, TrendCardinality DEF Certainty, Trend!Confidence, Trend!Clamp, Trend!VideoFresh, Trend!Stale
  <1>6. Trend!Stage(Cardinality(K), GrowthOf(K, w)) \in Trend!Stages
    BY DEF Trend!Stage, Trend!Stages
  <1>7. Viewed(K) # {} => Views(K) \in Nat
    <2>1. IsFiniteSet(Viewed(K)) /\ \A v \in Viewed(K) : v.views \in Nat
      BY FS_Subset DEF Viewed, AreVideos
    <2> SUFFICES ASSUME Viewed(K) # {} PROVE Views(K) \in Nat
      OBVIOUS
    <2>2. PICK r \in Viewed(K) : TRUE
      OBVIOUS
    <2>3. \E v \in Viewed(K) : Viewed(K) \ {r} = Viewed(K) \ {v} /\ r.views >= v.views
      BY <2>1, <2>2
    <2> QED
      BY <2>1, <2>2, <2>3, ViewsDoNotFall DEF Views
  <1>8. Unknown \notin Nat
    BY UnknownAssumption
  <1>9. k \in Trend!Attentions
    <2>1. /\ k.videos \in Nat /\ k.channels \in Nat /\ k.growth \in (Int \X Int) \cup {Unknown}
          /\ k.confidence \in Int /\ k.publishable \in BOOLEAN
          /\ k.views \in Nat \cup {Unknown}
      BY <1>1, <1>2, <1>4, <1>5, <1>7, TrendCardinality DEF Concluded
    <2>2. k.stage \in Trend!Stages
      BY <1>6, TrendCardinality DEF Concluded
    <2>3. k = [videos |-> k.videos, channels |-> k.channels, growth |-> k.growth, stage |-> k.stage,
               confidence |-> k.confidence, views |-> k.views, publishable |-> k.publishable]
      BY DEF Concluded
    <2> HIDE DEF k
    <2> QED
      BY <2>1, <2>2, <2>3 DEF Trend!Attentions
  <1>10. k.publishable => k.growth # Unknown /\ k.videos >= 3
    <2>1. k.publishable => Trend!Stage(Cardinality(K), GrowthOf(K, w)) # "insufficient_evidence"
      BY TrendCardinality DEF Concluded
    <2>2. k.growth = GrowthOf(K, w) /\ k.videos = Cardinality(K)
      BY TrendCardinality DEF Concluded
    <2> HIDE DEF k
    <2> QED
      BY <1>1, <2>1, <2>2 DEF Trend!Stage
  <1>11. k.views = IF Viewed(K) = {} THEN Unknown ELSE Views(K)
    BY DEF Concluded
  <1> HIDE DEF k
  <1>12. (k.views # Unknown <=> Viewed(K) # {}) /\ (Viewed(K) # {} => k.views = Views(K))
    BY <1>7, <1>8, <1>11
  <1> QED
    BY <1>9, <1>10, <1>12 DEF k

(* A record that takes the place of another of its video moves the views      *)
(* only, and not down.                                                        *)
LEMMA ConcludedStays ==
    ASSUME NEW K, AreVideos(K), \A x, y \in K : x.video = y.video => x = y,
           NEW w, w.end \in Int, NEW v \in K, NEW r,
           r.video = v.video, r.at = v.at, r.channel = v.channel, r.views \in Nat,
           v.views = Unknown \/ r.views >= v.views
    PROVE  LET L == (K \ {v}) \cup {r}
           IN  /\ AreVideos(L)
               /\ \A f \in {"videos", "channels", "growth", "stage", "confidence", "publishable"} :
                     Concluded(L, w)[f] = Concluded(K, w)[f]
               /\ Viewed(K) # {} => /\ Viewed(L) # {}
                                    /\ Views(K) \in Nat /\ Views(L) \in Nat /\ Views(L) >= Views(K)
  <1> DEFINE L == (K \ {v}) \cup {r}
  <1>1. IsFiniteSet(K \ {v}) /\ Cardinality(K \ {v}) = Cardinality(K) - 1 /\ Cardinality(K) \in Nat
    BY FS_RemoveElement, FS_CardinalityType DEF AreVideos
  <1>2. r \notin K \ {v}
    OBVIOUS
  <1>3. IsFiniteSet(L) /\ Cardinality(L) = Cardinality(K)
    <2>1. IsFiniteSet(L) /\ Cardinality(L) = Cardinality(K \ {v}) + 1
      BY <1>1, <1>2, FS_AddElement
    <2> QED
      BY <1>1, <2>1
  <1>4. AreVideos(L)
    BY <1>3 DEF AreVideos
  <1>5. \A x \in L : x = r \/ x \in K
    OBVIOUS
  <1>6. \A x \in K : x = v \/ x \in L
    OBVIOUS
  <1>7. r \in L
    OBVIOUS
  <1>8. Viewed(K) # {} => /\ Viewed(L) # {}
                          /\ Views(K) \in Nat /\ Views(L) \in Nat /\ Views(L) >= Views(K)
    <2>1. Unknown \notin Nat
      BY UnknownAssumption
    <2>2. IsFiniteSet(Viewed(K)) /\ \A x \in Viewed(K) : x.views \in Nat
      BY FS_Subset DEF Viewed, AreVideos
    <2>3. r \in Viewed(L)
      BY <2>1 DEF Viewed
    <2>4. CASE v.views = Unknown
      <3>1. Viewed(L) \ {r} = Viewed(K)
        BY <1>2, <2>1, <2>4 DEF Viewed
      <3> HIDE DEF L
      <3> QED
        BY <2>2, <2>3, <3>1, ViewsDoNotFall DEF Views
    <2>5. CASE v.views # Unknown
      <3>1. Viewed(L) \ {r} = Viewed(K) \ {v} /\ v \in Viewed(K) /\ r.views >= v.views
        BY <1>2, <2>1, <2>5 DEF Viewed
      <3> HIDE DEF L
      <3> QED
        BY <2>2, <2>3, <3>1, ViewsDoNotFall DEF Views
    <2> QED
      BY <2>4, <2>5
  <1> HIDE DEF L
  <1>9. Channels(L) = Channels(K)
    BY <1>5, <1>6, <1>7 DEF Channels
  <1>10. GrowthOf(L, w) = GrowthOf(K, w)
    <2>1. {x.video : x \in {y \in L : Trend!IsEarly(y.at, w)}} = {x.video : x \in {y \in K : Trend!IsEarly(y.at, w)}}
      BY <1>5, <1>6, <1>7
    <2>2. {x.video : x \in {y \in L : ~ Trend!IsEarly(y.at, w)}} = {x.video : x \in {y \in K : ~ Trend!IsEarly(y.at, w)}}
      BY <1>5, <1>6, <1>7
    <2> QED
      BY <2>1, <2>2 DEF GrowthOf
  <1>11. {x.at : x \in L} = {x.at : x \in K}
    BY <1>5, <1>6, <1>7
  <1>12. Sources(L) = Sources(K) /\ Certainty(L, w) = Certainty(K, w)
    BY <1>3, <1>9, <1>11, TrendCardinality DEF Sources, Certainty, Age
  <1>13. \A f \in {"videos", "channels", "growth", "stage", "confidence", "publishable"} :
            Concluded(L, w)[f] = Concluded(K, w)[f]
    BY <1>3, <1>10, <1>12, TrendCardinality DEF Concluded
  <1> QED
    BY <1>4, <1>8, <1>13 DEF L

(* A video that is read again, with or without its counts, moves the views    *)
(* only (VideosAreCountedOnce).                                               *)
LEMMA VideosHold ==
    ASSUME NEW c, IsVideosCase(c)
    PROVE  Trend!VideosAreCountedOnce(c.concept, c.records, c.window)
  <1> DEFINE s == c.records
             w == c.window
             a == Trend!About(c.concept, s, w)
             K == Trend!Deduped(a)
             before == Trend!Attention(c.concept, s, w)
             P == Places(c.concept, s, w)
             p == Cardinality(P)
             viewed == {s[i] : i \in P}
  <1>1. IsList(s) /\ w.end \in Int
    BY DEF IsVideosCase, IsWindow
  <1>2. \A i \in P : i \in DOMAIN s /\ s[i].at \in Int /\ s[i].views \in Nat \cup {Unknown}
    BY DEF Places, IsVideosCase, Trend!Extracted
  <1>3. IsFiniteSet(P) /\ p \in Nat /\ DOMAIN a = 1 .. p /\ {a[k] : k \in 1 .. p} = viewed
    <2> HIDE DEF s, w, a, P, p, viewed
    <2>1. /\ IsFiniteSet(P) /\ p \in Nat
          /\ a = [n \in 1 .. p |-> s[Orders!Least(P, n)]]
          /\ \A n \in 1 .. p : Orders!Least(P, n) \in P
          /\ \A i \in P : \E n \in 1 .. p : Orders!Least(P, n) = i
      BY <1>1, AboutIs DEF a, P, p
    <2>2. \A k \in 1 .. p : a[k] \in viewed
      BY <2>1 DEF viewed
    <2>3. \A i \in P : \E k \in 1 .. p : a[k] = s[i]
      BY <2>1
    <2>4. DOMAIN a = 1 .. p
      BY <2>1
    <2>5. {a[k] : k \in 1 .. p} = viewed
      BY <2>2, <2>3 DEF viewed
    <2> QED
      BY <2>1, <2>4, <2>5
  <1>4. /\ K \subseteq viewed /\ AreVideos(K)
        /\ \A x, y \in K : x.video = y.video => x = y
        /\ \A x \in viewed : \E v \in K : v.video = x.video
    <2> HIDE DEF s, w, a, P, p, viewed
    <2>1. IsKept(K, a, p)
      BY <1>3, DedupedIsKept
    <2> HIDE DEF K
    <2>2. K \subseteq viewed
      BY <1>3, <2>1 DEF IsKept
    <2>3. IsFiniteSet(K)
      <3> DEFINE f == [i \in P |-> s[i]]
      <3>1. IsFiniteSet({f[i] : i \in P})
        BY <1>3, ImageIsFinite
      <3>2. {f[i] : i \in P} = viewed
        BY DEF viewed
      <3> QED
        BY <2>2, <3>1, <3>2, FS_Subset
    <2>4. AreVideos(K)
      BY <1>2, <2>2, <2>3 DEF AreVideos, viewed
    <2>5. \A x \in viewed : \E v \in K : v.video = x.video
      BY <1>3, <2>1 DEF IsKept
    <2> QED
      BY <2>1, <2>2, <2>4, <2>5 DEF IsKept
  <1>5. \A x, y \in viewed : x.video = y.video => x.at = y.at /\ x.channel = y.channel
    <2>1. \A i, j \in P : s[i].video = s[j].video => s[i].at = s[j].at /\ s[i].channel = s[j].channel
      BY <1>2 DEF IsVideosCase
    <2> HIDE DEF s, P
    <2> QED
      BY <2>1
  <1>6. before = IF K = {} THEN Unknown ELSE Concluded(K, w)
    BY AttentionIs
  <1>7. Unknown \notin Nat /\ Unknown \notin Trend!Attentions
    BY UnknownAssumption
  <1>8. ASSUME NEW i \in DOMAIN s, NEW views \in {Unknown, 0, 9}
        PROVE  LET again == Trend!Attention(c.concept, Append(s, [s[i] EXCEPT !.views = views]), w)
                   retained(k) == [f \in {"videos", "channels", "growth", "stage", "confidence", "publishable"} |-> k[f]]
               IN  /\ (again = Unknown) <=> (before = Unknown)
                   /\ before # Unknown =>
                        /\ retained(again) = retained(before)
                        /\ before.views # Unknown => again.views # Unknown /\ again.views >= before.views
                        /\ before.publishable => before.growth # Unknown /\ before.videos >= 3
                        /\ Trend!Enriched("candidate", again).candidate = "candidate"
    <2> DEFINE r == [s[i] EXCEPT !.views = views]
               t == Append(s, r)
               L == Trend!Deduped(Trend!About(c.concept, t, w))
               again == Trend!Attention(c.concept, t, w)
               retained(k) == [f \in {"videos", "channels", "growth", "stage", "confidence", "publishable"} |-> k[f]]
               fits(x) == c.concept \in Trend!Extracted(x) /\ Trend!Within(x.at, w)
    <2>1. /\ r.video = s[i].video /\ r.channel = s[i].channel /\ r.at = s[i].at /\ r.views = views
          /\ r.title = s[i].title /\ r.tags = s[i].tags /\ r.description = s[i].description
      BY <1>8 DEF IsVideosCase
    <2>2. L = IF fits(r) THEN Trend!Keep(K, r) ELSE K
      <3> HIDE DEF s, w, r
      <3> QED
        BY <1>1, AboutAppends
    <2>3. again = IF L = {} THEN Unknown ELSE Concluded(L, w)
      BY AttentionIs
    <2>4. fits(r) => i \in P
      <3>1. fits(r) <=> fits(s[i])
        <4> HIDE DEF r
        <4> QED
          BY <2>1 DEF Trend!Extracted, Trend!FoundIn
      <3> QED
        BY <1>8, <3>1 DEF Places
    <2> HIDE DEF r, t, L, again, fits, s, w, a, K, before, P, p
    <2>5. \/ L = K
          \/ \E v \in K : /\ L = (K \ {v}) \cup {r}
                          /\ r.video = v.video /\ r.at = v.at /\ r.channel = v.channel /\ r.views \in Nat
                          /\ v.views = Unknown \/ r.views >= v.views
      <3>1. SUFFICES ASSUME fits(r), L # K
                     PROVE  \E v \in K : /\ L = (K \ {v}) \cup {r}
                                         /\ r.video = v.video /\ r.at = v.at /\ r.channel = v.channel /\ r.views \in Nat
                                         /\ v.views = Unknown \/ r.views >= v.views
        BY <2>2
      <3>2. L = Trend!Keep(K, r)
        BY <2>2, <3>1
      <3>3. s[i] \in viewed
        BY <2>4, <3>1
      <3>4. PICK v \in K : v.video = s[i].video
        BY <1>4, <3>3
      <3>5. v \in viewed /\ v.at = s[i].at /\ v.channel = s[i].channel
        BY <1>4, <1>5, <3>3, <3>4
      <3>6. /\ L = {x \in K : x.video # r.video} \cup {r}
            /\ Trend!Replaces(r, v)
        BY <2>1, <3>1, <3>2, <3>4 DEF Trend!Keep
      <3>7. {x \in K : x.video # r.video} = K \ {v}
        BY <1>4, <2>1, <3>4
      <3>8. v.at \in Int
        BY <1>4 DEF AreVideos
      <3>9. r.views # Unknown /\ (v.views = Unknown \/ r.views >= v.views)
        <4>1. ~ (r.at > v.at)
          BY <2>1, <3>5, <3>8
        <4> QED
          BY <3>6, <4>1 DEF Trend!Replaces
      <3>10. r.views \in Nat
        BY <2>1, <3>9
      <3> QED
        BY <2>1, <3>4, <3>5, <3>6, <3>7, <3>9, <3>10
    <2>6. /\ AreVideos(L) /\ (L = {} <=> K = {})
          /\ \A f \in {"videos", "channels", "growth", "stage", "confidence", "publishable"} :
                     Concluded(L, w)[f] = Concluded(K, w)[f]
          /\ K # {} /\ Viewed(K) # {} => /\ Viewed(L) # {}
                                         /\ Views(K) \in Nat /\ Views(L) \in Nat /\ Views(L) >= Views(K)
      <3>1. CASE L = K
        <4>1. K # {} /\ Viewed(K) # {} => Views(K) \in Nat
          BY <1>1, <1>4, <1>7, ConcludedType DEF Trend!Attentions
        <4> QED
          BY <1>4, <3>1, <4>1
      <3>2. CASE L # K
        <4>1. PICK v \in K : /\ L = (K \ {v}) \cup {r}
                             /\ r.video = v.video /\ r.at = v.at /\ r.channel = v.channel /\ r.views \in Nat
                             /\ v.views = Unknown \/ r.views >= v.views
          BY <2>5, <3>2
        <4>2. AreVideos(K) /\ (\A x, y \in K : x.video = y.video => x = y) /\ w.end \in Int
          BY <1>1, <1>4
        <4>3. LET X == (K \ {v}) \cup {r}
              IN  /\ AreVideos(X)
                  /\ \A f \in {"videos", "channels", "growth", "stage", "confidence", "publishable"} :
                        Concluded(X, w)[f] = Concluded(K, w)[f]
                  /\ Viewed(K) # {} => /\ Viewed(X) # {}
                                       /\ Views(K) \in Nat /\ Views(X) \in Nat /\ Views(X) >= Views(K)
          BY <4>1, <4>2, ConcludedStays
        <4>4. /\ AreVideos(L)
              /\ \A f \in {"videos", "channels", "growth", "stage", "confidence", "publishable"} :
                     Concluded(L, w)[f] = Concluded(K, w)[f]
              /\ Viewed(K) # {} => /\ Viewed(L) # {}
                                   /\ Views(K) \in Nat /\ Views(L) \in Nat /\ Views(L) >= Views(K)
          BY <4>1, <4>3
        <4> QED
          BY <4>1, <4>4
      <3> QED
        BY <3>1, <3>2
    <2>7. CASE K = {}
      <3>1. again = Unknown /\ before = Unknown
        BY <1>6, <2>3, <2>6, <2>7
      <3> QED
        BY <3>1 DEF again, t, r
    <2>8. CASE K # {}
      <3>1. again = Concluded(L, w) /\ before = Concluded(K, w) /\ L # {}
        BY <1>6, <2>3, <2>6, <2>8
      <3>2. again # Unknown /\ before # Unknown
        BY <1>1, <1>4, <1>7, <2>6, <2>8, <3>1, ConcludedType
      <3>3. retained(again) = retained(before)
        BY <2>6, <3>1
      <3>4. before.publishable => before.growth # Unknown /\ before.videos >= 3
        BY <1>1, <1>4, <2>8, <3>1, ConcludedType
      <3>5. before.views # Unknown => again.views # Unknown /\ again.views >= before.views
        <4>1. /\ (before.views # Unknown) <=> (Viewed(K) # {})
              /\ Viewed(K) # {} => before.views = Views(K)
          BY <1>1, <1>4, <2>8, <3>1, ConcludedType
        <4>2. /\ (again.views # Unknown) <=> (Viewed(L) # {})
              /\ Viewed(L) # {} => again.views = Views(L)
          BY <1>1, <2>6, <3>1, ConcludedType
        <4> QED
          BY <2>6, <2>8, <4>1, <4>2
      <3>6. Trend!Enriched("candidate", again).candidate = "candidate"
        BY DEF Trend!Enriched
      <3> QED
        BY <3>2, <3>3, <3>4, <3>5, <3>6 DEF again, t, r
    <2> QED
      BY <2>7, <2>8
  <1> HIDE DEF s, w, before
  <1> QED
    BY <1>8 DEF Trend!VideosAreCountedOnce, s, w, before
-----------------------------------------------------------------------------
(* Answers.                                                                   *)

(* The cardinality of Evidence is the one of the library.                     *)
LEMMA ReasonedCardinality ==
    \A S : Reasoned!Cardinality(S) = Cardinality(S)
  BY DEF Reasoned!Cardinality, Cardinality

(* What is admitted of a list of conclusions are some of their places.        *)
LEMMA AdmittedPlaces ==
    ASSUME NEW pack, NEW query, NEW cs, Len(cs) \in Nat, DOMAIN cs = 1 .. Len(cs),
           NEW n \in DOMAIN Reasoned!Admitted(pack, query, cs)
    PROVE  /\ Reasoned!Admitted(pack, query, cs)[n] \in DOMAIN cs
           /\ Reasoned!IsAdmitted(pack, query, cs, Reasoned!Admitted(pack, query, cs)[n])
  <1> DEFINE P == {i \in DOMAIN cs : Reasoned!IsAdmitted(pack, query, cs, i)}
             nth(k) == CHOOSE i \in P : Reasoned!Cardinality({j \in P : j < i}) = k - 1
             q == Reasoned!Admitted(pack, query, cs)
             size == Reasoned!Cardinality(P)
  <1>1. q = [k \in 1 .. size |-> nth(k)]
    BY DEF Reasoned!Admitted
  <1>2. P \in SUBSET Int /\ Orders!IsFiniteSet(P)
    <2> DEFINE last == Len(cs)
    <2>1. last \in Nat /\ P \subseteq 1 .. last
      OBVIOUS
    <2> HIDE DEF P, last
    <2>2. IsFiniteSet(P)
      <3>1. IsFiniteSet(1 .. last)
        BY <2>1, FS_Interval
      <3> QED
        BY <2>1, <3>1, FS_Subset
    <2>3. P \in SUBSET Int
      BY <2>1
    <2> QED
      BY <2>2, <2>3, OrdersFinite
  <1>3. \A k : nth(k) = Orders!Least(P, k)
    <2> HIDE DEF P
    <2> QED
      BY ReasonedCardinality, OrdersFinite DEF Orders!Least
  <1>4. size = Orders!Cardinality(P)
    <2> HIDE DEF P
    <2> QED
      BY ReasonedCardinality, OrdersFinite
  <1>5. \A k \in 1 .. size : nth(k) \in P
    <2> HIDE DEF P, nth, size
    <2> QED
      BY <1>2, <1>3, <1>4, Orders!Numbered
  <1>6. n \in 1 .. size /\ q[n] = nth(n)
    <2> HIDE DEF nth, size
    <2> QED
      BY <1>1
  <1>7. q[n] \in P
    <2> HIDE DEF nth, size, P, q
    <2> QED
      BY <1>5, <1>6
  <1> HIDE DEF q
  <1>8. q[n] \in DOMAIN cs /\ Reasoned!IsAdmitted(pack, query, cs, q[n])
    BY <1>7
  <1> QED
    BY <1>8 DEF q

(* A conclusion that is admitted claims what was retrieved, and is about a    *)
(* target or tied to one.                                                     *)
LEMMA VerdictsAreEarned ==
    ASSUME NEW pack, NEW query, NEW c,
           Reasoned!Verdict(pack, query, c) \in {"admit", "qualify"}
    PROVE  /\ UNION Reasoned!Range(c.claims) \subseteq Reasoned!Ids(pack)
           /\ \/ Reasoned!Resolve(pack, c.subject) \in Reasoned!Targets(pack, query)
              \/ \E d \in pack :
                    /\ d.id \in UNION Reasoned!Range(c.claims)
                    /\ \/ d.type = "relationship" /\ {d.subject, d.object} \cap Reasoned!Targets(pack, query) # {}
                       \/ d.type = "rule" /\ ({d.effect} \cup d.when) \cap Reasoned!Targets(pack, query) # {}
  <1> DEFINE cited   == UNION Reasoned!Range(c.claims)
             subject == Reasoned!Resolve(pack, c.subject)
             targets == Reasoned!Targets(pack, query)
             bad     == \/ c.claims = <<>> \/ {} \in Reasoned!Range(c.claims)
                        \/ ~ cited \subseteq Reasoned!Ids(pack) \/ subject = Unknown
             known   == c.subject \in Reasoned!Canonicals(pack) \cup Reasoned!Effects(pack)
             tied    == \E d \in Reasoned!Edges(pack, cited) : Reasoned!Licenses(d, subject, targets)
             ruling == IF subject \notin targets THEN IF tied THEN "admit" ELSE "reject"
                        ELSE IF known THEN "admit" ELSE "qualify"
  <1>1. Reasoned!Verdict(pack, query, c) = CASE ~ c.recorded -> "missing"
                                             [] c.recorded /\ bad -> "reject"
                                             [] OTHER -> ruling
    BY DEF Reasoned!Verdict
  <1>2. ~ bad /\ ruling # "reject"
    <2> HIDE DEF bad, ruling
    <2> QED
      BY <1>1
  <1>3. cited \subseteq Reasoned!Ids(pack)
    BY <1>2
  <1>4. subject \in targets \/ tied
    BY <1>2
  <1>5. ASSUME tied
        PROVE  \E d \in pack :
                    /\ d.id \in cited
                    /\ \/ d.type = "relationship" /\ {d.subject, d.object} \cap targets # {}
                       \/ d.type = "rule" /\ ({d.effect} \cup d.when) \cap targets # {}
    <2>1. PICK d \in Reasoned!Edges(pack, cited) : Reasoned!Licenses(d, subject, targets)
      BY <1>5
    <2> HIDE DEF cited, subject, targets
    <2>2. d \in pack /\ d.id \in cited
      BY DEF Reasoned!Edges
    <2>3. \/ d.type = "relationship" /\ {d.subject, d.object} \cap targets # {}
          \/ d.type = "rule" /\ ({d.effect} \cup d.when) \cap targets # {}
      <3>1. CASE d.type = "relationship" /\ targets \cap {d.subject, d.object} # {}
        BY <3>1
      <3>2. CASE d.type = "rule" /\ d.effect \in targets
        BY <3>2
      <3>3. CASE d.type = "rule" /\ d.when \cap targets # {}
        BY <3>3
      <3> QED
        BY <2>1, <3>1, <3>2, <3>3 DEF Reasoned!Licenses
    <2> QED
      BY <2>2, <2>3
  <1> QED
    BY <1>3, <1>4, <1>5

(* Every answer is grounded, whatever the corpus, the query and the output.   *)
LEMMA EveryAnswerIsGrounded ==
    ASSUME NEW c, IsAnswerCase(c)
    PROVE  AnswersHold(c)
  <1> DEFINE pack   == Reasoned!Retrieve(Corpus, c.query)
             query  == c.query
             output == c.output
             cs     == output.conclusions
             admitted == Reasoned!Admitted(pack, query, cs)
             chosen(a) == [cs[a] EXCEPT !.refs = Reasoned!Selected(pack, cs[a])]
             retained   == [i \in DOMAIN admitted |-> chosen(admitted[i])]
             given == Reasoned!Reason(pack, query, output, c.max)
             said(x) == \E i \in DOMAIN cs : x = [cs[i] EXCEPT !.refs = x.refs] /\ x.refs \subseteq cs[i].refs
             tied(x) == \E d \in pack :
                      /\ d.id \in UNION Reasoned!Range(x.claims)
                      /\ \/ d.type = "relationship" /\ {d.subject, d.object} \cap Reasoned!Targets(pack, query) # {}
                         \/ d.type = "rule" /\ ({d.effect} \cup d.when) \cap Reasoned!Targets(pack, query) # {}
             good(x) == /\ said(x)
                        /\ x.cites \cup UNION Reasoned!Range(x.claims) \subseteq Reasoned!Ids(pack)
                        /\ Reasoned!Resolve(pack, x.subject) \in Reasoned!Targets(pack, query) \/ tied(x)
  <1>1. SUFFICES ASSUME ~ given.invalid PROVE \A i \in DOMAIN given.conclusions : good(given.conclusions[i])
    BY DEF AnswersHold, Reasoned!IsGrounded
  <1>2. Reasoned!IsWellFormed(pack, output, c.max) /\ given.conclusions = retained
    BY <1>1 DEF Reasoned!Reason, Reasoned!Rejected
  <1>3. /\ Len(cs) \in Nat /\ DOMAIN cs = 1 .. Len(cs)
        /\ \A i \in DOMAIN cs : IsConclusion(cs[i])
    <2>1. IsList(cs) /\ \A i \in DOMAIN cs : IsConclusion(cs[i])
      BY DEF IsAnswerCase
    <2> HIDE DEF cs
    <2> QED
      BY <2>1, ListIs
  <1>4. ASSUME NEW i \in DOMAIN retained
        PROVE  good(retained[i])
    <2> DEFINE a == admitted[i]
               x == chosen(a)
    <2>1. retained[i] = x /\ i \in DOMAIN admitted
      BY <1>4
    <2>2. a \in DOMAIN cs /\ Reasoned!IsAdmitted(pack, query, cs, a)
      <3> HIDE DEF pack, query, cs, retained
      <3> QED
        BY <1>3, <2>1, AdmittedPlaces
    <2> HIDE DEF a, pack, query, cs, retained
    <2>3. IsConclusion(cs[a])
      BY <1>3, <2>2
    <2>4. /\ x.cites = cs[a].cites /\ x.claims = cs[a].claims /\ x.subject = cs[a].subject
          /\ x.refs = Reasoned!Selected(pack, cs[a])
      BY <2>3 DEF IsConclusion
    <2>5. x.refs \subseteq cs[a].refs
      BY <2>4 DEF Reasoned!Selected
    <2>6. said(x)
      <3>1. x = [cs[a] EXCEPT !.refs = x.refs]
        BY <2>4
      <3> HIDE DEF x
      <3> QED
        BY <2>2, <2>5, <3>1
    <2>7. x.cites \subseteq Reasoned!Ids(pack)
      BY <1>2, <2>2, <2>4 DEF Reasoned!IsWellFormed, cs
    <2>8. Reasoned!Verdict(pack, query, cs[a]) \in {"admit", "qualify"}
      BY <2>2 DEF Reasoned!IsAdmitted
    <2> HIDE DEF x, said
    <2>9. /\ UNION Reasoned!Range(x.claims) \subseteq Reasoned!Ids(pack)
          /\ Reasoned!Resolve(pack, x.subject) \in Reasoned!Targets(pack, query) \/ tied(x)
      BY <2>4, <2>8, VerdictsAreEarned
    <2>10. good(x)
      <3> HIDE DEF tied
      <3> QED
        BY <2>6, <2>7, <2>9
    <2> HIDE DEF good
    <2> QED
      BY <2>1, <2>10
  <1> HIDE DEF good, retained, given
  <1> QED
    BY <1>2, <1>4

-----------------------------------------------------------------------------
(* Outfits.                                                                   *)

LEMMA OutfitCardinality ==
    \A S : Outfits!Cardinality(S) = Cardinality(S)
  BY DEF Outfits!Cardinality, Cardinality

IsWardrobe(W) ==
    /\ IsFiniteSet(W) /\ \A x \in W : IsGarment(x)
    /\ \A x, y \in W : x.id = y.id => x = y

(* Garments of a wardrobe in the order of their identifiers: of a category no *)
(* more than PerCategory stand for it.                                        *)
LEMMA FewRepresentatives ==
    ASSUME NEW W, IsWardrobe(W), NEW category
    PROVE  LET R == Outfits!Representatives(W, category)
           IN  R \in SUBSET W /\ IsFiniteSet(R) /\ Cardinality(R) \in 0 .. PerCategory
  <1> DEFINE P == Outfits!Owned(W, category)
             before == {x \in P \X P : x[1].id < x[2].id}
             rank(x) == Cardinality(Orders!Under(P, before, x))
             R == Outfits!Representatives(W, category)
  <1>1. P \in SUBSET W /\ IsFiniteSet(P)
    <2>1. P \in SUBSET W
      BY DEF Outfits!Owned
    <2> QED
      BY <2>1, FS_Subset DEF IsWardrobe
  <1>2. \A x, y \in P : <<x, y>> \in before <=> x.id < y.id
    OBVIOUS
  <1>3. /\ \A x \in P : x.id \in Int
        /\ \A x, y \in P : x.id = y.id => x = y
    BY <1>1 DEF IsWardrobe, IsGarment
  <1> HIDE DEF P, before
  <1>4. /\ \A x \in P : <<x, x>> \notin before
        /\ \A x, y \in P : x = y \/ <<x, y>> \in before \/ <<y, x>> \in before
        /\ \A x, y, z \in P : <<x, y>> \in before /\ <<y, z>> \in before => <<x, z>> \in before
    BY <1>2, <1>3
  <1>5. /\ \A x \in P : rank(x) \in Nat
        /\ \A x, y \in P : <<x, y>> \in before <=> rank(x) < rank(y)
    <2>1. /\ \A x \in P : Orders!Cardinality(Orders!Under(P, before, x)) \in Nat
          /\ \A x, y \in P : <<x, y>> \in before
                <=> Orders!Cardinality(Orders!Under(P, before, x)) < Orders!Cardinality(Orders!Under(P, before, y))
      BY <1>1, <1>4, OrdersFinite, Orders!Ranks
    <2> QED
      BY <2>1, OrdersFinite
  <1>6. R = {x \in P : rank(x) < PerCategory}
    <2>1. R = {x \in P : Cardinality({y \in P : y.id < x.id}) < PerCategory}
      BY OutfitCardinality DEF Outfits!Representatives, P
    <2>2. \A x \in P : {y \in P : y.id < x.id} = Orders!Under(P, before, x)
      BY <1>2 DEF Orders!Under
    <2> HIDE DEF R
    <2> QED
      BY <2>1, <2>2
  <1> HIDE DEF R, rank
  <1>7. PerCategory \in Nat
    BY OutfitBounds
  <1> DEFINE f == [x \in R |-> rank(x) + 1]
  <1>8. f \in Injection(R, 1 .. PerCategory)
    <2>1. \A x \in R : f[x] \in 1 .. PerCategory
      BY <1>5, <1>6, <1>7
    <2>2. \A x, y \in R : f[x] = f[y] => x = y
      <3> SUFFICES ASSUME NEW x \in R, NEW y \in R, f[x] = f[y] PROVE x = y
        OBVIOUS
      <3>1. x \in P /\ y \in P
        BY <1>6
      <3>2. rank(x) \in Nat /\ rank(y) \in Nat /\ rank(x) + 1 = rank(y) + 1
        BY <1>5, <3>1
      <3>3. ~ (rank(x) < rank(y)) /\ ~ (rank(y) < rank(x))
        BY <3>2
      <3> QED
        BY <1>4, <1>5, <3>1, <3>3
    <2>3. f \in [R -> 1 .. PerCategory]
      BY <2>1
    <2> QED
      BY <2>2, <2>3 DEF Injection, IsInjective
  <1>9. IsFiniteSet(1 .. PerCategory) /\ Cardinality(1 .. PerCategory) = PerCategory
    <2>1. IsFiniteSet(1 .. PerCategory)
          /\ Cardinality(1 .. PerCategory) = IF 1 > PerCategory THEN 0 ELSE PerCategory - 1 + 1
      BY <1>7, FS_Interval
    <2> QED
      BY <1>7, <2>1
  <1> HIDE DEF f
  <1>10. IsFiniteSet(R) /\ Cardinality(R) <= PerCategory
    BY <1>8, <1>9, FS_Injection
  <1>11. Cardinality(R) \in 0 .. PerCategory
    BY <1>7, <1>10, FS_CardinalityType
  <1> QED
    BY <1>1, <1>6, <1>10, <1>11 DEF R

LEMMA SkeletonsAre ==
    /\ DOMAIN Outfits!Skeletons = 1 .. 5
    /\ Outfits!Skeletons[1] = {"tops", "bottoms"}
    /\ \A k \in 1 .. 5 : /\ Outfits!Skeletons[k] \subseteq {"tops", "bottoms", "outerwear", "footwear", "accessories"}
                         /\ "tops" \in Outfits!Skeletons[k] /\ "bottoms" \in Outfits!Skeletons[k]
                         /\ k # 1 => "footwear" \in Outfits!Skeletons[k]
  <1>1. \A k \in 1 .. 5 : k \in {1, 2, 3, 4, 5}
    OBVIOUS
  <1> QED
    BY <1>1 DEF Outfits!Skeletons

CategoriesOf(o) == {x.category : x \in o}

(* An outfit is of a skeleton: of each of its categories it has one garment.  *)
LEMMA FillingIs ==
    ASSUME NEW W, IsWardrobe(W), NEW k \in 1 .. 5, NEW o \in Outfits!Fillings(W, k)
    PROVE  /\ o \in SUBSET W /\ IsFiniteSet(o)
           /\ CategoriesOf(o) = Outfits!Skeletons[k]
           /\ \A category \in Outfits!Skeletons[k] :
                 \E x \in o : Outfits!Owned(o, category) = {x} /\ x \in Outfits!Representatives(W, category)
  <1>1. /\ o \subseteq UNION {Outfits!Representatives(W, category) : category \in Outfits!Skeletons[k]}
        /\ \A category \in Outfits!Skeletons[k] : \E x \in o : Outfits!Owned(o, category) = {x}
    BY DEF Outfits!Fillings
  <1>2. \A category : \A x \in Outfits!Representatives(W, category) : x \in W /\ x.category = category
    BY DEF Outfits!Representatives, Outfits!Owned
  <1>3. \A x \in o : x \in W /\ x.category \in Outfits!Skeletons[k] /\ x \in Outfits!Representatives(W, x.category)
    BY <1>1, <1>2
  <1>4. o \in SUBSET W /\ IsFiniteSet(o)
    BY <1>3, FS_Subset DEF IsWardrobe
  <1>5. \A category \in Outfits!Skeletons[k] :
           \E x \in o : Outfits!Owned(o, category) = {x} /\ x.category = category
    BY <1>1 DEF Outfits!Owned
  <1>6. CategoriesOf(o) = Outfits!Skeletons[k]
    BY <1>3, <1>5 DEF CategoriesOf
  <1> QED
    BY <1>3, <1>4, <1>5, <1>6

LEMMA CandidateFills ==
    ASSUME NEW W, IsWardrobe(W)
    PROVE  /\ IsFiniteSet(Outfits!Legal(W)) /\ IsFiniteSet(Outfits!Candidates(W))
           /\ Outfits!Candidates(W) \subseteq Outfits!Legal(W)
           /\ \A o \in Outfits!Legal(W) : o \in SUBSET W /\ \E k \in 1 .. 5 : o \in Outfits!Fillings(W, k)
  <1>1. \A o \in Outfits!Legal(W) : \E k \in 1 .. 5 : o \in Outfits!Fillings(W, k)
    BY SkeletonsAre DEF Outfits!Legal
  <1>2. \A o \in Outfits!Legal(W) : o \in SUBSET W
    BY <1>1, FillingIs
  <1>3. IsFiniteSet(Outfits!Legal(W))
    <2>1. IsFiniteSet(SUBSET W)
      BY FS_SUBSET DEF IsWardrobe
    <2>2. Outfits!Legal(W) \in SUBSET SUBSET W
      BY <1>2
    <2> QED
      BY <2>1, <2>2, FS_Subset
  <1>4. Outfits!Candidates(W) \subseteq Outfits!Legal(W)
    BY DEF Outfits!Candidates
  <1> QED
    BY <1>1, <1>2, <1>3, <1>4, FS_Subset

LEMMA KindIs ==
    ASSUME NEW W, IsWardrobe(W), NEW o \in Outfits!Legal(W)
    PROVE  Outfits!Kind(o) \in 1 .. 5 /\ o \in Outfits!Fillings(W, Outfits!Kind(o))
  <1>1. PICK k \in 1 .. 5 : o \in Outfits!Fillings(W, k)
    BY CandidateFills
  <1>2. CategoriesOf(o) = Outfits!Skeletons[k]
    BY <1>1, FillingIs
  <1> DEFINE l == Outfits!Kind(o)
  <1>3. l \in 1 .. 5 /\ Outfits!Skeletons[l] = Outfits!Skeletons[k]
    <2>1. \E m \in 1 .. 5 : Outfits!Skeletons[m] = CategoriesOf(o)
      BY <1>2
    <2>2. l = CHOOSE m \in 1 .. 5 : Outfits!Skeletons[m] = CategoriesOf(o)
      BY SkeletonsAre DEF Outfits!Kind, CategoriesOf
    <2> HIDE DEF l
    <2> QED
      BY <1>2, <2>1, <2>2
  <1> HIDE DEF l
  <1>4. o \in Outfits!Fillings(W, l)
    BY <1>1, <1>3 DEF Outfits!Fillings
  <1> QED
    BY <1>3, <1>4 DEF l

(* The pairs come first, and there are no more of them than the cap lets      *)
(* through.                                                                   *)
LEMMA PairsAreFew ==
    ASSUME NEW W, IsWardrobe(W)
    PROVE  /\ IsFiniteSet(Outfits!Fillings(W, 1))
           /\ Cardinality(Outfits!Fillings(W, 1)) <= PerCategory * PerCategory
  <1> DEFINE tops == Outfits!Representatives(W, "tops")
             bottoms == Outfits!Representatives(W, "bottoms")
             pairs == Outfits!Fillings(W, 1)
             top(o) == CHOOSE x \in o : Outfits!Owned(o, "tops") = {x}
             bottom(o) == CHOOSE x \in o : Outfits!Owned(o, "bottoms") = {x}
  <1>1. /\ IsFiniteSet(tops) /\ Cardinality(tops) \in 0 .. PerCategory
        /\ IsFiniteSet(bottoms) /\ Cardinality(bottoms) \in 0 .. PerCategory
    BY FewRepresentatives
  <1>2. ASSUME NEW o \in pairs
        PROVE  /\ top(o) \in tops /\ bottom(o) \in bottoms
               /\ o = {top(o), bottom(o)}
    <2>1. /\ \E x \in o : Outfits!Owned(o, "tops") = {x} /\ x \in tops
          /\ \E x \in o : Outfits!Owned(o, "bottoms") = {x} /\ x \in bottoms
      <3>1. 1 \in 1 .. 5 /\ "tops" \in Outfits!Skeletons[1] /\ "bottoms" \in Outfits!Skeletons[1]
        BY SkeletonsAre
      <3> QED
        BY <3>1, FillingIs
    <2>2. top(o) \in o /\ Outfits!Owned(o, "tops") = {top(o)} /\ bottom(o) \in o /\ Outfits!Owned(o, "bottoms") = {bottom(o)}
      BY <2>1
    <2> HIDE DEF top, bottom
    <2>3. top(o) \in tops /\ bottom(o) \in bottoms
      BY <2>1, <2>2
    <2>4. CategoriesOf(o) = {"tops", "bottoms"}
      BY SkeletonsAre, FillingIs
    <2>5. \A x \in o : x \in Outfits!Owned(o, "tops") \/ x \in Outfits!Owned(o, "bottoms")
      BY <2>4 DEF CategoriesOf, Outfits!Owned
    <2> QED
      BY <2>2, <2>3, <2>5
  <1> HIDE DEF tops, bottoms, pairs, top, bottom
  <1> DEFINE f == [o \in pairs |-> <<top(o), bottom(o)>>]
  <1>3. f \in Injection(pairs, tops \X bottoms)
    <2>1. f \in [pairs -> tops \X bottoms]
      BY <1>2
    <2>2. \A a, b \in pairs : f[a] = f[b] => a = b
      <3> SUFFICES ASSUME NEW a \in pairs, NEW b \in pairs, f[a] = f[b] PROVE a = b
        OBVIOUS
      <3>1. top(a) = top(b) /\ bottom(a) = bottom(b)
        OBVIOUS
      <3> QED
        BY <1>2, <3>1
    <2> QED
      BY <2>1, <2>2 DEF Injection, IsInjective
  <1>4. IsFiniteSet(tops \X bottoms) /\ Cardinality(tops \X bottoms) = Cardinality(tops) * Cardinality(bottoms)
    BY <1>1, FS_Product
  <1> HIDE DEF f
  <1>5. IsFiniteSet(pairs) /\ Cardinality(pairs) <= Cardinality(tops \X bottoms)
    BY <1>3, <1>4, FS_Injection
  <1>6. Cardinality(tops) * Cardinality(bottoms) <= PerCategory * PerCategory
    <2>1. PerCategory \in Nat
      BY OutfitBounds
    <2>2. \A m, n, k \in Nat : m <= k /\ n <= k => m * n <= k * k
      OBVIOUS
    <2> QED
      BY <1>1, <2>1, <2>2
  <1>7. Cardinality(pairs) \in Nat /\ PerCategory * PerCategory \in Nat /\ Cardinality(tops) * Cardinality(bottoms) \in Nat
    <2>1. \A m, n \in Nat : m * n \in Nat
      OBVIOUS
    <2> QED
      BY <1>1, <1>5, <2>1, OutfitBounds, FS_CardinalityType
  <1>8. Cardinality(pairs) <= PerCategory * PerCategory
    <2>1. \A x, y, z \in Nat : x <= y /\ y <= z => x <= z
      OBVIOUS
    <2> QED
      BY <1>4, <1>5, <1>6, <1>7, <2>1
  <1> QED
    BY <1>5, <1>8 DEF pairs

LEMMA PairsAreCandidates ==
    ASSUME NEW W, IsWardrobe(W), NEW x \in Outfits!Representatives(W, "tops"),
           NEW y \in Outfits!Representatives(W, "bottoms")
    PROVE  {x, y} \in Outfits!Candidates(W)
  <1> DEFINE pair == {x, y}
             pairs == Outfits!Fillings(W, 1)
             before == {b \in Outfits!Legal(W) : Outfits!Precedes(b, pair)}
  <1>1. x.category = "tops" /\ y.category = "bottoms"
    BY DEF Outfits!Representatives, Outfits!Owned
  <1>2. pair \in pairs
    <2>1. \A category \in {"tops", "bottoms"} : \E z \in pair : Outfits!Owned(pair, category) = {z}
      BY <1>1 DEF Outfits!Owned
    <2>2. pair \subseteq UNION {Outfits!Representatives(W, category) : category \in {"tops", "bottoms"}}
      OBVIOUS
    <2>3. Outfits!Skeletons[1] = {"tops", "bottoms"}
      BY SkeletonsAre
    <2> HIDE DEF pair
    <2> QED
      BY <2>1, <2>2, <2>3 DEF Outfits!Fillings
  <1>3. pair \in Outfits!Legal(W)
    BY <1>2, SkeletonsAre DEF Outfits!Legal
  <1>4. Outfits!Kind(pair) = 1
    <2>1. CategoriesOf(pair) = {"tops", "bottoms"}
      BY <1>1 DEF CategoriesOf
    <2>2. \A k \in 1 .. 5 : Outfits!Skeletons[k] = {"tops", "bottoms"} => k = 1
      BY SkeletonsAre
    <2>3. Outfits!Kind(pair) = CHOOSE m \in 1 .. 5 : Outfits!Skeletons[m] = CategoriesOf(pair)
      BY SkeletonsAre DEF Outfits!Kind, CategoriesOf
    <2>4. Outfits!Skeletons[1] = {"tops", "bottoms"}
      BY SkeletonsAre
    <2> HIDE DEF pair
    <2> QED
      BY <2>1, <2>2, <2>3, <2>4
  <1> HIDE DEF pair
  <1>5. before \subseteq pairs \ {pair}
    <2> SUFFICES ASSUME NEW b \in Outfits!Legal(W), Outfits!Precedes(b, pair) PROVE b \in pairs /\ b # pair
      OBVIOUS
    <2>1. Outfits!Kind(b) \in 1 .. 5 /\ b \in Outfits!Fillings(W, Outfits!Kind(b))
      BY KindIs
    <2>2. Outfits!Kind(b) = 1 /\ b # pair
      <3>1. Outfits!Kind(b) < Outfits!Kind(pair) \/ (Outfits!Kind(b) = Outfits!Kind(pair) /\ b # pair)
        BY DEF Outfits!Precedes
      <3> QED
        BY <1>4, <2>1, <3>1
    <2> QED
      BY <2>1, <2>2
  <1>6. Cardinality(before) < PerWardrobe
    <2>1. IsFiniteSet(pairs) /\ Cardinality(pairs) <= PerCategory * PerCategory
      BY PairsAreFew
    <2> HIDE DEF pairs, before
    <2>2. IsFiniteSet(pairs \ {pair}) /\ Cardinality(pairs \ {pair}) = Cardinality(pairs) - 1
      BY <1>2, <2>1, FS_RemoveElement
    <2>3. Cardinality(before) <= Cardinality(pairs \ {pair}) /\ IsFiniteSet(before)
      BY <1>5, <2>2, FS_Subset
    <2>4. PerCategory * PerCategory \in Int /\ PerWardrobe \in Int /\ PerCategory * PerCategory <= PerWardrobe
      <3>1. \A m \in Nat : m * m \in Int
        OBVIOUS
      <3> QED
        BY <3>1, OutfitBounds
    <2>5. Cardinality(before) \in Int /\ Cardinality(pairs) \in Int
      BY <2>1, <2>3, FS_CardinalityType
    <2> DEFINE square == PerCategory * PerCategory
    <2> HIDE DEF square
    <2>6. square \in Int /\ square <= PerWardrobe /\ Cardinality(pairs) <= square
      BY <2>1, <2>4 DEF square
    <2> QED
      BY <2>2, <2>3, <2>4, <2>5, <2>6
  <1>7. Outfits!Cardinality(before) < PerWardrobe
    BY <1>6, OutfitCardinality
  <1>8. pair \in Outfits!Candidates(W)
    BY <1>3, <1>7 DEF Outfits!Candidates
  <1> QED
    BY <1>8 DEF pair

-----------------------------------------------------------------------------
(* The points of an outfit.                                                   *)

IsChoice(c) ==
    /\ DOMAIN c = {"wardrobe", "saved", "events", "looks", "groups", "occasions", "palette", "fit"}
    /\ IsWardrobe(c.wardrobe)
    /\ IsList(c.looks) /\ IsList(c.groups)
    /\ \A e \in c.events : e.look \in DOMAIN c.looks

(* A set of at most five categories: an outfit of two or more.                *)
LEMMA CategoriesAreFew ==
    ASSUME NEW S \in SUBSET {"tops", "bottoms", "outerwear", "footwear", "accessories"},
           "tops" \in S, "bottoms" \in S
    PROVE  /\ IsFiniteSet(S) /\ Cardinality(S) \in 2 .. 5
           /\ S = {"tops", "bottoms"} => Cardinality(S) = 2
  <1>1. IsFiniteSet({"tops"}) /\ Cardinality({"tops"}) = 1
    BY FS_Singleton
  <1> DEFINE two == {"tops"} \cup {"bottoms"}
  <1>2. IsFiniteSet(two) /\ Cardinality(two) = 2
    <2>1. IsFiniteSet(two) /\ Cardinality(two) = Cardinality({"tops"}) + 1
      <3>1. "bottoms" \notin {"tops"}
        OBVIOUS
      <3> QED
        BY <1>1, <3>1, FS_AddElement
    <2> QED
      BY <1>1, <2>1
  <1> DEFINE five == ((two \cup {"outerwear"}) \cup {"footwear"}) \cup {"accessories"}
  <1>3. IsFiniteSet(five) /\ Cardinality(five) \in Int /\ Cardinality(five) <= 5
    <2> HIDE DEF two
    <2> DEFINE three == two \cup {"outerwear"}
               four == three \cup {"footwear"}
    <2>1. IsFiniteSet(three) /\ Cardinality(three) \in {Cardinality(two), Cardinality(two) + 1}
      BY <1>2, FS_AddElement
    <2>2. IsFiniteSet(four) /\ Cardinality(four) \in {Cardinality(three), Cardinality(three) + 1}
      <3> HIDE DEF three
      <3> QED
        BY <2>1, FS_AddElement
    <2>3. IsFiniteSet(five) /\ Cardinality(five) \in {Cardinality(four), Cardinality(four) + 1}
      <3> HIDE DEF four
      <3>1. five = four \cup {"accessories"}
        BY DEF four
      <3> HIDE DEF five
      <3> QED
        BY <2>2, <3>1, FS_AddElement
    <2> HIDE DEF three, four, five
    <2> QED
      BY <1>2, <2>1, <2>2, <2>3
  <1>4. two \in SUBSET S /\ S \in SUBSET five
    OBVIOUS
  <1>5. IsFiniteSet(S)
    BY <1>3, <1>4, FS_Subset
  <1> HIDE DEF five
  <1>6. Cardinality(S) <= Cardinality(five) /\ Cardinality(two) <= Cardinality(S) /\ Cardinality(S) \in Int
    <2> HIDE DEF two
    <2>1. Cardinality(S) <= Cardinality(five)
      BY <1>3, <1>4, FS_Subset
    <2>2. Cardinality(two) <= Cardinality(S)
      BY <1>4, <1>5, FS_Subset
    <2>3. Cardinality(S) \in Int
      BY <1>5, FS_CardinalityType
    <2> QED
      BY <2>1, <2>2, <2>3
  <1>7. Cardinality(S) \in 2 .. 5
    <2> HIDE DEF two
    <2> QED
      BY <1>2, <1>3, <1>6
  <1>8. S = {"tops", "bottoms"} => Cardinality(S) = 2
    <2>1. two = {"tops", "bottoms"}
      OBVIOUS
    <2> HIDE DEF two
    <2> QED
      BY <1>2, <2>1
  <1> QED
    BY <1>5, <1>7, <1>8

(* An outfit of a wardrobe, as far as its points depend on it.                *)
IsOutfit(o) ==
    /\ IsFiniteSet(o) /\ \A x \in o : IsGarment(x)
    /\ CategoriesOf(o) \subseteq {"tops", "bottoms", "outerwear", "footwear", "accessories"}
    /\ "tops" \in CategoriesOf(o) /\ "bottoms" \in CategoriesOf(o)
    /\ CategoriesOf(o) # {"tops", "bottoms"} => "footwear" \in CategoriesOf(o)

LEMMA CandidatesAreOutfits ==
    ASSUME NEW W, IsWardrobe(W), NEW o \in Outfits!Candidates(W)
    PROVE  IsOutfit(o) /\ o \in SUBSET W
  <1>1. PICK k \in 1 .. 5 : o \in Outfits!Fillings(W, k)
    BY CandidateFills
  <1>2. o \in SUBSET W /\ IsFiniteSet(o) /\ CategoriesOf(o) = Outfits!Skeletons[k]
    BY <1>1, FillingIs
  <1>3. \A x \in o : IsGarment(x)
    BY <1>2 DEF IsWardrobe
  <1> QED
    BY <1>2, <1>3, SkeletonsAre DEF IsOutfit

LEMMA SeasonsMeet ==
    ASSUME NEW o, IsOutfit(o)
    PROVE  Outfits!SeasonPoints(o) = 5
  <1>1. \A x \in o : "spring" \in Outfits!CategorySeasons(x.category) \cup Outfits!MaterialSeasons(x.material)
    BY DEF Outfits!CategorySeasons
  <1>2. \E s \in {"spring", "summer", "fall", "winter"} : \A x \in o :
           s \in Outfits!CategorySeasons(x.category) \cup Outfits!MaterialSeasons(x.material)
    BY <1>1
  <1>3. Outfits!Cardinality(o) >= 2
    <2>1. PICK x \in o : x.category = "tops"
      BY DEF IsOutfit, CategoriesOf
    <2>2. PICK y \in o : y.category = "bottoms"
      BY DEF IsOutfit, CategoriesOf
    <2>3. x # y
      BY <2>1, <2>2
    <2>4. Cardinality({x} \cup {y}) = 2 /\ IsFiniteSet({x} \cup {y})
      <3>1. IsFiniteSet({x}) /\ Cardinality({x}) = 1 /\ y \notin {x}
        BY <2>3, FS_Singleton
      <3>2. Cardinality({x} \cup {y}) = Cardinality({x}) + 1 /\ IsFiniteSet({x} \cup {y})
        BY <3>1, FS_AddElement
      <3> QED
        BY <3>1, <3>2
    <2>5. {x} \cup {y} \in SUBSET o
      OBVIOUS
    <2>6. Cardinality({x} \cup {y}) <= Cardinality(o) /\ Cardinality(o) \in Int
      BY <2>5, FS_Subset, FS_CardinalityType DEF IsOutfit
    <2> QED
      BY <2>4, <2>6, OutfitCardinality
  <1> QED
    BY <1>2, <1>3 DEF Outfits!SeasonPoints, Outfits!If

LEMMA FootwearIsFormal ==
    ASSUME NEW o, "footwear" \in CategoriesOf(o)
    PROVE  Outfits!FormalityPoints(o) = 0
  <1> DEFINE registers == UNION {Outfits!Registers(x.category) : x \in o}
  <1>1. "casual" \in registers /\ "formal" \in registers
    BY DEF CategoriesOf, Outfits!Registers
  <1>2. registers \subseteq {"casual"} \cup {"formal"}
    BY DEF Outfits!Registers
  <1>3. IsFiniteSet({"casual"} \cup {"formal"})
    <2>1. IsFiniteSet({"casual"})
      BY FS_Singleton
    <2> QED
      BY <2>1, FS_AddElement
  <1> HIDE DEF registers
  <1>4. Cardinality(registers) # 1
    <2>1. IsFiniteSet(registers)
      BY <1>2, <1>3, FS_Subset
    <2>2. ~ \E x : registers = {x}
      BY <1>1
    <2> QED
      BY <2>1, <2>2, FS_Singleton
  <1>5. Outfits!Cardinality(registers) # 1
    BY <1>4, OutfitCardinality
  <1> QED
    BY <1>5 DEF Outfits!FormalityPoints, Outfits!If, registers

(* The compatibility is a number of points that its bounds never cut.         *)
LEMMA CompatibilityIs ==
    ASSUME NEW c, NEW o, IsOutfit(o)
    PROVE  /\ Outfits!Compatibility(c, o) \in 9 .. 65
           /\ \A p \in {Outfits!ColorPoints(o), Outfits!MaterialPoints(o), Outfits!OccasionPoints(c, o),
                          Outfits!PalettePoints(c, o), Outfits!FitPoints(c, o)} : p \in {-10, 0, 5}
  <1> DEFINE n == Outfits!Cardinality({x.category : x \in o})
             color == Outfits!ColorPoints(o)
             material == Outfits!MaterialPoints(o)
             season == Outfits!SeasonPoints(o)
             formality == Outfits!FormalityPoints(o)
             occasion == Outfits!OccasionPoints(c, o)
             palette == Outfits!PalettePoints(c, o)
             fit == Outfits!FitPoints(c, o)
  <1>1. color \in {-10, 0, 5}
    BY DEF Outfits!ColorPoints
  <1>2. material \in {0, 5} /\ formality \in {0, 5} /\ occasion \in {0, 5} /\ palette \in {0, 5} /\ fit \in {0, 5}
    BY DEF Outfits!MaterialPoints, Outfits!FormalityPoints, Outfits!OccasionPoints, Outfits!PalettePoints,
           Outfits!FitPoints, Outfits!If
  <1>3. season = 5
    BY SeasonsMeet
  <1>4. n \in 2 .. 5 /\ (CategoriesOf(o) = {"tops", "bottoms"} => n = 2)
    <2>1. n = Cardinality(CategoriesOf(o))
      BY OutfitCardinality DEF CategoriesOf
    <2> HIDE DEF n
    <2> QED
      BY <2>1, CategoriesAreFew DEF IsOutfit
  <1>5. CategoriesOf(o) # {"tops", "bottoms"} => formality = 0
    BY FootwearIsFormal DEF IsOutfit
  <1>6. Outfits!Compatibility(c, o) = 7 * n + color + material + season + formality + occasion + palette + fit
    BY DEF Outfits!Compatibility
  <1> HIDE DEF n, color, material, season, formality, occasion, palette, fit
  <1>7. Outfits!Compatibility(c, o) \in 9 .. 65
    <2>1. CASE n = 2
      BY <1>1, <1>2, <1>3, <1>6, <2>1
    <2>2. CASE n # 2
      BY <1>1, <1>2, <1>3, <1>4, <1>5, <1>6, <2>2
    <2> QED
      BY <2>1, <2>2
  <1> QED
    BY <1>1, <1>2, <1>7 DEF color, material, occasion, palette, fit

(* What is said of an outfit adds up.                                         *)
LEMMA SaidAddsUp ==
    \A F, D : DOMAIN F = D => Outfits!FoldFunction(+, 0, F) = Orders!SumOver(F, D)
  BY Zenon DEF Outfits!FoldFunction, Outfits!FoldFunctionOnSet, Outfits!MapThenFoldSet,
               Orders!SumOver, Orders!Sums, Orders!AddUp

LEMMA AlikeIs ==
    ASSUME NEW points \in Int, NEW o, NEW other
    PROVE  Outfits!Alike(points, o, other) \in {0, points, 2 * points}
  BY DEF Outfits!Alike, Outfits!If

LEMMA TotalIs ==
    ASSUME NEW points \in Int, NEW o, NEW others, IsFiniteSet(DOMAIN others)
    PROVE  /\ Outfits!Total(points, o, others) \in Int
           /\ DOMAIN others = {} => Outfits!Total(points, o, others) = 0
           /\ \A x : DOMAIN others = {x} =>
                 Outfits!Total(points, o, others) = Outfits!Alike(points, o, others[x])
  <1> DEFINE D == DOMAIN others
             F == [x \in D |-> Outfits!Alike(points, o, others[x])]
  <1>1. Outfits!Total(points, o, others) = Orders!SumOver(F, D)
    <2>1. Outfits!Total(points, o, others) = Outfits!FoldFunction(+, 0, F)
      BY DEF Outfits!Total
    <2>2. DOMAIN F = D
      OBVIOUS
    <2> HIDE DEF F, D
    <2> QED
      BY <2>1, <2>2, SaidAddsUp
  <1>2. \A x \in D : F[x] \in Int /\ F[x] = Outfits!Alike(points, o, others[x])
    BY AlikeIs
  <1> HIDE DEF F, D
  <1>3. IsFiniteSet(D)
    BY DEF D
  <1>4. /\ Orders!SumOver(F, D) \in Int /\ Orders!SumOver(F, {}) = 0
        /\ \A x \in D : Orders!SumOver(F, D) = F[x] + Orders!SumOver(F, D \ {x})
    BY <1>2, <1>3, OrdersFinite, Orders!SumsAddUp
  <1>5. ASSUME NEW x, D = {x} PROVE Orders!SumOver(F, D) = Outfits!Alike(points, o, others[x])
    <2>1. D \ {x} = {} /\ x \in D
      BY <1>5
    <2>2. Orders!SumOver(F, D) = F[x] + Orders!SumOver(F, {})
      BY <1>4, <2>1
    <2>3. F[x] \in Int /\ F[x] = Outfits!Alike(points, o, others[x])
      BY <1>2, <2>1
    <2> QED
      BY <1>4, <2>2, <2>3
  <1> QED
    BY <1>1, <1>4, <1>5 DEF D

LEMMA ClampIs ==
    \A low, high, x \in Int : low <= high => Outfits!Clamp(low, high, x) \in low .. high
  BY DEF Outfits!Clamp

LEMMA ListsAreFinite ==
    ASSUME NEW s, IsList(s)
    PROVE  /\ DOMAIN s = 1 .. Len(s) /\ Len(s) \in Nat /\ IsFiniteSet(DOMAIN s)
           /\ Cardinality(DOMAIN s) = Len(s)
  <1>1. DOMAIN s = 1 .. Len(s) /\ Len(s) \in Nat
    BY DEF IsList
  <1> DEFINE n == Len(s)
  <1> HIDE DEF n
  <1>2. n \in Nat /\ DOMAIN s = 1 .. n
    BY <1>1 DEF n
  <1>3. IsFiniteSet(1 .. n) /\ Cardinality(1 .. n) = IF 1 > n THEN 0 ELSE n - 1 + 1
    BY <1>2, FS_Interval
  <1>4. (IF 1 > n THEN 0 ELSE n - 1 + 1) = n
    BY <1>2
  <1> QED
    BY <1>2, <1>3, <1>4 DEF n

(* The points for likes and for dislikes.                                     *)
Liked(c, o) == Outfits!Clamp(0, 6, Outfits!Total(2, o, Outfits!Of(c, Outfits!Rated(c, "like"))))
Disliked(c, o) == Outfits!Clamp(-6, 0, Outfits!Total(-2, o, Outfits!Of(c, Outfits!Rated(c, "dislike"))))

LEMMA RatedIsFinite ==
    ASSUME NEW c, IsChoice(c), NEW rating, NEW points \in Int, NEW o
    PROVE  /\ DOMAIN Outfits!Of(c, Outfits!Rated(c, rating)) = Outfits!Rated(c, rating)
           /\ IsFiniteSet(Outfits!Rated(c, rating))
           /\ Outfits!Total(points, o, Outfits!Of(c, Outfits!Rated(c, rating))) \in Int
           /\ Outfits!Rated(c, rating) = {} => Outfits!Total(points, o, Outfits!Of(c, Outfits!Rated(c, rating))) = 0
  <1> DEFINE others == Outfits!Of(c, Outfits!Rated(c, rating))
  <1>1. DOMAIN others = Outfits!Rated(c, rating)
    BY DEF Outfits!Of
  <1>2. IsFiniteSet(Outfits!Rated(c, rating))
    <2>1. Outfits!Rated(c, rating) \in SUBSET DOMAIN c.looks
      BY DEF Outfits!Rated
    <2>2. IsFiniteSet(DOMAIN c.looks)
      BY ListsAreFinite DEF IsChoice
    <2> QED
      BY <2>1, <2>2, FS_Subset
  <1> HIDE DEF others
  <1>3. /\ Outfits!Total(points, o, others) \in Int
        /\ Outfits!Rated(c, rating) = {} => Outfits!Total(points, o, others) = 0
    BY <1>1, <1>2, TotalIs
  <1> QED
    BY <1>1, <1>2, <1>3 DEF others

LEMMA FeedbackIs ==
    ASSUME NEW c, IsChoice(c), NEW o
    PROVE  /\ Liked(c, o) \in 0 .. 6 /\ Disliked(c, o) \in -6 .. 0
           /\ Outfits!Feedback(c, o) = Liked(c, o) + Disliked(c, o)
           /\ Outfits!Rated(c, "like") = {} => Liked(c, o) = 0
           /\ Outfits!Rated(c, "dislike") = {} => Disliked(c, o) = 0
  <1> DEFINE liked == Outfits!Total(2, o, Outfits!Of(c, Outfits!Rated(c, "like")))
             disliked == Outfits!Total(-2, o, Outfits!Of(c, Outfits!Rated(c, "dislike")))
  <1>1. liked \in Int /\ (Outfits!Rated(c, "like") = {} => liked = 0)
    BY RatedIsFinite
  <1>2. disliked \in Int /\ (Outfits!Rated(c, "dislike") = {} => disliked = 0)
    <2>1. -2 \in Int
      OBVIOUS
    <2> QED
      BY <2>1, RatedIsFinite
  <1>3. /\ Liked(c, o) = Outfits!Clamp(0, 6, liked) /\ Disliked(c, o) = Outfits!Clamp(-6, 0, disliked)
        /\ Outfits!Feedback(c, o) = Outfits!Clamp(-6, 6, Liked(c, o) + Disliked(c, o))
    BY DEF Liked, Disliked, Outfits!Feedback
  <1> HIDE DEF liked, disliked
  <1> QED
    BY <1>1, <1>2, <1>3 DEF Outfits!Clamp

LEMMA WearIs ==
    ASSUME NEW c, IsChoice(c), NEW o
    PROVE  /\ Outfits!Wear(c, o) \in 0 .. 2
           /\ DOMAIN c.groups = {} => Outfits!Wear(c, o) = 0
  <1> DEFINE together == {g \in DOMAIN c.groups : Outfits!Cardinality(c.groups[g]) >= 2}
             worn == [g \in together |-> c.groups[g]]
             amount == Outfits!Total(1, o, worn)
  <1>1. IsFiniteSet(together)
    <2>1. together \in SUBSET DOMAIN c.groups
      OBVIOUS
    <2>2. IsFiniteSet(DOMAIN c.groups)
      BY ListsAreFinite DEF IsChoice
    <2> HIDE DEF together
    <2> QED
      BY <2>1, <2>2, FS_Subset
  <1>2. DOMAIN worn = together
    OBVIOUS
  <1>3. amount \in Int /\ (together = {} => amount = 0)
    <2> HIDE DEF together, worn
    <2> QED
      BY <1>1, <1>2, TotalIs
  <1>4. Outfits!Wear(c, o) = Outfits!Clamp(0, 2, amount)
    BY DEF Outfits!Wear
  <1>5. DOMAIN c.groups = {} => together = {}
    OBVIOUS
  <1> HIDE DEF amount, together
  <1> QED
    BY <1>3, <1>4, <1>5 DEF Outfits!Clamp

LEMMA IdsAreFinite ==
    ASSUME NEW o, IsFiniteSet(o)
    PROVE  IsFiniteSet(Outfits!Ids(o))
  <1> DEFINE f == [x \in o |-> x.id]
  <1>1. f \in Surjection(o, Outfits!Ids(o))
    BY DEF Surjection, Outfits!Ids
  <1> QED
    BY <1>1, FS_Surjection

LEMMA PreferenceIs ==
    ASSUME NEW c, NEW o, IsOutfit(o)
    PROVE  /\ Outfits!PreferencePoints(c, o) \in 0 .. 15
           /\ c.saved = {} => Outfits!PreferencePoints(c, o) = 0
           /\ Outfits!FavoritePoints(o) \in 0 .. 15
           /\ (\A x \in o : x.favorite = FALSE) => Outfits!FavoritePoints(o) = 0
  <1> DEFINE n == Cardinality(Outfits!Ids(o) \cap c.saved)
             m == Cardinality({x \in o : x.favorite})
  <1>1. n \in Nat /\ (c.saved = {} => n = 0)
    <2>1. IsFiniteSet(Outfits!Ids(o) \cap c.saved)
      BY IdsAreFinite, FS_Intersection DEF IsOutfit
    <2>2. c.saved = {} => Outfits!Ids(o) \cap c.saved = {}
      OBVIOUS
    <2> QED
      BY <2>1, <2>2, FS_CardinalityType, FS_EmptySet
  <1>2. m \in Nat /\ ((\A x \in o : x.favorite = FALSE) => m = 0)
    <2> DEFINE S == {x \in o : x.favorite}
    <2>1. S \in SUBSET o
      OBVIOUS
    <2>2. (\A x \in o : x.favorite = FALSE) => S = {}
      OBVIOUS
    <2> HIDE DEF S
    <2>3. IsFiniteSet(S)
      BY <2>1, FS_Subset DEF IsOutfit
    <2>4. Cardinality(S) \in Nat /\ (S = {} => Cardinality(S) = 0)
      BY <2>3, FS_CardinalityType, FS_EmptySet
    <2> QED
      BY <2>2, <2>4 DEF S
  <1>3. Outfits!PreferencePoints(c, o) = Outfits!Clamp(0, 15, 5 * n)
    BY OutfitCardinality DEF Outfits!PreferencePoints
  <1>4. Outfits!FavoritePoints(o) = Outfits!Clamp(0, 15, 5 * m)
    BY OutfitCardinality DEF Outfits!FavoritePoints
  <1> HIDE DEF n, m
  <1> QED
    BY <1>1, <1>2, <1>3, <1>4 DEF Outfits!Clamp

(* The score, beside the feedback: neither end cuts it, but 100 may when an   *)
(* outfit is liked.                                                           *)
Basis(c, o) == Outfits!Compatibility(c, o) + Outfits!PreferencePoints(c, o) + Outfits!FavoritePoints(o)
              + Outfits!Wear(c, o)

LEMMA ScoreIs ==
    ASSUME NEW c, IsChoice(c), NEW o, IsOutfit(o)
    PROVE  /\ Basis(c, o) \in 9 .. 97 /\ Outfits!Feedback(c, o) \in -6 .. 6
           /\ Outfits!Score(c, o) = IF Basis(c, o) + Outfits!Feedback(c, o) > 100 THEN 100
                                    ELSE Basis(c, o) + Outfits!Feedback(c, o)
  <1> DEFINE compatibility == Outfits!Compatibility(c, o)
             preference == Outfits!PreferencePoints(c, o)
             favorite == Outfits!FavoritePoints(o)
             feedback == Outfits!Feedback(c, o)
             wear == Outfits!Wear(c, o)
  <1>1. compatibility \in 9 .. 65
    BY CompatibilityIs
  <1>2. preference \in 0 .. 15 /\ favorite \in 0 .. 15
    BY PreferenceIs
  <1>3. wear \in 0 .. 2
    BY WearIs
  <1>4. feedback \in -6 .. 6
    BY FeedbackIs
  <1>5. Outfits!Score(c, o) = Outfits!Clamp(0, 100, Outfits!Clamp(0, 70, compatibility) + preference + favorite + feedback + wear)
    BY DEF Outfits!Score
  <1>6. Basis(c, o) = compatibility + preference + favorite + wear
    BY DEF Basis
  <1> HIDE DEF compatibility, preference, favorite, feedback, wear
  <1>7. Outfits!Clamp(0, 70, compatibility) = compatibility
    BY <1>1 DEF Outfits!Clamp
  <1>8. /\ Basis(c, o) \in 9 .. 97
        /\ Outfits!Score(c, o) = IF Basis(c, o) + feedback > 100 THEN 100 ELSE Basis(c, o) + feedback
    BY <1>1, <1>2, <1>3, <1>4, <1>5, <1>6, <1>7 DEF Outfits!Clamp
  <1> QED
    BY <1>4, <1>8 DEF feedback

-----------------------------------------------------------------------------
(* The order of the candidates.                                               *)

(* Of two sets, the one that has the first number that they do not share.     *)
Sooner(A, B) == LET different == Outfits!SymDiff(A, B)
                IN  different # {} /\ Outfits!Min(different) \in A

LEMMA SoonerIs ==
    ASSUME NEW A \in SUBSET Int, NEW B \in SUBSET Int, IsFiniteSet(A), IsFiniteSet(B)
    PROVE  /\ Sooner(A, B) <=> \E m \in A \ B : \A y \in Outfits!SymDiff(A, B) : m <= y
           /\ A = B \/ Sooner(A, B) \/ Sooner(B, A)
           /\ ~ (Sooner(A, B) /\ Sooner(B, A))
  <1> DEFINE D == Outfits!SymDiff(A, B)
             m == Outfits!Min(D)
  <1>1. D = (A \ B) \cup (B \ A) /\ Outfits!SymDiff(B, A) = D
    BY DEF Outfits!SymDiff
  <1>2. D \in SUBSET Int /\ IsFiniteSet(D)
    <2> HIDE DEF D
    <2>1. IsFiniteSet(A \ B) /\ IsFiniteSet(B \ A)
      BY FS_Difference
    <2> QED
      BY <1>1, <2>1, FS_Union
  <1>3. /\ Sooner(A, B) <=> D # {} /\ m \in A
        /\ Sooner(B, A) <=> D # {} /\ m \in B
    <2>1. Sooner(A, B) <=> D # {} /\ m \in A
      BY DEF Sooner
    <2> HIDE DEF D
    <2>2. Sooner(B, A) <=> D # {} /\ Outfits!Min(D) \in B
      BY <1>1 DEF Sooner
    <2> QED
      BY <2>1, <2>2
  <1> HIDE DEF D
  <1>4. D # {} => m \in D /\ \A y \in D : m <= y
    BY <1>2, MinIs
  <1> HIDE DEF m
  <1>5. Sooner(A, B) => \E k \in A \ B : \A y \in D : k <= y
    BY <1>1, <1>3, <1>4
  <1>6. ASSUME NEW k \in A \ B, \A y \in D : k <= y PROVE Sooner(A, B)
    <2>1. k \in D /\ D # {}
      BY <1>1
    <2>2. m \in D /\ m <= k /\ k <= m /\ m \in Int /\ k \in Int
      BY <1>2, <1>4, <1>6, <2>1
    <2>3. m = k
      BY <2>2
    <2> QED
      BY <1>3, <2>1, <2>3
  <1>7. A = B \/ Sooner(A, B) \/ Sooner(B, A)
    BY <1>1, <1>3, <1>4
  <1>8. ~ (Sooner(A, B) /\ Sooner(B, A))
    BY <1>1, <1>3, <1>4
  <1> QED
    BY <1>5, <1>6, <1>7, <1>8 DEF D

LEMMA SoonerOrders ==
    ASSUME NEW A \in SUBSET Int, NEW B \in SUBSET Int, NEW C \in SUBSET Int,
           IsFiniteSet(A), IsFiniteSet(B), IsFiniteSet(C), Sooner(A, B), Sooner(B, C)
    PROVE  Sooner(A, C)
  <1>1. PICK m \in A \ B : \A y \in Outfits!SymDiff(A, B) : m <= y
    BY SoonerIs
  <1>2. PICK n \in B \ C : \A y \in Outfits!SymDiff(B, C) : n <= y
    BY SoonerIs
  <1>3. m \in Int /\ n \in Int /\ m # n
    OBVIOUS
  <1>4. ASSUME NEW k \in A \ C, k <= m, k <= n, k \in {m, n} PROVE Sooner(A, C)
    <2>1. \A y \in Outfits!SymDiff(A, C) : k <= y
      <3> SUFFICES ASSUME NEW y \in Outfits!SymDiff(A, C) PROVE k <= y
        OBVIOUS
      <3>1. y \in Outfits!SymDiff(A, B) \/ y \in Outfits!SymDiff(B, C)
        BY DEF Outfits!SymDiff
      <3>2. y \in Int
        BY DEF Outfits!SymDiff
      <3>3. m <= y \/ n <= y
        BY <1>1, <1>2, <3>1
      <3> QED
        BY <1>3, <1>4, <3>2, <3>3
    <2> QED
      BY <2>1, SoonerIs
  <1>5. CASE m < n
    <2>1. m \notin C
      <3>1. m \in C => m \in Outfits!SymDiff(B, C)
        BY DEF Outfits!SymDiff
      <3> QED
        BY <1>2, <1>3, <1>5, <3>1
    <2>2. m \in A \ C /\ m <= m /\ m <= n
      BY <1>3, <1>5, <2>1
    <2> QED
      BY <1>4, <2>2
  <1>6. CASE n < m
    <2>1. n \in A
      <3>1. n \notin A => n \in Outfits!SymDiff(A, B)
        BY DEF Outfits!SymDiff
      <3> QED
        BY <1>1, <1>3, <1>6, <3>1
    <2>2. n \in A \ C /\ n <= m /\ n <= n
      BY <1>3, <1>6, <2>1
    <2> QED
      BY <1>4, <2>2
  <1> QED
    BY <1>3, <1>5, <1>6

LEMMA BeforeOrders ==
    ASSUME NEW c, IsChoice(c)
    PROVE  LET P == Outfits!Candidates(c.wardrobe)
           IN  /\ \A a \in P : ~ Outfits!Before(c, a, a)
               /\ \A a, b \in P : a = b \/ Outfits!Before(c, a, b) \/ Outfits!Before(c, b, a)
               /\ \A a, b, d \in P : Outfits!Before(c, a, b) /\ Outfits!Before(c, b, d) => Outfits!Before(c, a, d)
  <1> DEFINE P == Outfits!Candidates(c.wardrobe)
             score(a) == Outfits!Score(c, a)
             size(a) == Cardinality(a)
             ids(a) == Outfits!Ids(a)
             before(a, b) == \/ score(a) > score(b)
                             \/ score(a) = score(b) /\ size(a) > size(b)
                             \/ score(a) = score(b) /\ size(a) = size(b) /\ Sooner(ids(a), ids(b))
  <1>1. IsWardrobe(c.wardrobe)
    BY DEF IsChoice
  <1>2. ASSUME NEW a \in P
        PROVE  score(a) \in Int /\ size(a) \in Int /\ ids(a) \in SUBSET Int /\ IsFiniteSet(ids(a)) /\ a \in SUBSET c.wardrobe
    <2>1. IsOutfit(a) /\ a \in SUBSET c.wardrobe
      BY <1>1, CandidatesAreOutfits
    <2>2. score(a) \in Int
      <3>1. /\ Basis(c, a) \in 9 .. 97 /\ Outfits!Feedback(c, a) \in -6 .. 6
            /\ Outfits!Score(c, a) = IF Basis(c, a) + Outfits!Feedback(c, a) > 100 THEN 100
                                     ELSE Basis(c, a) + Outfits!Feedback(c, a)
        BY <2>1, ScoreIs
      <3> QED
        BY <3>1
    <2>3. IsFiniteSet(a) /\ \A x \in a : x.id \in Int
      BY <2>1 DEF IsOutfit, IsGarment
    <2>4. size(a) \in Int /\ IsFiniteSet(ids(a))
      BY <2>3, IdsAreFinite, FS_CardinalityType
    <2>5. ids(a) \in SUBSET Int
      BY <2>3 DEF Outfits!Ids
    <2> QED
      BY <2>1, <2>2, <2>4, <2>5
  <1>3. \A a, b : Outfits!Before(c, a, b) <=> before(a, b)
    BY OutfitCardinality DEF Outfits!Before, Sooner
  <1>4. ASSUME NEW a \in P, NEW b \in P, ids(a) = ids(b) PROVE a = b
    <2>1. a \in SUBSET c.wardrobe /\ b \in SUBSET c.wardrobe
      BY <1>2
    <2>2. \A x, y \in c.wardrobe : x.id = y.id => x = y
      BY <1>1 DEF IsWardrobe
    <2>3. (\A x \in a : \E y \in b : y.id = x.id) /\ (\A x \in b : \E y \in a : y.id = x.id)
      BY <1>4 DEF Outfits!Ids
    <2> QED
      BY <2>1, <2>2, <2>3
  <1> HIDE DEF P, score, size, ids
  <1>5. \A a \in P : ~ Sooner(ids(a), ids(a))
    BY <1>2, SoonerIs
  <1>6. \A a, b \in P : a = b \/ Sooner(ids(a), ids(b)) \/ Sooner(ids(b), ids(a))
    BY <1>2, <1>4, SoonerIs
  <1>7. \A a, b, d \in P : Sooner(ids(a), ids(b)) /\ Sooner(ids(b), ids(d)) => Sooner(ids(a), ids(d))
    BY <1>2, SoonerOrders
  <1>8. \A a \in P : ~ before(a, a)
    BY <1>2, <1>5
  <1>9. \A a, b \in P : a = b \/ before(a, b) \/ before(b, a)
    BY <1>2, <1>6
  <1>10. \A a, b, d \in P : before(a, b) /\ before(b, d) => before(a, d)
    BY <1>2, <1>7
  <1> HIDE DEF before
  <1> QED
    BY <1>3, <1>8, <1>9, <1>10 DEF P

(* One candidate comes before all others, and only one.                       *)
LEMMA WinnerIs ==
    ASSUME NEW c, IsChoice(c), Outfits!Candidates(c.wardrobe) # {}
    PROVE  LET P == Outfits!Candidates(c.wardrobe)
           IN  /\ Outfits!Winner(c) \in P
               /\ \A b \in P : b # Outfits!Winner(c) => Outfits!Before(c, Outfits!Winner(c), b)
               /\ \A a \in P : (\A b \in P : b # a => Outfits!Before(c, a, b)) => a = Outfits!Winner(c)
  <1> DEFINE P == Outfits!Candidates(c.wardrobe)
             R == {x \in P \X P : Outfits!Before(c, x[1], x[2])}
             first(a) == \A b \in P : b # a => Outfits!Before(c, a, b)
  <1>1. IsFiniteSet(P)
    BY CandidateFills DEF IsChoice
  <1>2. \A x, y \in P : <<x, y>> \in R <=> Outfits!Before(c, x, y)
    OBVIOUS
  <1>3. /\ \A a \in P : ~ Outfits!Before(c, a, a)
        /\ \A a, b \in P : a = b \/ Outfits!Before(c, a, b) \/ Outfits!Before(c, b, a)
        /\ \A a, b, d \in P : Outfits!Before(c, a, b) /\ Outfits!Before(c, b, d) => Outfits!Before(c, a, d)
    BY BeforeOrders
  <1>4. P # {} /\ Outfits!Winner(c) = CHOOSE a \in P : first(a)
    BY DEF Outfits!Winner
  <1> HIDE DEF P, R
  <1>5. /\ \A x \in P : <<x, x>> \notin R
        /\ \A x, y \in P : x = y \/ <<x, y>> \in R \/ <<y, x>> \in R
        /\ \A x, y, z \in P : <<x, y>> \in R /\ <<y, z>> \in R => <<x, z>> \in R
    BY <1>2, <1>3
  <1>6. \E x \in P : Orders!Cardinality(Orders!Under(P, R, x)) = 1 - 1
    <2>1. Cardinality(P) \in Nat /\ Cardinality(P) # 0
      BY <1>1, <1>4, FS_CardinalityType, FS_EmptySet
    <2>2. 1 \in 1 .. Cardinality(P)
      BY <2>1
    <2>3. 1 \in 1 .. Orders!Cardinality(P)
      BY <2>2, OrdersFinite
    <2>4. \A n \in 1 .. Orders!Cardinality(P) : \E x \in P : Orders!Cardinality(Orders!Under(P, R, x)) = n - 1
      BY <1>1, <1>5, OrdersFinite, Orders!Ranks
    <2> QED
      BY <2>3, <2>4
  <1>7. PICK x \in P : Cardinality(Orders!Under(P, R, x)) = 0
    BY <1>6, OrdersFinite
  <1>8. Orders!Under(P, R, x) = {}
    <2>1. Orders!Under(P, R, x) \in SUBSET P
      BY DEF Orders!Under
    <2>2. IsFiniteSet(Orders!Under(P, R, x))
      BY <1>1, <2>1, FS_Subset
    <2> QED
      BY <1>7, <2>2, FS_EmptySet
  <1>9. first(x)
    BY <1>2, <1>3, <1>8 DEF Orders!Under
  <1>10. \A a, b \in P : first(a) /\ first(b) => a = b
    BY <1>3
  <1> HIDE DEF first
  <1>11. Outfits!Winner(c) \in P /\ first(Outfits!Winner(c))
    BY <1>4, <1>9
  <1>12. \A a \in P : first(a) => a = Outfits!Winner(c)
    BY <1>10, <1>11
  <1> QED
    BY <1>11, <1>12 DEF P, first

LEMMA ChoicesSettle ==
    ASSUME NEW c, IsChoice(c)
    PROVE  Outfits!IsSettled(c)
  <1> DEFINE P == Outfits!Candidates(c.wardrobe)
             W == Outfits!Winner(c)
  <1>1. IsWardrobe(c.wardrobe)
    BY DEF IsChoice
  <1>2. \A x \in Outfits!Representatives(c.wardrobe, "tops"), y \in Outfits!Representatives(c.wardrobe, "bottoms") :
           {x, y} \in P
    BY <1>1, PairsAreCandidates
  <1>3. \A a \in P : Outfits!Compatibility(c, a) <= 70
    <2> SUFFICES ASSUME NEW a \in P PROVE Outfits!Compatibility(c, a) <= 70
      OBVIOUS
    <2>1. Outfits!Compatibility(c, a) \in 9 .. 65
      BY <1>1, CandidatesAreOutfits, CompatibilityIs
    <2> QED
      BY <2>1
  <1>4. ASSUME P # {}
        PROVE  /\ W \in P \ Outfits!Alternatives(c)
               /\ \A b \in P : Outfits!Score(c, b) <= Outfits!Score(c, W)
    <2>1. W \in P /\ \A b \in P : b # W => Outfits!Before(c, W, b)
      BY <1>4, WinnerIs
    <2>2. /\ \A a \in P : ~ Outfits!Before(c, a, a)
          /\ \A a, b, d \in P : Outfits!Before(c, a, b) /\ Outfits!Before(c, b, d) => Outfits!Before(c, a, d)
      BY BeforeOrders
    <2>3. \A b \in P : Outfits!Score(c, b) \in Int
      <3> SUFFICES ASSUME NEW b \in P PROVE Outfits!Score(c, b) \in Int
        OBVIOUS
      <3>1. /\ Basis(c, b) \in 9 .. 97 /\ Outfits!Feedback(c, b) \in -6 .. 6
            /\ Outfits!Score(c, b) = IF Basis(c, b) + Outfits!Feedback(c, b) > 100 THEN 100
                                     ELSE Basis(c, b) + Outfits!Feedback(c, b)
        BY <1>1, CandidatesAreOutfits, ScoreIs
      <3> QED
        BY <3>1
    <2> HIDE DEF W, P
    <2>4. \A b \in P : Outfits!Score(c, b) <= Outfits!Score(c, W)
      <3> SUFFICES ASSUME NEW b \in P, b # W PROVE Outfits!Score(c, b) <= Outfits!Score(c, W)
        BY <2>1, <2>3
      <3>1. Outfits!Score(c, W) > Outfits!Score(c, b) \/ Outfits!Score(c, W) = Outfits!Score(c, b)
        BY <2>1 DEF Outfits!Before
      <3> QED
        BY <2>1, <2>3, <3>1
    <2>5. W \notin Outfits!Alternatives(c)
      <3>1. {b \in P : b # W /\ Outfits!Before(c, b, W)} = {}
        BY <2>1, <2>2
      <3>2. Outfits!Cardinality({b \in P : b # W /\ Outfits!Before(c, b, W)}) = 0
        BY <3>1, OutfitCardinality, FS_EmptySet
      <3>3. Outfits!Alternatives(c) = {a \in P : Outfits!Cardinality({b \in P : b # a /\ Outfits!Before(c, b, a)}) \in 1 .. 2}
        BY DEF Outfits!Alternatives, P
      <3> QED
        BY <3>2, <3>3
    <2> QED
      BY <2>1, <2>4, <2>5
  <1> HIDE DEF W, P
  <1> QED
    BY <1>2, <1>3, <1>4 DEF Outfits!IsSettled, W, P

-----------------------------------------------------------------------------
(* Reactions.                                                                 *)

LEMMA BaseIsOf ==
    ASSUME NEW c, NEW d, NEW o, d.saved = c.saved, d.groups = c.groups, d.occasions = c.occasions,
           d.palette = c.palette, d.fit = c.fit
    PROVE  Basis(d, o) = Basis(c, o)
  <1>1. Outfits!Compatibility(d, o) = Outfits!Compatibility(c, o)
    <2>1. /\ Outfits!OccasionPoints(d, o) = Outfits!OccasionPoints(c, o)
          /\ Outfits!PalettePoints(d, o) = Outfits!PalettePoints(c, o)
          /\ Outfits!FitPoints(d, o) = Outfits!FitPoints(c, o)
      BY DEF Outfits!OccasionPoints, Outfits!PalettePoints, Outfits!FitPoints
    <2> QED
      BY <2>1 DEF Outfits!Compatibility
  <1>2. Outfits!PreferencePoints(d, o) = Outfits!PreferencePoints(c, o) /\ Outfits!Wear(d, o) = Outfits!Wear(c, o)
    BY DEF Outfits!PreferencePoints, Outfits!Wear
  <1> QED
    BY <1>1, <1>2 DEF Basis

LEMMA ReactedIs ==
    ASSUME NEW c, IsChoice(c), NEW o, NEW rating
    PROVE  LET cc == Outfits!Reacted(c, o, rating)
               look == Len(c.looks) + 1
           IN  /\ IsChoice(cc) /\ cc.wardrobe = c.wardrobe /\ \A x : Basis(cc, x) = Basis(c, x)
               /\ cc.looks[look] = Outfits!Ids(o) /\ look \notin DOMAIN c.looks
               /\ Outfits!Rated(cc, rating) = Outfits!Rated(c, rating) \cup {look}
               /\ \A other : other # rating => Outfits!Rated(cc, other) = Outfits!Rated(c, other)
               /\ \A l \in DOMAIN c.looks : cc.looks[l] = c.looks[l]
  <1> DEFINE cc == Outfits!Reacted(c, o, rating)
             n == Len(c.looks)
             look == n + 1
             event == [look |-> look, rating |-> rating, at |-> 99]
             looks == [l \in 1 .. look |-> IF l = look THEN Outfits!Ids(o) ELSE c.looks[l]]
  <1>1. n \in Nat /\ DOMAIN c.looks = 1 .. n /\ Cardinality(DOMAIN c.looks) = n
    BY ListsAreFinite DEF IsChoice
  <1> HIDE DEF n
  <1>2. 1 + Outfits!Cardinality(DOMAIN c.looks) = look /\ DOMAIN c.looks \cup {look} = 1 .. look /\ look \notin DOMAIN c.looks
    <2>1. Outfits!Cardinality(DOMAIN c.looks) = n
      BY <1>1, OutfitCardinality
    <2>2. 1 .. n \cup {n + 1} = 1 .. n + 1 /\ n + 1 \notin 1 .. n
      BY <1>1
    <2> QED
      BY <1>1, <2>1, <2>2
  <1>3. cc = [c EXCEPT !.looks = looks, !.events = @ \cup {event}]
    <2> DEFINE new(l) == [c EXCEPT !.looks = [m \in DOMAIN c.looks \cup {l} |->
                                IF m = l THEN Outfits!Ids(o) ELSE c.looks[m]],
                               !.events = @ \cup {[look |-> l, rating |-> rating, at |-> 99]}]
    <2>1. cc = new(1 + Outfits!Cardinality(DOMAIN c.looks))
      BY DEF Outfits!Reacted
    <2>2. new(look) = [c EXCEPT !.looks = looks, !.events = @ \cup {event}]
      BY <1>2
    <2> HIDE DEF new, cc, look, looks, event
    <2> QED
      BY <1>2, <2>1, <2>2
  <1>4. /\ DOMAIN cc = DOMAIN c /\ cc.looks = looks /\ cc.events = c.events \cup {event}
        /\ cc.wardrobe = c.wardrobe /\ cc.saved = c.saved /\ cc.groups = c.groups
        /\ cc.occasions = c.occasions /\ cc.palette = c.palette /\ cc.fit = c.fit
    <2> HIDE DEF cc, looks, event
    <2> QED
      BY <1>3 DEF IsChoice
  <1> HIDE DEF cc
  <1>5. DOMAIN looks = 1 .. look /\ looks[look] = Outfits!Ids(o) /\ \A l \in 1 .. n : looks[l] = c.looks[l]
    BY <1>1
  <1>6. IsList(looks)
    <2>1. look \in Nat
      BY <1>1
    <2> HIDE DEF look
    <2>2. Len(looks) = look
      BY <2>1
    <2>3. looks = [i \in 1 .. look |-> looks[i]]
      OBVIOUS
    <2> HIDE DEF looks
    <2> QED
      BY <2>1, <2>2, <2>3 DEF IsList
  <1> HIDE DEF looks
  <1>7. event.look = look /\ event.rating = rating /\ event.at = 99
    OBVIOUS
  <1>8. IsChoice(cc)
    <2>1. look \in 1 .. look /\ 1 .. n \subseteq 1 .. look
      BY <1>1
    <2> HIDE DEF event, look
    <2>2. \A e \in cc.events : e.look \in DOMAIN cc.looks
      BY <1>1, <1>4, <1>5, <1>7, <2>1 DEF IsChoice
    <2> QED
      BY <1>4, <1>6, <2>2 DEF IsChoice
  <1> HIDE DEF event
  <1>9. \A e \in c.events : e.look # look
    BY <1>2 DEF IsChoice
  <1> HIDE DEF look
  <1>10. DOMAIN cc.looks = DOMAIN c.looks \cup {look}
    BY <1>2, <1>4, <1>5
  <1> DEFINE says(d, r, l) == \E e \in d.events : /\ e.look = l /\ e.rating = r
                                                 /\ \A f \in d.events : f.look = l => f.at <= e.at
  <1>11. \A d, r : Outfits!Rated(d, r) = {l \in DOMAIN d.looks : says(d, r, l)}
    BY DEF Outfits!Rated
  <1>12. \A r : \A l \in DOMAIN c.looks : says(cc, r, l) <=> says(c, r, l)
    <2> SUFFICES ASSUME NEW r, NEW l \in DOMAIN c.looks PROVE says(cc, r, l) <=> says(c, r, l)
      OBVIOUS
    <2>1. event.look # l
      BY <1>2, <1>7
    <2>2. \A e : e \in cc.events /\ e.look = l <=> e \in c.events /\ e.look = l
      BY <1>4, <2>1
    <2> QED
      BY <2>2
  <1>13. says(cc, rating, look)
    <2>1. event \in cc.events
      BY <1>4
    <2>2. \A f \in cc.events : f.look = look => f.at <= event.at
      <3>1. \A f \in cc.events : f.look = look => f = event
        BY <1>4, <1>9
      <3>2. 99 <= 99
        OBVIOUS
      <3> QED
        BY <1>7, <3>1, <3>2
    <2> QED
      BY <1>7, <2>1, <2>2
  <1>14. \A other : other # rating => ~ says(cc, other, look)
    BY <1>4, <1>7, <1>9
  <1> HIDE DEF says
  <1>15. Outfits!Rated(cc, rating) = Outfits!Rated(c, rating) \cup {look}
    BY <1>10, <1>11, <1>12, <1>13
  <1>16. \A other : other # rating => Outfits!Rated(cc, other) = Outfits!Rated(c, other)
    BY <1>10, <1>11, <1>12, <1>14
  <1>17. \A x : Basis(cc, x) = Basis(c, x)
    BY <1>4, BaseIsOf
  <1> QED
    BY <1>1, <1>2, <1>4, <1>5, <1>8, <1>15, <1>16, <1>17 DEF cc, look, n

LEMMA OfIs ==
    ASSUME NEW c, NEW d, NEW L, \A l \in L : d.looks[l] = c.looks[l]
    PROVE  Outfits!Of(d, L) = Outfits!Of(c, L)
  BY DEF Outfits!Of

(* The first like of an outfit, and the first dislike.                        *)
LEMMA FirstReaction ==
    ASSUME NEW c, IsChoice(c), NEW o, NEW x
    PROVE  /\ Outfits!Rated(c, "like") = {} =>
                 /\ Liked(c, x) = 0 /\ Liked(Outfits!Reacted(c, o, "like"), x) = Outfits!Alike(2, x, Outfits!Ids(o))
                 /\ Disliked(Outfits!Reacted(c, o, "like"), x) = Disliked(c, x)
           /\ Outfits!Rated(c, "dislike") = {} =>
                 /\ Disliked(c, x) = 0
                 /\ Disliked(Outfits!Reacted(c, o, "dislike"), x) = Outfits!Alike(-2, x, Outfits!Ids(o))
                 /\ Liked(Outfits!Reacted(c, o, "dislike"), x) = Liked(c, x)
  <1> DEFINE look == Len(c.looks) + 1
  <1>1. ASSUME NEW cc, NEW points \in Int, cc.looks[look] = Outfits!Ids(o)
        PROVE  Outfits!Total(points, x, Outfits!Of(cc, {look})) = Outfits!Alike(points, x, Outfits!Ids(o))
    <2> DEFINE others == Outfits!Of(cc, {look})
    <2> HIDE DEF look
    <2>1. DOMAIN others = {look} /\ others[look] = Outfits!Ids(o)
      BY <1>1 DEF Outfits!Of
    <2>2. IsFiniteSet({look})
      BY FS_Singleton
    <2> HIDE DEF others
    <2> QED
      BY <2>1, <2>2, TotalIs DEF others
  <1>2. ASSUME Outfits!Rated(c, "like") = {}
        PROVE  /\ Liked(c, x) = 0 /\ Liked(Outfits!Reacted(c, o, "like"), x) = Outfits!Alike(2, x, Outfits!Ids(o))
               /\ Disliked(Outfits!Reacted(c, o, "like"), x) = Disliked(c, x)
    <2> DEFINE cc == Outfits!Reacted(c, o, "like")
    <2>1. /\ cc.looks[look] = Outfits!Ids(o)
          /\ Outfits!Rated(cc, "like") = Outfits!Rated(c, "like") \cup {look}
          /\ Outfits!Rated(cc, "dislike") = Outfits!Rated(c, "dislike")
          /\ \A l \in DOMAIN c.looks : cc.looks[l] = c.looks[l]
      <3>1. "dislike" # "like"
        OBVIOUS
      <3>2. LET d == Outfits!Reacted(c, o, "like")
                m == Len(c.looks) + 1
            IN  /\ IsChoice(d) /\ d.wardrobe = c.wardrobe /\ \A y : Basis(d, y) = Basis(c, y)
                /\ d.looks[m] = Outfits!Ids(o) /\ m \notin DOMAIN c.looks
                /\ Outfits!Rated(d, "like") = Outfits!Rated(c, "like") \cup {m}
                /\ \A other : other # "like" => Outfits!Rated(d, other) = Outfits!Rated(c, other)
                /\ \A l \in DOMAIN c.looks : d.looks[l] = c.looks[l]
        BY ReactedIs
      <3> QED
        BY <3>1, <3>2
    <2> HIDE DEF cc, look
    <2>2. Outfits!Rated(cc, "like") = {look}
      BY <1>2, <2>1
    <2>3. Outfits!Total(2, x, Outfits!Of(cc, {look})) = Outfits!Alike(2, x, Outfits!Ids(o))
      BY <1>1, <2>1
    <2>4. Outfits!Clamp(0, 6, Outfits!Alike(2, x, Outfits!Ids(o))) = Outfits!Alike(2, x, Outfits!Ids(o))
      <3>1. 2 \in Int
        OBVIOUS
      <3>2. Outfits!Alike(2, x, Outfits!Ids(o)) \in {0, 2, 2 * 2}
        BY <3>1, AlikeIs
      <3> QED
        BY <3>2 DEF Outfits!Clamp
    <2>5. Liked(cc, x) = Outfits!Alike(2, x, Outfits!Ids(o))
      BY <2>2, <2>3, <2>4 DEF Liked
    <2>6. \A l \in Outfits!Rated(c, "dislike") : cc.looks[l] = c.looks[l]
      BY <2>1 DEF Outfits!Rated
    <2>7. Outfits!Of(cc, Outfits!Rated(c, "dislike")) = Outfits!Of(c, Outfits!Rated(c, "dislike"))
      BY <2>6, OfIs
    <2>8. Disliked(cc, x) = Disliked(c, x)
      BY <2>1, <2>7 DEF Disliked
    <2>9. Liked(c, x) = 0
      BY <1>2, FeedbackIs
    <2> QED
      BY <2>5, <2>8, <2>9 DEF cc
  <1>3. ASSUME Outfits!Rated(c, "dislike") = {}
        PROVE  /\ Disliked(c, x) = 0
               /\ Disliked(Outfits!Reacted(c, o, "dislike"), x) = Outfits!Alike(-2, x, Outfits!Ids(o))
               /\ Liked(Outfits!Reacted(c, o, "dislike"), x) = Liked(c, x)
    <2> DEFINE cc == Outfits!Reacted(c, o, "dislike")
    <2>1. /\ cc.looks[look] = Outfits!Ids(o)
          /\ Outfits!Rated(cc, "dislike") = Outfits!Rated(c, "dislike") \cup {look}
          /\ Outfits!Rated(cc, "like") = Outfits!Rated(c, "like")
          /\ \A l \in DOMAIN c.looks : cc.looks[l] = c.looks[l]
      <3>1. "like" # "dislike"
        OBVIOUS
      <3>2. LET d == Outfits!Reacted(c, o, "dislike")
                m == Len(c.looks) + 1
            IN  /\ IsChoice(d) /\ d.wardrobe = c.wardrobe /\ \A y : Basis(d, y) = Basis(c, y)
                /\ d.looks[m] = Outfits!Ids(o) /\ m \notin DOMAIN c.looks
                /\ Outfits!Rated(d, "dislike") = Outfits!Rated(c, "dislike") \cup {m}
                /\ \A other : other # "dislike" => Outfits!Rated(d, other) = Outfits!Rated(c, other)
                /\ \A l \in DOMAIN c.looks : d.looks[l] = c.looks[l]
        BY ReactedIs
      <3> QED
        BY <3>1, <3>2
    <2> HIDE DEF cc, look
    <2>2. Outfits!Rated(cc, "dislike") = {look}
      BY <1>3, <2>1
    <2>3. -2 \in Int
      OBVIOUS
    <2>4. Outfits!Total(-2, x, Outfits!Of(cc, {look})) = Outfits!Alike(-2, x, Outfits!Ids(o))
      BY <1>1, <2>1, <2>3
    <2>5. Outfits!Clamp(-6, 0, Outfits!Alike(-2, x, Outfits!Ids(o))) = Outfits!Alike(-2, x, Outfits!Ids(o))
      <3>1. Outfits!Alike(-2, x, Outfits!Ids(o)) \in {0, -2, 2 * (-2)}
        BY <2>3, AlikeIs
      <3> QED
        BY <3>1 DEF Outfits!Clamp
    <2>6. Disliked(cc, x) = Outfits!Alike(-2, x, Outfits!Ids(o))
      BY <2>2, <2>4, <2>5 DEF Disliked
    <2>7. \A l \in Outfits!Rated(c, "like") : cc.looks[l] = c.looks[l]
      BY <2>1 DEF Outfits!Rated
    <2>8. Outfits!Of(cc, Outfits!Rated(c, "like")) = Outfits!Of(c, Outfits!Rated(c, "like"))
      BY <2>7, OfIs
    <2>9. Liked(cc, x) = Liked(c, x)
      BY <2>1, <2>8 DEF Liked
    <2>10. Disliked(c, x) = 0
      BY <1>3, FeedbackIs
    <2> QED
      BY <2>6, <2>9, <2>10 DEF cc
  <1> QED
    BY <1>2, <1>3

LEMMA SameIds ==
    ASSUME NEW W, IsWardrobe(W), NEW a \in SUBSET W, NEW b \in SUBSET W, Outfits!Ids(a) = Outfits!Ids(b)
    PROVE  a = b
  <1>1. \A x, y \in W : x.id = y.id => x = y
    BY DEF IsWardrobe
  <1>2. (\A x \in a : \E y \in b : y.id = x.id) /\ (\A x \in b : \E y \in a : y.id = x.id)
    BY DEF Outfits!Ids
  <1> QED
    BY <1>1, <1>2

LEMMA LikedWins ==
    ASSUME NEW c, IsChoice(c), Outfits!Candidates(c.wardrobe) # {}, Outfits!Rated(c, "like") = {}
    PROVE  Outfits!Winner(Outfits!Reacted(c, Outfits!Winner(c), "like")) = Outfits!Winner(c)
  <1> DEFINE P == Outfits!Candidates(c.wardrobe)
             W == Outfits!Winner(c)
             cc == Outfits!Reacted(c, W, "like")
  <1>1. IsWardrobe(c.wardrobe)
    BY DEF IsChoice
  <1>2. W \in P /\ \A b \in P : b # W => Outfits!Before(c, W, b)
    BY WinnerIs
  <1>3. IsChoice(cc) /\ cc.wardrobe = c.wardrobe /\ \A x : Basis(cc, x) = Basis(c, x)
    BY ReactedIs
  <1>4. ASSUME NEW x \in P
        PROVE  /\ Basis(c, x) \in 9 .. 97 /\ Disliked(c, x) \in -6 .. 0
               /\ Outfits!Alike(2, x, Outfits!Ids(W)) \in {0, 2, 4}
               /\ Outfits!Score(c, x) = Basis(c, x) + Disliked(c, x)
               /\ Outfits!Score(cc, x) =
                     LET points == Basis(c, x) + Outfits!Alike(2, x, Outfits!Ids(W)) + Disliked(c, x)
                     IN  IF points > 100 THEN 100 ELSE points
    <2>1. IsOutfit(x)
      BY <1>1, CandidatesAreOutfits
    <2>2. /\ Basis(c, x) \in 9 .. 97
          /\ Outfits!Score(c, x) = IF Basis(c, x) + Outfits!Feedback(c, x) > 100 THEN 100
                                   ELSE Basis(c, x) + Outfits!Feedback(c, x)
      BY <2>1, ScoreIs
    <2>3. Outfits!Score(cc, x) = IF Basis(cc, x) + Outfits!Feedback(cc, x) > 100 THEN 100
                                 ELSE Basis(cc, x) + Outfits!Feedback(cc, x)
      BY <1>3, <2>1, ScoreIs
    <2>4. Basis(cc, x) = Basis(c, x)
      BY <1>3
    <2>5. /\ Liked(c, x) = 0 /\ Liked(cc, x) = Outfits!Alike(2, x, Outfits!Ids(W))
          /\ Disliked(cc, x) = Disliked(c, x)
      BY FirstReaction
    <2>6. Disliked(c, x) \in -6 .. 0 /\ Outfits!Feedback(c, x) = Liked(c, x) + Disliked(c, x)
      BY FeedbackIs
    <2>7. Outfits!Feedback(cc, x) = Liked(cc, x) + Disliked(cc, x)
      BY <1>3, FeedbackIs
    <2>8. Outfits!Alike(2, x, Outfits!Ids(W)) \in {0, 2, 4}
      BY DEF Outfits!Alike, Outfits!If
    <2> HIDE DEF cc, W
    <2> QED
      BY <2>2, <2>3, <2>4, <2>5, <2>6, <2>7, <2>8
  <1>5. Outfits!Alike(2, W, Outfits!Ids(W)) = 4
    BY DEF Outfits!Alike
  <1>6. \A b \in P : b # W => Outfits!Alike(2, b, Outfits!Ids(W)) \in {0, 2}
    <2> SUFFICES ASSUME NEW b \in P, b # W PROVE Outfits!Alike(2, b, Outfits!Ids(W)) \in {0, 2}
      OBVIOUS
    <2>1. b \in SUBSET c.wardrobe /\ W \in SUBSET c.wardrobe
      BY <1>1, <1>2, CandidatesAreOutfits
    <2>2. Outfits!Ids(b) # Outfits!Ids(W)
      BY <1>1, <2>1, SameIds
    <2> QED
      BY <2>2 DEF Outfits!Alike, Outfits!If
  <1> HIDE DEF P, W, cc
  <1>7. ASSUME NEW b \in P, b # W PROVE Outfits!Before(cc, W, b)
    <2>1. Outfits!Score(c, W) >= Outfits!Score(c, b)
      <3>1. Outfits!Score(c, W) > Outfits!Score(c, b) \/ Outfits!Score(c, W) = Outfits!Score(c, b)
        BY <1>2, <1>7 DEF Outfits!Before
      <3>2. Outfits!Score(c, W) \in Int /\ Outfits!Score(c, b) \in Int
        BY <1>2, <1>4, <1>7
      <3> QED
        BY <3>1, <3>2
    <2> DEFINE d == Outfits!Alike(2, b, Outfits!Ids(W))
    <2>2. d \in {0, 2}
      BY <1>6, <1>7
    <2>3. /\ Basis(c, W) \in 9 .. 97 /\ Disliked(c, W) \in -6 .. 0 /\ Outfits!Score(c, W) = Basis(c, W) + Disliked(c, W)
          /\ Outfits!Score(cc, W) = LET points == Basis(c, W) + 4 + Disliked(c, W) IN IF points > 100 THEN 100 ELSE points
      BY <1>2, <1>4, <1>5
    <2>4. /\ Basis(c, b) \in 9 .. 97 /\ Disliked(c, b) \in -6 .. 0 /\ Outfits!Score(c, b) = Basis(c, b) + Disliked(c, b)
          /\ Outfits!Score(cc, b) = LET points == Basis(c, b) + d + Disliked(c, b) IN IF points > 100 THEN 100 ELSE points
      BY <1>4, <1>7
    <2> HIDE DEF d
    <2>5. Outfits!Score(cc, W) > Outfits!Score(cc, b)
      <3> DEFINE s == Outfits!Score(c, W)  t == Outfits!Score(c, b)
                 ss == Outfits!Score(cc, W)  tt == Outfits!Score(cc, b)
      <3>1. s \in Int /\ s <= 97 /\ ss = IF s + 4 > 100 THEN 100 ELSE s + 4
        <4> DEFINE u == Basis(c, W)  v == Disliked(c, W)
        <4>1. /\ u \in 9 .. 97 /\ v \in -6 .. 0 /\ s = u + v
              /\ ss = IF u + 4 + v > 100 THEN 100 ELSE u + 4 + v
          BY <2>3
        <4> HIDE DEF u, v, s, ss
        <4>2. u + 4 + v = s + 4 /\ s \in Int /\ s <= 97
          BY <4>1
        <4> QED
          BY <4>1, <4>2
      <3>2. t \in Int /\ t <= 97 /\ tt = IF t + d > 100 THEN 100 ELSE t + d
        <4> DEFINE u == Basis(c, b)  v == Disliked(c, b)
        <4>1. /\ u \in 9 .. 97 /\ v \in -6 .. 0 /\ t = u + v
              /\ tt = IF u + d + v > 100 THEN 100 ELSE u + d + v
          BY <2>4
        <4> HIDE DEF u, v, t, tt
        <4>2. u + d + v = t + d /\ t \in Int /\ t <= 97
          BY <2>2, <4>1
        <4> QED
          BY <4>1, <4>2
      <3>3. s >= t
        BY <2>1
      <3> HIDE DEF s, t, ss, tt
      <3>4. ss > tt
        BY <2>2, <3>1, <3>2, <3>3
      <3> QED
        BY <3>4 DEF ss, tt
    <2> QED
      BY <2>5 DEF Outfits!Before
  <1>8. Outfits!Candidates(cc.wardrobe) = P
    BY <1>3 DEF P
  <1> QED
    <2>1. Outfits!Candidates(cc.wardrobe) # {}
      BY <1>8 DEF P
    <2>2. \A a \in Outfits!Candidates(cc.wardrobe) :
             (\A b \in Outfits!Candidates(cc.wardrobe) : b # a => Outfits!Before(cc, a, b)) => a = Outfits!Winner(cc)
      BY <1>3, <2>1, WinnerIs
    <2>3. W = Outfits!Winner(cc)
      BY <1>2, <1>7, <1>8, <2>2
    <2> QED
      BY <2>3 DEF cc, W

LEMMA DislikedIsBehind ==
    ASSUME NEW c, IsChoice(c), Outfits!Rated(c, "dislike") = {},
           NEW a \in Outfits!Candidates(c.wardrobe), NEW b \in Outfits!Candidates(c.wardrobe),
           a # b, Outfits!Before(c, b, a), Outfits!Score(c, a) < 100
    PROVE  Outfits!Before(Outfits!Reacted(c, a, "dislike"), b, a)
  <1> DEFINE P == Outfits!Candidates(c.wardrobe)
             cc == Outfits!Reacted(c, a, "dislike")
  <1>1. IsWardrobe(c.wardrobe)
    BY DEF IsChoice
  <1>2. IsChoice(cc) /\ \A x : Basis(cc, x) = Basis(c, x)
    BY ReactedIs
  <1>3. ASSUME NEW x \in P
        PROVE  /\ Basis(c, x) \in 9 .. 97 /\ Liked(c, x) \in 0 .. 6
               /\ Outfits!Score(c, x) = IF Basis(c, x) + Liked(c, x) > 100 THEN 100 ELSE Basis(c, x) + Liked(c, x)
               /\ Outfits!Score(cc, x) =
                     LET points == Basis(c, x) + Liked(c, x) + Outfits!Alike(-2, x, Outfits!Ids(a))
                     IN  IF points > 100 THEN 100 ELSE points
    <2>1. IsOutfit(x)
      BY <1>1, CandidatesAreOutfits
    <2>2. /\ Basis(c, x) \in 9 .. 97
          /\ Outfits!Score(c, x) = IF Basis(c, x) + Outfits!Feedback(c, x) > 100 THEN 100
                                   ELSE Basis(c, x) + Outfits!Feedback(c, x)
      BY <2>1, ScoreIs
    <2>3. Outfits!Score(cc, x) = IF Basis(cc, x) + Outfits!Feedback(cc, x) > 100 THEN 100
                                 ELSE Basis(cc, x) + Outfits!Feedback(cc, x)
      BY <1>2, <2>1, ScoreIs
    <2>4. Basis(cc, x) = Basis(c, x)
      BY <1>2
    <2>5. /\ Disliked(c, x) = 0 /\ Disliked(cc, x) = Outfits!Alike(-2, x, Outfits!Ids(a))
          /\ Liked(cc, x) = Liked(c, x)
      BY FirstReaction
    <2>6. Liked(c, x) \in 0 .. 6 /\ Outfits!Feedback(c, x) = Liked(c, x) + Disliked(c, x)
      BY FeedbackIs
    <2>7. Outfits!Feedback(cc, x) = Liked(cc, x) + Disliked(cc, x)
      BY <1>2, FeedbackIs
    <2>8. Outfits!Alike(-2, x, Outfits!Ids(a)) \in {0, -2, -4}
      BY DEF Outfits!Alike, Outfits!If
    <2> HIDE DEF cc
    <2> QED
      BY <2>2, <2>3, <2>4, <2>5, <2>6, <2>7, <2>8
  <1>4. Outfits!Alike(-2, a, Outfits!Ids(a)) = -4
    BY DEF Outfits!Alike
  <1> DEFINE d == Outfits!Alike(-2, b, Outfits!Ids(a))
  <1>5. d \in {0, -2}
    <2>1. b \in SUBSET c.wardrobe /\ a \in SUBSET c.wardrobe
      BY <1>1, CandidatesAreOutfits
    <2>2. Outfits!Ids(b) # Outfits!Ids(a)
      BY <1>1, <2>1, SameIds
    <2> QED
      BY <2>2 DEF Outfits!Alike, Outfits!If
  <1>6. /\ Basis(c, a) \in 9 .. 97 /\ Liked(c, a) \in 0 .. 6
        /\ Outfits!Score(c, a) = IF Basis(c, a) + Liked(c, a) > 100 THEN 100 ELSE Basis(c, a) + Liked(c, a)
        /\ Outfits!Score(cc, a) = LET points == Basis(c, a) + Liked(c, a) + (-4) IN IF points > 100 THEN 100 ELSE points
    BY <1>3, <1>4
  <1>7. /\ Basis(c, b) \in 9 .. 97 /\ Liked(c, b) \in 0 .. 6
        /\ Outfits!Score(c, b) = IF Basis(c, b) + Liked(c, b) > 100 THEN 100 ELSE Basis(c, b) + Liked(c, b)
        /\ Outfits!Score(cc, b) = LET points == Basis(c, b) + Liked(c, b) + d IN IF points > 100 THEN 100 ELSE points
    BY <1>3
  <1>8. Outfits!Score(c, b) > Outfits!Score(c, a) \/ Outfits!Score(c, b) = Outfits!Score(c, a)
    BY DEF Outfits!Before
  <1> HIDE DEF d, cc
  <1>9. Outfits!Score(cc, b) > Outfits!Score(cc, a)
    <2> DEFINE s == Outfits!Score(c, a)  t == Outfits!Score(c, b)
               ss == Outfits!Score(cc, a)  tt == Outfits!Score(cc, b)
    <2>1. s \in Int /\ s < 100 /\ ss = s - 4
      <3> DEFINE u == Basis(c, a)  v == Liked(c, a)
      <3>1. /\ u \in 9 .. 97 /\ v \in 0 .. 6 /\ s = IF u + v > 100 THEN 100 ELSE u + v
            /\ ss = IF u + v + (-4) > 100 THEN 100 ELSE u + v + (-4)
            /\ s < 100
        BY <1>6
      <3> HIDE DEF u, v, s, ss
      <3>2. u + v <= 100 /\ u + v \in Int /\ u + v + (-4) = u + v - 4
        BY <3>1
      <3> QED
        BY <3>1, <3>2
    <2>2. PICK n \in Int : /\ t = IF n > 100 THEN 100 ELSE n
                           /\ tt = IF n + d > 100 THEN 100 ELSE n + d
      <3> DEFINE u == Basis(c, b)  v == Liked(c, b)
      <3>1. /\ u \in 9 .. 97 /\ v \in 0 .. 6 /\ t = IF u + v > 100 THEN 100 ELSE u + v
            /\ tt = IF u + v + d > 100 THEN 100 ELSE u + v + d
        BY <1>7
      <3> HIDE DEF u, v, t, tt
      <3>2. u + v \in Int
        BY <3>1
      <3> QED
        BY <3>1, <3>2
    <2>3. t > s \/ t = s
      BY <1>8
    <2> HIDE DEF s, t, ss, tt
    <2>4. tt > ss
      BY <1>5, <2>1, <2>2, <2>3
    <2> QED
      BY <2>4 DEF ss, tt
  <1>10. Outfits!Before(cc, b, a)
    BY <1>9 DEF Outfits!Before
  <1> QED
    BY <1>10 DEF cc

LEMMA ReactionsAreCounted ==
    ASSUME NEW c, IsChoice(c)
    PROVE  Outfits!ReactionsCount(c)
  BY LikedWins, DislikedIsBehind DEF Outfits!ReactionsCount

-----------------------------------------------------------------------------
(* What a reason speaks of.                                                   *)

LEMMA ScoresLess ==
    ASSUME NEW c, IsChoice(c), NEW d, IsChoice(d), NEW o, IsOutfit(o), NEW p, IsOutfit(p),
           Basis(d, p) + Outfits!Feedback(d, p) < Basis(c, o) + Outfits!Feedback(c, o)
    PROVE  Outfits!Score(d, p) < Outfits!Score(c, o) \/ Outfits!Score(c, o) = 100
  <1> DEFINE base == Basis(c, o)  said == Outfits!Feedback(c, o)  score == Outfits!Score(c, o)
             base2 == Basis(d, p)  said2 == Outfits!Feedback(d, p)  score2 == Outfits!Score(d, p)
  <1>1. base \in 9 .. 97 /\ said \in -6 .. 6 /\ score = IF base + said > 100 THEN 100 ELSE base + said
    BY ScoreIs
  <1>2. base2 \in 9 .. 97 /\ said2 \in -6 .. 6 /\ score2 = IF base2 + said2 > 100 THEN 100 ELSE base2 + said2
    BY ScoreIs
  <1>3. base2 + said2 < base + said
    OBVIOUS
  <1> HIDE DEF base, said, score, base2, said2, score2
  <1>4. score2 < score \/ score = 100
    BY <1>1, <1>2, <1>3
  <1> QED
    BY <1>4 DEF score, score2

(* An outfit that nobody likes scores at most its base, and is not cut.       *)
LEMMA DislikeCosts ==
    ASSUME NEW c, IsChoice(c), NEW d, IsChoice(d), NEW o, IsOutfit(o), Basis(d, o) = Basis(c, o),
           Outfits!Feedback(c, o) < 0, Outfits!Feedback(d, o) >= 0
    PROVE  Outfits!Score(c, o) < Outfits!Score(d, o)
  <1> DEFINE base == Basis(c, o)  said == Outfits!Feedback(c, o)  score == Outfits!Score(c, o)
             said2 == Outfits!Feedback(d, o)  score2 == Outfits!Score(d, o)
  <1>1. base \in 9 .. 97 /\ said \in -6 .. 6 /\ score = IF base + said > 100 THEN 100 ELSE base + said
    BY ScoreIs
  <1>2. said2 \in -6 .. 6 /\ score2 = IF base + said2 > 100 THEN 100 ELSE base + said2
    BY ScoreIs
  <1>3. said < 0 /\ said2 >= 0
    OBVIOUS
  <1> HIDE DEF base, said, score, said2, score2
  <1>4. score < score2
    BY <1>1, <1>2, <1>3
  <1> QED
    BY <1>4 DEF score, score2

LEMMA FeedbackIsOf ==
    ASSUME NEW c, NEW d, NEW o, d.events = c.events, d.looks = c.looks
    PROVE  Outfits!Feedback(d, o) = Outfits!Feedback(c, o)
  <1>1. Outfits!Rated(d, "like") = Outfits!Rated(c, "like") /\ Outfits!Rated(d, "dislike") = Outfits!Rated(c, "dislike")
    BY DEF Outfits!Rated
  <1>2. \A L : Outfits!Of(d, L) = Outfits!Of(c, L)
    BY DEF Outfits!Of
  <1> QED
    BY <1>1, <1>2 DEF Outfits!Feedback

(* Two outfits of the same garments are as much like any other.               *)
LEMMA TotalIsOf ==
    ASSUME NEW o, NEW p, Outfits!Ids(p) = Outfits!Ids(o), NEW points, NEW others
    PROVE  Outfits!Total(points, p, others) = Outfits!Total(points, o, others)
  <1>1. \A other : Outfits!Alike(points, p, other) = Outfits!Alike(points, o, other)
    BY DEF Outfits!Alike
  <1>2. [x \in DOMAIN others |-> Outfits!Alike(points, p, others[x])]
           = [x \in DOMAIN others |-> Outfits!Alike(points, o, others[x])]
    BY <1>1
  <1> QED
    BY <1>2 DEF Outfits!Total

LEMMA UnratedIs ==
    ASSUME NEW c, IsChoice(c), NEW rating, NEW d, d.looks = c.looks,
           d.events = {e \in c.events : e.look \notin Outfits!Rated(c, rating)}
    PROVE  Outfits!Rated(d, rating) = {}
  <1> SUFFICES ASSUME NEW l \in Outfits!Rated(d, rating) PROVE FALSE
    OBVIOUS
  <1>1. l \in DOMAIN c.looks
    BY DEF Outfits!Rated
  <1>2. PICK e \in d.events : e.look = l /\ e.rating = rating /\ \A f \in d.events : f.look = l => f.at <= e.at
    BY DEF Outfits!Rated
  <1>3. e \in c.events /\ l \notin Outfits!Rated(c, rating)
    BY <1>2
  <1>4. \A f \in c.events : f.look = l => f.at <= e.at
    BY <1>2, <1>3
  <1>5. l \in Outfits!Rated(c, rating)
    BY <1>1, <1>2, <1>3, <1>4 DEF Outfits!Rated
  <1> QED
    BY <1>3, <1>5

(* The case without what a reason speaks of is a case, of the same wardrobe.  *)
Unrated(c, rating) == {e \in c.events : e.look \notin Outfits!Rated(c, rating)}

LEMMA WithoutIs ==
    ASSUME NEW c, IsChoice(c)
    PROVE  /\ Outfits!Without(c, "palette") = [c EXCEPT !.palette = Unknown]
           /\ Outfits!Without(c, "fit") = [c EXCEPT !.fit = Unknown]
           /\ Outfits!Without(c, "preferred") = [c EXCEPT !.saved = {}]
           /\ Outfits!Without(c, "favorite") = c
           /\ Outfits!Without(c, "occasion") = [c EXCEPT !.occasions = {}]
           /\ Outfits!Without(c, "liked") = [c EXCEPT !.events = Unrated(c, "like")]
           /\ Outfits!Without(c, "disliked") = [c EXCEPT !.events = Unrated(c, "dislike")]
           /\ Outfits!Without(c, "worn") = [c EXCEPT !.groups = <<>>]
  BY DEF Outfits!Without, Unrated

LEMMA WithoutIsChoice ==
    ASSUME NEW c, IsChoice(c), NEW field \in {"saved", "events", "groups", "occasions", "palette", "fit"},
           NEW new, field = "events" => new \in SUBSET c.events, field = "groups" => IsList(new)
    PROVE  LET d == [c EXCEPT ![field] = new]
           IN  /\ IsChoice(d) /\ d[field] = new
               /\ \A f \in DOMAIN c : f # field => d[f] = c[f]
  <1> DEFINE d == [c EXCEPT ![field] = new]
  <1>1. field \in DOMAIN c
    BY DEF IsChoice
  <1>2. /\ DOMAIN d = DOMAIN c /\ d[field] = new
        /\ \A f \in DOMAIN c : f # field => d[f] = c[f]
    BY <1>1
  <1> HIDE DEF d
  <1>3. d["wardrobe"] = c["wardrobe"] /\ d["looks"] = c["looks"]
    BY <1>2 DEF IsChoice
  <1>4. IsList(d["groups"])
    <2>1. CASE field = "groups"
      BY <1>2, <2>1
    <2>2. CASE field # "groups"
      BY <1>2, <2>2 DEF IsChoice
    <2> QED
      BY <2>1, <2>2
  <1>5. d["events"] \subseteq c["events"]
    <2>1. CASE field = "events"
      BY <1>2, <2>1
    <2>2. CASE field # "events"
      BY <1>2, <2>2 DEF IsChoice
    <2> QED
      BY <2>1, <2>2
  <1>6. IsChoice(d)
    BY <1>2, <1>3, <1>4, <1>5 DEF IsChoice
  <1> QED
    BY <1>2, <1>6 DEF d

(* An outfit none of whose garments is a favourite.                           *)
Plain(o) == {[x EXCEPT !.favorite = FALSE] : x \in o}

LEMMA PlainIs ==
    ASSUME NEW o, IsOutfit(o), \A x, y \in o : x.id = y.id => x = y
    PROVE  /\ IsOutfit(Plain(o)) /\ Outfits!Ids(Plain(o)) = Outfits!Ids(o)
           /\ Outfits!FavoritePoints(Plain(o)) = 0
           /\ \A c : Outfits!Compatibility(c, Plain(o)) = Outfits!Compatibility(c, o)
  <1> DEFINE m == [x \in o |-> [x EXCEPT !.favorite = FALSE]]
             p == Plain(o)
  <1>1. p = {m[x] : x \in o}
    BY DEF Plain
  <1>2. \A x \in o : /\ DOMAIN m[x] = {"id", "category", "color", "material", "fit", "favorite"}
                     /\ m[x].favorite = FALSE /\ m[x].id = x.id /\ m[x].category = x.category
                     /\ m[x].color = x.color /\ m[x].material = x.material /\ m[x].fit = x.fit
    <2> SUFFICES ASSUME NEW x \in o
                 PROVE  /\ DOMAIN m[x] = {"id", "category", "color", "material", "fit", "favorite"}
                        /\ m[x].favorite = FALSE /\ m[x].id = x.id /\ m[x].category = x.category
                        /\ m[x].color = x.color /\ m[x].material = x.material /\ m[x].fit = x.fit
      OBVIOUS
    <2>1. DOMAIN x = {"id", "category", "color", "material", "fit", "favorite"}
      BY DEF IsOutfit, IsGarment
    <2>2. m[x] = [x EXCEPT !.favorite = FALSE]
      OBVIOUS
    <2> HIDE DEF m
    <2> QED
      BY <2>1, <2>2
  <1>3. \A x \in o : IsGarment(m[x])
    BY <1>2 DEF IsOutfit, IsGarment
  <1>4. DOMAIN m = o
    OBVIOUS
  <1> HIDE DEF m, p
  <1>5. /\ Outfits!Ids(p) = Outfits!Ids(o) /\ CategoriesOf(p) = CategoriesOf(o)
        /\ {x.category : x \in p} = {x.category : x \in o}
        /\ {x.color : x \in p} = {x.color : x \in o}
        /\ {x.material : x \in p} = {x.material : x \in o}
        /\ {x.fit : x \in p} = {x.fit : x \in o}
    BY <1>1, <1>2 DEF Outfits!Ids, CategoriesOf
  <1>6. IsFiniteSet(p)
    <2>1. m \in Surjection(o, p)
      <3>1. \A x \in o : m[x] \in p
        BY <1>1
      <3>2. \A y \in p : \E x \in o : m[x] = y
        BY <1>1
      <3>3. m = [x \in o |-> m[x]]
        BY DEF m
      <3> QED
        BY <3>1, <3>2, <3>3 DEF Surjection
    <2> QED
      BY <2>1, FS_Surjection DEF IsOutfit
  <1>7. IsOutfit(p)
    <2>1. \A x \in p : IsGarment(x)
      BY <1>1, <1>3
    <2> QED
      BY <1>5, <1>6, <2>1 DEF IsOutfit
  <1>8. Outfits!FavoritePoints(p) = 0
    <2>1. \A x \in p : x.favorite = FALSE
      BY <1>1, <1>2
    <2> QED
      BY <1>7, <2>1, PreferenceIs
  <1>9. Outfits!ColorPoints(p) = Outfits!ColorPoints(o)
    <2> DEFINE S == {x \in o : x.color # Unknown}
               T == {x \in p : x.color # Unknown}
    <2>1. \A x \in S : x \in o /\ m[x] \in T /\ m[x].color = x.color
      BY <1>1, <1>2
    <2>2. \A y \in T : \E x \in S : m[x] = y
      BY <1>1, <1>2
    <2>3. \A x, y \in S : m[x] = m[y] => x = y
      <3> SUFFICES ASSUME NEW x \in S, NEW y \in S, m[x] = m[y] PROVE x = y
        OBVIOUS
      <3>1. x.id = y.id
        BY <1>2
      <3> QED
        BY <3>1
    <2>4. IsFiniteSet(S)
      <3>1. S \in SUBSET o
        OBVIOUS
      <3> HIDE DEF S
      <3> QED
        BY <3>1, FS_Subset DEF IsOutfit
    <2>5. /\ Outfits!ColorPoints(o) = IF Cardinality(S) < 2 THEN 0
                ELSE IF \E x, y \in S : x # y /\ x.color \notin Outfits!Neutral /\ y.color \notin Outfits!Neutral
                THEN -10 ELSE 5
          /\ Outfits!ColorPoints(p) = IF Cardinality(T) < 2 THEN 0
                ELSE IF \E x, y \in T : x # y /\ x.color \notin Outfits!Neutral /\ y.color \notin Outfits!Neutral
                THEN -10 ELSE 5
      BY OutfitCardinality DEF Outfits!ColorPoints
    <2> HIDE DEF S, T
    <2>6. Cardinality(T) = Cardinality(S)
      <3> DEFINE f == [x \in S |-> m[x]]
      <3>1. f \in Bijection(S, T)
        BY <2>1, <2>2, <2>3 DEF Bijection, Injection, Surjection, IsInjective
      <3> HIDE DEF f
      <3> QED
        BY <2>4, <3>1, FS_Bijection DEF ExistsBijection
    <2>7. (\E x, y \in T : x # y /\ x.color \notin Outfits!Neutral /\ y.color \notin Outfits!Neutral)
             <=> \E x, y \in S : x # y /\ x.color \notin Outfits!Neutral /\ y.color \notin Outfits!Neutral
      <3>1. ASSUME NEW x \in T, NEW y \in T, x # y, x.color \notin Outfits!Neutral, y.color \notin Outfits!Neutral
            PROVE  \E a, b \in S : a # b /\ a.color \notin Outfits!Neutral /\ b.color \notin Outfits!Neutral
        BY <2>1, <2>2, <3>1
      <3>2. ASSUME NEW x \in S, NEW y \in S, x # y, x.color \notin Outfits!Neutral, y.color \notin Outfits!Neutral
            PROVE  \E a, b \in T : a # b /\ a.color \notin Outfits!Neutral /\ b.color \notin Outfits!Neutral
        BY <2>1, <2>3, <3>2
      <3> QED
        BY <3>1, <3>2
    <2> QED
      BY <2>5, <2>6, <2>7
  <1>10. Outfits!MaterialPoints(p) = Outfits!MaterialPoints(o)
    BY <1>5 DEF Outfits!MaterialPoints, Outfits!Known, Outfits!Material
  <1>11. Outfits!SeasonPoints(p) = Outfits!SeasonPoints(o)
    BY <1>7, SeasonsMeet
  <1>12. Outfits!FormalityPoints(p) = Outfits!FormalityPoints(o)
    <2>1. UNION {Outfits!Registers(x.category) : x \in p} = UNION {Outfits!Registers(x.category) : x \in o}
      <3>1. {Outfits!Registers(x.category) : x \in p} = {Outfits!Registers(x.category) : x \in o}
        BY <1>1, <1>2
      <3> QED
        BY <3>1
    <2> QED
      BY <2>1 DEF Outfits!FormalityPoints
  <1>13. ASSUME NEW c PROVE /\ Outfits!OccasionPoints(c, p) = Outfits!OccasionPoints(c, o)
                            /\ Outfits!PalettePoints(c, p) = Outfits!PalettePoints(c, o)
                            /\ Outfits!FitPoints(c, p) = Outfits!FitPoints(c, o)
    <2>1. \A w : (\A x \in p : w \in Outfits!Occasions(x.category)) <=> \A x \in o : w \in Outfits!Occasions(x.category)
      BY <1>1, <1>2
    <2>2. Outfits!OccasionPoints(c, p) = Outfits!OccasionPoints(c, o)
      BY <2>1 DEF Outfits!OccasionPoints
    <2>3. /\ Outfits!PalettePoints(c, p) = Outfits!PalettePoints(c, o)
          /\ Outfits!FitPoints(c, p) = Outfits!FitPoints(c, o)
      BY <1>5 DEF Outfits!PalettePoints, Outfits!FitPoints, Outfits!Known, Outfits!Color, Outfits!Fit
    <2> QED
      BY <2>2, <2>3
  <1>14. \A c : Outfits!Compatibility(c, p) = Outfits!Compatibility(c, o)
    <2> SUFFICES ASSUME NEW c PROVE Outfits!Compatibility(c, p) = Outfits!Compatibility(c, o)
      OBVIOUS
    <2> QED
      BY <1>5, <1>9, <1>10, <1>11, <1>12, <1>13 DEF Outfits!Compatibility
  <1> QED
    BY <1>5, <1>7, <1>8, <1>14 DEF p

(* Each reason but those of what was said, and of favourites: what it speaks  *)
(* of is a term of the base, and the other terms are kept.                    *)
LEMMA ReasonAdds ==
    ASSUME NEW c, IsChoice(c), NEW o, IsOutfit(o),
           NEW reason \in {"palette", "fit", "preferred", "occasion", "worn"}, reason \in Outfits!Reasons(c, o)
    PROVE  LET d == Outfits!Without(c, reason)
           IN  /\ IsChoice(d) /\ Basis(d, o) < Basis(c, o)
               /\ Outfits!Feedback(d, o) = Outfits!Feedback(c, o)
  <1> DEFINE d == Outfits!Without(c, reason)
             held(field) == d[field] = c[field]
             points(e) == [palette   |-> Outfits!PalettePoints(e, o),
                           fit       |-> Outfits!FitPoints(e, o),
                           preferred |-> Outfits!PreferencePoints(e, o),
                           occasion  |-> Outfits!OccasionPoints(e, o),
                           worn      |-> Outfits!Wear(e, o)]
  <1>1. points(c)[reason] > 0
    BY DEF Outfits!Reasons
  <1>2. /\ IsChoice(d) /\ held("events") /\ held("looks")
        /\ IF reason = "palette" THEN d.palette = Unknown ELSE held("palette")
        /\ IF reason = "fit" THEN d.fit = Unknown ELSE held("fit")
        /\ IF reason = "preferred" THEN d.saved = {} ELSE held("saved")
        /\ IF reason = "occasion" THEN d.occasions = {} ELSE held("occasions")
        /\ IF reason = "worn" THEN d.groups = <<>> ELSE held("groups")
    <2> DEFINE as(field, new) == [c EXCEPT ![field] = new]
    <2>1. ASSUME NEW field \in {"saved", "groups", "occasions", "palette", "fit"}, NEW new,
                 field = "groups" => IsList(new), d = as(field, new)
          PROVE  IsChoice(d) /\ d[field] = new /\ \A f \in DOMAIN c : f # field => d[f] = c[f]
      <3>1. LET e == [c EXCEPT ![field] = new]
            IN  IsChoice(e) /\ e[field] = new /\ \A f \in DOMAIN c : f # field => e[f] = c[f]
        <4>1. field \in {"saved", "events", "groups", "occasions", "palette", "fit"} /\ field # "events"
          OBVIOUS
        <4>2. (field = "events" => new \in SUBSET c.events) /\ (field = "groups" => IsList(new))
          BY <2>1, <4>1
        <4> HIDE DEF d
        <4> QED
          BY <4>1, <4>2, WithoutIsChoice
      <3> HIDE DEF d
      <3> QED
        BY <2>1, <3>1
    <2>2. IsList(<<>>)
      BY DEF IsList
    <2>3. CASE reason = "palette"
      <3>1. d = as("palette", Unknown)
        BY <2>3, WithoutIs
      <3> HIDE DEF d
      <3> QED
        BY <2>1, <2>3, <3>1 DEF IsChoice
    <2>4. CASE reason = "fit"
      <3>1. d = as("fit", Unknown)
        BY <2>4, WithoutIs
      <3> HIDE DEF d
      <3> QED
        BY <2>1, <2>4, <3>1 DEF IsChoice
    <2>5. CASE reason = "preferred"
      <3>1. d = as("saved", {})
        BY <2>5, WithoutIs
      <3> HIDE DEF d
      <3> QED
        BY <2>1, <2>5, <3>1 DEF IsChoice
    <2>6. CASE reason = "occasion"
      <3>1. d = as("occasions", {})
        BY <2>6, WithoutIs
      <3> HIDE DEF d
      <3> QED
        BY <2>1, <2>6, <3>1 DEF IsChoice
    <2>7. CASE reason = "worn"
      <3>1. d = as("groups", <<>>)
        BY <2>7, WithoutIs
      <3> HIDE DEF d
      <3> QED
        BY <2>1, <2>2, <2>7, <3>1 DEF IsChoice
    <2> HIDE DEF d
    <2> QED
      BY <2>3, <2>4, <2>5, <2>6, <2>7
  <1> HIDE DEF d
  <1>3. Outfits!Feedback(d, o) = Outfits!Feedback(c, o)
    BY <1>2, FeedbackIsOf
  <1>4. IF reason = "palette" THEN Outfits!PalettePoints(d, o) = 0
        ELSE Outfits!PalettePoints(d, o) = Outfits!PalettePoints(c, o)
    <2>1. Outfits!Palette(Unknown) = {}
      BY PaletteAssumption DEF Outfits!Palette
    <2>2. ASSUME d.palette = Unknown PROVE Outfits!PalettePoints(d, o) = 0
      BY <2>1, <2>2 DEF Outfits!PalettePoints, Outfits!If
    <2>3. ASSUME held("palette") PROVE Outfits!PalettePoints(d, o) = Outfits!PalettePoints(c, o)
      BY <2>3 DEF Outfits!PalettePoints
    <2> QED
      BY <1>2, <2>2, <2>3
  <1>5. IF reason = "fit" THEN Outfits!FitPoints(d, o) = 0
        ELSE Outfits!FitPoints(d, o) = Outfits!FitPoints(c, o)
    <2>1. ASSUME d.fit = Unknown PROVE Outfits!FitPoints(d, o) = 0
      <3>1. Unknown \notin Outfits!Known(o, Outfits!Fit)
        BY DEF Outfits!Known
      <3>2. ~ (Outfits!Known(o, Outfits!Fit) # {} /\ Outfits!Known(o, Outfits!Fit) \subseteq {d.fit})
        BY <2>1, <3>1
      <3> QED
        BY <3>2 DEF Outfits!FitPoints, Outfits!If
    <2>2. ASSUME held("fit") PROVE Outfits!FitPoints(d, o) = Outfits!FitPoints(c, o)
      BY <2>2 DEF Outfits!FitPoints
    <2> QED
      BY <1>2, <2>1, <2>2
  <1>6. IF reason = "occasion" THEN Outfits!OccasionPoints(d, o) = 0
        ELSE Outfits!OccasionPoints(d, o) = Outfits!OccasionPoints(c, o)
    BY <1>2 DEF Outfits!OccasionPoints, Outfits!If
  <1>7. IF reason = "preferred" THEN Outfits!PreferencePoints(d, o) = 0
        ELSE Outfits!PreferencePoints(d, o) = Outfits!PreferencePoints(c, o)
    <2>1. held("saved") => Outfits!PreferencePoints(d, o) = Outfits!PreferencePoints(c, o)
      BY DEF Outfits!PreferencePoints
    <2>2. d.saved = {} => Outfits!PreferencePoints(d, o) = 0
      BY PreferenceIs
    <2> QED
      BY <1>2, <2>1, <2>2
  <1>8. IF reason = "worn" THEN Outfits!Wear(d, o) = 0 ELSE Outfits!Wear(d, o) = Outfits!Wear(c, o)
    <2>1. held("groups") => Outfits!Wear(d, o) = Outfits!Wear(c, o)
      BY DEF Outfits!Wear
    <2>2. d.groups = <<>> => Outfits!Wear(d, o) = 0
      <3>1. DOMAIN <<>> = {}
        OBVIOUS
      <3> QED
        BY <1>2, <3>1, WearIs
    <2> QED
      BY <1>2, <2>1, <2>2
  <1>9. Basis(d, o) < Basis(c, o)
    <2> DEFINE most == 7 * Outfits!Cardinality({x.category : x \in o}) + Outfits!ColorPoints(o)
                       + Outfits!MaterialPoints(o) + Outfits!SeasonPoints(o) + Outfits!FormalityPoints(o)
               base(e) == most + Outfits!OccasionPoints(e, o) + Outfits!PalettePoints(e, o) + Outfits!FitPoints(e, o)
                          + Outfits!PreferencePoints(e, o) + Outfits!FavoritePoints(o) + Outfits!Wear(e, o)
    <2>1. most \in Int
      <3>1. Outfits!ColorPoints(o) \in Int /\ Outfits!MaterialPoints(o) \in Int
        BY CompatibilityIs
      <3>2. Outfits!SeasonPoints(o) = 5
        BY SeasonsMeet
      <3>3. Outfits!FormalityPoints(o) \in {0, 5}
        BY DEF Outfits!FormalityPoints, Outfits!If
      <3>4. Outfits!Cardinality({x.category : x \in o}) \in Int
        <4>1. Outfits!Cardinality({x.category : x \in o}) = Cardinality(CategoriesOf(o))
          BY OutfitCardinality DEF CategoriesOf
        <4>2. Cardinality(CategoriesOf(o)) \in 2 .. 5
          BY CategoriesAreFew DEF IsOutfit
        <4> QED
          BY <4>1, <4>2
      <3> QED
        BY <3>1, <3>2, <3>3, <3>4
    <2>2. Basis(d, o) = base(d) /\ Basis(c, o) = base(c)
      BY DEF Basis, Outfits!Compatibility
    <2>3. /\ Outfits!OccasionPoints(c, o) \in Int /\ Outfits!PalettePoints(c, o) \in Int
          /\ Outfits!FitPoints(c, o) \in Int /\ Outfits!PreferencePoints(c, o) \in Int
          /\ Outfits!FavoritePoints(o) \in Int /\ Outfits!Wear(c, o) \in Int
      <3>1. Outfits!OccasionPoints(c, o) \in {-10, 0, 5} /\ Outfits!PalettePoints(c, o) \in {-10, 0, 5}
            /\ Outfits!FitPoints(c, o) \in {-10, 0, 5}
        BY CompatibilityIs
      <3>2. Outfits!PreferencePoints(c, o) \in 0 .. 15 /\ Outfits!FavoritePoints(o) \in 0 .. 15
        BY PreferenceIs
      <3>3. Outfits!Wear(c, o) \in 0 .. 2
        BY WearIs
      <3> QED
        BY <3>1, <3>2, <3>3
    <2> HIDE DEF most
    <2>4. CASE reason = "palette"
      BY <1>1, <1>4, <1>5, <1>6, <1>7, <1>8, <2>1, <2>2, <2>3, <2>4
    <2>5. CASE reason = "fit"
      BY <1>1, <1>4, <1>5, <1>6, <1>7, <1>8, <2>1, <2>2, <2>3, <2>5
    <2>6. CASE reason = "preferred"
      BY <1>1, <1>4, <1>5, <1>6, <1>7, <1>8, <2>1, <2>2, <2>3, <2>6
    <2>7. CASE reason = "occasion"
      BY <1>1, <1>4, <1>5, <1>6, <1>7, <1>8, <2>1, <2>2, <2>3, <2>7
    <2>8. CASE reason = "worn"
      BY <1>1, <1>4, <1>5, <1>6, <1>7, <1>8, <2>1, <2>2, <2>3, <2>8
    <2> QED
      BY <2>4, <2>5, <2>6, <2>7, <2>8
  <1> QED
    BY <1>2, <1>3, <1>9 DEF d

LEMMA FavoritesAdd ==
    ASSUME NEW c, IsChoice(c), NEW o, IsOutfit(o), \A x, y \in o : x.id = y.id => x = y,
           Outfits!FavoritePoints(o) > 0
    PROVE  /\ IsOutfit(Plain(o)) /\ Basis(c, Plain(o)) < Basis(c, o)
           /\ Outfits!Feedback(c, Plain(o)) = Outfits!Feedback(c, o)
  <1> DEFINE p == Plain(o)
  <1>1. /\ IsOutfit(p) /\ Outfits!Ids(p) = Outfits!Ids(o) /\ Outfits!FavoritePoints(p) = 0
        /\ Outfits!Compatibility(c, p) = Outfits!Compatibility(c, o)
    BY PlainIs
  <1> HIDE DEF p
  <1>2. \A points, others : Outfits!Total(points, p, others) = Outfits!Total(points, o, others)
    BY <1>1, TotalIsOf
  <1>3. Outfits!Feedback(c, p) = Outfits!Feedback(c, o)
    BY <1>2 DEF Outfits!Feedback
  <1>4. Outfits!Wear(c, p) = Outfits!Wear(c, o)
    BY <1>2 DEF Outfits!Wear
  <1>5. Outfits!PreferencePoints(c, p) = Outfits!PreferencePoints(c, o)
    BY <1>1 DEF Outfits!PreferencePoints
  <1>6. /\ Outfits!Compatibility(c, o) \in 9 .. 65 /\ Outfits!PreferencePoints(c, o) \in 0 .. 15
        /\ Outfits!Wear(c, o) \in 0 .. 2 /\ Outfits!FavoritePoints(o) \in 0 .. 15
    BY CompatibilityIs, PreferenceIs, WearIs
  <1>7. Basis(c, p) < Basis(c, o)
    <2>1. Basis(c, p) = Outfits!Compatibility(c, o) + Outfits!PreferencePoints(c, o) + 0 + Outfits!Wear(c, o)
      BY <1>1, <1>4, <1>5 DEF Basis
    <2>2. Basis(c, o) = Outfits!Compatibility(c, o) + Outfits!PreferencePoints(c, o) + Outfits!FavoritePoints(o)
                       + Outfits!Wear(c, o)
      BY DEF Basis
    <2> QED
      BY <1>6, <2>1, <2>2
  <1> QED
    BY <1>1, <1>3, <1>7 DEF p

LEMMA ReasonsEarned ==
    ASSUME NEW c, IsChoice(c)
    PROVE  Outfits!ReasonsAreEarned(c)
  <1> SUFFICES ASSUME NEW a \in Outfits!Candidates(c.wardrobe), NEW reason \in Outfits!Reasons(c, a)
               PROVE  LET outfit  == IF reason = "favorite" THEN Plain(a) ELSE a
                          without == Outfits!Score(Outfits!Without(c, reason), outfit)
                      IN  IF reason = "disliked" THEN Outfits!Score(c, a) < without \/ Outfits!Score(c, a) = 0
                          ELSE without < Outfits!Score(c, a) \/ Outfits!Score(c, a) = 100
    BY DEF Outfits!ReasonsAreEarned, Plain
  <1>1. IsOutfit(a) /\ a \in SUBSET c.wardrobe
    BY CandidatesAreOutfits DEF IsChoice
  <1>2. \A x, y \in a : x.id = y.id => x = y
    BY <1>1 DEF IsChoice, IsWardrobe
  <1>3. reason \in {"palette", "fit", "preferred", "favorite", "occasion", "liked", "disliked", "worn"}
    BY DEF Outfits!Reasons
  <1>4. CASE reason \in {"palette", "fit", "preferred", "occasion", "worn"}
    <2> DEFINE d == Outfits!Without(c, reason)
    <2>1. IsChoice(d) /\ Basis(d, a) < Basis(c, a) /\ Outfits!Feedback(d, a) = Outfits!Feedback(c, a)
      BY <1>1, <1>4, ReasonAdds
    <2> HIDE DEF d
    <2>2. Basis(d, a) + Outfits!Feedback(d, a) < Basis(c, a) + Outfits!Feedback(c, a)
      <3>1. Basis(d, a) \in 9 .. 97 /\ Basis(c, a) \in 9 .. 97 /\ Outfits!Feedback(c, a) \in -6 .. 6
        BY <1>1, <2>1, ScoreIs
      <3> QED
        BY <2>1, <3>1
    <2>3. Outfits!Score(d, a) < Outfits!Score(c, a) \/ Outfits!Score(c, a) = 100
      BY <1>1, <2>1, <2>2, ScoresLess
    <2> QED
      BY <1>4, <2>3 DEF d
  <1>5. CASE reason = "favorite"
    <2>1. Outfits!Without(c, reason) = c
      BY <1>5, WithoutIs
    <2>2. Outfits!FavoritePoints(a) > 0
      BY <1>5 DEF Outfits!Reasons
    <2>3. /\ IsOutfit(Plain(a)) /\ Basis(c, Plain(a)) < Basis(c, a)
          /\ Outfits!Feedback(c, Plain(a)) = Outfits!Feedback(c, a)
      BY <1>1, <1>2, <2>2, FavoritesAdd
    <2>4. Basis(c, Plain(a)) + Outfits!Feedback(c, Plain(a)) < Basis(c, a) + Outfits!Feedback(c, a)
      <3>1. Basis(c, Plain(a)) \in 9 .. 97 /\ Basis(c, a) \in 9 .. 97 /\ Outfits!Feedback(c, a) \in -6 .. 6
        BY <1>1, <2>3, ScoreIs
      <3> QED
        BY <2>3, <3>1
    <2>5. Outfits!Score(c, Plain(a)) < Outfits!Score(c, a) \/ Outfits!Score(c, a) = 100
      BY <1>1, <2>3, <2>4, ScoresLess
    <2> QED
      BY <1>5, <2>1, <2>5
  <1>6. ASSUME NEW rating \in {"like", "dislike"},
               Outfits!Without(c, reason) = [c EXCEPT !.events = Unrated(c, rating)]
        PROVE  LET d == Outfits!Without(c, reason)
               IN  IsChoice(d) /\ Outfits!Rated(d, rating) = {} /\ Basis(d, a) = Basis(c, a)
    <2> DEFINE d == Outfits!Without(c, reason)
    <2>1. Unrated(c, rating) \in SUBSET c.events
      BY DEF Unrated
    <2>2. LET e == [c EXCEPT !["events"] = Unrated(c, rating)]
          IN  /\ IsChoice(e) /\ e["events"] = Unrated(c, rating)
              /\ \A f \in DOMAIN c : f # "events" => e[f] = c[f]
      <3>1. "events" \in {"saved", "events", "groups", "occasions", "palette", "fit"} /\ "events" # "groups"
        OBVIOUS
      <3> QED
        BY <2>1, <3>1, WithoutIsChoice
    <2>3. /\ IsChoice(d) /\ d.events = Unrated(c, rating) /\ d.looks = c.looks /\ d.saved = c.saved
          /\ d.groups = c.groups /\ d.occasions = c.occasions /\ d.palette = c.palette /\ d.fit = c.fit
      BY <1>6, <2>2 DEF IsChoice
    <2> HIDE DEF d
    <2>4. Outfits!Rated(d, rating) = {}
      BY <2>3, UnratedIs DEF Unrated
    <2>5. Basis(d, a) = Basis(c, a)
      BY <2>3, BaseIsOf
    <2> QED
      BY <2>3, <2>4, <2>5 DEF d
  <1>7. CASE reason = "liked"
    <2> DEFINE d == Outfits!Without(c, reason)
    <2>1. IsChoice(d) /\ Outfits!Rated(d, "like") = {} /\ Basis(d, a) = Basis(c, a)
      BY <1>6, <1>7, WithoutIs
    <2>2. Outfits!Feedback(c, a) > 0
      BY <1>7 DEF Outfits!Reasons
    <2> HIDE DEF d
    <2>3. Outfits!Feedback(d, a) <= 0 /\ Outfits!Feedback(d, a) \in Int
      BY <2>1, FeedbackIs
    <2>4. Basis(d, a) + Outfits!Feedback(d, a) < Basis(c, a) + Outfits!Feedback(c, a)
      <3>1. Basis(c, a) \in 9 .. 97 /\ Outfits!Feedback(c, a) \in -6 .. 6
        BY <1>1, ScoreIs
      <3> QED
        BY <2>1, <2>2, <2>3, <3>1
    <2>5. Outfits!Score(d, a) < Outfits!Score(c, a) \/ Outfits!Score(c, a) = 100
      BY <1>1, <2>1, <2>4, ScoresLess
    <2> QED
      BY <1>7, <2>5 DEF d
  <1>8. CASE reason = "disliked"
    <2> DEFINE d == Outfits!Without(c, reason)
    <2>1. IsChoice(d) /\ Outfits!Rated(d, "dislike") = {} /\ Basis(d, a) = Basis(c, a)
      BY <1>6, <1>8, WithoutIs
    <2>2. Outfits!Feedback(c, a) < 0
      <3>1. - Outfits!Feedback(c, a) > 0
        BY <1>8 DEF Outfits!Reasons
      <3>2. Outfits!Feedback(c, a) \in -6 .. 6
        BY <1>1, ScoreIs
      <3> QED
        BY <3>1, <3>2
    <2> HIDE DEF d
    <2>3. Outfits!Feedback(d, a) >= 0
      BY <2>1, FeedbackIs
    <2>4. Outfits!Score(c, a) < Outfits!Score(d, a)
      BY <1>1, <2>1, <2>2, <2>3, DislikeCosts
    <2> QED
      BY <1>8, <2>4 DEF d
  <1> QED
    BY <1>3, <1>4, <1>5, <1>7, <1>8

-----------------------------------------------------------------------------
(* Rankings.                                                                  *)

LEMMA AdviceCardinality ==
    \A S : Advice!Cardinality(S) = Cardinality(S)
  BY DEF Advice!Cardinality, Cardinality

Engines == {Advice!Hairstyles, Advice!Grooming}

(* A catalog has four looks, each with a code of its own and its points.      *)
LEMMA CatalogOf ==
    ASSUME NEW engine \in Engines
    PROVE  /\ Len(engine.looks) = 4 /\ DOMAIN engine.looks = 1 .. 4
           /\ \A i, j \in 1 .. 4 : engine.looks[i].code = engine.looks[j].code => i = j
           /\ \A i \in 1 .. 4 : engine.looks[i].seed \in 0 .. 100
  <1>1. 1 .. 4 = {1, 2, 3, 4}
    OBVIOUS
  <1>2. CASE engine = Advice!Hairstyles
    BY <1>1, <1>2 DEF Advice!Hairstyles, Advice!Entry
  <1>3. CASE engine = Advice!Grooming
    BY <1>1, <1>3 DEF Advice!Grooming, Advice!Entry
  <1> QED
    BY <1>2, <1>3 DEF Engines

LEMMA BoostsAreNumbers ==
    ASSUME NEW engine \in Engines, NEW i \in 1 .. 4, NEW face
    PROVE  Advice!Boost(engine.looks[i], face) \in 0 .. 12
  <1>1. i \in {1, 2, 3, 4}
    OBVIOUS
  <1>2. CASE engine = Advice!Hairstyles
    <2>1. engine.looks[i] \in {engine.looks[1], engine.looks[2], engine.looks[3], engine.looks[4]}
      BY <1>1
    <2> QED
      BY <1>2, <2>1 DEF Advice!Hairstyles, Advice!Entry, Advice!Boost
  <1>3. CASE engine = Advice!Grooming
    <2>1. engine.looks[i] \in {engine.looks[1], engine.looks[2], engine.looks[3], engine.looks[4]}
      BY <1>1
    <2> QED
      BY <1>3, <2>1 DEF Advice!Grooming, Advice!Entry, Advice!Boost
  <1> QED
    BY <1>2, <1>3 DEF Engines

LEMMA ScoresAreNumbers ==
    ASSUME NEW engine \in Engines, NEW i \in 1 .. 4, NEW r
    PROVE  Advice!Score(engine, r, engine.looks[i]) \in Int
  <1>1. engine.looks[i].seed \in Int /\ Advice!Boost(engine.looks[i], Advice!FaceShape(r)) \in Int
    <2>1. engine.looks[i].seed \in 0 .. 100
      BY CatalogOf
    <2>2. \A face : Advice!Boost(engine.looks[i], face) \in 0 .. 12
      BY BoostsAreNumbers
    <2> QED
      BY <2>1, <2>2
  <1> QED
    BY <1>1 DEF Advice!Score, Advice!ScoreGrooming, Advice!ScoreHairstyle, Advice!Capped, Advice!If

(* Whatever numbers order a set of places, equals by their place, each place  *)
(* has its rank.                                                              *)
Prior(p, i, j) == p[i] > p[j] \/ (p[i] = p[j] /\ i < j)

Ahead(P, p, i) == {j \in P : Prior(p, j, i)}

Placed(P, p) == [n \in 1 .. Cardinality(P) |-> CHOOSE i \in P : Cardinality(Ahead(P, p, i)) = n - 1]

LEMMA PlacesRank ==
    ASSUME NEW P \in SUBSET Int, IsFiniteSet(P), NEW p, \A i \in P : p[i] \in Int
    PROVE  /\ Cardinality(P) \in Nat
           /\ \A i \in P : /\ IsFiniteSet(Ahead(P, p, i)) /\ Cardinality(Ahead(P, p, i)) \in 0 .. Cardinality(P) - 1
                           /\ Placed(P, p)[Cardinality(Ahead(P, p, i)) + 1] = i
           /\ \A i, j \in P : Prior(p, i, j) <=> Cardinality(Ahead(P, p, i)) < Cardinality(Ahead(P, p, j))
           /\ \A n \in 1 .. Cardinality(P) : /\ Placed(P, p)[n] \in P
                                             /\ Cardinality(Ahead(P, p, Placed(P, p)[n])) = n - 1
  <1> DEFINE R == {x \in P \X P : Prior(p, x[1], x[2])}
             rank(i) == Cardinality(Ahead(P, p, i))
             size == Cardinality(P)
  <1>1. \A i, j \in P : <<i, j>> \in R <=> Prior(p, i, j)
    OBVIOUS
  <1>2. /\ \A x \in P : <<x, x>> \notin R
        /\ \A x, y \in P : x = y \/ <<x, y>> \in R \/ <<y, x>> \in R
        /\ \A x, y, z \in P : <<x, y>> \in R /\ <<y, z>> \in R => <<x, z>> \in R
    <2> HIDE DEF R
    <2> QED
      BY <1>1 DEF Prior
  <1> HIDE DEF R
  <1>3. \A x \in P : Orders!Under(P, R, x) = Ahead(P, p, x)
    BY <1>1 DEF Orders!Under, Ahead
  <1>4. /\ size \in Nat
        /\ \A x \in P : rank(x) \in Nat /\ rank(x) < size
        /\ \A x, y \in P : <<x, y>> \in R <=> rank(x) < rank(y)
        /\ \A n \in 1 .. size : \E x \in P : rank(x) = n - 1
    <2>1. /\ Orders!Cardinality(P) \in Nat
          /\ \A x \in P : /\ Orders!Cardinality(Orders!Under(P, R, x)) \in Nat
                          /\ Orders!Cardinality(Orders!Under(P, R, x)) < Orders!Cardinality(P)
          /\ \A x, y \in P : <<x, y>> \in R <=> Orders!Cardinality(Orders!Under(P, R, x)) < Orders!Cardinality(Orders!Under(P, R, y))
          /\ \A n \in 1 .. Orders!Cardinality(P) : \E x \in P : Orders!Cardinality(Orders!Under(P, R, x)) = n - 1
      BY <1>2, OrdersFinite, Orders!Ranks
    <2> QED
      BY <1>3, <2>1, OrdersFinite
  <1>5. \A x \in P : IsFiniteSet(Ahead(P, p, x))
    BY FS_Subset DEF Ahead
  <1> DEFINE q == Placed(P, p)
  <1>6. \A n \in 1 .. size : q[n] = CHOOSE i \in P : rank(i) = n - 1
    BY DEF Placed
  <1> HIDE DEF rank, size, q
  <1>7. \A n \in 1 .. size : q[n] \in P /\ rank(q[n]) = n - 1
    <2> TAKE n \in 1 .. size
    <2>1. \E x \in P : rank(x) = n - 1
      BY <1>4
    <2> QED
      BY <1>6, <2>1
  <1>8. ASSUME NEW x \in P PROVE rank(x) + 1 \in 1 .. size /\ q[rank(x) + 1] = x
    <2>1. rank(x) + 1 \in 1 .. size /\ (rank(x) + 1) - 1 = rank(x)
      BY <1>4
    <2> DEFINE y == q[rank(x) + 1]
    <2>2. y \in P /\ rank(y) = rank(x)
      BY <1>7, <2>1
    <2> HIDE DEF y
    <2>3. y = x
      BY <1>2, <1>4, <2>2
    <2> QED
      BY <2>1, <2>3 DEF y
  <1>9. \A i, j \in P : Prior(p, i, j) <=> rank(i) < rank(j)
    BY <1>1, <1>4
  <1>10. \A i \in P : rank(i) \in 0 .. size - 1
    BY <1>4
  <1> QED
    BY <1>4, <1>5, <1>7, <1>8, <1>9, <1>10 DEF rank, size, q

(* Without one of them, those behind it come one place sooner.                *)
ClosesUp(P, p, n) ==
    LET Q == P \ {Placed(P, p)[n]}
    IN  /\ Q \in SUBSET Int /\ IsFiniteSet(Q) /\ Cardinality(Q) = Cardinality(P) - 1
        /\ \A m \in 1 .. Cardinality(P) - 1 :
              Placed(Q, p)[m] = Placed(P, p)[IF m < n THEN m ELSE m + 1]

LEMMA RankWithout ==
    ASSUME NEW P \in SUBSET Int, IsFiniteSet(P), NEW p, \A i \in P : p[i] \in Int,
           NEW n \in 1 .. Cardinality(P)
    PROVE  ClosesUp(P, p, n)
  <1> DEFINE q == Placed(P, p)
             i == q[n]
             Q == P \ {i}
             size == Cardinality(P)
  <1>1. /\ size \in Nat
        /\ \A j \in P : IsFiniteSet(Ahead(P, p, j)) /\ Cardinality(Ahead(P, p, j)) \in 0 .. size - 1
        /\ \A j, k \in P : Prior(p, j, k) <=> Cardinality(Ahead(P, p, j)) < Cardinality(Ahead(P, p, k))
        /\ \A m \in 1 .. size : q[m] \in P /\ Cardinality(Ahead(P, p, q[m])) = m - 1
    BY PlacesRank
  <1>2. i \in P /\ Cardinality(Ahead(P, p, i)) = n - 1
    BY <1>1
  <1> HIDE DEF q, i
  <1>3. IsFiniteSet(Q) /\ Cardinality(Q) = size - 1 /\ Q \in SUBSET Int
    BY <1>2, FS_RemoveElement
  <1>4. ASSUME NEW m \in 1 .. size - 1
        PROVE  Placed(Q, p)[m] = q[IF m < n THEN m ELSE m + 1]
    <2> DEFINE k == IF m < n THEN m ELSE m + 1
               j == q[k]
    <2>1. k \in 1 .. size /\ k # n
      BY <1>1
    <2> HIDE DEF k
    <2>2. j \in P /\ Cardinality(Ahead(P, p, j)) = k - 1 /\ IsFiniteSet(Ahead(P, p, j))
      BY <1>1, <2>1
    <2> HIDE DEF j
    <2>3. j # i /\ j \in Q
      BY <1>2, <2>1, <2>2
    <2>4. Ahead(Q, p, j) = Ahead(P, p, j) \ {i}
      BY DEF Ahead
    <2>5. i \in Ahead(P, p, j) <=> n < k
      <3>1. i \in Ahead(P, p, j) <=> Prior(p, i, j)
        BY <1>2 DEF Ahead
      <3> QED
        BY <1>1, <1>2, <2>1, <2>2, <3>1
    <2>6. Cardinality(Ahead(Q, p, j)) = m - 1
      <3>1. CASE n < k
        <4>1. i \in Ahead(P, p, j)
          BY <2>5, <3>1
        <4> DEFINE A == Ahead(P, p, j)
        <4>2. Cardinality(A \ {i}) = Cardinality(A) - 1
          <5> HIDE DEF A
          <5>1. i \in A /\ IsFiniteSet(A)
            BY <2>2, <4>1 DEF A
          <5> QED
            BY <5>1, FS_RemoveElement
        <4>3. Cardinality(A) = m
          <5>1. k = m + 1
            BY <1>1, <3>1 DEF k
          <5>2. m \in Int
            OBVIOUS
          <5> HIDE DEF A
          <5>3. Cardinality(A) = k - 1
            BY <2>2 DEF A
          <5> QED
            BY <5>1, <5>2, <5>3
        <4> HIDE DEF A
        <4>4. Cardinality(A \ {i}) = m - 1
          BY <4>2, <4>3
        <4> QED
          BY <2>4, <4>4 DEF A
      <3>2. CASE ~ (n < k)
        <4>1. Ahead(P, p, j) \ {i} = Ahead(P, p, j)
          BY <2>5, <3>2
        <4>2. k = m
          BY <1>1, <2>1, <3>2 DEF k
        <4> QED
          BY <2>2, <2>4, <4>1, <4>2
      <3> QED
        BY <3>1, <3>2
    <2>7. Placed(Q, p)[Cardinality(Ahead(Q, p, j)) + 1] = j
      <3>1. \A x \in Q : p[x] \in Int
        OBVIOUS
      <3> HIDE DEF Q
      <3> QED
        BY <1>3, <2>3, <3>1, PlacesRank
    <2>8. (m - 1) + 1 = m
      OBVIOUS
    <2> QED
      BY <2>6, <2>7, <2>8 DEF j, k
  <1> QED
    BY <1>3, <1>4 DEF ClosesUp, i, q

(* What remains of a catalog, and its points.                                 *)
PointsOf(engine, r) == [i \in 1 .. 4 |-> Advice!Score(engine, r, engine.looks[i])]

LEMMA RankingIs ==
    ASSUME NEW engine \in Engines, NEW r
    PROVE  LET P == Advice!Remaining(engine, r)
               p == PointsOf(engine, r)
           IN  /\ P \in SUBSET (1 .. 4) /\ P \in SUBSET Int /\ IsFiniteSet(P) /\ Cardinality(P) \in Nat
               /\ \A i \in P : p[i] \in Int
               /\ Advice!Ranked(engine, r) = Placed(P, p) /\ DOMAIN Placed(P, p) = 1 .. Cardinality(P)
               /\ Len(Placed(P, p)) = Cardinality(P)
               /\ P # {} <=> Advice!Ranked(engine, r) # <<>>
               /\ P # {} => Advice!Recommended(engine, r) =
                     [looks |-> [n \in 1 .. Cardinality(P) |-> engine.looks[Placed(P, p)[n]].code],
                      confidence |-> Advice!Confidence(engine, r), needsMore |-> r.signals < 4]
  <1> DEFINE P == Advice!Remaining(engine, r)
             p == PointsOf(engine, r)
  <1>1. P \in SUBSET (1 .. 4)
    BY CatalogOf DEF Advice!Remaining
  <1>2. P \in SUBSET Int /\ IsFiniteSet(P) /\ Cardinality(P) \in Nat
    <2>1. IsFiniteSet(1 .. 4)
      <3>1. 1 \in Int /\ 4 \in Int
        OBVIOUS
      <3> QED
        BY <3>1, FS_Interval
    <2> HIDE DEF P
    <2>2. IsFiniteSet(P)
      BY <1>1, <2>1, FS_Subset
    <2>3. P \in SUBSET Int
      BY <1>1
    <2> QED
      BY <2>2, <2>3, FS_CardinalityType
  <1>3. \A i \in 1 .. 4 : p[i] = Advice!Score(engine, r, engine.looks[i]) /\ p[i] \in Int
    BY ScoresAreNumbers DEF PointsOf
  <1>4. \A i, j \in 1 .. 4 : Advice!Ahead(engine, r, i, j) <=> Prior(p, i, j)
    <2> HIDE DEF p
    <2> QED
      BY <1>3 DEF Advice!Ahead, Prior
  <1>5. \A i \in P : {j \in P : Advice!Ahead(engine, r, j, i)} = Ahead(P, p, i)
    <2> HIDE DEF P, p
    <2> QED
      BY <1>1, <1>4 DEF Ahead
  <1>6. Advice!Ranked(engine, r) = Placed(P, p)
    <2>1. Advice!Ranked(engine, r) =
            [n \in 1 .. Cardinality(P) |-> CHOOSE i \in P : Cardinality({j \in P : Advice!Ahead(engine, r, j, i)}) = n - 1]
      <3> DEFINE other(n) == CHOOSE i \in P : Advice!Cardinality({j \in P : Advice!Ahead(engine, r, j, i)}) = n - 1
                 one(n) == CHOOSE i \in P : Cardinality({j \in P : Advice!Ahead(engine, r, j, i)}) = n - 1
      <3>2. \A n : other(n) = one(n)
        BY AdviceCardinality
      <3>3. Advice!Cardinality(P) = Cardinality(P)
        BY AdviceCardinality
      <3>4. Advice!Ranked(engine, r) =
              [n \in 1 .. Advice!Cardinality(P) |->
                  CHOOSE i \in P : Advice!Cardinality({j \in P : Advice!Ahead(engine, r, j, i)}) = n - 1]
        BY DEF Advice!Ranked
      <3>5. Advice!Ranked(engine, r) = [n \in 1 .. Cardinality(P) |-> other(n)]
        <4> HIDE DEF P
        <4> QED
          BY <3>3, <3>4
      <3>6. [n \in 1 .. Cardinality(P) |-> other(n)] = [n \in 1 .. Cardinality(P) |-> one(n)]
        <4> HIDE DEF other, one
        <4> QED
          BY <3>2
      <3> QED
        BY <3>5, <3>6
    <2>2. \A n : (CHOOSE i \in P : Cardinality({j \in P : Advice!Ahead(engine, r, j, i)}) = n - 1)
                   = (CHOOSE i \in P : Cardinality(Ahead(P, p, i)) = n - 1)
      <3> HIDE DEF P, p
      <3> QED
        BY <1>5
    <2> HIDE DEF P, p
    <2> QED
      BY <2>1, <2>2 DEF Placed
  <1>7. DOMAIN Placed(P, p) = 1 .. Cardinality(P) /\ Len(Placed(P, p)) = Cardinality(P)
    <2> HIDE DEF P, p
    <2> QED
      BY <1>2 DEF Placed
  <1>8. P # {} <=> Placed(P, p) # <<>>
    <2> HIDE DEF P, p
    <2>1. P # {} <=> Cardinality(P) # 0
      BY <1>2, FS_EmptySet
    <2>2. Cardinality(P) # 0 => 1 \in DOMAIN Placed(P, p)
      BY <1>2, <1>7
    <2>3. Cardinality(P) = 0 => Placed(P, p) = <<>>
      BY <1>2 DEF Placed
    <2> QED
      BY <2>1, <2>2, <2>3
  <1>9. P # {} => Advice!Recommended(engine, r) =
                     [looks |-> [n \in 1 .. Cardinality(P) |-> engine.looks[Placed(P, p)[n]].code],
                      confidence |-> Advice!Confidence(engine, r), needsMore |-> r.signals < 4]
    <2> HIDE DEF P, p
    <2> QED
      BY <1>6, <1>7, <1>8 DEF Advice!Recommended
  <1> HIDE DEF P, p
  <1>10. \A i \in P : p[i] \in Int
    BY <1>1, <1>3
  <1> QED
    BY <1>1, <1>2, <1>6, <1>7, <1>8, <1>9, <1>10 DEF P, p

(* What is asked of a ranking.                                                *)
IsAsked(r) == DOMAIN r = {"face", "signals", "preferred", "excluded", "saved"} /\ r.signals \in Nat

LEMMA CodesDiffer ==
    ASSUME NEW engine \in Engines, NEW P \in SUBSET (1 .. 4), NEW p, NEW N, NEW n \in 1 .. N, N \in Nat,
           \A m \in 1 .. N : Placed(P, p)[m] \in P /\ Cardinality(Ahead(P, p, Placed(P, p)[m])) = m - 1
    PROVE  \A m \in 1 .. N : engine.looks[Placed(P, p)[m]].code = engine.looks[Placed(P, p)[n]].code => m = n
  <1> DEFINE q == Placed(P, p)
  <1>1. \A m \in 1 .. N : q[m] \in 1 .. 4 /\ Cardinality(Ahead(P, p, q[m])) = m - 1
    OBVIOUS
  <1> HIDE DEF q
  <1> SUFFICES ASSUME NEW m \in 1 .. N, engine.looks[q[m]].code = engine.looks[q[n]].code PROVE m = n
    BY DEF q
  <1>2. q[m] = q[n]
    BY <1>1, CatalogOf
  <1>3. m - 1 = n - 1
    BY <1>1, <1>2
  <1> QED
    BY <1>3

LEMMA LikedKeepsItsPlace ==
    ASSUME NEW engine \in Engines, NEW r, IsAsked(r), Advice!Recommended(engine, r) # Unknown,
           NEW n \in DOMAIN Advice!Recommended(engine, r).looks
    PROVE  LET code == Advice!Recommended(engine, r).looks[n]
           IN  Advice!Place(engine, [r EXCEPT !.preferred = @ \cup {code}], code) <= n
  <1> DEFINE P == Advice!Remaining(engine, r)
             p == PointsOf(engine, r)
             size == Cardinality(P)
             q == Placed(P, p)
             code == Advice!Recommended(engine, r).looks[n]
             rr == [r EXCEPT !.preferred = @ \cup {code}]
             pp == PointsOf(engine, rr)
             qq == Placed(P, pp)
  <1>1. /\ P \in SUBSET (1 .. 4) /\ P \in SUBSET Int /\ IsFiniteSet(P) /\ size \in Nat
        /\ \A i \in P : p[i] \in Int
        /\ P # {} <=> Advice!Ranked(engine, r) # <<>>
        /\ P # {} => Advice!Recommended(engine, r) =
                     [looks |-> [m \in 1 .. size |-> engine.looks[q[m]].code],
                      confidence |-> Advice!Confidence(engine, r), needsMore |-> r.signals < 4]
    BY RankingIs
  <1>2. P # {}
    <2> HIDE DEF P
    <2> QED
      BY <1>1 DEF Advice!Recommended
  <1>3. n \in 1 .. size /\ code = engine.looks[q[n]].code
    <2> HIDE DEF P, q, size
    <2> QED
      BY <1>1, <1>2
  <1>4. /\ rr.face = r.face /\ rr.signals = r.signals /\ rr.excluded = r.excluded /\ rr.saved = r.saved
        /\ rr.preferred = r.preferred \cup {code}
    <2> HIDE DEF code
    <2> QED
      BY DEF IsAsked
  <1> HIDE DEF rr, code
  <1>5. Advice!Remaining(engine, rr) = P
    BY <1>4 DEF Advice!Remaining
  <1>6. /\ \A i \in P : pp[i] \in Int
        /\ Advice!Recommended(engine, rr).looks = [m \in 1 .. size |-> engine.looks[qq[m]].code]
    <2> DEFINE R == Advice!Remaining(engine, rr)
               listed(S) == [m \in 1 .. Cardinality(S) |-> engine.looks[Placed(S, pp)[m]].code]
    <2>1. R # {} => Advice!Recommended(engine, rr) =
                [looks |-> listed(R), confidence |-> Advice!Confidence(engine, rr), needsMore |-> rr.signals < 4]
      BY RankingIs
    <2>2. \A i \in R : pp[i] \in Int
      BY RankingIs
    <2>3. R = P
      BY <1>5
    <2>4. [m \in 1 .. size |-> engine.looks[qq[m]].code] = listed(P)
      OBVIOUS
    <2> HIDE DEF P, pp, qq, size, R, listed
    <2>5. Advice!Recommended(engine, rr).looks = listed(P)
      BY <1>2, <2>1, <2>3
    <2> QED
      BY <2>2, <2>3, <2>4, <2>5
  <1>7. \A m \in 1 .. size : q[m] \in P /\ Cardinality(Ahead(P, p, q[m])) = m - 1
    BY <1>1, PlacesRank
  <1> DEFINE i == q[n]
  <1>8. i \in P /\ i \in 1 .. 4 /\ Cardinality(Ahead(P, p, i)) = n - 1 /\ code = engine.looks[i].code
    <2> HIDE DEF P, q, size
    <2> QED
      BY <1>1, <1>3, <1>7
  <1>9. \A j \in 1 .. 4 : j # i => pp[j] = p[j]
    <2> SUFFICES ASSUME NEW j \in 1 .. 4, j # i PROVE pp[j] = p[j]
      OBVIOUS
    <2>1. engine.looks[j].code # code
      BY <1>8, CatalogOf
    <2>2. Advice!Score(engine, rr, engine.looks[j]) = Advice!Score(engine, r, engine.looks[j])
      <3>1. Advice!If(engine.looks[j].code \in rr.preferred, 3) = Advice!If(engine.looks[j].code \in r.preferred, 3)
        BY <1>4, <2>1 DEF Advice!If
      <3> QED
        BY <1>4, <3>1 DEF Advice!Score, Advice!ScoreGrooming, Advice!ScoreHairstyle, Advice!FaceShape
    <2> QED
      BY <2>2 DEF PointsOf
  <1>10. pp[i] >= p[i]
    <2>1. Advice!If(engine.looks[i].code \in rr.preferred, 3) = 3
          /\ Advice!If(engine.looks[i].code \in r.preferred, 3) \in {0, 3}
          /\ Advice!If(engine.looks[i].code \in r.saved, 3) \in {0, 3}
      BY <1>4, <1>8 DEF Advice!If
    <2>2. engine.looks[i].seed \in Int /\ Advice!Boost(engine.looks[i], Advice!FaceShape(r)) \in Int
      <3>1. engine.looks[i].seed \in 0 .. 100
        BY <1>8, CatalogOf
      <3>2. \A face : Advice!Boost(engine.looks[i], face) \in 0 .. 12
        BY <1>8, BoostsAreNumbers
      <3> QED
        BY <3>1, <3>2
    <2>3. Advice!FaceShape(rr) = Advice!FaceShape(r)
      BY <1>4 DEF Advice!FaceShape
    <2> HIDE DEF i
    <2>4. Advice!Score(engine, rr, engine.looks[i]) >= Advice!Score(engine, r, engine.looks[i])
      BY <1>4, <2>1, <2>2, <2>3 DEF Advice!Score, Advice!ScoreGrooming, Advice!ScoreHairstyle, Advice!Capped
    <2> QED
      BY <1>8, <2>4 DEF PointsOf
  <1> HIDE DEF P, p, pp, q, qq, i, size
  <1>11. Ahead(P, pp, i) \subseteq Ahead(P, p, i)
    <2> SUFFICES ASSUME NEW j \in P, Prior(pp, j, i) PROVE Prior(p, j, i)
      BY DEF Ahead
    <2>1. j # i
      BY <1>6, <1>8 DEF Prior
    <2>2. pp[j] = p[j] /\ p[j] \in Int /\ p[i] \in Int /\ pp[i] \in Int
      BY <1>1, <1>6, <1>8, <1>9, <2>1
    <2> QED
      BY <1>10, <2>2 DEF Prior
  <1> DEFINE m == Cardinality(Ahead(P, pp, i)) + 1
  <1>12. /\ Cardinality(Ahead(P, pp, i)) \in 0 .. size - 1 /\ qq[m] = i
         /\ \A k \in 1 .. size : qq[k] \in P /\ Cardinality(Ahead(P, pp, qq[k])) = k - 1
    BY <1>1, <1>6, <1>8, PlacesRank DEF size, qq
  <1>13. m \in 1 .. size /\ m <= n
    <2>1. Cardinality(Ahead(P, pp, i)) <= Cardinality(Ahead(P, p, i))
      <3>1. IsFiniteSet(Ahead(P, p, i))
        BY <1>1, <1>8, PlacesRank
      <3> QED
        BY <1>11, <3>1, FS_Subset
    <2> QED
      BY <1>1, <1>3, <1>8, <1>12, <2>1
  <1> HIDE DEF m
  <1>14. Advice!Place(engine, rr, code) = m
    <2>1. \A k \in 1 .. size : engine.looks[qq[k]].code = engine.looks[qq[m]].code => k = m
      BY <1>1, <1>12, <1>13, CodesDiffer DEF qq
    <2>2. DOMAIN Advice!Recommended(engine, rr).looks = 1 .. size
          /\ \A k \in 1 .. size : Advice!Recommended(engine, rr).looks[k] = engine.looks[qq[k]].code
      BY <1>6
    <2>3. \A k \in 1 .. size : Advice!Recommended(engine, rr).looks[k] = code <=> k = m
      BY <1>8, <1>12, <1>13, <2>1, <2>2
    <2> QED
      BY <1>13, <2>2, <2>3 DEF Advice!Place
  <1> QED
    BY <1>13, <1>14 DEF rr, code

LEMMA ExcludedLeavesTheOrder ==
    ASSUME NEW engine \in Engines, NEW r, IsAsked(r), Advice!Recommended(engine, r) # Unknown,
           Len(Advice!Recommended(engine, r).looks) > 1,
           NEW n \in DOMAIN Advice!Recommended(engine, r).looks
    PROVE  LET looks == Advice!Recommended(engine, r).looks
               without == Advice!Recommended(engine, [r EXCEPT !.excluded = @ \cup {looks[n]}])
           IN  /\ without.looks = [m \in 1 .. Len(looks) - 1 |-> looks[IF m < n THEN m ELSE m + 1]]
               /\ n = 2 => without.confidence >= Advice!Recommended(engine, r).confidence
  <1> DEFINE P == Advice!Remaining(engine, r)
             p == PointsOf(engine, r)
             size == Cardinality(P)
             q == Placed(P, p)
             looks == Advice!Recommended(engine, r).looks
             code == looks[n]
             rr == [r EXCEPT !.excluded = @ \cup {code}]
             Q == P \ {q[n]}
             qq == Placed(Q, p)
  <1>1. /\ P \in SUBSET (1 .. 4) /\ P \in SUBSET Int /\ IsFiniteSet(P) /\ size \in Nat
        /\ \A i \in P : p[i] \in Int
        /\ Advice!Ranked(engine, r) = q /\ Len(q) = size /\ DOMAIN q = 1 .. size
        /\ P # {} <=> Advice!Ranked(engine, r) # <<>>
        /\ P # {} => Advice!Recommended(engine, r) =
                     [looks |-> [m \in 1 .. size |-> engine.looks[q[m]].code],
                      confidence |-> Advice!Confidence(engine, r), needsMore |-> r.signals < 4]
    BY RankingIs
  <1>2. P # {}
    <2> HIDE DEF P
    <2> QED
      BY <1>1 DEF Advice!Recommended
  <1>3. /\ looks = [m \in 1 .. size |-> engine.looks[q[m]].code]
        /\ Advice!Recommended(engine, r).confidence = Advice!Confidence(engine, r)
    <2> HIDE DEF P, q, size
    <2> QED
      BY <1>1, <1>2
  <1>4. Len(looks) = size /\ n \in 1 .. size /\ code = engine.looks[q[n]].code /\ size > 1
    <2>1. Len(looks) = size /\ DOMAIN looks = 1 .. size
      <3> HIDE DEF looks, size, q
      <3> QED
        BY <1>1, <1>3
    <2>2. n \in 1 .. size
      BY <2>1
    <2>3. looks[n] = engine.looks[q[n]].code
      <3> HIDE DEF looks, size, q
      <3> QED
        BY <1>3, <2>2
    <2> QED
      BY <2>1, <2>2, <2>3
  <1>5. /\ rr.face = r.face /\ rr.signals = r.signals /\ rr.preferred = r.preferred /\ rr.saved = r.saved
        /\ rr.excluded = r.excluded \cup {code}
    <2> HIDE DEF code
    <2> QED
      BY DEF IsAsked
  <1> HIDE DEF rr, code, looks
  <1>6. \A m \in 1 .. size : q[m] \in P /\ Cardinality(Ahead(P, p, q[m])) = m - 1
    BY <1>1, PlacesRank
  <1>7. q[n] \in P /\ q[n] \in 1 .. 4
    <2> HIDE DEF P, q, size
    <2> QED
      BY <1>1, <1>4, <1>6
  <1>8. Advice!Remaining(engine, rr) = Q
    <2> DEFINE i == q[n]
    <2>1. \A j \in 1 .. 4 : engine.looks[j].code = code <=> j = i
      BY <1>4, <1>7, CatalogOf
    <2>2. DOMAIN engine.looks = 1 .. 4
      BY CatalogOf
    <2> HIDE DEF q, i
    <2>3. P = {j \in 1 .. 4 : engine.looks[j].code \notin r.excluded}
      BY <2>2 DEF Advice!Remaining
    <2>4. Advice!Remaining(engine, rr) = {j \in 1 .. 4 : engine.looks[j].code \notin rr.excluded}
      BY <2>2 DEF Advice!Remaining
    <2> HIDE DEF P
    <2> QED
      BY <1>5, <2>1, <2>3, <2>4 DEF i
  <1>9. /\ PointsOf(engine, rr) = p
        /\ \A look : Advice!Score(engine, rr, look) = Advice!Score(engine, r, look)
    <2>1. \A look : Advice!Score(engine, rr, look) = Advice!Score(engine, r, look)
      BY <1>5 DEF Advice!Score, Advice!ScoreGrooming, Advice!ScoreHairstyle, Advice!FaceShape
    <2> QED
      BY <2>1 DEF PointsOf
  <1>10. /\ IsFiniteSet(Q) /\ Cardinality(Q) = size - 1
         /\ \A m \in 1 .. size - 1 : qq[m] = q[IF m < n THEN m ELSE m + 1]
    <2>1. n \in 1 .. Cardinality(P)
      BY <1>4
    <2>2. P \in SUBSET Int /\ IsFiniteSet(P) /\ \A i \in P : p[i] \in Int
      BY <1>1
    <2> HIDE DEF P, p, q, Q, qq, size
    <2>3. ClosesUp(P, p, n)
      BY <2>1, <2>2, RankWithout
    <2> QED
      BY <2>3 DEF ClosesUp, Q, qq, q, size
  <1>11. Q # {}
    <2> HIDE DEF Q
    <2>1. Cardinality(Q) # 0
      BY <1>4, <1>10
    <2> QED
      BY <2>1, FS_EmptySet
  <1>12. /\ Advice!Ranked(engine, rr) = qq /\ Len(qq) = size - 1
         /\ Advice!Recommended(engine, rr).looks = [m \in 1 .. size - 1 |-> engine.looks[qq[m]].code]
         /\ Advice!Recommended(engine, rr).confidence = Advice!Confidence(engine, rr)
    <2>1. /\ Advice!Ranked(engine, rr) = Placed(Advice!Remaining(engine, rr), PointsOf(engine, rr))
          /\ Len(Placed(Advice!Remaining(engine, rr), PointsOf(engine, rr))) = Cardinality(Advice!Remaining(engine, rr))
          /\ Advice!Remaining(engine, rr) # {} => Advice!Recommended(engine, rr) =
                [looks |-> [m \in 1 .. Cardinality(Advice!Remaining(engine, rr)) |->
                                engine.looks[Placed(Advice!Remaining(engine, rr), PointsOf(engine, rr))[m]].code],
                 confidence |-> Advice!Confidence(engine, rr), needsMore |-> rr.signals < 4]
      BY RankingIs
    <2>2. Cardinality(Q) = size - 1
      BY <1>10
    <2> HIDE DEF Q, p, size
    <2> QED
      BY <1>8, <1>9, <1>11, <2>1, <2>2
  <1> HIDE DEF P, p, q, qq, Q, size
  <1>13. Advice!Recommended(engine, rr).looks = [m \in 1 .. size - 1 |-> looks[IF m < n THEN m ELSE m + 1]]
    <2>1. \A m \in 1 .. size - 1 : engine.looks[qq[m]].code = looks[IF m < n THEN m ELSE m + 1]
      <3> SUFFICES ASSUME NEW m \in 1 .. size - 1
                   PROVE  engine.looks[qq[m]].code = looks[IF m < n THEN m ELSE m + 1]
        OBVIOUS
      <3> DEFINE k == IF m < n THEN m ELSE m + 1
      <3>1. k \in 1 .. size /\ qq[m] = q[k]
        BY <1>1, <1>4, <1>10
      <3> HIDE DEF k
      <3> QED
        BY <1>3, <3>1 DEF k
    <2> QED
      BY <1>12, <2>1
  <1>14. ASSUME n = 2 PROVE Advice!Confidence(engine, rr) >= Advice!Confidence(engine, r)
    <2> DEFINE at(i) == Advice!Score(engine, r, engine.looks[i])
    <2>1. \A i \in 1 .. 4 : at(i) \in Int /\ p[i] = at(i)
      BY ScoresAreNumbers DEF PointsOf, p
    <2> HIDE DEF at
    <2>2. Advice!Decisiveness(engine, r) = Advice!Capped(at(q[1]) - at(q[2]), 10)
      BY <1>1, <1>4 DEF Advice!Decisiveness, at
    <2>3. Advice!Decisiveness(engine, rr) = IF size - 1 < 2 THEN 10 ELSE Advice!Capped(at(qq[1]) - at(qq[2]), 10)
      BY <1>9, <1>12 DEF Advice!Decisiveness, at
    <2>4. q[1] \in P /\ q[2] \in P /\ q[1] \in 1 .. 4 /\ q[2] \in 1 .. 4
      <3>1. 1 \in 1 .. size /\ 2 \in 1 .. size
        BY <1>1, <1>4
      <3>2. q[1] \in P /\ q[2] \in P
        BY <1>6, <3>1
      <3> QED
        BY <1>1, <3>2
    <2>9. Cardinality(Ahead(P, p, q[2])) = 1
      <3>1. 2 \in 1 .. size /\ 2 - 1 = 1
        BY <1>1, <1>4
      <3> QED
        BY <1>6, <3>1
    <2>5. Advice!Decisiveness(engine, r) \in Int /\ Advice!Decisiveness(engine, rr) \in Int
          /\ Advice!Decisiveness(engine, rr) >= Advice!Decisiveness(engine, r)
      <3>1. at(q[1]) \in Int /\ at(q[2]) \in Int
        BY <2>1, <2>4
      <3>2. CASE size - 1 < 2
        BY <2>2, <2>3, <3>1, <3>2 DEF Advice!Capped
      <3>3. CASE ~ (size - 1 < 2)
        <4>1. 1 \in 1 .. size - 1 /\ 2 \in 1 .. size - 1 /\ 3 \in 1 .. size
          BY <1>1, <3>3
        <4>2. qq[1] = q[1] /\ qq[2] = q[3]
          BY <1>10, <1>14, <4>1
        <4>3. q[3] \in P /\ q[3] \in 1 .. 4 /\ Cardinality(Ahead(P, p, q[3])) = 2 /\ Cardinality(Ahead(P, p, q[2])) = 1
          <5>1. q[3] \in P /\ Cardinality(Ahead(P, p, q[3])) = 3 - 1
            BY <1>6, <4>1
          <5>2. 3 - 1 = 2
            OBVIOUS
          <5>3. q[3] \in 1 .. 4
            BY <1>1, <5>1
          <5> QED
            BY <2>9, <5>1, <5>2, <5>3
        <4>4. Prior(p, q[2], q[3])
          <5>1. \A i, j \in P : Prior(p, i, j) <=> Cardinality(Ahead(P, p, i)) < Cardinality(Ahead(P, p, j))
            BY <1>1, PlacesRank
          <5> QED
            BY <2>4, <4>3, <5>1
        <4>5. at(q[3]) \in Int /\ at(q[3]) <= at(q[2])
          BY <2>1, <2>4, <4>3, <4>4 DEF Prior
        <4>6. Advice!Decisiveness(engine, rr) = Advice!Capped(at(q[1]) - at(q[3]), 10)
          BY <2>3, <3>3, <4>2
        <4> QED
          BY <2>2, <3>1, <4>5, <4>6 DEF Advice!Capped
      <3> QED
        BY <3>2, <3>3
    <2> QED
      BY <1>5, <2>5 DEF Advice!Confidence, IsAsked
  <1> QED
    BY <1>3, <1>4, <1>12, <1>13, <1>14 DEF rr, code, looks

LEMMA PreferredIsKept ==
    ASSUME NEW engine \in Engines, NEW r, IsAsked(r)
    PROVE  Advice!PreferencesCount(engine, r)
  <1> SUFFICES ASSUME Advice!Recommended(engine, r) # Unknown PROVE Advice!PreferencesCount(engine, r)
    BY DEF Advice!PreferencesCount
  <1> DEFINE looks == Advice!Recommended(engine, r).looks
  <1>1. \A n \in DOMAIN looks : Advice!Place(engine, [r EXCEPT !.preferred = @ \cup {looks[n]}], looks[n]) <= n
    BY LikedKeepsItsPlace
  <1>2. Len(looks) > 1 => \A n \in DOMAIN looks :
           LET without == Advice!Recommended(engine, [r EXCEPT !.excluded = @ \cup {looks[n]}])
           IN  /\ without.looks = [m \in 1 .. Len(looks) - 1 |-> looks[IF m < n THEN m ELSE m + 1]]
               /\ n = 2 => without.confidence >= Advice!Recommended(engine, r).confidence
    BY ExcludedLeavesTheOrder
  <1>3. Len(looks) > 1 => 2 \in DOMAIN looks
    <2>1. Advice!Remaining(engine, r) # {}
      BY RankingIs DEF Advice!Recommended
    <2> DEFINE P == Advice!Remaining(engine, r)
               p == PointsOf(engine, r)
               list == [n \in 1 .. Cardinality(P) |-> engine.looks[Placed(P, p)[n]].code]
    <2>2. P # {} => Advice!Recommended(engine, r) =
              [looks |-> list, confidence |-> Advice!Confidence(engine, r), needsMore |-> r.signals < 4]
      BY RankingIs
    <2>3. Cardinality(P) \in Nat
      BY RankingIs
    <2> HIDE DEF P, p, list
    <2>4. looks = list
      BY <2>1, <2>2 DEF P
    <2>5. Len(list) = Cardinality(P) /\ DOMAIN list = 1 .. Cardinality(P)
      BY <2>3 DEF list
    <2> HIDE DEF looks
    <2> QED
      BY <2>3, <2>4, <2>5
  <1> HIDE DEF looks
  <1> QED
    BY <1>1, <1>2, <1>3 DEF Advice!PreferencesCount, looks
-----------------------------------------------------------------------------
(* Garments.                                                                  *)

IsJudged(g) ==
    /\ DOMAIN g = {"category", "color", "material", "favorite", "saved"}
    /\ g.favorite \in BOOLEAN /\ g.saved \in BOOLEAN

IsRoom(closet) ==
    /\ DOMAIN closet = {"categories", "occasions"}
    /\ IsFiniteSet(closet.categories) /\ IsFiniteSet(closet.occasions)

LEMMA CoveredIsCounted ==
    ASSUME NEW closet, IsRoom(closet)
    PROVE  /\ Advice!Covered(closet) \in Nat
           /\ \A c : LET more == [closet EXCEPT !.categories = @ \cup {c}]
                     IN  Advice!Covered(more) \in Nat /\ Advice!Covered(more) >= Advice!Covered(closet)
  <1>1. Advice!Covered(closet) = Cardinality(closet.categories) /\ Cardinality(closet.categories) \in Nat
    BY AdviceCardinality, FS_CardinalityType DEF Advice!Covered, IsRoom
  <1> SUFFICES ASSUME NEW c
               PROVE  LET more == [closet EXCEPT !.categories = @ \cup {c}]
                      IN  Advice!Covered(more) \in Nat /\ Advice!Covered(more) >= Advice!Covered(closet)
    BY <1>1
  <1> DEFINE more == [closet EXCEPT !.categories = @ \cup {c}]
             S == closet.categories
  <1>2. more.categories = S \cup {c}
    BY DEF IsRoom
  <1>3. Cardinality(S \cup {c}) \in Nat /\ Cardinality(S \cup {c}) >= Cardinality(S)
    <2>1. IsFiniteSet(S)
      BY DEF IsRoom
    <2> HIDE DEF S
    <2>2. IsFiniteSet(S \cup {c}) /\ S \subseteq S \cup {c}
      BY <2>1, FS_AddElement
    <2> QED
      BY <2>1, <2>2, FS_CardinalityType, FS_Subset
  <1>4. Advice!Covered(more) = Cardinality(S \cup {c})
    <2> HIDE DEF more, S
    <2> QED
      BY <1>2, AdviceCardinality DEF Advice!Covered
  <1> QED
    BY <1>1, <1>3, <1>4

(* What a garment has of its own, beside the wardrobe.                        *)
OwnPoints(g) ==
    Advice!If(g.favorite, 10)
    + Advice!If(Advice!Conflicts(g) # {}, -20)
    + Advice!If("color" \in Advice!Conflicts(g), -30)
    + Advice!If(g.color \in Advice!Neutral \/ Advice!IsNatural(g), 5)
    + Advice!If(Advice!Cardinality(Advice!Registers(g.category)) <= 1, 5)

LEMMA RawIs ==
    ASSUME NEW g, NEW closet, Advice!Covered(closet) \in Nat, g.favorite \in BOOLEAN, g.saved \in BOOLEAN
    PROVE  /\ OwnPoints(g) \in -50 .. 20
           /\ Advice!PreferenceContribution(g) = IF g.saved THEN 5 ELSE 0
           /\ Advice!Raw(g, closet) = 20 * Advice!Covered(closet) + OwnPoints(g) + Advice!PreferenceContribution(g)
           /\ Advice!OutfitConfidence(g, closet) =
                 LET points == 20 * Advice!Covered(closet) + OwnPoints(g) + Advice!PreferenceContribution(g)
                 IN  IF points > 100 THEN 100 ELSE IF points < 10 THEN 10 ELSE points
  <1>1. Advice!PreferenceContribution(g) = IF g.saved THEN 5 ELSE 0
    BY DEF Advice!PreferenceContribution, Advice!If
  <1> DEFINE a == Advice!If(g.favorite, 10)
             b == Advice!If(Advice!Conflicts(g) # {}, -20)
             c == Advice!If("color" \in Advice!Conflicts(g), -30)
             d == Advice!If(g.color \in Advice!Neutral \/ Advice!IsNatural(g), 5)
             e == Advice!If(Advice!Cardinality(Advice!Registers(g.category)) <= 1, 5)
             f == Advice!PreferenceContribution(g)
             k == Advice!Covered(closet)
  <1>2. a \in {0, 10} /\ b \in {0, -20} /\ c \in {0, -30} /\ d \in {0, 5} /\ e \in {0, 5} /\ f \in {0, 5}
    BY <1>1 DEF Advice!If
  <1>3. OwnPoints(g) = a + b + c + d + e
    BY DEF OwnPoints
  <1>4. Advice!Raw(g, closet) = 50 + 10 * k - 10 * (5 - k) + a + b + c + d + e + f
    BY DEF Advice!Raw
  <1> HIDE DEF a, b, c, d, e, f, k
  <1>5. k \in Nat
    BY DEF k
  <1>6. OwnPoints(g) \in -50 .. 20 /\ Advice!Raw(g, closet) = 20 * k + OwnPoints(g) + f
    BY <1>2, <1>3, <1>4, <1>5
  <1>7. Advice!OutfitConfidence(g, closet) =
            LET points == 20 * k + OwnPoints(g) + f
            IN  IF points > 100 THEN 100 ELSE IF points < 10 THEN 10 ELSE points
    BY <1>2, <1>5, <1>6 DEF Advice!OutfitConfidence, Advice!Capped
  <1> QED
    BY <1>1, <1>6, <1>7 DEF f, k

LEMMA GarmentsAreEven ==
    ASSUME NEW g, NEW closet, IsJudged(g), IsRoom(closet)
    PROVE  Advice!GarmentsAreJudgedEvenly(g, closet)
  <1> DEFINE k == Advice!Covered(closet)
             bounded(points) == IF points > 100 THEN 100 ELSE IF points < 10 THEN 10 ELSE points
             conf(h, room) == Advice!OutfitConfidence(h, room)
             stored == [g EXCEPT !.saved = TRUE]
             favorite == [g EXCEPT !.favorite = TRUE]
             black == [g EXCEPT !.color = "black", !.favorite = FALSE]
  <1>1. k \in Nat
    BY CoveredIsCounted
  <1>2. g.favorite \in BOOLEAN /\ g.saved \in BOOLEAN
    BY DEF IsJudged
  <1>3. /\ OwnPoints(g) \in -50 .. 20
        /\ Advice!PreferenceContribution(g) = IF g.saved THEN 5 ELSE 0
        /\ conf(g, closet) = bounded(20 * k + OwnPoints(g) + Advice!PreferenceContribution(g))
    BY <1>1, <1>2, RawIs
  <1>4. \A c : conf(g, [closet EXCEPT !.categories = @ \cup {c}]) >= conf(g, closet)
    <2> SUFFICES ASSUME NEW c PROVE conf(g, [closet EXCEPT !.categories = @ \cup {c}]) >= conf(g, closet)
      OBVIOUS
    <2> DEFINE more == [closet EXCEPT !.categories = @ \cup {c}]
               l == Advice!Covered(more)
    <2>1. l \in Nat /\ l >= k
      BY CoveredIsCounted
    <2> HIDE DEF more
    <2>2. conf(g, more) = bounded(20 * l + OwnPoints(g) + Advice!PreferenceContribution(g))
      BY <1>2, <2>1, RawIs
    <2> HIDE DEF k, l, conf
    <2>3. conf(g, more) >= conf(g, closet)
      BY <1>1, <1>3, <2>1, <2>2
    <2> QED
      BY <2>3 DEF more
  <1>5. conf(stored, closet) - conf(g, closet) \in 0 .. 5
    <2>1. /\ stored.favorite = g.favorite /\ stored.color = g.color /\ stored.material = g.material
          /\ stored.category = g.category /\ stored.saved = TRUE
      BY DEF IsJudged
    <2> HIDE DEF stored
    <2>2. OwnPoints(stored) = OwnPoints(g)
      BY <2>1 DEF OwnPoints, Advice!Conflicts, Advice!IsNatural, Advice!Lasts
    <2>3. conf(stored, closet) = bounded(20 * k + OwnPoints(g) + 5)
      BY <1>1, <1>2, <2>1, <2>2, RawIs
    <2> HIDE DEF k, conf
    <2> QED
      BY <1>1, <1>3, <2>3
  <1>6. ASSUME Advice!Conflicts(g) = {"color", "season"}
        PROVE  conf(favorite, closet) <= conf(black, closet)
    <2>1. /\ favorite.favorite = TRUE /\ favorite.color = g.color /\ favorite.material = g.material
          /\ favorite.category = g.category /\ favorite.saved = g.saved
          /\ black.favorite = FALSE /\ black.color = "black" /\ black.material = g.material
          /\ black.category = g.category /\ black.saved = g.saved
      BY DEF IsJudged
    <2> HIDE DEF favorite, black
    <2> DEFINE clash(h) == Advice!If(h.color \notin Advice!Neutral /\ ~ Advice!IsNatural(h), 1)
               unseasonal(h) == Advice!If(h.material # Unknown
                                    /\ Advice!Lasts(h) \cap Advice!CategorySeasons(h.category) = {}, 1)
               stiff(h) == Advice!If(Advice!Cardinality(Advice!Registers(h.category)) > 1
                                     /\ clash(h) + unseasonal(h) < 2, 1)
    <2>2. \A h : Advice!Conflicts(h) = (IF clash(h) = 1 THEN {"color"} ELSE {})
                    \cup (IF unseasonal(h) = 1 THEN {"season"} ELSE {})
                    \cup (IF stiff(h) = 1 THEN {"formality"} ELSE {})
      BY DEF Advice!Conflicts
    <2>3. Advice!Conflicts(favorite) = {"color", "season"}
      BY <1>6, <2>1 DEF Advice!Conflicts, Advice!IsNatural, Advice!Lasts
    <2>4. clash(g) = 1 /\ unseasonal(g) = 1
      <3> HIDE DEF clash, unseasonal, stiff
      <3> QED
        BY <1>6, <2>2
    <2>5. g.color \notin Advice!Neutral /\ ~ Advice!IsNatural(g)
      BY <2>4 DEF Advice!If
    <2>6. unseasonal(black) = unseasonal(g)
      BY <2>1 DEF Advice!Lasts
    <2>7. Advice!Conflicts(black) # {}
      <3>1. "season" \in Advice!Conflicts(black)
        <4> HIDE DEF clash, unseasonal, stiff
        <4> QED
          BY <2>2, <2>4, <2>6
      <3> QED
        BY <3>1
    <2>8. black.color \in Advice!Neutral
      BY <2>1 DEF Advice!Neutral
    <2>9. clash(black) = 0
      BY <2>8 DEF Advice!If
    <2>10. "color" \notin Advice!Conflicts(black)
      <3> HIDE DEF clash, unseasonal, stiff
      <3> QED
        BY <2>2, <2>9
    <2> DEFINE e == Advice!If(Advice!Cardinality(Advice!Registers(g.category)) <= 1, 5)
    <2>11. OwnPoints(favorite) = 10 - 20 - 30 + 0 + e
      <3>1. ~ (favorite.color \in Advice!Neutral \/ Advice!IsNatural(favorite))
        BY <2>1, <2>5 DEF Advice!IsNatural
      <3>2. Advice!Conflicts(favorite) # {} /\ "color" \in Advice!Conflicts(favorite)
        BY <2>3
      <3> QED
        BY <2>1, <3>1, <3>2 DEF OwnPoints, Advice!If
    <2>12. OwnPoints(black) = 0 - 20 + 0 + 5 + e
      BY <2>1, <2>7, <2>8, <2>10 DEF OwnPoints, Advice!If
    <2>13. e \in Int /\ Advice!PreferenceContribution(g) \in Int
      BY <1>2 DEF Advice!If, Advice!PreferenceContribution
    <2>14. /\ Advice!PreferenceContribution(favorite) = Advice!PreferenceContribution(g)
           /\ Advice!PreferenceContribution(black) = Advice!PreferenceContribution(g)
      BY <2>1 DEF Advice!PreferenceContribution
    <2>15. /\ conf(favorite, closet) = bounded(20 * k + OwnPoints(favorite) + Advice!PreferenceContribution(g))
           /\ conf(black, closet) = bounded(20 * k + OwnPoints(black) + Advice!PreferenceContribution(g))
      BY <1>1, <1>2, <2>1, <2>14, RawIs
    <2> HIDE DEF k, conf, e
    <2> QED
      BY <1>1, <2>11, <2>12, <2>13, <2>15
  <1>7. Advice!Level(conf(g, closet)) = "strong" => k >= 3
    <2>1. Advice!Level(conf(g, closet)) = "strong" => conf(g, closet) >= 70
      BY DEF Advice!Level
    <2> HIDE DEF k, conf
    <2> QED
      BY <1>1, <1>3, <2>1
  <1>8. \A o \in DOMAIN Advice!SuitableOccasions(g, closet) : Advice!SuitableOccasions(g, closet)[o] \in 30 .. 100
    <2> SUFFICES ASSUME NEW o \in Advice!Occasions(g.category)
                 PROVE  30 + (IF o \in closet.occasions
                              THEN Advice!Capped(100 \div Advice!Cardinality(closet.occasions), 70) ELSE 0) \in 30 .. 100
      BY DEF Advice!SuitableOccasions
    <2>1. CASE o \in closet.occasions
      <3> DEFINE c == Advice!Cardinality(closet.occasions)
      <3>1. c \in Nat /\ c # 0
        <4>1. IsFiniteSet(closet.occasions)
          BY DEF IsRoom
        <4> QED
          BY <2>1, <4>1, AdviceCardinality, FS_CardinalityType, FS_EmptySet
      <3> HIDE DEF c
      <3>2. 100 \div c \in Nat
        BY <3>1
      <3>3. Advice!Capped(100 \div c, 70) \in 0 .. 70
        BY <3>2 DEF Advice!Capped
      <3> QED
        BY <2>1, <3>3 DEF c
    <2>2. CASE o \notin closet.occasions
      BY <2>2
    <2> QED
      BY <2>1, <2>2
  <1>9. Advice!SuitableSeasons(g) # {}
    BY DEF Advice!SuitableSeasons, Advice!CategorySeasons
  <1>10. Advice!ClothingConfidence(g, closet) \in 35 .. 100
    BY <1>2 DEF Advice!ClothingConfidence
  <1> QED
    BY <1>4, <1>5, <1>6, <1>7, <1>8, <1>9, <1>10 DEF Advice!GarmentsAreJudgedEvenly
-----------------------------------------------------------------------------
(* Guests and members.                                                        *)

IsOutcome(o) == o.is \in {"crashed", "refused", "seen"}

LEMMA HairstylesAreAlike ==
    ASSUME NEW pass, IsOutcome(pass.sight)
    PROVE  Advice!Alike(Advice!GuestHairstyle(pass), Advice!MemberHairstyle(pass))
  <1>1. CASE Advice!ImageFaults(pass.image) # {}
    BY <1>1 DEF Advice!Alike, Advice!GuestHairstyle, Advice!MemberHairstyle, Advice!Guarded,
                Advice!Refused, Advice!Failed
  <1>2. CASE Advice!ImageFaults(pass.image) = {}
    <2>1. CASE pass.sight.is = "refused"
      BY <1>2, <2>1 DEF Advice!Alike, Advice!GuestHairstyle, Advice!MemberHairstyle, Advice!Guarded,
                        Advice!Refused, Advice!Failed
    <2>2. CASE pass.sight.is = "crashed"
      BY <1>2, <2>2 DEF Advice!Alike, Advice!GuestHairstyle, Advice!MemberHairstyle, Advice!Guarded,
                        Advice!Unavailable, Advice!Failed
    <2>3. CASE pass.sight.is = "seen"
      <3>1. CASE pass.sight.face = Unknown
        BY <1>2, <2>3, <3>1 DEF Advice!Alike, Advice!GuestHairstyle, Advice!MemberHairstyle, Advice!Guarded,
                                Advice!Refused, Advice!Failed
      <3>2. CASE pass.sight.face # Unknown /\ pass.engine # "fine"
        BY <1>2, <2>3, <3>2 DEF Advice!Alike, Advice!GuestHairstyle, Advice!MemberHairstyle, Advice!Guarded,
                                Advice!Unavailable, Advice!Failed
      <3>3. CASE pass.sight.face # Unknown /\ pass.engine = "fine"
        BY <1>2, <2>3, <3>3 DEF Advice!Alike, Advice!GuestHairstyle, Advice!MemberHairstyle, Advice!Guarded,
                                Advice!Answered, Advice!Completed
      <3> QED
        BY <3>1, <3>2, <3>3
    <2> QED
      BY <2>1, <2>2, <2>3 DEF IsOutcome
  <1> QED
    BY <1>1, <1>2

LEMMA OutfitsAreAlike ==
    ASSUME NEW pass
    PROVE  Advice!Alike(Advice!GuestOutfit(pass), Advice!MemberOutfit(pass))
  <1> DEFINE both == {} \in {Advice!AppearanceReason(pass), Advice!GarmentReason(pass)}
             reasons == Advice!AppearanceReason(pass) \cup Advice!GarmentReason(pass)
  <1>1. CASE Advice!ImageFaults(pass.image) # {}
    BY <1>1 DEF Advice!Alike, Advice!GuestOutfit, Advice!MemberOutfit, Advice!Guarded,
                Advice!Refused, Advice!Failed
  <1>2. CASE Advice!ImageFaults(pass.image) = {} /\ both
    BY <1>2 DEF Advice!Alike, Advice!GuestOutfit, Advice!MemberOutfit, Advice!Guarded,
                Advice!Answered, Advice!Completed
  <1>3. CASE Advice!ImageFaults(pass.image) = {} /\ ~ both /\ "analysis_failed" \in reasons
    BY <1>3 DEF Advice!Alike, Advice!GuestOutfit, Advice!MemberOutfit, Advice!Guarded,
                Advice!Unavailable, Advice!Failed
  <1>4. CASE Advice!ImageFaults(pass.image) = {} /\ ~ both /\ "analysis_failed" \notin reasons
    BY <1>4 DEF Advice!Alike, Advice!GuestOutfit, Advice!MemberOutfit, Advice!Guarded,
                Advice!Refused, Advice!Failed
  <1> QED
    BY <1>1, <1>2, <1>3, <1>4

LEMMA GarmentsAreAlike ==
    ASSUME NEW pass, IsOutcome(pass.clothes)
    PROVE  Advice!Alike(Advice!GuestGarment(pass), Advice!MemberGarment(pass))
  <1>1. CASE Advice!ImageFaults(pass.image) # {}
    BY <1>1 DEF Advice!Alike, Advice!GuestGarment, Advice!MemberGarment, Advice!Guarded,
                Advice!Refused, Advice!Failed
  <1>2. CASE Advice!ImageFaults(pass.image) = {}
    <2>1. CASE pass.clothes.is = "refused"
      BY <1>2, <2>1 DEF Advice!Alike, Advice!GuestGarment, Advice!MemberGarment, Advice!Guarded,
                        Advice!Refused, Advice!Failed
    <2>2. CASE pass.clothes.is = "crashed"
      BY <1>2, <2>2 DEF Advice!Alike, Advice!GuestGarment, Advice!MemberGarment, Advice!Guarded,
                        Advice!Unavailable, Advice!Failed
    <2>3. CASE pass.clothes.is = "seen"
      BY <1>2, <2>3 DEF Advice!Alike, Advice!GuestGarment, Advice!MemberGarment, Advice!Guarded,
                        Advice!Answered, Advice!Completed
    <2> QED
      BY <2>1, <2>2, <2>3 DEF IsOutcome
  <1> QED
    BY <1>1, <1>2

(* Without preferences, what ranks behind another never has the points to be  *)
(* cut off at 100 when both of them are preferred.                            *)
LEMMA NoneIsOvertaken ==
    ASSUME NEW engine \in Engines, NEW face, NEW i \in 1 .. 4, NEW j \in 1 .. 4, j < i,
           engine.looks[j].seed + Advice!Boost(engine.looks[j], face) >= 97
    PROVE  engine.looks[i].seed + Advice!Boost(engine.looks[i], face)
              <= engine.looks[j].seed + Advice!Boost(engine.looks[j], face)
  <1>1. i \in {2, 3, 4} /\ j \in {1, 2, 3}
    OBVIOUS
  <1>2. CASE engine = Advice!Hairstyles
    <2> DEFINE points(k) == engine.looks[k].seed + Advice!Boost(engine.looks[k], face)
    <2>1. points(3) \in 82 .. 88 /\ points(4) \in 78 .. 83 /\ points(2) \in 87 .. 99
      BY <1>2 DEF Advice!Hairstyles, Advice!Entry, Advice!Boost
    <2>2. points(1) >= 97 => points(2) <= 93 /\ points(1) \in Int
      BY <1>2 DEF Advice!Hairstyles, Advice!Entry, Advice!Boost
    <2>3. points(j) >= 97
      OBVIOUS
    <2> HIDE DEF points
    <2>4. points(i) <= points(j)
      BY <1>1, <2>1, <2>2, <2>3
    <2> QED
      BY <2>4 DEF points
  <1>3. CASE engine = Advice!Grooming
    <2> DEFINE points(k) == engine.looks[k].seed + Advice!Boost(engine.looks[k], face)
    <2>1. points(2) \in 85 .. 90 /\ points(3) \in 75 .. 83 /\ points(4) \in 71 .. 78 /\ points(1) \in Int
      BY <1>3 DEF Advice!Grooming, Advice!Entry, Advice!Boost
    <2>2. points(j) >= 97
      OBVIOUS
    <2> HIDE DEF points
    <2>3. points(i) <= points(j)
      BY <1>1, <2>1, <2>2
    <2> QED
      BY <2>3 DEF points
  <1> QED
    BY <1>2, <1>3 DEF Engines

Asking(face, signals, codes) ==
    [face |-> face, signals |-> signals, preferred |-> codes, excluded |-> {}, saved |-> {}]

LEMMA PointsAsked ==
    ASSUME NEW engine \in Engines, NEW face, NEW signals, NEW codes, NEW i \in 1 .. 4
    PROVE  LET shape == Advice!FaceShape([face |-> face])
               points == engine.looks[i].seed + Advice!Boost(engine.looks[i], shape)
                         + (IF engine.looks[i].code \in codes THEN 3 ELSE 0)
           IN  /\ engine.looks[i].seed \in Int /\ Advice!Boost(engine.looks[i], shape) \in Int
               /\ PointsOf(engine, Asking(face, signals, codes))[i] = IF points > 100 THEN 100 ELSE points
  <1> DEFINE shape == Advice!FaceShape([face |-> face])
             r == Asking(face, signals, codes)
             look == engine.looks[i]
  <1>1. look.seed \in Int /\ Advice!Boost(look, shape) \in Int
    <2>1. look.seed \in 0 .. 100
      BY CatalogOf
    <2>2. \A f : Advice!Boost(look, f) \in 0 .. 12
      BY BoostsAreNumbers
    <2> QED
      BY <2>1, <2>2
  <1>2. r.face = face /\ r.preferred = codes /\ r.saved = {}
    BY DEF Asking
  <1>3. Advice!FaceShape(r) = shape
    BY <1>2 DEF Advice!FaceShape
  <1>4. PointsOf(engine, r)[i] = Advice!Score(engine, r, look)
    BY DEF PointsOf
  <1> HIDE DEF shape, r, look
  <1>5. Advice!If(look.code \in r.saved, 3) = 0
    BY <1>2 DEF Advice!If
  <1>6. Advice!If(look.code \in r.preferred, 3) = IF look.code \in codes THEN 3 ELSE 0
    BY <1>2 DEF Advice!If
  <1> DEFINE three == IF look.code \in codes THEN 3 ELSE 0
  <1>7. three \in Int
    OBVIOUS
  <1> HIDE DEF three
  <1>8. Advice!Score(engine, r, look) =
          IF look.seed + Advice!Boost(look, shape) + three > 100 THEN 100
          ELSE look.seed + Advice!Boost(look, shape) + three
    <2>1. Advice!If(look.code \in r.preferred, 3) = three
      BY <1>6 DEF three
    <2> QED
      BY <1>1, <1>3, <1>5, <1>7, <2>1
      DEF Advice!Score, Advice!ScoreGrooming, Advice!ScoreHairstyle, Advice!Capped
  <1> QED
    BY <1>1, <1>4, <1>8 DEF three, look, r, shape

LEMMA SavedKeepTheirPlaces ==
    ASSUME NEW engine \in Engines, NEW face, NEW signals, NEW codes
    PROVE  LET with == Advice!Recommended(engine, Asking(face, signals, codes))
               without == Advice!Recommended(engine, Asking(face, signals, {}))
           IN  \A code \in codes : \A n \in DOMAIN without.looks :
                  without.looks[n] = code => \E m \in 1 .. n : with.looks[m] = code
  <1> DEFINE r == Asking(face, signals, {})
             rr == Asking(face, signals, codes)
             P == 1 .. 4
             p == PointsOf(engine, r)
             pp == PointsOf(engine, rr)
             q == Placed(P, p)
             qq == Placed(P, pp)
             with == Advice!Recommended(engine, rr)
             without == Advice!Recommended(engine, r)
             listed(o) == [m \in 1 .. 4 |-> engine.looks[o[m]].code]
  <1>1. Advice!Remaining(engine, r) = P /\ Advice!Remaining(engine, rr) = P
    BY CatalogOf DEF Advice!Remaining, Asking
  <1>2. Cardinality(P) = 4 /\ IsFiniteSet(P)
    <2>1. 1 \in Int /\ 4 \in Int
      OBVIOUS
    <2>2. IsFiniteSet(1 .. 4) /\ Cardinality(1 .. 4) = IF 1 > 4 THEN 0 ELSE 4 - 1 + 1
      BY <2>1, FS_Interval
    <2>3. (IF 1 > 4 THEN 0 ELSE 4 - 1 + 1) = 4
      OBVIOUS
    <2> QED
      BY <2>2, <2>3
  <1>3. /\ \A i \in P : p[i] \in Int /\ pp[i] \in Int
        /\ with.looks = listed(qq) /\ without.looks = listed(q)
    <2> DEFINE R == Advice!Remaining(engine, r)
               RR == Advice!Remaining(engine, rr)
               named(S, s) == [m \in 1 .. Cardinality(S) |-> engine.looks[Placed(S, s)[m]].code]
    <2>1. /\ \A i \in R : p[i] \in Int
          /\ R # {} => without = [looks |-> named(R, p), confidence |-> Advice!Confidence(engine, r),
                                  needsMore |-> r.signals < 4]
      BY RankingIs
    <2>2. /\ \A i \in RR : pp[i] \in Int
          /\ RR # {} => with = [looks |-> named(RR, pp), confidence |-> Advice!Confidence(engine, rr),
                                needsMore |-> rr.signals < 4]
      BY RankingIs
    <2>3. R = P /\ RR = P
      BY <1>1
    <2>4. named(P, p) = listed(q) /\ named(P, pp) = listed(qq)
      <3>1. Cardinality(P) = 4
        BY <1>2
      <3> HIDE DEF P, p, pp
      <3> QED
        BY <3>1
    <2>5. P # {}
      OBVIOUS
    <2> HIDE DEF P, R, RR, p, pp, named, r, rr, listed, q, qq
    <2>6. with.looks = named(P, pp) /\ without.looks = named(P, p)
      BY <2>1, <2>2, <2>3, <2>5
    <2> QED
      BY <2>1, <2>2, <2>3, <2>4, <2>6
  <1> DEFINE shape == Advice!FaceShape([face |-> face])
             base(k) == engine.looks[k].seed + Advice!Boost(engine.looks[k], shape)
             three(k) == IF engine.looks[k].code \in codes THEN 3 ELSE 0
             upTo(x) == IF x > 100 THEN 100 ELSE x
  <1>4. \A k \in P : base(k) \in Int /\ pp[k] = upTo(base(k) + three(k))
    BY PointsAsked
  <1>5. \A k \in P : p[k] = upTo(base(k))
    <2> SUFFICES ASSUME NEW k \in P PROVE p[k] = upTo(base(k))
      OBVIOUS
    <2>1. p[k] = upTo(base(k) + (IF engine.looks[k].code \in {} THEN 3 ELSE 0)) /\ base(k) \in Int
      BY PointsAsked
    <2> HIDE DEF base, p
    <2> QED
      BY <2>1
  <1>6. \A i, j \in P : j < i /\ base(j) >= 97 => base(i) <= base(j)
    BY NoneIsOvertaken
  <1> HIDE DEF base, p, pp, q, qq, with, without
  <1>7. ASSUME NEW i \in P, engine.looks[i].code \in codes
        PROVE  Ahead(P, pp, i) \subseteq Ahead(P, p, i)
    <2> SUFFICES ASSUME NEW j \in P, Prior(pp, j, i) PROVE Prior(p, j, i)
      BY DEF Ahead
    <2>1. three(i) = 3 /\ three(j) \in {0, 3}
      BY <1>7
    <2> HIDE DEF three
    <2>2. base(i) \in Int /\ base(j) \in Int
      BY <1>4
    <2>3. pp[i] = upTo(base(i) + 3) /\ pp[j] = upTo(base(j) + three(j)) /\ p[i] = upTo(base(i)) /\ p[j] = upTo(base(j))
      BY <1>4, <1>5, <2>1
    <2>4. j < i /\ base(j) >= 97 => base(i) <= base(j)
      BY <1>6
    <2> QED
      BY <2>1, <2>2, <2>3, <2>4 DEF Prior
  <1> SUFFICES ASSUME NEW code \in codes, NEW n \in DOMAIN without.looks, without.looks[n] = code
               PROVE  \E m \in 1 .. n : with.looks[m] = code
    BY DEF with, without
  <1>8. n \in 1 .. 4 /\ engine.looks[q[n]].code = code
    BY <1>3
  <1> DEFINE i == q[n]
  <1>9. i \in P /\ Cardinality(Ahead(P, p, i)) = n - 1
    <2> HIDE DEF P
    <2>1. P \in SUBSET Int
      BY DEF P
    <2>2. n \in 1 .. Cardinality(P)
      BY <1>2, <1>8
    <2> QED
      BY <1>2, <1>3, <2>1, <2>2, PlacesRank DEF q
  <1> HIDE DEF i
  <1> DEFINE m == Cardinality(Ahead(P, pp, i)) + 1
  <1>10. /\ Cardinality(Ahead(P, pp, i)) \in 0 .. 3 /\ qq[m] = i /\ IsFiniteSet(Ahead(P, p, i))
    <2> HIDE DEF P
    <2>1. P \in SUBSET Int
      BY DEF P
    <2>2. /\ Cardinality(Ahead(P, pp, i)) \in 0 .. Cardinality(P) - 1 /\ qq[m] = i
      BY <1>2, <1>3, <1>9, <2>1, PlacesRank DEF qq
    <2>3. IsFiniteSet(Ahead(P, p, i))
      BY <1>2, <1>3, <1>9, <2>1, PlacesRank
    <2> QED
      BY <1>2, <2>2, <2>3
  <1>11. m \in 1 .. n
    <2>1. Ahead(P, pp, i) \subseteq Ahead(P, p, i)
      BY <1>7, <1>8, <1>9 DEF i
    <2>2. Cardinality(Ahead(P, pp, i)) <= Cardinality(Ahead(P, p, i))
      BY <1>10, <2>1, FS_Subset
    <2> HIDE DEF P
    <2> QED
      BY <1>8, <1>9, <1>10, <2>2
  <1>12. with.looks[m] = code
    <2>1. m \in 1 .. 4
      BY <1>8, <1>11
    <2> HIDE DEF m
    <2> QED
      BY <1>3, <1>8, <1>10, <2>1 DEF i, m
  <1> QED
    BY <1>11, <1>12

(* What a profile says; nothing in it is too long.                            *)
IsProfile(pass) ==
    /\ DOMAIN pass = {"profile", "engine"}
    /\ DOMAIN pass.profile = {"face_shape", "skin_tone", "body_type", "style_type"}

LEMMA StrippedIs ==
    ASSUME NEW pass, IsProfile(pass)
    PROVE  LET own == [pass EXCEPT !.profile = Advice!Stripped(@)]
           IN  own.profile = Advice!Stripped(pass.profile) /\ own.engine = pass.engine
  BY DEF IsProfile

LEMMA ProfilesAreAlike ==
    ASSUME NEW pass, IsProfile(pass), \A f \in DOMAIN pass.profile : pass.profile[f] # "endless",
           NEW stored, Advice!SavedGrooming(stored) = {}
    PROVE  Advice!Alike(Advice!GuestGrooming(pass),
                        Advice!MemberGrooming([pass EXCEPT !.profile = Advice!Stripped(@)], stored))
  <1> DEFINE own == [pass EXCEPT !.profile = Advice!Stripped(@)]
             profile == Advice!Stripped(pass.profile)
  <1>1. own.profile = profile /\ own.engine = pass.engine
    BY StrippedIs
  <1>2. ~ \E f \in DOMAIN profile : profile[f] = "endless"
    <2>1. Unknown # "endless"
      BY UnknownAssumption
    <2> QED
      BY <2>1 DEF Advice!Stripped
  <1> HIDE DEF own, profile
  <1>3. Advice!GuestGrooming(pass) =
          IF profile.face_shape = Unknown THEN Advice!Refused({"no face shape"})
          ELSE IF pass.engine = "knowledge" THEN Advice!Unavailable
          ELSE Advice!Answered(Advice!Groomed(profile, {}))
    BY <1>2 DEF Advice!GuestGrooming, profile
  <1>4. Advice!MemberGrooming(own, stored) =
          IF profile.face_shape = Unknown THEN Advice!Refused({"no face shape"})
          ELSE IF pass.engine = "knowledge" THEN Advice!Failed({})
          ELSE Advice!Completed(Advice!Groomed(profile, {}))
    BY <1>1 DEF Advice!MemberGrooming
  <1>5. CASE profile.face_shape = Unknown
    <2>1. /\ Advice!GuestGrooming(pass) = Advice!Refused({"no face shape"})
          /\ Advice!MemberGrooming(own, stored) = Advice!Refused({"no face shape"})
      BY <1>3, <1>4, <1>5
    <2>2. Advice!Alike(Advice!Refused({"no face shape"}), Advice!Refused({"no face shape"}))
      BY DEF Advice!Alike, Advice!Refused
    <2> QED
      BY <2>1, <2>2 DEF own
  <1>6. CASE profile.face_shape # Unknown /\ pass.engine = "knowledge"
    BY <1>3, <1>4, <1>6 DEF Advice!Alike, Advice!Unavailable, Advice!Failed, own
  <1>7. CASE profile.face_shape # Unknown /\ pass.engine # "knowledge"
    BY <1>3, <1>4, <1>7 DEF Advice!Alike, Advice!Answered, Advice!Completed, own
  <1> QED
    BY <1>5, <1>6, <1>7

LEMMA NothingSaved ==
    Advice!SavedGrooming(<<>>) = {} /\ Advice!SavedHairstyles(<<>>) = {}
  BY DEF Advice!SavedGrooming, Advice!SavedHairstyles

LEMMA SavedLooksAreCounted ==
    ASSUME NEW pass, IsProfile(pass), \A f \in DOMAIN pass.profile : pass.profile[f] # "endless", NEW stored
    PROVE  Advice!SavedLooksCount(pass, stored)
  <1> DEFINE own == [pass EXCEPT !.profile = Advice!Stripped(@)]
             face == own.profile.face_shape
             known == Advice!Known(own.profile)
             groomed(codes) == Advice!Recommended(Advice!Grooming, Asking(face, known, codes))
             styled(codes) == Advice!Recommended(Advice!Hairstyles, Asking(face, known, codes))
  <1> HIDE DEF own
  <1>1. \A looks : Advice!MemberGrooming(own, looks) =
          IF face = Unknown THEN Advice!Refused({"no face shape"})
          ELSE IF own.engine = "knowledge" THEN Advice!Failed({})
          ELSE Advice!Completed(groomed(Advice!SavedGrooming(looks)))
    BY DEF Advice!MemberGrooming, Advice!Groomed, Advice!RecommendGrooming, Asking
  <1>2. \A looks : Advice!MemberProfile(own, looks) =
          IF face = Unknown THEN Advice!Refused({"no face shape"})
          ELSE IF own.engine # "fine" THEN Advice!Failed({})
          ELSE Advice!Completed(styled(Advice!SavedHairstyles(looks)))
    BY DEF Advice!MemberProfile, Advice!RecommendHairstyle, Asking
  <1> DEFINE stays(codes, with, without) ==
               \A code \in codes : \A n \in DOMAIN without.looks :
                   without.looks[n] = code => \E m \in 1 .. n : with.looks[m] = code
  <1>3. \A codes : stays(codes, groomed(codes), groomed({})) /\ stays(codes, styled(codes), styled({}))
    <2>1. Advice!Grooming \in Engines /\ Advice!Hairstyles \in Engines
      BY DEF Engines
    <2> QED
      BY <2>1, SavedKeepTheirPlaces
  <1> HIDE DEF face, known, groomed, styled, stays
  <1> DEFINE keepsPlaces(codes, with, without) ==
               with.status = "completed" => \A code \in codes : \A n \in DOMAIN without.result.looks :
                   without.result.looks[n] = code => \E m \in 1 .. n : with.result.looks[m] = code
  <1>4. \A codes, with, without :
          keepsPlaces(codes, with, without) <=> (with.status = "completed" => stays(codes, with.result, without.result))
    BY DEF stays
  <1> HIDE DEF keepsPlaces
  <1>5. keepsPlaces(Advice!SavedGrooming(stored), Advice!MemberGrooming(own, stored), Advice!MemberGrooming(own, <<>>))
    <2> SUFFICES ASSUME Advice!MemberGrooming(own, stored).status = "completed"
                 PROVE  stays(Advice!SavedGrooming(stored), Advice!MemberGrooming(own, stored).result,
                             Advice!MemberGrooming(own, <<>>).result)
      BY <1>4
    <2> DEFINE end(looks) == Advice!MemberGrooming(own, looks)
    <2>5. \A looks : end(looks) =
            IF face = Unknown THEN Advice!Refused({"no face shape"})
            ELSE IF own.engine = "knowledge" THEN Advice!Failed({})
            ELSE Advice!Completed(groomed(Advice!SavedGrooming(looks)))
      BY <1>1
    <2>6. Advice!Refused({"no face shape"}).status # "completed" /\ Advice!Failed({}).status # "completed"
      BY DEF Advice!Refused, Advice!Failed
    <2>7. end(stored).status = "completed"
      OBVIOUS
    <2> HIDE DEF end
    <2>1. face # Unknown /\ own.engine # "knowledge"
      BY <2>5, <2>6, <2>7
    <2>2. Advice!MemberGrooming(own, stored).result = groomed(Advice!SavedGrooming(stored))
      BY <1>1, <2>1 DEF Advice!Completed
    <2>3. Advice!MemberGrooming(own, <<>>).result = groomed({})
      <3>1. end(<<>>) = Advice!Completed(groomed(Advice!SavedGrooming(<<>>)))
        BY <2>1, <2>5
      <3>2. Advice!SavedGrooming(<<>>) = {}
        BY NothingSaved
      <3>3. Advice!Completed(groomed({})).result = groomed({})
        BY DEF Advice!Completed
      <3>4. end(<<>>).result = groomed({})
        BY <3>1, <3>2, <3>3
      <3> QED
        BY <3>4 DEF end
    <2> QED
      BY <1>3, <2>2, <2>3
  <1>6. keepsPlaces(Advice!SavedHairstyles(stored), Advice!MemberProfile(own, stored), Advice!MemberProfile(own, <<>>))
    <2> SUFFICES ASSUME Advice!MemberProfile(own, stored).status = "completed"
                 PROVE  stays(Advice!SavedHairstyles(stored), Advice!MemberProfile(own, stored).result,
                             Advice!MemberProfile(own, <<>>).result)
      BY <1>4
    <2> DEFINE end(looks) == Advice!MemberProfile(own, looks)
    <2>5. \A looks : end(looks) =
            IF face = Unknown THEN Advice!Refused({"no face shape"})
            ELSE IF own.engine # "fine" THEN Advice!Failed({})
            ELSE Advice!Completed(styled(Advice!SavedHairstyles(looks)))
      BY <1>2
    <2>6. Advice!Refused({"no face shape"}).status # "completed" /\ Advice!Failed({}).status # "completed"
      BY DEF Advice!Refused, Advice!Failed
    <2>7. end(stored).status = "completed"
      OBVIOUS
    <2> HIDE DEF end
    <2>1. face # Unknown /\ own.engine = "fine"
      BY <2>5, <2>6, <2>7
    <2>2. Advice!MemberProfile(own, stored).result = styled(Advice!SavedHairstyles(stored))
      BY <1>2, <2>1 DEF Advice!Completed
    <2>3. Advice!MemberProfile(own, <<>>).result = styled({})
      <3>1. end(<<>>) = Advice!Completed(styled(Advice!SavedHairstyles(<<>>)))
        BY <2>1, <2>5
      <3>2. Advice!SavedHairstyles(<<>>) = {}
        BY NothingSaved
      <3>3. Advice!Completed(styled({})).result = styled({})
        BY DEF Advice!Completed
      <3>4. end(<<>>).result = styled({})
        BY <3>1, <3>2, <3>3
      <3> QED
        BY <3>4 DEF end
    <2> QED
      BY <1>3, <2>2, <2>3
  <1>7. Advice!SavedGrooming(stored) = {} =>
          /\ Advice!Alike(Advice!GuestGrooming(pass), Advice!MemberGrooming(own, stored))
          /\ Advice!MemberGrooming(own, stored) = Advice!MemberGrooming(own, <<>>)
    BY <1>1, ProfilesAreAlike, NothingSaved DEF own
  <1>8. Advice!SavedHairstyles(stored) = {} => Advice!MemberProfile(own, stored) = Advice!MemberProfile(own, <<>>)
    BY <1>2, NothingSaved
  <1> QED
    BY <1>5, <1>6, <1>7, <1>8 DEF Advice!SavedLooksCount, own, keepsPlaces

-----------------------------------------------------------------------------
(* Each family of cases.                                                      *)

LEMMA EveryOutfitIsSettled ==
    ASSUME NEW c, IsOutfitCase(c)
    PROVE  OutfitsHold(c)
  <1>1. IsChoice(c.choice)
    BY DEF IsOutfitCase, IsChoice, IsWardrobe
  <1> QED
    BY <1>1, ChoicesSettle, ReactionsAreCounted, ReasonsEarned DEF OutfitsHold

LEMMA EveryAdviceIsEven ==
    ASSUME NEW c, IsStylingCase(c)
    PROVE  StylingHolds(c)
  <1>1. CASE /\ c.rule = "ranking"
             /\ c.ranking.engine \in {Advice!Hairstyles, Advice!Grooming}
             /\ DOMAIN c.ranking.asked = {"face", "signals", "preferred", "excluded", "saved"}
             /\ c.ranking.asked.signals \in Nat
    <2>1. c.ranking.engine \in Engines /\ IsAsked(c.ranking.asked)
      BY <1>1 DEF Engines, IsAsked
    <2>2. Advice!PreferencesCount(c.ranking.engine, c.ranking.asked)
      BY <2>1, PreferredIsKept
    <2> QED
      BY <1>1, <2>2 DEF StylingHolds
  <1>2. CASE c.rule = "garment" /\ IsJudged(c.garment) /\ IsRoom(c.room)
    <2>1. Advice!GarmentsAreJudgedEvenly(c.garment, c.room)
      BY <1>2, GarmentsAreEven
    <2> QED
      BY <1>2, <2>1 DEF StylingHolds
  <1> QED
    BY <1>1, <1>2 DEF IsStylingCase, IsJudged, IsRoom

LEMMA EveryGuestIsServed ==
    ASSUME NEW c, IsGuestCase(c)
    PROVE  GuestsHold(c)
  <1>1. CASE c.rule = "image" /\ IsOutcome(c.pass.sight) /\ IsOutcome(c.pass.clothes)
    BY <1>1, HairstylesAreAlike, OutfitsAreAlike, GarmentsAreAlike DEF GuestsHold, Advice!GuestsAreAnsweredAlike
  <1>2. CASE c.rule = "profile" /\ IsProfile(c.pass)
    <2>1. CASE \A f \in DOMAIN c.pass.profile : c.pass.profile[f] # "endless"
      <3>1. Advice!SavedLooksCount(c.pass, c.saved)
        BY <1>2, <2>1, SavedLooksAreCounted
      <3> QED
        BY <1>2, <3>1 DEF GuestsHold
    <2> QED
      BY <1>2, <2>1 DEF GuestsHold
  <1> QED
    BY <1>1, <1>2 DEF IsGuestCase, IsOutcome, IsProfile
-----------------------------------------------------------------------------
(* For you.                                                                   *)

LEMMA ForYouFinite ==
    \A S : /\ ForYou!Cardinality(S) = Cardinality(S)
           /\ ForYou!IsFiniteSet(S) <=> IsFiniteSet(S)
  BY DEF ForYou!Cardinality, Cardinality, ForYou!IsFiniteSet, IsFiniteSet

(* Products, each with its key.                                               *)
IsShelf(P) == /\ IsFiniteSet(P)
              /\ \A p \in P : p.id \in Int /\ p.created \in Int
              /\ \A p, q \in P : p.id = q.id => p = q

LEMMA PartsOfShelves ==
    ASSUME NEW P, IsShelf(P), NEW Q \in SUBSET P
    PROVE  IsShelf(Q)
  BY FS_Subset DEF IsShelf

(* The newest come first.                                                     *)
LEMMA NewestPrecedes ==
    ASSUME NEW p, NEW r, p.created \in Int, r.created \in Int, p.id \in Int, r.id \in Int
    PROVE  ForYou!Precedes("newest", p, r) <=>
              p.created > r.created \/ (p.created = r.created /\ p.id < r.id)
  BY DEF ForYou!Precedes

(* The rank of the products of a shelf, in an order that has a rank.          *)
LEMMA NewestInOrder ==
    ASSUME NEW P, IsShelf(P)
    PROVE  Orders!Enlists(ForYou!InOrder(P, "newest"), P)
  <1> DEFINE R == {x \in P \X P : ForYou!Precedes("newest", x[1], x[2])}
             before(x, y) == x.created > y.created \/ (x.created = y.created /\ x.id < y.id)
  <1>1. \A x, y \in P : <<x, y>> \in R <=> before(x, y)
    BY NewestPrecedes DEF IsShelf
  <1>2. \A x, y \in P : <<x, y>> \in R <=> ForYou!Precedes("newest", x, y)
    OBVIOUS
  <1>3. \A x \in P : {y \in P : <<y, x>> \in R} = {y \in P : ForYou!Precedes("newest", y, x)}
    BY <1>2
  <1> HIDE DEF R
  <1>4. \A x \in P : <<x, x>> \notin R
    BY <1>1 DEF IsShelf
  <1>5. \A x, y \in P : x = y \/ <<x, y>> \in R \/ <<y, x>> \in R
    <2> SUFFICES ASSUME NEW x \in P, NEW y \in P PROVE x = y \/ before(x, y) \/ before(y, x)
      BY <1>1
    <2>1. /\ x.created \in Int /\ y.created \in Int /\ x.id \in Int /\ y.id \in Int
          /\ x.id = y.id => x = y
      BY DEF IsShelf
    <2> QED
      BY <2>1
  <1>6. \A x, y, z \in P : <<x, y>> \in R /\ <<y, z>> \in R => <<x, z>> \in R
    <2> SUFFICES ASSUME NEW x \in P, NEW y \in P, NEW z \in P, before(x, y), before(y, z)
                 PROVE  before(x, z)
      BY <1>1
    <2>1. /\ x.created \in Int /\ y.created \in Int /\ z.created \in Int
          /\ x.id \in Int /\ y.id \in Int /\ z.id \in Int
      BY DEF IsShelf
    <2> QED
      BY <2>1
  <1>7. Orders!IsFiniteSet(P)
    BY OrdersFinite DEF IsShelf
  <1>8. Orders!Enlists(Orders!InTurn(P, R), P)
    BY <1>4, <1>5, <1>6, <1>7, Orders!InTheirOrder
  <1>9. ASSUME NEW n PROVE Orders!Nth(P, R, n) = CHOOSE p \in P : Cardinality({r \in P : ForYou!Precedes("newest", r, p)}) = n - 1
    <2>1. \A x \in P : Orders!Cardinality({y \in P : <<y, x>> \in R}) = n - 1
                     <=> Cardinality({y \in P : ForYou!Precedes("newest", y, x)}) = n - 1
      BY <1>3, OrdersFinite
    <2> QED
      BY <2>1 DEF Orders!Nth
  <1>10. ForYou!InOrder(P, "newest") = Orders!InTurn(P, R)
    <2> DEFINE nth(n) == CHOOSE p \in P : Cardinality({r \in P : ForYou!Precedes("newest", r, p)}) = n - 1
               size == Cardinality(P)
    <2>1. ForYou!InOrder(P, "newest") = [n \in 1 .. size |-> nth(n)]
      BY DEF ForYou!InOrder, ForYou!Cardinality, Cardinality
    <2>2. Orders!InTurn(P, R) = [n \in 1 .. size |-> Orders!Nth(P, R, n)]
      BY OrdersFinite DEF Orders!InTurn
    <2>3. \A n : Orders!Nth(P, R, n) = nth(n)
      BY <1>9
    <2> HIDE DEF nth, size
    <2> QED
      BY <2>1, <2>2, <2>3
  <1> QED
    BY <1>8, <1>10

(* A slice of the retrieval is a part of the list.                            *)
LEMMA SliceIs ==
    \A s, offset, limit : ForYou!Slice(s, offset, limit) = Orders!Part(s, offset, limit)
  BY DEF ForYou!Slice, Orders!Part

(* What fits the criteria, in its order: the rows that SQL selects, and of    *)
(* these, when concepts are asked for, those of the first of them that are    *)
(* mapped to one.                                                             *)
LEMMA FilteredIs ==
    ASSUME NEW q, NEW found, NEW P, Orders!Enlists(found, P)
    PROVE  Orders!Enlists(ForYou!Filtered(q, found), {p \in P : ForYou!Passes(q, p)})
  <1> DEFINE places == {i \in DOMAIN found : ForYou!Passes(q, found[i])}
  <1>1. ForYou!Filtered(q, found) = Orders!AtPlaces(found, places)
    BY DEF ForYou!Filtered, Orders!AtPlaces, Orders!Least, ForYou!Cardinality, Orders!Cardinality
  <1>2. DOMAIN found = 1 .. Len(found) /\ (\A i \in 1 .. Len(found) : found[i] \in P)
        /\ \A p \in P : \E i \in 1 .. Len(found) : found[i] = p
    BY DEF Orders!Enlists
  <1>3. places \in SUBSET (1 .. Len(found))
    BY <1>2
  <1>4. {found[i] : i \in places} = {p \in P : ForYou!Passes(q, p)}
    <2>1. ASSUME NEW i \in places PROVE found[i] \in P /\ ForYou!Passes(q, found[i])
      BY <1>2
    <2>2. ASSUME NEW p \in P, ForYou!Passes(q, p) PROVE \E i \in places : found[i] = p
      BY <1>2, <2>2
    <2> HIDE DEF places
    <2> QED
      BY <2>1, <2>2
  <1> HIDE DEF places
  <1>5. Orders!Enlists(Orders!AtPlaces(found, places), {found[i] : i \in places})
    BY <1>3, Orders!AtPlacesEnlists
  <1> QED
    BY <1>1, <1>4, <1>5

LEMMA MatchingIs ==
    ASSUME NEW P, IsShelf(P), NEW q
    PROVE  \E Q \in SUBSET P :
              /\ Orders!Enlists(ForYou!Matching(P, q, "newest"), Q)
              /\ \A p \in Q : /\ ForYou!Selects(q, p)
                              /\ q.concepts # {} => ForYou!Passes(q, p)
              /\ \A p \in P : ForYou!Selects(q, p) /\ ForYou!Passes(q, p) =>
                    p \in Q \/ (q.concepts # {} /\ Cardinality(P) > RetrievalCap)
  <1> DEFINE S == {p \in P : ForYou!Selects(q, p)}
             s == ForYou!InOrder(S, "newest")
  <1>1. IsShelf(S) /\ IsFiniteSet(P) /\ IsFiniteSet(S) /\ Cardinality(S) <= Cardinality(P)
        /\ Cardinality(S) \in Nat /\ Cardinality(P) \in Nat
    <2>1. S \in SUBSET P
      OBVIOUS
    <2> HIDE DEF S
    <2>2. IsFiniteSet(P) /\ IsShelf(S)
      BY <2>1, PartsOfShelves DEF IsShelf
    <2> QED
      BY <2>1, <2>2, FS_Subset, FS_CardinalityType
  <1>2. Orders!Enlists(s, S)
    BY <1>1, NewestInOrder
  <1>3. Len(s) = Cardinality(S)
    <2> HIDE DEF s, S
    <2> QED
      BY <1>2, Orders!EnlistedLength, OrdersFinite
  <1>4. \A n : ForYou!Rows(P, q, "newest", 0, n) = Orders!Part(s, 0, n)
    BY SliceIs DEF ForYou!Rows
  <1>5. CASE q.concepts = {}
    <2>1. ForYou!Matching(P, q, "newest") = Orders!Part(s, 0, Cardinality(P))
      BY <1>4, <1>5 DEF ForYou!Matching, ForYou!Cardinality, Cardinality
    <2>2. Orders!Part(s, 0, Cardinality(P)) = s
      <3> HIDE DEF s, S
      <3> QED
        BY <1>1, <1>2, <1>3, Orders!BeginningEnlists
    <2> HIDE DEF s
    <2> QED
      BY <1>2, <1>5, <2>1, <2>2
  <1>6. CASE q.concepts # {}
    <2> DEFINE found == Orders!Part(s, 0, RetrievalCap)
               R == {s[i] : i \in 1 .. Orders!Cut(s, RetrievalCap)}
               Q == {p \in R : ForYou!Passes(q, p)}
    <2>1. ForYou!Matching(P, q, "newest") = ForYou!Filtered(q, found)
      BY <1>4, <1>6 DEF ForYou!Matching
    <2>2. Orders!Enlists(found, R) /\ (RetrievalCap >= Len(s) => found = s)
      <3> HIDE DEF s, S
      <3> QED
        BY <1>2, RetrievalBounds, Orders!BeginningEnlists
    <2>3. Orders!Enlists(ForYou!Filtered(q, found), Q)
      <3> HIDE DEF found, R
      <3> QED
        BY <2>2, FilteredIs
    <2>4. R \subseteq S
      <3> HIDE DEF S, s
      <3>1. s \in Seq(S)
        BY <1>2 DEF Orders!Enlists
      <3>2. Orders!Cut(s, RetrievalCap) \in Nat /\ Orders!Cut(s, RetrievalCap) <= Len(s)
        BY <3>1, RetrievalBounds, Orders!Beginning
      <3> QED
        BY <3>1, <3>2
    <2>5. Cardinality(P) <= RetrievalCap => R = S
      <3> HIDE DEF S, s, found, R
      <3> SUFFICES ASSUME Cardinality(P) <= RetrievalCap PROVE R = S
        OBVIOUS
      <3>1. found = s
        BY <1>1, <1>3, <2>2, RetrievalBounds
      <3>2. \A x \in S : \E i \in 1 .. Len(s) : s[i] = x
        BY <1>2 DEF Orders!Enlists
      <3>3. \A i \in 1 .. Len(s) : s[i] \in R
        BY <2>2, <3>1 DEF Orders!Enlists
      <3> QED
        BY <2>4, <3>2, <3>3
    <2> HIDE DEF s, R, found
    <2>6. Q \in SUBSET P
      BY <2>4
    <2>7. \A p \in Q : ForYou!Selects(q, p) /\ ForYou!Passes(q, p)
      BY <2>4
    <2>8. ASSUME NEW p \in P, ForYou!Selects(q, p), ForYou!Passes(q, p), p \notin Q
          PROVE  Cardinality(P) > RetrievalCap
      <3>1. p \in S /\ p \notin R
        BY <2>8
      <3>2. ~ (Cardinality(P) <= RetrievalCap)
        BY <2>5, <3>1
      <3> QED
        BY <1>1, <3>2, RetrievalBounds
    <2> HIDE DEF Q
    <2> QED
      BY <1>6, <2>1, <2>3, <2>6, <2>7, <2>8
  <1> QED
    BY <1>5, <1>6

(* So many pages hold a list, and no fewer.                                   *)
LEMMA PagesHold ==
    ASSUME NEW n \in Nat, NEW size \in Nat \ {0}
    PROVE  /\ ForYou!Pages(n, size) \in Nat /\ ForYou!Pages(n, size) * size >= n
           /\ \A m \in Nat : ForYou!Pages(n, size) > m => n > m * size
  <1> DEFINE a == n + size - 1
             d == ForYou!Pages(n, size)
  <1>1. a \in Nat /\ d = a \div size
    BY DEF ForYou!Pages
  <1> HIDE DEF a
  <1>2. d \in Int /\ size * d <= a /\ a < size * d + size
    BY <1>1
  <1> HIDE DEF d
  <1>3. d \in Nat
    <2> SUFFICES ASSUME d <= -1 PROVE FALSE
      BY <1>2
    <2>1. size * d + size <= 0
      BY <1>2
    <2> QED
      BY <1>1, <1>2, <2>1
  <1>4. size * d = d * size /\ d * size \in Nat
    BY <1>3
  <1>5. d * size >= n
    BY <1>2, <1>4 DEF a
  <1>6. ASSUME NEW m \in Nat, d > m PROVE n > m * size
    <2>1. d * size >= (m + 1) * size
      BY <1>3, <1>6
    <2>2. (m + 1) * size = m * size + size /\ m * size \in Nat
      OBVIOUS
    <2> QED
      BY <1>2, <1>4, <2>1, <2>2 DEF a
  <1> QED
    BY <1>3, <1>5, <1>6 DEF d

LEMMA FlattenIs ==
    \A s : ForYou!FlattenSeq(s) = Orders!FlattenSeq(s)
  BY Zenon DEF ForYou!FlattenSeq, Orders!FlattenSeq

(* The pages of a list that hold it, one after the other, are the list.       *)
LEMMA PagesAreWhole ==
    ASSUME NEW S, NEW s \in Seq(S), NEW k \in Nat, NEW m \in Nat
    PROVE  ForYou!FlattenSeq([n \in 1 .. m |-> ForYou!Slice(s, (n - 1) * k, k)]) = Orders!Part(s, 0, m * k)
  <1>1. [n \in 1 .. m |-> ForYou!Slice(s, (n - 1) * k, k)] = [n \in 1 .. m |-> Orders!Part(s, (n - 1) * k, k)]
    BY SliceIs
  <1> QED
    BY <1>1, FlattenIs, Orders!PartsJoin

LEMMA GreaterOf ==
    ASSUME NEW n \in Int
    PROVE  ForYou!Max({1, n}) = IF n < 1 THEN 1 ELSE n
  <1> DEFINE m == IF n < 1 THEN 1 ELSE n
  <1>1. m \in {1, n} /\ \A y \in {1, n} : m >= y
    OBVIOUS
  <1>2. \A x \in {1, n} : (\A y \in {1, n} : x >= y) => x = m
    OBVIOUS
  <1> HIDE DEF m
  <1>3. ForYou!Max({1, n}) = m
    BY <1>1, <1>2 DEF ForYou!Max
  <1> QED
    BY <1>3 DEF m

(* The pool: products that SQL selects, and of what fits all that does not    *)
(* exceed the bounds.                                                         *)
LEMMA PoolIs ==
    ASSUME NEW P, IsShelf(P), NEW q
    PROVE  LET Q == ForYou!Range(ForYou!Pool(P, q))
           IN  /\ Q \in SUBSET P
               /\ \A p \in Q : /\ ForYou!Selects(q, p)
                               /\ q.concepts # {} => ForYou!Passes(q, p)
               /\ \A p \in P : ForYou!Selects(q, p) /\ ForYou!Passes(q, p) =>
                     \/ p \in Q
                     \/ q.concepts # {} /\ Cardinality(P) > RetrievalCap
                     \/ Cardinality(Q) = RetrievalPages * RetrievalPage
  <1> DEFINE M == ForYou!Matching(P, q, "newest")
             sheets == ForYou!Pages(Len(M), RetrievalPage)
             last == IF sheets < RetrievalPages THEN sheets ELSE RetrievalPages
             m == ForYou!Max({1, last})
             lot == ForYou!Pool(P, q)
             Q == ForYou!Range(lot)
  <1>1. PICK W \in SUBSET P :
              /\ Orders!Enlists(M, W)
              /\ \A p \in W : /\ ForYou!Selects(q, p)
                              /\ q.concepts # {} => ForYou!Passes(q, p)
              /\ \A p \in P : ForYou!Selects(q, p) /\ ForYou!Passes(q, p) =>
                    p \in W \/ (q.concepts # {} /\ Cardinality(P) > RetrievalCap)
    BY MatchingIs
  <1>2. lot = ForYou!FlattenSeq([n \in 1 .. m |-> ForYou!Slice(M, (n - 1) * RetrievalPage, RetrievalPage)])
    <2>1. \A n : ForYou!Retrieve(P, q, "newest", n, RetrievalPage).items = ForYou!Slice(M, (n - 1) * RetrievalPage, RetrievalPage)
      BY DEF ForYou!Retrieve
    <2>2. ForYou!Retrieve(P, q, "newest", 1, RetrievalPage).pages = sheets
      BY DEF ForYou!Retrieve
    <2>3. lot = ForYou!FlattenSeq([n \in 1 .. m |-> ForYou!Retrieve(P, q, "newest", n, RetrievalPage).items])
      <3> HIDE DEF M, sheets
      <3> QED
        BY <2>2 DEF ForYou!Pool
    <2> HIDE DEF M, m
    <2> QED
      BY <2>1, <2>3
  <1> HIDE DEF M, lot
  <1>3. M \in Seq(W) /\ Len(M) \in Nat /\ RetrievalPage \in Nat /\ RetrievalPages \in Nat \ {0}
        /\ \A x \in W : \E i \in 1 .. Len(M) : M[i] = x
    BY <1>1, RetrievalBounds DEF Orders!Enlists
  <1>4. /\ sheets \in Nat /\ sheets * RetrievalPage >= Len(M)
        /\ sheets > RetrievalPages => Len(M) > RetrievalPages * RetrievalPage
    <2> HIDE DEF sheets
    <2>1. /\ sheets \in Nat /\ sheets * RetrievalPage >= Len(M)
          /\ \A n \in Nat : sheets > n => Len(M) > n * RetrievalPage
      BY <1>3, RetrievalBounds, PagesHold DEF sheets
    <2> QED
      BY <1>3, <2>1
  <1> HIDE DEF sheets
  <1>5. m = IF last < 1 THEN 1 ELSE last
    <2>1. last \in Int
      BY <1>3, <1>4
    <2> HIDE DEF last
    <2> QED
      BY <2>1, GreaterOf
  <1>6. m \in Nat /\ m * RetrievalPage \in Nat
        /\ \/ m * RetrievalPage >= Len(M)
           \/ m = RetrievalPages /\ Len(M) > m * RetrievalPage
    <2> HIDE DEF m
    <2>1. m \in Nat
      BY <1>3, <1>4, <1>5
    <2>2. CASE sheets <= RetrievalPages
      <3>1. m >= sheets
        BY <1>3, <1>4, <1>5, <2>2
      <3>2. m * RetrievalPage >= sheets * RetrievalPage
        BY <1>3, <1>4, <2>1, <3>1
      <3>3. m * RetrievalPage \in Nat /\ sheets * RetrievalPage \in Nat
        BY <1>3, <1>4, <2>1
      <3> QED
        BY <1>3, <1>4, <2>1, <3>2, <3>3
    <2>3. CASE sheets > RetrievalPages
      <3>1. m = RetrievalPages
        BY <1>3, <1>4, <1>5, <2>3
      <3>2. m * RetrievalPage \in Nat
        BY <1>3, <2>1
      <3> QED
        BY <1>3, <1>4, <2>1, <2>3, <3>1, <3>2
    <2> QED
      BY <1>3, <1>4, <2>2, <2>3
  <1> DEFINE k == m * RetrievalPage
  <1>7. lot = Orders!Part(M, 0, k)
    <2> HIDE DEF m
    <2> QED
      BY <1>2, <1>3, <1>6, PagesAreWhole
  <1> HIDE DEF k, m
  <1> DEFINE size == Orders!Cut(M, k)
  <1>8. k \in Nat /\ (k >= Len(M) \/ (k = RetrievalPages * RetrievalPage /\ Len(M) > k))
    BY <1>6 DEF k
  <1>9. /\ Orders!Enlists(lot, {M[i] : i \in 1 .. size}) /\ (k >= Len(M) => lot = M)
        /\ Len(lot) = size /\ (\A i \in 1 .. size : lot[i] = M[i]) /\ lot \in Seq(W)
        /\ size \in Nat /\ size <= Len(M)
    <2> HIDE DEF size
    <2>1. Orders!Enlists(lot, {M[i] : i \in 1 .. size}) /\ (k >= Len(M) => lot = M)
      BY <1>1, <1>7, <1>8, Orders!BeginningEnlists DEF size
    <2>2. /\ Len(lot) = size /\ (\A i \in 1 .. size : lot[i] = M[i]) /\ lot \in Seq(W)
          /\ size \in Nat /\ size <= Len(M)
      BY <1>3, <1>7, <1>8, Orders!Beginning DEF size
    <2> QED
      BY <2>1, <2>2
  <1> HIDE DEF size
  <1>10. Q = {M[i] : i \in 1 .. size}
    <2>1. Q = {lot[i] : i \in DOMAIN lot} /\ DOMAIN lot = 1 .. size
      BY <1>9 DEF ForYou!Range
    <2> HIDE DEF Q
    <2> QED
      BY <1>9, <2>1
  <1>11. Cardinality(Q) = size
    <2> HIDE DEF Q
    <2>1. Orders!Enlists(lot, Q)
      BY <1>9, <1>10
    <2> QED
      BY <1>9, <2>1, Orders!EnlistedLength, OrdersFinite
  <1>12. Q \subseteq W
    <2> HIDE DEF Q
    <2>1. \A i \in 1 .. size : i \in 1 .. Len(M)
      BY <1>3, <1>9
    <2>2. \A i \in 1 .. Len(M) : M[i] \in W
      BY <1>3
    <2> QED
      BY <1>10, <2>1, <2>2
  <1>13. CASE k >= Len(M)
    <2>1. Q = W
      <3> HIDE DEF Q
      <3>1. lot = M /\ size = Len(M)
        BY <1>9, <1>13
      <3> QED
        BY <1>3, <1>10, <1>12, <3>1
    <2> HIDE DEF Q
    <2> QED
      BY <1>1, <2>1 DEF Q, lot
  <1>14. CASE k = RetrievalPages * RetrievalPage /\ Len(M) > k
    <2>1. size = k
      BY <1>3, <1>8, <1>14 DEF size, Orders!Cut
    <2>2. Cardinality(Q) = RetrievalPages * RetrievalPage
      BY <1>11, <1>14, <2>1
    <2> HIDE DEF Q
    <2> QED
      BY <1>1, <1>12, <2>2 DEF Q, lot
  <1> QED
    BY <1>8, <1>13, <1>14

(* The points of a product, as a sum of Folding: all of them are a hundred.   *)
LEMMA PointsAddUp ==
    \A S : ForYou!MapThenSumSet(LAMBDA d : ForYou!Points[d], S) = Orders!SumOver(ForYou!Points, S)
  BY Zenon DEF ForYou!MapThenSumSet, ForYou!MapThenFoldSet, Orders!SumOver, Orders!Sums, Orders!AddUp

Dimensions == {"category", "brand", "color", "material", "fit", "silhouette", "aesthetic", "occasion",
               "palette", "gap", "quality", "stock", "price", "budget"}

LEMMA AllPoints ==
    /\ IsFiniteSet(Dimensions) /\ \A d \in Dimensions : ForYou!Points[d] \in Nat
    /\ Orders!SumOver(ForYou!Points, Dimensions) = 100
  <1> DEFINE sum(T) == Orders!SumOver(ForYou!Points, T)
             point(d) == ForYou!Points[d]
  <1>1. /\ point("category") = 10 /\ point("brand") = 10 /\ point("color") = 8 /\ point("material") = 6
        /\ point("fit") = 3 /\ point("silhouette") = 3 /\ point("aesthetic") = 15 /\ point("occasion") = 10
        /\ point("palette") = 10 /\ point("gap") = 5 /\ point("quality") = 5
        /\ point("stock") = 5 /\ point("price") = 5 /\ point("budget") = 5
    BY DEF ForYou!Points
  <1>2. \A d \in Dimensions : point(d) \in Nat
    <2> HIDE DEF point
    <2> QED
      BY <1>1 DEF Dimensions
  <1> HIDE DEF point
  <1>3. sum({}) = 0 /\ IsFiniteSet({})
    <2>1. Orders!IsFiniteSet({}) /\ IsFiniteSet({})
      BY FS_EmptySet, OrdersFinite
    <2>2. \A x \in {} : ForYou!Points[x] \in Int
      OBVIOUS
    <2> QED
      BY <2>1, <2>2, Orders!SumsAddUp
  <1>4. ASSUME NEW T \in SUBSET Dimensions, IsFiniteSet(T), NEW d \in Dimensions, d \notin T
        PROVE  IsFiniteSet(T \cup {d}) /\ sum(T \cup {d}) = point(d) + sum(T)
    <2> DEFINE U == T \cup {d}
    <2>1. d \in U /\ U \ {d} = T /\ U \in SUBSET Dimensions
      BY <1>4
    <2>2. IsFiniteSet(U)
      BY <1>4, FS_AddElement
    <2> HIDE DEF U
    <2>3. Orders!IsFiniteSet(U)
      BY <2>2, OrdersFinite
    <2>4. \A x \in U : ForYou!Points[x] \in Int
      BY <1>2, <2>1 DEF point
    <2>5. \A x \in U : sum(U) = ForYou!Points[x] + sum(U \ {x})
      BY <2>3, <2>4, Orders!SumsAddUp
    <2> HIDE DEF sum
    <2> QED
      BY <2>1, <2>2, <2>5 DEF U, point
  <1> HIDE DEF sum
  <1> DEFINE A1 == {} \cup {"category"}
             A2 == A1 \cup {"brand"}
             A3 == A2 \cup {"color"}
             A4 == A3 \cup {"material"}
             A5 == A4 \cup {"fit"}
             A6 == A5 \cup {"silhouette"}
             A7 == A6 \cup {"aesthetic"}
             A8 == A7 \cup {"occasion"}
             A9 == A8 \cup {"palette"}
             A10 == A9 \cup {"gap"}
             A11 == A10 \cup {"quality"}
             A12 == A11 \cup {"stock"}
             A13 == A12 \cup {"price"}
             A14 == A13 \cup {"budget"}
  <1>5. A14 = Dimensions
    BY DEF Dimensions
  <1>6. IsFiniteSet(A1) /\ sum(A1) = 10
    <2>1. "category" \in Dimensions /\ {} \in SUBSET Dimensions
      BY DEF Dimensions
    <2>2. IsFiniteSet({} \cup {"category"}) /\ sum({} \cup {"category"}) = point("category") + sum({})
      BY <1>3, <1>4, <2>1
    <2> QED
      BY <1>1, <1>3, <2>2
  <1>7. IsFiniteSet(A2) /\ sum(A2) = 20
    <2>1. A1 \in SUBSET Dimensions /\ "brand" \in Dimensions /\ "brand" \notin A1
      BY DEF Dimensions
    <2> HIDE DEF A1
    <2> QED
      BY <1>1, <1>4, <1>6, <2>1
  <1>8. IsFiniteSet(A3) /\ sum(A3) = 28
    <2>1. A2 \in SUBSET Dimensions /\ "color" \in Dimensions /\ "color" \notin A2
      BY DEF Dimensions
    <2> HIDE DEF A2
    <2> QED
      BY <1>1, <1>4, <1>7, <2>1
  <1>9. IsFiniteSet(A4) /\ sum(A4) = 34
    <2>1. A3 \in SUBSET Dimensions /\ "material" \in Dimensions /\ "material" \notin A3
      BY DEF Dimensions
    <2> HIDE DEF A3
    <2> QED
      BY <1>1, <1>4, <1>8, <2>1
  <1>10. IsFiniteSet(A5) /\ sum(A5) = 37
    <2>1. A4 \in SUBSET Dimensions /\ "fit" \in Dimensions /\ "fit" \notin A4
      BY DEF Dimensions
    <2> HIDE DEF A4
    <2> QED
      BY <1>1, <1>4, <1>9, <2>1
  <1>11. IsFiniteSet(A6) /\ sum(A6) = 40
    <2>1. A5 \in SUBSET Dimensions /\ "silhouette" \in Dimensions /\ "silhouette" \notin A5
      BY DEF Dimensions
    <2> HIDE DEF A5
    <2> QED
      BY <1>1, <1>4, <1>10, <2>1
  <1>12. IsFiniteSet(A7) /\ sum(A7) = 55
    <2>1. A6 \in SUBSET Dimensions /\ "aesthetic" \in Dimensions /\ "aesthetic" \notin A6
      BY DEF Dimensions
    <2> HIDE DEF A6
    <2> QED
      BY <1>1, <1>4, <1>11, <2>1
  <1>13. IsFiniteSet(A8) /\ sum(A8) = 65
    <2>1. A7 \in SUBSET Dimensions /\ "occasion" \in Dimensions /\ "occasion" \notin A7
      BY DEF Dimensions
    <2> HIDE DEF A7
    <2> QED
      BY <1>1, <1>4, <1>12, <2>1
  <1>14. IsFiniteSet(A9) /\ sum(A9) = 75
    <2>1. A8 \in SUBSET Dimensions /\ "palette" \in Dimensions /\ "palette" \notin A8
      BY DEF Dimensions
    <2> HIDE DEF A8
    <2> QED
      BY <1>1, <1>4, <1>13, <2>1
  <1>15. IsFiniteSet(A10) /\ sum(A10) = 80
    <2>1. A9 \in SUBSET Dimensions /\ "gap" \in Dimensions /\ "gap" \notin A9
      BY DEF Dimensions
    <2> HIDE DEF A9
    <2> QED
      BY <1>1, <1>4, <1>14, <2>1
  <1>16. IsFiniteSet(A11) /\ sum(A11) = 85
    <2>1. A10 \in SUBSET Dimensions /\ "quality" \in Dimensions /\ "quality" \notin A10
      BY DEF Dimensions
    <2> HIDE DEF A10
    <2> QED
      BY <1>1, <1>4, <1>15, <2>1
  <1>17. IsFiniteSet(A12) /\ sum(A12) = 90
    <2>1. A11 \in SUBSET Dimensions /\ "stock" \in Dimensions /\ "stock" \notin A11
      BY DEF Dimensions
    <2> HIDE DEF A11
    <2> QED
      BY <1>1, <1>4, <1>16, <2>1
  <1>18. IsFiniteSet(A13) /\ sum(A13) = 95
    <2>1. A12 \in SUBSET Dimensions /\ "price" \in Dimensions /\ "price" \notin A12
      BY DEF Dimensions
    <2> HIDE DEF A12
    <2> QED
      BY <1>1, <1>4, <1>17, <2>1
  <1>19. IsFiniteSet(A14) /\ sum(A14) = 100
    <2>1. A13 \in SUBSET Dimensions /\ "budget" \in Dimensions /\ "budget" \notin A13
      BY DEF Dimensions
    <2> HIDE DEF A13
    <2> QED
      BY <1>1, <1>4, <1>18, <2>1
  <1> QED
    BY <1>2, <1>5, <1>19 DEF sum, point

LEMMA ScoreIsBounded ==
    ASSUME NEW c, NEW p
    PROVE  ForYou!Score(c, p) \in Int /\ 100 >= ForYou!Score(c, p)
  <1> DEFINE A == ForYou!Awards(c, p)
  <1>1. A \in SUBSET Dimensions
    BY DEF ForYou!Awards, ForYou!Preferred, ForYou!Styled, ForYou!Complementing, ForYou!Affordable,
           ForYou!Labels, ForYou!Traits, Dimensions
  <1>2. ForYou!Score(c, p) = Orders!SumOver(ForYou!Points, A)
    BY PointsAddUp DEF ForYou!Score
  <1> HIDE DEF A
  <1>3. IsFiniteSet(A) /\ Orders!IsFiniteSet(A) /\ Orders!IsFiniteSet(Dimensions)
    BY <1>1, AllPoints, OrdersFinite, FS_Subset
  <1>4. Orders!SumOver(ForYou!Points, A) \in Int
    <2>1. \A x \in A : ForYou!Points[x] \in Int
      BY <1>1, AllPoints
    <2> QED
      BY <1>3, <2>1, Orders!SumsAddUp
  <1>5. Orders!SumOver(ForYou!Points, A) <= Orders!SumOver(ForYou!Points, Dimensions)
    BY <1>1, <1>3, AllPoints, Orders!SumsGrow
  <1> QED
    BY <1>2, <1>4, <1>5, AllPoints

(* Points are given for what is known only.                                   *)
LEMMA AwardsAreKnown ==
    ASSUME NEW c, NEW p
    PROVE  ForYou!Awards(c, p) \cap ForYou!Neutral(c, p) = {}
  <1> SUFFICES ASSUME NEW d \in ForYou!Awards(c, p), d \in ForYou!Neutral(c, p) PROVE FALSE
    OBVIOUS
  <1> DEFINE likes == c.prefs.likes
  <1>1. CASE d \in ForYou!Preferred(c, p)
    <2>1. d \in ForYou!Labels \cup ForYou!Traits
      BY <1>1 DEF ForYou!Preferred
    <2>2. likes[d] # {}
      <3>1. CASE d \in ForYou!Labels /\ ForYou!Is(p, d, likes[d])
        BY <3>1 DEF ForYou!Is
      <3>2. CASE /\ d \in ForYou!Traits
                 /\ \/ ForYou!Mentions(p, d, likes[d]) \/ ForYou!Is(p, d, likes[d])
                    \/ ForYou!OfKind(p, ForYou!Kinds(d)) \cap likes[d] # {}
        BY <3>2 DEF ForYou!Is, ForYou!Mentions
      <3> QED
        BY <1>1, <3>1, <3>2 DEF ForYou!Preferred
    <2>3. d \in {k \in ForYou!Likes \ {"aesthetic"} : likes[k] = {}}
      BY <2>1 DEF ForYou!Neutral, ForYou!Labels, ForYou!Traits
    <2> QED
      BY <2>2, <2>3
  <1>2. CASE d \in ForYou!Styled(c, p)
    <2>1. CASE d = "aesthetic"
      <3>1. ForYou!Wanted(c) # {}
        BY <1>2, <2>1 DEF ForYou!Styled
      <3> QED
        BY <2>1, <3>1 DEF ForYou!Neutral
    <2>2. CASE d = "occasion"
      <3>1. likes["occasion"] # {}
        BY <1>2, <2>2 DEF ForYou!Styled
      <3> QED
        BY <2>2, <3>1 DEF ForYou!Neutral
    <2> QED
      BY <1>2, <2>1, <2>2 DEF ForYou!Styled
  <1>3. CASE d \in ForYou!Complementing(c, p)
    <2>1. d \in {"palette", "gap", "quality"} /\ c.wardrobe # {}
      BY <1>3 DEF ForYou!Complementing
    <2> QED
      BY <2>1 DEF ForYou!Neutral, ForYou!Likes, ForYou!Labels, ForYou!Traits
  <1>4. CASE d \in ForYou!Affordable(c, p)
    <2>1. \/ d = "stock" /\ p.available = TRUE
          \/ d = "price" /\ p.price # Unknown
          \/ d = "budget" /\ p.price # Unknown
      BY <1>4 DEF ForYou!Affordable
    <2>2. TRUE # Unknown
      BY UnknownAssumption
    <2> QED
      BY <2>1, <2>2 DEF ForYou!Neutral, ForYou!Likes, ForYou!Labels, ForYou!Traits
  <1> QED
    BY <1>1, <1>2, <1>3, <1>4 DEF ForYou!Awards

(* The ranking: the best come first, and of equals the newest.                *)
LEMMA RankedInOrder ==
    ASSUME NEW c, NEW P, IsShelf(P)
    PROVE  LET q == ForYou!Ranked(c, P)
           IN  /\ Orders!Enlists(q, P) /\ Len(q) = Cardinality(P)
               /\ \A i, j \in 1 .. Cardinality(P) : i < j => ForYou!Score(c, q[i]) >= ForYou!Score(c, q[j])
  <1> DEFINE R == {x \in P \X P : ForYou!Ahead(c, x[1], x[2])}
             score(x) == ForYou!Score(c, x)
             newer(x, y) == x.created > y.created \/ (x.created = y.created /\ x.id < y.id)
             before(x, y) == score(x) > score(y) \/ (score(x) = score(y) /\ newer(x, y))
             q == ForYou!Ranked(c, P)
             size == Cardinality(P)
  <1>1. \A x \in P : /\ score(x) \in Int /\ x.created \in Int /\ x.id \in Int
                     /\ \A y \in P : x.id = y.id => x = y
    BY ScoreIsBounded DEF IsShelf
  <1>2. \A x, y \in P : <<x, y>> \in R <=> ForYou!Ahead(c, x, y)
    OBVIOUS
  <1>3. \A x, y \in P : <<x, y>> \in R <=> before(x, y)
    BY <1>1, <1>2, NewestPrecedes DEF ForYou!Ahead
  <1>4. \A x \in P : {y \in P : <<y, x>> \in R} = {y \in P : ForYou!Ahead(c, y, x)}
    BY <1>2
  <1> HIDE DEF R, score
  <1>5. \A x \in P : <<x, x>> \notin R
    BY <1>1, <1>3
  <1>6. \A x, y \in P : x = y \/ <<x, y>> \in R \/ <<y, x>> \in R
    <2> SUFFICES ASSUME NEW x \in P, NEW y \in P PROVE x = y \/ before(x, y) \/ before(y, x)
      BY <1>3
    <2>1. /\ score(x) \in Int /\ score(y) \in Int /\ x.created \in Int /\ y.created \in Int
          /\ x.id \in Int /\ y.id \in Int
          /\ x.id = y.id => x = y
      BY <1>1
    <2> QED
      BY <2>1
  <1>7. \A x, y, z \in P : <<x, y>> \in R /\ <<y, z>> \in R => <<x, z>> \in R
    <2> SUFFICES ASSUME NEW x \in P, NEW y \in P, NEW z \in P, before(x, y), before(y, z)
                 PROVE  before(x, z)
      BY <1>3
    <2>1. /\ score(x) \in Int /\ score(y) \in Int /\ score(z) \in Int
          /\ x.created \in Int /\ y.created \in Int /\ z.created \in Int
          /\ x.id \in Int /\ y.id \in Int /\ z.id \in Int
      BY <1>1
    <2> QED
      BY <2>1
  <1>8. Orders!IsFiniteSet(P)
    BY OrdersFinite DEF IsShelf
  <1>9. /\ Orders!Enlists(Orders!InTurn(P, R), P) /\ Len(Orders!InTurn(P, R)) = size
        /\ \A i, j \in 1 .. size : i < j => <<Orders!InTurn(P, R)[i], Orders!InTurn(P, R)[j]>> \in R
    BY <1>5, <1>6, <1>7, <1>8, Orders!InTheirOrder, OrdersFinite
  <1>10. ASSUME NEW n PROVE Orders!Nth(P, R, n) = CHOOSE p \in P : Cardinality({r \in P : ForYou!Ahead(c, r, p)}) = n - 1
    <2>1. \A x \in P : Orders!Cardinality({y \in P : <<y, x>> \in R}) = n - 1
                     <=> Cardinality({y \in P : ForYou!Ahead(c, y, x)}) = n - 1
      BY <1>4, OrdersFinite
    <2> QED
      BY <2>1 DEF Orders!Nth
  <1>11. q = Orders!InTurn(P, R)
    <2> DEFINE nth(n) == CHOOSE p \in P : Cardinality({r \in P : ForYou!Ahead(c, r, p)}) = n - 1
    <2>1. q = [n \in 1 .. size |-> nth(n)]
      BY DEF ForYou!Ranked, ForYou!Cardinality, Cardinality
    <2>2. Orders!InTurn(P, R) = [n \in 1 .. size |-> Orders!Nth(P, R, n)]
      BY OrdersFinite DEF Orders!InTurn
    <2>3. \A n : Orders!Nth(P, R, n) = nth(n)
      BY <1>10
    <2> HIDE DEF nth, size, q
    <2> QED
      BY <2>1, <2>2, <2>3
  <1> HIDE DEF q, size
  <1>12. ASSUME NEW i \in 1 .. size, NEW j \in 1 .. size, i < j
         PROVE  score(q[i]) >= score(q[j])
    <2>1. q[i] \in P /\ q[j] \in P
      BY <1>9, <1>11 DEF Orders!Enlists
    <2>2. before(q[i], q[j])
      BY <1>3, <1>9, <1>11, <1>12, <2>1
    <2> QED
      BY <1>1, <2>1, <2>2
  <1> QED
    BY <1>9, <1>11, <1>12 DEF score, q, size

(* What SQL selects fits in memory, and what fits in memory and is not lost   *)
(* is selected.                                                               *)
LEMMA SelectedPasses ==
    ASSUME NEW q, NEW p, ForYou!Selects(q, p), q.concepts # {} => ForYou!Passes(q, p)
    PROVE  ForYou!Passes(q, p)
  <1>1. CASE q.concepts # {}
    BY <1>1
  <1>2. CASE q.concepts = {}
    <2>1. ASSUME NEW c \in ForYou!Labels
          PROVE  /\ q.include[c] # {} => ForYou!Is(p, c, q.include[c])
                 /\ ~ ForYou!Is(p, c, q.exclude[c])
      <3>1. q.exclude[c] # {} => ForYou!NotIn(p, c, q.exclude[c])
        BY DEF ForYou!Selects
      <3>2. ~ ForYou!Is(p, c, q.exclude[c])
        BY <3>1 DEF ForYou!NotIn, ForYou!Is
      <3> QED
        BY <3>2 DEF ForYou!Selects
    <2>2. ASSUME NEW t \in ForYou!Traits, q.traits[t] # {} PROVE ForYou!Mentions(p, t, q.traits[t])
      <3>1. ForYou!Is(p, t, q.traits[t])
        BY <2>2 DEF ForYou!Selects
      <3> QED
        BY <3>1 DEF ForYou!Is, ForYou!Mentions
    <2> QED
      BY <1>2, <2>1, <2>2 DEF ForYou!Selects, ForYou!Passes
  <1> QED
    BY <1>1, <1>2

LEMMA PassingIsSelected ==
    ASSUME NEW q, NEW p, ForYou!Passes(q, p), ~ ForYou!IsLost(q, p),
           \A t \in ForYou!Traits : IsFiniteSet(p.text[t])
    PROVE  ForYou!Selects(q, p)
  <1>1. ASSUME NEW c \in ForYou!Labels
        PROVE  /\ q.include[c] # {} => ForYou!Is(p, c, q.include[c])
               /\ q.exclude[c] # {} => ForYou!NotIn(p, c, q.exclude[c])
    BY DEF ForYou!Passes, ForYou!IsLost, ForYou!NotIn
  <1>2. ASSUME NEW t \in ForYou!Traits, q.traits[t] # {} PROVE ForYou!Is(p, t, q.traits[t])
    <2> DEFINE T == p.text[t]
    <2>1. q.traits[t] \cap T # {}
      BY <1>2 DEF ForYou!Passes, ForYou!Mentions
    <2>2. ~ (Cardinality(T) > 1)
      <3>1. ~ (ForYou!Cardinality(T) > 1)
        BY <1>2 DEF ForYou!IsLost
      <3> QED
        BY <3>1, ForYouFinite
    <2>3. IsFiniteSet(T)
      OBVIOUS
    <2> HIDE DEF T
    <2>4. PICK w \in q.traits[t] : w \in T
      BY <2>1
    <2>5. T = {w}
      <3>1. SUFFICES ASSUME NEW v \in T, v # w PROVE FALSE
        BY <2>4
      <3>2. IsFiniteSet(T \ {w}) /\ Cardinality(T \ {w}) = Cardinality(T) - 1 /\ Cardinality(T) \in Nat
        BY <2>3, <2>4, FS_RemoveElement, FS_CardinalityType
      <3>3. Cardinality(T \ {w}) # 0 /\ Cardinality(T \ {w}) \in Nat
        BY <3>1, <3>2, FS_EmptySet, FS_CardinalityType
      <3> QED
        BY <2>2, <3>2, <3>3
    <2> QED
      BY <2>5 DEF T, ForYou!Is
  <1> QED
    BY <1>1, <1>2 DEF ForYou!Passes, ForYou!Selects

(* What a profile excludes, and its budget, are limits unless the request     *)
(* says otherwise.                                                            *)
LEMMA LimitsOfProfiles ==
    ASSUME NEW r, DOMAIN r.criteria =
               {"include", "exclude", "traits", "min", "max", "currency",
                "priced", "pictured", "stocked", "made", "concepts", "words"}
    PROVE  LET profile == ForYou!Normalized(r.stored, r.alias)
               hard == ForYou!Hard(r)
           IN  /\ \A c \in ForYou!Labels :
                     ~ r.guest /\ r.criteria.exclude[c] \cup r.explicit.dislikes[c] = {}
                         => hard.exclude[c] = profile.dislikes[c]
               /\ ~ r.guest /\ r.criteria.max = Unknown /\ r.explicit.max = Unknown => hard.max = profile.max
               /\ hard.concepts = r.criteria.concepts
  <1> DEFINE profile == ForYou!Normalized(r.stored, r.alias)
             hard == ForYou!Hard(r)
             wishes == ForYou!Context(r).prefs
  <1>1. ~ r.guest => wishes = ForYou!Merged(r.explicit, profile)
    BY DEF ForYou!Context
  <1>2. /\ hard.exclude = [c \in ForYou!Labels |-> ForYou!Given(r.criteria.exclude[c], wishes.dislikes[c], {})]
        /\ hard.max = ForYou!Given(r.criteria.max, wishes.max, Unknown)
        /\ hard.concepts = r.criteria.concepts
    <2> HIDE DEF wishes
    <2> QED
      BY DEF ForYou!Hard, wishes
  <1> HIDE DEF profile, hard, wishes
  <1>3. ~ r.guest => /\ wishes.max = ForYou!Given(r.explicit.max, profile.max, Unknown)
                     /\ \A c \in ForYou!Labels :
                           wishes.dislikes[c] = ForYou!Given(r.explicit.dislikes[c], profile.dislikes[c], {})
    BY <1>1 DEF ForYou!Merged
  <1> QED
    BY <1>2, <1>3 DEF ForYou!Given, profile, hard

LEMMA EveryoneIsShown ==
    ASSUME NEW c, IsForYouCase(c)
    PROVE  ForYou!IsWanted(c.catalogue, c.request, c.size)
  <1> DEFINE P == c.catalogue
             r == c.request
             size == c.size
             hard == ForYou!Hard(r)
             context == ForYou!Context(r)
             Q == ForYou!Range(ForYou!Pool(P, hard))
             ranked == ForYou!Ranked(context, Q)
             whole == ForYou!ForYou(P, r, 1, Cardinality(P))
             paged == ForYou!FlattenSeq([n \in 1 .. ForYou!Pages(whole.total, size) |-> ForYou!ForYou(P, r, n, size).items])
             profile == ForYou!Normalized(r.stored, r.alias)
             score(i) == ForYou!Score(context, paged[i])
  <1>1. /\ IsShelf(P) /\ size \in Nat \ {0} /\ IsFiniteSet(P) /\ Cardinality(P) \in Nat
        /\ \A p \in P : \A t \in ForYou!Traits : IsFiniteSet(p.text[t])
    BY FS_CardinalityType DEF IsForYouCase, IsShelf
  <1>2. /\ \A k \in ForYou!Labels :
              ~ r.guest /\ r.criteria.exclude[k] \cup r.explicit.dislikes[k] = {}
                  => hard.exclude[k] = profile.dislikes[k]
        /\ ~ r.guest /\ r.criteria.max = Unknown /\ r.explicit.max = Unknown => hard.max = profile.max
        /\ hard.concepts = r.criteria.concepts
    BY LimitsOfProfiles DEF IsForYouCase
  <1>3. /\ Q \in SUBSET P
        /\ \A p \in Q : /\ ForYou!Selects(hard, p)
                        /\ hard.concepts # {} => ForYou!Passes(hard, p)
        /\ \A p \in P : ForYou!Selects(hard, p) /\ ForYou!Passes(hard, p) =>
              \/ p \in Q
              \/ hard.concepts # {} /\ Cardinality(P) > RetrievalCap
              \/ Cardinality(Q) = RetrievalPages * RetrievalPage
    <2> HIDE DEF P, hard
    <2> QED
      BY <1>1, PoolIs
  <1>4. ForYou!IsWanted(c.catalogue, c.request, c.size) <=>
           (~ whole.failed =>
              /\ paged = whole.items
              /\ \A i, j \in DOMAIN paged : i < j => paged[i] # paged[j] /\ score(i) >= score(j)
              /\ \A p \in ForYou!Range(paged) :
                    /\ ForYou!Passes(hard, p)
                    /\ \A k \in ForYou!Labels :
                          ~ r.guest /\ r.criteria.exclude[k] \cup r.explicit.dislikes[k] = {}
                              => ~ ForYou!Is(p, k, profile.dislikes[k])
                    /\ (~ r.guest /\ r.criteria.max = Unknown /\ r.explicit.max = Unknown /\ profile.max # Unknown
                              => p.price <= profile.max)
                    /\ 100 >= ForYou!Score(context, p)
                    /\ ForYou!Awards(context, p) \cap ForYou!Neutral(context, p) = {}
              /\ \A p \in P \ ForYou!Range(paged) :
                    ForYou!Passes(hard, p) => \/ ForYou!IsLost(hard, p)
                                              \/ Len(paged) = RetrievalPages * RetrievalPage
                                              \/ r.criteria.concepts # {} /\ Cardinality(P) > RetrievalCap)
    BY DEF ForYou!IsWanted, ForYou!Cardinality, Cardinality
  <1>5. whole.failed \/
        /\ whole.total = Len(ranked) /\ whole.items = ForYou!Slice(ranked, (1 - 1) * Cardinality(P), Cardinality(P))
        /\ \A n : ForYou!ForYou(P, r, n, size).items = ForYou!Slice(ranked, (n - 1) * size, size)
    <2> HIDE DEF ranked
    <2>1. ForYou!Ranked(ForYou!Context(r), ForYou!Range(ForYou!Pool(P, ForYou!Hard(r)))) = ranked
      BY DEF ranked
    <2> HIDE DEF P, r, size
    <2> QED
      BY <2>1 DEF ForYou!ForYou
  <1> HIDE DEF P, r, size, hard, context, Q, ranked, whole, paged, profile
  <1> SUFFICES ASSUME ~ whole.failed
               PROVE  /\ paged = whole.items
                      /\ \A i, j \in DOMAIN paged : i < j => paged[i] # paged[j] /\ score(i) >= score(j)
                      /\ \A p \in ForYou!Range(paged) :
                            /\ ForYou!Passes(hard, p)
                            /\ \A k \in ForYou!Labels :
                                  ~ r.guest /\ r.criteria.exclude[k] \cup r.explicit.dislikes[k] = {}
                                      => ~ ForYou!Is(p, k, profile.dislikes[k])
                            /\ (~ r.guest /\ r.criteria.max = Unknown /\ r.explicit.max = Unknown /\ profile.max # Unknown
                                      => p.price <= profile.max)
                            /\ 100 >= ForYou!Score(context, p)
                            /\ ForYou!Awards(context, p) \cap ForYou!Neutral(context, p) = {}
                      /\ \A p \in P \ ForYou!Range(paged) :
                            ForYou!Passes(hard, p) => \/ ForYou!IsLost(hard, p)
                                                      \/ Len(paged) = RetrievalPages * RetrievalPage
                                                      \/ r.criteria.concepts # {} /\ Cardinality(P) > RetrievalCap
    BY <1>4
  <1>6. IsShelf(Q) /\ IsFiniteSet(Q) /\ Cardinality(Q) \in Nat /\ Cardinality(Q) <= Cardinality(P)
    <2>1. IsShelf(Q)
      BY <1>1, <1>3, PartsOfShelves
    <2> QED
      BY <1>1, <1>3, <2>1, FS_Subset, FS_CardinalityType
  <1>7. /\ Orders!Enlists(ranked, Q) /\ Len(ranked) = Cardinality(Q)
        /\ \A i, j \in 1 .. Cardinality(Q) : i < j => ForYou!Score(context, ranked[i]) >= ForYou!Score(context, ranked[j])
    BY <1>6, RankedInOrder DEF ranked
  <1>8. whole.items = ranked
    <2>1. (1 - 1) * Cardinality(P) = 0
      BY <1>1
    <2>2. whole.items = Orders!Part(ranked, 0, Cardinality(P))
      BY <1>5, <2>1, SliceIs
    <2>3. Orders!Part(ranked, 0, Cardinality(P)) = ranked
      BY <1>1, <1>6, <1>7, Orders!BeginningEnlists
    <2> QED
      BY <2>2, <2>3
  <1>9. paged = ranked
    <2> DEFINE sheets == ForYou!Pages(Len(ranked), size)
    <2>1. sheets \in Nat /\ sheets * size >= Len(ranked)
      BY <1>1, <1>6, <1>7, PagesHold
    <2>2. paged = ForYou!FlattenSeq([n \in 1 .. sheets |-> ForYou!Slice(ranked, (n - 1) * size, size)])
      BY <1>5 DEF paged
    <2> HIDE DEF sheets
    <2>3. ranked \in Seq(Q)
      BY <1>7 DEF Orders!Enlists
    <2>4. paged = Orders!Part(ranked, 0, sheets * size)
      BY <1>1, <2>1, <2>2, <2>3, PagesAreWhole
    <2>5. sheets * size \in Nat
      BY <1>1, <2>1
    <2>6. Orders!Part(ranked, 0, sheets * size) = ranked
      BY <1>7, <2>1, <2>5, Orders!BeginningEnlists
    <2> QED
      BY <2>4, <2>6
  <1>10. /\ DOMAIN paged = 1 .. Cardinality(Q) /\ Len(paged) = Cardinality(Q)
         /\ \A i, j \in 1 .. Cardinality(Q) : paged[i] = paged[j] => i = j
         /\ ForYou!Range(paged) = Q
    <2>1. /\ ranked \in Seq(Q) /\ (\A i, j \in 1 .. Len(ranked) : ranked[i] = ranked[j] => i = j)
          /\ \A x \in Q : \E i \in 1 .. Len(ranked) : ranked[i] = x
      BY <1>7 DEF Orders!Enlists
    <2>2. DOMAIN ranked = 1 .. Cardinality(Q) /\ \A i \in 1 .. Cardinality(Q) : ranked[i] \in Q
      BY <1>6, <1>7, <2>1
    <2>3. {ranked[i] : i \in 1 .. Cardinality(Q)} = Q
      BY <1>7, <2>1, <2>2
    <2> QED
      BY <1>7, <1>9, <2>1, <2>2, <2>3 DEF ForYou!Range
  <1>11. \A i, j \in DOMAIN paged : i < j => paged[i] # paged[j] /\ score(i) >= score(j)
    <2> SUFFICES ASSUME NEW i \in 1 .. Cardinality(Q), NEW j \in 1 .. Cardinality(Q), i < j
                 PROVE  paged[i] # paged[j] /\ score(i) >= score(j)
      BY <1>10
    <2>1. i # j
      BY <1>6
    <2>2. score(i) >= score(j)
      BY <1>7, <1>9
    <2> QED
      BY <1>10, <2>1, <2>2
  <1>12. ASSUME NEW p \in Q
         PROVE  /\ ForYou!Passes(hard, p)
                /\ \A k \in ForYou!Labels :
                      ~ r.guest /\ r.criteria.exclude[k] \cup r.explicit.dislikes[k] = {}
                          => ~ ForYou!Is(p, k, profile.dislikes[k])
                /\ (~ r.guest /\ r.criteria.max = Unknown /\ r.explicit.max = Unknown /\ profile.max # Unknown
                          => p.price <= profile.max)
                /\ 100 >= ForYou!Score(context, p)
                /\ ForYou!Awards(context, p) \cap ForYou!Neutral(context, p) = {}
    <2>1. ForYou!Passes(hard, p)
      BY <1>3, SelectedPasses
    <2>2. \A k \in ForYou!Labels : ~ ForYou!Is(p, k, hard.exclude[k])
      BY <2>1 DEF ForYou!Passes
    <2>3. hard.max # Unknown => p.price <= hard.max
      BY <2>1 DEF ForYou!Passes, ForYou!Within
    <2>4. \A k \in ForYou!Labels :
             ~ r.guest /\ r.criteria.exclude[k] \cup r.explicit.dislikes[k] = {}
                 => ~ ForYou!Is(p, k, profile.dislikes[k])
      BY <1>2, <2>2
    <2>5. ~ r.guest /\ r.criteria.max = Unknown /\ r.explicit.max = Unknown /\ profile.max # Unknown
              => p.price <= profile.max
      BY <1>2, <2>3
    <2> QED
      BY <2>1, <2>4, <2>5, ScoreIsBounded, AwardsAreKnown
  <1>13. ASSUME NEW p \in P \ Q, ForYou!Passes(hard, p), ~ ForYou!IsLost(hard, p)
         PROVE  \/ Cardinality(Q) = RetrievalPages * RetrievalPage
                \/ r.criteria.concepts # {} /\ Cardinality(P) > RetrievalCap
    <2>1. ForYou!Selects(hard, p)
      BY <1>1, <1>13, PassingIsSelected
    <2> QED
      BY <1>2, <1>3, <1>13, <2>1
  <1> QED
    BY <1>8, <1>9, <1>10, <1>11, <1>12, <1>13

(* Each attribute that a product states is mapped or reported.                *)
LEMMA EverythingIsMapped ==
    ASSUME NEW p
    PROVE  ForYou!IsMapped(p)
  <1> SUFFICES ASSUME NEW f \in ForYou!Bridged \ {"title"}, p.text[f] # {}
               PROVE  ForYou!Mapping(p, f) = {} <=> f \in ForYou!Unmapped(p)
    BY DEF ForYou!IsMapped
  <1> DEFINE exact == ForYou!Exact(f, p.text[f])
             mapping == ForYou!Mapping(p, f)
  <1>1. f \in ForYou!Unmapped(p) <=> /\ f # "material" => exact = {}
                                     /\ f \in {"material", "color"} => mapping = {}
    BY DEF ForYou!Unmapped
  <1>2. exact \subseteq DOMAIN TermKind
    BY BridgeAssumption DEF ForYou!Exact, ForYou!Range
  <1>3. f \notin {"material", "color"} => mapping = exact
    <2>1. f \notin {"material", "color"} => mapping = ForYou!Verified(exact)
      BY DEF ForYou!Mapping, ForYou!Bridged
    <2> HIDE DEF exact, mapping
    <2> QED
      BY <1>2, <2>1 DEF ForYou!Verified
  <1>4. f = "color" /\ exact # {} => mapping = exact
    <2>1. f = "color" /\ exact # {} => mapping = ForYou!Verified(exact)
      BY DEF ForYou!Mapping
    <2> HIDE DEF exact, mapping
    <2> QED
      BY <1>2, <2>1 DEF ForYou!Verified
  <1> HIDE DEF exact, mapping
  <1> QED
    BY <1>1, <1>3, <1>4 DEF mapping

LEMMA EveryForYouHolds ==
    ASSUME NEW c, IsForYouCase(c)
    PROVE  ForYouHolds(c)
  BY EveryoneIsShown, EverythingIsMapped DEF ForYouHolds
-----------------------------------------------------------------------------
(* Complete looks.                                                            *)

LEMMA LooksFinite ==
    \A S : /\ Looks!Cardinality(S) = Cardinality(S)
           /\ Looks!IsFiniteSet(S) <=> IsFiniteSet(S)
  BY DEF Looks!Cardinality, Cardinality, Looks!IsFiniteSet, IsFiniteSet

(* What is spent on a look, and what its points and weights add up to, as     *)
(* sums of Folding.                                                           *)
LEMMA SpentAddsUp ==
    \A look : Looks!Price(look) = Orders!SumOver(Looks!Spent(look), DOMAIN look)
  BY Zenon DEF Looks!Price, Looks!MapThenSumSet, Looks!MapThenFoldSet, Orders!SumOver, Orders!Sums, Orders!AddUp

LEMMA WorthAddsUp ==
    \A S : Looks!MapThenSumSet(LAMBDA s : Looks!Worth[s], S) = Orders!SumOver(Looks!Worth, S)
  BY Zenon DEF Looks!MapThenSumSet, Looks!MapThenFoldSet, Orders!SumOver, Orders!Sums, Orders!AddUp

LEMMA SharesAddUp ==
    \A S : Looks!MapThenSumSet(LAMBDA s : Looks!Weight[s], S) = Orders!SumOver(Looks!Weight, S)
  BY Zenon DEF Looks!MapThenSumSet, Looks!MapThenFoldSet, Orders!SumOver, Orders!Sums, Orders!AddUp

(* The slots are few. *)
LEMMA SlotsAreFew ==
    /\ IsFiniteSet(Looks!Slots) /\ Cardinality(Looks!Slots) = 5
    /\ \A S \in SUBSET Looks!Slots : /\ IsFiniteSet(S) /\ Cardinality(S) \in 0 .. 5
                                    /\ IsFiniteSet(S \ Looks!Core) /\ Cardinality(S \ Looks!Core) \in 0 .. 3
                                    /\ \A s \in S \ Looks!Core : Cardinality(S \ Looks!Core) \in 1 .. 3
  <1> DEFINE A == {"top"}
             B == A \cup {"bottom"}
             C == {"footwear"}
             D == C \cup {"outerwear"}
             E == D \cup {"accessories"}
             F == E \cup {"bottom"}
             G == F \cup {"top"}
  <1>1. IsFiniteSet(C) /\ Cardinality(C) = 1
    BY FS_Singleton
  <1>2. IsFiniteSet(D) /\ Cardinality(D) = 2
    BY <1>1, FS_AddElement
  <1>3. IsFiniteSet(E) /\ Cardinality(E) = 3
    <2>1. "accessories" \notin D
      OBVIOUS
    <2> HIDE DEF D
    <2> QED
      BY <1>2, <2>1, FS_AddElement
  <1>4. IsFiniteSet(F) /\ Cardinality(F) = 4
    <2>1. "bottom" \notin E
      OBVIOUS
    <2> HIDE DEF E
    <2> QED
      BY <1>3, <2>1, FS_AddElement
  <1>5. IsFiniteSet(G) /\ Cardinality(G) = 5
    <2>1. "top" \notin F
      OBVIOUS
    <2> HIDE DEF F
    <2> QED
      BY <1>4, <2>1, FS_AddElement
  <1>6. Looks!Slots = G /\ E = Looks!Slots \ Looks!Core
    BY DEF Looks!Slots, Looks!Core
  <1> HIDE DEF A, B, C, D, E, F, G
  <1>7. ASSUME NEW S \in SUBSET Looks!Slots
        PROVE  /\ IsFiniteSet(S) /\ Cardinality(S) \in 0 .. 5
               /\ IsFiniteSet(S \ Looks!Core) /\ Cardinality(S \ Looks!Core) \in 0 .. 3
               /\ \A s \in S \ Looks!Core : Cardinality(S \ Looks!Core) \in 1 .. 3
    <2> DEFINE T == S \ Looks!Core
    <2>1. IsFiniteSet(S) /\ Cardinality(S) <= 5 /\ Cardinality(S) \in Nat
      BY <1>5, <1>6, FS_Subset, FS_CardinalityType
    <2>2. T \in SUBSET E
      BY <1>6
    <2> HIDE DEF T
    <2>3. IsFiniteSet(T) /\ Cardinality(T) <= 3 /\ Cardinality(T) \in Nat
      BY <1>3, <2>2, FS_Subset, FS_CardinalityType
    <2>4. ASSUME NEW s \in T PROVE Cardinality(T) # 0
      BY <2>3, FS_EmptySet
    <2> QED
      BY <2>1, <2>3, <2>4 DEF T
  <1> QED
    BY <1>5, <1>6, <1>7

(* Pieces are finitely many. *)
LEMMA PiecesAreFinite ==
    ASSUME NEW r, IsLooksRequest(r)
    PROVE  IsFiniteSet(LooksPieces(r))
  <1>1. /\ Len(r.owned) \in Nat /\ DOMAIN r.owned = 1 .. Len(r.owned)
        /\ Len(r.products) \in Nat /\ DOMAIN r.products = 1 .. Len(r.products)
    BY DEF IsLooksRequest, IsList
  <1>2. IsFiniteSet(DOMAIN r.owned) /\ IsFiniteSet(DOMAIN r.products)
    BY <1>1, FS_Interval
  <1>3. IsFiniteSet({r.owned[i] : i \in DOMAIN r.owned})
    BY <1>2, ImageIsFinite
  <1>4. IsFiniteSet({r.products[i] : i \in DOMAIN r.products})
    BY <1>2, ImageIsFinite
  <1> QED
    BY <1>3, <1>4, FS_Union DEF LooksPieces

(* The anchor is one piece, of one slot. *)
LEMMA AnchorIsOne ==
    ASSUME NEW r, IsLooksRequest(r)
    PROVE  /\ Looks!Anchored(r) \subseteq LooksPieces(r)
           /\ \A x, y \in Looks!Anchored(r) : x = y
           /\ \A x \in Looks!Anchored(r) : Looks!AnchorSlots(r) = {x.slot}
           /\ r.anchor # Unknown /\ r.anchor.source # "wardrobe" =>
                 \A x \in Looks!Anchored(r) : x.source = "catalog"
  <1>1. ASSUME NEW x \in Looks!Anchored(r)
        PROVE  x \in LooksPieces(r) /\ x.id = r.anchor.id
               /\ (r.anchor.source # "wardrobe" => x.source = "catalog")
    <2>1. x \in Looks!Range(Looks!Stock(r)) /\ x.id = r.anchor.id
      BY DEF Looks!Anchored, Looks!Anchors
    <2> QED
      BY <2>1 DEF Looks!Range, Looks!Stock, LooksPieces, IsLooksRequest
  <1>2. \A x, y \in LooksPieces(r) : x.id = y.id => x = y
    BY DEF IsLooksRequest
  <1>3. \A x, y \in Looks!Anchored(r) : x = y
    BY <1>1, <1>2
  <1>4. ASSUME NEW x \in Looks!Anchored(r) PROVE Looks!AnchorSlots(r) = {x.slot}
    <2>1. Looks!Anchored(r) = {x}
      BY <1>3, <1>4
    <2>2. Looks!AnchorSlots(r) = {y.slot : y \in Looks!Anchored(r)}
      BY DEF Looks!AnchorSlots
    <2> QED
      BY <2>1, <2>2
  <1>5. \A x \in Looks!Anchored(r) : x \in LooksPieces(r) /\ (r.anchor.source # "wardrobe" => x.source = "catalog")
    BY <1>1
  <1> QED
    BY <1>3, <1>4, <1>5

(* What is considered for a slot is a candidate of it: a piece of that slot,  *)
(* the anchor in its own, and for a guest one that is sold.                   *)
LEMMA ConsideredIs ==
    ASSUME NEW r, IsLooksRequest(r), NEW slots, NEW s, NEW x \in Looks!Considered(r, slots, s)
    PROVE  /\ x \in LooksPieces(r) /\ x.slot = s /\ x \in Looks!Candidates(r, s)
           /\ s \in Looks!AnchorSlots(r) => x \in Looks!Anchored(r)
           /\ r.user = Unknown /\ (s \in Looks!AnchorSlots(r) => r.anchor.source # "wardrobe") => x.source = "catalog"
  <1>1. /\ \A i \in Looks!Owned(r, s) : i \in DOMAIN r.owned /\ r.owned[i].slot = s /\ r.user # Unknown
        /\ \A i \in Looks!Shelf(r, s) : i \in DOMAIN r.products /\ r.products[i].slot = s
    BY DEF Looks!Owned, Looks!Shelf, Looks!Foremost
  <1>2. /\ \A i \in DOMAIN r.owned : r.owned[i] \in LooksPieces(r)
        /\ \A i \in DOMAIN r.products : r.products[i] \in LooksPieces(r) /\ r.products[i].source = "catalog"
    BY DEF LooksPieces, IsLooksRequest
  <1>3. ASSUME NEW y \in Looks!Pool(r, s)
        PROVE  y \in LooksPieces(r) /\ y.slot = s /\ (r.user = Unknown => y.source = "catalog")
    BY <1>1, <1>2 DEF Looks!Pool
  <1>4. \A n : Looks!FirstOf(r, s, n) \subseteq Looks!Pool(r, s)
    BY DEF Looks!FirstOf, Looks!Pool, Looks!Foremost
  <1>5. x \in Looks!Candidates(r, s)
    BY <1>4 DEF Looks!Considered, Looks!Candidates
  <1>6. CASE s \in Looks!AnchorSlots(r)
    <2>1. x \in Looks!Anchored(r)
      BY <1>5, <1>6 DEF Looks!Candidates
    <2>2. Looks!AnchorSlots(r) = {x.slot} /\ x \in LooksPieces(r)
      BY <2>1, AnchorIsOne
    <2>3. r.anchor # Unknown
      BY <2>1 DEF Looks!Anchored, Looks!Anchors
    <2>4. r.anchor.source # "wardrobe" => x.source = "catalog"
      BY <2>1, <2>3, AnchorIsOne
    <2> QED
      BY <1>5, <1>6, <2>1, <2>2, <2>4
  <1>7. CASE s \notin Looks!AnchorSlots(r)
    BY <1>3, <1>5, <1>7 DEF Looks!Candidates
  <1> QED
    BY <1>6, <1>7

(* The looks of a configuration: one of what is considered in each slot.      *)
LEMMA FilledIs ==
    ASSUME NEW r, NEW slots \in SUBSET Looks!Slots
    PROVE  /\ \A look \in Looks!Filled(r, slots) :
                 /\ DOMAIN look = slots /\ look = [s \in slots |-> look[s]]
                 /\ \A s \in slots : look[s] \in Looks!Considered(r, slots, s)
           /\ \A look : /\ DOMAIN look = slots /\ look = [s \in slots |-> look[s]]
                        /\ \A s \in slots : look[s] \in Looks!Considered(r, slots, s)
                        => look \in Looks!Filled(r, slots)
  <1> DEFINE from(s) == IF s \in slots THEN Looks!Considered(r, slots, s) ELSE {Unknown}
             given(s, a, b, c, d, e) == CASE s = "top"         -> a
                                          [] s = "bottom"      -> b
                                          [] s = "footwear"    -> c
                                          [] s = "outerwear"   -> d
                                          [] s = "accessories" -> e
             formed(a, b, c, d, e) == [s \in slots |-> given(s, a, b, c, d, e)]
  <1>1. Looks!Filled(r, slots) =
            {formed(a, b, c, d, e) : a \in from("top"), b \in from("bottom"), c \in from("footwear"),
                                   d \in from("outerwear"), e \in from("accessories")}
    BY DEF Looks!Filled
  <1>2. slots \subseteq {"top", "bottom", "footwear", "outerwear", "accessories"}
    BY DEF Looks!Slots
  <1>5. \A a, b, c, d, e : /\ given("top", a, b, c, d, e) = a /\ given("bottom", a, b, c, d, e) = b
                            /\ given("footwear", a, b, c, d, e) = c /\ given("outerwear", a, b, c, d, e) = d
                            /\ given("accessories", a, b, c, d, e) = e
    OBVIOUS
  <1> HIDE DEF given
  <1>3. ASSUME NEW look \in Looks!Filled(r, slots)
        PROVE  /\ DOMAIN look = slots /\ look = [s \in slots |-> look[s]]
               /\ \A s \in slots : look[s] \in Looks!Considered(r, slots, s)
    <2> HIDE DEF from
    <2>1. PICK a \in from("top"), b \in from("bottom"), c \in from("footwear"),
               d \in from("outerwear"), e \in from("accessories") : look = formed(a, b, c, d, e)
      <3> HIDE DEF formed
      <3> QED
        BY <1>1, <1>3
    <2>2. DOMAIN look = slots /\ look = [s \in slots |-> look[s]]
      BY <2>1
    <2>3. ASSUME NEW s \in slots PROVE look[s] \in from(s)
      <3>1. look[s] = given(s, a, b, c, d, e)
        BY <2>1, <2>3
      <3> QED
        BY <1>2, <1>5, <2>3, <3>1
    <2> QED
      BY <2>2, <2>3 DEF from
  <1>4. ASSUME NEW look, DOMAIN look = slots, look = [s \in slots |-> look[s]],
               \A s \in slots : look[s] \in Looks!Considered(r, slots, s)
        PROVE  look \in Looks!Filled(r, slots)
    <2> DEFINE at(s) == IF s \in slots THEN look[s] ELSE Unknown
    <2>1. \A s \in {"top", "bottom", "footwear", "outerwear", "accessories"} : at(s) \in from(s)
      BY <1>4
    <2>2. look = formed(at("top"), at("bottom"), at("footwear"), at("outerwear"), at("accessories"))
      <3> DEFINE f == formed(at("top"), at("bottom"), at("footwear"), at("outerwear"), at("accessories"))
      <3>1. DOMAIN f = slots /\ f = [s \in slots |-> f[s]]
        OBVIOUS
      <3>2. ASSUME NEW s \in slots PROVE f[s] = look[s]
        <4>1. f[s] = given(s, at("top"), at("bottom"), at("footwear"), at("outerwear"), at("accessories"))
          BY <3>2
        <4>2. at(s) = look[s]
          BY <3>2
        <4> HIDE DEF at
        <4>3. f[s] = at(s)
          BY <1>2, <1>5, <3>2, <4>1
        <4> QED
          BY <4>2, <4>3
      <3> HIDE DEF f
      <3>3. f = [s \in slots |-> look[s]]
        BY <3>1, <3>2
      <3> QED
        BY <1>4, <3>3 DEF f
    <2> HIDE DEF at, from, formed
    <2> QED
      BY <1>1, <2>1, <2>2
  <1> QED
    BY <1>3, <1>4

(* Whatever is put on, of the pieces, in some of the slots.                   *)
Dress(r) == UNION {[S -> LooksPieces(r)] : S \in SUBSET Looks!Slots}

(* There are finitely many functions from a finite set to another.            *)
LEMMA FunctionsAreFinite ==
    ASSUME NEW S, IsFiniteSet(S), NEW T, IsFiniteSet(T)
    PROVE  IsFiniteSet([S -> T])
  <1> DEFINE graph(f) == {<<s, f[s]>> : s \in S}
             G == SUBSET (S \X T)
             h == [f \in [S -> T] |-> graph(f)]
  <1>1. IsFiniteSet(G)
    BY FS_Product, FS_SUBSET
  <1>2. ASSUME NEW f \in [S -> T] PROVE graph(f) \in G
    BY <1>2
  <1>3. ASSUME NEW f \in [S -> T], NEW g \in [S -> T], graph(f) = graph(g)
        PROVE  f = g
    <2>1. ASSUME NEW s \in S PROVE f[s] = g[s]
      <3>1. <<s, f[s]>> \in graph(g)
        BY <1>3, <2>1
      <3>2. PICK t \in S : <<s, f[s]>> = <<t, g[t]>>
        BY <3>1
      <3> QED
        BY <3>2
    <2> QED
      BY <1>3, <2>1
  <1> HIDE DEF graph, G
  <1>4. h \in Injection([S -> T], G)
    BY <1>2, <1>3 DEF Injection, IsInjective
  <1> HIDE DEF h
  <1> QED
    BY <1>1, <1>4, FS_Injection

LEMMA DressIs ==
    ASSUME NEW r, IsLooksRequest(r)
    PROVE  /\ IsFiniteSet(Dress(r))
           /\ \A look \in Dress(r) :
                 /\ DOMAIN look \in SUBSET Looks!Slots /\ look = [s \in DOMAIN look |-> look[s]]
                 /\ \A s \in DOMAIN look : look[s] \in LooksPieces(r) /\ IsPiece(look[s])
  <1> DEFINE worn == {[S -> LooksPieces(r)] : S \in SUBSET Looks!Slots}
             f == [S \in SUBSET Looks!Slots |-> [S -> LooksPieces(r)]]
  <1>1. IsFiniteSet(SUBSET Looks!Slots)
    BY SlotsAreFew, FS_SUBSET
  <1>2. worn = {f[S] : S \in SUBSET Looks!Slots} /\ DOMAIN f = SUBSET Looks!Slots
    OBVIOUS
  <1> HIDE DEF f, worn
  <1>3. IsFiniteSet(worn)
    <2>1. IsFiniteSet({f[S] : S \in SUBSET Looks!Slots})
      BY <1>1, <1>2, ImageIsFinite
    <2> QED
      BY <1>2, <2>1
  <1>4. \A T \in worn : IsFiniteSet(T)
    BY SlotsAreFew, PiecesAreFinite, FunctionsAreFinite DEF worn
  <1>5. IsFiniteSet(UNION worn)
    BY <1>3, <1>4, FS_UNION
  <1>6. ASSUME NEW look \in Dress(r)
        PROVE  /\ DOMAIN look \in SUBSET Looks!Slots /\ look = [s \in DOMAIN look |-> look[s]]
               /\ \A s \in DOMAIN look : look[s] \in LooksPieces(r) /\ IsPiece(look[s])
    <2>1. PICK S \in SUBSET Looks!Slots : look \in [S -> LooksPieces(r)]
      BY <1>6 DEF Dress
    <2>2. \A x \in LooksPieces(r) : IsPiece(x)
      BY DEF IsLooksRequest
    <2> QED
      BY <2>1, <2>2
  <1> QED
    BY <1>5, <1>6 DEF Dress, worn

(* What a configuration is filled with is put on, and there are finitely many *)
(* of these.                                                                  *)
LEMMA FeasibleIs ==
    ASSUME NEW r, IsLooksRequest(r), NEW slots \in SUBSET Looks!Slots
    PROVE  /\ Looks!Feasible(r, slots) \in SUBSET Dress(r) /\ IsFiniteSet(Looks!Feasible(r, slots))
           /\ \A look \in Looks!Feasible(r, slots) :
                 /\ DOMAIN look = slots
                 /\ \A s \in slots : look[s] \in Looks!Considered(r, slots, s)
                 /\ \A s, t \in slots : s # t => look[s].id # look[t].id
                 /\ Looks!Affordable(r, look)
  <1>1. ASSUME NEW look \in Looks!Feasible(r, slots)
        PROVE  /\ look \in Dress(r) /\ DOMAIN look = slots
               /\ \A s \in slots : look[s] \in Looks!Considered(r, slots, s)
               /\ \A s, t \in slots : s # t => look[s].id # look[t].id
               /\ Looks!Affordable(r, look)
    <2>1. look \in Looks!Filled(r, slots) /\ Looks!Affordable(r, look)
          /\ \A s, t \in slots : s # t => look[s].id # look[t].id
      BY <1>1 DEF Looks!Feasible
    <2>2. /\ DOMAIN look = slots /\ look = [s \in slots |-> look[s]]
          /\ \A s \in slots : look[s] \in Looks!Considered(r, slots, s)
      BY <2>1, FilledIs
    <2>3. \A s \in slots : look[s] \in LooksPieces(r)
      BY <2>2, ConsideredIs
    <2>4. look \in [slots -> LooksPieces(r)]
      BY <2>2, <2>3
    <2> QED
      BY <2>1, <2>2, <2>4 DEF Dress
  <1>2. Looks!Feasible(r, slots) \in SUBSET Dress(r)
    BY <1>1
  <1>3. IsFiniteSet(Looks!Feasible(r, slots))
    BY <1>2, DressIs, FS_Subset
  <1> QED
    BY <1>1, <1>2, <1>3

-----------------------------------------------------------------------------
(* The order of looks.                                                        *)

LEMMA PricesAre ==
    ASSUME NEW r, IsLooksRequest(r), NEW look \in Dress(r)
    PROVE  /\ Looks!Price(look) \in Nat
           /\ \A s \in DOMAIN look : Looks!Spent(look)[s] \in Nat
  <1>1. \A s \in DOMAIN look : Looks!Spent(look)[s] \in Nat
    BY DressIs DEF Looks!Spent, IsPiece
  <1>2. Orders!IsFiniteSet(DOMAIN look)
    BY DressIs, SlotsAreFew, OrdersFinite
  <1>3. \A s \in DOMAIN look : Looks!Spent(look)[s] \in Int
    BY <1>1
  <1>4. Orders!SumOver(Looks!Spent(look), DOMAIN look) \in Nat
    BY <1>1, <1>2, <1>3, Orders!SumsAddUp
  <1> QED
    BY <1>1, <1>4, SpentAddsUp

LEMMA PointsAre ==
    ASSUME NEW r, IsLooksRequest(r), NEW look \in Dress(r), NEW style
    PROVE  Looks!Points(look, style) \in Int
  <1>1. Looks!CompletenessPoints(look) \in Int
    <2> DEFINE S == DOMAIN look \ Looks!Core
    <2>1. IsFiniteSet(S)
      BY DressIs, SlotsAreFew
    <2>2. \A s \in S : Looks!Worth[s] \in Int
      BY DressIs DEF Looks!Worth, Looks!Slots, Looks!Core
    <2>3. Orders!SumOver(Looks!Worth, S) \in Int
      BY <2>1, <2>2, OrdersFinite, Orders!SumsAddUp
    <2>4. Looks!MapThenSumSet(LAMBDA s : Looks!Worth[s], S) = Orders!SumOver(Looks!Worth, S)
      BY WorthAddsUp
    <2>5. Looks!CompletenessPoints(look) =
             (IF Looks!Core \subseteq DOMAIN look THEN 30 ELSE IF Looks!Core \cap DOMAIN look # {} THEN 15 ELSE 0)
             + Orders!SumOver(Looks!Worth, S)
      BY <2>4 DEF Looks!CompletenessPoints
    <2> QED
      BY <2>3, <2>5
  <1>2. Looks!ColorPoints(look) \in Int
    BY DEF Looks!ColorPoints
  <1>3. Looks!MaterialPoints(look) \in Int
    BY DEF Looks!MaterialPoints
  <1>4. Looks!StylePoints(look, style) \in Int
    BY DEF Looks!StylePoints
  <1>5. Looks!ShapePoints(look) \in Int
    BY DEF Looks!ShapePoints
  <1>6. Looks!FormalityPoints(look) \in Int
    BY DEF Looks!FormalityPoints
  <1> QED
    BY <1>1, <1>2, <1>3, <1>4, <1>5, <1>6 DEF Looks!Points

(* The order of the names is one of looks.                                    *)
LEMMA NamesOrder ==
    ASSUME NEW r, IsLooksRequest(r)
    PROVE  /\ \A a \in Dress(r) : ~ Looks!NamedBefore(a, a)
           /\ \A a, b \in Dress(r) : a = b \/ Looks!NamedBefore(a, b) \/ Looks!NamedBefore(b, a)
           /\ \A a, b, c \in Dress(r) :
                 Looks!NamedBefore(a, b) /\ Looks!NamedBefore(b, c) => Looks!NamedBefore(a, c)
  <1> DEFINE at(a, s) == IF s \in DOMAIN a THEN a[s].id ELSE 0
             f(a) == Looks!Named(a)
             before(a, b) ==
                \/ f(a)[1] < f(b)[1]
                \/ /\ f(a)[1] = f(b)[1]
                   /\ \/ f(a)[2] < f(b)[2]
                      \/ /\ f(a)[2] = f(b)[2]
                         /\ \/ f(a)[3] < f(b)[3]
                            \/ /\ f(a)[3] = f(b)[3]
                               /\ \/ f(a)[4] < f(b)[4]
                                  \/ f(a)[4] = f(b)[4] /\ f(a)[5] < f(b)[5]
  <1>1. \A a : /\ f(a)[1] = at(a, "top") /\ f(a)[2] = at(a, "bottom") /\ f(a)[3] = at(a, "footwear")
               /\ f(a)[4] = at(a, "outerwear") /\ f(a)[5] = at(a, "accessories")
    BY DEF Looks!Named
  <1>2. ASSUME NEW a \in Dress(r), NEW s PROVE at(a, s) \in Int
    BY DressIs, <1>2 DEF IsPiece
  <1> HIDE DEF f
  <1>3. \A a, b : Looks!NamedBefore(a, b) <=>
                      \E n \in 1 .. 5 : f(a)[n] < f(b)[n] /\ \A m \in 1 .. n - 1 : f(a)[m] = f(b)[m]
    BY DEF Looks!NamedBefore, f
  <1>4. ASSUME NEW a \in Dress(r)
        PROVE  f(a)[1] \in Int /\ f(a)[2] \in Int /\ f(a)[3] \in Int /\ f(a)[4] \in Int /\ f(a)[5] \in Int
    <2> HIDE DEF at
    <2> QED
      BY <1>1, <1>2
  <1>5. \A a, b \in Dress(r) : Looks!NamedBefore(a, b) <=> before(a, b)
    <2> SUFFICES ASSUME NEW a \in Dress(r), NEW b \in Dress(r) PROVE Looks!NamedBefore(a, b) <=> before(a, b)
      OBVIOUS
    <2> DEFINE g == f(a)
               h == f(b)
               first(n) == g[n] < h[n] /\ \A m \in 1 .. n - 1 : g[m] = h[m]
    <2>1. Looks!NamedBefore(a, b) <=> first(1) \/ first(2) \/ first(3) \/ first(4) \/ first(5)
      <3>1. 1 .. 5 = {1, 2, 3, 4, 5}
        OBVIOUS
      <3> HIDE DEF g, h
      <3>2. (\E n \in 1 .. 5 : first(n)) <=> first(1) \/ first(2) \/ first(3) \/ first(4) \/ first(5)
        <4> HIDE DEF first
        <4> QED
          BY <3>1
      <3> QED
        BY <1>3, <3>2 DEF g, h
    <2> HIDE DEF g, h
    <2>2. /\ 1 .. 1 - 1 = {} /\ 1 .. 2 - 1 = {1} /\ 1 .. 3 - 1 = {1, 2}
          /\ 1 .. 4 - 1 = {1, 2, 3} /\ 1 .. 5 - 1 = {1, 2, 3, 4}
      OBVIOUS
    <2>3. /\ first(1) <=> g[1] < h[1]
          /\ first(2) <=> g[2] < h[2] /\ g[1] = h[1]
          /\ first(3) <=> g[3] < h[3] /\ g[1] = h[1] /\ g[2] = h[2]
          /\ first(4) <=> g[4] < h[4] /\ g[1] = h[1] /\ g[2] = h[2] /\ g[3] = h[3]
          /\ first(5) <=> g[5] < h[5] /\ g[1] = h[1] /\ g[2] = h[2] /\ g[3] = h[3] /\ g[4] = h[4]
      BY <2>2
    <2> HIDE DEF first
    <2> QED
      BY <2>1, <2>3 DEF g, h
  <1>6. ASSUME NEW a \in Dress(r), NEW b \in Dress(r),
               f(a)[1] = f(b)[1], f(a)[2] = f(b)[2], f(a)[3] = f(b)[3], f(a)[4] = f(b)[4], f(a)[5] = f(b)[5]
        PROVE  a = b
    <2>1. \A s \in Looks!Slots : at(a, s) = at(b, s)
      <3> HIDE DEF at
      <3> QED
        BY <1>1, <1>6 DEF Looks!Slots
    <2>2. /\ DOMAIN a \in SUBSET Looks!Slots /\ a = [s \in DOMAIN a |-> a[s]]
          /\ DOMAIN b \in SUBSET Looks!Slots /\ b = [s \in DOMAIN b |-> b[s]]
          /\ \A s \in DOMAIN a : a[s] \in LooksPieces(r) /\ a[s].id # 0
          /\ \A s \in DOMAIN b : b[s] \in LooksPieces(r) /\ b[s].id # 0
      BY DressIs DEF IsPiece
    <2>3. \A s \in Looks!Slots : s \in DOMAIN a <=> s \in DOMAIN b
      BY <2>1, <2>2
    <2>4. DOMAIN a = DOMAIN b
      BY <2>2, <2>3
    <2>5. ASSUME NEW s \in DOMAIN a PROVE a[s] = b[s]
      <3>1. a[s].id = b[s].id
        BY <2>1, <2>2, <2>4, <2>5
      <3> QED
        BY <2>2, <2>4, <2>5, <3>1 DEF IsLooksRequest
    <2> QED
      BY <2>2, <2>4, <2>5
  <1>7. ASSUME NEW a \in Dress(r) PROVE ~ before(a, a)
    BY <1>4
  <1>8. ASSUME NEW a \in Dress(r), NEW b \in Dress(r) PROVE a = b \/ before(a, b) \/ before(b, a)
    BY <1>4, <1>6
  <1>9. ASSUME NEW a \in Dress(r), NEW b \in Dress(r), NEW c \in Dress(r), before(a, b), before(b, c)
        PROVE  before(a, c)
    BY <1>4, <1>9
  <1> HIDE DEF before
  <1> QED
    BY <1>5, <1>7, <1>8, <1>9

(* So is that of their worth.                                                 *)
LEMMA LooksOrder ==
    ASSUME NEW r, IsLooksRequest(r)
    PROVE  /\ \A a \in Dress(r) : ~ Looks!Better(r, a, a)
           /\ \A a, b \in Dress(r) : a = b \/ Looks!Better(r, a, b) \/ Looks!Better(r, b, a)
           /\ \A a, b, c \in Dress(r) :
                 Looks!Better(r, a, b) /\ Looks!Better(r, b, c) => Looks!Better(r, a, c)
  <1> DEFINE points(a) == Looks!Points(a, r.style)
             price(a) == Looks!Price(a)
             size(a) == Cardinality(DOMAIN a)
             named(a, b) == Looks!NamedBefore(a, b)
             better(a, b) ==
                \/ points(a) > points(b)
                \/ /\ points(a) = points(b)
                   /\ \/ price(a) < price(b)
                      \/ /\ price(a) = price(b)
                         /\ \/ size(a) > size(b)
                            \/ size(a) = size(b) /\ named(a, b)
  <1>1. \A a, b : Looks!Better(r, a, b) <=> better(a, b)
    BY LooksFinite DEF Looks!Better, Looks!Finer
  <1>2. ASSUME NEW a \in Dress(r) PROVE points(a) \in Int /\ price(a) \in Int /\ size(a) \in Int
    <2>1. points(a) \in Int
      BY <1>2, PointsAre
    <2>2. price(a) \in Int
      BY <1>2, PricesAre
    <2>3. size(a) \in Int
      <3>1. DOMAIN a \in SUBSET Looks!Slots
        BY <1>2, DressIs
      <3>2. \A S \in SUBSET Looks!Slots : Cardinality(S) \in 0 .. 5
        BY SlotsAreFew
      <3>3. Cardinality(DOMAIN a) \in 0 .. 5
        BY <3>1, <3>2, Zenon
      <3> QED
        BY <3>3
    <2> QED
      BY <2>1, <2>2, <2>3
  <1>3. /\ \A a \in Dress(r) : ~ named(a, a)
        /\ \A a, b \in Dress(r) : a = b \/ named(a, b) \/ named(b, a)
        /\ \A a, b, c \in Dress(r) : named(a, b) /\ named(b, c) => named(a, c)
    BY NamesOrder
  <1> HIDE DEF points, price, size, named
  <1>4. ASSUME NEW a \in Dress(r) PROVE ~ better(a, a)
    BY <1>2, <1>3
  <1>5. ASSUME NEW a \in Dress(r), NEW b \in Dress(r) PROVE a = b \/ better(a, b) \/ better(b, a)
    BY <1>2, <1>3
  <1>6. ASSUME NEW a \in Dress(r), NEW b \in Dress(r), NEW c \in Dress(r), better(a, b), better(b, c)
        PROVE  better(a, c)
    BY <1>2, <1>3, <1>6
  <1> HIDE DEF better
  <1> QED
    BY <1>1, <1>4, <1>5, <1>6

LEMMA Greater ==
    ASSUME NEW x \in Int, NEW y \in Int, NEW k \in Nat \ {0}
    PROVE  x >= y <=> x * k >= y * k
  <1>1. ASSUME x >= y PROVE x * k >= y * k
    <2>1. PICK z \in Nat : x = y + z
      BY <1>1
    <2>2. x * k = y * k + z * k /\ z * k \in Nat /\ y * k \in Int
      BY <2>1
    <2> QED
      BY <2>2
  <1>2. ASSUME x < y PROVE x * k < y * k
    <2>1. PICK z \in Nat : y = x + z /\ z > 0
      BY <1>2
    <2>2. y * k = x * k + z * k /\ z * k \in Nat /\ x * k \in Int
      BY <2>1
    <2>3. z * k > 0
      BY <2>1
    <2> QED
      BY <2>2, <2>3
  <1>3. x * k \in Int /\ y * k \in Int
    OBVIOUS
  <1> QED
    BY <1>1, <1>2, <1>3

(* Fractions of a positive denominator are ordered by their cross products.   *)
IsRatio(v) == v[1] \in Int /\ v[2] \in Nat \ {0}

LEMMA RatiosOrder ==
    /\ \A v : IsRatio(v) => ~ Looks!Less(v, v)
    /\ \A v, w : IsRatio(v) /\ IsRatio(w) => ~ (Looks!Less(v, w) /\ Looks!Less(w, v))
    /\ \A u, v, w : /\ IsRatio(u) /\ IsRatio(v) /\ IsRatio(w)
                    /\ ~ Looks!Less(u, v) /\ ~ Looks!Less(v, w)
                    => ~ Looks!Less(u, w)
  <1>1. ASSUME NEW v, IsRatio(v) PROVE ~ Looks!Less(v, v)
    BY <1>1 DEF Looks!Less, IsRatio
  <1>2. ASSUME NEW v, NEW w, IsRatio(v), IsRatio(w)
        PROVE  ~ (Looks!Less(v, w) /\ Looks!Less(w, v))
    <2>1. v[1] * w[2] \in Int /\ w[1] * v[2] \in Int
      BY <1>2 DEF IsRatio
    <2> QED
      BY <2>1 DEF Looks!Less
  <1>3. ASSUME NEW a \in Int, NEW b \in Nat \ {0}, NEW c \in Int, NEW d \in Nat \ {0},
               NEW e \in Int, NEW f \in Nat \ {0}, a * d >= c * b, c * f >= e * d
        PROVE  a * f >= e * b
    <2>1. a * d \in Int /\ c * b \in Int /\ c * f \in Int /\ e * d \in Int /\ a * f \in Int /\ e * b \in Int
      OBVIOUS
    <2>2. (a * d) * f >= (c * b) * f
      BY <1>3, <2>1, Greater
    <2>3. (c * f) * b >= (e * d) * b
      BY <1>3, <2>1, Greater
    <2>4. (a * d) * f = (a * f) * d /\ (c * b) * f = (c * f) * b /\ (e * d) * b = (e * b) * d
      OBVIOUS
    <2>5. (a * f) * d \in Int /\ (c * f) * b \in Int /\ (e * b) * d \in Int
      BY <2>1
    <2>6. (a * f) * d >= (e * b) * d
      BY <2>2, <2>3, <2>4, <2>5
    <2> QED
      BY <2>1, <2>6, Greater
  <1>4. ASSUME NEW u, NEW v, NEW w, IsRatio(u), IsRatio(v), IsRatio(w),
               ~ Looks!Less(u, v), ~ Looks!Less(v, w)
        PROVE  ~ Looks!Less(u, w)
    <2>1. /\ u[1] \in Int /\ v[1] \in Int /\ w[1] \in Int
          /\ u[2] \in Nat \ {0} /\ v[2] \in Nat \ {0} /\ w[2] \in Nat \ {0}
      BY <1>4 DEF IsRatio
    <2>2. /\ u[1] * v[2] \in Int /\ v[1] * u[2] \in Int /\ v[1] * w[2] \in Int /\ w[1] * v[2] \in Int
          /\ u[1] * w[2] \in Int /\ w[1] * u[2] \in Int
      BY <2>1
    <2>3. u[1] * v[2] >= v[1] * u[2] /\ v[1] * w[2] >= w[1] * v[2]
      BY <1>4, <2>2 DEF Looks!Less
    <2>4. u[1] * w[2] >= w[1] * u[2]
      <3> DEFINE a == u[1]  b == u[2]  c == v[1]  d == v[2]  e == w[1]  f == w[2]
      <3>1. /\ a \in Int /\ b \in Nat \ {0} /\ c \in Int /\ d \in Nat \ {0} /\ e \in Int /\ f \in Nat \ {0}
            /\ a * d >= c * b /\ c * f >= e * d
        BY <2>1, <2>3
      <3> HIDE DEF a, b, c, d, e, f
      <3>2. a * f >= e * b
        BY <1>3, <3>1, Zenon
      <3> QED
        BY <3>2 DEF a, b, e, f
    <2> QED
      BY <2>2, <2>4 DEF Looks!Less
  <1> QED
    BY <1>1, <1>2, <1>4

-----------------------------------------------------------------------------
(* Of finitely many that are all compared, one is at least as good as any.    *)
LEMMA FirstExists ==
    ASSUME NEW P, IsFiniteSet(P), P # {}, NEW R,
           \A x, y \in P : <<x, y>> \in R \/ <<y, x>> \in R,
           \A x, y, z \in P : <<x, y>> \in R /\ <<y, z>> \in R => <<x, z>> \in R
    PROVE  \E x \in P : \A y \in P : <<x, y>> \in R
  <1> DEFINE first(T) == T = {} \/ \E x \in T : \A y \in T : <<x, y>> \in R
             S == {T \in SUBSET P : first(T)}
  <1>1. {} \in S
    OBVIOUS
  <1>2. ASSUME NEW T \in SUBSET P, NEW x \in P, T \in S PROVE T \cup {x} \in S
    <2>1. CASE T = {}
      BY <2>1
    <2>2. CASE T # {}
      <3>1. PICK z \in T : \A y \in T : <<z, y>> \in R
        BY <1>2, <2>2
      <3>2. CASE <<z, x>> \in R
        BY <3>1, <3>2
      <3>3. CASE <<x, z>> \in R
        <4>1. \A y \in T : <<x, y>> \in R
          BY <3>1, <3>3
        <4>2. <<x, x>> \in R
          OBVIOUS
        <4> QED
          BY <4>1, <4>2
      <3> QED
        BY <3>1, <3>2, <3>3
    <2> QED
      BY <2>1, <2>2
  <1> HIDE DEF S
  <1>3. P \in S
    BY <1>1, <1>2, OrdersFinite, Orders!SubsetsFollow
  <1> QED
    BY <1>3 DEF S

(* What two looks share is a part of what they could.                         *)
LEMMA SimilarityIs ==
    ASSUME NEW r, IsLooksRequest(r), NEW a \in Dress(r), NEW b \in Dress(r)
    PROVE  IsRatio(Looks!Similarity(r, a, b))
  <1> DEFINE common == (DOMAIN a \cap DOMAIN b) \ Looks!AnchorSlots(r)
             equal == {s \in common : a[s].id = b[s].id}
  <1>1. ASSUME NEW S \in SUBSET common
        PROVE  Looks!MapThenSumSet(LAMBDA s : Looks!Weight[s], S) \in Nat
    <2>1. S \in SUBSET Looks!Slots
      BY DressIs
    <2>2. IsFiniteSet(S)
      BY <2>1, SlotsAreFew
    <2>3. \A s \in S : Looks!Weight[s] \in Nat /\ Looks!Weight[s] \in Int
      BY <2>1 DEF Looks!Weight, Looks!Slots
    <2>4. Orders!SumOver(Looks!Weight, S) \in Nat
      BY <2>2, <2>3, OrdersFinite, Orders!SumsAddUp
    <2>5. Looks!MapThenSumSet(LAMBDA s : Looks!Weight[s], S) = Orders!SumOver(Looks!Weight, S)
      BY SharesAddUp
    <2> QED
      BY <2>4, <2>5
  <1> DEFINE full == Looks!MapThenSumSet(LAMBDA s : Looks!Weight[s], common)
             same == Looks!MapThenSumSet(LAMBDA s : Looks!Weight[s], equal)
  <1>2. full \in Nat /\ same \in Nat
    BY <1>1
  <1>3. Looks!Similarity(r, a, b) = IF full = 0 THEN <<0, 1>> ELSE <<same, full>>
    BY DEF Looks!Similarity
  <1> HIDE DEF full, same
  <1> QED
    BY <1>2, <1>3 DEF IsRatio

(* The points that are left of a look are a fraction too: the least of those  *)
(* that any of the looks that are shown leaves.                               *)
LEMMA AdjustedIs ==
    ASSUME NEW r, IsLooksRequest(r), NEW a \in Dress(r),
           NEW list \in Seq(Dress(r)), list # <<>>
    PROVE  IsRatio(Looks!Adjusted(r, a, list))
  <1> DEFINE f(b) == Looks!Similarity(r, a, b)
             reduced(b) == <<Looks!Points(a, r.style) * f(b)[2] - 40 * f(b)[1], f(b)[2]>>
             values == {reduced(b) : b \in Looks!Range(list)}
             R == {p \in values \X values : ~ Looks!Less(p[2], p[1])}
             g == [i \in DOMAIN list |-> reduced(list[i])]
  <1>1. Looks!Range(list) = {list[i] : i \in DOMAIN list} /\ Looks!Range(list) \subseteq Dress(r)
    BY DEF Looks!Range
  <1>2. ASSUME NEW b \in Dress(r) PROVE IsRatio(reduced(b))
    <2>1. Looks!Points(a, r.style) \in Int
      BY PointsAre
    <2>2. f(b)[1] \in Int /\ f(b)[2] \in Nat \ {0}
      BY <1>2, SimilarityIs DEF IsRatio
    <2> HIDE DEF f
    <2>3. Looks!Points(a, r.style) * f(b)[2] - 40 * f(b)[1] \in Int
      BY <2>1, <2>2
    <2> QED
      BY <2>2, <2>3 DEF IsRatio
  <1> HIDE DEF reduced
  <1>3. values = {g[i] : i \in DOMAIN list} /\ DOMAIN g = DOMAIN list
    BY <1>1
  <1>4. IsFiniteSet(values)
    <2>1. IsFiniteSet(DOMAIN list)
      BY FS_Interval
    <2> HIDE DEF values, g
    <2> QED
      BY <1>3, <2>1, ImageIsFinite
  <1>5. \A v \in values : IsRatio(v)
    BY <1>1, <1>2
  <1>6. values # {}
    BY <1>1
  <1>7. Looks!Adjusted(r, a, list) = CHOOSE v \in values : \A w \in values : ~ Looks!Less(w, v)
    BY DEF Looks!Adjusted, reduced
  <1> HIDE DEF values, g
  <1>8. \A v, w \in values : <<v, w>> \in R \/ <<w, v>> \in R
    BY <1>5, RatiosOrder
  <1>9. \A u, v, w \in values : <<u, v>> \in R /\ <<v, w>> \in R => <<u, w>> \in R
    <2> SUFFICES ASSUME NEW u \in values, NEW v \in values, NEW w \in values,
                        ~ Looks!Less(v, u), ~ Looks!Less(w, v)
                 PROVE  ~ Looks!Less(w, u)
      OBVIOUS
    <2> QED
      BY <1>5, RatiosOrder
  <1>10. \E v \in values : \A w \in values : <<v, w>> \in R
    <2> HIDE DEF R
    <2> QED
      BY <1>4, <1>6, <1>8, <1>9, FirstExists
  <1>11. \E v \in values : \A w \in values : ~ Looks!Less(w, v)
    BY <1>10
  <1> QED
    BY <1>5, <1>7, <1>11

(* The order in which looks are shown is one of looks.                        *)
LEMMA AheadOrder ==
    ASSUME NEW r, IsLooksRequest(r), NEW list \in Seq(Dress(r))
    PROVE  /\ \A a \in Dress(r) : ~ Looks!Ahead(r, list, a, a)
           /\ \A a, b \in Dress(r) : a = b \/ Looks!Ahead(r, list, a, b) \/ Looks!Ahead(r, list, b, a)
           /\ \A a, b, c \in Dress(r) :
                 Looks!Ahead(r, list, a, b) /\ Looks!Ahead(r, list, b, c) => Looks!Ahead(r, list, a, c)
  <1>1. CASE list = <<>>
    <2>1. \A a, b : Looks!Ahead(r, list, a, b) <=> Looks!Better(r, a, b)
      BY <1>1 DEF Looks!Ahead
    <2> QED
      BY <2>1, LooksOrder
  <1>2. CASE list # <<>>
    <2> DEFINE v(a) == Looks!Adjusted(r, a, list)
               less(x, y) == Looks!Less(x, y)
               better(a, b) == Looks!Better(r, a, b)
    <2>1. \A a, b : Looks!Ahead(r, list, a, b) <=>
                        less(v(b), v(a)) \/ (~ less(v(a), v(b)) /\ better(a, b))
      BY <1>2 DEF Looks!Ahead
    <2>2. ASSUME NEW a \in Dress(r) PROVE IsRatio(v(a))
      BY <1>2, <2>2, AdjustedIs
    <2>3. /\ \A x : IsRatio(x) => ~ less(x, x)
          /\ \A x, y : IsRatio(x) /\ IsRatio(y) => ~ (less(x, y) /\ less(y, x))
          /\ \A x, y, z : IsRatio(x) /\ IsRatio(y) /\ IsRatio(z) /\ ~ less(x, y) /\ ~ less(y, z) => ~ less(x, z)
      BY RatiosOrder
    <2>4. /\ \A a \in Dress(r) : ~ better(a, a)
          /\ \A a, b \in Dress(r) : a = b \/ better(a, b) \/ better(b, a)
          /\ \A a, b, c \in Dress(r) : better(a, b) /\ better(b, c) => better(a, c)
      BY LooksOrder
    <2> HIDE DEF v, less, better
    <2>5. \A a \in Dress(r) : ~ Looks!Ahead(r, list, a, a)
      BY <2>1, <2>2, <2>3, <2>4
    <2>6. ASSUME NEW a \in Dress(r), NEW b \in Dress(r)
          PROVE  a = b \/ Looks!Ahead(r, list, a, b) \/ Looks!Ahead(r, list, b, a)
      BY <2>1, <2>2, <2>3, <2>4
    <2>7. ASSUME NEW a \in Dress(r), NEW b \in Dress(r), NEW c \in Dress(r),
                 Looks!Ahead(r, list, a, b), Looks!Ahead(r, list, b, c)
          PROVE  Looks!Ahead(r, list, a, c)
      <3>1. IsRatio(v(a)) /\ IsRatio(v(b)) /\ IsRatio(v(c))
        BY <2>2
      <3>2. ~ less(v(a), v(b)) /\ ~ less(v(b), v(c))
        BY <2>1, <2>3, <2>7, <3>1
      <3>3. ~ less(v(a), v(c))
        BY <2>3, <3>1, <3>2
      <3>4. CASE less(v(c), v(a))
        BY <2>1, <3>4
      <3>5. CASE ~ less(v(c), v(a))
        <4>1. ~ less(v(b), v(a))
          BY <2>3, <3>1, <3>2, <3>5
        <4>2. ~ less(v(c), v(b))
          BY <2>3, <3>1, <3>2, <3>5
        <4>3. better(a, b) /\ better(b, c)
          BY <2>1, <2>7, <4>1, <4>2
        <4>4. better(a, c)
          BY <2>4, <4>3
        <4> QED
          BY <2>1, <3>3, <4>4
      <3> QED
        BY <3>4, <3>5
    <2> QED
      BY <2>5, <2>6, <2>7
  <1> QED
    BY <1>1, <1>2

(* One of the looks that are left is ahead of all the others.                 *)
LEMMA NextIs ==
    ASSUME NEW r, IsLooksRequest(r), NEW list \in Seq(Dress(r)), NEW left \in SUBSET Dress(r), left # {}
    PROVE  LET next == CHOOSE a \in left : \A b \in left \ {a} : Looks!Ahead(r, list, a, b)
           IN  next \in left /\ \A b \in left \ {next} : Looks!Ahead(r, list, next, b)
  <1> DEFINE R == {p \in left \X left : p[1] = p[2] \/ Looks!Ahead(r, list, p[1], p[2])}
  <1>1. IsFiniteSet(left)
    BY DressIs, FS_Subset
  <1>2. \A a, b \in left : <<a, b>> \in R \/ <<b, a>> \in R
    BY AheadOrder
  <1>3. \A a, b, c \in left : <<a, b>> \in R /\ <<b, c>> \in R => <<a, c>> \in R
    <2> SUFFICES ASSUME NEW a \in left, NEW b \in left, NEW c \in left,
                        a = b \/ Looks!Ahead(r, list, a, b), b = c \/ Looks!Ahead(r, list, b, c)
                 PROVE  a = c \/ Looks!Ahead(r, list, a, c)
      OBVIOUS
    <2> QED
      BY AheadOrder
  <1>4. \E a \in left : \A b \in left : <<a, b>> \in R
    <2> HIDE DEF R
    <2> QED
      BY <1>1, <1>2, <1>3, FirstExists
  <1>5. \E a \in left : \A b \in left \ {a} : Looks!Ahead(r, list, a, b)
    BY <1>4
  <1> QED
    BY <1>5

(* What is shown: some of the looks, none of them twice, and first the best.  *)
LEMMA SelectedIs ==
    ASSUME NEW r, IsLooksRequest(r), NEW looks \in SUBSET Dress(r)
    PROVE  LET list == Looks!Selected(r, looks)
           IN  /\ list \in Seq(looks) /\ Len(list) <= r.limit
               /\ \A i, j \in DOMAIN list : list[i] = list[j] => i = j
               /\ looks # {} => list # <<>> /\ \A b \in looks \ {list[1]} : Looks!Better(r, list[1], b)
  <1> DEFINE grown(f, n) == IF n = 0 THEN <<>> ELSE Looks!Grown(r, looks, f[n - 1])
             fits(f, n) == f = [m \in 0 .. n |-> grown(f, m)]
             good == {n \in Nat : \E f : fits(f, n)}
  <1>1. r.limit \in Nat /\ r.limit > 0
    BY DEF IsLooksRequest
  <1>2. \E f : fits(f, r.limit)
    <2>1. 0 \in good
      <3> DEFINE f == [m \in 0 .. 0 |-> <<>>]
      <3>1. fits(f, 0)
        OBVIOUS
      <3> QED
        BY <3>1
    <2>2. ASSUME NEW n \in Nat, n \in good PROVE n + 1 \in good
      <3>1. PICK f : fits(f, n)
        BY <2>2
      <3> DEFINE g == [m \in 0 .. n + 1 |-> IF m <= n THEN f[m] ELSE Looks!Grown(r, looks, f[n])]
      <3>2. ASSUME NEW m \in 0 .. n + 1 PROVE g[m] = grown(g, m)
        <4>1. CASE m = 0
          BY <3>1, <4>1
        <4>2. CASE m # 0 /\ m <= n
          <5>1. m \in 0 .. n /\ m - 1 \in 0 .. n + 1 /\ m - 1 <= n
            BY <4>2
          <5>2. f[m] = Looks!Grown(r, looks, f[m - 1])
            BY <3>1, <4>2, <5>1
          <5> QED
            BY <4>2, <5>1, <5>2
        <4>3. CASE m = n + 1
          BY <4>3
        <4> QED
          BY <3>2, <4>1, <4>2, <4>3
      <3>3. g = [m \in 0 .. n + 1 |-> g[m]]
        OBVIOUS
      <3> HIDE DEF g
      <3>4. fits(g, n + 1)
        BY <3>2, <3>3
      <3> HIDE DEF fits
      <3> QED
        BY <3>4
    <2> HIDE DEF good
    <2>3. Nat \subseteq good
      BY <2>1, <2>2, Orders!NumbersFollow
    <2> QED
      BY <1>1, <2>3 DEF good
  <1> DEFINE f == CHOOSE g : fits(g, r.limit)
             q(n) == f[n]
  <1>3. fits(f, r.limit)
    BY <1>2
  <1>4. Looks!Selected(r, looks) = q(r.limit)
    BY DEF Looks!Selected
  <1> HIDE DEF f
  <1> DEFINE next(n) == CHOOSE a \in looks \ Looks!Range(q(n)) :
                            \A b \in (looks \ Looks!Range(q(n))) \ {a} : Looks!Ahead(r, q(n), a, b)
  <1>5. q(0) = <<>> /\ \A n \in 0 .. r.limit - 1 :
            q(n + 1) = IF looks \ Looks!Range(q(n)) = {} THEN q(n) ELSE Append(q(n), next(n))
    <2>1. q(0) = <<>>
      BY <1>1, <1>3
    <2>2. ASSUME NEW n \in 0 .. r.limit - 1 PROVE q(n + 1) = Looks!Grown(r, looks, q(n))
      <3>1. n + 1 \in 0 .. r.limit /\ n + 1 # 0 /\ (n + 1) - 1 = n
        BY <1>1
      <3>2. f[n + 1] = Looks!Grown(r, looks, f[(n + 1) - 1])
        BY <1>3, <3>1
      <3> QED
        BY <3>1, <3>2
    <2> HIDE DEF q
    <2> QED
      BY <2>1, <2>2 DEF Looks!Grown
  <1> DEFINE is(n) == /\ q(n) \in Seq(looks) /\ Len(q(n)) <= n
                      /\ \A i, j \in DOMAIN q(n) : q(n)[i] = q(n)[j] => i = j
                      /\ n > 0 /\ looks # {} =>
                            q(n) # <<>> /\ \A b \in looks \ {q(n)[1]} : Looks!Better(r, q(n)[1], b)
             S == {n \in Nat : n <= r.limit => is(n)}
  <1> HIDE DEF q
  <1>6. 0 \in S
    <2>1. q(0) = <<>>
      BY <1>5
    <2>2. <<>> \in Seq(looks) /\ Len(<<>>) <= 0 /\ DOMAIN <<>> = {} /\ ~ 0 > 0
      OBVIOUS
    <2>3. is(0)
      BY <2>1, <2>2, Zenon
    <2> QED
      BY <2>3
  <1>7. ASSUME NEW n \in Nat, n \in S PROVE n + 1 \in S
    <2> SUFFICES ASSUME n + 1 <= r.limit PROVE is(n + 1)
      OBVIOUS
    <2> DEFINE left == looks \ Looks!Range(q(n))
    <2>1. is(n) /\ n \in 0 .. r.limit - 1
      BY <1>1, <1>7
    <2>2. Looks!Range(q(n)) = {q(n)[i] : i \in DOMAIN q(n)}
      BY DEF Looks!Range
    <2>3. CASE left = {}
      <3>1. q(n + 1) = q(n)
        BY <1>5, <2>1, <2>3
      <3>2. looks # {} => q(n) # <<>>
        BY <2>2, <2>3
      <3>3. n = 0 => q(n) = <<>>
        BY <1>5
      <3>4. n > 0 \/ looks = {}
        BY <3>2, <3>3
      <3> QED
        BY <2>1, <3>1, <3>4
    <2>4. CASE left # {}
      <3>1. q(n + 1) = Append(q(n), next(n))
        BY <1>5, <2>1, <2>4
      <3>2. q(n) \in Seq(Dress(r)) /\ left \in SUBSET Dress(r)
        BY <2>1
      <3>3. next(n) \in left /\ \A b \in left \ {next(n)} : Looks!Ahead(r, q(n), next(n), b)
        BY <2>4, <3>2, NextIs
      <3> HIDE DEF next
      <3>4. q(n) \in Seq(looks) /\ next(n) \in looks
        BY <2>1, <3>3
      <3>5. /\ q(n + 1) \in Seq(looks) /\ Len(q(n + 1)) = Len(q(n)) + 1
            /\ \A i \in 1 .. Len(q(n)) : q(n + 1)[i] = q(n)[i]
            /\ q(n + 1)[Len(q(n)) + 1] = next(n) /\ DOMAIN q(n + 1) = 1 .. Len(q(n)) + 1
        <4> DEFINE p == q(n)  a == next(n)  s == q(n + 1)
        <4>1. s = Append(p, a) /\ p \in Seq(looks) /\ a \in looks
          BY <3>1, <3>4
        <4> HIDE DEF p, a, s
        <4>2. /\ s \in Seq(looks) /\ Len(s) = Len(p) + 1
              /\ \A i \in 1 .. Len(p) : s[i] = p[i]
              /\ s[Len(p) + 1] = a
          BY <4>1
        <4>3. DOMAIN s = 1 .. Len(p) + 1
          BY <4>2
        <4> QED
          BY <4>2, <4>3 DEF p, a, s
      <3>6. \A i \in 1 .. Len(q(n)) : q(n)[i] # next(n)
        BY <2>2, <3>3, <3>4
      <3>7. ASSUME NEW i \in DOMAIN q(n + 1), NEW j \in DOMAIN q(n + 1), q(n + 1)[i] = q(n + 1)[j]
            PROVE  i = j
        <4> DEFINE m == Len(q(n))
        <4>1. m \in Nat /\ i \in 1 .. m + 1 /\ j \in 1 .. m + 1 /\ DOMAIN q(n) = 1 .. m
          BY <3>4, <3>5, <3>7
        <4>2. /\ i \in 1 .. m /\ j \in 1 .. m => i = j
              /\ i \in 1 .. m => j # m + 1
              /\ j \in 1 .. m => i # m + 1
          BY <2>1, <3>5, <3>6, <3>7, <4>1
        <4> HIDE DEF m
        <4> QED
          BY <4>1, <4>2
      <3>8. CASE n = 0
        <4>1. q(n) = <<>> /\ Looks!Range(q(n)) = {} /\ left = looks
          BY <1>5, <2>2, <3>8
        <4>2. q(n + 1)[1] = next(n) /\ q(n + 1) # <<>>
          BY <3>5, <4>1
        <4>3. \A b : Looks!Ahead(r, q(n), next(n), b) <=> Looks!Better(r, next(n), b)
          BY <4>1 DEF Looks!Ahead
        <4>4. \A b \in looks \ {next(n)} : Looks!Better(r, next(n), b)
          BY <3>3, <4>1, <4>3
        <4> QED
          BY <2>1, <3>5, <3>7, <4>2, <4>4
      <3>9. CASE n # 0
        <4>1. looks # {} => q(n) # <<>> /\ \A b \in looks \ {q(n)[1]} : Looks!Better(r, q(n)[1], b)
          BY <2>1, <3>9
        <4>2. q(n) # <<>> => q(n + 1)[1] = q(n)[1] /\ q(n + 1) # <<>>
          BY <3>4, <3>5
        <4> QED
          BY <2>1, <3>5, <3>7, <4>1, <4>2
      <3> QED
        BY <3>8, <3>9
    <2> QED
      BY <2>3, <2>4
  <1> HIDE DEF S
  <1>8. Nat \subseteq S
    BY <1>6, <1>7, Orders!NumbersFollow
  <1>9. is(r.limit)
    BY <1>1, <1>8 DEF S
  <1> QED
    BY <1>1, <1>4, <1>9

-----------------------------------------------------------------------------
(* What is put together.                                                      *)

LEMMA LooksMax ==
    ASSUME NEW S \in SUBSET Int, IsFiniteSet(S), S # {}
    PROVE  Looks!Max(S) \in S /\ \A y \in S : Looks!Max(S) >= y
  <1>1. Looks!Max(S) = Orders!Max(S)
    BY DEF Looks!Max, Orders!Max
  <1> QED
    BY <1>1, OrdersFinite, Orders!Greatest

LEMMA PairIsFinite ==
    ASSUME NEW a, NEW b
    PROVE  IsFiniteSet({a, b})
  <1>1. IsFiniteSet({a})
    BY FS_Singleton
  <1>2. IsFiniteSet({a} \cup {b})
    BY <1>1, FS_AddElement
  <1>3. {a, b} = {a} \cup {b}
    OBVIOUS
  <1> QED
    BY <1>2, <1>3

(* At least two completions of a core are kept.                               *)
LEMMA TwoAreKept ==
    ASSUME NEW r, IsLooksRequest(r)
    PROVE  Looks!PerCore(r) \in Int /\ Looks!PerCore(r) >= 2
  <1> DEFINE size(s) == Cardinality(Looks!Candidates(r, s))
             cores == size("top") * size("bottom")
             most == Looks!Max({1, cores})
             share == (2 * r.limit) \div most
  <1>1. ASSUME NEW s \in Looks!Core PROVE size(s) \in Nat
    <2>1. Looks!Candidates(r, s) = Looks!Considered(r, {}, s)
      BY <1>1 DEF Looks!Considered
    <2>2. Looks!Candidates(r, s) \subseteq LooksPieces(r)
      BY <2>1, ConsideredIs
    <2>3. IsFiniteSet(Looks!Candidates(r, s))
      BY <2>2, PiecesAreFinite, FS_Subset
    <2> QED
      BY <2>3, FS_CardinalityType
  <1>2. size("top") \in Nat /\ size("bottom") \in Nat
    BY <1>1 DEF Looks!Core
  <1> HIDE DEF size
  <1>3. cores \in Nat
    BY <1>2
  <1> HIDE DEF cores
  <1>4. most \in Nat \ {0}
    <2>1. {1, cores} \in SUBSET Int /\ {1, cores} # {}
      BY <1>3
    <2>2. most \in {1, cores} /\ \A y \in {1, cores} : most >= y
      BY <2>1, PairIsFinite, LooksMax
    <2> HIDE DEF most
    <2>3. most >= 1
      BY <2>2
    <2> QED
      BY <1>3, <2>2, <2>3
  <1>5. r.limit \in Nat
    BY DEF IsLooksRequest
  <1> HIDE DEF most
  <1>6. share \in Int
    BY <1>4, <1>5
  <1>7. Looks!PerCore(r) = Looks!Max({2, share})
    BY LooksFinite DEF Looks!PerCore, share, most, cores, size
  <1> HIDE DEF share
  <1>8. {2, share} \in SUBSET Int /\ {2, share} # {}
    BY <1>6
  <1>9. Looks!Max({2, share}) \in {2, share} /\ \A y \in {2, share} : Looks!Max({2, share}) >= y
    BY <1>8, PairIsFinite, LooksMax
  <1> QED
    BY <1>6, <1>7, <1>9

(* The best of what a configuration is filled with is kept.                   *)
LEMMA CompletionsAre ==
    ASSUME NEW r, IsLooksRequest(r), NEW slots \in SUBSET Looks!Slots
    PROVE  /\ Looks!Completions(r, slots) \subseteq Looks!Feasible(r, slots)
           /\ \A look \in Looks!Feasible(r, slots) : \E best \in Looks!Completions(r, slots) :
                 best = look \/ Looks!Better(r, best, look)
  <1> DEFINE looks == Looks!Feasible(r, slots)
             above(a) == {b \in looks : Looks!SameCore(a, b) /\ Looks!Better(r, b, a)}
  <1>1. Looks!Completions(r, slots) = {a \in looks : Cardinality(above(a)) < Looks!PerCore(r)}
    BY LooksFinite DEF Looks!Completions
  <1>2. looks \in SUBSET Dress(r)
    BY FeasibleIs
  <1> HIDE DEF looks
  <1>3. ASSUME looks # {}
        PROVE  \E best \in Looks!Completions(r, slots) :
                  \A look \in looks : best = look \/ Looks!Better(r, best, look)
    <2> DEFINE best == CHOOSE a \in looks : \A b \in looks \ {a} : Looks!Ahead(r, <<>>, a, b)
    <2>1. <<>> \in Seq(Dress(r))
      OBVIOUS
    <2>2. best \in looks /\ \A b \in looks \ {best} : Looks!Ahead(r, <<>>, best, b)
      BY <1>2, <1>3, <2>1, NextIs
    <2> HIDE DEF best
    <2>3. \A a, b : Looks!Ahead(r, <<>>, a, b) <=> Looks!Better(r, a, b)
      BY DEF Looks!Ahead
    <2>4. \A b \in looks : best = b \/ Looks!Better(r, best, b)
      BY <2>2, <2>3
    <2>5. above(best) = {}
      <3> SUFFICES ASSUME NEW b \in looks, Looks!Better(r, b, best) PROVE FALSE
        OBVIOUS
      <3>1. b \in Dress(r) /\ best \in Dress(r)
        BY <1>2, <2>2
      <3>2. ~ Looks!Better(r, best, best)
        BY <3>1, LooksOrder
      <3>3. Looks!Better(r, best, b)
        BY <2>4, <3>2
      <3> QED
        BY <3>1, <3>2, <3>3, LooksOrder
    <2>6. Cardinality(above(best)) = 0
      BY <2>5, FS_EmptySet
    <2> HIDE DEF above
    <2>7. best \in Looks!Completions(r, slots)
      BY <1>1, <2>2, <2>6, TwoAreKept
    <2> QED
      BY <2>4, <2>7
  <1>4. Looks!Completions(r, slots) \subseteq looks
    BY <1>1
  <1>5. \A look \in looks : looks # {}
    OBVIOUS
  <1> QED
    BY <1>3, <1>4, <1>5 DEF looks

(* A configuration has what is required, and else what there is.              *)
Possible(r, slots) ==
    Looks!Required(r) \subseteq slots /\ slots \subseteq Looks!Required(r) \cup Looks!Optional(r)

LEMMA PossibleIs ==
    ASSUME NEW r, IsLooksRequest(r)
    PROVE  /\ Looks!Required(r) \cup Looks!Optional(r) \in SUBSET Looks!Slots
           /\ \A slots : Possible(r, slots) => slots \in SUBSET Looks!Slots
           /\ \A k, slots : slots \in Looks!Configurations(r, k) <=> Possible(r, slots) /\ Cardinality(slots) = k
  <1>1. Looks!AnchorSlots(r) \in SUBSET Looks!Slots
    <2>1. \A x \in Looks!Anchored(r) : x \in LooksPieces(r) /\ x.slot # Unknown
      BY AnchorIsOne DEF Looks!Anchored
    <2>2. \A x \in Looks!Anchored(r) : x.slot \in Looks!Slots
      BY <2>1 DEF IsLooksRequest, IsPiece
    <2> QED
      BY <2>2 DEF Looks!AnchorSlots
  <1>2. Looks!Required(r) \in SUBSET Looks!Slots
    BY <1>1 DEF Looks!Required, Looks!Core, Looks!Slots
  <1>3. Looks!Optional(r) \in SUBSET Looks!Slots
    BY DEF Looks!Optional
  <1>4. \A k, slots : slots \in Looks!Configurations(r, k) <=> Possible(r, slots) /\ Cardinality(slots) = k
    BY LooksFinite DEF Looks!Configurations, Possible
  <1> QED
    BY <1>2, <1>3, <1>4 DEF Possible

(* What is put together has as many pieces as any look could have, and with   *)
(* each that has as many one that is at least as good.                        *)
LEMMA AssembledIs ==
    ASSUME NEW r, IsLooksRequest(r)
    PROVE  /\ Looks!Assembled(r) \in SUBSET Dress(r)
           /\ \A look \in Looks!Assembled(r) :
                 Possible(r, DOMAIN look) /\ look \in Looks!Feasible(r, DOMAIN look)
           /\ \A slots : Possible(r, slots) /\ Looks!Feasible(r, slots) # {} =>
                 /\ Looks!Assembled(r) # {}
                 /\ \A look \in Looks!Assembled(r) :
                       /\ Cardinality(slots) <= Cardinality(DOMAIN look)
                       /\ Cardinality(slots) = Cardinality(DOMAIN look) =>
                             \A other \in Looks!Feasible(r, slots) : \E best \in Looks!Assembled(r) :
                                best = other \/ Looks!Better(r, best, other)
  <1> DEFINE least == Cardinality(Looks!Required(r))
             most == Cardinality(Looks!Slots)
             sizes == {k \in least .. most : Looks!OfSize(r, k) # {}}
             size == Looks!Max(sizes)
  <1>1. least \in 0 .. 5 /\ most = 5 /\ sizes \in SUBSET Int /\ IsFiniteSet(sizes)
    <2>1. least \in 0 .. 5
      BY PossibleIs, SlotsAreFew
    <2>2. most = 5
      BY SlotsAreFew
    <2> HIDE DEF least, most
    <2>3. sizes \in SUBSET (0 .. 5)
      BY <2>1, <2>2
    <2>4. IsFiniteSet(0 .. 5)
      <3>1. 0 \in Int /\ 5 \in Int
        OBVIOUS
      <3> QED
        BY <3>1, FS_Interval, Zenon
    <2>5. IsFiniteSet(sizes) /\ sizes \in SUBSET Int
      <3>1. 0 .. 5 \in SUBSET Int
        OBVIOUS
      <3> HIDE DEF sizes
      <3>2. IsFiniteSet(sizes)
        BY <2>3, <2>4, FS_Subset, Zenon
      <3> QED
        BY <2>3, <3>1, <3>2
    <2> QED
      BY <2>1, <2>2, <2>5
  <1>2. Looks!Assembled(r) = IF sizes = {} THEN {} ELSE Looks!OfSize(r, size)
    BY LooksFinite DEF Looks!Assembled
  <1>3. ASSUME NEW k, NEW look \in Looks!OfSize(r, k)
        PROVE  /\ Possible(r, DOMAIN look) /\ Cardinality(DOMAIN look) = k
               /\ look \in Looks!Feasible(r, DOMAIN look) /\ look \in Dress(r)
    <2>1. PICK slots \in Looks!Configurations(r, k) : look \in Looks!Completions(r, slots)
      BY <1>3 DEF Looks!OfSize
    <2>2. Possible(r, slots) /\ Cardinality(slots) = k /\ slots \in SUBSET Looks!Slots
      BY <2>1, PossibleIs
    <2>3. look \in Looks!Feasible(r, slots)
      BY <2>1, <2>2, CompletionsAre
    <2>4. DOMAIN look = slots /\ look \in Dress(r)
      BY <2>2, <2>3, FeasibleIs
    <2> QED
      BY <2>2, <2>3, <2>4
  <1>4. ASSUME NEW slots, Possible(r, slots), NEW other \in Looks!Feasible(r, slots)
        PROVE  /\ Cardinality(slots) \in sizes
               /\ \E best \in Looks!OfSize(r, Cardinality(slots)) : best = other \/ Looks!Better(r, best, other)
    <2>1. slots \in SUBSET Looks!Slots /\ slots \in Looks!Configurations(r, Cardinality(slots))
      BY <1>4, PossibleIs
    <2>2. PICK best \in Looks!Completions(r, slots) : best = other \/ Looks!Better(r, best, other)
      BY <1>4, <2>1, CompletionsAre
    <2>3. best \in Looks!OfSize(r, Cardinality(slots))
      BY <2>1, <2>2 DEF Looks!OfSize
    <2>4. IsFiniteSet(slots) /\ Cardinality(slots) \in 0 .. 5
      BY <2>1, SlotsAreFew
    <2>5. Cardinality(Looks!Required(r)) <= Cardinality(slots)
      BY <1>4, <2>4, FS_Subset DEF Possible
    <2>6. Cardinality(slots) \in sizes
      BY <1>1, <2>3, <2>4, <2>5
    <2> QED
      BY <2>2, <2>3, <2>6
  <1> HIDE DEF sizes, least, most
  <1>5. sizes # {} => size \in sizes /\ \A k \in sizes : size >= k
    BY <1>1, LooksMax
  <1> HIDE DEF size
  <1>6. \A look \in Looks!Assembled(r) :
            /\ Possible(r, DOMAIN look) /\ Cardinality(DOMAIN look) = size
            /\ look \in Looks!Feasible(r, DOMAIN look) /\ look \in Dress(r)
    BY <1>2, <1>3
  <1>7. ASSUME NEW slots, Possible(r, slots), Looks!Feasible(r, slots) # {}
        PROVE  /\ Looks!Assembled(r) # {}
               /\ \A look \in Looks!Assembled(r) :
                     /\ Cardinality(slots) <= Cardinality(DOMAIN look)
                     /\ Cardinality(slots) = Cardinality(DOMAIN look) =>
                           \A other \in Looks!Feasible(r, slots) : \E best \in Looks!Assembled(r) :
                              best = other \/ Looks!Better(r, best, other)
    <2>1. Cardinality(slots) \in sizes
      BY <1>4, <1>7
    <2>2. Looks!Assembled(r) = Looks!OfSize(r, size) /\ size >= Cardinality(slots) /\ size \in sizes
      BY <1>2, <1>5, <2>1
    <2>3. Looks!Assembled(r) # {}
      BY <2>2 DEF sizes
    <2>4. Cardinality(slots) \in Int /\ size \in Int
      BY <1>1, <2>1, <2>2
    <2>5. ASSUME NEW look \in Looks!Assembled(r)
          PROVE  /\ Cardinality(slots) <= Cardinality(DOMAIN look)
                 /\ Cardinality(slots) = Cardinality(DOMAIN look) =>
                       \A other \in Looks!Feasible(r, slots) : \E best \in Looks!Assembled(r) :
                          best = other \/ Looks!Better(r, best, other)
      <3>1. Cardinality(DOMAIN look) = size
        BY <1>6, <2>5
      <3>2. Cardinality(slots) <= size
        BY <2>2, <2>4
      <3>3. ASSUME Cardinality(slots) = size, NEW other \in Looks!Feasible(r, slots)
            PROVE  \E best \in Looks!Assembled(r) : best = other \/ Looks!Better(r, best, other)
        BY <1>4, <1>7, <2>2, <3>3
      <3> QED
        BY <3>1, <3>2, <3>3
    <2> QED
      BY <2>3, <2>5
  <1> QED
    BY <1>6, <1>7

-----------------------------------------------------------------------------
(* The laws.                                                                  *)

LEMMA LooksAreSelected ==
    ASSUME NEW r, IsLooksRequest(r)
    PROVE  LET list == Looks!Looks(r)
           IN  /\ list \in Seq(Looks!Assembled(r)) /\ Len(list) <= r.limit
               /\ \A i, j \in DOMAIN list : list[i] = list[j] => i = j
               /\ Looks!Assembled(r) # {} =>
                     /\ list # <<>> /\ list[1] \in Looks!Assembled(r)
                     /\ \A b \in Looks!Assembled(r) \ {list[1]} : Looks!Better(r, list[1], b)
               /\ Looks!Assembled(r) = {} => list = <<>>
  <1> DEFINE looks == Looks!Assembled(r)
             list == Looks!Looks(r)
  <1>1. looks \in SUBSET Dress(r)
    BY AssembledIs
  <1>2. list = Looks!Selected(r, looks)
    BY DEF Looks!Looks
  <1> HIDE DEF looks, list
  <1>3. /\ list \in Seq(looks) /\ Len(list) <= r.limit
        /\ \A i, j \in DOMAIN list : list[i] = list[j] => i = j
        /\ looks # {} => list # <<>> /\ \A b \in looks \ {list[1]} : Looks!Better(r, list[1], b)
    BY <1>1, <1>2, SelectedIs
  <1>4. list # <<>> => list[1] \in looks
    BY <1>3
  <1>5. looks = {} => list = <<>>
    BY <1>3
  <1> QED
    BY <1>3, <1>4, <1>5 DEF looks, list

(* A look that is put together is whole. *)
LEMMA AssembledIsWhole ==
    ASSUME NEW r, IsLooksRequest(r), NEW look \in Looks!Assembled(r)
    PROVE  /\ Looks!Required(r) \subseteq DOMAIN look
           /\ \A s \in DOMAIN look : look[s].slot = s
           /\ Looks!Cardinality({x.id : x \in Looks!Items(look)}) = Looks!Cardinality(DOMAIN look)
           /\ r.budget # Unknown => Looks!Price(look) <= r.budget
           /\ Looks!Anchored(r) \subseteq Looks!Items(look)
           /\ r.user = Unknown /\ ~ (r.anchor # Unknown /\ r.anchor.source = "wardrobe") =>
                 \A x \in Looks!Items(look) : x.source = "catalog"
  <1> DEFINE S == DOMAIN look
  <1>1. Possible(r, S) /\ look \in Looks!Feasible(r, S) /\ S \in SUBSET Looks!Slots
    BY AssembledIs, PossibleIs
  <1> HIDE DEF S
  <1>2. /\ DOMAIN look = S
        /\ \A s \in S : look[s] \in Looks!Considered(r, S, s)
        /\ \A s, t \in S : s # t => look[s].id # look[t].id
        /\ Looks!Affordable(r, look)
    BY <1>1, FeasibleIs
  <1>3. \A s \in S :
            /\ look[s].slot = s
            /\ s \in Looks!AnchorSlots(r) => look[s] \in Looks!Anchored(r)
            /\ r.user = Unknown /\ (s \in Looks!AnchorSlots(r) => r.anchor.source # "wardrobe") =>
                  look[s].source = "catalog"
    BY <1>2, ConsideredIs
  <1>4. Cardinality({x.id : x \in Looks!Items(look)}) = Cardinality(S)
    <2> DEFINE f == [s \in S |-> look[s].id]
               ids == {x.id : x \in Looks!Items(look)}
    <2>1. ids = {look[s].id : s \in S}
      BY <1>2 DEF Looks!Items
    <2>2. f \in Bijection(S, ids)
      BY <1>2, <2>1 DEF Bijection, Injection, Surjection, IsInjective
    <2>3. IsFiniteSet(S)
      BY <1>1, SlotsAreFew
    <2> HIDE DEF f, ids
    <2>4. Cardinality(ids) = Cardinality(S)
      BY <2>2, <2>3, FS_Bijection DEF ExistsBijection
    <2> QED
      BY <2>4 DEF ids
  <1>5. Looks!Anchored(r) \subseteq Looks!Items(look)
    <2> SUFFICES ASSUME NEW x \in Looks!Anchored(r) PROVE x \in Looks!Items(look)
      OBVIOUS
    <2>1. x.slot \in Looks!AnchorSlots(r)
      BY DEF Looks!AnchorSlots
    <2>2. x.slot \in S
      BY <1>1, <2>1 DEF Possible, Looks!Required
    <2>3. look[x.slot] = x
      BY <1>3, <2>1, <2>2, AnchorIsOne
    <2> QED
      BY <1>2, <2>2, <2>3 DEF Looks!Items
  <1>6. ASSUME r.user = Unknown, ~ (r.anchor # Unknown /\ r.anchor.source = "wardrobe"),
               NEW x \in Looks!Items(look)
        PROVE  x.source = "catalog"
    <2>1. PICK s \in S : x = look[s]
      BY <1>2, <1>6 DEF Looks!Items
    <2>2. s \in Looks!AnchorSlots(r) => r.anchor # Unknown
      BY DEF Looks!AnchorSlots, Looks!Anchored, Looks!Anchors
    <2> QED
      BY <1>3, <1>6, <2>1, <2>2
  <1>7. r.budget # Unknown => Looks!Price(look) <= r.budget
    BY <1>2 DEF Looks!Affordable
  <1> QED
    BY <1>1, <1>2, <1>3, <1>4, <1>5, <1>6, <1>7, LooksFinite DEF Possible

LEMMA WholeLooks ==
    ASSUME NEW r, IsLooksRequest(r)
    PROVE  Looks!LooksAreWhole(r)
  <1> DEFINE list == Looks!Answer(r).looks
             refused == r.anchor # Unknown /\ r.anchor.source = "wardrobe" /\ r.user = Unknown
             whole(look) ==
                /\ Looks!Required(r) \subseteq DOMAIN look
                /\ \A s \in DOMAIN look : look[s].slot = s
                /\ Looks!Cardinality({x.id : x \in Looks!Items(look)}) = Looks!Cardinality(DOMAIN look)
                /\ r.budget # Unknown => Looks!Price(look) <= r.budget
                /\ Looks!Anchored(r) \subseteq Looks!Items(look)
                /\ r.user = Unknown => \A x \in Looks!Items(look) : x.source = "catalog"
  <1>1. list = <<>> \/ (list = Looks!Looks(r) /\ ~ refused)
    BY DEF Looks!Answer
  <1>2. ASSUME ~ refused, NEW look \in Looks!Assembled(r) PROVE whole(look)
    BY <1>2, AssembledIsWhole
  <1> HIDE DEF whole
  <1>3. Len(list) <= r.limit /\ Looks!IsInjective(list) /\ \A i \in DOMAIN list : whole(list[i])
    <2>1. CASE list = <<>>
      <3>1. Len(<<>>) = 0 /\ DOMAIN <<>> = {} /\ 0 <= r.limit
        BY DEF IsLooksRequest
      <3> HIDE DEF list
      <3> QED
        BY <2>1, <3>1 DEF Looks!IsInjective
    <2>2. CASE list = Looks!Looks(r) /\ ~ refused
      <3>1. /\ list \in Seq(Looks!Assembled(r)) /\ Len(list) <= r.limit
            /\ \A i, j \in DOMAIN list : list[i] = list[j] => i = j
        BY <2>2, LooksAreSelected
      <3> HIDE DEF list, refused
      <3> QED
        BY <1>2, <2>2, <3>1 DEF Looks!IsInjective
    <2> QED
      BY <1>1, <2>1, <2>2
  <1> QED
    BY <1>3 DEF Looks!LooksAreWhole, whole

(* The first is the best. *)
LEMMA BestIsFirst ==
    ASSUME NEW r, IsLooksRequest(r), NEW slots, Possible(r, slots), Looks!Feasible(r, slots) # {}
    PROVE  LET looks == Looks!Looks(r)
           IN  /\ looks # <<>> /\ Cardinality(slots) <= Cardinality(DOMAIN looks[1])
               /\ Cardinality(slots) = Cardinality(DOMAIN looks[1]) =>
                     \A look \in Looks!Feasible(r, slots) :
                        Looks!Points(look, r.style) <= Looks!Points(looks[1], r.style)
  <1> DEFINE looks == Looks!Looks(r)
             first == looks[1]
             points(look) == Looks!Points(look, r.style)
  <1>1. /\ Looks!Assembled(r) # {} /\ Looks!Assembled(r) \in SUBSET Dress(r)
        /\ \A look \in Looks!Assembled(r) :
              /\ Cardinality(slots) <= Cardinality(DOMAIN look)
              /\ Cardinality(slots) = Cardinality(DOMAIN look) =>
                    \A other \in Looks!Feasible(r, slots) : \E best \in Looks!Assembled(r) :
                       best = other \/ Looks!Better(r, best, other)
    BY AssembledIs
  <1>2. /\ looks # <<>> /\ first \in Looks!Assembled(r)
        /\ \A b \in Looks!Assembled(r) \ {first} : Looks!Better(r, first, b)
    BY <1>1, LooksAreSelected
  <1> HIDE DEF looks, first
  <1>3. ASSUME NEW a \in Dress(r), NEW b \in Dress(r), Looks!Better(r, a, b)
        PROVE  points(b) <= points(a)
    <2>1. points(a) \in Int /\ points(b) \in Int
      BY <1>3, PointsAre
    <2> QED
      BY <1>3, <2>1 DEF Looks!Better
  <1>4. ASSUME Cardinality(slots) = Cardinality(DOMAIN first), NEW look \in Looks!Feasible(r, slots)
        PROVE  points(look) <= points(first)
    <2>1. PICK best \in Looks!Assembled(r) : best = look \/ Looks!Better(r, best, look)
      BY <1>1, <1>2, <1>4
    <2>2. look \in Dress(r) /\ first \in Dress(r) /\ best \in Dress(r)
      <3>1. slots \in SUBSET Looks!Slots
        BY PossibleIs
      <3> QED
        BY <1>1, <1>2, <3>1, FeasibleIs
    <2>3. points(look) \in Int /\ points(first) \in Int /\ points(best) \in Int
      BY <2>2, PointsAre
    <2> HIDE DEF points
    <2>4. points(look) <= points(best)
      BY <1>3, <2>1, <2>2, <2>3
    <2>5. points(best) <= points(first)
      BY <1>2, <1>3, <2>2, <2>3
    <2> QED
      BY <2>3, <2>4, <2>5
  <1> QED
    BY <1>1, <1>2, <1>4 DEF looks, first

LEMMA FirstOfLooksIsBest ==
    ASSUME NEW r, IsLooksRequest(r)
    PROVE  Looks!FirstIsBest(r)
  BY BestIsFirst, LooksFinite DEF Looks!FirstIsBest, Possible

-----------------------------------------------------------------------------
(* What allows no less leaves no smaller outfit.                              *)
LEMMA NoLess ==
    ASSUME NEW r, IsLooksRequest(r), NEW q, IsLooksRequest(q),
           \A slots : Possible(r, slots) /\ Looks!Feasible(r, slots) # {} =>
               Possible(q, slots) /\ Looks!Feasible(q, slots) # {}
    PROVE  Looks!NotLess(r, q)
  <1> SUFFICES ASSUME Looks!Looks(r) # <<>>
               PROVE  /\ Looks!Looks(q) # <<>>
                      /\ Cardinality(DOMAIN Looks!Looks(r)[1]) <= Cardinality(DOMAIN Looks!Looks(q)[1])
    <2>1. ASSUME Looks!Looks(q) # <<>> PROVE Cardinality(DOMAIN Looks!Looks(q)[1]) \in Int
      <3>1. Looks!Looks(q)[1] \in Looks!Assembled(q)
        BY <2>1, LooksAreSelected
      <3>2. DOMAIN Looks!Looks(q)[1] \in SUBSET Looks!Slots
        BY <3>1, AssembledIs, PossibleIs
      <3>3. Cardinality(DOMAIN Looks!Looks(q)[1]) \in 0 .. 5
        BY <3>2, SlotsAreFew
      <3> QED
        BY <3>3
    <2>2. ASSUME Looks!Looks(r) # <<>> PROVE Cardinality(DOMAIN Looks!Looks(r)[1]) \in Int
      <3>1. Looks!Looks(r)[1] \in Looks!Assembled(r)
        BY <2>2, LooksAreSelected
      <3>2. DOMAIN Looks!Looks(r)[1] \in SUBSET Looks!Slots
        BY <3>1, AssembledIs, PossibleIs
      <3>3. Cardinality(DOMAIN Looks!Looks(r)[1]) \in 0 .. 5
        BY <3>2, SlotsAreFew
      <3> QED
        BY <3>3
    <2>3. \A m, n \in Int : m <= n => n >= m
      OBVIOUS
    <2> QED
      BY <2>1, <2>2, <2>3, LooksFinite DEF Looks!NotLess
  <1> DEFINE slots == DOMAIN Looks!Looks(r)[1]
  <1>1. Looks!Looks(r)[1] \in Looks!Assembled(r)
    BY LooksAreSelected
  <1>2. Possible(r, slots) /\ Looks!Feasible(r, slots) # {}
    BY <1>1, AssembledIs
  <1>3. Possible(q, slots) /\ Looks!Feasible(q, slots) # {}
    BY <1>2
  <1> HIDE DEF slots
  <1>4. Looks!Looks(q) # <<>> /\ Cardinality(slots) <= Cardinality(DOMAIN Looks!Looks(q)[1])
    BY <1>3, BestIsFirst
  <1> QED
    BY <1>4 DEF slots

(* What is required, and what there is for it, does not depend on a budget.   *)
LEMMA SamePieces ==
    ASSUME NEW r, NEW q, q.user = r.user, q.anchor = r.anchor, q.owned = r.owned,
           q.products = r.products, q.allowed = r.allowed
    PROVE  /\ Looks!Required(q) = Looks!Required(r) /\ Looks!Optional(q) = Looks!Optional(r)
           /\ \A slots, s : Looks!Considered(q, slots, s) = Looks!Considered(r, slots, s)
  <1>1. Looks!AnchorSlots(q) = Looks!AnchorSlots(r) /\ Looks!Anchored(q) = Looks!Anchored(r)
    <2>1. Looks!Stock(q) = Looks!Stock(r)
      BY DEF Looks!Stock
    <2>2. Looks!Anchors(q) = Looks!Anchors(r)
      BY <2>1 DEF Looks!Anchors
    <2> QED
      BY <2>2 DEF Looks!Anchored, Looks!AnchorSlots
  <1>2. ASSUME NEW s
        PROVE  Looks!Owned(q, s) = Looks!Owned(r, s) /\ Looks!Shelf(q, s) = Looks!Shelf(r, s)
    BY DEF Looks!Owned, Looks!Shelf
  <1>3. ASSUME NEW s PROVE Looks!Candidates(q, s) = Looks!Candidates(r, s)
    BY <1>1, <1>2 DEF Looks!Candidates, Looks!Pool
  <1>4. ASSUME NEW s, NEW n PROVE Looks!FirstOf(q, s, n) = Looks!FirstOf(r, s, n)
    BY <1>2 DEF Looks!FirstOf
  <1> QED
    BY <1>1, <1>3, <1>4 DEF Looks!Required, Looks!Optional, Looks!Considered

LEMMA MoneyIsNoLess ==
    ASSUME NEW r, IsLooksRequest(r)
    PROVE  Looks!NotLess(r, [r EXCEPT !.budget = Unknown])
  <1> DEFINE q == [r EXCEPT !.budget = Unknown]
  <1>1. /\ DOMAIN q = DOMAIN r /\ q.budget = Unknown
        /\ q.user = r.user /\ q.anchor = r.anchor /\ q.owned = r.owned /\ q.products = r.products
        /\ q.allowed = r.allowed /\ q.style = r.style /\ q.limit = r.limit
    BY DEF IsLooksRequest
  <1> HIDE DEF q
  <1>2. IsLooksRequest(q)
    BY <1>1 DEF IsLooksRequest, LooksPieces
  <1>3. ASSUME NEW slots, Possible(r, slots), Looks!Feasible(r, slots) # {}
        PROVE  Possible(q, slots) /\ Looks!Feasible(q, slots) # {}
    <2>1. Possible(q, slots) /\ slots \in SUBSET Looks!Slots
      BY <1>1, <1>3, SamePieces, PossibleIs DEF Possible
    <2>2. PICK look : look \in Looks!Feasible(r, slots)
      BY <1>3
    <2>3. look \in Looks!Filled(r, slots) /\ \A s, t \in slots : s # t => look[s].id # look[t].id
      BY <2>2 DEF Looks!Feasible
    <2>4. look \in Looks!Filled(q, slots)
      <3>1. /\ DOMAIN look = slots /\ look = [s \in slots |-> look[s]]
            /\ \A s \in slots : look[s] \in Looks!Considered(r, slots, s)
        BY <2>1, <2>3, FilledIs
      <3>2. \A s \in slots : look[s] \in Looks!Considered(q, slots, s)
        BY <1>1, <3>1, SamePieces
      <3> QED
        BY <2>1, <3>1, <3>2, FilledIs
    <2>5. Looks!Affordable(q, look)
      BY <1>1 DEF Looks!Affordable
    <2>6. look \in Looks!Feasible(q, slots)
      BY <2>3, <2>4, <2>5 DEF Looks!Feasible
    <2> QED
      BY <2>1, <2>6
  <1>4. Looks!NotLess(r, q)
    BY <1>2, <1>3, NoLess
  <1> QED
    BY <1>4 DEF q

-----------------------------------------------------------------------------
(* One more piece that is owned.                                              *)

(* Sums of what is no more are no more. *)
LEMMA SumsCompare ==
    ASSUME NEW F, NEW G, NEW U, IsFiniteSet(U),
           \A x \in U : F[x] \in Int /\ G[x] \in Int /\ F[x] <= G[x]
    PROVE  Orders!SumOver(F, U) <= Orders!SumOver(G, U)
  <1> DEFINE f(T) == Orders!SumOver(F, T)
             g(T) == Orders!SumOver(G, T)
             S == {T \in SUBSET U : f(T) <= g(T)}
  <1>1. ASSUME NEW T \in SUBSET U
        PROVE  /\ f(T) \in Int /\ g(T) \in Int /\ f({}) = 0 /\ g({}) = 0
               /\ \A x \in T : f(T) = F[x] + f(T \ {x}) /\ g(T) = G[x] + g(T \ {x})
    <2>1. IsFiniteSet(T)
      BY FS_Subset
    <2> QED
      BY <2>1, OrdersFinite, Orders!SumsAddUp
  <1> HIDE DEF f, g
  <1>2. {} \in S
    BY <1>1
  <1>3. ASSUME NEW T \in SUBSET U, NEW x \in U, T \in S PROVE T \cup {x} \in S
    <2>1. CASE x \in T
      <3>1. T \cup {x} = T
        BY <2>1
      <3> QED
        BY <1>3, <3>1
    <2>2. CASE x \notin T
      <3>1. (T \cup {x}) \ {x} = T /\ T \cup {x} \in SUBSET U
        BY <2>2
      <3>2. f(T \cup {x}) = F[x] + f(T) /\ g(T \cup {x}) = G[x] + g(T)
        BY <1>1, <3>1
      <3>3. f(T) \in Int /\ g(T) \in Int /\ f(T) <= g(T) /\ F[x] \in Int /\ G[x] \in Int /\ F[x] <= G[x]
        BY <1>1, <1>3
      <3> QED
        BY <3>1, <3>2, <3>3
    <2> QED
      BY <2>1, <2>2
  <1> HIDE DEF S
  <1>4. U \in S
    BY <1>2, <1>3, OrdersFinite, Orders!SubsetsFollow
  <1> QED
    BY <1>4 DEF S, f, g

(* Places that move up by one keep their order. *)
LEMMA PlacesMove ==
    ASSUME NEW P \in SUBSET Int, IsFiniteSet(P)
    PROVE  LET Q == {i + 1 : i \in P}
           IN  /\ IsFiniteSet(Q) /\ Cardinality(Q) = Cardinality(P)
               /\ \A n : Looks!Foremost(Q, n) = {i + 1 : i \in Looks!Foremost(P, n)}
  <1> DEFINE up(T) == {i + 1 : i \in T}
  <1>1. ASSUME NEW T \in SUBSET P
        PROVE  IsFiniteSet(up(T)) /\ Cardinality(up(T)) = Cardinality(T)
    <2> DEFINE f == [i \in T |-> i + 1]
               U == up(T)
    <2>1. f \in Bijection(T, U)
      BY DEF Bijection, Injection, Surjection, IsInjective
    <2>2. IsFiniteSet(T)
      BY FS_Subset
    <2> HIDE DEF f, U
    <2>3. IsFiniteSet(U) /\ Cardinality(U) = Cardinality(T)
      BY <2>1, <2>2, FS_Bijection DEF ExistsBijection
    <2> QED
      BY <2>3 DEF U
  <1>2. ASSUME NEW n PROVE Looks!Foremost(up(P), n) = up(Looks!Foremost(P, n))
    <2> DEFINE under(i) == {j \in P : j < i}
    <2>1. ASSUME NEW i \in P PROVE Cardinality({j \in up(P) : j < i + 1}) = Cardinality(under(i))
      <3>1. {j \in up(P) : j < i + 1} = up(under(i))
        <4>1. ASSUME NEW j \in up(P), j < i + 1 PROVE j \in up(under(i))
          <5>1. PICK k \in P : j = k + 1
            BY <4>1
          <5>2. k < i
            BY <4>1, <5>1
          <5> QED
            BY <5>1, <5>2
        <4>2. ASSUME NEW j \in up(under(i)) PROVE j \in up(P) /\ j < i + 1
          <5>1. PICK k \in P : k < i /\ j = k + 1
            BY <4>2
          <5> QED
            BY <5>1
        <4> QED
          BY <4>1, <4>2
      <3>2. Cardinality(up(under(i))) = Cardinality(under(i))
        BY <1>1
      <3> HIDE DEF up, under
      <3> QED
        BY <3>1, <3>2
    <2> DEFINE size(i) == Cardinality(under(i))
               count(k) == Cardinality({j \in up(P) : j < k})
    <2>2. Looks!Foremost(P, n) = {i \in P : size(i) < n}
      BY LooksFinite DEF Looks!Foremost
    <2>3. Looks!Foremost(up(P), n) = {k \in up(P) : count(k) < n}
      BY LooksFinite DEF Looks!Foremost
    <2>4. \A i \in P : count(i + 1) = size(i)
      BY <2>1
    <2> HIDE DEF size, count
    <2> DEFINE F == Looks!Foremost(P, n)
               G == Looks!Foremost(up(P), n)
    <2>5. ASSUME NEW k \in G PROVE k \in up(F)
      <3>1. PICK i \in P : k = i + 1
        BY <2>3, <2>5
      <3>2. size(i) < n
        BY <2>3, <2>4, <2>5, <3>1
      <3> QED
        BY <2>2, <3>1, <3>2
    <2>6. ASSUME NEW k \in up(F) PROVE k \in G
      <3>1. PICK i \in F : k = i + 1
        BY <2>6
      <3>2. i \in P /\ size(i) < n
        BY <2>2, <3>1
      <3>3. k \in up(P) /\ count(k) < n
        BY <2>4, <3>1, <3>2
      <3> QED
        BY <2>3, <3>3
    <2> HIDE DEF up, F, G
    <2>7. G = up(F)
      BY <2>5, <2>6
    <2> QED
      BY <2>7 DEF F, G
  <1> QED
    BY <1>1, <1>2

(* A piece, r that has it and q that has it too: more is there for each slot, *)
(* and what was considered is considered still, or the piece is.              *)
LEMMA PieceIsConsidered ==
    ASSUME NEW r, IsLooksRequest(r), NEW q, NEW piece, r.anchor = Unknown, Len(r.owned) < LookOwned,
           q.user = r.user, q.anchor = r.anchor, q.products = r.products, q.allowed = r.allowed,
           Len(q.owned) = Len(r.owned) + 1, DOMAIN q.owned = 1 .. Len(r.owned) + 1,
           q.owned[1] = piece, \A i \in 1 .. Len(r.owned) : q.owned[i + 1] = r.owned[i]
    PROVE  /\ Looks!AnchorSlots(r) = {} /\ Looks!AnchorSlots(q) = {}
           /\ \A s : Looks!Candidates(r, s) \subseteq Looks!Candidates(q, s)
           /\ \A s, n : \/ Looks!FirstOf(r, s, n) \subseteq Looks!FirstOf(q, s, n)
                        \/ s = piece.slot /\ (n \in Nat \ {0} => piece \in Looks!FirstOf(q, s, n))
  <1> DEFINE open == r.user # Unknown /\ r.allowed
             up(T) == {i + 1 : i \in T}
             size == Len(r.owned)
  <1>1. /\ Looks!AnchorSlots(r) = {} /\ Looks!AnchorSlots(q) = {}
        /\ \A s : Looks!Candidates(r, s) = Looks!Pool(r, s) /\ Looks!Candidates(q, s) = Looks!Pool(q, s)
    BY DEF Looks!AnchorSlots, Looks!Anchored, Looks!Anchors, Looks!Candidates
  <1>2. \A s : Looks!Shelf(q, s) = Looks!Shelf(r, s)
    BY DEF Looks!Shelf
  <1>3. size \in Nat /\ DOMAIN r.owned = 1 .. size /\ LookOwned \in Nat
    BY LooksBounds DEF IsLooksRequest, IsList
  <1>4. ASSUME NEW s
        PROVE  Looks!Owned(q, s) = up(Looks!Owned(r, s)) \cup (IF open /\ s = piece.slot THEN {1} ELSE {})
    <2> DEFINE old == Looks!Owned(r, s)
               new == Looks!Owned(q, s)
    <2>1. \A i : i \in old <=> i \in 1 .. size /\ open /\ i <= LookOwned /\ r.owned[i].slot = s
      BY <1>3 DEF Looks!Owned
    <2>2. \A i : i \in new <=> i \in 1 .. size + 1 /\ open /\ i <= LookOwned /\ q.owned[i].slot = s
      BY DEF Looks!Owned
    <2> HIDE DEF old, new, open
    <2>3. ASSUME NEW i \in new, ~ (open /\ s = piece.slot /\ i = 1) PROVE i \in up(old)
      <3>1. i - 1 \in 1 .. size /\ i = (i - 1) + 1 /\ i - 1 <= LookOwned
        BY <1>3, <2>2, <2>3
      <3>2. i - 1 \in old
        BY <2>1, <2>2, <2>3, <3>1
      <3> QED
        BY <3>1, <3>2
    <2>4. ASSUME NEW i \in old PROVE i + 1 \in new
      <3>1. i + 1 \in 1 .. size + 1 /\ i + 1 <= LookOwned
        BY <1>3, <2>1, <2>4
      <3> QED
        BY <2>1, <2>2, <2>4, <3>1
    <2>5. open /\ s = piece.slot => 1 \in new
      BY <1>3, <2>2
    <2>6. new = up(old) \cup (IF open /\ s = piece.slot THEN {1} ELSE {})
      BY <2>3, <2>4, <2>5
    <2> QED
      BY <2>6 DEF old, new
  <1>5. ASSUME NEW s, NEW T \in SUBSET Looks!Owned(r, s)
        PROVE  {q.owned[i] : i \in up(T)} = {r.owned[i] : i \in T}
    <2>1. T \in SUBSET (1 .. size)
      BY <1>3 DEF Looks!Owned
    <2>2. \A i \in T : q.owned[i + 1] = r.owned[i]
      BY <2>1
    <2>3. ASSUME NEW i \in up(T) PROVE \E j \in T : q.owned[i] = r.owned[j]
      <3>1. PICK j \in T : i = j + 1
        BY <2>3
      <3> QED
        BY <2>2, <3>1
    <2>4. \A j \in T : j + 1 \in up(T)
      OBVIOUS
    <2> HIDE DEF up
    <2> QED
      BY <2>2, <2>3, <2>4
  <1>6. ASSUME NEW s PROVE Looks!Pool(r, s) \subseteq Looks!Pool(q, s)
    <2>1. {r.owned[i] : i \in Looks!Owned(r, s)} = {q.owned[i] : i \in up(Looks!Owned(r, s))}
      BY <1>5
    <2>2. up(Looks!Owned(r, s)) \subseteq Looks!Owned(q, s)
      BY <1>4
    <2> HIDE DEF up
    <2> QED
      BY <1>2, <2>1, <2>2 DEF Looks!Pool
  <1>7. ASSUME NEW s, NEW n
        PROVE  \/ Looks!FirstOf(r, s, n) \subseteq Looks!FirstOf(q, s, n)
               \/ s = piece.slot /\ (n \in Nat \ {0} => piece \in Looks!FirstOf(q, s, n))
    <2> DEFINE P == Looks!Owned(r, s)
    <2>1. P \in SUBSET Int /\ IsFiniteSet(P)
      <3>1. P \in SUBSET (1 .. size)
        BY <1>3 DEF Looks!Owned
      <3>2. IsFiniteSet(1 .. size)
        BY <1>3, FS_Interval
      <3>3. 1 .. size \in SUBSET Int
        OBVIOUS
      <3> HIDE DEF P
      <3>4. IsFiniteSet(P)
        BY <3>1, <3>2, FS_Subset, Zenon
      <3> QED
        BY <3>1, <3>3, <3>4
    <2>2. CASE open /\ s = piece.slot
      <3>1. ASSUME n \in Nat \ {0} PROVE piece \in Looks!FirstOf(q, s, n)
        <4> DEFINE Q == Looks!Owned(q, s)
        <4>1. 1 \in Q /\ Q \subseteq DOMAIN q.owned
          BY <1>4, <2>2 DEF Looks!Owned
        <4> HIDE DEF Q
        <4>2. {j \in Q : j < 1} = {}
          BY <1>3, <4>1
        <4>3. Cardinality({j \in Q : j < 1}) = 0
          BY <4>2, FS_EmptySet
        <4>4. 1 \in Looks!Foremost(Q, n)
          BY <3>1, <4>1, <4>3, LooksFinite DEF Looks!Foremost
        <4> QED
          BY <4>4 DEF Looks!FirstOf, Q
      <3> QED
        BY <2>2, <3>1
    <2>3. CASE ~ (open /\ s = piece.slot)
      <3>1. Looks!Owned(q, s) = up(P)
        BY <1>4, <2>3
      <3>2. Cardinality(up(P)) = Cardinality(P) /\ Looks!Foremost(up(P), n) = up(Looks!Foremost(P, n))
        BY <2>1, PlacesMove
      <3>3. Looks!Foremost(P, n) \in SUBSET P
        BY DEF Looks!Foremost
      <3>4. {q.owned[i] : i \in up(Looks!Foremost(P, n))} = {r.owned[i] : i \in Looks!Foremost(P, n)}
        BY <1>5, <3>3
      <3> HIDE DEF up
      <3>5. Looks!Cardinality(Looks!Owned(q, s)) = Looks!Cardinality(P)
        BY <3>1, <3>2, LooksFinite
      <3>6. {q.owned[i] : i \in Looks!Foremost(Looks!Owned(q, s), n)} = {r.owned[i] : i \in Looks!Foremost(P, n)}
        BY <3>1, <3>2, <3>4, Zenon
      <3>7. Looks!Shelf(q, s) = Looks!Shelf(r, s)
        BY <1>2
      <3> DEFINE sold(m) == {r.products[i] : i \in Looks!Foremost(Looks!Shelf(r, s), m)}
                 mine == {r.owned[i] : i \in Looks!Foremost(P, n)}
                 room == n - Looks!Cardinality(P)
      <3>8. Looks!FirstOf(r, s, n) = mine \cup sold(room)
        BY Zenon DEF Looks!FirstOf
      <3>9. Looks!FirstOf(q, s, n) =
               {q.owned[i] : i \in Looks!Foremost(Looks!Owned(q, s), n)}
               \cup {q.products[i] : i \in Looks!Foremost(Looks!Shelf(q, s), n - Looks!Cardinality(Looks!Owned(q, s)))}
        BY Zenon DEF Looks!FirstOf
      <3>10. {q.products[i] : i \in Looks!Foremost(Looks!Shelf(q, s), n - Looks!Cardinality(Looks!Owned(q, s)))} = sold(room)
        BY <3>5, <3>7, Zenon
      <3>11. Looks!FirstOf(q, s, n) = Looks!FirstOf(r, s, n)
        BY <3>6, <3>8, <3>9, <3>10, Zenon
      <3> QED
        BY <3>11, Zenon
    <2> QED
      BY <2>2, <2>3
  <1> QED
    BY <1>1, <1>6, <1>7

(* So whatever can be put on, something that costs no more still can.         *)
LEMMA PieceIsNoLess ==
    ASSUME NEW r, IsLooksRequest(r), r.anchor = Unknown, Len(r.owned) < LookOwned,
           NEW piece, IsPiece(piece), piece.source = "wardrobe", \A x \in LooksPieces(r) : x.id # piece.id
    PROVE  Looks!NotLess(r, [r EXCEPT !.owned = <<piece>> \o @])
  <1> DEFINE q == [r EXCEPT !.owned = <<piece>> \o @]
             size == Len(r.owned)
  <1>1. /\ DOMAIN q = DOMAIN r /\ q.budget = r.budget
        /\ q.user = r.user /\ q.anchor = r.anchor /\ q.owned = <<piece>> \o r.owned /\ q.products = r.products
        /\ q.allowed = r.allowed /\ q.style = r.style /\ q.limit = r.limit
    BY DEF IsLooksRequest
  <1> HIDE DEF q
  <1>2. /\ size \in Nat /\ Len(q.owned) = size + 1 /\ DOMAIN q.owned = 1 .. size + 1 /\ DOMAIN r.owned = 1 .. size
        /\ q.owned = [i \in 1 .. size + 1 |-> q.owned[i]]
        /\ q.owned[1] = piece /\ \A i \in 1 .. size : q.owned[i + 1] = r.owned[i]
    <2> DEFINE s == r.owned
               worn == LooksPieces(r) \cup {piece}
    <2>1. size \in Nat /\ s = [i \in 1 .. size |-> s[i]] /\ \A i \in 1 .. size : s[i] \in worn
      BY DEF IsLooksRequest, IsList, LooksPieces
    <2> HIDE DEF worn
    <2>2. s \in Seq(worn)
      BY <2>1
    <2>3. <<piece>> \in Seq(worn) /\ Len(<<piece>>) = 1 /\ <<piece>>[1] = piece
      BY DEF worn
    <2>4. q.owned \in Seq(worn) /\ Len(q.owned) = size + 1
      BY <1>1, <2>2, <2>3
    <2>5. q.owned[1] = piece /\ \A i \in 1 .. size : q.owned[i + 1] = s[i]
      BY <1>1, <2>2, <2>3
    <2> QED
      BY <2>1, <2>4, <2>5
  <1>9. \A i \in 1 .. size + 1 : q.owned[i] = piece \/ \E j \in 1 .. size : q.owned[i] = r.owned[j]
    <2> SUFFICES ASSUME NEW i \in 1 .. size + 1, i # 1 PROVE \E j \in 1 .. size : q.owned[i] = r.owned[j]
      BY <1>2
    <2> DEFINE j == i - 1
    <2>1. j \in 1 .. size /\ i = j + 1
      BY <1>2
    <2> HIDE DEF j
    <2>2. q.owned[i] = r.owned[j]
      BY <1>2, <2>1
    <2> QED
      BY <2>1, <2>2
  <1>3. LooksPieces(q) = LooksPieces(r) \cup {piece}
    <2>1. 1 \in 1 .. size + 1
      BY <1>2
    <2>2. \A i \in 1 .. size : i + 1 \in 1 .. size + 1
      BY <1>2
    <2>3. {q.owned[i] : i \in 1 .. size + 1} = {r.owned[i] : i \in 1 .. size} \cup {piece}
      <3>1. ASSUME NEW i \in 1 .. size + 1 PROVE q.owned[i] \in {r.owned[j] : j \in 1 .. size} \cup {piece}
        BY <1>9
      <3>2. ASSUME NEW i \in 1 .. size PROVE r.owned[i] \in {q.owned[j] : j \in 1 .. size + 1}
        BY <1>2, <2>2
      <3>3. piece \in {q.owned[j] : j \in 1 .. size + 1}
        BY <1>2, <2>1
      <3> QED
        BY <3>1, <3>2, <3>3
    <2> DEFINE sold == {r.products[i] : i \in DOMAIN r.products}
    <2>4. DOMAIN q.owned = 1 .. size + 1 /\ DOMAIN r.owned = 1 .. size /\ q.products = r.products
      BY <1>1, <1>2
    <2>5. LooksPieces(q) = {q.owned[i] : i \in 1 .. size + 1} \cup sold
      BY <2>4 DEF LooksPieces
    <2>6. LooksPieces(r) = {r.owned[i] : i \in 1 .. size} \cup sold
      BY <2>4 DEF LooksPieces
    <2> HIDE DEF sold
    <2> QED
      BY <2>3, <2>5, <2>6
  <1>4. IsLooksRequest(q)
    <2>1. IsList(q.owned)
      BY <1>2 DEF IsList
    <2>2. \A i \in DOMAIN q.owned : q.owned[i].source = "wardrobe"
      <3>1. \A i \in 1 .. size : r.owned[i].source = "wardrobe"
        BY <1>2 DEF IsLooksRequest
      <3>2. ASSUME NEW i \in 1 .. size + 1 PROVE q.owned[i].source = "wardrobe"
        <4>1. q.owned[i] = piece \/ \E j \in 1 .. size : q.owned[i] = r.owned[j]
          BY <1>9
        <4> QED
          BY <3>1, <4>1
      <3>3. DOMAIN q.owned = 1 .. size + 1
        BY <1>2
      <3> QED
        BY <3>2, <3>3
    <2>3. /\ \A x \in LooksPieces(q) : IsPiece(x)
          /\ \A x, y \in LooksPieces(q) : x.id = y.id => x = y
      BY <1>3 DEF IsLooksRequest
    <2> QED
      BY <1>1, <2>1, <2>2, <2>3 DEF IsLooksRequest
  <1>5. /\ Looks!AnchorSlots(r) = {} /\ Looks!AnchorSlots(q) = {}
        /\ \A s : Looks!Candidates(r, s) \subseteq Looks!Candidates(q, s)
        /\ \A s, n : \/ Looks!FirstOf(r, s, n) \subseteq Looks!FirstOf(q, s, n)
                     \/ s = piece.slot /\ (n \in Nat \ {0} => piece \in Looks!FirstOf(q, s, n))
    BY <1>1, <1>2, PieceIsConsidered
  <1>6. /\ Looks!Required(r) = Looks!Core /\ Looks!Required(q) = Looks!Core
        /\ Looks!Optional(r) \subseteq Looks!Optional(q)
    BY <1>5 DEF Looks!Required, Looks!Optional
  <1>7. ASSUME NEW slots, Possible(r, slots), Looks!Feasible(r, slots) # {}
        PROVE  Possible(q, slots) /\ Looks!Feasible(q, slots) # {}
    <2>1. Possible(q, slots) /\ slots \in SUBSET Looks!Slots
      BY <1>6, <1>7, PossibleIs DEF Possible
    <2>2. PICK look : look \in Looks!Feasible(r, slots)
      BY <1>7
    <2>3. /\ look \in Dress(r) /\ DOMAIN look = slots
          /\ \A s \in slots : look[s] \in Looks!Considered(r, slots, s)
          /\ \A s, t \in slots : s # t => look[s].id # look[t].id
          /\ Looks!Affordable(r, look)
      BY <2>1, <2>2, FeasibleIs
    <2> DEFINE n == LookSample[Cardinality(slots \ Looks!Core)]
               swaps(s) == s \notin Looks!Core /\ s = piece.slot /\ piece \in Looks!FirstOf(q, s, n)
               other == [s \in slots |-> IF swaps(s) THEN piece ELSE look[s]]
    <2>4. ASSUME NEW s \in slots PROVE other[s] \in Looks!Considered(q, slots, s)
      <3>1. look[s] \in Looks!Considered(r, slots, s)
        BY <2>3
      <3>2. CASE s \in Looks!Core
        BY <1>5, <3>1, <3>2 DEF Looks!Considered
      <3>3. CASE s \notin Looks!Core
        <4>1. n \in Nat \ {0}
          <5>1. Cardinality(slots \ Looks!Core) \in 1 .. 3
            BY <2>1, <3>3, SlotsAreFew
          <5> QED
            BY <5>1, LooksBounds
        <4>2. /\ Looks!Considered(q, slots, s) = Looks!FirstOf(q, s, n)
              /\ Looks!Considered(r, slots, s) = Looks!FirstOf(r, s, n)
          BY <1>5, <3>3, LooksFinite DEF Looks!Considered
        <4> HIDE DEF n
        <4>3. other[s] = IF swaps(s) THEN piece ELSE look[s]
          OBVIOUS
        <4> HIDE DEF other
        <4> QED
          BY <1>5, <3>1, <3>3, <4>1, <4>2, <4>3
      <3> QED
        BY <3>2, <3>3
    <2>5. \A s, t \in slots : swaps(s) /\ swaps(t) => s = t
      OBVIOUS
    <2>6. \A s \in slots : other[s] = IF swaps(s) THEN piece ELSE look[s]
      OBVIOUS
    <2>7. DOMAIN other = slots /\ other = [s \in slots |-> other[s]]
      OBVIOUS
    <2> HIDE DEF other, swaps, n
    <2>8. other \in Looks!Filled(q, slots)
      BY <2>1, <2>4, <2>7, FilledIs
    <2>9. \A s, t \in slots : s # t => other[s].id # other[t].id
      <3>1. \A s \in slots : look[s].id # piece.id
        BY <2>3, DressIs
      <3> QED
        BY <2>3, <2>5, <2>6, <3>1
    <2>10. Looks!Affordable(q, other)
      <3> DEFINE F == Looks!Spent(other)
                 G == Looks!Spent(look)
      <3>1. \A s \in slots : F[s] \in Int /\ G[s] \in Int /\ F[s] <= G[s]
        <4>1. \A s \in slots : G[s] \in Nat
          BY <2>3, PricesAre
        <4>2. \A s \in slots : F[s] = IF swaps(s) THEN 0 ELSE G[s]
          BY <2>3, <2>6, <2>7 DEF Looks!Spent
        <4> HIDE DEF F, G
        <4> QED
          BY <4>1, <4>2
      <3>2. Looks!Price(other) = Orders!SumOver(F, slots) /\ Looks!Price(look) = Orders!SumOver(G, slots)
        BY <2>3, <2>7, SpentAddsUp
      <3> HIDE DEF F, G
      <3>3. IsFiniteSet(slots)
        BY <2>1, SlotsAreFew
      <3>4. Looks!Price(other) <= Looks!Price(look)
        BY <3>1, <3>2, <3>3, SumsCompare
      <3>5. Looks!Price(other) \in Int /\ Looks!Price(look) \in Int
        BY <3>1, <3>2, <3>3, OrdersFinite, Orders!SumsAddUp
      <3>6. r.budget \in Nat \cup {Unknown}
        BY DEF IsLooksRequest
      <3>7. Unknown \notin Int
        BY UnknownAssumption
      <3> QED
        BY <1>1, <2>3, <3>4, <3>5, <3>6, <3>7 DEF Looks!Affordable
    <2>11. other \in Looks!Feasible(q, slots)
      BY <2>8, <2>9, <2>10 DEF Looks!Feasible
    <2> QED
      BY <2>1, <2>11
  <1>8. Looks!NotLess(r, q)
    BY <1>4, <1>7, NoLess
  <1> QED
    BY <1>8 DEF q

LEMMA EveryLookIsComplete ==
    ASSUME NEW c, IsLooksCase(c)
    PROVE  LooksHold(c)
  <1>1. Looks!LooksAreWhole(c.request)
    BY WholeLooks DEF IsLooksCase
  <1>2. Looks!FirstIsBest(c.request)
    BY FirstOfLooksIsBest DEF IsLooksCase
  <1>3. Looks!MoreIsNotLess(c.request, c.piece)
    BY MoneyIsNoLess, PieceIsNoLess DEF IsLooksCase, Looks!MoreIsNotLess
  <1> QED
    BY <1>1, <1>2, <1>3 DEF LooksHold
-----------------------------------------------------------------------------
(* The theorems.                                                              *)

(* A rule is asked of a case, and what is asked then was put to it.           *)
LEMMA CasesAreGiven ==
    ASSUME Examine, case' # case
    PROVE  case' \in Cases[rule]
  BY DEF Examine

(* Every answer that is given to a query rests on the documents that were     *)
(* retrieved for it: AnswersAreGrounded, for every corpus, every output of    *)
(* the model and every bound.                                                 *)
THEOREM GroundedAnswers == RulesSpec => AnswersAreGrounded
  <1>1. ASSUME [Examine]_<<rule, case>>
        PROVE  [rule = "answers" => AnswersHold(case')]_case
    <2>1. SUFFICES ASSUME case' # case, rule = "answers" PROVE AnswersHold(case')
      OBVIOUS
    <2>2. Examine
      BY <1>1, <2>1
    <2>3. case' \in Cases["answers"]
      BY <2>1, <2>2, CasesAreGiven
    <2> QED
      BY <2>3, CasesAssumption, EveryAnswerIsGrounded
  <1> QED
    BY <1>1, PTL DEF RulesSpec, AnswersAreGrounded

(* Each rule of trends holds of its cases. *)
LEMMA EveryTrendIsCounted ==
    ASSUME NEW c, IsTrendsCase(c)
    PROVE  TrendsHold(c)
  <1>1. CASE c.rule = "history" /\ IsHistoryCase(c)
    BY <1>1, HistoryHolds DEF TrendsHold
  <1>2. CASE c.rule = "videos" /\ IsVideosCase(c)
    BY <1>2, VideosHold DEF TrendsHold
  <1>3. CASE c.rule = "products" /\ IsProductsCase(c)
    BY <1>3, ProductsHold DEF TrendsHold
  <1>4. CASE c.rule = "feed" /\ IsFeedCase(c)
    BY <1>4, FeedHolds DEF TrendsHold
  <1>5. CASE c.rule = "interest" /\ IsInterestCase(c)
    BY <1>5, InterestHolds DEF TrendsHold
  <1> QED
    BY <1>1, <1>2, <1>3, <1>4, <1>5 DEF IsTrendsCase

(* What is observed again, of the catalogue, of videos, of the feed or of     *)
(* search interest, is no growth, no source and no other trend, and products  *)
(* are matched as they are: TrendsAreCounted, for every history, list of      *)
(* records, set of products or signals, pair of payloads and window.          *)
THEOREM CountedTrends == RulesSpec => TrendsAreCounted
  <1>1. ASSUME [Examine]_<<rule, case>>
        PROVE  [rule = "trends" => TrendsHold(case')]_case
    <2>1. SUFFICES ASSUME case' # case, rule = "trends" PROVE TrendsHold(case')
      OBVIOUS
    <2>2. Examine
      BY <1>1, <2>1
    <2>3. case' \in Cases["trends"]
      BY <2>1, <2>2, CasesAreGiven
    <2> QED
      BY <2>3, CasesAssumption, EveryTrendIsCounted
  <1> QED
    BY <1>1, PTL DEF RulesSpec, TrendsAreCounted

(* Of every catalogue the pages of a request show what fits it, once each and *)
(* the best first, and nothing that the profile excludes; of every wardrobe   *)
(* and its history the outfit that wins is the owner's and no other beats it, *)
(* reactions count for what they are about, the reasons given are earned,     *)
(* rankings keep what is preferred, garments are judged evenly, and a guest   *)
(* is told what a member would be told, whatever is uploaded, seen, stated or *)
(* saved: ChoicesAreSettled, for every catalogue, wardrobe, history and       *)
(* request, image, outcome of the analyzers and profile.                      *)
THEOREM SettledChoices == RulesSpec => ChoicesAreSettled
  <1>1. ASSUME [Examine]_<<rule, case>>
        PROVE  [/\ rule = "for you" => ForYouHolds(case')
                /\ rule = "outfits" => OutfitsHold(case')
                /\ rule = "styling" => StylingHolds(case')
                /\ rule = "guests"  => GuestsHold(case')]_case
    <2>1. SUFFICES ASSUME case' # case
                   PROVE  /\ rule = "for you" => ForYouHolds(case')
                          /\ rule = "outfits" => OutfitsHold(case')
                          /\ rule = "styling" => StylingHolds(case')
                          /\ rule = "guests"  => GuestsHold(case')
      OBVIOUS
    <2>2. Examine
      BY <1>1, <2>1
    <2>3. case' \in Cases[rule]
      BY <2>1, <2>2, CasesAreGiven
    <2>4. rule = "outfits" => OutfitsHold(case')
      BY <2>3, CasesAssumption, EveryOutfitIsSettled
    <2>5. rule = "styling" => StylingHolds(case')
      BY <2>3, CasesAssumption, EveryAdviceIsEven
    <2>6. rule = "guests" => GuestsHold(case')
      BY <2>3, CasesAssumption, EveryGuestIsServed
    <2>7. rule = "for you" => ForYouHolds(case')
      BY <2>3, CasesAssumption, EveryForYouHolds
    <2> QED
      BY <2>4, <2>5, <2>6, <2>7
  <1> QED
    BY <1>1, PTL DEF RulesSpec, ChoicesAreSettled

(* Whatever is put together of a catalogue and a wardrobe is whole and fits    *)
(* the budget, the best of it comes first, and to own or to spend more leaves  *)
(* no less: LooksAreComplete, for every anchor, list of pieces and of          *)
(* products, budget and limit.                                                 *)
THEOREM CompletedLooks == RulesSpec => LooksAreComplete
  <1>1. ASSUME [Examine]_<<rule, case>>
        PROVE  [rule = "looks" => LooksHold(case')]_case
    <2>1. SUFFICES ASSUME case' # case, rule = "looks" PROVE LooksHold(case')
      OBVIOUS
    <2>2. Examine
      BY <1>1, <2>1
    <2>3. case' \in Cases["looks"]
      BY <2>1, <2>2, CasesAreGiven
    <2> QED
      BY <2>3, CasesAssumption, EveryLookIsComplete
  <1> QED
    BY <1>1, PTL DEF RulesSpec, LooksAreComplete
=============================================================================
