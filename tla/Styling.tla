------------------------------- MODULE Styling -------------------------------
(***************************************************************************)
(* The rules that rank hairstyles and grooming looks for an analysis        *)
(* (analysis_rules.py and grooming_rules.py, which hold one pipeline each), *)
(* and those that judge a single garment for the assistant.  Points are     *)
(* hundredths.                                                              *)
(*                                                                         *)
(* A request is [face, signals, preferred, excluded, saved]: the shape of   *)
(* the face or None, how many of the four signals of the appearance are     *)
(* known, and codes of looks.  A garment is [category, color, material,     *)
(* favorite, saved], where saved says that a saved outfit has it; a closet  *)
(* is [categories, occasions]: what the wardrobe has, what its owner        *)
(* prefers.                                                                 *)
(***************************************************************************)
EXTENDS Garments, Integers, Sequences, FiniteSets

CONSTANT None

Entry(code, seed, boost) == [code |-> code, seed |-> seed, boost |-> boost]

Hairstyles ==
    [looks |-> <<Entry("textured_quiff", 94, [oval |-> 6, heart |-> 3, rectangular |-> 3]),
                 Entry("classic_pompadour", 87, [round |-> 12, square |-> 10, rectangular |-> 6]),
                 Entry("side_part", 82, [oval |-> 5, square |-> 6, diamond |-> 6, round |-> 2]),
                 Entry("brushed_up_undercut", 78, [oval |-> 4, heart |-> 4, diamond |-> 5, square |-> 2])>>]

Grooming ==
    [looks |-> <<Entry("structured_goatee", 92, [oval |-> 6, heart |-> 5, diamond |-> 5, square |-> 2]),
                 Entry("classic_stubble", 85, [oval |-> 5, round |-> 4, square |-> 5]),
                 Entry("full_beard", 75, [oval |-> 8, square |-> 7, diamond |-> 5]),
                 Entry("goatee_with_mustache", 71, [rectangular |-> 7, heart |-> 5])>>]

FaceShape(r) == IF r.face = None THEN "oval" ELSE IF r.face = "rectangle" THEN "rectangular" ELSE r.face

Capped(points, cap) == IF points > cap THEN cap ELSE points

Boost(look, face) == IF face \in DOMAIN look.boost THEN look.boost[face] ELSE 0

If(condition, points) == IF condition THEN points ELSE 0

(* score_candidates: to prefer a look and to have saved it both count.      *)
ScoreHairstyle(r, look) ==
    Capped(look.seed + Boost(look, FaceShape(r)) + If(look.code \in r.preferred, 3)
           + If(look.code \in r.saved, 3), 100)

(* score_grooming_candidates. *)
ScoreGrooming(r, look) ==
    Capped(look.seed + Boost(look, FaceShape(r)) + If(look.code \in r.preferred, 3), 100)

Score(engine, r, look) == IF engine = Grooming THEN ScoreGrooming(r, look) ELSE ScoreHairstyle(r, look)

(* filter_candidates. *)
Remaining(engine, r) == {i \in DOMAIN engine.looks : engine.looks[i].code \notin r.excluded}

(* rank_candidates, which keeps the order of the catalog among equals.      *)
Ahead(engine, r, i, j) ==
    LET points(k) == Score(engine, r, engine.looks[k])
    IN  points(i) > points(j) \/ (points(i) = points(j) /\ i < j)

Ranked(engine, r) ==
    LET remaining == Remaining(engine, r)
    IN  [n \in 1 .. Cardinality(remaining) |->
            CHOOSE i \in remaining : Cardinality({j \in remaining : Ahead(engine, r, j, i)}) = n - 1]

(* How far the first is ahead of the second, ten points being all there is. *)
Decisiveness(engine, r) ==
    LET ranked   == Ranked(engine, r)
        points(n) == Score(engine, r, engine.looks[ranked[n]])
    IN  IF Len(ranked) < 2 THEN 10 ELSE Capped(points(1) - points(2), 10)

(* derive_confidence: of 200, before it is rounded. *)
Confidence(engine, r) == 25 * r.signals + 10 * Decisiveness(engine, r)

(* recommend_hairstyle, recommend_grooming: a KnowledgeError without looks. *)
Recommended(engine, r) ==
    IF Ranked(engine, r) = <<>> THEN None
    ELSE [looks |-> [n \in DOMAIN Ranked(engine, r) |-> engine.looks[Ranked(engine, r)[n]].code],
          confidence |-> Confidence(engine, r), needsMore |-> r.signals < 4]

RecommendHairstyle(r) == Recommended(Hairstyles, r)

RecommendGrooming(r) == Recommended(Grooming, r)

-----------------------------------------------------------------------------

IsNatural(g) == g.material \in Natural

Lasts(g) == MaterialSeasons(g.material)

(* compute_clothing_intelligence: its confidence, and the seasons it names. *)
ClothingConfidence(g, closet) ==
    (IF g.material # None THEN 40 ELSE 20)
    + (IF closet.occasions # {} THEN 30 ELSE 9)
    + (IF g.favorite THEN 30 ELSE 6)

SuitableSeasons(g) == CategorySeasons(g.category) \cup Lasts(g)

(* _get_suitable_occasions, with the confidence in each. *)
SuitableOccasions(g, closet) ==
    [o \in Occasions(g.category) |->
        30 + IF o \in closet.occasions THEN Capped(100 \div Cardinality(closet.occasions), 70) ELSE 0]

(* Section 7 of compute_outfit_intelligence; formality comes last.          *)
Conflicts(g) ==
    LET color     == If(g.color \notin Neutral /\ ~ IsNatural(g), 1)
        season    == If(g.material # None /\ Lasts(g) \cap CategorySeasons(g.category) = {}, 1)
        formality == If(Cardinality(Registers(g.category)) > 1 /\ color + season < 2, 1)
    IN  (IF color = 1 THEN {"color"} ELSE {}) \cup (IF season = 1 THEN {"season"} ELSE {})
        \cup (IF formality = 1 THEN {"formality"} ELSE {})

PreferenceContribution(g) == If(g.saved, 5)

Covered(closet) == Cardinality(closet.categories)

(* Section 8; a conflict of any kind costs what a seasonal one should.      *)
Raw(g, closet) ==
    50 + 10 * Covered(closet) - 10 * (5 - Covered(closet))
    + If(g.favorite, 10)
    + If(Conflicts(g) # {}, -20)
    + If("color" \in Conflicts(g), -30)
    + If(g.color \in Neutral \/ IsNatural(g), 5)
    + If(Cardinality(Registers(g.category)) <= 1, 5)
    + PreferenceContribution(g)

OutfitConfidence(g, closet) ==
    LET points == Capped(Raw(g, closet), 100) IN IF points < 10 THEN 10 ELSE points

Level(points) == IF points >= 70 THEN "strong" ELSE IF points >= 30 THEN "reasonable" ELSE "insufficient"

-----------------------------------------------------------------------------

Place(engine, r, code) ==
    CHOOSE n \in DOMAIN Recommended(engine, r).looks : Recommended(engine, r).looks[n] = code

(* "a look the user marked as preferred": to prefer a look never costs it   *)
(* its place, and to exclude one leaves the others in their order and never *)
(* makes the first less certain when it was the second.                     *)
PreferencesCount(engine, r) ==
    Recommended(engine, r) # None =>
        LET looks == Recommended(engine, r).looks
            liking(code)    == [r EXCEPT !.preferred = @ \cup {code}]
            excluding(code) == [r EXCEPT !.excluded = @ \cup {code}]
        IN  /\ \A n \in DOMAIN looks : Place(engine, liking(looks[n]), looks[n]) <= n
            /\ Len(looks) > 1 => \A n \in DOMAIN looks :
                  Recommended(engine, excluding(looks[n])).looks
                      = [m \in 1 .. Len(looks) - 1 |-> looks[IF m < n THEN m ELSE m + 1]]
            /\ Len(looks) > 1 =>
                  Recommended(engine, excluding(looks[2])).confidence >= Recommended(engine, r).confidence

(* STEP 7A and STEP 11.17: a fuller wardrobe never makes a garment less     *)
(* certain, a saved outfit adds what it may add and nothing else, and what  *)
(* two kinds of conflict cost is never regained by a favourite.             *)
GarmentsAreJudgedEvenly(g, closet) ==
    LET points == OutfitConfidence(g, closet)
    IN  /\ \A c \in {"tops", "bottoms", "outerwear", "footwear", "accessories"} :
              OutfitConfidence(g, [closet EXCEPT !.categories = @ \cup {c}]) >= points
        /\ OutfitConfidence([g EXCEPT !.saved = TRUE], closet) - points \in 0 .. 5
        /\ Conflicts(g) = {"color", "season"} =>
              OutfitConfidence([g EXCEPT !.favorite = TRUE], closet)
                  <= OutfitConfidence([g EXCEPT !.color = "black", !.favorite = FALSE], closet)
        /\ Level(points) = "strong" => Covered(closet) >= 3
        /\ \A o \in DOMAIN SuitableOccasions(g, closet) : SuitableOccasions(g, closet)[o] \in 30 .. 100
        /\ SuitableSeasons(g) # {} /\ ClothingConfidence(g, closet) \in 35 .. 100
=============================================================================
