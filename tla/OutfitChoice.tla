---------------------------- MODULE OutfitChoice ----------------------------
(***************************************************************************)
(* How an outfit is chosen from a wardrobe: the candidates, their points,   *)
(* their order and the outfit that wins (analysis_rules.py, from the saved  *)
(* preferences to the scores of a candidate).                               *)
(*                                                                         *)
(* An item is [id, category, color, material, fit, favorite]; identifiers   *)
(* are numbers, in their lexical order, and what is unknown is None.  A fit *)
(* is one that was seen with enough confidence, as the class it belongs to. *)
(* An outfit is the set of its items.  A case is what the choice is made    *)
(* from:                                                                    *)
(*   [wardrobe, saved, events, looks, groups, occasions, palette, fit]      *)
(* where saved are the items of saved outfits, events the reactions to      *)
(* saved looks, looks their items, and groups what was worn together.       *)
(***************************************************************************)
EXTENDS Garments, Integers, Sequences, FiniteSets, FiniteSetsExt, Functions

CONSTANTS
    None,
    MaxRepresentatives,  \* _MAX_REPRESENTATIVES_PER_CATEGORY
    MaxCandidates        \* _MAX_CANDIDATES

Categories == <<"tops", "bottoms", "outerwear", "footwear", "accessories">>

Skeletons == << {"tops", "bottoms"},
                {"tops", "bottoms", "footwear"},
                {"tops", "bottoms", "outerwear", "footwear"},
                {"tops", "bottoms", "footwear", "accessories"},
                {"tops", "bottoms", "outerwear", "footwear", "accessories"} >>

-----------------------------------------------------------------------------

Ids(outfit) == {x.id : x \in outfit}

(* Those of a category, the first of them only. *)
Owned(wardrobe, category) == {x \in wardrobe : x.category = category}

Representatives(wardrobe, category) ==
    {x \in Owned(wardrobe, category) :
        Cardinality({y \in Owned(wardrobe, category) : y.id < x.id}) < MaxRepresentatives}

Item(outfit, category) == CHOOSE x \in outfit : x.category = category

(* One representative for each category of a skeleton. *)
Fillings(wardrobe, k) ==
    {o \in SUBSET UNION {Representatives(wardrobe, category) : category \in Skeletons[k]} :
        \A category \in Skeletons[k] : \E x \in o : Owned(o, category) = {x}}

Legal(wardrobe) == UNION {Fillings(wardrobe, k) : k \in DOMAIN Skeletons}

Kind(outfit) == CHOOSE k \in DOMAIN Skeletons : Skeletons[k] = {x.category : x \in outfit}

(* In the order of the skeletons, and then of their slots.                  *)
Precedes(a, b) ==
    \/ Kind(a) < Kind(b)
    \/ /\ Kind(a) = Kind(b) /\ a # b
       /\ LET i == Min({j \in DOMAIN Categories : Categories[j] \in Skeletons[Kind(a)] /\
                           Item(a, Categories[j]) # Item(b, Categories[j])})
          IN  Item(a, Categories[i]).id < Item(b, Categories[i]).id

(* generate_outfit_candidates; every skeleton passes _skeleton_compatible.  *)
Candidates(wardrobe) ==
    LET legal == Legal(wardrobe)
    IN  {a \in legal : Cardinality({b \in legal : Precedes(b, a)}) < MaxCandidates}

-----------------------------------------------------------------------------

Clamp(low, high, points) == IF points < low THEN low ELSE IF points > high THEN high ELSE points

If(condition, points) == IF condition THEN points ELSE 0

Known(outfit, field(_)) == {field(x) : x \in outfit} \ {None}

Color(x) == x.color
Material(x) == x.material
Fit(x) == x.fit

(* Two members that are known not to go together, or all that do.           *)
ColorPoints(outfit) ==
    LET colored == {x \in outfit : x.color # None}
    IN  IF Cardinality(colored) < 2 THEN 0
        ELSE IF \E x, y \in colored : x # y /\ x.color \notin Neutral /\ y.color \notin Neutral
             THEN -10 ELSE 5

SeasonPoints(outfit) ==
    LET seasons(x) == CategorySeasons(x.category) \cup MaterialSeasons(x.material)
    IN  If(Cardinality(outfit) >= 2,
           IF \E s \in {"spring", "summer", "fall", "winter"} : \A x \in outfit : s \in seasons(x)
           THEN 5 ELSE -5)

MaterialPoints(outfit) == If(Known(outfit, Material) # {} /\ Known(outfit, Material) \subseteq Natural, 5)

FormalityPoints(outfit) == If(Cardinality(UNION {Registers(x.category) : x \in outfit}) = 1, 5)

OccasionPoints(c, outfit) == If(\E o \in c.occasions : \A x \in outfit : o \in Occasions(x.category), 5)

PalettePoints(c, outfit) == If(Known(outfit, Color) # {} /\ Known(outfit, Color) \subseteq Palette(c.palette), 5)

FitPoints(c, outfit) == If(Known(outfit, Fit) # {} /\ Known(outfit, Fit) \subseteq {c.fit}, 5)

(* The eight terms of the compatibility. *)
Compatibility(c, outfit) ==
    7 * Cardinality({x.category : x \in outfit})
    + ColorPoints(outfit) + MaterialPoints(outfit) + SeasonPoints(outfit) + FormalityPoints(outfit)
    + OccasionPoints(c, outfit) + PalettePoints(c, outfit) + FitPoints(c, outfit)

(* build_feedback_context: the last reaction to each saved look counts.     *)
Rated(c, rating) ==
    {look \in DOMAIN c.looks :
        \E e \in c.events :
            /\ e.look = look /\ e.rating = rating
            /\ \A f \in c.events : f.look = look => f.at <= e.at}

(* Faulty: the similar outfit gets what the same one should.                *)
Swapped(points, outfit, other) ==
    IF Ids(outfit) = other THEN points
    ELSE If(Cardinality(Ids(outfit) \cap other) >= 2, 2 * points)

(* An outfit that is the same counts twice as much as one that shares two.  *)
Alike(points, outfit, other) ==
    IF Ids(outfit) = other THEN 2 * points
    ELSE If(Cardinality(Ids(outfit) \cap other) >= 2, points)

Total(points, outfit, others) == FoldFunction(+, 0, [o \in DOMAIN others |-> Alike(points, outfit, others[o])])

Of(c, looks) == [look \in looks |-> c.looks[look]]

(* candidate_feedback_points. *)
Feedback(c, outfit) ==
    Clamp(-6, 6, Clamp(0, 6, Total(2, outfit, Of(c, Rated(c, "like"))))
                 + Clamp(-6, 0, Total(-2, outfit, Of(c, Rated(c, "dislike")))))

(* Items worn alone say nothing. *)
Wear(c, outfit) ==
    LET together == {g \in DOMAIN c.groups : Cardinality(c.groups[g]) >= 2}
    IN  Clamp(0, 2, Total(1, outfit, [g \in together |-> c.groups[g]]))

PreferencePoints(c, outfit) == Clamp(0, 15, 5 * Cardinality(Ids(outfit) \cap c.saved))

FavoritePoints(outfit) == Clamp(0, 15, 5 * Cardinality({x \in outfit : x.favorite}))

(* compose_candidate_score. *)
Score(c, outfit) ==
    Clamp(0, 100,
        Clamp(0, 70, Compatibility(c, outfit)) + PreferencePoints(c, outfit) + FavoritePoints(outfit)
        + Feedback(c, outfit) + Wear(c, outfit))

(* rank_outfit_candidates: the score, the fuller, the first identifiers.    *)
Before(c, a, b) ==
    \/ Score(c, a) > Score(c, b)
    \/ Score(c, a) = Score(c, b) /\ Cardinality(a) > Cardinality(b)
    \/ /\ Score(c, a) = Score(c, b) /\ Cardinality(a) = Cardinality(b)
       /\ LET different == SymDiff(Ids(a), Ids(b))
          IN  different # {} /\ Min(different) \in Ids(a)

Winner(c) ==
    CHOOSE a \in Candidates(c.wardrobe) :
        \A b \in Candidates(c.wardrobe) : b # a => Before(c, a, b)

(* _to_recommendation: the reasons an outfit is given, each for its points. *)
Reasons(c, outfit) ==
    LET points == [palette   |-> PalettePoints(c, outfit),
                   fit       |-> FitPoints(c, outfit),
                   preferred |-> PreferencePoints(c, outfit),
                   favorite  |-> FavoritePoints(outfit),
                   occasion  |-> OccasionPoints(c, outfit),
                   liked     |-> Feedback(c, outfit),
                   disliked  |-> - Feedback(c, outfit),
                   worn      |-> Wear(c, outfit)]
    IN  {reason \in DOMAIN points : points[reason] > 0}

(* What today's look offers instead of the winner. *)
Alternatives(c) ==
    {a \in Candidates(c.wardrobe) :
        Cardinality({b \in Candidates(c.wardrobe) : b # a /\ Before(c, b, a)}) \in 1 .. 2}

-----------------------------------------------------------------------------

(* The case once the outfit has been saved, and reacted to.                 *)
Reacted(c, outfit, rating) ==
    LET look == 1 + Cardinality(DOMAIN c.looks)
    IN  [c EXCEPT !.looks = [l \in DOMAIN c.looks \cup {look} |->
                                IF l = look THEN Ids(outfit) ELSE c.looks[l]],
                  !.events = @ \cup {[look |-> look, rating |-> rating, at |-> 99]}]

(* "A hard global cap ... deterministic prefix": the cap never costs a top  *)
(* or a bottom its outfit, and whatever the points, the winner is an outfit *)
(* of the owner's that no other candidate beats.                            *)
IsSettled(c) ==
    LET candidates == Candidates(c.wardrobe)
    IN  /\ \A x \in Representatives(c.wardrobe, "tops"), y \in Representatives(c.wardrobe, "bottoms") :
              {x, y} \in candidates
        /\ candidates # {} =>
              /\ Winner(c) \in candidates \ Alternatives(c)
              /\ \A b \in candidates : Score(c, b) <= Score(c, Winner(c))
        /\ \A a \in candidates : Compatibility(c, a) <= 70

(* "Like: positive ..., Dislike: negative outfit-level evidence": the first *)
(* like of the winner leaves it the winner, and the first dislike of an     *)
(* outfit lets it overtake no other, unless its score is at the cap, where  *)
(* it may lose less than an outfit that it shares two items with.           *)
ReactionsCount(c) ==
    LET candidates == Candidates(c.wardrobe)
    IN  /\ Rated(c, "like") = {} /\ candidates # {} =>
              Winner(Reacted(c, Winner(c), "like")) = Winner(c)
        /\ Rated(c, "dislike") = {} =>
              \A a, b \in candidates :
                  a # b /\ Before(c, b, a) /\ Score(c, a) < 100 => Before(Reacted(c, a, "dislike"), b, a)

(* The case without what a reason speaks of. *)
Without(c, reason) ==
    LET unrated(rating) == {e \in c.events : e.look \notin Rated(c, rating)}
    IN  CASE reason = "palette"   -> [c EXCEPT !.palette = None]
          [] reason = "fit"       -> [c EXCEPT !.fit = None]
          [] reason = "preferred" -> [c EXCEPT !.saved = {}]
          [] reason = "occasion"  -> [c EXCEPT !.occasions = {}]
          [] reason = "liked"     -> [c EXCEPT !.events = unrated("like")]
          [] reason = "disliked"  -> [c EXCEPT !.events = unrated("dislike")]
          [] reason = "worn"      -> [c EXCEPT !.groups = <<>>]
          [] OTHER                -> c

(* "Each string is emitted ONLY when its score term actually contributed":  *)
(* without what it speaks of, the outfit would have scored less (more, for  *)
(* a dislike), unless the score is at a bound.                              *)
ReasonsAreEarned(c) ==
    \A a \in Candidates(c.wardrobe) : \A reason \in Reasons(c, a) :
        LET outfit  == IF reason = "favorite" THEN {[x EXCEPT !.favorite = FALSE] : x \in a} ELSE a
            without == Score(Without(c, reason), outfit)
        IN  IF reason = "disliked" THEN Score(c, a) < without \/ Score(c, a) = 0
            ELSE without < Score(c, a) \/ Score(c, a) = 100
=============================================================================
