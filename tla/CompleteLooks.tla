---------------------------- MODULE CompleteLooks ----------------------------
(***************************************************************************)
(* The complete looks that are put together from the catalogue and the      *)
(* owner's wardrobe (outfit_compatibility.py, complete_looks.py and their   *)
(* route).                                                                  *)
(*                                                                         *)
(* An item is [id, source, slot, color, material, shape, styles, price] and *)
(* a product also has stocked; the slot is the one its category has, None   *)
(* if there is none.  A look is a function of slots to items.  Points are   *)
(* counted in halves.  A request is                                         *)
(*   [user, anchor, owned, products, allowed, budget, style, limit]         *)
(* with what is owned and what is sold as sequences, the newest first, and  *)
(* as anchor None or what is asked for: [source, id].                       *)
(***************************************************************************)
EXTENDS Garments, Integers, Sequences, FiniteSets, FiniteSetsExt

CONSTANTS
    None,
    OwnedPage, \* pieces of the wardrobe that are read
    PerSlot,   \* products of a slot that are considered
    Sample     \* candidates of an optional slot, by the number of such slots

Slots == {"top", "bottom", "footwear", "outerwear", "accessories"}

Core == {"top", "bottom"}

Category(slot) ==
    CASE slot = "top" -> "tops" [] slot = "bottom" -> "bottoms" [] OTHER -> slot

Items(look) == {look[s] : s \in DOMAIN look}

-----------------------------------------------------------------------------
(* evaluate_look_compatibility.                                              *)

Worth == [footwear |-> 10, outerwear |-> 6, accessories |-> 4]

CompletenessPoints(look) ==
    (IF Core \subseteq DOMAIN look THEN 30 ELSE IF Core \cap DOMAIN look # {} THEN 15 ELSE 0)
    + MapThenSumSet(LAMBDA s : Worth[s], DOMAIN look \ Core)

ColorPoints(look) ==
    LET colored == {s \in DOMAIN look : look[s].color # None}
        colors  == {look[s].color : s \in colored}
    IN  IF Cardinality(colored) < 2 THEN 25
        ELSE IF \E name \in {"monochrome", "warm", "cool"} : colors \subseteq Palette(name) THEN 50
        ELSE IF Cardinality({s \in colored : look[s].color \notin Neutral}) < 2 THEN 40
        ELSE 10

(* The seasons of a material are looked up in a table that is keyed by      *)
(* season: none is found, and those of the category are all there are.      *)
SeasonsOf(slot) == CategorySeasons(Category(slot))

MaterialPoints(look) ==
    LET materials == {x.material : x \in Items(look)} \ {None}
    IN  (IF materials # {} /\ materials \subseteq Natural THEN 20 ELSE 10)
        + (IF Cardinality(DOMAIN look) < 2 THEN 10
           ELSE IF \E season \in SeasonsOf("top") : \A s \in DOMAIN look : season \in SeasonsOf(s)
                THEN 20 ELSE 0)

StylePoints(look, style) ==
    LET styles == UNION {x.styles : x \in Items(look)}
    IN  IF (IF style # None THEN style \in styles ELSE styles # {}) THEN 30 ELSE 15

ShapePoints(look) ==
    LET top    == look["top"].shape
        bottom == look["bottom"].shape
    IN  IF ~ Core \subseteq DOMAIN look THEN 7
        ELSE IF \/ top \in {"oversized", "fitted"} /\ bottom \in {"wide", "relaxed"}
                \/ top = "cropped" /\ bottom \in {"tapered", "high"}
             THEN 14
        ELSE IF top # None \/ bottom # None THEN 10 ELSE 8

FormalityPoints(look) ==
    IF Cardinality(UNION {Registers(Category(s)) : s \in DOMAIN look}) = 1 THEN 16 ELSE 8

Points(look, style) ==
    CompletenessPoints(look) + ColorPoints(look) + MaterialPoints(look)
        + StylePoints(look, style) + ShapePoints(look) + FormalityPoints(look)

-----------------------------------------------------------------------------
(* The candidates of each slot: AssembleCompleteLooks.                       *)

(* The first n of some places of a list. *)
Foremost(places, n) == {i \in places : Cardinality({j \in places : j < i}) < n}

(* What is owned is looked at for a user who allows it, the newest of it.   *)
Owned(r, slot) ==
    {i \in DOMAIN r.owned : /\ r.user # None /\ r.allowed
                            /\ i <= OwnedPage /\ r.owned[i].slot = slot}

(* The products of a slot: in stock and priced, the newest of them.         *)
Shelf(r, slot) ==
    Foremost({i \in DOMAIN r.products :
                 LET p == r.products[i] IN p.slot = slot /\ p.stocked /\ p.price # None}, PerSlot)

(* What is owned comes before what is sold. *)
Pool(r, slot) == {r.owned[i] : i \in Owned(r, slot)} \cup {r.products[i] : i \in Shelf(r, slot)}

FirstOf(r, slot, n) ==
    {r.owned[i] : i \in Foremost(Owned(r, slot), n)}
    \cup {r.products[i] : i \in Foremost(Shelf(r, slot), n - Cardinality(Owned(r, slot)))}

Stock(r) == IF r.anchor.source = "wardrobe" THEN r.owned ELSE r.products

Anchors(r) ==
    IF r.anchor = None THEN {} ELSE {x \in Range(Stock(r)) : x.id = r.anchor.id}

(* An anchor of a category that has no slot is forgotten. *)
Anchored(r) == {x \in Anchors(r) : x.slot # None}

AnchorSlots(r) == {x.slot : x \in Anchored(r)}

Candidates(r, slot) ==
    IF slot \in AnchorSlots(r) THEN Anchored(r) ELSE Pool(r, slot)

-----------------------------------------------------------------------------
(* assemble_look_combinations.                                               *)

Required(r) == Core \cup AnchorSlots(r)

Optional(r) == {s \in Slots \ Required(r) : Candidates(r, s) # {}}

(* What is owned costs nothing. *)
Spent(look) ==
    [s \in DOMAIN look |->
        IF look[s].source = "catalog" /\ look[s].price # None THEN look[s].price ELSE 0]

Price(look) == MapThenSumSet(LAMBDA s : Spent(look)[s], DOMAIN look)

(* Faulty: the top and the bottom are compared with the budget, not the     *)
(* pieces that complete them.                                               *)
CoreAffordable(r, look) ==
    r.budget # None => Price([s \in Core |-> look[s]]) <= r.budget

Affordable(r, look) == r.budget # None => Price(look) <= r.budget

(* What is considered for a slot of a configuration. *)
Considered(r, slots, s) ==
    IF s \in Core \cup AnchorSlots(r) THEN Candidates(r, s)
    ELSE FirstOf(r, s, Sample[Cardinality(slots \ Core)])

(* One of these in each slot. *)
Filled(r, slots) ==
    LET from(s) == IF s \in slots THEN Considered(r, slots, s) ELSE {None}
    IN  {[s \in slots |-> CASE s = "top"         -> a
                           [] s = "bottom"      -> b
                           [] s = "footwear"    -> c
                           [] s = "outerwear"   -> d
                           [] s = "accessories" -> e] :
            a \in from("top"), b \in from("bottom"), c \in from("footwear"),
            d \in from("outerwear"), e \in from("accessories")}

Feasible(r, slots) ==
    {look \in Filled(r, slots) :
        /\ \A s, t \in slots : s # t => look[s].id # look[t].id
        /\ Affordable(r, look)}

(* Stands for the order of the hashes that name the looks: that of their    *)
(* pieces, slot by slot.                                                    *)
Named(look) ==
    LET id(s) == IF s \in DOMAIN look THEN look[s].id ELSE 0
    IN  <<id("top"), id("bottom"), id("footwear"), id("outerwear"), id("accessories")>>

NamedBefore(a, b) ==
    LET f == Named(a)
        g == Named(b)
    IN  \E n \in 1 .. 5 : f[n] < g[n] /\ \A m \in 1 .. n - 1 : f[m] = g[m]

(* The order of looks of equal worth: the cheaper, the fuller, the name.    *)
Finer(a, b) ==
    \/ Price(a) < Price(b)
    \/ /\ Price(a) = Price(b)
       /\ \/ Cardinality(DOMAIN a) > Cardinality(DOMAIN b)
          \/ Cardinality(DOMAIN a) = Cardinality(DOMAIN b) /\ NamedBefore(a, b)

Better(r, a, b) ==
    \/ Points(a, r.style) > Points(b, r.style)
    \/ Points(a, r.style) = Points(b, r.style) /\ Finer(a, b)

(* How many completions of one core are kept. *)
PerCore(r) ==
    LET cores == Cardinality(Candidates(r, "top")) * Cardinality(Candidates(r, "bottom"))
    IN  Max({2, (2 * r.limit) \div Max({1, cores})})

SameCore(a, b) == \A s \in Core : a[s] = b[s]

(* The best completions of each core; of a core that needs none, itself.    *)
Completions(r, slots) ==
    LET looks == Feasible(r, slots)
    IN  {a \in looks : Cardinality({b \in looks : SameCore(a, b) /\ Better(r, b, a)}) < PerCore(r)}

Configurations(r, k) == {slots \in SUBSET (Required(r) \cup Optional(r)) :
                            Required(r) \subseteq slots /\ Cardinality(slots) = k}

OfSize(r, k) == UNION {Completions(r, slots) : slots \in Configurations(r, k)}

(* Fuller looks first: smaller ones only where there is none. *)
Assembled(r) ==
    LET sizes == {k \in Cardinality(Required(r)) .. Cardinality(Slots) : OfSize(r, k) # {}}
    IN  IF sizes = {} THEN {} ELSE OfSize(r, Max(sizes))

-----------------------------------------------------------------------------
(* rerank_looks_for_diversity.                                               *)

Weight == [top |-> 35, bottom |-> 35, outerwear |-> 15, footwear |-> 10, accessories |-> 5]

(* compute_look_similarity, as a fraction. *)
Similarity(r, a, b) ==
    LET common == (DOMAIN a \cap DOMAIN b) \ AnchorSlots(r)
        total  == MapThenSumSet(LAMBDA s : Weight[s], common)
        same   == MapThenSumSet(LAMBDA s : Weight[s], {s \in common : a[s].id = b[s].id})
    IN  IF total = 0 THEN <<0, 1>> ELSE <<same, total>>

Less(p, q) == p[1] * q[2] < q[1] * p[2]

(* The points less twenty for what a look shares with one that is shown.    *)
Adjusted(r, look, shown) ==
    LET reduced(b) == LET f == Similarity(r, look, b)
                      IN  <<Points(look, r.style) * f[2] - 40 * f[1], f[2]>>
        values     == {reduced(b) : b \in Range(shown)}
    IN  CHOOSE v \in values : \A w \in values : ~ Less(w, v)

Ahead(r, shown, a, b) ==
    IF shown = <<>> THEN Better(r, a, b)
    ELSE LET va == Adjusted(r, a, shown)
             vb == Adjusted(r, b, shown)
         IN  Less(vb, va) \/ (~ Less(va, vb) /\ Better(r, a, b))

(* The next that is shown: the one ahead of all that are left.              *)
Grown(r, looks, shown) ==
    LET left == looks \ Range(shown)
    IN  IF left = {} THEN shown
        ELSE Append(shown, CHOOSE a \in left : \A b \in left \ {a} : Ahead(r, shown, a, b))

Selected(r, looks) ==
    LET shown[n \in 0 .. r.limit] == IF n = 0 THEN <<>> ELSE Grown(r, looks, shown[n - 1])
    IN  shown[r.limit]

-----------------------------------------------------------------------------
(* get_complete_looks.                                                       *)

Looks(r) == Selected(r, Assembled(r))

Answer(r) ==
    IF r.anchor # None /\ r.anchor.source = "wardrobe" /\ r.user = None
    THEN [status |-> "unauthenticated", looks |-> <<>>]
    ELSE IF r.anchor # None /\ Anchors(r) = {} THEN [status |-> "not_found", looks |-> <<>>]
    ELSE [status |-> "ok", looks |-> Looks(r)]

-----------------------------------------------------------------------------

(* "Enforces: exactly 1 item per slot, required slots, no duplicates, the   *)
(* budget limit, the anchor locked to its slot", "guest requests cannot     *)
(* access any wardrobe data", and nothing is shown twice.                   *)
LooksAreWhole(r) ==
    LET looks == Answer(r).looks
    IN  /\ Len(looks) <= r.limit /\ IsInjective(looks)
        /\ \A i \in DOMAIN looks : LET look == looks[i] IN
              /\ Required(r) \subseteq DOMAIN look
              /\ \A s \in DOMAIN look : look[s].slot = s
              /\ Cardinality({x.id : x \in Items(look)}) = Cardinality(DOMAIN look)
              /\ r.budget # None => Price(look) <= r.budget
              /\ Anchored(r) \subseteq Items(look)
              /\ r.user = None => \A x \in Items(look) : x.source = "catalog"

(* "Complete outfits preferred when feasible": the first look is no worse   *)
(* and no emptier than any that could be put together of what is considered *)
(* for it, although only some completions of a core are kept.               *)
FirstIsBest(r) ==
    LET looks == Looks(r)
    IN  \A slots \in SUBSET Slots :
            (Required(r) \subseteq slots /\ slots \subseteq Required(r) \cup Optional(r)
                /\ Feasible(r, slots) # {}) =>
                /\ looks # <<>> /\ Cardinality(slots) <= Cardinality(DOMAIN looks[1])
                /\ Cardinality(slots) = Cardinality(DOMAIN looks[1]) =>
                      \A look \in Feasible(r, slots) : Points(look, r.style) <= Points(looks[1], r.style)

(* "Owned wardrobe items cost nothing towards catalogue spend": more money, *)
(* or one more piece owned, as long as all that is owned is read, never     *)
(* leaves a smaller outfit or none.                                         *)
NotLess(r, richer) ==
    Looks(r) # <<>> =>
        /\ Looks(richer) # <<>>
        /\ Cardinality(DOMAIN Looks(richer)[1]) >= Cardinality(DOMAIN Looks(r)[1])

MoreIsNotLess(r, piece) ==
    /\ NotLess(r, [r EXCEPT !.budget = None])
    /\ r.anchor = None /\ Len(r.owned) < OwnedPage => NotLess(r, [r EXCEPT !.owned = <<piece>> \o @])
=============================================================================
