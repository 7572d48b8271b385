--------------------------- MODULE Personalization ---------------------------
(***************************************************************************)
(* The products shown "for you": the hard criteria, in SQL and in memory,   *)
(* the concepts a product is mapped to, the preferences of a request, the   *)
(* points of a product, the ranking and its pages (candidate_filters.py,    *)
(* candidate_retrieval.py, ffo_bridge.py, personalization.py, for_you.py    *)
(* and the candidate reads of DiscoveryRepositorySQL).                      *)
(*                                                                         *)
(* A text is the set of its words, and it contains another when it has its  *)
(* words; the text that is not stated is empty.  A product is               *)
(*   [id, created, text, tags, price, currency, available, pictured, made]  *)
(* with a text for each field and a set of texts as tags; made says that it *)
(* is synthetic or a fixture.  Identifiers are numbers, in their order.     *)
(***************************************************************************)
EXTENDS Integers, Sequences, FiniteSets, FiniteSetsExt, SequencesExt

CONSTANTS
    None, Malformed,
    Table,     \* the entries of the mapping tables, [key, concept], by field
    Kind,      \* of each verified concept
    Suits,     \* _CATEGORY_OCCASIONS
    Neutrals,  \* _NEUTRAL_COLOR_CODES
    Natural,   \* _NATURAL_MATERIAL_CODES
    Alphabet,  \* the words, in their lexical order
    QueryCap,  \* limit=1000 of a retrieval by concept
    PoolPage,  \* page_size=100 of the pool
    MaxPages   \* its pages, at most 5

Labels == {"category", "brand"}
Traits  == {"material", "color", "fit", "silhouette"}
Likes   == Labels \cup Traits \cup {"occasion", "aesthetic"}

Is(p, field, words) == \E w \in words : p.text[field] = {w}

Mentions(p, field, words) == words \cap p.text[field] # {}

-----------------------------------------------------------------------------

(* validate_criteria. *)
IsValid(q) == /\ \A c \in Labels : q.include[c] \cap q.exclude[c] = {}
              /\ q.min # None /\ q.max # None => q.min <= q.max

Within(p, q) == /\ q.priced # None => q.priced = (p.price # None)
                /\ q.min # None => p.price # None /\ p.price >= q.min
                /\ q.max # None => p.price # None /\ p.price <= q.max
                /\ q.currency # None => p.currency = q.currency
                /\ q.pictured # None => q.pictured = p.pictured
                /\ q.stocked # None => p.available = q.stocked

Found(p, q) == q.words # {} => \E f \in Labels \cup {"title", "subcategory"} : q.words \subseteq p.text[f]

(* lower(column) NOT IN (...): not of a column that is NULL. *)
NotIn(p, field, words) == p.text[field] # {} /\ ~ Is(p, field, words)

(* _build_filter_clauses: the rows the database selects. *)
Selects(q, p) ==
    /\ ~ q.made => ~ p.made
    /\ \A c \in Labels : /\ q.include[c] # {} => Is(p, c, q.include[c])
                         /\ q.exclude[c] # {} => NotIn(p, c, q.exclude[c])
    /\ \A t \in Traits : q.traits[t] # {} => Is(p, t, q.traits[t])
    /\ Within(p, q) /\ Found(p, q)

Precedes(order, p, r) ==
    LET key(x) == CASE order = "newest"     -> <<0, 0 - x.created>>
                    [] order = "oldest"     -> <<0, x.created>>
                    [] order = "price_asc"  -> IF x.price = None THEN <<1, 0>> ELSE <<0, x.price>>
                    [] order = "price_desc" -> IF x.price = None THEN <<1, 0>> ELSE <<0, 0 - x.price>>
                    [] OTHER                -> <<0, 0>>
        less(i) == key(p)[i] < key(r)[i]
    IN  \/ less(1)
        \/ key(p)[1] = key(r)[1] /\ less(2)
        \/ key(p) = key(r) /\ p.id < r.id

InOrder(products, order) ==
    [i \in 1 .. Cardinality(products) |->
        CHOOSE p \in products : Cardinality({r \in products : Precedes(order, r, p)}) = i - 1]

Slice(seq, offset, limit) ==
    LET end == IF offset + limit < Len(seq) THEN offset + limit ELSE Len(seq)
    IN  [n \in 1 .. end - offset |-> seq[offset + n]]

(* get_candidates. *)
Rows(catalogue, q, order, offset, limit) ==
    Slice(InOrder({p \in catalogue : Selects(q, p)}, order), offset, limit)

-----------------------------------------------------------------------------

Verified(concepts) == concepts \cap DOMAIN Kind

Exact(field, text) == {e.concept : e \in {x \in Range(Table[field]) : x.key = text}}

Contained(field, text) == {e.concept : e \in {x \in Range(Table[field]) : x.key \subseteq text}}

FirstContained(field, text) ==
    LET hits == {i \in DOMAIN Table[field] :
                    Table[field][i].key \subseteq text /\ Table[field][i].concept \in DOMAIN Kind}
    IN  IF hits = {} THEN {} ELSE {Table[field][Min(hits)].concept}

(* map_product_attributes_to_ffo, field by field; the names of garments are *)
(* looked for in the title too.                                             *)
Mapping(p, field) ==
    LET text == p.text[field]
    IN  Verified(CASE field = "material" -> Contained("material", text)
                   [] field = "color"    -> IF Exact("color", text) # {} THEN Exact("color", text)
                                            ELSE FirstContained("color", text)
                   [] field = "title"    -> Contained("subcategory", text)
                   [] OTHER              -> Exact(field, text))

Bridged == {"material", "color", "fit", "silhouette", "pattern", "subcategory", "title"}

Concepts(p) == UNION {Mapping(p, f) : f \in Bridged}
               \cup Verified(UNION {Exact("tags", t) : t \in p.tags})

OfKind(p, kinds) == {c \in Concepts(p) : Kind[c] \in kinds}

(* unmapped_attributes. *)
Unmapped(p) ==
    {f \in Bridged \ {"title"} :
        /\ p.text[f] # {}
        /\ f # "material" => Exact(f, p.text[f]) = {}
        /\ f \in {"material", "color"} => Mapping(p, f) = {}}

(* filter_candidate: the same criteria in memory, and the concepts.         *)
Passes(q, p) ==
    /\ ~ q.made => ~ p.made
    /\ \A c \in Labels : /\ q.include[c] # {} => Is(p, c, q.include[c])
                         /\ ~ Is(p, c, q.exclude[c])
    /\ \A t \in Traits : q.traits[t] # {} => Mentions(p, t, q.traits[t])
    /\ Within(p, q) /\ Found(p, q)
    /\ q.concepts # {} => Concepts(p) \cap q.concepts # {}

Pages(total, size) == (total + size - 1) \div size

(* The rows that pass, in their order. *)
Filtered(q, rows) ==
    LET places == {i \in DOMAIN rows : Passes(q, rows[i])}
    IN  [n \in 1 .. Cardinality(places) |->
            rows[CHOOSE i \in places : Cardinality({j \in places : j < i}) = n - 1]]

Matching(catalogue, q, order) ==
    IF q.concepts = {} THEN Rows(catalogue, q, order, 0, Cardinality(catalogue))
    ELSE Filtered(q, Rows(catalogue, q, order, 0, QueryCap))

(* RetrieveProductCandidates. *)
Retrieve(catalogue, q, order, page, size) ==
    LET matching == Matching(catalogue, q, order)
    IN  [items |-> Slice(matching, (page - 1) * size, size),
         total |-> Len(matching),
         pages |-> Pages(Len(matching), size),
         next  |-> page * size < Len(matching),
         prev  |-> page > 1 /\ matching # <<>>]

-----------------------------------------------------------------------------

(* A stored value: the canonical key before its alias, and nothing of what  *)
(* is malformed.                                                            *)
Extract(canonical, alternate) == IF canonical # None THEN canonical ELSE alternate

Words(canonical, alternate) ==
    LET raw == Extract(canonical, alternate) IN IF raw \in {None, Malformed} THEN {} ELSE raw

Amount(canonical, alternate) ==
    LET raw == Extract(canonical, alternate)
    IN  IF raw \in {None, Malformed} THEN None ELSE IF raw < 0 THEN None ELSE raw

(* normalize_preferences. *)
Normalized(raw, alias) ==
    [likes    |-> [k \in Likes |-> Words(raw.likes[k], alias.likes[k])],
     dislikes |-> [c \in Labels |-> Words(raw.dislikes[c], alias.dislikes[c])],
     max      |-> Amount(raw.max, alias.max),
     min      |-> Amount(raw.min, alias.min),
     currency |-> Extract(raw.currency, None)]

Given(explicit, stored, nothing) == IF explicit # nothing THEN explicit ELSE stored

(* What a request states comes before what the profile stores, one by one.  *)
Merged(explicit, stored) ==
    [likes    |-> [k \in Likes |-> Given(explicit.likes[k], stored.likes[k], {})],
     dislikes |-> [c \in Labels |-> Given(explicit.dislikes[c], stored.dislikes[c], {})],
     max      |-> Given(explicit.max, stored.max, None),
     min      |-> Given(explicit.min, stored.min, None),
     currency |-> Given(explicit.currency, stored.currency, None)]

(* build_wardrobe_affinity_context: the commonest words of a field.         *)
Commonest(items, field, n) ==
    LET words    == {x[field] : x \in items} \ {None}
        count(w) == Cardinality({x \in items : x[field] = w})
        place(w) == CHOOSE i \in DOMAIN Alphabet : Alphabet[i] = w
        ahead(w) == {v \in words : \/ count(v) > count(w)
                                   \/ count(v) = count(w) /\ place(v) < place(w)}
    IN  {w \in words : Cardinality(ahead(w)) < n}

(* _resolve_context: a guest has neither a profile nor a wardrobe.          *)
Context(r) ==
    IF r.guest
    THEN [prefs |-> r.explicit, style |-> None, wardrobe |-> {}]
    ELSE [prefs |-> Merged(r.explicit, Normalized(r.stored, r.alias)), style |-> r.style, wardrobe |-> r.wardrobe]

-----------------------------------------------------------------------------

Points == [category |-> 10, brand |-> 10, color |-> 8, material |-> 6, fit |-> 3, silhouette |-> 3,
           aesthetic |-> 15, occasion |-> 10,
           palette |-> 10, gap |-> 5, quality |-> 5,
           stock |-> 5, price |-> 5, budget |-> 5]

Wanted(c) == c.prefs.likes["aesthetic"] \cup ({c.style} \ {None})

Kinds(trait) == IF trait = "material" THEN {"material", "textile"} ELSE {trait}

(* What a product earns points for.  The most that the dimensions of a part *)
(* give together is its maximum, so that none is taken.                     *)
Preferred(c, p) ==
    LET likes == c.prefs.likes
        named(d) == IF d = "material" THEN Mentions(p, d, likes[d]) ELSE Is(p, d, likes[d])
    IN  {d \in Labels : Is(p, d, likes[d])}
        \cup {d \in Traits : named(d) \/ OfKind(p, Kinds(d)) \cap likes[d] # {}}

Styled(c, p) ==
    LET tags     == UNION {t \in p.tags : Cardinality(t) = 1}
        suits(w) == p.text["category"] = {w} /\ Suits[w] \cap c.prefs.likes["occasion"] # {}
    IN  {d \in {"aesthetic"} : (OfKind(p, {"aesthetic", "culture"}) \cup tags) \cap Wanted(c) # {}}
        \cup {d \in {"occasion"} : \E w \in p.text["category"] : suits(w)}

Complementing(c, p) ==
    LET owned   == c.wardrobe
        palette == Neutrals \cup Commonest(owned, "color", 5)
                            \cup Commonest({x \in owned : x.favorite}, "color", 3)
    IN  {d \in {"palette"} : owned # {} /\ Is(p, "color", palette)}
        \cup {d \in {"gap"} : /\ owned # {} /\ p.text["category"] # {}
                              /\ Cardinality({x \in owned : p.text["category"] = {x.category}}) < 2}
        \cup {d \in {"quality"} : owned # {} /\ Is(p, "material", Natural)}

Affordable(c, p) ==
    {d \in {"stock"} : p.available = TRUE}
    \cup {d \in {"price"} : p.price # None}
    \cup {d \in {"budget"} : p.price # None /\ (c.prefs.max = None \/ p.price <= c.prefs.max)}

(* score_product_candidate, and the reasons it gives. *)
Awards(c, p) == Preferred(c, p) \cup Styled(c, p) \cup Complementing(c, p) \cup Affordable(c, p)

Score(c, p) == MapThenSumSet(LAMBDA d : Points[d], Awards(c, p))

(* neutral_dimensions: what nothing was known of. *)
Neutral(c, p) ==
    {k \in Likes \ {"aesthetic"} : c.prefs.likes[k] = {}}
    \cup (IF Wanted(c) = {} THEN {"aesthetic"} ELSE {})
    \cup (IF c.wardrobe = {} THEN {"palette", "gap", "quality"} ELSE {})
    \cup (IF p.available = None THEN {"stock"} ELSE {})
    \cup (IF p.price = None THEN {"price"} ELSE {})
    \cup (IF p.price = None /\ c.prefs.max = None THEN {"budget"} ELSE {})

(* rank_personalized_candidates. *)
Ahead(c, p, r) == \/ Score(c, p) > Score(c, r)
                  \/ Score(c, p) = Score(c, r) /\ Precedes("newest", p, r)

Ranked(c, products) ==
    [i \in 1 .. Cardinality(products) |->
        CHOOSE p \in products : Cardinality({r \in products : Ahead(c, r, p)}) = i - 1]

(* Faulty: the exclusions of the profile are only preferences. *)
Unmerged(r) == [r.criteria EXCEPT !.min = Given(@, Context(r).prefs.min, None),
                                  !.max = Given(@, Context(r).prefs.max, None)]

(* The criteria of the request, and the hard limits of the preferences.     *)
Hard(r) ==
    LET prefs == Context(r).prefs
    IN  [r.criteria EXCEPT
            !.exclude  = [c \in Labels |-> Given(@[c], prefs.dislikes[c], {})],
            !.min      = Given(@, prefs.min, None),
            !.max      = Given(@, prefs.max, None),
            !.currency = Given(@, prefs.currency, None)]

Pool(catalogue, q) ==
    LET first == Retrieve(catalogue, q, "newest", 1, PoolPage)
        last  == IF first.pages < MaxPages THEN first.pages ELSE MaxPages
    IN  FlattenSeq([n \in 1 .. Max({1, last}) |-> Retrieve(catalogue, q, "newest", n, PoolPage).items])

(* PersonalizeForYou; criteria that contradict the exclusions of the        *)
(* profile end the request.                                                 *)
ForYou(catalogue, r, page, size) ==
    LET ranked == Ranked(Context(r), Range(Pool(catalogue, Hard(r))))
    IN  IF ~ IsValid(Hard(r)) THEN [failed |-> TRUE]
        ELSE [failed |-> FALSE,
              items  |-> Slice(ranked, (page - 1) * size, size),
              total  |-> Len(ranked),
              next   |-> page * size < Len(ranked)]

-----------------------------------------------------------------------------

(* "References ONLY concepts that actually exist ... Represents unknown or  *)
(* unmapped attributes honestly" (ffo_bridge.py): of what a product states, *)
(* each attribute is either mapped or reported, whatever else is mapped.    *)
IsMapped(p) ==
    \A f \in Bridged \ {"title"} : p.text[f] # {} => (Mapping(p, f) = {} <=> f \in Unmapped(p))

(* A product the search in memory would keep, that SQL does not select: it  *)
(* leaves open what is excluded, or states more than what is wanted.        *)
IsLost(q, p) ==
    \/ \E c \in Labels : q.exclude[c] # {} /\ p.text[c] = {}
    \/ \E t \in Traits : q.traits[t] # {} /\ Cardinality(p.text[t]) > 1

(* "Hard eligibility filters must be applied BEFORE scoring": the pages of  *)
(* a request show once each, best first, the products that fit it; none of  *)
(* them is of what the owner's profile excludes or over its budget, unless  *)
(* the request says otherwise; what fits and is not shown is lost as above  *)
(* or beyond the bounds of the pool.                                        *)
IsWanted(catalogue, r, size) ==
    LET whole   == ForYou(catalogue, r, 1, Cardinality(catalogue))
        paged   == FlattenSeq([n \in 1 .. Pages(whole.total, size) |-> ForYou(catalogue, r, n, size).items])
        profile == Normalized(r.stored, r.alias)
        score(i) == Score(Context(r), paged[i])
    IN  ~ whole.failed =>
        /\ paged = whole.items
        /\ \A i, j \in DOMAIN paged : i < j => paged[i] # paged[j] /\ score(i) >= score(j)
        /\ \A p \in Range(paged) :
              /\ Passes(Hard(r), p)
              /\ \A c \in Labels :
                    ~ r.guest /\ r.criteria.exclude[c] \cup r.explicit.dislikes[c] = {}
                        => ~ Is(p, c, profile.dislikes[c])
              /\ (~ r.guest /\ r.criteria.max = None /\ r.explicit.max = None /\ profile.max # None
                        => p.price <= profile.max)
              /\ 100 >= Score(Context(r), p)
              /\ Awards(Context(r), p) \cap Neutral(Context(r), p) = {}
        /\ \A p \in catalogue \ Range(paged) :
              Passes(Hard(r), p) => \/ IsLost(Hard(r), p)
                                    \/ Len(paged) = MaxPages * PoolPage
                                    \/ r.criteria.concepts # {} /\ Cardinality(catalogue) > QueryCap
=============================================================================
