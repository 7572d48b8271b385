------------------------------- MODULE Trends --------------------------------
(***************************************************************************)
(* What is concluded from the observations of a window: the candidates of   *)
(* the catalogue (services/trends.py), the attention of videos              *)
(* (fashion_concept_extraction.py, fashion_video_aggregation.py), the       *)
(* products shown with it (catalog_concept_matcher.py), the ranked feed of  *)
(* trending/domain.py, and what search interest is accepted                 *)
(* (search_interest.py and the tables it is stored in).                     *)
(*                                                                         *)
(* Times are in hours.  A ratio is a pair, numerator and denominator.  A    *)
(* text is the set of its words; where only its length counts, a number.    *)
(***************************************************************************)
EXTENDS Integers, Sequences, FiniteSets, FiniteSetsExt, SequencesExt

CONSTANTS
    None, Malformed,
    Vocabulary,  \* of concepts: [category, kinds, traits, patterns, negatives]
    Alias        \* the slugs of terms that have another than their own

Within(at, w) == w.start <= at /\ at < w.end

IsEarly(at, w) == 2 * at < w.start + w.end

Clamp(low, n, high) == IF n < low THEN low ELSE IF n > high THEN high ELSE n

(* normalize_term. *)
Slug(term) == IF term \in DOMAIN Alias THEN Alias[term] ELSE term

Growth(early, late) ==
    IF early = {} THEN None ELSE <<Cardinality(late) - Cardinality(early), Cardinality(early)>>

Stages == {"insufficient_evidence", "rising", "declining", "plateau"}

Stage(count, growth) ==
    IF count < 3 \/ growth = None THEN "insufficient_evidence"
    ELSE IF 10 * growth[1] > growth[2] THEN "rising"
    ELSE IF 10 * growth[1] < 0 - growth[2] THEN "declining"
    ELSE "plateau"

(* The confidence in the data, in hundredths of the span of its freshness.  *)
Confidence(count, sources, age, fresh, stale) ==
    (4 * Clamp(0, count, 10) + 15 * Clamp(0, sources, 2)) * (stale - fresh)
        + 30 * Clamp(0, stale - age, stale - fresh)

IsConfident(confidence, fresh, stale) == confidence >= 60 * (stale - fresh)

-----------------------------------------------------------------------------
(* The catalogue: an observation is                                          *)
(* [id, product, category, source, at, price, stock, made].                  *)

DemandSignalAvailable == FALSE

Fresh == 24
Stale == 168

(* TrendRepositorySQL.observations_in_window. *)
Observed(history, w) == {o \in history : Within(o.at, w)}

Before(a, b) == \/ a.at < b.at
                \/ a.at = b.at /\ a.product < b.product
                \/ a.at = b.at /\ a.product = b.product /\ a.id < b.id

PriceChange(rows) ==
    LET priced == {o \in rows : o.price # None}
        first  == CHOOSE o \in priced : \A r \in priced \ {o} : Before(o, r)
        last   == CHOOSE o \in priced : \A r \in priced \ {o} : Before(r, o)
    IN  IF Cardinality(priced) < 2 THEN None
        ELSE IF first.price = 0 THEN None ELSE <<last.price - first.price, first.price>>

InStock(rows) ==
    LET known == {o \in rows : o.stock # None}
    IN  IF known = {} THEN None ELSE <<Cardinality({o \in known : o.stock}), Cardinality(known)>>

CatalogGrowth(rows, w) ==
    Growth({o.product : o \in {r \in rows : IsEarly(r.at, w)}},
           {o.product : o \in {r \in rows : ~ IsEarly(r.at, w)}})

(* _build_candidate. *)
Candidate(rows, w) ==
    LET sources    == {o.source : o \in rows}
        growth     == CatalogGrowth(rows, w)
        confidence == Confidence(Cardinality(rows), Cardinality(sources), w.end - Max({o.at : o \in rows}),
                                 Fresh, Stale)
        stage      == Stage(Cardinality(rows), growth)
        made       == \E o \in rows : o.made
        trusted    == IsConfident(confidence, Fresh, Stale)
    IN  [count |-> Cardinality(rows), products |-> Cardinality({o.product : o \in rows}),
         sources |-> Cardinality(sources), growth |-> growth,
         price |-> PriceChange(rows), stock |-> InStock(rows),
         confidence |-> confidence, stage |-> stage, made |-> made,
         reasons |-> (IF made THEN {"fixture"} ELSE {})
                     \cup (IF DemandSignalAvailable THEN {} ELSE {"no_demand"})
                     \cup (IF growth = None THEN {"zero_baseline"} ELSE {})
                     \cup (IF Cardinality(rows) < 3 THEN {"too_few"} ELSE {})
                     \cup (IF trusted THEN {} ELSE {"low_confidence"}),
         publishable |-> /\ ~ made /\ DemandSignalAvailable
                         /\ stage # "insufficient_evidence" /\ trusted]

(* compute_trend_candidates, of what AnalyzeTrends loads. *)
Analysis(history, w) ==
    LET rows      == Observed(history, w)
        named     == {o \in rows : o.category # None}
        concepts  == {Slug(o.category) : o \in named}
    IN  [candidates |-> [c \in concepts |-> Candidate({o \in named : Slug(o.category) = c}, w)],
         count |-> Cardinality(rows), coverage |-> Cardinality({o.source : o \in rows})]

(* What of it is published: to_ffo_trend and get_trend_analysis. *)
Published(analysis) == {c \in DOMAIN analysis.candidates : analysis.candidates[c].publishable}

-----------------------------------------------------------------------------
(* Videos: a record is [video, channel, at, views, title, tags, description] *)
(* with a set of texts as tags.                                              *)

Hits(patterns, text) == \E words \in patterns : words \subseteq text

(* extract_from_text: where a concept is found, first in the title. *)
FoundIn(c, r) ==
    LET d == Vocabulary[c]
    IN  IF Hits(d.negatives, r.title) \/ Hits(d.negatives, r.description) THEN None
        ELSE IF Hits(d.patterns, r.title) THEN "title"
        ELSE IF \E t \in r.tags : Hits(d.patterns, t) THEN "tags"
        ELSE IF Hits(d.patterns, r.description) THEN "description"
        ELSE None

(* extract_from_raw_record: none of a record that has no time. *)
Extracted(r) == {c \in DOMAIN Vocabulary : r.at # None /\ FoundIn(c, r) # None}

VideoFresh == 48

(* A video that was read before: is what it says now to be kept instead?    *)
Replaces(new, old) ==
    \/ new.views # None /\ (IF old.views = None THEN TRUE ELSE new.views >= old.views)
    \/ new.at > old.at

(* Faulty: the last that was read. *)
KeepLast(kept, r) == {v \in kept : v.video # r.video} \cup {r}

Keep(kept, r) ==
    IF \E v \in kept : v.video = r.video /\ ~ Replaces(r, v) THEN kept
    ELSE {v \in kept : v.video # r.video} \cup {r}

Deduped(records) == FoldLeft(LAMBDA kept, r : Keep(kept, r), {}, records)

(* The records of a window that a concept is found in, in their order.      *)
About(c, records, w) ==
    LET places == {i \in DOMAIN records : c \in Extracted(records[i]) /\ Within(records[i].at, w)}
    IN  [n \in 1 .. Cardinality(places) |->
            records[CHOOSE i \in places : Cardinality({j \in places : j < i}) = n - 1]]

(* aggregate_video_observations, of one concept. *)
Attention(c, records, w) ==
    LET videos     == Deduped(About(c, records, w))
        channels   == {v.channel : v \in videos} \ {None}
        growth     == Growth({v.video : v \in {x \in videos : IsEarly(x.at, w)}},
                             {v.video : v \in {x \in videos : ~ IsEarly(x.at, w)}})
        viewed     == {v \in videos : v.views # None}
        stage      == Stage(Cardinality(videos), growth)
        confidence == Confidence(Cardinality(videos), Max({1, Cardinality(channels)}),
                                 w.end - Max({v.at : v \in videos}), VideoFresh, Stale)
    IN  IF videos = {} THEN None
        ELSE [videos |-> Cardinality(videos), channels |-> Max({1, Cardinality(channels)}),
              growth |-> growth, stage |-> stage, confidence |-> confidence,
              views |-> IF viewed = {} THEN None ELSE MapThenSumSet(LAMBDA v : v.views, viewed),
              publishable |-> stage # "insufficient_evidence" /\ IsConfident(confidence, VideoFresh, Stale)]

(* What is concluded of the videos of a concept. *)
Attentions == [videos : Nat, channels : Nat, growth : (Int \X Int) \cup {None}, stage : Stages, confidence : Int,
               views : Nat \cup {None}, publishable : BOOLEAN]

(* enrich_candidate_with_video_signal: signals are added, nothing else.     *)
Enriched(candidate, attention) ==
    [candidate |-> candidate,
     signals   |-> IF attention = None THEN {} ELSE
                   {"videos", "channels"} \cup (IF attention.growth = None THEN {} ELSE {"growth"})
                                          \cup (IF attention.views = None THEN {} ELSE {"views"})]

-----------------------------------------------------------------------------
(* Products of a concept: a product is                                       *)
(* [id, category, kind, title, traits, currency, made].                      *)

Weight == [material |-> 45, fit |-> 45, silhouette |-> 35, style_tags |-> 45]

(* _evaluate_compatibility. *)
Compatibility(c, p) ==
    LET d      == Vocabulary[c]
        kinds  == IF d.kinds \cap p.kind # {} THEN 25 ELSE IF d.kinds \cap p.title # {} THEN 15 ELSE 0
        met(t) == d.traits[t] \cap (p.traits[t] \cup p.title
                                    \cup (IF t = "style_tags" THEN p.kind ELSE {})) # {}
        traits == MapThenSumSet(LAMBDA t : Weight[t], {t \in DOMAIN d.traits : met(t)})
        named  == IF Hits(d.patterns, p.title) THEN 20 ELSE 0
    IN  Clamp(0, 20 + kinds + traits + named, 100)

Fits(c, p) == ~ p.made /\ p.category = Vocabulary[c].category /\ Compatibility(c, p) >= 60

(* match_products: the currency that is not stated is INR. *)
Matched(c, products, limit) ==
    LET fitting  == {p \in products : Fits(c, p)}
        ahead(p) == {q \in fitting : \/ Compatibility(c, q) > Compatibility(c, p)
                                     \/ Compatibility(c, q) = Compatibility(c, p) /\ q.id < p.id}
        shown    == {p \in fitting : Cardinality(ahead(p)) < limit}
    IN  {[id |-> p.id, rank |-> Cardinality(ahead(p)) + 1, score |-> Compatibility(c, p),
          currency |-> IF p.currency = None THEN "INR" ELSE p.currency] : p \in shown}

-----------------------------------------------------------------------------
(* The ranked feed: a signal is [id, term, source, at, growth, volume], with *)
(* its growth in hundredths.                                                 *)

(* score_trend, in hundredths of what the denominators make of one. *)
Score(signals, now) ==
    LET grown  == {s \in signals : s.growth # None}
        n      == Max({1, Cardinality(grown)})
        speed  == Clamp(0, MapThenSumSet(LAMBDA s : s.growth, grown), 100 * n)
        fresh  == Clamp(0, 48 - Min({now - s.at : s \in signals}), 48)
        others == IF Cardinality({s.source : s \in signals}) >= 2 THEN 25 ELSE 0
        volume == IF \E s \in signals : s.volume # None THEN 10 ELSE 0
    IN  [speed |-> <<speed, 100 * n>>,
         score |-> <<35 * speed * 48 + 3000 * n * fresh + 4800 * n * (others + volume), 4800 * n>>]

(* Faulty: any two signals corroborate each other. *)
TrendingByCount(signals, now) ==
    {t \in {Slug(s.term) : s \in signals} :
        LET about == {s \in signals : Slug(s.term) = t}
            score == Score(about, now).score
        IN  score[1] >= 55 * score[2] /\ Cardinality(about) >= 2}

(* build_trends: what is trending. *)
Trending(signals, now) ==
    {t \in {Slug(s.term) : s \in signals} :
        LET about == {s \in signals : Slug(s.term) = t}
            score == Score(about, now).score
        IN  score[1] >= 55 * score[2] /\ Cardinality({s.source : s \in about}) >= 2}

-----------------------------------------------------------------------------
(* Search interest: a payload is [kind, key, display, geo, scope, start,     *)
(* end, status, value, scale, version]; None is what is absent.              *)

Short(text, most) == text # None /\ text \in 1 .. most

KeyOf(p) == IF p.key = None /\ p.kind = "search_term" THEN p.display ELSE p.key

StatusOf(p) == IF p.status # None THEN p.status ELSE IF p.value # None THEN "present" ELSE "missing"

(* normalize_search_interest: is the payload accepted?                      *)
IsAccepted(p) ==
    /\ p.kind \in {"search_term", "topic"}
    /\ p.display # None /\ Short(KeyOf(p), 200)
    /\ p.geo \in {"country", "region", "worldwide"} /\ p.scope # None
    /\ p.geo = "worldwide" => p.scope = "worldwide"
    /\ p.start # None /\ p.end # None /\ p.end > p.start
    /\ StatusOf(p) \in {"present", "missing", "suppressed", "invalid"}
    /\ (StatusOf(p) = "present") <=> (p.value # None)
    /\ p.value # Malformed
    /\ Short(p.scale, 120) /\ Short(p.version, 60)

Observation(p) == [p EXCEPT !.key = KeyOf(p), !.status = StatusOf(p),
                            !.value = IF StatusOf(p) = "present" THEN p.value ELSE None]

NaturalKey(o) == <<o.kind, o.key, o.scope, o.start, o.end>>

(* The constraints of search_interest_observations. *)
IsStorable(o) ==
    /\ (o.status = "present") <=> (o.value # None)
    /\ o.end > o.start
    /\ Short(o.key, 200) /\ Short(o.display, 300) /\ Short(o.scale, 120)

(* insert_observation: a row that breaks a constraint is taken for one that *)
(* is there; when there is none, the insert raises.                         *)
Insert(table, o) ==
    IF IsStorable(o) /\ \A x \in table : NaturalKey(x) # NaturalKey(o)
    THEN [rows |-> table \cup {o}, raised |-> FALSE]
    ELSE [rows |-> table, raised |-> \A x \in table : NaturalKey(x) # NaturalKey(o)]

(* Of a series: observations_in_window, whose periods lie in the window.    *)
Series(table, w) == {o \in table : w.start <= o.start /\ o.end <= w.end}

-----------------------------------------------------------------------------

(* "adjacent windows never double-count" (TrendRepositorySQL); "Distinct    *)
(* product sets avoid repeated identical observations inflating growth";    *)
(* "zero baseline is not comparable"; nothing is published without demand.  *)
(* When a source observes a product again in the same half of the window,   *)
(* the observation counts as one more, the products, sources and growth     *)
(* stay, the confidence does not fall, and the stage stays too, unless it   *)
(* was the third that a concept with a baseline lacked.                     *)
CatalogueIsCounted(history, w, next) ==
    LET whole == [start |-> w.start, end |-> next.end]
        all   == Analysis(history, w).candidates
    IN  /\ Observed(history, w) \cap Observed(history, next) = {}
        /\ Observed(history, w) \cup Observed(history, next) = Observed(history, whole)
        /\ Published(Analysis(history, w)) = {}
        /\ \A c \in DOMAIN all : LET k == all[c] IN
              /\ (k.growth = None) <=> ("zero_baseline" \in k.reasons)
              /\ (k.stage = "insufficient_evidence") <=> k.reasons \cap {"zero_baseline", "too_few"} # {}
        /\ \A o, x \in Observed(history, w) : o.category # None /\ (IsEarly(x.at, w) <=> IsEarly(o.at, w)) =>
              LET again  == Analysis(history \cup {[o EXCEPT !.id = 0, !.at = x.at]}, w).candidates[Slug(o.category)]
                  before == all[Slug(o.category)]
              IN  /\ again.count = before.count + 1
                  /\ again.growth = before.growth /\ again.products = before.products
                  /\ again.sources = before.sources
                  /\ again.confidence >= before.confidence
                  /\ again.stage # before.stage =>
                        /\ before.stage = "insufficient_evidence" /\ before.growth # None
                        /\ again.count = 3

(* "Identical videos observed repeatedly are deduplicated by video_id to    *)
(* prevent artificial inflation from repeated collection runs", "preferring *)
(* observations with statistics": when a run reads again what was read, in  *)
(* any order and with or without its counts, the videos, channels, growth   *)
(* and stage stay, and known counts neither are lost nor fall.              *)
VideosAreCountedOnce(c, records, w) ==
    \A i \in DOMAIN records, views \in {None, 0, 9} :
        LET again  == Attention(c, Append(records, [records[i] EXCEPT !.views = views]), w)
            before == Attention(c, records, w)
            kept(k) == [f \in {"videos", "channels", "growth", "stage", "confidence", "publishable"} |-> k[f]]
        IN  /\ (again = None) <=> (before = None)
            /\ before # None =>
                  /\ kept(again) = kept(before)
                  /\ before.views # None => again.views # None /\ again.views >= before.views
                  /\ before.publishable => before.growth # None /\ before.videos >= 3
                  /\ Enriched("candidate", again).candidate = "candidate"

(* Only genuine products of the category are matched, best first and no     *)
(* more than the limit, and a fixture that is added moves none of them.     *)
MatchesAreGenuine(c, products, limit) ==
    LET shown == Matched(c, products, limit)
    IN  /\ Cardinality(shown) <= limit
        /\ {m.rank : m \in shown} = 1 .. Cardinality(shown)
        /\ \A m, n \in shown : m.rank < n.rank => m.score >= n.score
        /\ \A p \in products : Matched(c, products \cup {[p EXCEPT !.id = 0, !.made = TRUE]}, limit) = shown

(* One source alone never makes a trend, however often it repeats itself.   *)
(* A signal that is repeated touches no other trend and corroborates none:  *)
(* all that it moves is the velocity of its own trend, and that towards its *)
(* own growth.  It makes a trend only of what grew slower than itself, and  *)
(* unmakes one only of what grew faster; without a growth it does neither.  *)
TrendsAreCorroborated(signals, now) ==
    LET shown == Trending(signals, now)
    IN  /\ \A t \in shown : \E s, r \in signals : Slug(s.term) = t /\ Slug(r.term) = t /\ s.source # r.source
        /\ \A s \in signals :
              LET t     == Slug(s.term)
                  again == Trending(signals \cup {[s EXCEPT !.id = 0]}, now)
                  speed == Score({r \in signals : Slug(r.term) = t}, now).speed
              IN  /\ again \ {t} = shown \ {t}
                  /\ t \in again \ shown => s.growth # None /\ s.growth * speed[2] > 100 * speed[1]
                  /\ t \in shown \ again => s.growth # None /\ s.growth * speed[2] < 100 * speed[1]

(* Missing and suppressed values are never numbers, and collecting a period *)
(* again, whatever its value now, never adds to a series.                   *)
SeriesAreNotInflated(first, second, w) ==
    LET stored == IF IsAccepted(first) THEN Insert({}, Observation(first)).rows ELSE {}
        both   == IF IsAccepted(second) THEN Insert(stored, Observation(second)).rows ELSE stored
    IN  /\ \A o \in both : (o.value = None) <=> (o.status # "present")
        /\ stored \subseteq both
        /\ (stored # {} /\ NaturalKey(Observation(first)) = NaturalKey(Observation(second))) => both = stored
        /\ \A o \in Series(both, w) : Within(o.start, w)
=============================================================================
