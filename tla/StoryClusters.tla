--------------------------- MODULE StoryClusters ---------------------------
(***************************************************************************)
(* The story clustering of domain/services/media_attention.py: the articles *)
(* of a window are read in order, and each joins the cluster most like it   *)
(* whose anchor, its first article, is at most Horizon older, or starts a   *)
(* cluster.  An article is a record of its time, its outlet, its url, both  *)
(* by their rank, and the words its headline canonicalizes to; how the      *)
(* three are parsed is left out, and one whose parse fails is not readable. *)
(***************************************************************************)
EXTENDS Naturals, Sequences, FiniteSets, SequencesExt

CONSTANTS
    Horizon,  \* CLUSTER_INCEPTION_WINDOW
    Word      \* canonical headline tokens

(* parse_media_article: a url, a title, a domain and a timestamp. *)
Readable(articles) == \A i \in DOMAIN articles : articles[i].readable

(* Of the articles of one normalized url the first is kept. *)
Distinct(articles) ==
    LET first == {i \in DOMAIN articles :
                     \A j \in 1 .. i - 1 : articles[j].url # articles[i].url}
    IN  {articles[i] : i \in first}

Before(a, b) == \/ a.at < b.at
                \/ a.at = b.at /\ a.outlet < b.outlet
                \/ a.at = b.at /\ a.outlet = b.outlet /\ a.url < b.url

(* jaccard_similarity, as a fraction. *)
Similarity(v, w) ==
    IF v \cup w = {} THEN [num |-> 1, den |-> 1]
    ELSE [num |-> Cardinality(v \cap w), den |-> Cardinality(v \cup w)]

AtLeast(s, t) == s.num * t.den >= t.num * s.den

Threshold == [num |-> 7, den |-> 10]  \* JACCARD_SIMILARITY_THRESHOLD

(* Faulty: the distance to the last article counts, so that stories chain.  *)
NearLast(a, c) == /\ a.at >= Last(c.articles).at
                  /\ a.at - Last(c.articles).at <= Horizon

(* Inception-anchored: the distance to the anchor counts. *)
Near(a, c) == a.at >= c.anchor /\ a.at - c.anchor <= Horizon

Joins(a, c) == Near(a, c) /\ AtLeast(Similarity(a.words, c.words), Threshold)

(* The most similar, then the earliest; a further tie is broken by the ids, *)
(* which have no order the model could tell.                                *)
Best(a, clusters, candidates) ==
    CHOOSE i \in candidates : \A j \in candidates :
        LET si == Similarity(a.words, clusters[i].words)
            sj == Similarity(a.words, clusters[j].words)
        IN  /\ AtLeast(si, sj)
            /\ AtLeast(sj, si) => clusters[i].anchor <= clusters[j].anchor

Place(clusters, a) ==
    LET candidates == {i \in DOMAIN clusters : Joins(a, clusters[i])}
    IN  IF candidates = {}
        THEN Append(clusters, [anchor |-> a.at, words |-> a.words, articles |-> <<a>>])
        ELSE [clusters EXCEPT ![Best(a, clusters, candidates)] =
                 [anchor |-> @.anchor, words |-> @.words \cup a.words,
                  articles |-> Append(@.articles, a)]]

(* sorted(articles, key=...): of two articles the one before the other comes *)
(* first.                                                                    *)
InOrder(articles) ==
    [n \in 1 .. Cardinality(articles) |->
        CHOOSE a \in articles : Cardinality({b \in articles : Before(b, a)}) = n - 1]

(* cluster_stories. *)
Clustered(articles) == FoldLeft(Place, <<>>, InOrder(articles))

Stories(articles) == Clustered(Distinct(articles))

Outlets(articles) == {a.outlet : a \in Distinct(articles)}

-----------------------------------------------------------------------------

(* "48-hour inception-anchored Jaccard story clustering", "chaining         *)
(* prevention": the clusters partition the articles, each spans at most the *)
(* horizon from its first article however many joined it, and the counts    *)
(* keep the hierarchy the table checks.                                     *)
WellClustered(articles) ==
    LET S == Stories(articles)
        D == Distinct(articles)
        In(i) == Range(S[i].articles)
    IN  /\ UNION {In(i) : i \in DOMAIN S} = D
        /\ \A i, j \in DOMAIN S : i # j => In(i) \cap In(j) = {}
        /\ \A i \in DOMAIN S :
              /\ S[i].anchor = Head(S[i].articles).at
              /\ \A a \in In(i) : a.at - S[i].anchor \in 0 .. Horizon
              /\ S[i].words = UNION {a.words : a \in In(i)}
        /\ Len(S) <= Cardinality(D) /\ (Len(S) = 0 <=> D = {})
        /\ Cardinality(Outlets(articles)) <= Cardinality(D)
=============================================================================
