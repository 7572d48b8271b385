--------------------------- MODULE MediaAttention ---------------------------
(***************************************************************************)
(* CollectMediaAttention of application/collection.py over                  *)
(* MediaAttentionRepositorySQL: a collector halves its window until every   *)
(* slice stays below the provider's cap, stores the articles one commit at  *)
(* a time, and publishes one observation of its natural key; a retention    *)
(* job deletes old articles meanwhile.                                      *)
(*                                                                         *)
(* An article is stored under its payload, here its id.  Time is counted in *)
(* the smallest slices, from the start of the window.  A request for a      *)
(* slice is one step that answers or fails; GdeltSource is that step.       *)
(***************************************************************************)
EXTENDS StoryClusters

CONSTANTS
    Collector,
    Pruner,
    Key,         \* natural keys of the observations
    None,
    Worlds,      \* the articles the provider has for each collector's key
    Window,      \* length of the window
    MaxDepth,    \* MediaAttentionCollectionConfig.max_depth
    MinSlice,    \* MediaAttentionCollectionConfig.min_slice_duration
    MaxRecords   \* the provider's cap

Slice == [from: Nat, to: Nat, depth: Nat]

VARIABLES
    world,    \* for each collector its key and what the provider returns for it
    at,       \* where each collector is
    todo,     \* the slices it still has to query, first things first
    covered,  \* the slices it has completely
    got,      \* their articles
    cut,      \* whether a slice was capped that cannot be halved
    stored,   \* how many of the articles it has dealt with
    linked,   \* the links relink_contributing_records has read
    run,      \* its row in collection_runs
    articles, \* raw_source_records: the processing status
    expired,  \* those older than the cutoff of the retention
    observed, \* media_attention_observations
    links,    \* media_attention_contributing_records
    prune     \* the retention: where it is, the observations it will mark

machine == <<world, at, todo, covered, got, cut, stored, linked, run>>
store   == <<articles, expired, observed, links>>
vars    == <<machine, store, prune>>

Labels == {"idle", "slicing", "storing", "marking", "publishing", "relinking",
           "finishing", "failing", "done", "dead"}
RunRow == [status: {"none", "running", "completed", "failed"},
           fetched: Nat, inserted: Nat, skipped: Nat]
Observation == [status: {"present", "suppressed"}, value: Nat \cup {None},
                raw: Nat \cup {None}, count: Nat, pruned: BOOLEAN]

TypeOK ==
    /\ world \in Worlds
    /\ at \in [Collector -> Labels]
    /\ \A c \in Collector :
          /\ todo[c] \in Seq(Slice) /\ covered[c] \subseteq Slice
          /\ Range(got[c]) \subseteq Range(world[c].articles)
          /\ cut[c] \in BOOLEAN /\ stored[c] \in 0 .. Len(got[c])
          /\ linked[c] \subseteq Nat
          /\ run[c] \in RunRow
    /\ \A a \in DOMAIN articles : articles[a] \in {"pending", "processed"}
    /\ expired \subseteq DOMAIN articles
    /\ DOMAIN observed \subseteq Key
    /\ \A k \in DOMAIN observed : observed[k] \in Observation
    /\ links \subseteq (DOMAIN observed) \X (DOMAIN articles)
    /\ \A p \in Pruner : /\ prune[p].at \in {"idle", "deleting", "done"}
                         /\ prune[p].affected \subseteq DOMAIN observed

NoRows == [x \in {} |-> None]

(* The table with a row, new or in the place of its own.                    *)
Put(table, x, row) == [y \in DOMAIN table \cup {x} |-> IF y = x THEN row ELSE table[y]]

Init ==
    /\ world \in Worlds
    /\ at = [c \in Collector |-> "idle"]
    /\ todo = [c \in Collector |-> <<>>]
    /\ covered = [c \in Collector |-> {}]
    /\ got = [c \in Collector |-> <<>>]
    /\ cut = [c \in Collector |-> FALSE]
    /\ stored = [c \in Collector |-> 0]
    /\ linked = [c \in Collector |-> {}]
    /\ run = [c \in Collector |-> [status |-> "none", fetched |-> 0, inserted |-> 0, skipped |-> 0]]
    /\ articles = NoRows /\ expired = {} /\ observed = NoRows /\ links = {}
    /\ prune = [p \in Pruner |-> [at |-> "idle", affected |-> {}]]

-----------------------------------------------------------------------------

Go(c, label) == at' = [at EXCEPT ![c] = label]

(* start_run. *)
Start(c) ==
    /\ at[c] = "idle"
    /\ Go(c, "slicing")
    /\ run' = [run EXCEPT ![c].status = "running"]
    /\ todo' = [todo EXCEPT ![c] = <<[from |-> 0, to |-> Window, depth |-> 0]>>]
    /\ UNCHANGED <<world, covered, got, cut, stored, linked, store, prune>>

(* What the provider has in a slice, in its order. *)
Within(c, s) ==
    LET held   == world[c].articles
        places == {i \in DOMAIN held : held[i].at >= s.from /\ held[i].at < s.to}
    IN  [n \in 1 .. Cardinality(places) |->
            held[CHOOSE i \in places : Cardinality({j \in places : j < i}) = n - 1]]

IsCapped(c, s) == Len(Within(c, s)) >= MaxRecords

(* max_depth and min_slice_duration. *)
Halvable(s) == s.depth < MaxDepth /\ s.to - s.from > MinSlice

Halves(s) ==
    LET mid == (s.from + s.to) \div 2
    IN  <<[from |-> s.from, to |-> mid, depth |-> s.depth + 1],
          [from |-> mid, to |-> s.to, depth |-> s.depth + 1]>>

(* Faulty: what the provider returned of a capped slice is used. *)
TakeAnyway(c, s) ==
    /\ got' = [got EXCEPT ![c] = @ \o SubSeq(Within(c, s), 1, MaxRecords)]
    /\ covered' = [covered EXCEPT ![c] = @ \cup {s}]
    /\ todo' = [todo EXCEPT ![c] = Tail(@)]
    /\ UNCHANGED cut

(* A capped slice that cannot be halved ends the collection. *)
GiveUp(c, s) ==
    /\ cut' = [cut EXCEPT ![c] = TRUE]
    /\ todo' = [todo EXCEPT ![c] = <<>>]
    /\ UNCHANGED <<got, covered>>

(* _collect_slice, of the next slice. *)
QuerySlice(c) ==
    /\ at[c] = "slicing" /\ todo[c] # <<>>
    /\ LET s == Head(todo[c])
       IN  \/ /\ ~ IsCapped(c, s)
              /\ got' = [got EXCEPT ![c] = @ \o Within(c, s)]
              /\ covered' = [covered EXCEPT ![c] = @ \cup {s}]
              /\ todo' = [todo EXCEPT ![c] = Tail(@)]
              /\ UNCHANGED cut
           \/ /\ IsCapped(c, s) /\ ~ Halvable(s)
              /\ GiveUp(c, s)
           \/ /\ IsCapped(c, s) /\ Halvable(s)
              /\ todo' = [todo EXCEPT ![c] = Halves(s) \o Tail(@)]
              /\ UNCHANGED <<got, covered, cut>>
    /\ UNCHANGED <<world, at, stored, linked, run, store, prune>>

(* Deadline, rate limit, transport, payload, or database. *)
QueryFails(c) ==
    /\ at[c] = "slicing" /\ todo[c] # <<>>
    /\ Go(c, "failing")
    /\ got' = [got EXCEPT ![c] = <<>>]
    /\ UNCHANGED <<world, todo, covered, cut, stored, linked, run, store, prune>>

(* verify_window_coverage: no gap between the start and the end.            *)
Covers(slices) ==
    /\ slices # {}
    /\ \A t \in 0 .. Window - 1 : \E s \in slices : s.from <= t /\ t < s.to

(* After the slices: suppressed, failed, or the articles are stored. *)
Judge(c) ==
    /\ at[c] = "slicing" /\ todo[c] = <<>>
    /\ Go(c, CASE cut[c] -> "publishing"
               [] ~ cut[c] /\ ~ Covers(covered[c]) -> "failing"
               [] ~ cut[c] /\ Covers(covered[c]) -> "storing")
    /\ UNCHANGED <<world, todo, covered, got, cut, stored, linked, run, store, prune>>

(* insert_raw_if_absent of the next article. *)
Store(c) ==
    /\ at[c] = "storing" /\ stored[c] < Len(got[c])
    /\ LET a == got[c][stored[c] + 1].id
       IN  \/ /\ a \in DOMAIN articles
              /\ run' = [run EXCEPT ![c].fetched = @ + 1, ![c].skipped = @ + 1]
              /\ UNCHANGED articles
           \/ /\ a \notin DOMAIN articles
              /\ run' = [run EXCEPT ![c].fetched = @ + 1, ![c].inserted = @ + 1]
              /\ articles' = Put(articles, a, "pending")
    /\ Go(c, "marking")
    /\ UNCHANGED <<world, todo, covered, got, cut, stored, linked, expired, observed, links, prune>>

(* mark_raw, which updates nothing if the article has been deleted. *)
MarkRaw(c) ==
    /\ at[c] = "marking"
    /\ articles' = [a \in DOMAIN articles |->
                       IF a = got[c][stored[c] + 1].id THEN "processed" ELSE articles[a]]
    /\ stored' = [stored EXCEPT ![c] = @ + 1]
    /\ Go(c, "storing")
    /\ UNCHANGED <<world, todo, covered, got, cut, linked, run, expired, observed, links, prune>>

(* normalize_media_attention: one unreadable article fails the window.      *)
Normalize(c) ==
    /\ at[c] = "storing" /\ stored[c] = Len(got[c])
    /\ Go(c, IF Readable(got[c]) THEN "publishing" ELSE "failing")
    /\ UNCHANGED <<world, todo, covered, got, cut, stored, linked, run, store, prune>>

-----------------------------------------------------------------------------

KeyOf(c) == world[c].key

(* The records the observation is made of. *)
Contributing(c) == IF cut[c] THEN {} ELSE {a.id : a \in Distinct(got[c])}

LinksTo(k) == {a \in DOMAIN articles : <<k, a>> \in links}

NewObservation(c) ==
    IF cut[c]
    THEN [status |-> "suppressed", value |-> None, raw |-> None, count |-> 0, pruned |-> FALSE]
    ELSE [status |-> "present", value |-> Len(Stories(got[c])),
          raw |-> Cardinality(Distinct(got[c])),
          count |-> Cardinality(Contributing(c)), pruned |-> FALSE]

(* insert_observation_with_contributing_records: the row and its links in   *)
(* one commit, or the row that has the key already.  A record that has been *)
(* deleted fails the insert, and the exception leaves the collector.        *)
Publish(c) ==
    /\ at[c] = "publishing"
    /\ \/ /\ KeyOf(c) \notin DOMAIN observed
          /\ Contributing(c) \subseteq DOMAIN articles
          /\ observed' = Put(observed, KeyOf(c), NewObservation(c))
          /\ links' = links \cup {KeyOf(c)} \X Contributing(c)
          /\ Go(c, "finishing")
          /\ UNCHANGED linked
       \/ /\ KeyOf(c) \notin DOMAIN observed
          /\ ~ Contributing(c) \subseteq DOMAIN articles
          /\ Go(c, "dead")
          /\ UNCHANGED <<observed, links, linked>>
       \/ /\ KeyOf(c) \in DOMAIN observed
          /\ Contributing(c) = {}
          /\ Go(c, "finishing")
          /\ UNCHANGED <<observed, links, linked>>
       \/ /\ KeyOf(c) \in DOMAIN observed
          /\ Contributing(c) # {}
          /\ linked' = [linked EXCEPT ![c] = LinksTo(KeyOf(c))]
          /\ Go(c, "relinking")
          /\ UNCHANGED <<observed, links>>
    /\ UNCHANGED <<world, todo, covered, got, cut, stored, run, articles, expired, prune>>

(* relink_contributing_records: the links missing from those it has read.   *)
(* One inserted since is a unique violation, a deleted record a missing key.*)
Relink(c) ==
    LET new == Contributing(c) \ linked[c]
        k == KeyOf(c)
    IN  /\ at[c] = "relinking"
        /\ \/ /\ new \subseteq DOMAIN articles /\ new \cap LinksTo(k) = {}
              /\ links' = links \cup {k} \X new
              /\ observed' = IF new = {} THEN observed
                             ELSE [observed EXCEPT ![k].count = Cardinality(linked[c] \cup new),
                                                   ![k].pruned = FALSE]
              /\ Go(c, "finishing")
           \/ /\ ~ new \subseteq DOMAIN articles \/ new \cap LinksTo(k) # {}
              /\ Go(c, "dead")
              /\ UNCHANGED <<links, observed>>
        /\ UNCHANGED <<world, todo, covered, got, cut, stored, linked, run, articles, expired, prune>>

(* finish_run: a collection whose queries failed counts nothing. *)
Finish(c) ==
    /\ at[c] \in {"finishing", "failing"}
    /\ run' = [run EXCEPT ![c].status = IF at[c] = "finishing" THEN "completed" ELSE "failed"]
    /\ Go(c, "done")
    /\ UNCHANGED <<world, todo, covered, got, cut, stored, linked, store, prune>>

(* The process ends, or the database raises: only the slices are guarded.   *)
Die(c) ==
    /\ at[c] \notin {"idle", "done", "dead"}
    /\ Go(c, "dead")
    /\ UNCHANGED <<world, todo, covered, got, cut, stored, linked, run, store, prune>>

-----------------------------------------------------------------------------
(* prune_expired_raw_records: three statements of one transaction, each of  *)
(* which sees what others have committed.                                   *)

(* The cutoff is fixed when the transaction begins. *)
Expire(a) ==
    /\ a \in DOMAIN articles \ expired
    /\ \A p \in Pruner : prune[p].at = "idle"
    /\ expired' = expired \cup {a}
    /\ UNCHANGED <<machine, articles, observed, links, prune>>

(* The observations linked to what is about to be deleted. *)
FindAffected(p) ==
    /\ prune[p].at = "idle"
    /\ prune' = [prune EXCEPT ![p] = [at |-> "deleting",
           affected |-> {k \in DOMAIN observed : LinksTo(k) \cap expired # {}}]]
    /\ UNCHANGED <<machine, store>>

(* The deletion takes the links with it; the affected observations are      *)
(* marked and their links counted again.                                    *)
DeleteExpired(p) ==
    LET left == {l \in links : l[2] \notin expired}
    IN  /\ prune[p].at = "deleting"
        /\ articles' = [a \in DOMAIN articles \ expired |-> articles[a]]
        /\ expired' = {}
        /\ links' = left
        /\ observed' = [k \in DOMAIN observed |->
              IF expired # {} /\ k \in prune[p].affected
              THEN [observed[k] EXCEPT !.pruned = TRUE,
                       !.count = Cardinality({l \in left : l[1] = k})]
              ELSE observed[k]]
        /\ prune' = [prune EXCEPT ![p] = [at |-> "done", affected |-> {}]]
        /\ UNCHANGED machine

Collect(c) == \/ Start(c) \/ QuerySlice(c) \/ QueryFails(c) \/ Judge(c)
              \/ Store(c) \/ MarkRaw(c) \/ Normalize(c)
              \/ Publish(c) \/ Relink(c) \/ Finish(c) \/ Die(c)

Next == \/ \E c \in Collector : Collect(c)
        \/ \E p \in Pruner : FindAffected(p) \/ DeleteExpired(p)
        \/ \E a \in DOMAIN articles : Expire(a)

Spec == Init /\ [][Next]_vars

-----------------------------------------------------------------------------
(* Properties. *)

(* The articles of the window the provider has for a collector. *)
Everything(c) == Within(c, [from |-> 0, to |-> Window])

Urls(c) == {a.url : a \in Range(Everything(c))}

(* One copy of each url of the window, whichever the slices brought first.  *)
Selections(c) == {D \in SUBSET Range(Everything(c)) :
                     {a.url : a \in D} = Urls(c) /\ \A a, b \in D : a.url = b.url => a = b}

(* The provider is asked for no order: it may list an older copy later.     *)
EarliestFirst(c) ==
    LET held == world[c].articles
    IN  \A i, j \in DOMAIN held : held[i].url = held[j].url /\ i < j => held[i].at <= held[j].at

(* "Publishes present/complete ONLY after every required slice succeeds and *)
(* the entire requested window is covered" (CollectMediaAttention): an      *)
(* observation counts every url of one collector's whole window once, and   *)
(* the stories of one copy of each; where copies are listed in the order of *)
(* their time, of the copies an undivided window would have kept, however   *)
(* it was halved.  A completed run has accounted for every article.         *)
PresentIsWhole ==
    /\ \A k \in DOMAIN observed : observed[k].status = "present" =>
          \E c \in Collector :
              /\ KeyOf(c) = k
              /\ observed[k].raw = Cardinality(Urls(c))
              /\ \E D \in Selections(c) :
                    /\ observed[k].value = Len(Clustered(D))
                    /\ EarliestFirst(c) => D = Distinct(Everything(c))
    /\ \A c \in Collector : run[c].status = "completed" /\ ~ cut[c] =>
          /\ run[c].fetched = Len(Everything(c))
          /\ run[c].fetched = run[c].inserted + run[c].skipped

(* What the clustering makes of the articles of any collection under way.   *)
StoriesAreAnchored == \A c \in Collector : WellClustered(got[c])
=============================================================================
