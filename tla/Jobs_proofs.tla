---------------------------- MODULE Jobs_proofs ----------------------------
(* Proofs about the jobs: what the collectors and the retention of Collection *)
(* keep, for any plans, pages, items and prices; what MediaAttention          *)
(* publishes is whole, for any number of collectors, keys and retention runs, *)
(* any window, cap and depth; and the stories of what it collects are         *)
(* anchored.                                                                  *)
EXTENDS Jobs, FiniteSetTheorems, SequenceTheorems, TLAPS

(* The clustering folds the articles of a window into its clusters.           *)
Clusters == INSTANCE Folding WITH Step <- Media!Place, Base <- <<>>

(* Where a collector holds a record of its batch. *)
Busy == {"reread", "reject", "observe"} \cup Upserts

(* Where a collector is in its batch. *)
Position(r) ==
    /\ pc[r] = "record" => count[r].fetched < page[r].end
    /\ pc[r] \in Busy => count[r].fetched > 0 /\ count[r].fetched <= page[r].end
    /\ pc[r] \in Busy \cup {"record"} => page[r].end <= Len(plan[r].feed)

ListingIn(o) == <<o.raw[1], o.raw[2].id>>

(* What an upsert has decided stands until it writes, whatever others have   *)
(* written meanwhile.                                                        *)
Decided(r) ==
    /\ pc[r] = "lookup" => seen[r].map = None
    /\ pc[r] \in {"resolve", "write"} /\ seen[r].map # None =>
        /\ ListingOf(r) \in DOMAIN maps
        /\ maps[ListingOf(r)] = seen[r].map
    /\ pc[r] = "write" =>
        /\ seen[r].map # None /\ IsPrimary(r) =>
              created[ListingOf(r)] <= created[seen[r].map]
        /\ seen[r].map = None /\ seen[r].same # None =>
              /\ seen[r].same \in DOMAIN products /\ Current(r).gtin # None
              /\ \E q \in obs : /\ q.product = seen[r].same
                                /\ q.raw[2].gtin = Current(r).gtin
        /\ seen[r].offer # None => ListingOf(r) \in DOMAIN offers

(* A product has the mapping it was created with.                            *)
Founded == \A p \in DOMAIN products : p \in DOMAIN maps /\ maps[p] = p

(* What has been observed is mapped, and the GTIN of a product was observed. *)
ObservedIsMapped == \A o \in obs : ListingIn(o) \in DOMAIN maps

GtinIsObserved ==
    \A p \in DOMAIN products : products[p].gtin # None =>
        \E o \in obs : o.product = p /\ o.raw[2].gtin = products[p].gtin

(* What the counters of a collector add up to: the record it holds is the    *)
(* only one they do not account for, and the product an upsert has committed *)
(* is counted when the record is marked.                                     *)
Dealt(c) == c.inserted + c.updated + c.skipped + c.failed

Balanced(r) ==
    /\ count[r].verified + count[r].possible <= count[r].inserted + count[r].updated
    /\ pc[r] \in {"idle", "fetch", "record", "completing", "failing"} =>
          /\ count[r].fetched = Dealt(count[r])
          /\ plan[r].kind = "product" => made[r] = count[r].inserted
    /\ pc[r] \in Busy => count[r].fetched = Dealt(count[r]) + 1
    /\ pc[r] \in Busy \ {"mark"} /\ plan[r].kind = "product" => made[r] = count[r].inserted
    /\ pc[r] = "observe" => /\ plan[r].kind # "product"
                            /\ seen[r].outcome = "inserted" /\ seen[r].match = "none"
    /\ pc[r] = "write" => seen[r].outcome = IF IsNew(r) THEN "inserted" ELSE "updated"
    /\ pc[r] = "mark" =>
          /\ seen[r].outcome \in {"inserted", "updated", "skipped"}
          /\ seen[r].match # "none" => seen[r].outcome \in {"inserted", "updated"}
          /\ plan[r].kind = "product" =>
                made[r] = count[r].inserted + (IF seen[r].outcome = "inserted" THEN 1 ELSE 0)
    /\ pc[r] \in {"rollback", "done", "dead"} =>
          /\ count[r].fetched \in {Dealt(count[r]), Dealt(count[r]) + 1}
          /\ plan[r].kind = "product" =>
                /\ count[r].inserted <= made[r]
                /\ made[r] <= count[r].inserted + (count[r].fetched - Dealt(count[r]))

RowIsCount(r) ==
    row[r].status \in {"completed", "failed"} =>
        /\ pc[r] = "done" /\ row[r].count = count[r]
        /\ row[r].status = "completed" =>
              /\ count[r].fetched = Dealt(count[r])
              /\ plan[r].kind = "product" => made[r] = count[r].inserted

IInv ==
    /\ TypeOK
    /\ IsFiniteSet(DOMAIN raws)
    /\ \A r \in Run : Position(r) /\ Decided(r) /\ Balanced(r) /\ RowIsCount(r)
    /\ Founded
    /\ ObservedIsMapped
    /\ GtinIsObserved
    /\ MergedOnlyByGtin
    /\ CatalogueIsSourced
    /\ RetentionIsComplete

-----------------------------------------------------------------------------

(* What a record adds to the counters. *)
LEMMA CountedIs ==
    ASSUME NEW c \in Counters, NEW names
    PROVE  /\ Counted(c, names) \in Counters
           /\ Counted(c, names).fetched  = c.fetched + (IF "fetched" \in names THEN 1 ELSE 0)
           /\ Counted(c, names).inserted = c.inserted + (IF "inserted" \in names THEN 1 ELSE 0)
           /\ Counted(c, names).updated  = c.updated + (IF "updated" \in names THEN 1 ELSE 0)
           /\ Counted(c, names).skipped  = c.skipped + (IF "skipped" \in names THEN 1 ELSE 0)
           /\ Counted(c, names).failed   = c.failed + (IF "failed" \in names THEN 1 ELSE 0)
           /\ Counted(c, names).verified = c.verified + (IF "verified" \in names THEN 1 ELSE 0)
           /\ Counted(c, names).possible = c.possible + (IF "possible" \in names THEN 1 ELSE 0)
  BY DEF Counted, Counters

(* Every counter stays one. *)
LEMMA TallyType ==
    ASSUME count \in [Run -> Counters], NEW r \in Run, NEW names, Tally(r, names)
    PROVE  /\ count' \in [Run -> Counters]
           /\ count'[r] = Counted(count[r], names)
           /\ count'[r].fetched = count[r].fetched + (IF "fetched" \in names THEN 1 ELSE 0)
           /\ \A q \in Run \ {r} : count'[q] = count[q]
  <1>1. count[r] \in Counters
    OBVIOUS
  <1>2. count' = [count EXCEPT ![r] = Counted(count[r], names)]
    BY DEF Tally
  <1> QED
    BY <1>1, <1>2, CountedIs

LEMMA NotedType ==
    ASSUME NEW outcome \in {"none", "inserted", "updated", "skipped"}
    PROVE  Noted(outcome) \in Reading
  BY DEF Noted, Reading

LEMMA BoundsType ==
    /\ PageSize \in Nat \ {0} /\ MaxRecords \in Nat \ {0} /\ MaxPages \in Nat \ {0}
    /\ PruneSize \in Nat \ {0} /\ MaxBatches \in Nat \ {0}
  BY CollectionAssumption

(* What a step of a collector leaves alone. *)
LEMMA StepFrame ==
    ASSUME TypeOK, NEW r \in Run, Collect(r)
    PROVE  /\ plan' = plan
           /\ \A q \in Run \ {r} : /\ pc'[q] = pc[q] /\ count'[q] = count[q]
                                   /\ page'[q] = page[q] /\ seen'[q] = seen[q]
           /\ job' = job
  <1>1. CASE Start(r)
    BY <1>1 DEF Start, Goto, collector, TypeOK
  <1>2. CASE Fetch(r)
    BY <1>2 DEF Fetch, Goto, collector, TypeOK
  <1>3. CASE Record(r)
    BY <1>3 DEF Record, Goto, Tally, Proceed, collector, TypeOK
  <1>4. CASE Reread(r)
    BY <1>4 DEF Reread, Tally, Proceed, Goto, collector, TypeOK
  <1>5. CASE Reject(r)
    BY <1>5 DEF Reject, Tally, Proceed, Goto, collector, TypeOK
  <1>6. CASE Resolve(r)
    BY <1>6 DEF Resolve, Goto, collector, TypeOK
  <1>7. CASE Write(r)
    BY <1>7 DEF Write, Goto, collector, TypeOK
  <1>13. CASE Lookup(r)
    BY <1>13 DEF Lookup, Goto, collector, TypeOK
  <1>8. CASE Observe(r)
    BY <1>8 DEF Observe, Goto, collector, TypeOK
  <1>9. CASE Mark(r)
    BY <1>9 DEF Mark, Tally, Proceed, Goto, collector, TypeOK
  <1>10. CASE DbFails(r)
    BY <1>10 DEF DbFails, Goto, collector, TypeOK
  <1>11. CASE Finish(r)
    BY <1>11 DEF Finish, Goto, collector, TypeOK
  <1>12. CASE Die(r)
    BY <1>12 DEF Die, Goto, collector, TypeOK
  <1> QED
    BY <1>1, <1>2, <1>3, <1>4, <1>5, <1>6, <1>7, <1>8, <1>9, <1>10, <1>11, <1>12, <1>13 DEF Collect

-----------------------------------------------------------------------------
(* Types, in parts. *)

CollectorOK ==
    /\ plan \in Plans
    /\ pc \in [Run -> Labels]
    /\ page \in [Run -> [end: Nat, pages: Nat]]
    /\ count \in [Run -> Counters]
    /\ seen \in [Run -> Reading]
    /\ row \in [Run -> [status: {"none", "running", "completed", "failed"}, count: Counters]]
    /\ made \in [Run -> Nat]

CatalogueOK ==
    /\ DOMAIN products \subseteq Listing /\ \A p \in DOMAIN products : products[p] \in Product
    /\ DOMAIN maps \subseteq Listing /\ \A l \in DOMAIN maps : maps[l] \in DOMAIN products
    /\ DOMAIN created = DOMAIN maps /\ \A l \in DOMAIN created : created[l] \in Nat
    /\ obs \subseteq [raw: Key, product: Listing, run: Run]
    /\ DOMAIN offers \subseteq DOMAIN maps /\ \A l \in DOMAIN offers : offers[l] \in Offer
    /\ DOMAIN history = DOMAIN offers
    /\ \A l \in DOMAIN history : history[l] \in Seq([price: Price \cup {0}, stock: BOOLEAN])

StoreOK ==
    /\ DOMAIN raws \subseteq Key /\ IsFiniteSet(DOMAIN raws)
    /\ \A k \in DOMAIN raws : raws[k] \in {"pending", "processed", "failed"}
    /\ old \subseteq DOMAIN raws
    /\ DOMAIN series \subseteq Listing
    /\ job \in [Job -> Pruning]
    /\ \A j \in Job : job[j].due \subseteq DOMAIN raws

LEMMA TypeParts ==
    TypeOK /\ IsFiniteSet(DOMAIN raws) <=> CollectorOK /\ CatalogueOK /\ StoreOK
  BY DEF TypeOK, CollectorOK, CatalogueOK, StoreOK

(* What a read of the catalogue finds has its type. *)
LEMMA UnreadType == Unread \in Reading /\ Fresh \in Counters
  BY NotedType DEF Unread, Fresh, Counters

(* The types of one collector. *)
LEMMA RowTypes ==
    ASSUME CollectorOK, NEW r \in Run
    PROVE  /\ plan[r] \in Plan /\ Len(plan[r].feed) \in Nat
           /\ page[r] \in [end: Nat, pages: Nat] /\ count[r] \in Counters
           /\ count[r].fetched \in Nat /\ page[r].end \in Nat /\ page[r].pages \in Nat
           /\ seen[r] \in Reading
  <1>1. plan[r] \in Plan
    BY CollectionAssumption DEF CollectorOK
  <1>2. Len(plan[r].feed) \in Nat
    BY <1>1 DEF Plan
  <1>3. page[r] \in [end: Nat, pages: Nat] /\ count[r] \in Counters /\ seen[r] \in Reading
    BY DEF CollectorOK
  <1> QED
    BY <1>1, <1>2, <1>3 DEF Counters

(* The record a collector holds is one of its feed. *)
LEMMA HeldType ==
    ASSUME CollectorOK, NEW r \in Run, Position(r), pc[r] \in Busy
    PROVE  /\ Current(r) \in Payload /\ KeyOf(r) \in Key /\ ListingOf(r) \in Listing
           /\ KeyOf(r)[1] = plan[r].source /\ KeyOf(r)[2] = Current(r)
           /\ ListingOf(r) = <<KeyOf(r)[1], KeyOf(r)[2].id>>
  <1>1. /\ plan[r] \in Plan /\ Len(plan[r].feed) \in Nat
        /\ count[r].fetched \in Nat /\ page[r].end \in Nat
    BY RowTypes
  <1>2. plan[r].source \in Source /\ plan[r].feed \in Seq(Payload)
    BY <1>1 DEF Plan
  <1>3. count[r].fetched \in 1 .. Len(plan[r].feed)
    BY <1>1 DEF Position
  <1>4. Current(r) \in Payload
    BY <1>2, <1>3 DEF Current
  <1> QED
    BY <1>2, <1>4 DEF KeyOf, ListingOf, Key, Listing, Payload

(* The next record, or the next batch, is within the feed. *)
LEMMA ProceedType ==
    ASSUME CollectorOK, NEW r \in Run, NEW n \in Nat, page[r].end <= Len(plan[r].feed),
           plan' = plan, page' = page, count'[r].fetched = n, Proceed(r, n)
    PROVE  pc' \in [Run -> Labels] /\ Position(r)'
  <1>1. pc'[r] \in {"record", "completing", "fetch"} /\ pc' \in [Run -> Labels]
    BY DEF Proceed, Goto, CollectorOK, Labels
  <1>2. pc'[r] = "record" => n < page[r].end
    BY DEF Proceed, Goto, CollectorOK
  <1> QED
    BY <1>1, <1>2 DEF Position, Busy, Upserts

(* What Lookup reads. *)
LEMMA LookupType ==
    ASSUME CollectorOK, CatalogueOK, NEW r \in Run, Lookup(r)
    PROVE  seen' \in [Run -> Reading]
  <1>1. seen \in [Run -> Reading]
    BY DEF CollectorOK
  <1>2. CASE ListingOf(r) \in DOMAIN maps /\ seen' = [seen EXCEPT ![r].map = maps[ListingOf(r)]]
    <2>1. maps[ListingOf(r)] \in Listing
      BY <1>2 DEF CatalogueOK
    <2> QED
      BY <1>1, <1>2, <2>1 DEF Reading
  <1>3. ASSUME NEW now \in Now, seen' = [seen EXCEPT ![r].begun = now]
        PROVE  seen' \in [Run -> Reading]
    <2>1. now \in Nat
      BY <1>1 DEF Now, Begun, CatalogueOK, Reading
    <2> QED
      BY <1>1, <1>3, <2>1 DEF Reading
  <1> QED
    BY <1>2, <1>3 DEF Lookup

(* What Resolve reads. *)
LEMMA ResolveType ==
    ASSUME CollectorOK, CatalogueOK, NEW r \in Run, Position(r), Decided(r), Resolve(r)
    PROVE  seen'[r] \in Reading /\ \A q \in Run \ {r} : seen'[q] = seen[q]
  <1> DEFINE l == ListingOf(r)
             c == Current(r)
             known == seen[r].map
             found == IF known = None THEN Verified(c.gtin) ELSE {}
  <1>1. known \in Listing \cup {None} /\ (known # None => known \in DOMAIN products)
    BY DEF CatalogueOK, Decided, CollectorOK, Reading, Resolve
  <1>2. found \subseteq DOMAIN products
    BY DEF Verified, SameGtin
  <1>3. PICK same \in IF found = {} THEN {None} ELSE found,
             first \in IF known = None THEN {None} ELSE Oldest(known) :
          LET p == IF known # None THEN known ELSE same
          IN  seen' = [seen EXCEPT ![r] =
                [begun   |-> seen[r].begun,
                 map     |-> known,
                 first   |-> first,
                 same    |-> same,
                 like    |-> p = None /\ Resembles(c.look),
                 offer   |-> IF l \in DOMAIN offers THEN offers[l] ELSE None,
                 product |-> IF p = None THEN None ELSE products[p],
                 others  |-> \E m \in DOMAIN offers \ {l} :
                                offers[m].product = p /\ offers[m].stock,
                 outcome |-> IF p = None THEN "inserted" ELSE "updated",
                 match   |-> CASE same # None -> "verified"
                               [] p = None /\ Resembles(c.look) -> "possible"
                               [] OTHER -> "none"]]
    BY DEF Resolve
  <1> DEFINE p == IF known # None THEN known ELSE same
  <1>7. first \in Listing \cup {None} /\ seen[r].begun \in Nat
    BY <1>3 DEF Oldest, Listings, CatalogueOK, CollectorOK, Reading
  <1>4. /\ same \in DOMAIN products \cup {None} /\ same \in Listing \cup {None}
        /\ p \in DOMAIN products \cup {None}
    BY <1>1, <1>2, <1>3 DEF CatalogueOK
  <1>5. /\ (IF p = None THEN None ELSE products[p]) \in Product \cup {None}
        /\ (IF l \in DOMAIN offers THEN offers[l] ELSE None) \in Offer \cup {None}
    BY <1>4 DEF CatalogueOK
  <1>6. /\ (CASE same # None -> "verified"
             [] p = None /\ Resembles(c.look) -> "possible"
             [] OTHER -> "none") \in {"none", "verified", "possible"}
        /\ (IF p = None THEN "inserted" ELSE "updated")
              \in {"none", "inserted", "updated", "skipped"}
        /\ (p = None /\ Resembles(c.look)) \in BOOLEAN
        /\ (\E m \in DOMAIN offers \ {l} : offers[m].product = p /\ offers[m].stock) \in BOOLEAN
    OBVIOUS
  <1> HIDE DEF known, found
  <1> QED
    BY <1>1, <1>3, <1>4, <1>5, <1>6, <1>7 DEF CollectorOK, Reading

LEMMA StepCollector ==
    ASSUME CollectorOK, CatalogueOK, NEW r \in Run, Position(r), Decided(r), Collect(r)
    PROVE  CollectorOK' /\ Position(r)'
  <1>0. /\ plan[r] \in Plan /\ Len(plan[r].feed) \in Nat
        /\ page[r] \in [end: Nat, pages: Nat] /\ count[r] \in Counters
        /\ count[r].fetched \in Nat /\ page[r].end \in Nat /\ page[r].pages \in Nat
        /\ seen[r] \in Reading
    BY RowTypes
  <1>1. CASE Start(r)
    BY <1>0, UnreadType, <1>1
    DEF Start, Goto, CollectorOK, Labels, Ended, Upserts, Busy, Position
  <1>2. CASE Fetch(r)
    <2>1. ASSUME NEW n \in 1 .. PageSize + 1, WithinBounds(r), Goto(r, "record"),
                 count[r].fetched + n <= Len(plan[r].feed),
                 page' = [page EXCEPT ![r] =
                    [end   |-> IF count[r].fetched + n <= MaxRecords
                               THEN count[r].fetched + n ELSE MaxRecords,
                     pages |-> page[r].pages + 1]],
                 UNCHANGED <<plan, count, seen, row, made>>
          PROVE  CollectorOK' /\ Position(r)'
      <3> DEFINE end == IF count[r].fetched + n <= MaxRecords
                        THEN count[r].fetched + n ELSE MaxRecords
      <3>1. /\ end \in Nat /\ count[r].fetched < end /\ end <= Len(plan[r].feed)
            /\ page[r].pages + 1 \in Nat
        <4>1. n \in Nat /\ n > 0
          BY BoundsType
        <4>2. count[r].fetched < MaxRecords /\ count[r].fetched + n <= Len(plan[r].feed)
          BY <2>1 DEF WithinBounds
        <4> QED
          BY <1>0, <4>1, <4>2, BoundsType, SMTT(30)
      <3>2. page' \in [Run -> [end: Nat, pages: Nat]] /\ page'[r].end = end
        BY <2>1, <3>1 DEF CollectorOK
      <3>3. pc' \in [Run -> Labels] /\ pc'[r] = "record"
        BY <2>1 DEF Goto, CollectorOK, Labels
      <3> QED
        BY <2>1, <3>1, <3>2, <3>3 DEF CollectorOK, Position, Busy, Upserts
    <2>2. CASE Goto(r, "completing") /\ UNCHANGED page
      BY <1>2, <2>2 DEF Fetch, Goto, CollectorOK, Labels, Position, Busy, Upserts
    <2>3. CASE Goto(r, "failing") /\ UNCHANGED page
      BY <1>2, <2>3 DEF Fetch, Goto, CollectorOK, Labels, Position, Busy, Upserts
    <2> QED
      BY <1>2, <2>1, <2>2, <2>3 DEF Fetch
  <1>3. CASE Record(r)
    <2> DEFINE n == count[r].fetched + 1
               c == plan[r].feed[n]
    <2>1. n \in Nat /\ n <= page[r].end /\ page[r].end <= Len(plan[r].feed)
      BY <1>0, <1>3, SMTT(30) DEF Record, Position
    <2>2. /\ UNCHANGED <<plan, page, row, made>> /\ pc[r] = "record"
          /\ count' \in [Run -> Counters] /\ count'[r].fetched = n
      <3>1. UNCHANGED <<plan, page, row, made>> /\ pc[r] = "record"
        BY <1>3 DEF Record
      <3>2. CASE Tally(r, {"fetched", "failed"})
        BY <3>1, <3>2, TallyType DEF CollectorOK
      <3>3. CASE Tally(r, {"fetched"})
        BY <3>1, <3>3, TallyType DEF CollectorOK
      <3> QED
        BY <1>3, <3>2, <3>3 DEF Record
    <2>3. seen' \in [Run -> Reading]
      BY <1>3, NotedType DEF Record, CollectorOK
    <2>4. CASE Proceed(r, n)
      BY <2>1, <2>2, <2>3, <2>4, ProceedType DEF CollectorOK
    <2>5. CASE pc' = [pc EXCEPT ![r] = "reread"]
      BY <1>0, <2>1, <2>2, <2>3, <2>5 DEF CollectorOK, Labels, Upserts, Busy, Position
    <2>6. CASE \E label \in {"mark", "reject", "lookup", "observe"} : Goto(r, label)
      BY <1>0, <2>1, <2>2, <2>3, <2>6
      DEF Goto, CollectorOK, Labels, Upserts, Busy, Position
    <2>7. Proceed(r, n) \/ Goto(r, "reread") \/
             \E label \in {"mark", "reject", "lookup", "observe"} : Goto(r, label)
      <3>1. plan[r].kind \in Kind /\ c.valid \in BOOLEAN
        <4>1. plan[r].kind \in Kind /\ plan[r].feed \in Seq(Payload)
          BY <1>0 DEF Plan
        <4>2. n \in 1 .. Len(plan[r].feed)
          BY <1>0, <2>1
        <4>3. c \in Payload
          BY <4>1, <4>2
        <4> QED
          BY <4>1, <4>3 DEF Payload
      <3> QED
        BY <1>3, <3>1 DEF Record, Kind
    <2> QED
      BY <2>4, <2>5, <2>6, <2>7 DEF Goto
  <1>4. CASE Reread(r)
    <2>1. /\ UNCHANGED <<plan, page, row, made>> /\ pc[r] \in Busy
          /\ count' \in [Run -> Counters] /\ count'[r].fetched = count[r].fetched
      <3>1. UNCHANGED <<plan, page, row, made>> /\ pc[r] \in Busy
        BY <1>4 DEF Reread, Busy, Upserts
      <3>2. Tally(r, {"skipped"})
        BY <1>4 DEF Reread
      <3>3. "fetched" \notin {"skipped"}
        BY <1>0 DEF Reading
      <3>4. count \in [Run -> Counters]
        BY DEF CollectorOK
      <3> QED
        BY <1>0, <3>1, <3>2, <3>3, <3>4, TallyType
    <2>2. seen' \in [Run -> Reading]
      BY <1>4, UnreadType DEF Reread, CollectorOK
    <2>3. Proceed(r, count[r].fetched)
      BY <1>4 DEF Reread
    <2> QED
      BY <1>0, <2>1, <2>2, <2>3, ProceedType DEF CollectorOK, Position
  <1>5. CASE Reject(r)
    <2>1. /\ UNCHANGED <<plan, page, row, made>> /\ pc[r] \in Busy
          /\ count' \in [Run -> Counters] /\ count'[r].fetched = count[r].fetched
      <3>1. UNCHANGED <<plan, page, row, made>> /\ pc[r] \in Busy
        BY <1>5 DEF Reject, Busy, Upserts
      <3>2. Tally(r, {"failed"})
        BY <1>5 DEF Reject
      <3>3. "fetched" \notin {"failed"}
        BY <1>0 DEF Reading
      <3>4. count \in [Run -> Counters]
        BY DEF CollectorOK
      <3> QED
        BY <1>0, <3>1, <3>2, <3>3, <3>4, TallyType
    <2>2. seen' \in [Run -> Reading]
      BY <1>5, UnreadType DEF Reject, CollectorOK
    <2>3. Proceed(r, count[r].fetched)
      BY <1>5 DEF Reject
    <2> QED
      BY <1>0, <2>1, <2>2, <2>3, ProceedType DEF CollectorOK, Position
  <1>6. CASE Resolve(r)
    <2>1. seen' \in [Run -> Reading]
      BY <1>6, ResolveType DEF Resolve, CollectorOK
    <2> QED
      BY <1>0, <1>6, <2>1 DEF Resolve, Goto, CollectorOK, Labels, Busy, Upserts, Position
  <1>13. CASE Lookup(r)
    <2>1. seen' \in [Run -> Reading]
      BY <1>13, LookupType
    <2> QED
      BY <1>0, <1>13, <2>1 DEF Lookup, Goto, CollectorOK, Labels, Busy, Upserts, Position
  <1>7. CASE Write(r)
    <2>1. made[r] \in Nat
      BY DEF CollectorOK
    <2> QED
      BY <1>0, <1>7, <2>1 DEF Write, Goto, CollectorOK, Labels, Busy, Upserts, Position
  <1>8. CASE Observe(r)
    <2>1. seen' \in [Run -> Reading]
      BY <1>8, NotedType DEF Observe, CollectorOK
    <2> QED
      BY <1>0, <1>8, <2>1 DEF Observe, Goto, CollectorOK, Labels, Busy, Upserts, Position
  <1>9. CASE Mark(r)
    <2>1. /\ UNCHANGED <<plan, page, row, made>> /\ pc[r] \in Busy
          /\ count' \in [Run -> Counters] /\ count'[r].fetched = count[r].fetched
      <3>1. UNCHANGED <<plan, page, row, made>> /\ pc[r] \in Busy
        BY <1>9 DEF Mark, Busy, Upserts
      <3>2. Tally(r, {seen[r].outcome, seen[r].match})
        BY <1>9 DEF Mark
      <3>3. "fetched" \notin {seen[r].outcome, seen[r].match}
        BY <1>0 DEF Reading
      <3>4. count \in [Run -> Counters]
        BY DEF CollectorOK
      <3> QED
        BY <1>0, <3>1, <3>2, <3>3, <3>4, TallyType
    <2>2. seen' \in [Run -> Reading]
      BY <1>9, UnreadType DEF Mark, CollectorOK
    <2>3. Proceed(r, count[r].fetched)
      BY <1>9 DEF Mark
    <2> QED
      BY <1>0, <2>1, <2>2, <2>3, ProceedType DEF CollectorOK, Position
  <1>10. CASE DbFails(r)
    BY <1>0, UnreadType, <1>10
    DEF DbFails, Goto, CollectorOK, Labels, Ended, Upserts, Busy, Position
  <1>11. CASE Finish(r)
    BY <1>0, UnreadType, <1>11
    DEF Finish, Goto, CollectorOK, Labels, Ended, Upserts, Busy, Position
  <1>12. CASE Die(r)
    BY <1>0, UnreadType, <1>12
    DEF Die, Goto, CollectorOK, Labels, Ended, Upserts, Busy, Position
  <1> QED
    BY <1>1, <1>2, <1>3, <1>4, <1>5, <1>6, <1>7, <1>8, <1>9, <1>10, <1>11, <1>12, <1>13 DEF Collect

(* The raw records, the series and the retention runs. *)
LEMMA StepStore ==
    ASSUME CollectorOK, StoreOK, NEW r \in Run, Position(r), Collect(r)
    PROVE  StoreOK'
  <1>1. CASE Record(r)
    <2>1. CASE raws' = raws
      BY <1>1, <2>1 DEF Record, StoreOK
    <2>2. CASE raws' # raws
      <3> DEFINE k == <<plan[r].source, plan[r].feed[count[r].fetched + 1]>>
      <3>1. raws' = Put(raws, k, "pending")
        BY <1>1, <2>2 DEF Record
      <3>2. k \in Key
        <4>1. /\ plan[r] \in Plan /\ Len(plan[r].feed) \in Nat
              /\ count[r].fetched \in Nat /\ page[r].end \in Nat
          BY RowTypes
        <4>2. count[r].fetched + 1 \in 1 .. Len(plan[r].feed)
          BY <1>1, <4>1, SMTT(30) DEF Record, Position
        <4> QED
          BY <4>1, <4>2 DEF Plan, Key
      <3>3. DOMAIN raws' = DOMAIN raws \cup {k}
        BY <3>1 DEF Put
      <3>4. IsFiniteSet(DOMAIN raws')
        <4>1. IsFiniteSet(DOMAIN raws)
          BY DEF StoreOK
        <4> HIDE DEF k
        <4> QED
          BY <3>3, <4>1, FS_AddElement
      <3>5. \A x \in DOMAIN raws' : raws'[x] \in {"pending", "processed", "failed"}
        BY <3>1 DEF Put, StoreOK
      <3>6. UNCHANGED <<old, series, job>>
        BY <1>1 DEF Record
      <3> HIDE DEF k
      <3> QED
        BY <3>2, <3>3, <3>4, <3>5, <3>6 DEF StoreOK
    <2> QED
      BY <2>1, <2>2
  <1>2. CASE Reject(r) \/ Mark(r)
    <2>1. /\ DOMAIN raws' = DOMAIN raws /\ UNCHANGED <<old, series, job>>
          /\ \A x \in DOMAIN raws : raws'[x] \in {"pending", "processed", "failed"}
      BY <1>2 DEF Reject, Mark, StoreOK
    <2> QED
      BY <2>1 DEF StoreOK
  <1>3. CASE Observe(r)
    <2>1. ListingOf(r) \in Listing
      BY <1>3, HeldType DEF Observe, Busy
    <2>2. DOMAIN series' \subseteq Listing
      BY <1>3, <2>1 DEF Observe, Put, StoreOK
    <2> QED
      BY <1>3, <2>2 DEF Observe, StoreOK
  <1>4. CASE \/ Start(r) \/ Fetch(r) \/ Reread(r) \/ Lookup(r) \/ Resolve(r) \/ Write(r)
             \/ DbFails(r) \/ Finish(r) \/ Die(r)
    BY <1>4 DEF Start, Fetch, Reread, Lookup, Resolve, Write, DbFails, Finish, Die, StoreOK
  <1> QED
    BY <1>1, <1>2, <1>3, <1>4 DEF Collect

-----------------------------------------------------------------------------
(* The one step that writes to the catalogue. *)

LEMMA OnlyWrites ==
    ASSUME NEW r \in Run, Collect(r), ~ Write(r)
    PROVE  UNCHANGED catalogue
  <1>1. CASE \/ Start(r) \/ Fetch(r) \/ Record(r) \/ Reread(r) \/ Reject(r)
             \/ Lookup(r) \/ Resolve(r) \/ Observe(r) \/ Mark(r) \/ DbFails(r) \/ Finish(r)
             \/ Die(r)
    BY <1>1
    DEF Start, Fetch, Record, Reread, Reject, Lookup, Resolve, Observe, Mark, DbFails, Finish, Die
  <1> QED
    BY <1>1 DEF Collect

(* The product a write goes to, and the row it leaves there. *)
LEMMA TargetType ==
    ASSUME CollectorOK, CatalogueOK, NEW r \in Run, Position(r), Decided(r), pc[r] = "write"
    PROVE  /\ Target(r) \in Listing
           /\ ~ IsNew(r) => Target(r) \in DOMAIN products
           /\ IsNew(r) => Target(r) = ListingOf(r)
           /\ seen[r].map # None => maps[ListingOf(r)] = Target(r) /\ ListingOf(r) \in DOMAIN maps
  <1>1. ListingOf(r) \in Listing
    BY HeldType DEF Busy, Upserts
  <1>2. seen[r].map # None => seen[r].map \in DOMAIN products
    BY DEF Decided, CatalogueOK
  <1>3. seen[r].map = None /\ seen[r].same # None => seen[r].same \in DOMAIN products
    BY DEF Decided
  <1> QED
    BY <1>1, <1>2, <1>3 DEF Target, IsNew, CatalogueOK, Decided

LEMMA WrittenType ==
    ASSUME NEW S, NEW now \in S, NEW read, NEW new \in S \cup {None}
    PROVE  Written(now, read, new) \in S
  BY DEF Written

LEMMA ProductType ==
    ASSUME CollectorOK, CatalogueOK, NEW r \in Run, Position(r), Decided(r), pc[r] = "write"
    PROVE  ProductAfter(r) \in Product
  <1> DEFINE p == Target(r)
             c == Current(r)
             read == seen[r].product
             kept == IF seen[r].map # None /\ (IsFixture(r) \/ IsPrimary(r))
                     THEN Refreshed(products[p], read, c) ELSE products[p]
  <1>1. /\ c.gtin \in Gtin \cup {None} /\ c.look \in Look \cup {None}
        /\ c.price \in Price \cup {None} /\ c.stock \in BOOLEAN \cup {None}
    BY HeldType DEF Busy, Upserts, Payload
  <1>2. CASE IsNew(r)
    <2>1. Supplied(c.stock, TRUE) \in BOOLEAN
      BY <1>1 DEF Supplied
    <2> QED
      BY <1>1, <1>2, <2>1 DEF ProductAfter, Product
  <1>3. CASE ~ IsNew(r)
    <2>1. products[p] \in Product
      BY <1>3, TargetType DEF CatalogueOK
    <2>2. Refreshed(products[p], read, c) \in Product
      <3>1. /\ Written(products[p].gtin, read.gtin, c.gtin) \in Gtin \cup {None}
            /\ Written(products[p].look, read.look, c.look) \in Look \cup {None}
            /\ Written(products[p].price, read.price, c.price) \in Price \cup {None}
            /\ Written(products[p].stock, read.stock, c.stock) \in BOOLEAN
        BY <1>1, <2>1 DEF Product, Written
      <3> QED
        BY <3>1 DEF Refreshed, Product
    <2>3. kept \in Product
      BY <2>1, <2>2
    <2>4. InStock(r) \in BOOLEAN
      <3>1. seen[r] \in Reading
        BY DEF CollectorOK
      <3>2. seen[r].others \in BOOLEAN /\ (seen[r].offer # None => seen[r].offer.stock \in BOOLEAN)
        BY <3>1 DEF Reading, Offer
      <3> QED
        BY <1>1, <3>2 DEF InStock, Supplied
    <2>5. Written(products[p].stock, read.stock, InStock(r)) \in BOOLEAN
      BY <2>1, <2>4 DEF Product, Written
    <2>6. [gtin |-> kept.gtin, look |-> kept.look, price |-> kept.price,
           stock |-> Written(products[p].stock, read.stock, InStock(r))] \in Product
      BY <2>3, <2>5 DEF Product
    <2> QED
      BY <1>3, <2>3, <2>6 DEF ProductAfter
  <1> QED
    BY <1>2, <1>3

Shown == [price: Price \cup {0}, stock: BOOLEAN]

LEMMA OfferIs ==
    ASSUME NEW price \in Price \cup {0}, NEW stock \in BOOLEAN, NEW product \in Listing
    PROVE  [price |-> price, stock |-> stock, product |-> product] \in Offer
  BY DEF Offer

LEMMA ShownIs ==
    ASSUME NEW price \in Price \cup {0}, NEW stock \in BOOLEAN, NEW s \in Seq(Shown)
    PROVE  /\ <<[price |-> price, stock |-> stock]>> \in Seq(Shown)
           /\ Append(s, [price |-> price, stock |-> stock]) \in Seq(Shown)
  <1>1. [price |-> price, stock |-> stock] \in Shown
    BY DEF Shown
  <1> QED
    BY <1>1

(* An offer, and its history, after a write. *)
LEMMA OfferType ==
    ASSUME CollectorOK, CatalogueOK, NEW r \in Run, Position(r), Decided(r), pc[r] = "write"
    PROVE  OfferAfter(r) \in Offer /\ HistoryAfter(r) \in Seq(Shown)
  <1> DEFINE l == ListingOf(r)
             c == Current(r)
             was == seen[r].offer
  <1>1. /\ c.price \in Price \cup {None} /\ c.stock \in BOOLEAN \cup {None}
        /\ Target(r) \in Listing
    BY HeldType, TargetType DEF Busy, Upserts, Payload
  <1>2. Supplied(c.price, 0) \in Price \cup {0} /\ Supplied(c.stock, TRUE) \in BOOLEAN
    BY <1>1 DEF Supplied
  <1>3. CASE was = None
    <2>1. <<>> \in Seq(Shown)
      OBVIOUS
    <2>2. OfferAfter(r) = [price |-> Supplied(c.price, 0), stock |-> Supplied(c.stock, TRUE),
                           product |-> Target(r)]
      BY <1>3 DEF OfferAfter
    <2>3. HistoryAfter(r) = <<[price |-> Supplied(c.price, 0), stock |-> Supplied(c.stock, TRUE)]>>
      BY <1>3 DEF HistoryAfter
    <2>4. OfferAfter(r) \in Offer
      BY <1>1, <1>2, <2>2, OfferIs
    <2> QED
      BY <1>2, <2>1, <2>3, <2>4, ShownIs
  <1>4. CASE was # None
    <2>1. was \in Offer /\ offers[l] \in Offer /\ history[l] \in Seq(Shown)
      <3>1. l \in DOMAIN offers
        BY <1>4 DEF Decided
      <3>2. seen[r] \in Reading
        BY DEF CollectorOK
      <3> QED
        BY <1>4, <3>1, <3>2 DEF CatalogueOK, Shown, Reading
    <2>2. /\ Written(offers[l].price, was.price, c.price) \in Price \cup {0}
          /\ Written(offers[l].stock, was.stock, c.stock) \in BOOLEAN
          /\ offers[l].product \in Listing
      BY <1>1, <2>1 DEF Written, Offer
    <2>3. OfferAfter(r) = [price |-> Written(offers[l].price, was.price, c.price),
                           stock |-> Written(offers[l].stock, was.stock, c.stock),
                           product |-> offers[l].product]
      BY <1>4 DEF OfferAfter
    <2>4. OfferAfter(r) \in Offer
      BY <2>2, <2>3, OfferIs
    <2>5. /\ Supplied(c.price, was.price) \in Price \cup {0}
          /\ Supplied(c.stock, was.stock) \in BOOLEAN
      BY <1>1, <2>1 DEF Supplied, Offer
    <2>6. \/ HistoryAfter(r) = history[l]
          \/ HistoryAfter(r) = Append(history[l], [price |-> Supplied(c.price, was.price),
                                                    stock |-> Supplied(c.stock, was.stock)])
      BY <1>4 DEF HistoryAfter
    <2> QED
      BY <2>1, <2>4, <2>5, <2>6, ShownIs
  <1> QED
    BY <1>3, <1>4

(* What a write leaves. *)
WriteEffect(r) ==
    /\ DOMAIN products' = DOMAIN products \cup {Target(r)}
    /\ products'[Target(r)] = ProductAfter(r)
    /\ \A p \in DOMAIN products : p # Target(r) => products'[p] = products[p]
    /\ DOMAIN maps' = DOMAIN maps \cup {ListingOf(r)}
    /\ maps'[ListingOf(r)] = Target(r)
    /\ \A l \in DOMAIN maps : maps'[l] = maps[l]
    /\ DOMAIN created' = DOMAIN maps'
    /\ created'[ListingOf(r)] \in Nat
    /\ \A l \in DOMAIN maps : created'[l] = created[l]
    /\ obs' = obs \cup {[raw |-> KeyOf(r), product |-> Target(r), run |-> r]}

OfferEffect(r) ==
    \/ UNCHANGED <<offers, history>>
    \/ /\ DOMAIN offers' = DOMAIN offers \cup {ListingOf(r)}
       /\ DOMAIN history' = DOMAIN history \cup {ListingOf(r)}
       /\ offers'[ListingOf(r)] = OfferAfter(r)
       /\ history'[ListingOf(r)] = HistoryAfter(r)
       /\ \A l \in DOMAIN offers : l # ListingOf(r) => offers'[l] = offers[l]
       /\ \A l \in DOMAIN history : l # ListingOf(r) => history'[l] = history[l]

LEMMA WriteIs ==
    ASSUME CollectorOK, CatalogueOK, NEW r \in Run, Position(r), Decided(r), Write(r)
    PROVE  /\ pc[r] = "write" /\ (seen[r].map = None => ListingOf(r) \notin DOMAIN maps)
           /\ WriteEffect(r) /\ OfferEffect(r)
  <1>1. /\ pc[r] = "write" /\ (seen[r].map = None => ListingOf(r) \notin DOMAIN maps)
        /\ products' = Put(products, Target(r), ProductAfter(r))
        /\ maps' = Put(maps, ListingOf(r), Target(r))
        /\ created' = Put(created, ListingOf(r), IF seen[r].map = None THEN seen[r].begun
                                                 ELSE created[ListingOf(r)])
        /\ obs' = obs \cup {[raw |-> KeyOf(r), product |-> Target(r), run |-> r]}
        /\ \/ UNCHANGED <<offers, history>>
           \/ /\ offers' = Put(offers, ListingOf(r), OfferAfter(r))
              /\ history' = Put(history, ListingOf(r), HistoryAfter(r))
    BY DEF Write
  <1>2. \A l \in DOMAIN maps : l = ListingOf(r) => maps[l] = Target(r)
    BY <1>1, TargetType
  <1>5. /\ DOMAIN created = DOMAIN maps /\ seen[r].begun \in Nat
        /\ seen[r].map # None => ListingOf(r) \in DOMAIN maps /\ created[ListingOf(r)] \in Nat
    BY <1>1 DEF CatalogueOK, CollectorOK, Reading, Decided
  <1>6. /\ DOMAIN created' = DOMAIN maps \cup {ListingOf(r)} /\ created'[ListingOf(r)] \in Nat
        /\ \A l \in DOMAIN maps : created'[l] = created[l]
    BY <1>1, <1>5 DEF Put
  <1>3. WriteEffect(r)
    BY <1>1, <1>2, <1>6 DEF Put, WriteEffect
  <1>4. OfferEffect(r)
    BY <1>1 DEF Put, OfferEffect
  <1> QED
    BY <1>1, <1>3, <1>4

LEMMA WriteType ==
    ASSUME CollectorOK, CatalogueOK, NEW r \in Run, Position(r), Decided(r), Write(r)
    PROVE  CatalogueOK'
  <1>0. pc[r] = "write" /\ WriteEffect(r) /\ OfferEffect(r)
    BY WriteIs
  <1>1. /\ Target(r) \in Listing /\ ListingOf(r) \in Listing /\ KeyOf(r) \in Key
        /\ ProductAfter(r) \in Product /\ OfferAfter(r) \in Offer
        /\ HistoryAfter(r) \in Seq(Shown)
    BY <1>0, TargetType, HeldType, ProductType, OfferType DEF Busy, Upserts
  <1>2. /\ DOMAIN products' \subseteq Listing
        /\ \A p \in DOMAIN products' : products'[p] \in Product
    BY <1>0, <1>1 DEF WriteEffect, CatalogueOK
  <1>3. /\ DOMAIN maps' \subseteq Listing
        /\ \A l \in DOMAIN maps' : maps'[l] \in DOMAIN products'
    BY <1>0, <1>1 DEF WriteEffect, CatalogueOK
  <1>7. DOMAIN created' = DOMAIN maps' /\ \A l \in DOMAIN created' : created'[l] \in Nat
    BY <1>0, <1>1 DEF WriteEffect, CatalogueOK
  <1>4. obs' \subseteq [raw: Key, product: Listing, run: Run]
    BY <1>0, <1>1 DEF WriteEffect, CatalogueOK
  <1>5. DOMAIN offers' \subseteq DOMAIN maps' /\ \A l \in DOMAIN offers' : offers'[l] \in Offer
    BY <1>0, <1>1 DEF WriteEffect, OfferEffect, CatalogueOK
  <1>6. DOMAIN history' = DOMAIN offers' /\ \A l \in DOMAIN history' : history'[l] \in Seq(Shown)
    BY <1>0, <1>1 DEF OfferEffect, CatalogueOK, Shown
  <1> QED
    BY <1>2, <1>3, <1>4, <1>5, <1>6, <1>7 DEF CatalogueOK, Shown

-----------------------------------------------------------------------------
(* What an upsert has decided. *)

Untouched(q) == /\ plan' = plan /\ pc'[q] = pc[q] /\ count'[q] = count[q] /\ seen'[q] = seen[q]

(* Rows of the catalogue are never deleted, and a mapping never changes. *)
Grows == /\ DOMAIN maps \subseteq DOMAIN maps'
         /\ \A l \in DOMAIN maps : maps'[l] = maps[l] /\ created'[l] = created[l]
         /\ DOMAIN products \subseteq DOMAIN products'
         /\ DOMAIN offers \subseteq DOMAIN offers'
         /\ obs \subseteq obs'

LEMMA WriteGrows ==
    ASSUME NEW r \in Run, WriteEffect(r), OfferEffect(r)
    PROVE  Grows
  BY DEF WriteEffect, OfferEffect, Grows

LEMMA DecidedKept ==
    ASSUME NEW q \in Run, Decided(q), Untouched(q), Grows, CatalogueOK, Founded
    PROVE  Decided(q)'
  <1>1. ListingOf(q)' = ListingOf(q) /\ Current(q)' = Current(q)
    BY DEF Untouched, ListingOf, Current
  <1>2. /\ pc'[q] = pc[q] /\ seen'[q] = seen[q]
        /\ DOMAIN maps \subseteq DOMAIN maps' /\ DOMAIN products \subseteq DOMAIN products'
        /\ \A l \in DOMAIN maps : maps'[l] = maps[l] /\ created'[l] = created[l]
        /\ obs \subseteq obs' /\ DOMAIN offers \subseteq DOMAIN offers'
    BY DEF Untouched, Grows
  <1>3. ASSUME pc[q] = "write", seen[q].map # None, IsPrimary(q)
        PROVE  created'[ListingOf(q)] <= created'[seen[q].map]
    <2>1. ListingOf(q) \in DOMAIN maps /\ maps[ListingOf(q)] = seen[q].map
      BY <1>3 DEF Decided
    <2>2. seen[q].map \in DOMAIN maps
      BY <2>1 DEF Founded, CatalogueOK
    <2> QED
      BY <1>2, <1>3, <2>1, <2>2 DEF Decided
  <1> QED
    BY <1>1, <1>2, <1>3 DEF Decided, IsPrimary

LEMMA DecidedSoon ==
    ASSUME CollectorOK, CatalogueOK, NEW r \in Run, Position(r), Decided(r), Resolve(r),
           GtinIsObserved, Founded
    PROVE  Decided(r)'
  <1> DEFINE l == ListingOf(r)
             c == Current(r)
             known == seen[r].map
             found == IF known = None THEN Verified(c.gtin) ELSE {}
  <1>1. known \in Listing \cup {None} /\ (known # None => known \in DOMAIN products)
    BY DEF CatalogueOK, Decided, CollectorOK, Reading, Resolve
  <1>2. found \subseteq DOMAIN products
    BY DEF Verified, SameGtin
  <1>3. PICK same \in IF found = {} THEN {None} ELSE found,
             first \in IF known = None THEN {None} ELSE Oldest(known) :
          LET p == IF known # None THEN known ELSE same
          IN  seen' = [seen EXCEPT ![r] =
                [begun   |-> seen[r].begun,
                 map     |-> known,
                 first   |-> first,
                 same    |-> same,
                 like    |-> p = None /\ Resembles(c.look),
                 offer   |-> IF l \in DOMAIN offers THEN offers[l] ELSE None,
                 product |-> IF p = None THEN None ELSE products[p],
                 others  |-> \E m \in DOMAIN offers \ {l} :
                                offers[m].product = p /\ offers[m].stock,
                 outcome |-> IF p = None THEN "inserted" ELSE "updated",
                 match   |-> CASE same # None -> "verified"
                               [] p = None /\ Resembles(c.look) -> "possible"
                               [] OTHER -> "none"]]
    BY DEF Resolve
  <1> DEFINE p == IF known # None THEN known ELSE same
  <1>4. /\ seen'[r].map = known /\ seen'[r].same = same /\ seen'[r].first = first
        /\ seen'[r].offer = IF l \in DOMAIN offers THEN offers[l] ELSE None
    <2> HIDE DEF known, found
    <2> QED
      BY <1>3 DEF CollectorOK
  <1>5. ListingOf(r)' = l /\ Current(r)' = c /\ UNCHANGED catalogue
    BY DEF Resolve, ListingOf, Current
  <1>6. known # None => l \in DOMAIN maps /\ maps[l] = known
    BY DEF Decided, Resolve
  <1>8. known # None => created[first] <= created[known]
    BY <1>3, <1>6 DEF Oldest, Listings, Founded, CatalogueOK
  <1>9. pc'[r] = "write"
    BY DEF Resolve, Goto, CollectorOK
  <1>7. ASSUME known = None, same # None
        PROVE  /\ same \in DOMAIN products /\ c.gtin # None
               /\ \E q \in obs : q.product = same /\ q.raw[2].gtin = c.gtin
    <2>1. same \in SameGtin(c.gtin)
      BY <1>3, <1>7 DEF Verified
    <2> QED
      BY <2>1 DEF SameGtin, GtinIsObserved
  <1> HIDE DEF known, found
  <1> QED
    BY <1>4, <1>5, <1>6, <1>7, <1>8, <1>9 DEF Decided, catalogue, IsPrimary

(* A product is founded by the write that creates it. *)
LEMMA WriteFounds ==
    ASSUME CollectorOK, CatalogueOK, NEW r \in Run, Position(r), Decided(r), pc[r] = "write",
           WriteEffect(r), Founded
    PROVE  Founded'
  <1> SUFFICES ASSUME NEW p \in DOMAIN products'
               PROVE  p \in DOMAIN maps' /\ maps'[p] = p
    BY DEF Founded
  <1>1. CASE p \in DOMAIN products
    BY <1>1 DEF Founded, WriteEffect
  <1>2. CASE p \notin DOMAIN products
    BY <1>2, TargetType DEF WriteEffect
  <1> QED
    BY <1>1, <1>2

-----------------------------------------------------------------------------
(* The sources of the catalogue, after a write. *)

LEMMA NewObservation ==
    ASSUME CollectorOK, NEW r \in Run, Position(r), pc[r] = "write", WriteEffect(r)
    PROVE  \E o \in obs' : /\ o.product = Target(r) /\ o.raw[1] = plan[r].source
                           /\ o.raw[2] = Current(r) /\ ListingIn(o) = ListingOf(r)
  <1> DEFINE o == [raw |-> KeyOf(r), product |-> Target(r), run |-> r]
  <1>1. o \in obs'
    BY DEF WriteEffect
  <1>2. /\ o.product = Target(r) /\ o.raw[1] = plan[r].source
        /\ o.raw[2] = Current(r) /\ ListingIn(o) = ListingOf(r)
    BY HeldType DEF Busy, Upserts, ListingIn
  <1> HIDE DEF o
  <1> QED
    BY <1>1, <1>2

LEMMA WriteMapped ==
    ASSUME CollectorOK, NEW r \in Run, Position(r), pc[r] = "write", WriteEffect(r),
           ObservedIsMapped
    PROVE  ObservedIsMapped'
  <1> SUFFICES ASSUME NEW o \in obs' PROVE ListingIn(o) \in DOMAIN maps'
    BY DEF ObservedIsMapped, ListingIn
  <1>1. CASE o \in obs
    BY <1>1 DEF ObservedIsMapped, WriteEffect
  <1>2. CASE o = [raw |-> KeyOf(r), product |-> Target(r), run |-> r]
    <2>1. ListingIn(o) = ListingOf(r)
      BY <1>2, HeldType DEF Busy, Upserts, ListingIn
    <2> QED
      BY <2>1 DEF WriteEffect
  <1> QED
    BY <1>1, <1>2 DEF WriteEffect

(* A write keeps the GTIN and the price of a known product, or takes those   *)
(* of the payload, the price only from who may say it.                       *)
LEMMA ProductKept ==
    ASSUME NEW r \in Run
    PROVE  /\ \/ ProductAfter(r).gtin = Current(r).gtin
              \/ ~ IsNew(r) /\ ProductAfter(r).gtin = products[Target(r)].gtin
           /\ \/ /\ ProductAfter(r).price = Current(r).price
                 /\ IsNew(r) \/ (seen[r].map # None /\ (IsFixture(r) \/ IsPrimary(r)))
              \/ ~ IsNew(r) /\ ProductAfter(r).price = products[Target(r)].price
  BY DEF ProductAfter, Refreshed, Written

LEMMA WriteGtin ==
    ASSUME CollectorOK, CatalogueOK, NEW r \in Run, Position(r), Decided(r), pc[r] = "write",
           WriteEffect(r), GtinIsObserved
    PROVE  GtinIsObserved'
  <1> SUFFICES ASSUME NEW p \in DOMAIN products', products'[p].gtin # None
               PROVE  \E o \in obs' : o.product = p /\ o.raw[2].gtin = products'[p].gtin
    BY DEF GtinIsObserved
  <1>1. CASE p \in DOMAIN products /\ products'[p].gtin = products[p].gtin
    BY <1>1 DEF GtinIsObserved, WriteEffect
  <1>2. CASE p = Target(r) /\ products'[p].gtin = Current(r).gtin
    BY <1>2, NewObservation
  <1>3. ~ IsNew(r) => Target(r) \in DOMAIN products
    BY TargetType
  <1>4. CASE p = Target(r)
    BY <1>1, <1>2, <1>3, <1>4, ProductKept DEF WriteEffect
  <1>5. CASE p # Target(r)
    BY <1>1, <1>5 DEF WriteEffect
  <1> QED
    BY <1>4, <1>5

LEMMA WriteMerges ==
    ASSUME CollectorOK, CatalogueOK, NEW r \in Run, Position(r), Decided(r), pc[r] = "write",
           seen[r].map = None => ListingOf(r) \notin DOMAIN maps,
           WriteEffect(r), ObservedIsMapped, MergedOnlyByGtin
    PROVE  MergedOnlyByGtin'
  <1> DEFINE Shared(l, p, O) == \E o, q \in O : /\ o.product = p /\ q.product = p
                                                /\ ListingIn(o) = l /\ ListingIn(q) # l
                                                /\ o.raw[2].gtin = q.raw[2].gtin
                                                /\ o.raw[2].gtin # None
  <1> SUFFICES ASSUME NEW l \in DOMAIN maps', maps'[l] # l
               PROVE  Shared(l, maps'[l], obs')
    BY DEF MergedOnlyByGtin, ListingIn
  <1>1. CASE l \in DOMAIN maps
    <2>1. maps'[l] = maps[l] /\ obs \subseteq obs'
      BY <1>1 DEF WriteEffect
    <2>2. Shared(l, maps[l], obs)
      BY <1>1, <2>1 DEF MergedOnlyByGtin, ListingIn
    <2> QED
      BY <2>1, <2>2
  <1>2. CASE l \notin DOMAIN maps
    <2>1. l = ListingOf(r) /\ maps'[l] = Target(r)
      BY <1>2 DEF WriteEffect
    <2>2. seen[r].map = None
      BY <1>2, <2>1 DEF Decided
    <2>3. seen[r].same # None /\ Target(r) = seen[r].same
      BY <2>1, <2>2 DEF Target
    <2>4. PICK q \in obs : q.product = seen[r].same /\ q.raw[2].gtin = Current(r).gtin
      BY <2>2, <2>3 DEF Decided
    <2>5. Current(r).gtin # None
      BY <2>2, <2>3 DEF Decided
    <2>6. ListingIn(q) # l
      BY <1>2 DEF ObservedIsMapped
    <2>7. PICK o \in obs' : /\ o.product = Target(r) /\ o.raw[2] = Current(r)
                            /\ ListingIn(o) = ListingOf(r)
      BY NewObservation
    <2>8. q \in obs'
      BY DEF WriteEffect
    <2> QED
      BY <2>1, <2>3, <2>4, <2>5, <2>6, <2>7, <2>8
  <1> QED
    BY <1>1, <1>2

LEMMA WritePrices ==
    ASSUME CollectorOK, CatalogueOK, NEW r \in Run, Position(r), Decided(r), pc[r] = "write",
           WriteEffect(r), ObservedIsMapped, Founded, CanonicalIsPrimary
    PROVE  CanonicalIsPrimary'
  <1> DEFINE Says(o, p, price, since) == /\ o.product = p /\ o.raw[2].price = price
                                         /\ \/ since[ListingIn(o)] <= since[p]
                                            \/ o.raw[1] \in Fixture
  <1> SUFFICES ASSUME NEW p \in DOMAIN products', products'[p].price # None
               PROVE  \E o \in obs' : Says(o, p, products'[p].price, created')
    BY DEF CanonicalIsPrimary, ListingIn
  <1>1. CASE p \in DOMAIN products /\ products'[p].price = products[p].price
    <2>1. PICK o \in obs : Says(o, p, products[p].price, created)
      BY <1>1 DEF CanonicalIsPrimary, ListingIn
    <2>2. created'[ListingIn(o)] = created[ListingIn(o)] /\ created'[p] = created[p]
      BY <1>1 DEF WriteEffect, ObservedIsMapped, Founded
    <2>3. o \in obs'
      BY DEF WriteEffect
    <2> QED
      BY <1>1, <2>1, <2>2, <2>3
  <1>2. CASE /\ p = Target(r) /\ products'[p].price = Current(r).price
             /\ IsNew(r) \/ (seen[r].map # None /\ (IsFixture(r) \/ IsPrimary(r)))
    <2>1. created'[ListingOf(r)] <= created'[p] \/ plan[r].source \in Fixture
      <3>1. CASE IsNew(r)
        <4>1. p = ListingOf(r) /\ created'[p] \in Nat
          BY <1>2, <3>1, TargetType DEF WriteEffect
        <4> QED
          BY <4>1
      <3>2. CASE IsFixture(r)
        BY <3>2 DEF IsFixture
      <3>3. CASE seen[r].map # None /\ IsPrimary(r)
        <4>1. /\ created[ListingOf(r)] <= created[seen[r].map] /\ p = seen[r].map
              /\ ListingOf(r) \in DOMAIN maps /\ p \in DOMAIN products
          BY <1>2, <3>3 DEF Decided, Target, CatalogueOK
        <4>2. p \in DOMAIN maps
          BY <4>1 DEF Founded
        <4> QED
          BY <4>1, <4>2 DEF WriteEffect
      <3> QED
        BY <1>2, <3>1, <3>2, <3>3
    <2>2. PICK o \in obs' : /\ o.product = Target(r) /\ o.raw[1] = plan[r].source
                            /\ o.raw[2] = Current(r) /\ ListingIn(o) = ListingOf(r)
      BY NewObservation
    <2> QED
      BY <1>2, <2>1, <2>2
  <1>3. ~ IsNew(r) => Target(r) \in DOMAIN products
    BY TargetType
  <1>4. CASE p = Target(r)
    <2>1. products'[p] = ProductAfter(r)
      BY <1>4 DEF WriteEffect
    <2> QED
      BY <1>1, <1>2, <1>3, <1>4, <2>1, ProductKept
  <1>5. CASE p # Target(r)
    BY <1>1, <1>5 DEF WriteEffect
  <1> QED
    BY <1>4, <1>5

(* A history with one row more. *)
LEMMA Appended ==
    ASSUME NEW s \in Seq(Shown), NEW e \in Shown
    PROVE  /\ \E i \in DOMAIN Append(s, e) : Append(s, e)[i] = e
           /\ \A i \in DOMAIN s : i \in DOMAIN Append(s, e) /\ Append(s, e)[i] = s[i]
  OBVIOUS

Stands(offer, h) == /\ \E i \in DOMAIN h : h[i].price = offer.price
                    /\ \E i \in DOMAIN h : h[i].stock = offer.stock

LEMMA OfferStands ==
    ASSUME CollectorOK, CatalogueOK, NEW r \in Run, Position(r), Decided(r), pc[r] = "write",
           ListingOf(r) \in DOMAIN offers
              => Stands(offers[ListingOf(r)], history[ListingOf(r)])
    PROVE  Stands(OfferAfter(r), HistoryAfter(r))
  <1> DEFINE l == ListingOf(r)
             c == Current(r)
             was == seen[r].offer
  <1>1. CASE was = None
    <2> DEFINE row_ == [price |-> Supplied(c.price, 0), stock |-> Supplied(c.stock, TRUE)]
    <2>1. HistoryAfter(r) = <<row_>>
      BY <1>1 DEF HistoryAfter
    <2>2. OfferAfter(r).price = row_.price /\ OfferAfter(r).stock = row_.stock
      BY <1>1 DEF OfferAfter
    <2>3. 1 \in DOMAIN <<row_>> /\ <<row_>>[1] = row_
      OBVIOUS
    <2> HIDE DEF row_
    <2> QED
      BY <2>1, <2>2, <2>3 DEF Stands
  <1>2. CASE was # None
    <2> DEFINE row_ == [price |-> Supplied(c.price, was.price),
                        stock |-> Supplied(c.stock, was.stock)]
    <2>1. l \in DOMAIN offers
      BY <1>2 DEF Decided
    <2>2. Stands(offers[l], history[l]) /\ history[l] \in Seq(Shown)
      BY <2>1 DEF CatalogueOK, Shown
    <2>3. /\ OfferAfter(r).price = Written(offers[l].price, was.price, c.price)
          /\ OfferAfter(r).stock = Written(offers[l].stock, was.stock, c.stock)
      BY <1>2 DEF OfferAfter
    <2>4. CASE c.price \in {None, was.price} /\ c.stock \in {None, was.stock}
      BY <1>2, <2>2, <2>3, <2>4 DEF HistoryAfter, Written, Stands
    <2>5. CASE ~ (c.price \in {None, was.price} /\ c.stock \in {None, was.stock})
      <3>1. HistoryAfter(r) = Append(history[l], row_)
        BY <1>2, <2>5 DEF HistoryAfter
      <3>2. /\ OfferAfter(r).price \in {offers[l].price, row_.price}
            /\ OfferAfter(r).stock \in {offers[l].stock, row_.stock}
        BY <2>3 DEF Written, Supplied
      <3>3. row_ \in Shown
        <4>1. c.price \in Price \cup {None} /\ c.stock \in BOOLEAN \cup {None}
          BY HeldType DEF Busy, Upserts, Payload
        <4>2. was \in Offer
          <5>1. seen[r] \in Reading
            BY DEF CollectorOK
          <5> QED
            BY <1>2, <5>1 DEF Reading
        <4>3. /\ Supplied(c.price, was.price) \in Price \cup {0}
              /\ Supplied(c.stock, was.stock) \in BOOLEAN
          BY <4>1, <4>2 DEF Supplied, Offer
        <4> QED
          BY <4>3 DEF Shown
      <3> HIDE DEF row_, l
      <3>4. /\ \E i \in DOMAIN Append(history[l], row_) : Append(history[l], row_)[i] = row_
            /\ \A i \in DOMAIN history[l] : /\ i \in DOMAIN Append(history[l], row_)
                                            /\ Append(history[l], row_)[i] = history[l][i]
        BY <2>2, <3>3, Appended
      <3> QED
        BY <2>2, <3>1, <3>2, <3>4 DEF Stands
    <2> QED
      BY <2>4, <2>5
  <1> QED
    BY <1>1, <1>2

LEMMA WriteStands ==
    ASSUME CollectorOK, CatalogueOK, NEW r \in Run, Position(r), Decided(r), pc[r] = "write",
           OfferEffect(r), OfferStandsInHistory
    PROVE  OfferStandsInHistory'
  <1>1. \A l \in DOMAIN offers : Stands(offers[l], history[l]) /\ l \in DOMAIN history
    BY DEF OfferStandsInHistory, Stands, CatalogueOK
  <1>2. Stands(OfferAfter(r), HistoryAfter(r))
    BY <1>1, OfferStands
  <1>3. \A l \in DOMAIN offers' : Stands(offers'[l], history'[l])
    BY <1>1, <1>2 DEF OfferEffect
  <1> QED
    BY <1>3 DEF OfferStandsInHistory, Stands

-----------------------------------------------------------------------------
(* The catalogue and the decisions, after a step of a collector. *)

CatalogueInv == /\ Founded /\ ObservedIsMapped /\ GtinIsObserved /\ MergedOnlyByGtin
                /\ CanonicalIsPrimary /\ OfferStandsInHistory

LEMMA CatalogueStays ==
    ASSUME UNCHANGED catalogue
    PROVE  /\ CatalogueOK => CatalogueOK'
           /\ CatalogueInv => CatalogueInv'
           /\ Grows
  <1>1. CatalogueOK => CatalogueOK'
    BY DEF CatalogueOK, catalogue
  <1>2. ObservedIsMapped /\ GtinIsObserved => ObservedIsMapped' /\ GtinIsObserved'
    BY DEF ObservedIsMapped, GtinIsObserved, catalogue, ListingIn
  <1>3. MergedOnlyByGtin => MergedOnlyByGtin'
    BY DEF MergedOnlyByGtin, catalogue
  <1>7. Founded => Founded'
    BY DEF Founded, catalogue
  <1>4. CanonicalIsPrimary => CanonicalIsPrimary'
    BY DEF CanonicalIsPrimary, catalogue
  <1>5. OfferStandsInHistory => OfferStandsInHistory'
    BY DEF OfferStandsInHistory, catalogue
  <1>6. Grows
    BY DEF Grows, catalogue
  <1> QED
    BY <1>1, <1>2, <1>3, <1>4, <1>5, <1>6, <1>7 DEF CatalogueInv

LEMMA StepCatalogue ==
    ASSUME CollectorOK, CatalogueOK, CatalogueInv, NEW r \in Run, Position(r), Decided(r),
           Collect(r)
    PROVE  CatalogueOK' /\ CatalogueInv' /\ Grows
  <1>1. CASE Write(r)
    <2>1. /\ pc[r] = "write" /\ (seen[r].map = None => ListingOf(r) \notin DOMAIN maps)
          /\ WriteEffect(r) /\ OfferEffect(r)
      BY <1>1, WriteIs
    <2>2. /\ Founded /\ ObservedIsMapped /\ GtinIsObserved /\ MergedOnlyByGtin
          /\ CanonicalIsPrimary /\ OfferStandsInHistory
      BY DEF CatalogueInv
    <2>3. CatalogueOK'
      BY <1>1, WriteType
    <2>4. ObservedIsMapped'
      BY <2>1, <2>2, WriteMapped
    <2>5. GtinIsObserved'
      BY <2>1, <2>2, WriteGtin
    <2>10. Founded'
      BY <2>1, <2>2, WriteFounds
    <2>6. MergedOnlyByGtin'
      BY <2>1, <2>2, WriteMerges
    <2>7. CanonicalIsPrimary'
      BY <2>1, <2>2, WritePrices
    <2>8. OfferStandsInHistory'
      BY <2>1, <2>2, WriteStands
    <2>9. Grows
      BY <2>1, WriteGrows
    <2> QED
      BY <2>3, <2>4, <2>5, <2>6, <2>7, <2>8, <2>9, <2>10 DEF CatalogueInv
  <1>2. CASE ~ Write(r)
    BY <1>2, OnlyWrites, CatalogueStays
  <1> QED
    BY <1>1, <1>2

LEMMA StepDecided ==
    ASSUME CollectorOK, CatalogueOK, CatalogueInv, NEW r \in Run, Position(r), Decided(r),
           Collect(r)
    PROVE  Decided(r)'
  <1>0. plan[r].kind \in Kind
    BY RowTypes DEF Plan
  <1>1. CASE Start(r)
    <2>1. pc'[r] \notin {"lookup", "resolve", "write"}
      BY <1>1 DEF Start, Goto, CollectorOK
    <2> QED
      BY <2>1 DEF Decided
  <1>2. CASE Fetch(r)
    <2>1. pc'[r] \notin {"lookup", "resolve", "write"}
      BY <1>2 DEF Fetch, Goto, CollectorOK
    <2> QED
      BY <2>1 DEF Decided
  <1>3. CASE Record(r)
    <2>1. /\ pc'[r] \notin {"resolve", "write"}
          /\ pc'[r] = "lookup" => seen'[r].map = None
      BY <1>0, <1>3 DEF Record, Goto, Tally, Proceed, Kind, CollectorOK, Noted
    <2> QED
      BY <2>1 DEF Decided
  <1>4. CASE Reread(r)
    <2>1. pc'[r] \notin {"lookup", "resolve", "write"}
      BY <1>4 DEF Reread, Tally, Proceed, Goto, CollectorOK
    <2> QED
      BY <2>1 DEF Decided
  <1>5. CASE Reject(r)
    <2>1. pc'[r] \notin {"lookup", "resolve", "write"}
      BY <1>5 DEF Reject, Tally, Proceed, Goto, CollectorOK
    <2> QED
      BY <2>1 DEF Decided
  <1>6. CASE Resolve(r)
    BY <1>6, DecidedSoon DEF CatalogueInv
  <1>13. CASE Lookup(r)
    <2>3. /\ pc[r] = "lookup" /\ pc'[r] = "resolve" /\ UNCHANGED <<plan, count, catalogue>>
          /\ seen[r].map = None /\ seen[r] \in Reading /\ seen \in [Run -> Reading]
      BY <1>13 DEF Lookup, Goto, CollectorOK, Decided
    <2>4. ASSUME ListingOf(r) \in DOMAIN maps,
                 seen' = [seen EXCEPT ![r].map = maps[ListingOf(r)]]
          PROVE  seen'[r].map = maps[ListingOf(r)]
      <3>1. seen'[r].map = maps[ListingOf(r)]
        BY <2>3, <2>4 DEF Reading
      <3> QED
        BY <2>4, <3>1
    <2>5. ASSUME NEW now \in Now, seen' = [seen EXCEPT ![r].begun = now]
          PROVE  seen'[r].map = None
      BY <2>3, <2>5 DEF Reading
    <2>1. /\ pc[r] = "lookup" /\ pc'[r] = "resolve" /\ UNCHANGED <<plan, count, catalogue>>
          /\ seen'[r].map # None => /\ ListingOf(r) \in DOMAIN maps
                                    /\ seen'[r].map = maps[ListingOf(r)]
      BY <1>13, <2>3, <2>4, <2>5 DEF Lookup
    <2>2. ListingOf(r)' = ListingOf(r)
      BY <2>1 DEF ListingOf, Current
    <2> QED
      BY <2>1, <2>2 DEF Decided, catalogue
  <1>7. CASE Write(r)
    <2>1. pc'[r] \notin {"lookup", "resolve", "write"}
      BY <1>7 DEF Write, Goto, CollectorOK
    <2> QED
      BY <2>1 DEF Decided
  <1>8. CASE Observe(r)
    <2>1. pc'[r] \notin {"lookup", "resolve", "write"}
      BY <1>8 DEF Observe, Goto, CollectorOK
    <2> QED
      BY <2>1 DEF Decided
  <1>9. CASE Mark(r)
    <2>1. pc'[r] \notin {"lookup", "resolve", "write"}
      BY <1>9 DEF Mark, Tally, Proceed, Goto, CollectorOK
    <2> QED
      BY <2>1 DEF Decided
  <1>10. CASE DbFails(r)
    <2>1. pc'[r] \notin {"lookup", "resolve", "write"}
      BY <1>10 DEF DbFails, Goto, CollectorOK
    <2> QED
      BY <2>1 DEF Decided
  <1>11. CASE Finish(r)
    <2>1. pc'[r] \notin {"lookup", "resolve", "write"}
      BY <1>11 DEF Finish, Goto, CollectorOK
    <2> QED
      BY <2>1 DEF Decided
  <1>12. CASE Die(r)
    <2>1. pc'[r] \notin {"lookup", "resolve", "write"}
      BY <1>12 DEF Die, Goto, CollectorOK, Ended
    <2> QED
      BY <2>1 DEF Decided
  <1> QED
    BY <1>1, <1>2, <1>3, <1>4, <1>5, <1>6, <1>7, <1>8, <1>9, <1>10, <1>11, <1>12, <1>13 DEF Collect

-----------------------------------------------------------------------------
(* The retention, and the clock. *)

LEMMA AgeStore ==
    ASSUME StoreOK, NEW k, Age(k)
    PROVE  StoreOK' /\ job' = job
  BY DEF Age, StoreOK, collector, catalogue

LEMMA PruneStore ==
    ASSUME StoreOK, RetentionIsComplete, NEW j \in Job, Prune(j)
    PROVE  StoreOK' /\ RetentionIsComplete'
  <1>1. ASSUME NEW source \in Expiring, StartPruning(j, source)
        PROVE  StoreOK' /\ RetentionIsComplete'
    <2>1. PICK state \in {"pruning", "dry_run", "failed"} :
             job' = [job EXCEPT ![j] = [state |-> state, source |-> source,
                        due |-> IF state = "pruning" THEN Due(source) ELSE {},
                        batches |-> 0, pruned |-> 0]]
      BY <1>1 DEF StartPruning
    <2> DEFINE new == [state |-> state, source |-> source,
                       due |-> IF state = "pruning" THEN Due(source) ELSE {},
                       batches |-> 0, pruned |-> 0]
    <2>2. new.due \subseteq DOMAIN raws /\ new.state # "completed"
      BY DEF StoreOK, Due
    <2>3. new \in Pruning
      <3>1. source \in Source
        BY CollectionAssumption
      <3>2. new.due \subseteq Key
        BY <2>2 DEF StoreOK
      <3> QED
        BY <3>1, <3>2 DEF Pruning
    <2> HIDE DEF new
    <2>4. /\ job' \in [Job -> Pruning] /\ job'[j] = new
          /\ \A i \in Job \ {j} : job'[i] = job[i]
      BY <2>1, <2>3 DEF StoreOK, new
    <2>5. UNCHANGED <<raws, old, series>>
      BY <1>1 DEF StartPruning
    <2>6. StoreOK'
      BY <2>2, <2>4, <2>5 DEF StoreOK
    <2>7. RetentionIsComplete'
      BY <2>2, <2>4 DEF RetentionIsComplete
    <2> QED
      BY <2>6, <2>7
  <1>2. CASE PruneFails(j)
    <2>1. /\ UNCHANGED <<raws, old, series>>
          /\ job' = [job EXCEPT ![j].state = "failed"]
      BY <1>2 DEF PruneFails
    <2>2. /\ job' \in [Job -> Pruning]
          /\ job'[j].state = "failed" /\ job'[j].due = job[j].due
          /\ \A i \in Job \ {j} : job'[i] = job[i]
      BY <2>1 DEF StoreOK, Pruning
    <2>3. StoreOK'
      BY <2>1, <2>2 DEF StoreOK
    <2>4. RetentionIsComplete'
      BY <2>2 DEF RetentionIsComplete
    <2> QED
      BY <2>3, <2>4
  <1>3. CASE PruneBatch(j)
    <2>1. PICK B \in SUBSET job[j].due :
            /\ Cardinality(B) = PruneSize \/ (B = job[j].due /\ Cardinality(B) < PruneSize)
            /\ raws' = [k \in DOMAIN raws \ B |-> raws[k]]
            /\ old' = old \ B
            /\ job' = [i \in Job |->
                  IF i # j THEN [job[i] EXCEPT !.due = job[i].due \ B]
                  ELSE [state   |-> IF IsLast(Cardinality(B)) \/ job[j].batches + 1 = MaxBatches
                                    THEN "completed" ELSE "pruning",
                        source  |-> job[j].source,
                        due     |-> job[j].due \ B,
                        batches |-> job[j].batches + 1,
                        pruned  |-> job[j].pruned + Cardinality(B)]]
      BY <1>3 DEF PruneBatch
    <2> DEFINE state == IF IsLast(Cardinality(B)) \/ job[j].batches + 1 = MaxBatches
                        THEN "completed" ELSE "pruning"
    <2>2. Cardinality(B) \in Nat
      <3>1. B \subseteq DOMAIN raws /\ IsFiniteSet(DOMAIN raws)
        BY DEF StoreOK
      <3> QED
        BY <3>1, FS_Subset, FS_CardinalityType
    <2>3. job[j] \in Pruning
      BY DEF StoreOK
    <2>4. /\ job'[j].due = job[j].due \ B /\ job'[j] \in Pruning /\ job'[j].state = state
          /\ job'[j].batches = job[j].batches + 1
      BY <2>1, <2>2, <2>3 DEF Pruning
    <2>5. \A i \in Job \ {j} : /\ job'[i].due = job[i].due \ B /\ job'[i] \in Pruning
                               /\ job'[i].state = job[i].state /\ job'[i].batches = job[i].batches
      BY <2>1 DEF StoreOK, Pruning
    <2>6. job' \in [Job -> Pruning]
      <3>1. \A i \in Job : job'[i] \in Pruning
        BY <2>4, <2>5
      <3>2. job' = [i \in Job |-> job'[i]]
        BY <2>1
      <3> QED
        BY <3>1, <3>2
    <2>7. DOMAIN raws' = DOMAIN raws \ B /\ \A k \in DOMAIN raws' : raws'[k] = raws[k]
      BY <2>1
    <2>8. IsFiniteSet(DOMAIN raws')
      BY <2>7, FS_Subset DEF StoreOK
    <2>9. StoreOK'
      <3>1. \A i \in Job : job'[i].due = job[i].due \ B
        BY <2>4, <2>5
      <3>2. old' = old \ B /\ series' = series
        BY <1>3, <2>1 DEF PruneBatch
      <3> QED
        BY <2>6, <2>7, <2>8, <3>1, <3>2 DEF StoreOK
    <2>10. RetentionIsComplete'
      <3>1. ASSUME job'[j].state = "completed", job'[j].batches < MaxBatches
            PROVE  job'[j].due = {}
        <4>1. job[j].batches + 1 # MaxBatches
          BY <2>3, <2>4, <3>1, BoundsType DEF Pruning
        <4>2. Cardinality(B) < PruneSize
          BY <2>4, <3>1, <4>1 DEF IsLast
        <4>3. B = job[j].due
          BY <2>1, <2>2, <4>2, BoundsType
        <4> QED
          BY <2>4, <4>3
      <3>2. \A i \in Job \ {j} : job'[i].state = "completed" /\ job'[i].batches < MaxBatches
               => job'[i].due = {}
        BY <2>5 DEF RetentionIsComplete
      <3> QED
        BY <3>1, <3>2 DEF RetentionIsComplete
    <2> QED
      BY <2>9, <2>10
  <1> QED
    BY <1>1, <1>2, <1>3 DEF Prune

-----------------------------------------------------------------------------
(* The counters. *)

(* d is c with one more of each of the names. *)
Adds(c, d, names) ==
    /\ d.fetched  = c.fetched + (IF "fetched" \in names THEN 1 ELSE 0)
    /\ d.inserted = c.inserted + (IF "inserted" \in names THEN 1 ELSE 0)
    /\ d.updated  = c.updated + (IF "updated" \in names THEN 1 ELSE 0)
    /\ d.skipped  = c.skipped + (IF "skipped" \in names THEN 1 ELSE 0)
    /\ d.failed   = c.failed + (IF "failed" \in names THEN 1 ELSE 0)
    /\ d.verified = c.verified + (IF "verified" \in names THEN 1 ELSE 0)
    /\ d.possible = c.possible + (IF "possible" \in names THEN 1 ELSE 0)

LEMMA TallyAdds ==
    ASSUME CollectorOK, NEW r \in Run, NEW names, Tally(r, names)
    PROVE  Adds(count[r], count'[r], names)
  <1>1. count[r] \in Counters
    BY DEF CollectorOK
  <1>2. count'[r] = Counted(count[r], names)
    BY TallyType DEF CollectorOK
  <1> QED
    BY <1>1, <1>2, CountedIs DEF Adds

LEMMA CounterNat ==
    ASSUME CollectorOK, NEW r \in Run
    PROVE  /\ count[r].fetched \in Nat /\ count[r].inserted \in Nat /\ count[r].updated \in Nat
           /\ count[r].skipped \in Nat /\ count[r].failed \in Nat /\ count[r].verified \in Nat
           /\ count[r].possible \in Nat /\ made[r] \in Nat
           /\ plan[r].kind \in Kind
           /\ seen[r].outcome \in {"none", "inserted", "updated", "skipped"}
           /\ seen[r].match \in {"none", "verified", "possible"}
  <1>1. /\ count[r] \in Counters /\ seen[r] \in Reading /\ plan[r] \in Plan
        /\ made[r] \in Nat
    BY RowTypes DEF CollectorOK
  <1> QED
    BY <1>1 DEF Counters, Reading, Plan

LEMMA ProceedGoes ==
    ASSUME CollectorOK, NEW r \in Run, NEW n, Proceed(r, n)
    PROVE  pc'[r] \in {"record", "completing", "fetch"}
  BY DEF Proceed, Goto, CollectorOK

LEMMA ResolveCounts ==
    ASSUME CollectorOK, CatalogueOK, NEW r \in Run, Position(r), Decided(r), Resolve(r)
    PROVE  seen'[r].outcome = IF IsNew(r)' THEN "inserted" ELSE "updated"
  <1> DEFINE l == ListingOf(r)
             c == Current(r)
             known == seen[r].map
             found == IF known = None THEN Verified(c.gtin) ELSE {}
  <1>1. known \in Listing \cup {None} /\ (known # None => known \in DOMAIN products)
    BY DEF CatalogueOK, Decided, CollectorOK, Reading, Resolve
  <1>2. found \subseteq DOMAIN products
    BY DEF Verified, SameGtin
  <1>3. PICK same \in IF found = {} THEN {None} ELSE found,
             first \in IF known = None THEN {None} ELSE Oldest(known) :
          LET p == IF known # None THEN known ELSE same
          IN  seen' = [seen EXCEPT ![r] =
                [begun   |-> seen[r].begun,
                 map     |-> known,
                 first   |-> first,
                 same    |-> same,
                 like    |-> p = None /\ Resembles(c.look),
                 offer   |-> IF l \in DOMAIN offers THEN offers[l] ELSE None,
                 product |-> IF p = None THEN None ELSE products[p],
                 others  |-> \E m \in DOMAIN offers \ {l} :
                                offers[m].product = p /\ offers[m].stock,
                 outcome |-> IF p = None THEN "inserted" ELSE "updated",
                 match   |-> CASE same # None -> "verified"
                               [] p = None /\ Resembles(c.look) -> "possible"
                               [] OTHER -> "none"]]
    BY DEF Resolve
  <1> DEFINE p == IF known # None THEN known ELSE same
  <1>4. /\ seen'[r].map = known /\ seen'[r].same = same
        /\ seen'[r].outcome = IF (IF known # None THEN known ELSE same) = None
                              THEN "inserted" ELSE "updated"
    <2> HIDE DEF known, found
    <2> QED
      BY <1>3 DEF CollectorOK
  <1> HIDE DEF known, found
  <1> QED
    BY <1>4 DEF IsNew

LEMMA StepBalanced ==
    ASSUME CollectorOK, CatalogueOK, NEW r \in Run, Position(r), Decided(r), Balanced(r),
           Collect(r)
    PROVE  Balanced(r)'
  <1>0. /\ count[r].fetched \in Nat /\ count[r].inserted \in Nat /\ count[r].updated \in Nat
        /\ count[r].skipped \in Nat /\ count[r].failed \in Nat /\ count[r].verified \in Nat
        /\ count[r].possible \in Nat /\ made[r] \in Nat
        /\ plan[r].kind \in Kind
        /\ seen[r].outcome \in {"none", "inserted", "updated", "skipped"}
        /\ seen[r].match \in {"none", "verified", "possible"}
    BY CounterNat
  <1>1. CASE Start(r)
    <2>1. /\ plan' = plan /\ count' = count /\ made' = made
          /\ pc[r] = "idle" /\ pc'[r] = "fetch"
      BY <1>1 DEF Start, Goto, CollectorOK
    <2> QED
      BY <1>0, <2>1 DEF Balanced, Dealt, Busy, Upserts, Ended, Labels
  <1>2. CASE Fetch(r)
    <2>1. /\ plan' = plan /\ count' = count /\ made' = made
          /\ pc[r] = "fetch" /\ pc'[r] \in {"completing", "failing", "record"}
      BY <1>2 DEF Fetch, Goto, CollectorOK
    <2> QED
      BY <1>0, <2>1 DEF Balanced, Dealt, Busy, Upserts, Ended, Labels
  <1>3. CASE Record(r)
    <2> DEFINE n == count[r].fetched + 1
               c == plan[r].feed[n]
    <2>1. plan' = plan /\ made' = made /\ pc[r] = "record"
      BY <1>3 DEF Record
    <2>2. ASSUME Tally(r, {"fetched", "failed"}), Proceed(r, n)
          PROVE  Balanced(r)'
      <3>1. Adds(count[r], count'[r], {"fetched", "failed"})
        BY <2>2, TallyAdds
      <3>2. pc'[r] \in {"record", "completing", "fetch"}
        BY <2>2, ProceedGoes
      <3>3. /\ count'[r].fetched = count[r].fetched + 1 /\ count'[r].failed = count[r].failed + 1
            /\ count'[r].inserted = count[r].inserted /\ count'[r].updated = count[r].updated
            /\ count'[r].skipped = count[r].skipped /\ count'[r].verified = count[r].verified
            /\ count'[r].possible = count[r].possible
        BY <1>0, <3>1 DEF Adds
      <3> QED
        BY <1>0, <2>1, <3>2, <3>3 DEF Balanced, Dealt, Busy, Upserts
    <2>3. ASSUME Tally(r, {"fetched"}), pc' = [pc EXCEPT ![r] = "reread"]
          PROVE  Balanced(r)'
      <3>1. Adds(count[r], count'[r], {"fetched"})
        BY <2>3, TallyAdds
      <3>2. pc'[r] = "reread"
        BY <2>3 DEF CollectorOK
      <3> QED
        BY <1>0, <2>1, <3>1, <3>2 DEF Adds, Balanced, Dealt, Busy, Upserts
    <2>4. ASSUME Tally(r, {"fetched"}), NEW label \in {"mark", "reject", "lookup", "observe"},
                 pc' = [pc EXCEPT ![r] = label], seen' = [seen EXCEPT ![r] = Noted("inserted")],
                 label = "mark" => plan[r].kind = "video",
                 label = "observe" => plan[r].kind = "interest"
          PROVE  Balanced(r)'
      <3>1. Adds(count[r], count'[r], {"fetched"})
        BY <2>4, TallyAdds
      <3>2. pc'[r] = label /\ seen'[r].outcome = "inserted" /\ seen'[r].match = "none"
        BY <2>4 DEF CollectorOK, Noted
      <3> QED
        BY <1>0, <2>1, <2>4, <3>1, <3>2 DEF Adds, Balanced, Dealt, Busy, Upserts
    <2>5. c.valid \in BOOLEAN
      <3>1. /\ plan[r] \in Plan /\ Len(plan[r].feed) \in Nat
            /\ count[r].fetched \in Nat /\ page[r].end \in Nat
        BY RowTypes
      <3>2. plan[r].feed \in Seq(Payload) /\ n \in 1 .. Len(plan[r].feed)
        BY <2>1, <3>1 DEF Plan, Position
      <3>3. c \in Payload
        BY <3>2
      <3> QED
        BY <3>3 DEF Payload
    <2> QED
      BY <1>0, <1>3, <2>2, <2>3, <2>4, <2>5 DEF Record, Goto, Kind
  <1>4. CASE Reread(r)
    <2>1. /\ plan' = plan /\ made' = made /\ pc[r] = "reread"
          /\ Tally(r, {"skipped"}) /\ Proceed(r, count[r].fetched)
      BY <1>4 DEF Reread
    <2>2. Adds(count[r], count'[r], {"skipped"})
      BY <2>1, TallyAdds
    <2>3. pc'[r] \in {"record", "completing", "fetch"}
      BY <2>1, ProceedGoes
    <2>4. /\ count'[r].skipped = count[r].skipped + 1 /\ count'[r].failed = count[r].failed
          /\ count'[r].inserted = count[r].inserted /\ count'[r].updated = count[r].updated
          /\ count'[r].fetched = count[r].fetched /\ count'[r].verified = count[r].verified
          /\ count'[r].possible = count[r].possible
      BY <1>0, <2>2 DEF Adds
    <2> QED
      BY <1>0, <2>1, <2>3, <2>4 DEF Balanced, Dealt, Busy, Upserts
  <1>5. CASE Reject(r)
    <2>1. /\ plan' = plan /\ made' = made /\ pc[r] = "reject"
          /\ Tally(r, {"failed"}) /\ Proceed(r, count[r].fetched)
      BY <1>5 DEF Reject
    <2>2. Adds(count[r], count'[r], {"failed"})
      BY <2>1, TallyAdds
    <2>3. pc'[r] \in {"record", "completing", "fetch"}
      BY <2>1, ProceedGoes
    <2>4. /\ count'[r].failed = count[r].failed + 1 /\ count'[r].skipped = count[r].skipped
          /\ count'[r].inserted = count[r].inserted /\ count'[r].updated = count[r].updated
          /\ count'[r].fetched = count[r].fetched /\ count'[r].verified = count[r].verified
          /\ count'[r].possible = count[r].possible
      BY <1>0, <2>2 DEF Adds
    <2> QED
      BY <1>0, <2>1, <2>3, <2>4 DEF Balanced, Dealt, Busy, Upserts
  <1>6. CASE Resolve(r)
    <2>1. /\ plan' = plan /\ made' = made /\ count' = count /\ pc[r] = "resolve"
          /\ pc'[r] = "write"
      BY <1>6 DEF Resolve, Goto, CollectorOK
    <2> QED
      BY <1>0, <1>6, <2>1, ResolveCounts DEF Balanced, Dealt, Busy, Upserts
  <1>13. CASE Lookup(r)
    <2>1. /\ plan' = plan /\ made' = made /\ count' = count /\ pc[r] = "lookup"
          /\ pc'[r] = "resolve"
      BY <1>13 DEF Lookup, Goto, CollectorOK
    <2> QED
      BY <1>0, <2>1 DEF Balanced, Dealt, Busy, Upserts
  <1>7. CASE Write(r)
    <2>1. /\ plan' = plan /\ count' = count /\ seen' = seen /\ pc[r] = "write"
          /\ pc'[r] = "mark" /\ made'[r] = made[r] + (IF IsNew(r) THEN 1 ELSE 0)
      BY <1>7 DEF Write, Goto, CollectorOK
    <2> QED
      BY <1>0, <2>1 DEF Balanced, Dealt, Busy, Upserts
  <1>8. CASE Observe(r)
    <2>1. /\ plan' = plan /\ count' = count /\ made' = made /\ pc[r] = "observe"
          /\ pc'[r] = "mark"
          /\ seen' = seen \/ (seen'[r].outcome = "skipped" /\ seen'[r].match = "none")
      BY <1>8 DEF Observe, Goto, CollectorOK, Noted
    <2> QED
      BY <1>0, <2>1 DEF Balanced, Dealt, Busy, Upserts
  <1>9. CASE Mark(r)
    <2>1. /\ plan' = plan /\ made' = made /\ pc[r] = "mark"
          /\ Tally(r, {seen[r].outcome, seen[r].match}) /\ Proceed(r, count[r].fetched)
      BY <1>9 DEF Mark
    <2>2. Adds(count[r], count'[r], {seen[r].outcome, seen[r].match})
      BY <2>1, TallyAdds
    <2>3. pc'[r] \in {"record", "completing", "fetch"}
      BY <2>1, ProceedGoes
    <2> QED
      BY <1>0, <2>1, <2>2, <2>3 DEF Adds, Balanced, Dealt, Busy, Upserts
  <1>10. CASE DbFails(r)
    <2>1. /\ plan' = plan /\ count' = count /\ made' = made
          /\ pc[r] \in {"record"} \cup Busy /\ pc'[r] = "rollback"
      BY <1>10 DEF DbFails, Goto, CollectorOK, Busy, Upserts
    <2> QED
      BY <1>0, <2>1 DEF Balanced, Dealt, Busy, Upserts, Ended, Labels
  <1>11. CASE Finish(r)
    <2>1. /\ plan' = plan /\ count' = count /\ made' = made
          /\ pc[r] \in {"completing", "failing", "rollback"} /\ pc'[r] = "done"
      BY <1>11 DEF Finish, Goto, CollectorOK
    <2> QED
      BY <1>0, <2>1 DEF Balanced, Dealt, Busy, Upserts, Ended, Labels
  <1>12. CASE Die(r)
    <2>1. /\ plan' = plan /\ count' = count /\ made' = made
          /\ pc[r] \in Labels \ Ended /\ pc'[r] = "dead"
      BY <1>12 DEF Die, Goto, CollectorOK
    <2> QED
      BY <1>0, <2>1 DEF Balanced, Dealt, Busy, Upserts, Ended, Labels
  <1> QED
    BY <1>1, <1>2, <1>3, <1>4, <1>5, <1>6, <1>7, <1>8, <1>9, <1>10, <1>11, <1>12, <1>13 DEF Collect

(* The row of a run that has finished. *)
LEMMA StepRow ==
    ASSUME CollectorOK, NEW r \in Run, Balanced(r), RowIsCount(r), Collect(r)
    PROVE  RowIsCount(r)'
  <1>1. CASE Finish(r)
    <2>1. /\ plan' = plan /\ count' = count /\ made' = made /\ pc'[r] = "done"
          /\ row'[r].count = count[r]
          /\ row'[r].status = "completed" => pc[r] = "completing"
      BY <1>1 DEF Finish, Goto, CollectorOK
    <2> QED
      BY <2>1 DEF RowIsCount, Balanced
  <1>2. CASE Start(r)
    <2>1. row'[r].status = "running"
      BY <1>2 DEF Start, CollectorOK
    <2> QED
      BY <2>1 DEF RowIsCount
  <1>3. CASE \/ Fetch(r) \/ Record(r) \/ Reread(r) \/ Reject(r) \/ Lookup(r) \/ Resolve(r)
             \/ Write(r) \/ Observe(r) \/ Mark(r) \/ DbFails(r) \/ Die(r)
    <2>1. pc[r] # "done" /\ row' = row
      BY <1>3
      DEF Fetch, Record, Reread, Reject, Lookup, Resolve, Write, Observe, Mark, DbFails, Die, Ended,
          Upserts
    <2> QED
      BY <2>1 DEF RowIsCount
  <1> QED
    BY <1>1, <1>2, <1>3 DEF Collect

LEMMA StepRowFrame ==
    ASSUME CollectorOK, NEW r \in Run, Collect(r), NEW q \in Run \ {r}
    PROVE  made'[q] = made[q] /\ row'[q] = row[q]
  <1>1. CASE \/ Fetch(r) \/ Record(r) \/ Reread(r) \/ Reject(r) \/ Lookup(r) \/ Resolve(r)
             \/ Observe(r) \/ Mark(r) \/ DbFails(r) \/ Die(r)
    BY <1>1 DEF Fetch, Record, Reread, Reject, Lookup, Resolve, Observe, Mark, DbFails, Die
  <1>2. CASE Write(r) \/ Start(r) \/ Finish(r)
    BY <1>2 DEF Write, Start, Finish, CollectorOK
  <1> QED
    BY <1>1, <1>2 DEF Collect

-----------------------------------------------------------------------------
(* The inductive invariant. *)

RunInv(r) == Position(r) /\ Decided(r) /\ Balanced(r) /\ RowIsCount(r)

Parts == /\ CollectorOK /\ CatalogueOK /\ StoreOK
         /\ \A r \in Run : RunInv(r)
         /\ CatalogueInv /\ RetentionIsComplete

LEMMA InvParts == IInv <=> Parts
  BY TypeParts DEF IInv, Parts, RunInv, CatalogueInv, CatalogueIsSourced

(* The other collectors. *)
LEMMA OthersStay ==
    ASSUME CollectorOK, CatalogueOK, Founded, NEW q \in Run, RunInv(q), Untouched(q), Grows,
           page'[q] = page[q], made'[q] = made[q], row'[q] = row[q]
    PROVE  RunInv(q)'
  <1>1. RunInv(q) => Position(q) /\ Decided(q) /\ Balanced(q) /\ RowIsCount(q)
    BY DEF RunInv
  <1>2. Position(q)'
    BY <1>1 DEF Position, Untouched
  <1>3. Decided(q)'
    BY <1>1, DecidedKept
  <1>4. Balanced(q)'
    BY <1>1 DEF Balanced, Untouched, IsNew
  <1>5. RowIsCount(q)'
    BY <1>1 DEF RowIsCount, Untouched
  <1> QED
    BY <1>2, <1>3, <1>4, <1>5 DEF RunInv

LEMMA CollectPreserves ==
    ASSUME Parts, NEW r \in Run, Collect(r)
    PROVE  Parts'
  <1>1. /\ CollectorOK /\ CatalogueOK /\ StoreOK /\ CatalogueInv /\ RetentionIsComplete
        /\ Position(r) /\ Decided(r) /\ Balanced(r) /\ RowIsCount(r)
    BY DEF Parts, RunInv
  <1>2. CollectorOK' /\ Position(r)'
    BY <1>1, StepCollector
  <1>3. StoreOK'
    BY <1>1, StepStore
  <1>4. CatalogueOK' /\ CatalogueInv' /\ Grows
    BY <1>1, StepCatalogue
  <1>5. Decided(r)'
    BY <1>1, StepDecided
  <1>6. Balanced(r)'
    BY <1>1, StepBalanced
  <1>7. RowIsCount(r)'
    BY <1>1, StepRow
  <1>8. TypeOK
    BY <1>1, TypeParts
  <1>9. ASSUME NEW q \in Run \ {r} PROVE RunInv(q)'
    <2>1. /\ plan' = plan /\ pc'[q] = pc[q] /\ count'[q] = count[q]
          /\ page'[q] = page[q] /\ seen'[q] = seen[q]
      BY <1>8, StepFrame
    <2>2. made'[q] = made[q] /\ row'[q] = row[q]
      BY <1>1, StepRowFrame
    <2>3. RunInv(q) /\ Untouched(q)
      BY <2>1 DEF Parts, Untouched
    <2> QED
      BY <1>1, <1>4, <2>1, <2>2, <2>3, OthersStay DEF CatalogueInv
  <1>10. job' = job
    BY <1>8, StepFrame
  <1>11. RetentionIsComplete'
    BY <1>1, <1>10 DEF RetentionIsComplete
  <1> QED
    BY <1>2, <1>3, <1>4, <1>5, <1>6, <1>7, <1>9, <1>11 DEF Parts, RunInv

(* The retention and the clock touch no collector and no catalogue. *)
LEMMA OutsidePreserves ==
    ASSUME Parts, UNCHANGED <<collector, catalogue>>, StoreOK', RetentionIsComplete'
    PROVE  Parts'
  <1>1. Grows /\ CatalogueOK' /\ CatalogueInv'
    <2>1. UNCHANGED catalogue
      OBVIOUS
    <2> QED
      BY <2>1, CatalogueStays DEF Parts
  <1>2. CollectorOK'
    BY DEF Parts, CollectorOK, collector
  <1>3. ASSUME NEW q \in Run PROVE RunInv(q)'
    <2>1. /\ Untouched(q) /\ RunInv(q) /\ CollectorOK
          /\ page'[q] = page[q] /\ made'[q] = made[q] /\ row'[q] = row[q]
      BY DEF Parts, Untouched, collector
    <2> QED
      BY <1>1, <2>1, OthersStay DEF Parts, CatalogueInv
  <1> QED
    BY <1>1, <1>2, <1>3 DEF Parts

LEMMA PrunePreserves ==
    ASSUME Parts, NEW j \in Job, Prune(j)
    PROVE  Parts'
  <1>1. StoreOK' /\ RetentionIsComplete'
    BY PruneStore DEF Parts
  <1>2. UNCHANGED <<collector, catalogue>>
    BY DEF Prune, StartPruning, PruneBatch, PruneFails
  <1> QED
    BY <1>1, <1>2, OutsidePreserves

LEMMA AgePreserves ==
    ASSUME Parts, NEW k, Age(k)
    PROVE  Parts'
  <1>1. StoreOK' /\ job' = job
    BY AgeStore DEF Parts
  <1>2. UNCHANGED <<collector, catalogue>>
    BY DEF Age
  <1>3. RetentionIsComplete'
    BY <1>1 DEF RetentionIsComplete, Parts
  <1> QED
    BY <1>1, <1>2, <1>3, OutsidePreserves

LEMMA EmptyIs == DOMAIN Empty = {}
  BY DEF Empty

LEMMA InitParts ==
    ASSUME Init
    PROVE  Parts
  <1>1. CollectorOK
    BY UnreadType DEF Init, CollectorOK, Labels
  <1>2. CatalogueOK /\ CatalogueInv
    <2>1. /\ DOMAIN products = {} /\ DOMAIN maps = {} /\ obs = {} /\ DOMAIN offers = {}
          /\ DOMAIN history = {} /\ DOMAIN created = {}
      BY EmptyIs DEF Init
    <2>2. CatalogueOK
      BY <2>1 DEF CatalogueOK
    <2> QED
      BY <2>1, <2>2
      DEF CatalogueInv, Founded, ObservedIsMapped, GtinIsObserved, MergedOnlyByGtin, CanonicalIsPrimary,
          OfferStandsInHistory
  <1>3. StoreOK
    <2>1. /\ DOMAIN raws = {} /\ DOMAIN series = {} /\ old = {}
          /\ job = [j \in Job |-> [state |-> "idle", source |-> None, due |-> {},
                                   batches |-> 0, pruned |-> 0]]
      BY EmptyIs DEF Init
    <2>2. job \in [Job -> Pruning] /\ \A j \in Job : job[j].due = {}
      BY <2>1 DEF Pruning
    <2>3. IsFiniteSet(DOMAIN raws)
      BY <2>1, FS_EmptySet
    <2> QED
      BY <2>1, <2>2, <2>3 DEF StoreOK
  <1>4. RetentionIsComplete
    BY DEF Init, RetentionIsComplete
  <1>5. \A r \in Run : RunInv(r)
    BY DEF Init, RunInv, Position, Decided, Balanced, RowIsCount, Busy, Upserts, Dealt, Fresh
  <1> QED
    BY <1>1, <1>2, <1>3, <1>4, <1>5 DEF Parts

(* The invariant holds in every state of every behaviour. *)
THEOREM Invariance == Spec => []IInv
  <1>1. Init => Parts
    BY InitParts
  <1>2. Parts /\ [Next]_vars => Parts'
    <2> SUFFICES ASSUME Parts, [Next]_vars PROVE Parts'
      OBVIOUS
    <2>1. ASSUME NEW r \in Run, Collect(r) PROVE Parts'
      BY <2>1, CollectPreserves
    <2>2. ASSUME NEW j \in Job, Prune(j) PROVE Parts'
      BY <2>2, PrunePreserves
    <2>3. ASSUME NEW k \in DOMAIN raws, Age(k) PROVE Parts'
      BY <2>3, AgePreserves
    <2>4. CASE UNCHANGED vars
      <3>1. UNCHANGED <<collector, catalogue>> /\ UNCHANGED <<raws, old, series, job>>
        BY <2>4 DEF vars
      <3>2. StoreOK' /\ RetentionIsComplete'
        BY <3>1 DEF StoreOK, RetentionIsComplete, Parts
      <3> QED
        BY <3>1, <3>2, OutsidePreserves
    <2> QED
      BY <2>1, <2>2, <2>3, <2>4 DEF Next
  <1>3. Parts => IInv
    BY InvParts
  <1> QED
    BY <1>1, <1>2, <1>3, PTL DEF Spec

(* Every table keeps its type: in particular a mapping names a product, an   *)
(* offer belongs to a mapped listing and each offer has its history.         *)
THEOREM TypeCorrect == Spec => []TypeOK
  <1>1. IInv => TypeOK
    BY DEF IInv
  <1> QED
    BY <1>1, Invariance, PTL

(* A finished row accounts for every record it fetched but for the one that  *)
(* a database error interrupted, and its inserted count is the number of     *)
(* products it committed (finish_run, "its counters stay truthful").         *)
THEOREM TruthfulCounters == Spec => []CountersAreTruthful
  <1>1. IInv => CountersAreTruthful
    <2> SUFFICES ASSUME IInv, NEW r \in Run, row[r].status \in {"completed", "failed"}
                 PROVE  LET c == row[r].count
                            lost == c.fetched - (c.inserted + c.updated + c.skipped + c.failed)
                        IN  /\ lost \in {0, 1}
                            /\ row[r].status = "completed" => lost = 0
                            /\ plan[r].kind = "product" => made[r] - c.inserted \in 0 .. lost
                            /\ c.verified + c.possible <= c.inserted + c.updated
      BY DEF CountersAreTruthful
    <2>1. CollectorOK /\ Balanced(r) /\ RowIsCount(r)
      BY InvParts DEF Parts, RunInv
    <2>2. /\ count[r].fetched \in Nat /\ count[r].inserted \in Nat /\ count[r].updated \in Nat
          /\ count[r].skipped \in Nat /\ count[r].failed \in Nat /\ count[r].verified \in Nat
          /\ count[r].possible \in Nat /\ made[r] \in Nat
      BY <2>1, CounterNat
    <2>3. pc[r] = "done" /\ row[r].count = count[r]
      BY <2>1 DEF RowIsCount
    <2>4. /\ count[r].fetched \in {Dealt(count[r]), Dealt(count[r]) + 1}
          /\ count[r].verified + count[r].possible <= count[r].inserted + count[r].updated
          /\ plan[r].kind = "product" =>
                /\ count[r].inserted <= made[r]
                /\ made[r] <= count[r].inserted + (count[r].fetched - Dealt(count[r]))
      BY <2>1, <2>3 DEF Balanced
    <2>5. row[r].status = "completed" => count[r].fetched = Dealt(count[r])
      BY <2>1 DEF RowIsCount
    <2> QED
      BY <2>2, <2>3, <2>4, <2>5 DEF Dealt
  <1> QED
    BY <1>1, Invariance, PTL

(* Two listings share a product only if both were observed with one GTIN,    *)
(* whatever raced (resolve_identity, upsert_product).                        *)
THEOREM MergesAreGtins == Spec => []MergedOnlyByGtin
  <1>1. IInv => MergedOnlyByGtin
    BY DEF IInv
  <1> QED
    BY <1>1, Invariance, PTL

(* The canonical price was observed by a fixture, or by a listing whose      *)
(* mapping is as old as the one of the listing that created the product      *)
(* (_is_primary_source), and what an offer shows stands in its history       *)
(* (_upsert_retailer_offer), whatever upserts overlap.                       *)
THEOREM SourcedCatalogue == Spec => []CatalogueIsSourced
  <1>1. IInv => CatalogueIsSourced
    BY DEF IInv
  <1> QED
    BY <1>1, Invariance, PTL

(* A retention run that ends before its cap has left nothing that was due,   *)
(* also beside other retention runs of the same source.                      *)
THEOREM CompleteRetention == Spec => []RetentionIsComplete
  <1>1. IInv => RetentionIsComplete
    BY DEF IInv
  <1> QED
    BY <1>1, Invariance, PTL
-----------------------------------------------------------------------------
(* A behaviour of the jobs is one of Collection, so that what is proved of    *)
(* that holds of this.                                                        *)
LEMMA JobsCollect == JobsSpec => Spec
  <1>1. JobsInit => Init
    BY DEF JobsInit
  <1>2. [JobsNext]_all => [Next]_vars
    BY DEF JobsNext, all
  <1> QED
    BY <1>1, <1>2, PTL DEF JobsSpec, Spec

(* The notions of size of Folding and of the library are one.                 *)
LEMMA FoldingFinite ==
    \A S : /\ Clusters!Cardinality(S) = Cardinality(S)
           /\ Clusters!IsFiniteSet(S) <=> IsFiniteSet(S)
  BY DEF Clusters!Cardinality, Cardinality, Clusters!IsFiniteSet, IsFiniteSet

(* The members of a finite set of numbers, from the least.                    *)
LEMMA Numbered ==
    ASSUME NEW P \in SUBSET Int, IsFiniteSet(P)
    PROVE  LET nth(n) == CHOOSE i \in P : Cardinality({j \in P : j < i}) = n - 1
           IN  /\ Cardinality(P) \in Nat
               /\ \A n \in 1 .. Cardinality(P) : nth(n) \in P
               /\ \A m, n \in 1 .. Cardinality(P) : m < n => nth(m) < nth(n)
               /\ \A x \in P : \E n \in 1 .. Cardinality(P) : nth(n) = x
  <1> DEFINE nth(n) == CHOOSE i \in P : Cardinality({j \in P : j < i}) = n - 1
  <1>1. \A n : nth(n) = Clusters!Least(P, n)
    BY FoldingFinite DEF Clusters!Least
  <1> HIDE DEF nth
  <1>2. /\ Cardinality(P) \in Nat
        /\ \A n \in 1 .. Cardinality(P) : nth(n) \in P
        /\ \A m, n \in 1 .. Cardinality(P) : m < n => nth(m) < nth(n)
        /\ \A x \in P : \E n \in 1 .. Cardinality(P) : nth(n) = x
    <2>1. /\ Clusters!Cardinality(P) \in Nat
          /\ \A n \in 1 .. Clusters!Cardinality(P) : Clusters!Least(P, n) \in P
          /\ \A m, n \in 1 .. Clusters!Cardinality(P) : m < n => Clusters!Least(P, m) < Clusters!Least(P, n)
          /\ \A x \in P : \E n \in 1 .. Clusters!Cardinality(P) : Clusters!Least(P, n) = x
      BY FoldingFinite, Clusters!Numbered
    <2> QED
      BY <1>1, <2>1, FoldingFinite
  <1> QED
    BY <1>2 DEF nth
-----------------------------------------------------------------------------
(* MediaAttention: what a collector finds in a stretch of its window.         *)

Articles(c) == world[c].articles

Reported(c) == {Articles(c)[i] : i \in DOMAIN Articles(c)}

Places(c, from, to) == {i \in DOMAIN Articles(c) : Articles(c)[i].at >= from /\ Articles(c)[i].at < to}

(* The places of the first of each url.                                       *)
Firsts(c, from, to) ==
    {i \in Places(c, from, to) : \A j \in Places(c, from, to) : j < i => Articles(c)[j].url # Articles(c)[i].url}

FirstOf(c, from, to) == {Articles(c)[i] : i \in Firsts(c, from, to)}

LEMMA MediaCardinality == \A S : Media!Cardinality(S) = Cardinality(S)
  BY DEF Media!Cardinality, Cardinality

LEMMA ArticlesType ==
    ASSUME MediaAssumptions, world \in Worlds, NEW c \in Collector
    PROVE  /\ Len(Articles(c)) \in Nat /\ DOMAIN Articles(c) = 1 .. Len(Articles(c)) /\ DOMAIN Articles(c) \subseteq Int
           /\ \A i \in DOMAIN Articles(c) : Articles(c)[i].at \in Int /\ Articles(c)[i].at >= 0
           /\ \A from, to \in Int : /\ Places(c, from, to) \in SUBSET Int /\ IsFiniteSet(Places(c, from, to))
                                    /\ Places(c, from, to) \subseteq DOMAIN Articles(c)
                                    /\ Cardinality(Places(c, from, to)) \in Nat
  <1>1. /\ Len(Articles(c)) \in Nat /\ DOMAIN Articles(c) = 1 .. Len(Articles(c))
        /\ \A i \in DOMAIN Articles(c) : Articles(c)[i].at \in Nat
    BY DEF MediaAssumptions, Articles
  <1>2. IsFiniteSet(DOMAIN Articles(c)) /\ DOMAIN Articles(c) \subseteq Int
    <2> DEFINE n == Len(Articles(c))
    <2>1. n \in Int
      BY <1>1
    <2>2. IsFiniteSet(1 .. n)
      <3> HIDE DEF n
      <3> QED
        BY <2>1, FS_Interval
    <2> QED
      BY <1>1, <2>2
  <1>3. \A from, to \in Int : Places(c, from, to) \subseteq DOMAIN Articles(c)
    BY DEF Places
  <1>4. ASSUME NEW from \in Int, NEW to \in Int
        PROVE  Places(c, from, to) \in SUBSET Int /\ IsFiniteSet(Places(c, from, to))
               /\ Cardinality(Places(c, from, to)) \in Nat
    BY <1>2, <1>3, FS_Subset, FS_CardinalityType
  <1>5. \A i \in DOMAIN Articles(c) : Articles(c)[i].at \in Int /\ Articles(c)[i].at >= 0
    BY <1>1
  <1> QED
    BY <1>1, <1>2, <1>3, <1>4, <1>5

(* What the provider has in a slice.                                          *)
LEMMA WithinSlice ==
    ASSUME MediaAssumptions, world \in Worlds, NEW c \in Collector, NEW s, s.from \in Int, s.to \in Int
    PROVE  /\ Media!Within(c, s) \in Seq(Reported(c))
           /\ Len(Media!Within(c, s)) = Cardinality(Places(c, s.from, s.to))
           /\ Media!Range(Media!Within(c, s)) = {Articles(c)[i] : i \in Places(c, s.from, s.to)}
           /\ Media!Distinct(Media!Within(c, s)) = FirstOf(c, s.from, s.to)
  <1> DEFINE P == Places(c, s.from, s.to)
             nth(n) == CHOOSE i \in P : Cardinality({j \in P : j < i}) = n - 1
             q == Media!Within(c, s)
             size == Cardinality(P)
  <1>1. q = [n \in 1 .. size |-> Articles(c)[nth(n)]]
    <2> DEFINE other(n) == CHOOSE i \in P : Media!Cardinality({j \in P : j < i}) = n
               one(n) == CHOOSE i \in P : Cardinality({j \in P : j < i}) = n
    <2>1. \A n : other(n) = one(n)
      BY MediaCardinality
    <2>2. q = [n \in 1 .. size |-> Articles(c)[other(n - 1)]]
      BY MediaCardinality DEF Media!Within, Articles, Places
    <2>3. [n \in 1 .. size |-> Articles(c)[other(n - 1)]] = [n \in 1 .. size |-> Articles(c)[one(n - 1)]]
      <3> HIDE DEF other, one
      <3> QED
        BY <2>1
    <2> QED
      BY <2>2, <2>3
  <1>2. /\ size \in Nat
        /\ \A n \in 1 .. size : nth(n) \in P
        /\ \A m, n \in 1 .. size : m < n => nth(m) < nth(n)
        /\ \A x \in P : \E n \in 1 .. size : nth(n) = x
    <2>1. P \in SUBSET Int /\ IsFiniteSet(P)
      BY ArticlesType
    <2> HIDE DEF P
    <2> QED
      BY <2>1, Numbered
  <1>3. P \subseteq DOMAIN Articles(c) /\ P \subseteq Int /\ \A i \in P : Articles(c)[i].at >= s.from /\ Articles(c)[i].at < s.to
    BY ArticlesType DEF Places
  <1> HIDE DEF q, nth, size
  <1>4. DOMAIN q = 1 .. size /\ \A n \in 1 .. size : q[n] = Articles(c)[nth(n)] /\ q[n] \in Reported(c)
    BY <1>1, <1>2, <1>3 DEF Reported
  <1>5. q \in Seq(Reported(c)) /\ Len(q) = size
    <2>1. q \in [1 .. size -> Reported(c)]
      BY <1>1, <1>4
    <2> QED
      BY <1>2, <2>1
  <1>6. Media!Range(q) = {Articles(c)[i] : i \in P}
    <2>1. \A n \in DOMAIN q : \E i \in P : q[n] = Articles(c)[i]
      BY <1>2, <1>4
    <2>2. \A i \in P : \E n \in DOMAIN q : q[n] = Articles(c)[i]
      BY <1>2, <1>4
    <2> HIDE DEF P
    <2> QED
      BY <2>1, <2>2 DEF Media!Range
  <1>7. Media!Distinct(q) = FirstOf(c, s.from, s.to)
    <2> DEFINE F == {n \in DOMAIN q : \A m \in 1 .. n - 1 : q[m].url # q[n].url}
    <2>1. Media!Distinct(q) = {q[n] : n \in F}
      BY DEF Media!Distinct
    <2>2. ASSUME NEW n \in 1 .. size
          PROVE  n \in F <=> nth(n) \in Firsts(c, s.from, s.to)
      <3>1. ASSUME n \in F, NEW j \in P, j < nth(n) PROVE Articles(c)[j].url # Articles(c)[nth(n)].url
        <4>1. PICK m \in 1 .. size : nth(m) = j
          BY <1>2
        <4>2. nth(n) \in Int /\ j \in Int /\ m \in Int /\ n \in Int /\ (n < m => nth(n) < nth(m))
          BY <1>2, <1>3
        <4>3. m # n /\ ~ (n < m)
          BY <3>1, <4>1, <4>2
        <4>4. m \in 1 .. n - 1
          BY <1>2, <4>2, <4>3
        <4> QED
          BY <1>4, <3>1, <4>1, <4>4
      <3>2. ASSUME nth(n) \in Firsts(c, s.from, s.to), NEW m \in 1 .. n - 1 PROVE q[m].url # q[n].url
        <4>1. m \in 1 .. size /\ m < n
          BY <1>2
        <4>2. nth(m) \in P /\ nth(m) < nth(n)
          BY <1>2, <4>1
        <4> QED
          BY <1>4, <3>2, <4>1, <4>2 DEF Firsts
      <3> QED
        BY <1>2, <1>4, <3>1, <3>2 DEF Firsts
    <2>3. \A i \in Firsts(c, s.from, s.to) : \E n \in F : q[n] = Articles(c)[i]
      <3> SUFFICES ASSUME NEW i \in Firsts(c, s.from, s.to) PROVE \E n \in F : q[n] = Articles(c)[i]
        OBVIOUS
      <3>1. i \in P
        BY DEF Firsts
      <3>2. PICK n \in 1 .. size : nth(n) = i
        BY <1>2, <3>1
      <3> HIDE DEF F
      <3> QED
        BY <1>4, <2>2, <3>2
    <2>4. \A n \in F : \E i \in Firsts(c, s.from, s.to) : q[n] = Articles(c)[i]
      <3> HIDE DEF F
      <3>1. \A n \in F : n \in 1 .. size
        BY <1>4 DEF F
      <3> QED
        BY <1>4, <2>2, <3>1
    <2> HIDE DEF F
    <2> QED
      BY <2>1, <2>3, <2>4 DEF FirstOf
  <1> QED
    BY <1>5, <1>6, <1>7 DEF q, size

(* What is got next is distinct but for the urls that were got before.        *)
LEMMA DistinctJoin ==
    ASSUME NEW A, NEW q \in Seq(A), NEW r \in Seq(A)
    PROVE  Media!Distinct(q \o r) = Media!Distinct(q) \cup
              {x \in Media!Distinct(r) : \A y \in Media!Range(q) : y.url # x.url}
  <1> DEFINE n == Len(q)
             m == Len(r)
             s == q \o r
             F(p) == {i \in DOMAIN p : \A j \in 1 .. i - 1 : p[j].url # p[i].url}
             New(x) == \A j \in 1 .. n : q[j].url # x.url
  <1>1. /\ n \in Nat /\ m \in Nat /\ DOMAIN q = 1 .. n /\ DOMAIN r = 1 .. m /\ DOMAIN s = 1 .. n + m
        /\ \A i \in 1 .. n : s[i] = q[i]
        /\ \A i \in 1 .. m : s[n + i] = r[i]
        /\ \A i \in n + 1 .. n + m : s[i] = r[i - n] /\ i - n \in 1 .. m
    OBVIOUS
  <1>2. /\ \A p : Media!Distinct(p) = {p[i] : i \in F(p)}
        /\ \A x : New(x) <=> \A y \in Media!Range(q) : y.url # x.url
    <2>1. \A p : Media!Distinct(p) = {p[i] : i \in F(p)}
      BY DEF Media!Distinct
    <2>2. Media!Range(q) = {q[j] : j \in 1 .. n}
      BY <1>1 DEF Media!Range
    <2> HIDE DEF n
    <2> QED
      BY <2>1, <2>2
  <1> HIDE DEF n, m, s
  <1>3. ASSUME NEW i \in 1 .. n
        PROVE  i \in F(s) <=> i \in F(q)
    <2>1. \A j \in 1 .. i - 1 : j \in 1 .. n
      BY <1>1
    <2>2. i \in 1 .. n + m
      BY <1>1
    <2> QED
      BY <1>1, <2>1, <2>2
  <1>4. ASSUME NEW i \in 1 .. m
        PROVE  n + i \in F(s) <=> i \in F(r) /\ New(r[i])
    <2>1. n + i \in 1 .. n + m
      BY <1>1
    <2>2. ASSUME n + i \in F(s), NEW j \in 1 .. i - 1 PROVE r[j].url # r[i].url
      <3>1. n + j \in 1 .. n + i - 1 /\ j \in 1 .. m
        BY <1>1
      <3> QED
        BY <1>1, <2>2, <3>1
    <2>3. ASSUME n + i \in F(s), NEW j \in 1 .. n PROVE q[j].url # r[i].url
      <3>1. j \in 1 .. n + i - 1
        BY <1>1
      <3> QED
        BY <1>1, <2>3, <3>1
    <2>4. ASSUME i \in F(r), New(r[i]), NEW j \in 1 .. n + i - 1 PROVE s[j].url # s[n + i].url
      <3>1. CASE j <= n
        <4>1. j \in 1 .. n
          BY <1>1, <3>1
        <4> QED
          BY <1>1, <2>4, <4>1
      <3>2. CASE j > n
        <4>1. j - n \in 1 .. i - 1 /\ j \in n + 1 .. n + m
          BY <1>1, <3>2
        <4> QED
          BY <1>1, <2>4, <4>1
      <3> QED
        BY <1>1, <3>1, <3>2
    <2> QED
      BY <1>1, <2>1, <2>2, <2>3, <2>4
  <1>5. ASSUME NEW x \in Media!Distinct(s)
        PROVE  x \in Media!Distinct(q) \/ (x \in Media!Distinct(r) /\ New(x))
    <2>1. PICK i \in F(s) : x = s[i]
      BY <1>2
    <2>2. i \in 1 .. n + m
      BY <1>1, <2>1
    <2>3. CASE i <= n
      <3>1. i \in 1 .. n
        BY <1>1, <2>2, <2>3
      <3>2. i \in F(q) /\ s[i] = q[i]
        BY <1>1, <1>3, <2>1, <3>1
      <3> HIDE DEF F, New
      <3> QED
        BY <1>2, <2>1, <3>2
    <2>4. CASE i > n
      <3>1. i \in n + 1 .. n + m /\ n + (i - n) = i
        BY <1>1, <2>2, <2>4
      <3>2. i - n \in 1 .. m /\ s[i] = r[i - n]
        BY <1>1, <3>1
      <3> HIDE DEF F, New
      <3>3. i - n \in F(r) /\ New(r[i - n])
        BY <1>4, <2>1, <3>1, <3>2
      <3> QED
        BY <1>2, <2>1, <3>2, <3>3
    <2> QED
      BY <1>1, <2>2, <2>3, <2>4
  <1>6. ASSUME NEW x \in Media!Distinct(q) PROVE x \in Media!Distinct(s)
    <2>1. PICK i \in F(q) : x = q[i]
      BY <1>2
    <2>2. i \in 1 .. n
      BY <1>1, <2>1
    <2>3. i \in F(s) /\ s[i] = q[i]
      BY <1>1, <1>3, <2>1, <2>2
    <2> HIDE DEF F
    <2> QED
      BY <1>2, <2>1, <2>3
  <1>7. ASSUME NEW x \in Media!Distinct(r), New(x) PROVE x \in Media!Distinct(s)
    <2>1. PICK i \in F(r) : x = r[i]
      BY <1>2
    <2>2. i \in 1 .. m
      BY <1>1, <2>1
    <2> HIDE DEF F, New
    <2>3. n + i \in F(s) /\ s[n + i] = r[i]
      BY <1>1, <1>4, <1>7, <2>1, <2>2
    <2> QED
      BY <1>2, <2>1, <2>3
  <1> HIDE DEF F, New
  <1>8. \A x : x \in Media!Distinct(s) <=> x \in Media!Distinct(q) \/ (x \in Media!Distinct(r) /\ New(x))
    BY <1>5, <1>6, <1>7
  <1> QED
    BY <1>2, <1>8 DEF s

(* Of a stretch and the next.                                                 *)
LEMMA PlacesJoin ==
    ASSUME MediaAssumptions, world \in Worlds, NEW c \in Collector,
           NEW a \in Int, NEW m \in Int, NEW b \in Int, a <= m, m <= b
    PROVE  /\ Cardinality(Places(c, a, m)) + Cardinality(Places(c, m, b)) = Cardinality(Places(c, a, b))
           /\ Places(c, a, b) = Places(c, a, m) \cup Places(c, m, b)
  <1> DEFINE P == Places(c, a, m)
             Q == Places(c, m, b)
             R == Places(c, a, b)
  <1>1. /\ \A i \in DOMAIN Articles(c) : Articles(c)[i].at \in Int
        /\ IsFiniteSet(P) /\ IsFiniteSet(Q)
    BY ArticlesType
  <1>2. R = P \cup Q /\ P \cap Q = {}
    BY <1>1 DEF Places
  <1> HIDE DEF P, Q, R
  <1>3. Cardinality(P \cup Q) = Cardinality(P) + Cardinality(Q) - Cardinality(P \cap Q)
    BY <1>1, FS_Union
  <1>4. Cardinality(P \cap Q) = 0 /\ Cardinality(P) \in Nat /\ Cardinality(Q) \in Nat
    BY <1>1, <1>2, FS_EmptySet, FS_CardinalityType
  <1>5. Cardinality(R) = Cardinality(P) + Cardinality(Q)
    BY <1>2, <1>3, <1>4
  <1> QED
    BY <1>2, <1>5 DEF P, Q, R

(* Where the copies of a url come in order, the first of the two stretches.   *)
LEMMA FirstJoin ==
    ASSUME MediaAssumptions, world \in Worlds, NEW c \in Collector, Media!EarliestFirst(c),
           NEW a \in Int, NEW m \in Int, NEW b \in Int, a <= m, m <= b
    PROVE  FirstOf(c, a, m) \cup {x \in FirstOf(c, m, b) : \A j \in Places(c, a, m) : Articles(c)[j].url # x.url}
                 = FirstOf(c, a, b)
  <1> DEFINE P == Places(c, a, m)
             Q == Places(c, m, b)
             R == Places(c, a, b)
             New(i) == \A j \in P : Articles(c)[j].url # Articles(c)[i].url
  <1>1. /\ \A i \in DOMAIN Articles(c) : Articles(c)[i].at \in Int
        /\ \A i, j \in DOMAIN Articles(c) :
              Articles(c)[i].url = Articles(c)[j].url /\ i < j => Articles(c)[i].at <= Articles(c)[j].at
        /\ R \in SUBSET Int
    BY ArticlesType DEF Media!EarliestFirst, Articles
  <1>2. R = P \cup Q /\ P \cap Q = {}
    BY <1>1 DEF Places
  <1>3. \A i \in P, j \in Q : Articles(c)[i].url = Articles(c)[j].url => i < j
    <2>1. ASSUME NEW i \in P, NEW j \in Q, Articles(c)[i].url = Articles(c)[j].url PROVE i < j
      <3>1. Articles(c)[i].at < m /\ m <= Articles(c)[j].at /\ i \in DOMAIN Articles(c) /\ j \in DOMAIN Articles(c)
        BY <1>1 DEF Places
      <3>2. Articles(c)[i].at \in Int /\ Articles(c)[j].at \in Int
        BY <1>1, <3>1
      <3>3. ~ (Articles(c)[j].at <= Articles(c)[i].at)
        BY <3>1, <3>2
      <3>4. ~ (j < i)
        BY <1>1, <2>1, <3>1, <3>3
      <3>5. i # j
        BY <3>1, <3>2
      <3>6. i \in Int /\ j \in Int
        BY <1>1, <1>2
      <3> QED
        BY <3>4, <3>5, <3>6
    <2> QED
      BY <2>1
  <1>4. R \subseteq Int
    BY <1>1
  <1>5. /\ \A i : i \in Firsts(c, a, m) <=> i \in P /\ \A j \in P : j < i => Articles(c)[j].url # Articles(c)[i].url
        /\ \A i : i \in Firsts(c, m, b) <=> i \in Q /\ \A j \in Q : j < i => Articles(c)[j].url # Articles(c)[i].url
        /\ \A i : i \in Firsts(c, a, b) <=> i \in R /\ \A j \in R : j < i => Articles(c)[j].url # Articles(c)[i].url
    BY DEF Firsts
  <1> HIDE DEF P, Q, R
  <1>6. ASSUME NEW i \in P PROVE i \in Firsts(c, a, m) <=> i \in Firsts(c, a, b)
    <2>1. ASSUME NEW j \in Q, j < i PROVE Articles(c)[j].url # Articles(c)[i].url
      <3>1. i \in Int /\ j \in Int
        BY <1>2, <1>4
      <3> QED
        BY <1>3, <2>1, <3>1
    <2> QED
      BY <1>2, <1>5, <2>1
  <1>7. ASSUME NEW i \in Q PROVE i \in Firsts(c, a, b) <=> i \in Firsts(c, m, b) /\ New(i)
    <2>1. ASSUME NEW j \in P, Articles(c)[j].url = Articles(c)[i].url PROVE j < i
      BY <1>3, <2>1
    <2> QED
      BY <1>2, <1>5, <2>1
  <1>8. \A i : i \in Firsts(c, a, b) <=> i \in Firsts(c, a, m) \/ (i \in Firsts(c, m, b) /\ New(i))
    <2>1. \A i \in Firsts(c, a, b) : i \in P \/ i \in Q
      BY <1>2, <1>5
    <2>2. (\A i \in Firsts(c, a, m) : i \in P) /\ (\A i \in Firsts(c, m, b) : i \in Q)
      BY <1>5
    <2> HIDE DEF New
    <2> QED
      BY <1>6, <1>7, <2>1, <2>2
  <1>9. FirstOf(c, a, m) \cup {x \in FirstOf(c, m, b) : \A j \in P : Articles(c)[j].url # x.url} = FirstOf(c, a, b)
    <2>1. \A x : x \in FirstOf(c, a, m) <=> \E i \in Firsts(c, a, m) : x = Articles(c)[i]
      BY DEF FirstOf
    <2>2. \A x : x \in FirstOf(c, m, b) <=> \E i \in Firsts(c, m, b) : x = Articles(c)[i]
      BY DEF FirstOf
    <2>3. \A x : x \in FirstOf(c, a, b) <=> \E i \in Firsts(c, a, b) : x = Articles(c)[i]
      BY DEF FirstOf
    <2> QED
      BY <1>8, <2>1, <2>2, <2>3
  <1> QED
    BY <1>9 DEF P, Q, R
-----------------------------------------------------------------------------
(* MediaAttention: the slices still to query follow one another up to the end *)
(* of the window, and what has been got is what lies before them.             *)

SliceRows == [from : Int, to : Int, depth : Int]

SlicesFollow(c) ==
    /\ todo[c] \in Seq(SliceRows)
    /\ \A i \in DOMAIN todo[c] :
          /\ todo[c][i].from <= todo[c][i].to
          /\ todo[c][i].to = IF i = Len(todo[c]) THEN Window ELSE todo[c][i + 1].from

Reached(c) == IF todo[c] = <<>> THEN Window ELSE todo[c][1].from

Whole(c, t) ==
    /\ Len(got[c]) = Cardinality(Places(c, 0, t))
    /\ Media!EarliestFirst(c) => Media!Distinct(got[c]) = FirstOf(c, 0, t)
    /\ Media!Range(got[c]) = {Articles(c)[i] : i \in Places(c, 0, t)}

Kept == {"storing", "marking", "publishing", "relinking", "finishing"}

GotInv(c) ==
    /\ got[c] \in Seq(Reported(c))
    /\ at[c] = "idle" => got[c] = <<>>
    /\ at[c] = "slicing" /\ ~ cut[c] => 0 <= Reached(c) /\ Whole(c, Reached(c))
    /\ at[c] \in Kept /\ ~ cut[c] => Whole(c, Window)

(* Each article is counted when it is stored.                                 *)
CountInv(c) ==
    /\ run[c] \in Media!RunRow /\ stored[c] \in Nat
    /\ run[c].fetched = run[c].inserted + run[c].skipped
    /\ at[c] \in {"idle", "slicing"} => run[c].fetched = 0 /\ stored[c] = 0
    /\ at[c] = "storing" => run[c].fetched = stored[c] /\ stored[c] <= Len(got[c])
    /\ at[c] = "marking" => run[c].fetched = stored[c] + 1 /\ stored[c] < Len(got[c])
    /\ at[c] \in {"publishing", "relinking", "finishing"} /\ ~ cut[c] => run[c].fetched = Len(got[c])
    /\ run[c].status = "completed" => at[c] = "done"
    /\ run[c].status = "completed" /\ ~ cut[c] => run[c].fetched = Cardinality(Places(c, 0, Window))

IsObserved(c, o) ==
    /\ o.raw = Cardinality(Media!Urls(c))
    /\ \E D \in Media!Selections(c) :
          /\ o.value = Len(Media!Clustered(D))
          /\ Media!EarliestFirst(c) => D = Media!Distinct(Media!Everything(c))

ObservedInv ==
    \A k \in DOMAIN observed :
        /\ DOMAIN observed[k] = {"status", "value", "raw", "count", "pruned"}
        /\ observed[k].status = "present" =>
              \E c \in Collector : Media!KeyOf(c) = k /\ IsObserved(c, observed[k])

ByCollector == /\ DOMAIN at = Collector /\ DOMAIN todo = Collector /\ DOMAIN got = Collector
               /\ DOMAIN cut = Collector /\ DOMAIN stored = Collector /\ DOMAIN run = Collector

MediaInv == /\ world \in Worlds /\ ByCollector
            /\ \A c \in Collector : SlicesFollow(c) /\ GotInv(c) /\ CountInv(c)
            /\ ObservedInv
CollectorInv(c) == SlicesFollow(c) /\ GotInv(c) /\ CountInv(c)

Rests(c) == /\ at'[c] = at[c] /\ todo'[c] = todo[c] /\ got'[c] = got[c]
            /\ cut'[c] = cut[c] /\ stored'[c] = stored[c] /\ run'[c] = run[c]

LEMMA CollectorRests ==
    ASSUME NEW c \in Collector, CollectorInv(c), Rests(c), world' = world
    PROVE  CollectorInv(c)'
  <1>1. Articles(c)' = Articles(c)
    BY DEF Articles
  <1>2. \A t : (Places(c, 0, t)' = Places(c, 0, t)) /\ FirstOf(c, 0, t)' = FirstOf(c, 0, t)
    BY <1>1 DEF Places, FirstOf, Firsts
  <1>3. Reported(c)' = Reported(c)
    BY <1>1 DEF Reported
  <1>4. SlicesFollow(c)' /\ Reached(c)' = Reached(c)
    BY DEF CollectorInv, SlicesFollow, Reached, Rests
  <1>5. \A t : Whole(c, t)' <=> Whole(c, t)
    BY <1>1, <1>2 DEF Whole, Rests, Media!EarliestFirst
  <1>6. GotInv(c)'
    BY <1>3, <1>4, <1>5 DEF CollectorInv, GotInv, Rests
  <1>7. CountInv(c)'
    BY <1>2 DEF CollectorInv, CountInv, Rests
  <1> QED
    BY <1>4, <1>6, <1>7 DEF CollectorInv

(* What is observed of a window is a matter of the window alone.              *)
LEMMA WindowsRest ==
    ASSUME world' = world
    PROVE  /\ \A c : Media!KeyOf(c)' = Media!KeyOf(c)
           /\ \A c, o : IsObserved(c, o)' <=> IsObserved(c, o)
  <1>1. \A c : Media!Everything(c)' = Media!Everything(c)
    BY DEF Media!Everything, Media!Within
  <1>2. \A c : Media!Urls(c)' = Media!Urls(c)
    BY <1>1 DEF Media!Urls
  <1>3. \A c : Media!Selections(c)' = Media!Selections(c)
    BY <1>1, <1>2 DEF Media!Selections
  <1>4. \A c : Media!EarliestFirst(c)' <=> Media!EarliestFirst(c)
    BY DEF Media!EarliestFirst
  <1>5. \A c : Media!KeyOf(c)' = Media!KeyOf(c)
    BY DEF Media!KeyOf
  <1> QED
    BY <1>1, <1>2, <1>3, <1>4, <1>5 DEF IsObserved

LEMMA ObservedRests ==
    ASSUME ObservedInv, world' = world, observed' = observed
    PROVE  ObservedInv'
  BY WindowsRest DEF ObservedInv

(* A step of one collector.                                                   *)
LEMMA OthersRest ==
    ASSUME MediaInv, NEW c \in Collector, world' = world, ByCollector',
           \A d \in Collector \ {c} : Rests(d), CollectorInv(c)', ObservedInv'
    PROVE  MediaInv'
  <1>1. \A d \in Collector \ {c} : CollectorInv(d)'
    BY CollectorRests DEF MediaInv, CollectorInv
  <1>2. \A d \in Collector : CollectorInv(d)'
    BY <1>1
  <1>3. world' \in Worlds
    BY DEF MediaInv
  <1> QED
    BY <1>2, <1>3 DEF MediaInv, CollectorInv

(* What is got before the beginning of the window.                            *)
LEMMA NothingBefore ==
    ASSUME MediaAssumptions, world \in Worlds, NEW c \in Collector
    PROVE  Places(c, 0, 0) = {} /\ FirstOf(c, 0, 0) = {} /\ Cardinality(Places(c, 0, 0)) = 0
  <1>1. Places(c, 0, 0) = {}
    BY ArticlesType DEF Places
  <1> QED
    BY <1>1, FS_EmptySet DEF FirstOf, Firsts

LEMMA MediaInit ==
    ASSUME MediaAssumptions, Media!Init
    PROVE  MediaInv
  <1> USE DEF Media!Init
  <1>1. ByCollector /\ world \in Worlds
    BY DEF ByCollector
  <1>2. ASSUME NEW c \in Collector PROVE SlicesFollow(c)
    BY DEF SlicesFollow
  <1>3. ASSUME NEW c \in Collector PROVE GotInv(c)
    BY DEF GotInv, Kept
  <1>4. ASSUME NEW c \in Collector PROVE CountInv(c)
    BY DEF CountInv, Media!RunRow
  <1>5. ObservedInv
    BY DEF ObservedInv, Media!NoRows
  <1> QED
    BY <1>1, <1>2, <1>3, <1>4, <1>5 DEF MediaInv

-----------------------------------------------------------------------------
(* The steps of a collector.                                                  *)

LEMMA StartStep ==
    ASSUME MediaAssumptions, MediaInv, NEW c \in Collector, Media!Start(c)
    PROVE  MediaInv'
  <1>1. /\ world' = world /\ observed' = observed /\ at[c] = "idle"
        /\ at' = [at EXCEPT ![c] = "slicing"]
        /\ run' = [run EXCEPT ![c].status = "running"]
        /\ todo' = [todo EXCEPT ![c] = <<[from |-> 0, to |-> Window, depth |-> 0]>>]
        /\ got' = got /\ cut' = cut /\ stored' = stored
    BY DEF Media!Start, Media!Go, Media!store
  <1>2. ByCollector /\ SlicesFollow(c) /\ GotInv(c) /\ CountInv(c) /\ ObservedInv /\ Window \in Nat
    BY DEF MediaInv, MediaAssumptions
  <1>3. ByCollector' /\ \A d \in Collector \ {c} : Rests(d)
    BY <1>1, <1>2 DEF ByCollector, Rests
  <1>4. /\ at'[c] = "slicing" /\ todo'[c] = <<[from |-> 0, to |-> Window, depth |-> 0]>>
        /\ run'[c] = [run[c] EXCEPT !.status = "running"]
    BY <1>1, <1>2 DEF ByCollector
  <1>5. SlicesFollow(c)'
    <2> DEFINE q == <<[from |-> 0, to |-> Window, depth |-> 0]>>
    <2>1. q \in Seq(SliceRows) /\ Len(q) = 1 /\ DOMAIN q = 1 .. 1 /\ q[1].from = 0 /\ q[1].to = Window
      BY <1>2 DEF SliceRows
    <2>2. todo'[c] = q
      BY <1>4
    <2>3. Window \in Nat
      BY <1>2
    <2> HIDE DEF q
    <2> QED
      BY <2>1, <2>2, <2>3 DEF SlicesFollow
  <1>6. GotInv(c)'
    <2>1. Reached(c)' = 0
      BY <1>4 DEF Reached
    <2>2. got'[c] = <<>> /\ world \in Worlds
      BY <1>1, <1>2 DEF GotInv, MediaInv
    <2>3. Articles(c)' = Articles(c) /\ Places(c, 0, 0)' = Places(c, 0, 0) /\ FirstOf(c, 0, 0)' = FirstOf(c, 0, 0)
      BY <1>1 DEF Articles, Places, FirstOf, Firsts
    <2>4. Places(c, 0, 0) = {} /\ FirstOf(c, 0, 0) = {} /\ Cardinality(Places(c, 0, 0)) = 0
      BY <2>2, NothingBefore
    <2>5. Media!Distinct(<<>>) = {} /\ Media!Range(<<>>) = {} /\ Len(<<>>) = 0
      BY DEF Media!Distinct, Media!Range
    <2>6. Whole(c, 0)'
      <3>1. got'[c] = <<>>
        BY <2>2
      <3>2. Places(c, 0, 0)' = {} /\ FirstOf(c, 0, 0)' = {} /\ Cardinality(Places(c, 0, 0)') = 0
        BY ONLY <2>3, <2>4
      <3>3. Len(got'[c]) = 0 /\ Media!Distinct(got'[c]) = {} /\ Media!Range(got'[c]) = {}
        BY ONLY <2>5, <3>1, Zenon
      <3>4. {Articles(c)'[i] : i \in Places(c, 0, 0)'} = {}
        BY ONLY <3>2
      <3>5. Len(got'[c]) = Cardinality(Places(c, 0, 0)') /\ Media!Distinct(got'[c]) = FirstOf(c, 0, 0)'
        BY ONLY <3>2, <3>3, Zenon
      <3>6. Media!Range(got'[c]) = {Articles(c)'[i] : i \in Places(c, 0, 0)'}
        BY ONLY <3>3, <3>4, Zenon
      <3> QED
        BY <3>5, <3>6, Zenon DEF Whole
    <2> QED
      BY <1>4, <2>1, <2>2, <2>6 DEF GotInv, Kept
  <1>7. CountInv(c)'
    BY <1>1, <1>2, <1>4 DEF CountInv, Media!RunRow
  <1>8. ObservedInv'
    BY <1>1, <1>2, ObservedRests
  <1> QED
    BY <1>1, <1>3, <1>5, <1>6, <1>7, <1>8, OthersRest DEF CollectorInv
(* A slice below the cap is what comes next; of one above it the halves are   *)
(* asked for.                                                                 *)
LEMMA QuerySliceStep ==
    ASSUME MediaAssumptions, MediaInv, NEW c \in Collector, Media!QuerySlice(c)
    PROVE  MediaInv'
  <1> DEFINE s == Head(todo[c])
             n == Len(todo[c])
  <1>1. /\ world' = world /\ observed' = observed /\ at[c] = "slicing" /\ todo[c] # <<>>
        /\ at' = at /\ run' = run /\ stored' = stored
        /\ \/ /\ got' = [got EXCEPT ![c] = @ \o Media!Within(c, s)]
              /\ todo' = [todo EXCEPT ![c] = Tail(@)]
              /\ cut' = cut
           \/ /\ cut' = [cut EXCEPT ![c] = TRUE]
              /\ todo' = [todo EXCEPT ![c] = <<>>]
              /\ got' = got
           \/ /\ todo' = [todo EXCEPT ![c] = Media!Halves(s) \o Tail(@)]
              /\ got' = got /\ cut' = cut
    BY DEF Media!QuerySlice, Media!GiveUp, Media!store
  <1>2. ByCollector /\ SlicesFollow(c) /\ GotInv(c) /\ CountInv(c) /\ ObservedInv /\ Window \in Nat /\ world \in Worlds
    BY DEF MediaInv, MediaAssumptions
  <1>3. ByCollector' /\ \A d \in Collector \ {c} : Rests(d)
    BY <1>1, <1>2 DEF ByCollector, Rests
  <1>4. /\ n \in Nat /\ n >= 1 /\ DOMAIN todo[c] = 1 .. n /\ todo[c] \in Seq(SliceRows)
        /\ s = todo[c][1] /\ s \in SliceRows /\ s.from <= s.to
        /\ s.to = IF n = 1 THEN Window ELSE todo[c][2].from
        /\ Reached(c) = s.from
    <2>1. n \in Nat /\ n >= 1 /\ DOMAIN todo[c] = 1 .. n /\ todo[c] \in Seq(SliceRows)
      BY <1>1, <1>2 DEF SlicesFollow
    <2>2. 1 \in 1 .. n /\ s = todo[c][1]
      BY <2>1
    <2>3. todo[c][1] \in SliceRows
      BY <2>1, <2>2
    <2>4. todo[c][1].from <= todo[c][1].to
          /\ todo[c][1].to = IF 1 = Len(todo[c]) THEN Window ELSE todo[c][1 + 1].from
      <3>1. 1 \in DOMAIN todo[c]
        BY <2>1, <2>2
      <3> QED
        BY <1>2, <3>1 DEF SlicesFollow
    <2>5. Reached(c) = todo[c][1].from
      BY <1>1 DEF Reached
    <2>6. 1 + 1 = 2
      OBVIOUS
    <2> QED
      BY <2>1, <2>2, <2>3, <2>4, <2>5, <2>6
  <1>5. s.from \in Int /\ s.to \in Int /\ s.depth \in Int
    BY <1>4 DEF SliceRows
  <1>6. /\ \A t : (Places(c, 0, t)' = Places(c, 0, t)) /\ FirstOf(c, 0, t)' = FirstOf(c, 0, t)
        /\ Articles(c)' = Articles(c) /\ Reported(c)' = Reported(c)
        /\ Media!EarliestFirst(c)' <=> Media!EarliestFirst(c)
    BY <1>1 DEF Articles, Places, FirstOf, Firsts, Reported, Media!EarliestFirst
  <1>7. ObservedInv'
    BY <1>1, <1>2, ObservedRests
  <1>8. Tail(todo[c]) \in Seq(SliceRows) /\ Len(Tail(todo[c])) = n - 1
        /\ \A i \in 1 .. n - 1 : Tail(todo[c])[i] = todo[c][i + 1]
    BY <1>1, <1>4
  <1> HIDE DEF s, n
  <1>9. CASE /\ got' = [got EXCEPT ![c] = @ \o Media!Within(c, s)]
             /\ todo' = [todo EXCEPT ![c] = Tail(@)]
             /\ cut' = cut
    <2> DEFINE w == Media!Within(c, s)
               rest == Tail(todo[c])
    <2>1. got'[c] = got[c] \o w /\ todo'[c] = rest
      BY <1>2, <1>9 DEF ByCollector
    <2>2. /\ w \in Seq(Reported(c)) /\ Len(w) = Cardinality(Places(c, s.from, s.to))
          /\ Media!Range(w) = {Articles(c)[i] : i \in Places(c, s.from, s.to)}
          /\ Media!Distinct(w) = FirstOf(c, s.from, s.to)
      BY <1>2, <1>5, WithinSlice
    <2> HIDE DEF w
    <2>3. SlicesFollow(c)'
      <3>1. rest \in Seq(SliceRows) /\ Len(rest) = n - 1 /\ DOMAIN rest = 1 .. n - 1
        BY <1>4, <1>8
      <3>2. ASSUME NEW i \in 1 .. n - 1
            PROVE  /\ rest[i].from <= rest[i].to
                   /\ rest[i].to = IF i = n - 1 THEN Window ELSE rest[i + 1].from
        <4>1. i + 1 \in 1 .. n /\ rest[i] = todo[c][i + 1] /\ (i # n - 1 => i + 1 \in 1 .. n - 1)
          BY <1>4, <1>8
        <4>2. i # n - 1 => rest[i + 1] = todo[c][i + 2]
          BY <1>8, <4>1
        <4>3. todo[c][i + 1].from <= todo[c][i + 1].to
              /\ todo[c][i + 1].to = IF i + 1 = n THEN Window ELSE todo[c][i + 2].from
          BY <1>2, <1>4, <4>1 DEF SlicesFollow, n
        <4> QED
          BY <1>4, <4>1, <4>2, <4>3
      <3> HIDE DEF rest
      <3> QED
        BY <2>1, <3>1, <3>2 DEF SlicesFollow
    <2>4. Reached(c)' = s.to
      <3>1. CASE n = 1
        <4>1. rest = <<>>
          <5>1. rest \in Seq(SliceRows) /\ Len(rest) = 0
            BY <1>4, <1>8, <3>1
          <5> HIDE DEF rest
          <5> QED
            BY <5>1
        <4> QED
          BY <1>4, <2>1, <3>1, <4>1 DEF Reached
      <3>2. CASE n # 1
        <4>1. rest # <<>> /\ rest[1] = todo[c][2]
          <5>1. n - 1 >= 1 /\ 1 \in 1 .. n - 1 /\ 1 + 1 = 2
            BY <1>4, <3>2
          <5>2. Len(rest) = n - 1 /\ rest[1] = todo[c][1 + 1]
            BY <1>8, <5>1
          <5> HIDE DEF rest
          <5> QED
            BY <5>1, <5>2
        <4> QED
          BY <1>4, <2>1, <3>2, <4>1 DEF Reached
      <3> QED
        BY <3>1, <3>2
    <2>5. got'[c] \in Seq(Reported(c)) /\ Len(got'[c]) = Len(got[c]) + Len(w)
          /\ Media!Range(got'[c]) = Media!Range(got[c]) \cup Media!Range(w)
      <3>1. got[c] \in Seq(Reported(c))
        BY <1>2 DEF GotInv
      <3>2. got'[c] \in Seq(Reported(c)) /\ Len(got'[c]) = Len(got[c]) + Len(w)
        <4>1. \A S : \A q, r \in Seq(S) : q \o r \in Seq(S) /\ Len(q \o r) = Len(q) + Len(r)
          OBVIOUS
        <4>2. w \in Seq(Reported(c))
          BY <2>2
        <4> QED
          BY <2>1, <3>1, <4>1, <4>2
      <3>3. \A q, r \in Seq(Reported(c)) : Media!Range(q \o r) = Media!Range(q) \cup Media!Range(r)
        <4> SUFFICES ASSUME NEW q \in Seq(Reported(c)), NEW r \in Seq(Reported(c))
                     PROVE  Media!Range(q \o r) = Media!Range(q) \cup Media!Range(r)
          OBVIOUS
        <4> DEFINE p == q \o r
                   k == Len(q)
                   m == Len(r)
        <4>1. /\ k \in Nat /\ m \in Nat /\ DOMAIN q = 1 .. k /\ DOMAIN r = 1 .. m /\ DOMAIN p = 1 .. k + m
              /\ \A i \in 1 .. k : p[i] = q[i] /\ i \in 1 .. k + m
              /\ \A i \in 1 .. m : p[k + i] = r[i] /\ k + i \in 1 .. k + m
              /\ \A i \in 1 .. k + m : IF i <= k THEN i \in 1 .. k ELSE p[i] = r[i - k] /\ i - k \in 1 .. m
          OBVIOUS
        <4> HIDE DEF p, k, m
        <4>2. \A f : Media!Range(f) = {f[i] : i \in DOMAIN f}
          BY DEF Media!Range
        <4>3. ASSUME NEW x \in Media!Range(p) PROVE x \in Media!Range(q) \/ x \in Media!Range(r)
          <5>1. PICK i \in 1 .. k + m : x = p[i]
            BY <4>1, <4>2
          <5> QED
            BY <4>1, <4>2, <5>1
        <4>4. ASSUME NEW x \in Media!Range(q) PROVE x \in Media!Range(p)
          <5>1. PICK i \in 1 .. k : x = q[i]
            BY <4>1, <4>2
          <5> QED
            BY <4>1, <4>2, <5>1
        <4>5. ASSUME NEW x \in Media!Range(r) PROVE x \in Media!Range(p)
          <5>1. PICK i \in 1 .. m : x = r[i]
            BY <4>1, <4>2
          <5> QED
            BY <4>1, <4>2, <5>1
        <4> QED
          BY <4>3, <4>4, <4>5 DEF p
      <3> QED
        BY <2>1, <2>2, <3>1, <3>2, <3>3
    <2>6. ASSUME ~ cut[c], NEW t \in Int, t = s.to PROVE 0 <= t /\ Whole(c, t)'
      <3>1. 0 <= s.from /\ Whole(c, s.from)
        BY <1>1, <1>2, <1>4, <2>6 DEF GotInv
      <3>2. /\ Cardinality(Places(c, 0, s.from)) + Cardinality(Places(c, s.from, t)) = Cardinality(Places(c, 0, t))
            /\ Places(c, 0, t) = Places(c, 0, s.from) \cup Places(c, s.from, t)
            /\ Media!EarliestFirst(c) =>
                  FirstOf(c, 0, t) = FirstOf(c, 0, s.from) \cup
                     {x \in FirstOf(c, s.from, t) : \A j \in Places(c, 0, s.from) : Articles(c)[j].url # x.url}
        <4> DEFINE m == s.from
        <4>1. m \in Int
          BY <1>5
        <4>2. 0 <= m
          BY <3>1
        <4>3. m <= t
          BY <1>4, <2>6
        <4>4. 0 \in Int
          OBVIOUS
        <4>5. world \in Worlds
          BY <1>2
        <4>6. MediaAssumptions
          OBVIOUS
        <4> HIDE DEF m
        <4>7. /\ Cardinality(Places(c, 0, m)) + Cardinality(Places(c, m, t)) = Cardinality(Places(c, 0, t))
              /\ Places(c, 0, t) = Places(c, 0, m) \cup Places(c, m, t)
          BY ONLY <2>6, <4>1, <4>2, <4>3, <4>4, <4>5, <4>6, PlacesJoin
        <4>8. ASSUME Media!EarliestFirst(c)
              PROVE  FirstOf(c, 0, m) \cup {x \in FirstOf(c, m, t) : \A j \in Places(c, 0, m) : Articles(c)[j].url # x.url}
                        = FirstOf(c, 0, t)
          BY <2>6, <4>1, <4>2, <4>3, <4>4, <4>5, <4>6, <4>8, FirstJoin
        <4> QED
          BY <4>7, <4>8 DEF m
      <3>3. Media!Distinct(got[c] \o w) = Media!Distinct(got[c]) \cup
               {x \in Media!Distinct(w) : \A y \in Media!Range(got[c]) : y.url # x.url}
        BY <1>2, <2>2, DistinctJoin DEF GotInv
      <3>4. Media!EarliestFirst(c) => Media!Distinct(got'[c]) = FirstOf(c, 0, t)
        <4>1. \A x : (\A y \in Media!Range(got[c]) : y.url # x.url)
                        <=> (\A j \in Places(c, 0, s.from) : Articles(c)[j].url # x.url)
          BY <3>1 DEF Whole
        <4> QED
          BY <2>1, <2>2, <2>6, <3>1, <3>2, <3>3, <4>1 DEF Whole
      <3>5. Media!Range(got'[c]) = {Articles(c)[i] : i \in Places(c, 0, t)}
        BY <2>2, <2>5, <2>6, <3>1, <3>2 DEF Whole
      <3>6. Len(got'[c]) = Cardinality(Places(c, 0, t))
        BY <2>2, <2>5, <2>6, <3>1, <3>2 DEF Whole
      <3>7. 0 <= t
        BY <1>4, <1>5, <2>6, <3>1
      <3> QED
        BY <1>6, <3>4, <3>5, <3>6, <3>7 DEF Whole
    <2>7. GotInv(c)'
      <3>1. (~ cut[c]) => 0 <= Reached(c)' /\ Whole(c, Reached(c))'
        <4>1. s.to \in Int
          BY <1>5
        <4> QED
          BY <2>4, <2>6, <4>1
      <3> QED
        BY <1>1, <1>6, <1>9, <2>5, <3>1 DEF GotInv, Kept
    <2>8. CountInv(c)'
      BY <1>1, <1>2, <1>6, <1>9 DEF CountInv
    <2> QED
      BY <1>1, <1>3, <1>7, <2>3, <2>7, <2>8, OthersRest DEF CollectorInv
  <1>10. CASE /\ cut' = [cut EXCEPT ![c] = TRUE]
              /\ todo' = [todo EXCEPT ![c] = <<>>]
              /\ got' = got
    <2>1. cut'[c] = TRUE /\ todo'[c] = <<>> /\ got'[c] = got[c]
      BY <1>2, <1>10 DEF ByCollector
    <2>2. SlicesFollow(c)'
      BY <2>1 DEF SlicesFollow
    <2>3. GotInv(c)'
      BY <1>1, <1>2, <1>6, <2>1 DEF GotInv, Kept
    <2>4. CountInv(c)'
      BY <1>1, <1>2, <2>1 DEF CountInv
    <2> QED
      BY <1>1, <1>3, <1>7, <2>2, <2>3, <2>4, OthersRest DEF CollectorInv
  <1>11. CASE /\ todo' = [todo EXCEPT ![c] = Media!Halves(s) \o Tail(@)]
              /\ got' = got /\ cut' = cut
    <2> DEFINE mid == (s.from + s.to) \div 2
               rest == Tail(todo[c])
               h1 == [from |-> s.from, to |-> mid, depth |-> s.depth + 1]
               h2 == [from |-> mid, to |-> s.to, depth |-> s.depth + 1]
               q == <<h1, h2>> \o rest
    <2>1. mid \in Int /\ s.from <= mid /\ mid <= s.to
      BY <1>4, <1>5
    <2>2. todo'[c] = q
      BY <1>2, <1>11 DEF ByCollector, Media!Halves
    <2> HIDE DEF mid
    <2>3. h1 \in SliceRows /\ h2 \in SliceRows
      BY <1>5, <2>1 DEF SliceRows
    <2>4. h1.from = s.from /\ h1.to = mid /\ h2.from = mid /\ h2.to = s.to
      OBVIOUS
    <2> HIDE DEF h1, h2
    <2>5. /\ q \in Seq(SliceRows) /\ Len(q) = n + 1 /\ DOMAIN q = 1 .. n + 1 /\ q # <<>>
          /\ q[1] = h1 /\ q[2] = h2
          /\ \A i \in 3 .. n + 1 : q[i] = todo[c][i - 1]
      <3>1. <<h1, h2>> \in Seq(SliceRows) /\ Len(<<h1, h2>>) = 2
        BY <2>3
      <3>2. rest \in Seq(SliceRows) /\ Len(rest) = n - 1 /\ \A i \in 1 .. n - 1 : rest[i] = todo[c][i + 1]
        BY <1>8
      <3>3. n \in Nat /\ n >= 1
        BY <1>4
      <3> HIDE DEF rest
      <3>4. q \in Seq(SliceRows) /\ Len(q) = n + 1 /\ q[1] = h1 /\ q[2] = h2
        BY <3>1, <3>2, <3>3
      <3>5. ASSUME NEW i \in 3 .. n + 1 PROVE q[i] = todo[c][i - 1]
        <4>1. i - 2 \in 1 .. n - 1
          BY <3>3
        <4>2. q[i] = rest[i - 2]
          BY <3>1, <3>2, <3>3
        <4> QED
          BY <3>2, <4>1, <4>2
      <3> HIDE DEF q
      <3> QED
        BY <3>3, <3>4, <3>5
    <2> HIDE DEF q, rest
    <2>6. SlicesFollow(c)'
      <3>1. ASSUME NEW i \in 1 .. n + 1
            PROVE  /\ q[i].from <= q[i].to
                   /\ q[i].to = IF i = n + 1 THEN Window ELSE q[i + 1].from
        <4>1. CASE i = 1
          BY <1>4, <2>1, <2>4, <2>5, <4>1
        <4>2. CASE i = 2
          <5>1. n # 1 => q[3] = todo[c][2]
            <6>1. n # 1 => 3 \in 3 .. n + 1 /\ 3 - 1 = 2
              BY <1>4
            <6> QED
              BY <2>5, <6>1
          <5> QED
            BY <1>4, <2>1, <2>4, <2>5, <4>2, <5>1
        <4>3. CASE i >= 3
          <5>1. i \in 3 .. n + 1 /\ i - 1 \in 1 .. n /\ (i # n + 1 => i + 1 \in 3 .. n + 1)
            BY <1>4, <4>3
          <5>2. q[i] = todo[c][i - 1] /\ (i # n + 1 => q[i + 1] = todo[c][i])
            <6>1. i + 1 - 1 = i
              OBVIOUS
            <6> QED
              BY <2>5, <5>1, <6>1
          <5>3. todo[c][i - 1].from <= todo[c][i - 1].to
                /\ todo[c][i - 1].to = IF i - 1 = n THEN Window ELSE todo[c][i].from
            <6>1. i - 1 + 1 = i
              OBVIOUS
            <6> QED
              BY <1>2, <1>4, <5>1, <6>1 DEF SlicesFollow, n
          <5> QED
            BY <1>4, <5>1, <5>2, <5>3
        <4> QED
          BY <1>4, <4>1, <4>2, <4>3
      <3> QED
        BY <2>2, <2>5, <3>1 DEF SlicesFollow
    <2>7. Reached(c)' = Reached(c)
      BY <1>4, <2>2, <2>4, <2>5 DEF Reached
    <2>8. GotInv(c)'
      <3>1. \A t : Whole(c, t)' <=> Whole(c, t)
        BY <1>6, <1>11 DEF Whole
      <3> QED
        BY <1>1, <1>2, <1>6, <1>11, <2>7, <3>1 DEF GotInv, Kept
    <2>9. CountInv(c)'
      BY <1>1, <1>2, <1>6, <1>11 DEF CountInv
    <2> QED
      BY <1>1, <1>3, <1>7, <2>6, <2>8, <2>9, OthersRest DEF CollectorInv
  <1> QED
    BY <1>1, <1>9, <1>10, <1>11
(* A step that asks for nothing.                                              *)
LEMMA GotRests ==
    ASSUME NEW c \in Collector, world' = world, got'[c] = got[c], todo'[c] = todo[c]
    PROVE  /\ SlicesFollow(c)' <=> SlicesFollow(c)
           /\ Reached(c)' = Reached(c) /\ Reported(c)' = Reported(c)
           /\ \A t : Whole(c, t)' <=> Whole(c, t)
           /\ Places(c, 0, Window)' = Places(c, 0, Window)
  <1>1. Articles(c)' = Articles(c)
    BY DEF Articles
  <1>2. \A t : (Places(c, 0, t)' = Places(c, 0, t)) /\ FirstOf(c, 0, t)' = FirstOf(c, 0, t)
    BY <1>1 DEF Places, FirstOf, Firsts
  <1>3. Reported(c)' = Reported(c)
    BY <1>1 DEF Reported
  <1>4. (SlicesFollow(c)' <=> SlicesFollow(c)) /\ Reached(c)' = Reached(c)
    BY DEF SlicesFollow, Reached
  <1>5. \A t : Whole(c, t)' <=> Whole(c, t)
    BY <1>1, <1>2 DEF Whole, Media!EarliestFirst
  <1> QED
    BY <1>2, <1>3, <1>4, <1>5

LEMMA QueryFailsStep ==
    ASSUME MediaAssumptions, MediaInv, NEW c \in Collector, Media!QueryFails(c)
    PROVE  MediaInv'
  <1>1. /\ world' = world /\ observed' = observed /\ at[c] = "slicing"
        /\ at' = [at EXCEPT ![c] = "failing"] /\ got' = [got EXCEPT ![c] = <<>>]
        /\ todo' = todo /\ cut' = cut /\ run' = run /\ stored' = stored
    BY DEF Media!QueryFails, Media!Go, Media!store
  <1>2. ByCollector /\ SlicesFollow(c) /\ GotInv(c) /\ CountInv(c) /\ ObservedInv
    BY DEF MediaInv
  <1>3. ByCollector' /\ \A d \in Collector \ {c} : Rests(d)
    BY <1>1, <1>2 DEF ByCollector, Rests
  <1>4. at'[c] = "failing" /\ got'[c] = <<>>
    BY <1>1, <1>2 DEF ByCollector
  <1>5. SlicesFollow(c)'
    BY <1>1, <1>2 DEF SlicesFollow
  <1>6. GotInv(c)'
    BY <1>4 DEF GotInv, Kept
  <1>7. CountInv(c)'
    BY <1>1, <1>2, <1>4 DEF CountInv
  <1>8. ObservedInv'
    BY <1>1, <1>2, ObservedRests
  <1> QED
    BY <1>1, <1>3, <1>5, <1>6, <1>7, <1>8, OthersRest DEF CollectorInv

(* After the last slice the whole window has been got.                        *)
LEMMA JudgeStep ==
    ASSUME MediaAssumptions, MediaInv, NEW c \in Collector, Media!Judge(c)
    PROVE  MediaInv'
  <1> DEFINE next == CASE cut[c] -> "publishing"
                       [] ~ cut[c] /\ ~ Media!Covers(covered[c]) -> "failing"
                       [] ~ cut[c] /\ Media!Covers(covered[c]) -> "storing"
  <1>1. /\ world' = world /\ observed' = observed /\ at[c] = "slicing" /\ todo[c] = <<>>
        /\ at' = [at EXCEPT ![c] = next]
        /\ todo' = todo /\ got' = got /\ cut' = cut /\ run' = run /\ stored' = stored
    BY DEF Media!Judge, Media!Go, Media!store
  <1>2. ByCollector /\ SlicesFollow(c) /\ GotInv(c) /\ CountInv(c) /\ ObservedInv
    BY DEF MediaInv
  <1>3. IF cut[c] THEN next = "publishing" ELSE next \in {"failing", "storing"}
    OBVIOUS
  <1> HIDE DEF next
  <1>4. ByCollector' /\ \A d \in Collector \ {c} : Rests(d)
    BY <1>1, <1>2 DEF ByCollector, Rests
  <1>5. at'[c] = next
    BY <1>1, <1>2 DEF ByCollector
  <1>6. SlicesFollow(c)' /\ Reported(c)' = Reported(c) /\ Places(c, 0, Window)' = Places(c, 0, Window)
        /\ \A t : Whole(c, t)' <=> Whole(c, t)
    BY <1>1, <1>2, GotRests
  <1>7. Reached(c) = Window
    BY <1>1 DEF Reached
  <1>8. GotInv(c)'
    BY <1>1, <1>2, <1>3, <1>5, <1>6, <1>7 DEF GotInv, Kept
  <1>9. CountInv(c)'
    <2>1. Len(got[c]) \in Nat
      BY <1>2 DEF GotInv
    <2> QED
      BY <1>1, <1>2, <1>3, <1>5, <1>6, <2>1 DEF CountInv
  <1>10. ObservedInv'
    BY <1>1, <1>2, ObservedRests
  <1> QED
    BY <1>1, <1>4, <1>6, <1>8, <1>9, <1>10, OthersRest DEF CollectorInv

LEMMA StoreStep ==
    ASSUME MediaAssumptions, MediaInv, NEW c \in Collector, Media!Store(c)
    PROVE  MediaInv'
  <1>1. /\ world' = world /\ observed' = observed /\ at[c] = "storing" /\ stored[c] < Len(got[c])
        /\ at' = [at EXCEPT ![c] = "marking"]
        /\ todo' = todo /\ got' = got /\ cut' = cut /\ stored' = stored
        /\ \/ run' = [run EXCEPT ![c].fetched = @ + 1, ![c].skipped = @ + 1]
           \/ run' = [run EXCEPT ![c].fetched = @ + 1, ![c].inserted = @ + 1]
    BY DEF Media!Store, Media!Go
  <1>2. ByCollector /\ SlicesFollow(c) /\ GotInv(c) /\ CountInv(c) /\ ObservedInv
    BY DEF MediaInv
  <1>3. ByCollector' /\ \A d \in Collector \ {c} : Rests(d)
    BY <1>1, <1>2 DEF ByCollector, Rests
  <1>4. /\ at'[c] = "marking"
        /\ \/ run'[c] = [run[c] EXCEPT !.fetched = @ + 1, !.skipped = @ + 1]
           \/ run'[c] = [run[c] EXCEPT !.fetched = @ + 1, !.inserted = @ + 1]
    BY <1>1, <1>2 DEF ByCollector
  <1>5. SlicesFollow(c)' /\ Reported(c)' = Reported(c) /\ \A t : Whole(c, t)' <=> Whole(c, t)
    BY <1>1, <1>2, GotRests
  <1>6. GotInv(c)'
    BY <1>1, <1>2, <1>4, <1>5 DEF GotInv, Kept
  <1>7. CountInv(c)'
    <2>1. /\ run[c] \in Media!RunRow /\ run[c].fetched = run[c].inserted + run[c].skipped
          /\ run[c].fetched = stored[c] /\ stored[c] \in Nat /\ run[c].status # "completed"
      BY <1>1, <1>2 DEF CountInv
    <2>2. /\ run'[c] \in Media!RunRow /\ run'[c].status = run[c].status
          /\ run'[c].fetched = run[c].fetched + 1
          /\ run'[c].fetched = run'[c].inserted + run'[c].skipped
      <3> DEFINE was == run[c]
                 is == run'[c]
      <3>1. /\ was.fetched \in Nat /\ was.inserted \in Nat /\ was.skipped \in Nat
            /\ was \in Media!RunRow
        BY <2>1 DEF Media!RunRow
      <3>2. \/ is = [was EXCEPT !.fetched = @ + 1, !.skipped = @ + 1]
            \/ is = [was EXCEPT !.fetched = @ + 1, !.inserted = @ + 1]
        BY <1>4
      <3>3. was.fetched = was.inserted + was.skipped
        BY <2>1
      <3> HIDE DEF was, is
      <3>4. was.fetched + 1 \in Nat /\ was.inserted + 1 \in Nat /\ was.skipped + 1 \in Nat
        BY <3>1
      <3>5. CASE is = [was EXCEPT !.fetched = @ + 1, !.skipped = @ + 1]
        <4>1. /\ is.status = was.status /\ is.fetched = was.fetched + 1
              /\ is.inserted = was.inserted /\ is.skipped = was.skipped + 1
          BY <3>1, <3>5 DEF Media!RunRow
        <4>2. is \in Media!RunRow
          BY <3>1, <3>4, <3>5 DEF Media!RunRow
        <4> QED
          BY <3>1, <3>3, <4>1, <4>2 DEF was, is
      <3>6. CASE is = [was EXCEPT !.fetched = @ + 1, !.inserted = @ + 1]
        <4>1. /\ is.status = was.status /\ is.fetched = was.fetched + 1
              /\ is.inserted = was.inserted + 1 /\ is.skipped = was.skipped
          BY <3>1, <3>6 DEF Media!RunRow
        <4>2. is \in Media!RunRow
          BY <3>1, <3>4, <3>6 DEF Media!RunRow
        <4> QED
          BY <3>1, <3>3, <4>1, <4>2 DEF was, is
      <3> QED
        BY <3>2, <3>5, <3>6
    <2> QED
      BY <1>1, <1>4, <2>1, <2>2 DEF CountInv
  <1>8. ObservedInv'
    BY <1>1, <1>2, ObservedRests
  <1> QED
    BY <1>1, <1>3, <1>5, <1>6, <1>7, <1>8, OthersRest DEF CollectorInv

LEMMA MarkRawStep ==
    ASSUME MediaAssumptions, MediaInv, NEW c \in Collector, Media!MarkRaw(c)
    PROVE  MediaInv'
  <1>1. /\ world' = world /\ observed' = observed /\ at[c] = "marking"
        /\ at' = [at EXCEPT ![c] = "storing"] /\ stored' = [stored EXCEPT ![c] = @ + 1]
        /\ todo' = todo /\ got' = got /\ cut' = cut /\ run' = run
    BY DEF Media!MarkRaw, Media!Go
  <1>2. ByCollector /\ SlicesFollow(c) /\ GotInv(c) /\ CountInv(c) /\ ObservedInv
    BY DEF MediaInv
  <1>3. ByCollector' /\ \A d \in Collector \ {c} : Rests(d)
    BY <1>1, <1>2 DEF ByCollector, Rests
  <1>4. at'[c] = "storing" /\ stored'[c] = stored[c] + 1
    BY <1>1, <1>2 DEF ByCollector
  <1>5. SlicesFollow(c)' /\ Reported(c)' = Reported(c) /\ \A t : Whole(c, t)' <=> Whole(c, t)
    BY <1>1, <1>2, GotRests
  <1>6. GotInv(c)'
    BY <1>1, <1>2, <1>4, <1>5 DEF GotInv, Kept
  <1>7. CountInv(c)'
    <2>1. Len(got[c]) \in Nat
      BY <1>2 DEF GotInv
    <2> QED
      BY <1>1, <1>2, <1>4, <2>1 DEF CountInv
  <1>8. ObservedInv'
    BY <1>1, <1>2, ObservedRests
  <1> QED
    BY <1>1, <1>3, <1>5, <1>6, <1>7, <1>8, OthersRest DEF CollectorInv

LEMMA NormalizeStep ==
    ASSUME MediaAssumptions, MediaInv, NEW c \in Collector, Media!Normalize(c)
    PROVE  MediaInv'
  <1> DEFINE next == IF Media!Readable(got[c]) THEN "publishing" ELSE "failing"
  <1>1. /\ world' = world /\ observed' = observed /\ at[c] = "storing" /\ stored[c] = Len(got[c])
        /\ at' = [at EXCEPT ![c] = next]
        /\ todo' = todo /\ got' = got /\ cut' = cut /\ run' = run /\ stored' = stored
    BY DEF Media!Normalize, Media!Go, Media!store
  <1>2. ByCollector /\ SlicesFollow(c) /\ GotInv(c) /\ CountInv(c) /\ ObservedInv
    BY DEF MediaInv
  <1>3. next \in {"publishing", "failing"}
    OBVIOUS
  <1> HIDE DEF next
  <1>4. ByCollector' /\ \A d \in Collector \ {c} : Rests(d)
    BY <1>1, <1>2 DEF ByCollector, Rests
  <1>5. at'[c] = next
    BY <1>1, <1>2 DEF ByCollector
  <1>6. SlicesFollow(c)' /\ Reported(c)' = Reported(c) /\ \A t : Whole(c, t)' <=> Whole(c, t)
    BY <1>1, <1>2, GotRests
  <1>7. GotInv(c)'
    BY <1>1, <1>2, <1>3, <1>5, <1>6 DEF GotInv, Kept
  <1>8. CountInv(c)'
    BY <1>1, <1>2, <1>3, <1>5 DEF CountInv
  <1>9. ObservedInv'
    BY <1>1, <1>2, ObservedRests
  <1> QED
    BY <1>1, <1>4, <1>6, <1>7, <1>8, <1>9, OthersRest DEF CollectorInv
HaveOwnUrls(D) == \A a, b \in D : a.url = b.url => a = b

(* Of a sequence of articles, the first of each url.                          *)
LEMMA DistinctArticles ==
    ASSUME NEW q, Len(q) \in Nat, DOMAIN q = 1 .. Len(q)
    PROVE  /\ Media!Distinct(q) \subseteq Media!Range(q)
           /\ IsFiniteSet(Media!Distinct(q))
           /\ HaveOwnUrls(Media!Distinct(q))
           /\ \A x \in Media!Range(q) : \E y \in Media!Distinct(q) : y.url = x.url
  <1> DEFINE first == {i \in DOMAIN q : \A j \in 1 .. i - 1 : q[j].url # q[i].url}
             n == Len(q)
  <1>1. Media!Distinct(q) = {q[i] : i \in first}
    BY DEF Media!Distinct
  <1>2. Media!Distinct(q) \subseteq Media!Range(q)
    BY <1>1 DEF Media!Range
  <1>3. IsFiniteSet(Media!Distinct(q))
    <2>1. IsFiniteSet(first)
      <3>1. IsFiniteSet(1 .. n)
        <4>1. n \in Int
          OBVIOUS
        <4> HIDE DEF n
        <4> QED
          BY <4>1, FS_Interval
      <3> QED
        BY <3>1, FS_Subset
    <2> DEFINE f == [i \in first |-> q[i]]
               T == {q[i] : i \in first}
    <2>2. f \in Surjection(first, T)
      BY DEF Surjection
    <2> HIDE DEF f, T, first
    <2>3. IsFiniteSet(T)
      BY <2>1, <2>2, FS_Surjection
    <2> QED
      BY <1>1, <2>3 DEF T
  <1>4. HaveOwnUrls(Media!Distinct(q))
    <2> SUFFICES ASSUME NEW i \in first, NEW j \in first, q[i].url = q[j].url PROVE i = j
      BY <1>1 DEF HaveOwnUrls
    <2>1. i \in 1 .. n /\ j \in 1 .. n
      OBVIOUS
    <2>2. ~ (i < j) /\ ~ (j < i)
      BY <2>1
    <2> QED
      BY <2>1, <2>2
  <1>5. ASSUME NEW x \in Media!Range(q) PROVE \E y \in Media!Distinct(q) : y.url = x.url
    <2> DEFINE P == {i \in DOMAIN q : q[i].url = x.url}
               size == Cardinality(P)
               nth(m) == CHOOSE i \in P : Cardinality({j \in P : j < i}) = m - 1
    <2>1. PICK i0 \in P : TRUE
      BY DEF Media!Range
    <2>2. P \in SUBSET Int /\ IsFiniteSet(P)
      <3>1. n \in Int
        OBVIOUS
      <3>2. IsFiniteSet(1 .. n) /\ 1 .. n \subseteq Int
        <4> HIDE DEF n
        <4> QED
          BY <3>1, FS_Interval
      <3> QED
        BY <3>2, FS_Subset
    <2>3. \A i : i \in P <=> i \in 1 .. n /\ q[i].url = x.url
      OBVIOUS
    <2> HIDE DEF P
    <2>4. /\ size \in Nat
          /\ \A m \in 1 .. size : nth(m) \in P
          /\ \A k, m \in 1 .. size : k < m => nth(k) < nth(m)
          /\ \A i \in P : \E m \in 1 .. size : nth(m) = i
      BY <2>2, Numbered
    <2> HIDE DEF nth, size
    <2>5. 1 \in 1 .. size
      <3>1. PICK m \in 1 .. size : nth(m) = i0
        BY <2>1, <2>4
      <3> QED
        BY <2>4
    <2>6. nth(1) \in P /\ \A j \in P : ~ (j < nth(1))
      <3>1. nth(1) \in P
        BY <2>4, <2>5
      <3>2. ASSUME NEW j \in P PROVE ~ (j < nth(1))
        <4>1. PICK m \in 1 .. size : nth(m) = j
          BY <2>4
        <4>2. m = 1 \/ 1 < m
          BY <2>4
        <4>3. nth(1) = j \/ nth(1) < j
          BY <2>4, <2>5, <4>1, <4>2
        <4>4. nth(1) \in Int /\ j \in Int
          BY <2>2, <3>1
        <4> QED
          BY <4>3, <4>4
      <3> QED
        BY <3>1, <3>2
    <2> DEFINE i1 == nth(1)
    <2> HIDE DEF i1
    <2>7. i1 \in 1 .. n /\ q[i1].url = x.url /\ \A j \in 1 .. n : q[j].url = x.url => ~ (j < i1)
      BY <2>3, <2>6 DEF i1
    <2>8. ASSUME NEW j \in 1 .. i1 - 1 PROVE q[j].url # q[i1].url
      <3>1. j \in 1 .. n /\ j < i1
        BY <2>7
      <3> QED
        BY <2>7, <3>1
    <2>9. i1 \in first
      BY <2>7, <2>8
    <2> HIDE DEF first
    <2> QED
      BY <1>1, <2>7, <2>9
  <1> QED
    BY <1>2, <1>3, <1>4, <1>5

(* What a collector that got the whole of its window keeps is one copy of     *)
(* each url of it.                                                            *)
LEMMA WholeIsEverything ==
    ASSUME MediaAssumptions, world \in Worlds, NEW c \in Collector,
           got[c] \in Seq(Reported(c)), Whole(c, Window)
    PROVE  LET D == Media!Distinct(got[c])
           IN  /\ D \in Media!Selections(c) /\ Cardinality(D) = Cardinality(Media!Urls(c))
               /\ Media!EarliestFirst(c) => D = Media!Distinct(Media!Everything(c))
  <1> DEFINE s == [from |-> 0, to |-> Window]
             D == Media!Distinct(got[c])
             held == Media!Range(Media!Everything(c))
             urls == Media!Urls(c)
  <1>1. s.from = 0 /\ s.to = Window /\ Media!Everything(c) = Media!Within(c, s)
    BY DEF Media!Everything
  <1>2. s.from \in Int /\ s.to \in Int
    BY <1>1 DEF MediaAssumptions
  <1> HIDE DEF s
  <1>3. /\ held = {Articles(c)[i] : i \in Places(c, 0, Window)}
        /\ Media!Distinct(Media!Everything(c)) = FirstOf(c, 0, Window)
    BY <1>1, <1>2, WithinSlice
  <1>4. held = Media!Range(got[c]) /\ (Media!EarliestFirst(c) => D = Media!Distinct(Media!Everything(c)))
    BY <1>3 DEF Whole
  <1>5. /\ D \subseteq Media!Range(got[c]) /\ IsFiniteSet(D) /\ HaveOwnUrls(D)
        /\ \A x \in Media!Range(got[c]) : \E y \in D : y.url = x.url
    <2>1. Len(got[c]) \in Nat /\ DOMAIN got[c] = 1 .. Len(got[c])
      OBVIOUS
    <2> QED
      BY <2>1, DistinctArticles
  <1>6. urls = {a.url : a \in held}
    BY DEF Media!Urls
  <1>7. Media!Selections(c) = {E \in SUBSET held :
                                 {a.url : a \in E} = urls /\ \A a, b \in E : a.url = b.url => a = b}
    BY DEF Media!Selections
  <1> HIDE DEF D, held, urls
  <1>8. {a.url : a \in D} = urls
    <2>1. \A a \in D : a.url \in urls
      BY <1>4, <1>5, <1>6
    <2>2. \A u \in urls : \E a \in D : a.url = u
      BY <1>4, <1>5, <1>6
    <2> QED
      BY <2>1, <2>2
  <1>9. D \in Media!Selections(c)
    BY <1>4, <1>5, <1>7, <1>8 DEF HaveOwnUrls
  <1>10. Cardinality(D) = Cardinality(urls)
    <2> DEFINE f == [a \in D |-> a.url]
    <2>1. f \in Injection(D, urls)
      BY <1>5, <1>8 DEF Injection, IsInjective, HaveOwnUrls
    <2>2. f \in Surjection(D, urls)
      BY <1>8 DEF Surjection
    <2> HIDE DEF f
    <2>3. ExistsBijection(D, urls)
      BY <2>1, <2>2 DEF ExistsBijection, Bijection
    <2> QED
      BY <1>5, <2>3, FS_Bijection
  <1> QED
    BY <1>4, <1>9, <1>10 DEF D, urls

LEMMA PublishStep ==
    ASSUME MediaAssumptions, MediaInv, NEW c \in Collector, Media!Publish(c)
    PROVE  MediaInv'
  <1> DEFINE k == Media!KeyOf(c)
             o == Media!NewObservation(c)
  <1>1. /\ world' = world /\ at[c] = "publishing"
        /\ \E label \in {"finishing", "dead", "relinking"} : at' = [at EXCEPT ![c] = label]
        /\ todo' = todo /\ got' = got /\ cut' = cut /\ run' = run /\ stored' = stored
        /\ observed' = observed \/ observed' = Media!Put(observed, k, o)
    BY DEF Media!Publish, Media!Go
  <1>2. ByCollector /\ SlicesFollow(c) /\ GotInv(c) /\ CountInv(c) /\ ObservedInv /\ world \in Worlds
    BY DEF MediaInv
  <1>3. PICK label \in {"finishing", "dead", "relinking"} : at' = [at EXCEPT ![c] = label]
    BY <1>1
  <1>4. ByCollector' /\ \A d \in Collector \ {c} : Rests(d)
    BY <1>1, <1>2, <1>3 DEF ByCollector, Rests
  <1>5. at'[c] = label
    BY <1>2, <1>3 DEF ByCollector
  <1>6. SlicesFollow(c)' /\ Reported(c)' = Reported(c) /\ \A t : Whole(c, t)' <=> Whole(c, t)
    BY <1>1, <1>2, GotRests
  <1>7. GotInv(c)'
    BY <1>1, <1>2, <1>5, <1>6 DEF GotInv, Kept
  <1>8. CountInv(c)'
    BY <1>1, <1>2, <1>5 DEF CountInv
  <1>9. ObservedInv'
    <2>1. CASE observed' = observed
      BY <1>1, <1>2, <2>1, ObservedRests
    <2>2. CASE observed' = Media!Put(observed, k, o)
      <3>1. \A d : Media!KeyOf(d)' = Media!KeyOf(d)
        BY <1>1, WindowsRest
      <3>2. \A d, q : IsObserved(d, q)' <=> IsObserved(d, q)
        BY <1>1, WindowsRest
      <3>3. DOMAIN o = {"status", "value", "raw", "count", "pruned"}
        BY DEF Media!NewObservation
      <3>4. ASSUME o.status = "present" PROVE IsObserved(c, o)
        <4> DEFINE D == Media!Distinct(got[c])
        <4>1. ~ cut[c] /\ o.value = Len(Media!Clustered(D)) /\ o.raw = Cardinality(D)
          BY <3>4, MediaCardinality DEF Media!NewObservation, Media!Stories
        <4>2. Whole(c, Window) /\ got[c] \in Seq(Reported(c))
          BY <1>1, <1>2, <4>1 DEF GotInv, Kept
        <4>3. world \in Worlds
          BY <1>2
        <4>4. /\ D \in Media!Selections(c) /\ Cardinality(D) = Cardinality(Media!Urls(c))
              /\ Media!EarliestFirst(c) => D = Media!Distinct(Media!Everything(c))
          BY <4>2, <4>3, WholeIsEverything
        <4> HIDE DEF o, D
        <4> QED
          BY <4>1, <4>4 DEF IsObserved
      <3> HIDE DEF o
      <3>5. /\ DOMAIN observed' = DOMAIN observed \cup {k} /\ observed'[k] = o
            /\ \A y \in DOMAIN observed : y # k => observed'[y] = observed[y]
        <4> HIDE DEF k
        <4> DEFINE new == Media!Put(observed, k, o)
        <4>1. /\ DOMAIN new = DOMAIN observed \cup {k} /\ new[k] = o
              /\ \A y \in DOMAIN observed : y # k => new[y] = observed[y]
          BY DEF Media!Put
        <4>2. observed' = new
          BY <2>2
        <4> HIDE DEF new
        <4> QED
          BY <4>1, <4>2
      <3>6. k = Media!KeyOf(c)
        OBVIOUS
      <3> HIDE DEF k
      <3>7. ASSUME NEW y \in DOMAIN observed'
            PROVE  /\ DOMAIN observed'[y] = {"status", "value", "raw", "count", "pruned"}
                   /\ observed'[y].status = "present" =>
                         \E d \in Collector : Media!KeyOf(d) = y /\ IsObserved(d, observed'[y])
        <4>1. CASE y = k
          BY <3>3, <3>4, <3>5, <3>6, <4>1
        <4>2. CASE y # k
          BY <1>2, <3>5, <4>2 DEF ObservedInv
        <4> QED
          BY <4>1, <4>2
      <3> QED
        BY <3>1, <3>2, <3>7 DEF ObservedInv
    <2> QED
      BY <1>1, <2>1, <2>2
  <1> QED
    BY <1>1, <1>4, <1>6, <1>7, <1>8, <1>9, OthersRest DEF CollectorInv

(* What marks or counts an observation leaves what it is.                     *)
LEMMA ObservationsStay ==
    ASSUME ObservedInv, world' = world,
           \A y \in DOMAIN observed' :
              /\ y \in DOMAIN observed
              /\ DOMAIN observed'[y] = DOMAIN observed[y]
              /\ observed'[y].status = observed[y].status
              /\ observed'[y].value = observed[y].value
              /\ observed'[y].raw = observed[y].raw
    PROVE  ObservedInv'
  <1>1. \A d : Media!KeyOf(d)' = Media!KeyOf(d)
    BY WindowsRest
  <1>2. \A d, q : IsObserved(d, q)' <=> IsObserved(d, q)
    BY WindowsRest
  <1>3. ASSUME NEW y \in DOMAIN observed'
        PROVE  /\ DOMAIN observed'[y] = {"status", "value", "raw", "count", "pruned"}
               /\ observed'[y].status = "present" =>
                     \E d \in Collector : Media!KeyOf(d) = y /\ IsObserved(d, observed'[y])
    BY DEF ObservedInv, IsObserved
  <1> QED
    BY <1>1, <1>2, <1>3 DEF ObservedInv

LEMMA RelinkStep ==
    ASSUME MediaAssumptions, MediaInv, NEW c \in Collector, Media!Relink(c)
    PROVE  MediaInv'
  <1> DEFINE k == Media!KeyOf(c)
  <1>1. /\ world' = world /\ at[c] = "relinking"
        /\ \E label \in {"finishing", "dead"} : at' = [at EXCEPT ![c] = label]
        /\ todo' = todo /\ got' = got /\ cut' = cut /\ run' = run /\ stored' = stored
        /\ \/ observed' = observed
           \/ \E n : observed' = [observed EXCEPT ![k].count = n, ![k].pruned = FALSE]
    BY DEF Media!Relink, Media!Go
  <1>2. ByCollector /\ SlicesFollow(c) /\ GotInv(c) /\ CountInv(c) /\ ObservedInv
    BY DEF MediaInv
  <1>3. PICK label \in {"finishing", "dead"} : at' = [at EXCEPT ![c] = label]
    BY <1>1
  <1>4. ByCollector' /\ \A d \in Collector \ {c} : Rests(d)
    BY <1>1, <1>2, <1>3 DEF ByCollector, Rests
  <1>5. at'[c] = label
    BY <1>2, <1>3 DEF ByCollector
  <1>6. SlicesFollow(c)' /\ Reported(c)' = Reported(c) /\ \A t : Whole(c, t)' <=> Whole(c, t)
    BY <1>1, <1>2, GotRests
  <1>7. GotInv(c)'
    BY <1>1, <1>2, <1>5, <1>6 DEF GotInv, Kept
  <1>8. CountInv(c)'
    BY <1>1, <1>2, <1>5 DEF CountInv
  <1>9. ObservedInv'
    <2>1. CASE observed' = observed
      BY <1>1, <1>2, <2>1, ObservedRests
    <2>2. CASE \E n : observed' = [observed EXCEPT ![k].count = n, ![k].pruned = FALSE]
      <3>1. PICK n : observed' = [observed EXCEPT ![k].count = n, ![k].pruned = FALSE]
        BY <2>2
      <3>2. \A y \in DOMAIN observed : DOMAIN observed[y] = {"status", "value", "raw", "count", "pruned"}
        BY <1>2 DEF ObservedInv
      <3> HIDE DEF k
      <3>3. ASSUME NEW y \in DOMAIN observed'
            PROVE  /\ y \in DOMAIN observed
                   /\ DOMAIN observed'[y] = DOMAIN observed[y]
                   /\ observed'[y].status = observed[y].status
                   /\ observed'[y].value = observed[y].value
                   /\ observed'[y].raw = observed[y].raw
        <4>1. y \in DOMAIN observed
          BY <3>1
        <4>2. CASE y = k
          <5>1. observed'[y] = [observed[y] EXCEPT !.count = n, !.pruned = FALSE]
            BY <3>1, <4>1, <4>2
          <5> QED
            BY <3>2, <4>1, <5>1
        <4>3. CASE y # k
          <5>1. observed'[y] = observed[y]
            BY <3>1, <4>1, <4>3
          <5> QED
            BY <4>1, <5>1
        <4> QED
          BY <4>2, <4>3
      <3> QED
        BY <1>1, <1>2, <3>3, ObservationsStay
    <2> QED
      BY <1>1, <2>1, <2>2
  <1> QED
    BY <1>1, <1>4, <1>6, <1>7, <1>8, <1>9, OthersRest DEF CollectorInv

(* A run that completes has counted the whole of its window.                  *)
LEMMA FinishStep ==
    ASSUME MediaAssumptions, MediaInv, NEW c \in Collector, Media!Finish(c)
    PROVE  MediaInv'
  <1> DEFINE status == IF at[c] = "finishing" THEN "completed" ELSE "failed"
  <1>1. /\ world' = world /\ observed' = observed /\ at[c] \in {"finishing", "failing"}
        /\ at' = [at EXCEPT ![c] = "done"]
        /\ run' = [run EXCEPT ![c].status = status]
        /\ todo' = todo /\ got' = got /\ cut' = cut /\ stored' = stored
    BY DEF Media!Finish, Media!Go, Media!store
  <1>2. ByCollector /\ SlicesFollow(c) /\ GotInv(c) /\ CountInv(c) /\ ObservedInv
    BY DEF MediaInv
  <1>3. ByCollector' /\ \A d \in Collector \ {c} : Rests(d)
    BY <1>1, <1>2 DEF ByCollector, Rests
  <1>4. at'[c] = "done" /\ run'[c] = [run[c] EXCEPT !.status = status]
    BY <1>1, <1>2 DEF ByCollector
  <1>5. SlicesFollow(c)' /\ Reported(c)' = Reported(c) /\ Places(c, 0, Window)' = Places(c, 0, Window)
        /\ \A t : Whole(c, t)' <=> Whole(c, t)
    BY <1>1, <1>2, GotRests
  <1>6. GotInv(c)'
    BY <1>1, <1>2, <1>4, <1>5 DEF GotInv, Kept
  <1>7. CountInv(c)'
    <2>1. /\ run[c] \in Media!RunRow /\ run[c].fetched = run[c].inserted + run[c].skipped
          /\ stored[c] \in Nat
      BY <1>2 DEF CountInv
    <2>2. /\ run'[c] \in Media!RunRow /\ run'[c].status = status /\ run'[c].fetched = run[c].fetched
          /\ run'[c].inserted = run[c].inserted /\ run'[c].skipped = run[c].skipped
      BY <1>4, <2>1 DEF Media!RunRow
    <2>3. ASSUME status = "completed", ~ cut[c] PROVE run[c].fetched = Cardinality(Places(c, 0, Window))
      <3>1. at[c] = "finishing"
        BY <2>3
      <3>2. run[c].fetched = Len(got[c])
        BY <1>2, <2>3, <3>1 DEF CountInv
      <3>3. Whole(c, Window)
        BY <1>2, <2>3, <3>1 DEF GotInv, Kept
      <3> QED
        BY <3>2, <3>3 DEF Whole
    <2> HIDE DEF status
    <2> QED
      BY <1>1, <1>4, <1>5, <2>1, <2>2, <2>3 DEF CountInv
  <1>8. ObservedInv'
    BY <1>1, <1>2, ObservedRests
  <1> QED
    BY <1>1, <1>3, <1>5, <1>6, <1>7, <1>8, OthersRest DEF CollectorInv

LEMMA DieStep ==
    ASSUME MediaAssumptions, MediaInv, NEW c \in Collector, Media!Die(c)
    PROVE  MediaInv'
  <1>1. /\ world' = world /\ observed' = observed /\ at[c] \notin {"idle", "done", "dead"}
        /\ at' = [at EXCEPT ![c] = "dead"]
        /\ run' = run /\ todo' = todo /\ got' = got /\ cut' = cut /\ stored' = stored
    BY DEF Media!Die, Media!Go, Media!store
  <1>2. ByCollector /\ SlicesFollow(c) /\ GotInv(c) /\ CountInv(c) /\ ObservedInv
    BY DEF MediaInv
  <1>3. ByCollector' /\ \A d \in Collector \ {c} : Rests(d)
    BY <1>1, <1>2 DEF ByCollector, Rests
  <1>4. at'[c] = "dead"
    BY <1>1, <1>2 DEF ByCollector
  <1>5. SlicesFollow(c)' /\ Reported(c)' = Reported(c) /\ \A t : Whole(c, t)' <=> Whole(c, t)
    BY <1>1, <1>2, GotRests
  <1>6. GotInv(c)'
    BY <1>1, <1>2, <1>4, <1>5 DEF GotInv, Kept
  <1>7. CountInv(c)'
    BY <1>1, <1>2, <1>4 DEF CountInv
  <1>8. ObservedInv'
    BY <1>1, <1>2, ObservedRests
  <1> QED
    BY <1>1, <1>3, <1>5, <1>6, <1>7, <1>8, OthersRest DEF CollectorInv

-----------------------------------------------------------------------------
(* The retention leaves the collectors and what the observations report.      *)
LEMMA CollectorsRest ==
    ASSUME MediaInv, UNCHANGED Media!machine, ObservedInv'
    PROVE  MediaInv'
  <1>1. world' = world /\ \A d \in Collector : Rests(d)
    BY DEF Media!machine, Rests
  <1>2. \A d \in Collector : CollectorInv(d)'
    BY <1>1, CollectorRests DEF MediaInv, CollectorInv
  <1>3. ByCollector' /\ world' \in Worlds
    BY DEF Media!machine, MediaInv, ByCollector
  <1> QED
    BY <1>2, <1>3 DEF MediaInv, CollectorInv

LEMMA RetentionStep ==
    ASSUME MediaInv,
           \/ \E p \in Pruner : Media!FindAffected(p) \/ Media!DeleteExpired(p)
           \/ \E a \in DOMAIN articles : Media!Expire(a)
    PROVE  MediaInv'
  <1>1. ObservedInv
    BY DEF MediaInv
  <1>2. ASSUME NEW a \in DOMAIN articles, Media!Expire(a) PROVE MediaInv'
    <2>1. UNCHANGED Media!machine /\ observed' = observed /\ world' = world
      BY <1>2 DEF Media!Expire, Media!machine
    <2>2. ObservedInv'
      BY <1>1, <2>1, ObservedRests
    <2> QED
      BY <2>1, <2>2, CollectorsRest
  <1>3. ASSUME NEW p \in Pruner, Media!FindAffected(p) PROVE MediaInv'
    <2>1. UNCHANGED Media!machine /\ observed' = observed /\ world' = world
      BY <1>3 DEF Media!FindAffected, Media!machine, Media!store
    <2>2. ObservedInv'
      BY <1>1, <2>1, ObservedRests
    <2> QED
      BY <2>1, <2>2, CollectorsRest
  <1>4. ASSUME NEW p \in Pruner, Media!DeleteExpired(p) PROVE MediaInv'
    <2> DEFINE left == {l \in links : l[2] \notin expired}
               n(k) == Media!Cardinality({l \in left : l[1] = k})
               Marked(k) == expired # {} /\ k \in prune[p].affected
    <2>1. /\ UNCHANGED Media!machine /\ world' = world
          /\ observed' = [k \in DOMAIN observed |->
                IF Marked(k) THEN [observed[k] EXCEPT !.pruned = TRUE, !.count = n(k)] ELSE observed[k]]
      BY <1>4 DEF Media!DeleteExpired, Media!machine
    <2>2. \A y \in DOMAIN observed : DOMAIN observed[y] = {"status", "value", "raw", "count", "pruned"}
      BY <1>1 DEF ObservedInv
    <2> HIDE DEF n, Marked
    <2>3. ASSUME NEW y \in DOMAIN observed'
          PROVE  /\ y \in DOMAIN observed
                 /\ DOMAIN observed'[y] = DOMAIN observed[y]
                 /\ observed'[y].status = observed[y].status
                 /\ observed'[y].value = observed[y].value
                 /\ observed'[y].raw = observed[y].raw
      <3>1. y \in DOMAIN observed
        BY <2>1
      <3>2. CASE Marked(y)
        <4>1. observed'[y] = [observed[y] EXCEPT !.pruned = TRUE, !.count = n(y)]
          BY <2>1, <3>1, <3>2
        <4> QED
          BY <2>2, <3>1, <4>1
      <3>3. CASE ~ Marked(y)
        <4>1. observed'[y] = observed[y]
          BY <2>1, <3>1, <3>3
        <4> QED
          BY <3>1, <4>1
      <3> QED
        BY <3>2, <3>3
    <2>4. ObservedInv'
      BY <1>1, <2>1, <2>3, ObservationsStay
    <2> QED
      BY <2>1, <2>4, CollectorsRest
  <1> QED
    BY <1>2, <1>3, <1>4
-----------------------------------------------------------------------------

LEMMA MediaStep ==
    ASSUME MediaAssumptions, MediaInv, [Media!Next]_(Media!vars)
    PROVE  MediaInv'
  <1>1. CASE Media!Next
    <2>1. ASSUME NEW c \in Collector, Media!Collect(c) PROVE MediaInv'
      BY <2>1, StartStep, QuerySliceStep, QueryFailsStep, JudgeStep, StoreStep, MarkRawStep,
         NormalizeStep, PublishStep, RelinkStep, FinishStep, DieStep DEF Media!Collect
    <2> QED
      BY <1>1, <2>1, RetentionStep DEF Media!Next
  <1>2. CASE UNCHANGED Media!vars
    <2>1. UNCHANGED Media!machine /\ observed' = observed /\ world' = world
      BY <1>2 DEF Media!vars, Media!machine, Media!store
    <2>2. ObservedInv'
      BY <2>1, ObservedRests DEF MediaInv
    <2> QED
      BY <2>1, <2>2, CollectorsRest
  <1> QED
    BY <1>1, <1>2

(* What the invariant says of the observations and the completed runs.        *)
LEMMA MediaIsWhole ==
    ASSUME MediaAssumptions, MediaInv
    PROVE  PresentIsWhole
  <1>1. world \in Worlds /\ ObservedInv /\ \A c \in Collector : CountInv(c)
    BY DEF MediaInv
  <1>2. ASSUME NEW k \in DOMAIN observed, observed[k].status = "present"
        PROVE  \E c \in Collector :
                  /\ Media!KeyOf(c) = k
                  /\ observed[k].raw = Media!Cardinality(Media!Urls(c))
                  /\ \E D \in Media!Selections(c) :
                        /\ observed[k].value = Len(Media!Clustered(D))
                        /\ Media!EarliestFirst(c) => D = Media!Distinct(Media!Everything(c))
    BY <1>1, <1>2, MediaCardinality DEF ObservedInv, IsObserved
  <1>3. ASSUME NEW c \in Collector PROVE Len(Media!Everything(c)) = Cardinality(Places(c, 0, Window))
    <2> DEFINE s == [from |-> 0, to |-> Window]
    <2>1. s.from = 0 /\ s.to = Window /\ Media!Everything(c) = Media!Within(c, s)
      BY DEF Media!Everything
    <2>2. Window \in Int
      BY DEF MediaAssumptions
    <2>3. s.from \in Int
      BY <2>1
    <2>4. s.to \in Int
      BY <2>1, <2>2
    <2>5. world \in Worlds
      BY <1>1
    <2> HIDE DEF s
    <2>6. Len(Media!Within(c, s)) = Cardinality(Places(c, s.from, s.to))
      BY <2>3, <2>4, <2>5, WithinSlice
    <2> QED
      BY <2>1, <2>6
  <1>4. ASSUME NEW c \in Collector, run[c].status = "completed", ~ cut[c]
        PROVE  run[c].fetched = Len(Media!Everything(c)) /\ run[c].fetched = run[c].inserted + run[c].skipped
    BY <1>1, <1>3, <1>4 DEF CountInv
  <1> QED
    BY <1>2, <1>4 DEF PresentIsWhole, Media!PresentIsWhole

(* "Publishes present/complete ONLY after every required slice succeeds and   *)
(* the entire requested window is covered": an observation that is reported   *)
(* as present counts every url of one collector's whole window once and the   *)
(* stories of one copy of each, those an undivided window would have kept     *)
(* where the copies are listed in the order of their time; and a completed    *)
(* run has counted every article of it: however the window was halved,        *)
(* whatever failed or died, and whatever the retention deleted.               *)
THEOREM WholeWindows == JobsSpec => []PresentIsWhole
  <1>1. JobsInit => MediaInv
    BY MediaInit, WindowAssumption DEF JobsInit
  <1>2. MediaInv /\ [JobsNext]_all => MediaInv'
    <2>1. ASSUME MediaInv, JobsNext PROVE MediaInv'
      <3>1. Media!Next \/ UNCHANGED media
        BY <2>1 DEF JobsNext
      <3>2. [Media!Next]_(Media!vars)
        BY <3>1 DEF media, Media!vars, Media!machine, Media!store
      <3> QED
        BY <2>1, <3>2, MediaStep, WindowAssumption
    <2>2. ASSUME MediaInv, UNCHANGED all PROVE MediaInv'
      <3>1. [Media!Next]_(Media!vars)
        BY <2>2 DEF all, media, Media!vars, Media!machine, Media!store
      <3> QED
        BY <2>2, <3>1, MediaStep, WindowAssumption
    <2> QED
      BY <2>1, <2>2
  <1>3. MediaInv => PresentIsWhole
    BY MediaIsWhole, WindowAssumption
  <1> QED
    BY <1>1, <1>2, <1>3, PTL DEF JobsSpec
-----------------------------------------------------------------------------
(* MediaAttention: the stories of a list of articles.                         *)

(* The library is instantiated twice, and folds alike.                        *)
LEMMA MediaFold ==
    \A s : Media!FoldLeft(Media!Place, <<>>, s) = Clusters!FoldLeft(Media!Place, <<>>, s)
  BY DEF Media!FoldLeft, Media!MapThenFoldSet, Media!Max,
         Clusters!FoldLeft, Clusters!MapThenFoldSet, Clusters!Max

(* The articles in the order they are clustered in.                           *)
LEMMA ArticlesInOrder ==
    ASSUME NEW D, IsFiniteSet(D), \A a \in D : IsArticle(a), HaveOwnUrls(D)
    PROVE  LET s == Media!InOrder(D)
           IN  /\ Cardinality(D) \in Nat /\ DOMAIN s = 1 .. Cardinality(D)
               /\ \A n \in 1 .. Cardinality(D) : s[n] \in D
               /\ \A m, n \in 1 .. Cardinality(D) : s[m] = s[n] => m = n
               /\ \A a \in D : \E n \in 1 .. Cardinality(D) : s[n] = a
  <1> DEFINE s == Media!InOrder(D)
             size == Cardinality(D)
             R == {p \in D \X D : Media!Before(p[1], p[2])}
             under(x) == {y \in D : <<y, x>> \in R}
             nth(n) == CHOOSE x \in D : Cardinality(under(x)) = n - 1
  <1>1. \A x, y \in D : <<x, y>> \in R <=> Media!Before(x, y)
    OBVIOUS
  <1>2. \A x \in D : x.at \in Int /\ x.outlet \in Int /\ x.url \in Int
    BY DEF IsArticle
  <1>3. \A x \in D : ~ Media!Before(x, x)
    BY <1>2 DEF Media!Before
  <1>4. \A x, y \in D : x = y \/ Media!Before(x, y) \/ Media!Before(y, x)
    BY <1>2 DEF Media!Before, HaveOwnUrls
  <1>5. \A x, y, z \in D : Media!Before(x, y) /\ Media!Before(y, z) => Media!Before(x, z)
    BY <1>2 DEF Media!Before
  <1>6. /\ size \in Nat
        /\ \A n \in 1 .. size : nth(n) \in D
        /\ \A m, n \in 1 .. size : m < n => <<nth(m), nth(n)>> \in R
        /\ \A x \in D : \E n \in 1 .. size : nth(n) = x
    <2>1. /\ \A x \in D : <<x, x>> \notin R
          /\ \A x, y \in D : x = y \/ <<x, y>> \in R \/ <<y, x>> \in R
          /\ \A x, y, z \in D : <<x, y>> \in R /\ <<y, z>> \in R => <<x, z>> \in R
      BY <1>1, <1>3, <1>4, <1>5
    <2> HIDE DEF R
    <2>2. /\ Clusters!Cardinality(D) \in Nat
          /\ \A n \in 1 .. Clusters!Cardinality(D) : Clusters!Nth(D, R, n) \in D
          /\ \A m, n \in 1 .. Clusters!Cardinality(D) :
                m < n => <<Clusters!Nth(D, R, m), Clusters!Nth(D, R, n)>> \in R
          /\ \A x \in D : \E n \in 1 .. Clusters!Cardinality(D) : Clusters!Nth(D, R, n) = x
      <3>1. Clusters!IsFiniteSet(D)
        BY FoldingFinite
      <3> QED
        BY <2>1, <3>1, Clusters!Ranked
    <2>3. \A n : nth(n) = Clusters!Nth(D, R, n)
      BY FoldingFinite DEF Clusters!Nth
    <2> HIDE DEF nth
    <2> QED
      BY <2>2, <2>3, FoldingFinite
  <1>7. s = [n \in 1 .. size |-> nth(n)]
    <2>1. \A x \in D : {b \in D : Media!Before(b, x)} = under(x)
      BY <1>1
    <2> DEFINE before(x) == {b \in D : Media!Before(b, x)}
               mth(n) == CHOOSE x \in D : Cardinality(before(x)) = n - 1
               kth(n) == CHOOSE x \in D : Media!Cardinality(before(x)) = n - 1
    <2>2. s = [n \in 1 .. size |-> mth(n)]
      <3>1. s = [n \in 1 .. Media!Cardinality(D) |-> kth(n)]
        BY DEF Media!InOrder
      <3>2. \A n : kth(n) = mth(n)
        <4> HIDE DEF before
        <4> QED
          BY MediaCardinality
      <3> HIDE DEF kth, mth, s
      <3> QED
        BY <3>1, <3>2, MediaCardinality
    <2>3. \A n : mth(n) = nth(n)
      <3> HIDE DEF before, under
      <3> QED
        BY <2>1 DEF before
    <2> HIDE DEF mth, nth, s, size
    <2> QED
      BY <2>2, <2>3
  <1> HIDE DEF R, nth, s, size
  <1>8. \A m, n \in 1 .. size : nth(m) = nth(n) => m = n
    <2> SUFFICES ASSUME NEW m \in 1 .. size, NEW n \in 1 .. size, nth(m) = nth(n) PROVE m = n
      OBVIOUS
    <2>1. ~ (m < n) /\ ~ (n < m)
      BY <1>1, <1>3, <1>6
    <2> QED
      BY <1>6, <2>1
  <1>9. \A n \in 1 .. size : s[n] = nth(n)
    BY <1>7
  <1>10. /\ size \in Nat /\ DOMAIN s = 1 .. size
         /\ \A n \in 1 .. size : s[n] \in D
         /\ \A m, n \in 1 .. size : s[m] = s[n] => m = n
         /\ \A a \in D : \E n \in 1 .. size : s[n] = a
    BY <1>6, <1>7, <1>8, <1>9
  <1> QED
    BY <1>10 DEF size, s

-----------------------------------------------------------------------------
(* The cluster an article joins.                                              *)

LEMMA ProductsGrow ==
    ASSUME NEW x \in Nat, NEW y \in Nat, NEW k \in Nat
    PROVE  /\ x >= y => x * k >= y * k
           /\ x > y /\ k > 0 => x * k > y * k
  <1>1. ASSUME x >= y PROVE x * k >= y * k
    <2>1. PICK z \in Nat : x = y + z
      BY <1>1
    <2>2. x * k = y * k + z * k /\ z * k \in Nat /\ y * k \in Nat
      BY <2>1
    <2> QED
      BY <2>2
  <1>2. ASSUME x > y, k > 0 PROVE x * k > y * k
    <2>1. PICK z \in Nat : x = y + z /\ z > 0
      BY <1>2
    <2>2. x * k = y * k + z * k /\ z * k \in Nat /\ y * k \in Nat
      BY <2>1
    <2>3. z * k > 0
      BY <1>2, <2>1
    <2> QED
      BY <2>2, <2>3
  <1> QED
    BY <1>1, <1>2

LEMMA FractionsChain ==
    ASSUME NEW a \in Nat, NEW b \in Nat, NEW c \in Nat, NEW d \in Nat, NEW e \in Nat, NEW f \in Nat,
           b > 0, d > 0, f > 0, a * d >= c * b, c * f >= e * d
    PROVE  a * f >= e * b
  <1>1. /\ a * d \in Nat /\ c * b \in Nat /\ c * f \in Nat /\ e * d \in Nat
        /\ a * f \in Nat /\ e * b \in Nat
    OBVIOUS
  <1>2. (a * d) * f >= (c * b) * f
    BY <1>1, ProductsGrow
  <1>3. (c * f) * b >= (e * d) * b
    BY <1>1, ProductsGrow
  <1>4. (a * d) * f = (a * f) * d /\ (c * b) * f = (c * f) * b /\ (e * d) * b = (e * b) * d
    OBVIOUS
  <1>5. (a * f) * d >= (e * b) * d
    <2>1. (a * d) * f \in Int /\ (c * b) * f \in Int /\ (e * d) * b \in Int
      OBVIOUS
    <2> QED
      BY <1>2, <1>3, <1>4, <2>1
  <1>6. e * b > a * f => (e * b) * d > (a * f) * d
    BY <1>1, ProductsGrow
  <1>7. (a * f) * d \in Int /\ (e * b) * d \in Int
    OBVIOUS
  <1> QED
    BY <1>1, <1>5, <1>6, <1>7

IsFraction(x) == x.num \in Nat /\ x.den \in Nat /\ x.den > 0

LEMMA SimilarityType ==
    ASSUME NEW v, NEW w, IsFiniteSet(v), IsFiniteSet(w)
    PROVE  IsFraction(Media!Similarity(v, w))
  <1>1. CASE v \cup w = {}
    BY <1>1 DEF Media!Similarity, IsFraction
  <1>2. CASE v \cup w # {}
    <2>1. IsFiniteSet(v \cup w) /\ IsFiniteSet(v \cap w)
      BY FS_Union, FS_Intersection
    <2>2. Cardinality(v \cup w) \in Nat /\ Cardinality(v \cap w) \in Nat
      BY <2>1, FS_CardinalityType
    <2>3. Cardinality(v \cup w) # 0
      BY <1>2, <2>1, FS_EmptySet
    <2>4. Media!Similarity(v, w) = [num |-> Cardinality(v \cap w), den |-> Cardinality(v \cup w)]
      BY <1>2, MediaCardinality DEF Media!Similarity
    <2> QED
      BY <2>2, <2>3, <2>4 DEF IsFraction
  <1> QED
    BY <1>1, <1>2

LEMMA AtLeastOrders ==
    /\ \A x : IsFraction(x) => Media!AtLeast(x, x)
    /\ \A x, y : IsFraction(x) /\ IsFraction(y) => Media!AtLeast(x, y) \/ Media!AtLeast(y, x)
    /\ \A x, y, z : /\ IsFraction(x) /\ IsFraction(y) /\ IsFraction(z)
                    /\ Media!AtLeast(x, y) /\ Media!AtLeast(y, z)
                    => Media!AtLeast(x, z)
  <1>1. \A x : IsFraction(x) => Media!AtLeast(x, x)
    <2> SUFFICES ASSUME NEW x, IsFraction(x) PROVE Media!AtLeast(x, x)
      OBVIOUS
    <2>1. x.num * x.den \in Nat
      BY DEF IsFraction
    <2> QED
      BY <2>1 DEF Media!AtLeast
  <1>2. \A x, y : IsFraction(x) /\ IsFraction(y) => Media!AtLeast(x, y) \/ Media!AtLeast(y, x)
    <2> SUFFICES ASSUME NEW x, NEW y, IsFraction(x), IsFraction(y)
                 PROVE  Media!AtLeast(x, y) \/ Media!AtLeast(y, x)
      OBVIOUS
    <2>1. x.num * y.den \in Nat /\ y.num * x.den \in Nat
      BY DEF IsFraction
    <2> QED
      BY <2>1 DEF Media!AtLeast
  <1>3. ASSUME NEW x, NEW y, NEW z, IsFraction(x), IsFraction(y), IsFraction(z),
               Media!AtLeast(x, y), Media!AtLeast(y, z)
        PROVE  Media!AtLeast(x, z)
    <2>1. /\ x.num \in Nat /\ x.den \in Nat /\ x.den > 0 /\ y.num \in Nat /\ y.den \in Nat /\ y.den > 0
          /\ z.num \in Nat /\ z.den \in Nat /\ z.den > 0
      BY <1>3 DEF IsFraction
    <2>2. x.num * y.den >= y.num * x.den /\ y.num * z.den >= z.num * y.den
      BY <1>3 DEF Media!AtLeast
    <2>3. x.num * z.den >= z.num * x.den
      BY <2>1, <2>2, FractionsChain
    <2> QED
      BY <2>3 DEF Media!AtLeast
  <1> QED
    BY <1>1, <1>2, <1>3

(* A best one exists among any candidates there are.                          *)
LEMMA BestIsCandidate ==
    ASSUME NEW cl, NEW a, NEW candidates, IsFiniteSet(candidates), candidates # {},
           \A i \in candidates : IsFraction(Media!Similarity(a.words, cl[i].words)) /\ cl[i].anchor \in Int
    PROVE  Media!Best(a, cl, candidates) \in candidates
  <1> DEFINE sim(i) == Media!Similarity(a.words, cl[i].words)
             better(i, j) == /\ Media!AtLeast(sim(i), sim(j))
                             /\ Media!AtLeast(sim(j), sim(i)) => cl[i].anchor <= cl[j].anchor
             S == {T \in SUBSET candidates : T # {} => \E i \in T : \A j \in T : better(i, j)}
  <1>1. \A i \in candidates : IsFraction(sim(i)) /\ cl[i].anchor \in Int
    OBVIOUS
  <1> HIDE DEF sim
  <1>2. \A i \in candidates : better(i, i)
    BY <1>1, AtLeastOrders
  <1>3. \A i, j \in candidates : better(i, j) \/ better(j, i)
    BY <1>1, AtLeastOrders
  <1>4. ASSUME NEW i \in candidates, NEW j \in candidates, NEW k \in candidates, better(i, j), better(j, k)
        PROVE  better(i, k)
    <2>1. IsFraction(sim(i)) /\ IsFraction(sim(j)) /\ IsFraction(sim(k))
      BY <1>1
    <2>2. Media!AtLeast(sim(i), sim(k))
      BY <1>4, <2>1, AtLeastOrders
    <2>3. ASSUME Media!AtLeast(sim(k), sim(i)) PROVE cl[i].anchor <= cl[k].anchor
      <3>1. Media!AtLeast(sim(j), sim(i)) /\ Media!AtLeast(sim(k), sim(j))
        BY <1>4, <2>1, <2>3, AtLeastOrders
      <3>2. cl[i].anchor <= cl[j].anchor /\ cl[j].anchor <= cl[k].anchor
        BY <1>4, <3>1
      <3> QED
        BY <1>1, <3>2
    <2> QED
      BY <2>2, <2>3
  <1> HIDE DEF better
  <1>5. {} \in S
    OBVIOUS
  <1>6. ASSUME NEW T \in SUBSET candidates, NEW x \in candidates, T \in S PROVE T \cup {x} \in S
    <2>1. CASE T = {}
      BY <1>2, <2>1
    <2>2. CASE T # {}
      <3>1. PICK i \in T : \A j \in T : better(i, j)
        BY <1>6, <2>2
      <3>2. CASE better(i, x)
        BY <3>1, <3>2
      <3>3. CASE better(x, i)
        <4>1. \A j \in T : better(x, j)
          BY <1>4, <3>1, <3>3
        <4>2. \A j \in T \cup {x} : better(x, j)
          BY <1>2, <4>1
        <4> QED
          BY <4>2
      <3> QED
        BY <1>3, <3>1, <3>2, <3>3
    <2> QED
      BY <2>1, <2>2
  <1> HIDE DEF S
  <1>7. candidates \in S
    BY <1>5, <1>6, Clusters!SubsetsFollow, FoldingFinite
  <1>8. PICK i \in candidates : \A j \in candidates : better(i, j)
    BY <1>7 DEF S
  <1> QED
    BY <1>8 DEF better, sim, Media!Best

-----------------------------------------------------------------------------
(* The clusters of the articles that have been placed.                        *)

Members(x) == Media!Range(x.articles)

WordsOf(D) == UNION {a.words : a \in D}

ClusterRows(D) == [anchor : Nat, words : SUBSET WordsOf(D), articles : Seq(D)]

(* A cluster is anchored in its first article.                                *)
Anchored(x) ==
    /\ Len(x.articles) # 0 /\ x.anchor = x.articles[1].at
    /\ \A a \in Members(x) : a.at - x.anchor \in 0 .. Horizon
    /\ x.words = WordsOf(Members(x)) /\ IsFiniteSet(x.words)

Placed(s, k) == {s[n] : n \in 1 .. k}

Clusterings(D, s, k) ==
    {cl \in Seq(ClusterRows(D)) :
        /\ \A i \in DOMAIN cl : Anchored(cl[i])
        /\ UNION {Members(cl[i]) : i \in DOMAIN cl} = Placed(s, k)
        /\ \A i, j \in DOMAIN cl : i # j => Members(cl[i]) \cap Members(cl[j]) = {}
        /\ Len(cl) <= k /\ (Len(cl) = 0 <=> k = 0)}

(* The sequence with an element more.                                         *)
LEMMA RangeOfAppend ==
    ASSUME NEW A, NEW q \in Seq(A), NEW a \in A
    PROVE  /\ Append(q, a) \in Seq(A) /\ Len(Append(q, a)) = Len(q) + 1 /\ Len(q) \in Nat
           /\ DOMAIN q = 1 .. Len(q) /\ DOMAIN Append(q, a) = 1 .. Len(q) + 1
           /\ \A i \in DOMAIN q : Append(q, a)[i] = q[i]
           /\ Append(q, a)[Len(q) + 1] = a
           /\ Media!Range(Append(q, a)) = Media!Range(q) \cup {a}
  <1>1. /\ Append(q, a) \in Seq(A) /\ Len(Append(q, a)) = Len(q) + 1 /\ Len(q) \in Nat
        /\ DOMAIN q = 1 .. Len(q) /\ DOMAIN Append(q, a) = 1 .. Len(q) + 1
        /\ \A i \in DOMAIN q : Append(q, a)[i] = q[i]
        /\ Append(q, a)[Len(q) + 1] = a
    OBVIOUS
  <1> DEFINE r == Append(q, a)
  <1> HIDE DEF r
  <1>2. /\ DOMAIN r = 1 .. Len(q) + 1 /\ \A i \in DOMAIN q : r[i] = q[i]
        /\ r[Len(q) + 1] = a
    BY <1>1 DEF r
  <1>3. \A x \in DOMAIN r : x \in DOMAIN q \/ x = Len(q) + 1
    BY <1>1, <1>2
  <1>4. DOMAIN q \subseteq DOMAIN r /\ Len(q) + 1 \in DOMAIN r
    BY <1>1, <1>2
  <1>5. {r[i] : i \in DOMAIN r} = {q[i] : i \in DOMAIN q} \cup {a}
    BY <1>2, <1>3, <1>4
  <1> QED
    BY <1>1, <1>5 DEF r, Media!Range

(* An article that no cluster is near to starts one.                          *)
LEMMA NewCluster ==
    ASSUME Horizon \in Nat, NEW D, \A a \in D : IsArticle(a), NEW s, NEW k \in Nat,
           NEW cl \in Clusterings(D, s, k), NEW a \in D, a = s[k + 1], a \notin Placed(s, k)
    PROVE  Append(cl, [anchor |-> a.at, words |-> a.words, articles |-> <<a>>]) \in Clusterings(D, s, k + 1)
  <1> DEFINE x == [anchor |-> a.at, words |-> a.words, articles |-> <<a>>]
             r == Append(cl, x)
  <1>1. cl \in Seq(ClusterRows(D)) /\ Len(cl) <= k
    BY DEF Clusterings
  <1>2. x \in ClusterRows(D)
    <2>1. a.at \in Nat /\ a.words \in SUBSET WordsOf(D) /\ <<a>> \in Seq(D)
      BY DEF IsArticle, WordsOf
    <2> QED
      BY <2>1 DEF ClusterRows
  <1>3. Members(x) = {a}
    <2>1. x.articles = <<a>>
      OBVIOUS
    <2>2. Media!Range(<<a>>) = {a}
      BY DEF Media!Range
    <2> QED
      BY <2>1, <2>2 DEF Members
  <1>4. Anchored(x)
    <2>1. x.anchor = a.at /\ x.words = a.words /\ Len(x.articles) = 1 /\ x.articles[1] = a
      OBVIOUS
    <2>2. a.at - a.at \in 0 .. Horizon /\ IsFiniteSet(a.words)
      BY DEF IsArticle
    <2>3. WordsOf({a}) = a.words
      BY DEF WordsOf
    <2> HIDE DEF x
    <2> QED
      BY <1>3, <2>1, <2>2, <2>3 DEF Anchored
  <1> HIDE DEF x, r
  <1>5. /\ r \in Seq(ClusterRows(D)) /\ Len(r) = Len(cl) + 1 /\ Len(cl) \in Nat
        /\ DOMAIN cl = 1 .. Len(cl) /\ DOMAIN r = 1 .. Len(cl) + 1
        /\ \A i \in DOMAIN cl : r[i] = cl[i]
        /\ r[Len(cl) + 1] = x
    BY <1>1, <1>2, RangeOfAppend DEF r
  <1>6. \A i \in DOMAIN r : i \in DOMAIN cl \/ i = Len(cl) + 1
    BY <1>5
  <1>7. \A i \in DOMAIN r : Anchored(r[i])
    BY <1>4, <1>5, <1>6 DEF Clusterings
  <1>8. UNION {Members(r[i]) : i \in DOMAIN r} = Placed(s, k + 1)
    <2>1. UNION {Members(r[i]) : i \in DOMAIN r} = (UNION {Members(cl[i]) : i \in DOMAIN cl}) \cup {a}
      <3>1. \A i \in DOMAIN r : Members(r[i]) \subseteq (UNION {Members(cl[j]) : j \in DOMAIN cl}) \cup {a}
        BY <1>3, <1>5, <1>6
      <3>2. DOMAIN cl \subseteq DOMAIN r /\ Len(cl) + 1 \in DOMAIN r
        BY <1>5
      <3>3. \A i \in DOMAIN cl : Members(cl[i]) \subseteq UNION {Members(r[j]) : j \in DOMAIN r}
        BY <1>5, <3>2
      <3>4. a \in UNION {Members(r[j]) : j \in DOMAIN r}
        BY <1>3, <1>5, <3>2
      <3> QED
        BY <3>1, <3>3, <3>4
    <2>2. UNION {Members(cl[i]) : i \in DOMAIN cl} = Placed(s, k)
      BY DEF Clusterings
    <2>3. Placed(s, k + 1) = Placed(s, k) \cup {a}
      <3>1. \A n \in 1 .. k + 1 : n \in 1 .. k \/ n = k + 1
        OBVIOUS
      <3>2. \A n \in 1 .. k : n \in 1 .. k + 1
        OBVIOUS
      <3>3. k + 1 \in 1 .. k + 1
        OBVIOUS
      <3> QED
        BY <3>1, <3>2, <3>3 DEF Placed
    <2> QED
      BY <2>1, <2>2, <2>3
  <1>9. ASSUME NEW i \in DOMAIN r, NEW j \in DOMAIN r, i # j
        PROVE  Members(r[i]) \cap Members(r[j]) = {}
    <2>1. CASE i \in DOMAIN cl /\ j \in DOMAIN cl
      BY <1>5, <1>9, <2>1 DEF Clusterings
    <2>2. ASSUME NEW n \in DOMAIN cl PROVE a \notin Members(cl[n])
      BY DEF Clusterings
    <2>3. CASE i \in DOMAIN cl /\ j = Len(cl) + 1
      BY <1>3, <1>5, <2>2, <2>3
    <2>4. CASE j \in DOMAIN cl /\ i = Len(cl) + 1
      BY <1>3, <1>5, <2>2, <2>4
    <2> QED
      BY <1>6, <1>9, <2>1, <2>3, <2>4
  <1>10. Len(r) <= k + 1 /\ (Len(r) = 0 <=> k + 1 = 0)
    BY <1>1, <1>5
  <1> QED
    BY <1>5, <1>7, <1>8, <1>9, <1>10 DEF Clusterings, r, x

(* One that is near to a cluster joins it, and leaves its anchor.             *)
LEMMA JoinedCluster ==
    ASSUME Horizon \in Nat, NEW D, \A a \in D : IsArticle(a), NEW s, NEW k \in Nat,
           NEW cl \in Clusterings(D, s, k), NEW a \in D, a = s[k + 1], a \notin Placed(s, k),
           NEW i \in DOMAIN cl, Media!Near(a, cl[i])
    PROVE  [cl EXCEPT ![i] = [anchor |-> @.anchor, words |-> @.words \cup a.words,
                              articles |-> Append(@.articles, a)]] \in Clusterings(D, s, k + 1)
  <1> DEFINE x == [anchor |-> cl[i].anchor, words |-> cl[i].words \cup a.words,
                   articles |-> Append(cl[i].articles, a)]
             r == [cl EXCEPT ![i] = x]
  <1>1. cl \in Seq(ClusterRows(D)) /\ Len(cl) \in Nat /\ DOMAIN cl = 1 .. Len(cl)
    BY DEF Clusterings
  <1>2. /\ cl[i].anchor \in Nat /\ cl[i].words \in SUBSET WordsOf(D) /\ cl[i].articles \in Seq(D)
        /\ Anchored(cl[i])
    <2>1. cl[i] \in ClusterRows(D)
      BY <1>1
    <2> QED
      BY <2>1 DEF ClusterRows, Clusterings
  <1>3. Members(x) = Members(cl[i]) \cup {a}
    <2>1. x.articles = Append(cl[i].articles, a)
      OBVIOUS
    <2> HIDE DEF x
    <2> QED
      BY <1>2, <2>1, RangeOfAppend DEF Members
  <1>4. x \in ClusterRows(D)
    <2>1. cl[i].words \cup a.words \in SUBSET WordsOf(D)
      BY <1>2 DEF WordsOf
    <2>2. Append(cl[i].articles, a) \in Seq(D)
      BY <1>2
    <2> QED
      BY <1>2, <2>1, <2>2 DEF ClusterRows
  <1>5. Anchored(x)
    <2>1. x.anchor = cl[i].anchor /\ x.words = cl[i].words \cup a.words /\ x.articles = Append(cl[i].articles, a)
      OBVIOUS
    <2> HIDE DEF x
    <2>2. Len(x.articles) # 0 /\ x.articles[1] = cl[i].articles[1]
      <3>1. cl[i].articles \in Seq(D) /\ Len(cl[i].articles) # 0
        BY <1>2 DEF Anchored
      <3>2. 1 \in DOMAIN cl[i].articles /\ Len(cl[i].articles) \in Nat
        BY <3>1
      <3>3. Len(x.articles) = Len(cl[i].articles) + 1 /\ x.articles[1] = cl[i].articles[1]
        BY <2>1, <3>1, <3>2, RangeOfAppend
      <3> QED
        BY <3>2, <3>3
    <2>3. a.at - x.anchor \in 0 .. Horizon
      <3>1. a.at \in Nat
        BY DEF IsArticle
      <3> QED
        BY <1>2, <2>1, <3>1 DEF Media!Near
    <2>4. x.words = WordsOf(Members(x))
      <3>1. cl[i].words = WordsOf(Members(cl[i]))
        BY <1>2 DEF Anchored
      <3> QED
        BY <1>3, <2>1, <3>1 DEF WordsOf
    <2>5. IsFiniteSet(x.words)
      <3>1. IsFiniteSet(cl[i].words) /\ IsFiniteSet(a.words)
        BY <1>2 DEF Anchored, IsArticle
      <3>2. IsFiniteSet(cl[i].words \cup a.words)
        BY <3>1, FS_Union
      <3> QED
        BY <2>1, <3>2
    <2>6. \A b \in Members(x) : b.at - x.anchor \in 0 .. Horizon
      BY <1>2, <1>3, <2>1, <2>3 DEF Anchored
    <2>7. x.anchor = x.articles[1].at
      BY <1>2, <2>1, <2>2 DEF Anchored
    <2> QED
      BY <2>2, <2>4, <2>5, <2>6, <2>7 DEF Anchored
  <1> HIDE DEF x, r
  <1>6. /\ r \in Seq(ClusterRows(D)) /\ Len(r) = Len(cl) /\ DOMAIN r = DOMAIN cl
        /\ r[i] = x /\ \A j \in DOMAIN cl : j # i => r[j] = cl[j]
    <2>1. /\ DOMAIN r = 1 .. Len(cl) /\ r[i] = x /\ \A j \in DOMAIN cl : j # i => r[j] = cl[j]
      BY <1>1 DEF r
    <2>2. \A j \in 1 .. Len(cl) : r[j] \in ClusterRows(D)
      BY <1>1, <1>4, <2>1
    <2>3. r = [j \in 1 .. Len(cl) |-> r[j]]
      BY <1>1 DEF r
    <2>4. r \in [1 .. Len(cl) -> ClusterRows(D)]
      BY <2>2, <2>3
    <2> QED
      BY <1>1, <2>1, <2>4
  <1>7. \A j \in DOMAIN r : Anchored(r[j])
    BY <1>5, <1>6 DEF Clusterings
  <1>8. UNION {Members(r[j]) : j \in DOMAIN r} = Placed(s, k + 1)
    <2>1. UNION {Members(r[j]) : j \in DOMAIN r} = (UNION {Members(cl[j]) : j \in DOMAIN cl}) \cup {a}
      <3>1. \A j \in DOMAIN r : Members(r[j]) \subseteq (UNION {Members(cl[n]) : n \in DOMAIN cl}) \cup {a}
        <4> SUFFICES ASSUME NEW j \in DOMAIN r
                     PROVE  Members(r[j]) \subseteq (UNION {Members(cl[n]) : n \in DOMAIN cl}) \cup {a}
          OBVIOUS
        <4>1. j \in DOMAIN cl
          BY <1>6
        <4>2. Members(r[j]) \subseteq Members(cl[j]) \cup {a}
          BY <1>3, <1>6, <4>1
        <4> QED
          BY <4>1, <4>2
      <3>2. \A j \in DOMAIN cl : Members(cl[j]) \subseteq UNION {Members(r[n]) : n \in DOMAIN r}
        <4> SUFFICES ASSUME NEW j \in DOMAIN cl
                     PROVE  Members(cl[j]) \subseteq UNION {Members(r[n]) : n \in DOMAIN r}
          OBVIOUS
        <4>1. j \in DOMAIN r
          BY <1>6
        <4>2. Members(cl[j]) \subseteq Members(r[j])
          BY <1>3, <1>6
        <4> QED
          BY <4>1, <4>2
      <3>3. a \in UNION {Members(r[n]) : n \in DOMAIN r}
        <4>1. i \in DOMAIN r /\ a \in Members(r[i])
          BY <1>3, <1>6
        <4> QED
          BY <4>1
      <3> QED
        BY <3>1, <3>2, <3>3
    <2>2. UNION {Members(cl[j]) : j \in DOMAIN cl} = Placed(s, k)
      BY DEF Clusterings
    <2>3. Placed(s, k + 1) = Placed(s, k) \cup {a}
      <3>1. \A n \in 1 .. k + 1 : n \in 1 .. k \/ n = k + 1
        OBVIOUS
      <3>2. \A n \in 1 .. k : n \in 1 .. k + 1
        OBVIOUS
      <3>3. k + 1 \in 1 .. k + 1
        OBVIOUS
      <3> QED
        BY <3>1, <3>2, <3>3 DEF Placed
    <2> QED
      BY <2>1, <2>2, <2>3
  <1>9. ASSUME NEW m \in DOMAIN r, NEW n \in DOMAIN r, m # n
        PROVE  Members(r[m]) \cap Members(r[n]) = {}
    <2>1. /\ m \in DOMAIN cl /\ n \in DOMAIN cl /\ Members(cl[m]) \cap Members(cl[n]) = {}
          /\ a \notin Members(cl[m]) /\ a \notin Members(cl[n])
      BY <1>6, <1>9 DEF Clusterings
    <2>2. Members(r[m]) = Members(cl[m]) \/ (m = i /\ Members(r[m]) = Members(cl[m]) \cup {a})
      BY <1>3, <1>6, <2>1
    <2>3. Members(r[n]) = Members(cl[n]) \/ (n = i /\ Members(r[n]) = Members(cl[n]) \cup {a})
      BY <1>3, <1>6, <2>1
    <2> QED
      BY <1>9, <2>1, <2>2, <2>3
  <1>10. Len(r) <= k + 1 /\ (Len(r) = 0 <=> k + 1 = 0)
    <2>1. Len(cl) <= k /\ Len(cl) # 0
      BY <1>1 DEF Clusterings
    <2> QED
      BY <1>1, <1>6, <2>1
  <1>11. r \in Clusterings(D, s, k + 1)
    BY <1>6, <1>7, <1>8, <1>9, <1>10 DEF Clusterings
  <1> QED
    BY <1>11 DEF r, x

(* The next article keeps the clusters as they should be.                     *)
LEMMA PlaceKeeps ==
    ASSUME Horizon \in Nat, NEW D, \A a \in D : IsArticle(a), NEW s, NEW k \in Nat,
           NEW cl \in Clusterings(D, s, k), NEW a \in D, a = s[k + 1], a \notin Placed(s, k)
    PROVE  Media!Place(cl, a) \in Clusterings(D, s, k + 1)
  <1> DEFINE candidates == {i \in DOMAIN cl : Media!Joins(a, cl[i])}
             best == Media!Best(a, cl, candidates)
  <1>1. CASE candidates = {}
    <2>1. Media!Place(cl, a) = Append(cl, [anchor |-> a.at, words |-> a.words, articles |-> <<a>>])
      BY <1>1 DEF Media!Place
    <2> QED
      BY <2>1, NewCluster
  <1>2. CASE candidates # {}
    <2>1. /\ Len(cl) \in Nat /\ DOMAIN cl = 1 .. Len(cl)
          /\ \A i \in DOMAIN cl : cl[i].anchor \in Nat /\ Anchored(cl[i])
      <3>1. /\ cl \in Seq(ClusterRows(D)) /\ Len(cl) \in Nat /\ DOMAIN cl = 1 .. Len(cl)
            /\ \A i \in DOMAIN cl : Anchored(cl[i])
        BY DEF Clusterings
      <3>2. \A i \in DOMAIN cl : cl[i] \in ClusterRows(D)
        BY <3>1
      <3>3. \A x \in ClusterRows(D) : x.anchor \in Nat
        BY DEF ClusterRows
      <3> QED
        BY <3>1, <3>2, <3>3
    <2>2. IsFiniteSet(candidates)
      <3>1. IsFiniteSet(DOMAIN cl)
        <4> DEFINE n == Len(cl)
        <4>1. n \in Nat
          BY <2>1
        <4> HIDE DEF n
        <4>2. IsFiniteSet(1 .. n)
          BY <4>1, FS_Interval
        <4> QED
          BY <2>1, <4>2 DEF n
      <3> QED
        BY <3>1, FS_Subset
    <2>3. \A i \in DOMAIN cl : IsFraction(Media!Similarity(a.words, cl[i].words)) /\ cl[i].anchor \in Int
      BY <2>1, SimilarityType DEF Anchored, IsArticle
    <2>4. best \in candidates
      <3>1. candidates \subseteq DOMAIN cl
        OBVIOUS
      <3> HIDE DEF candidates
      <3> QED
        BY <1>2, <2>2, <2>3, <3>1, BestIsCandidate
    <2>5. Media!Place(cl, a) = [cl EXCEPT ![best] =
              [anchor |-> @.anchor, words |-> @.words \cup a.words, articles |-> Append(@.articles, a)]]
      BY <1>2 DEF Media!Place
    <2>6. best \in DOMAIN cl /\ Media!Near(a, cl[best])
      BY <2>4 DEF Media!Joins
    <2> HIDE DEF best
    <2> QED
      BY <2>5, <2>6, JoinedCluster
  <1> QED
    BY <1>1, <1>2

(* The stories of any finite set of articles, each of its own url.            *)
LEMMA ClusteredArticles ==
    ASSUME Horizon \in Nat, NEW D, IsFiniteSet(D), \A a \in D : IsArticle(a), HaveOwnUrls(D)
    PROVE  \E s : /\ Cardinality(D) \in Nat
                  /\ Media!Clustered(D) \in Clusterings(D, s, Cardinality(D))
                  /\ Placed(s, Cardinality(D)) = D
  <1> DEFINE s == Media!InOrder(D)
             N == Cardinality(D)
             Good == [k \in Nat |-> Clusterings(D, s, k)]
  <1>1. /\ N \in Nat /\ DOMAIN s = 1 .. N
        /\ \A n \in 1 .. N : s[n] \in D
        /\ \A m, n \in 1 .. N : s[m] = s[n] => m = n
        /\ \A a \in D : \E n \in 1 .. N : s[n] = a
    BY ArticlesInOrder
  <1>2. Media!Clustered(D) = Clusters!FoldLeft(Media!Place, <<>>, s)
    BY MediaFold DEF Media!Clustered
  <1> HIDE DEF s, N
  <1>3. <<>> \in Good[0]
    <2>1. <<>> \in Seq(ClusterRows(D)) /\ DOMAIN <<>> = {} /\ Len(<<>>) = 0
      OBVIOUS
    <2>2. Placed(s, 0) = {}
      BY DEF Placed
    <2> QED
      BY <2>1, <2>2 DEF Clusterings
  <1>4. ASSUME NEW k \in 0 .. N - 1, NEW x \in Good[k]
        PROVE  Media!Place(x, s[k + 1]) \in Good[k + 1]
    <2>1. k \in Nat /\ k + 1 \in 1 .. N /\ s[k + 1] \in D
      BY <1>1
    <2>2. s[k + 1] \notin Placed(s, k)
      <3>1. \A n \in 1 .. k : n \in 1 .. N /\ n # k + 1
        BY <1>1
      <3> QED
        BY <1>1, <2>1, <3>1 DEF Placed
    <2>3. x \in Clusterings(D, s, k)
      BY <2>1
    <2>4. Media!Place(x, s[k + 1]) \in Clusterings(D, s, k + 1)
      BY <2>1, <2>2, <2>3, PlaceKeeps
    <2> QED
      BY <2>1, <2>4
  <1>5. Clusters!FoldLeft(Media!Place, <<>>, s) \in Good[N]
    <2> HIDE DEF Good
    <2> QED
      BY <1>1, <1>3, <1>4, Clusters!FoldKeeps
  <1>6. Placed(s, N) = D
    BY <1>1 DEF Placed
  <1>7. Media!Clustered(D) \in Clusterings(D, s, N)
    BY <1>1, <1>2, <1>5
  <1> QED
    BY <1>1, <1>6, <1>7 DEF N

(* Every sequence of articles is well clustered.                              *)
LEMMA ArticlesWellClustered ==
    ASSUME Horizon \in Nat, NEW q, Len(q) \in Nat, DOMAIN q = 1 .. Len(q),
           \A i \in DOMAIN q : IsArticle(q[i])
    PROVE  Media!WellClustered(q)
  <1> DEFINE D == Media!Distinct(q)
             S == Media!Stories(q)
             N == Cardinality(D)
  <1>1. IsFiniteSet(D) /\ HaveOwnUrls(D) /\ \A a \in D : IsArticle(a)
    BY DistinctArticles DEF Media!Range
  <1>2. S = Media!Clustered(D)
    BY DEF Media!Stories
  <1>3. Media!Cardinality(D) = N /\ Media!Cardinality(Media!Outlets(q)) = Cardinality(Media!Outlets(q))
    BY MediaCardinality
  <1>4. Cardinality(Media!Outlets(q)) <= N
    <2> DEFINE O == {a.outlet : a \in D}
               f == [a \in D |-> a.outlet]
    <2>1. f \in Surjection(D, O)
      BY DEF Surjection
    <2>2. Media!Outlets(q) = O
      BY DEF Media!Outlets
    <2> HIDE DEF O, f, D
    <2>3. Cardinality(O) <= Cardinality(D)
      BY <1>1, <2>1, FS_Surjection
    <2> QED
      BY <2>2, <2>3 DEF N
  <1> HIDE DEF D
  <1>5. PICK s : N \in Nat /\ Media!Clustered(D) \in Clusterings(D, s, N) /\ Placed(s, N) = D
    BY <1>1, ClusteredArticles
  <1> HIDE DEF S
  <1>6. S \in Clusterings(D, s, N)
    BY <1>2, <1>5
  <1>7. UNION {Media!Range(S[i].articles) : i \in DOMAIN S} = D
    BY <1>5, <1>6 DEF Clusterings, Members
  <1>8. \A i, j \in DOMAIN S : i # j => Media!Range(S[i].articles) \cap Media!Range(S[j].articles) = {}
    BY <1>6 DEF Clusterings, Members
  <1>9. ASSUME NEW i \in DOMAIN S
        PROVE  /\ S[i].anchor = Head(S[i].articles).at
               /\ \A a \in Media!Range(S[i].articles) : a.at - S[i].anchor \in 0 .. Horizon
               /\ S[i].words = UNION {a.words : a \in Media!Range(S[i].articles)}
    <2>1. Anchored(S[i]) /\ S[i] \in ClusterRows(D)
      BY <1>6 DEF Clusterings
    <2>2. Head(S[i].articles) = S[i].articles[1]
      BY <2>1 DEF ClusterRows
    <2> QED
      BY <2>1, <2>2 DEF Anchored, Members, WordsOf
  <1>10. Len(S) <= N /\ (Len(S) = 0 <=> D = {})
    <2>1. Len(S) <= N /\ (Len(S) = 0 <=> N = 0)
      BY <1>6 DEF Clusterings
    <2>2. N = 0 <=> D = {}
      BY <1>1, FS_EmptySet
    <2> QED
      BY <2>1, <2>2
  <1> QED
    BY <1>3, <1>4, <1>7, <1>8, <1>9, <1>10 DEF Media!WellClustered, S, D

-----------------------------------------------------------------------------
(* What the collectors have got, of which the stories are made.               *)

GotArticles == /\ world \in Worlds /\ DOMAIN got = Collector
               /\ \A c \in Collector : got[c] \in Seq(Reported(c))

(* A slice is a list of what the provider has, wherever it ends.              *)
LEMMA WithinList ==
    ASSUME NEW c \in Collector, NEW s, Len(Articles(c)) \in Nat, DOMAIN Articles(c) = 1 .. Len(Articles(c))
    PROVE  Media!Within(c, s) \in Seq(Reported(c))
  <1> DEFINE P == {i \in DOMAIN Articles(c) : Articles(c)[i].at >= s.from /\ Articles(c)[i].at < s.to}
             nth(n) == CHOOSE i \in P : Cardinality({j \in P : j < i}) = n - 1
             q == Media!Within(c, s)
             size == Cardinality(P)
  <1>1. q = [n \in 1 .. size |-> Articles(c)[nth(n)]]
    <2> DEFINE other(n) == CHOOSE i \in P : Media!Cardinality({j \in P : j < i}) = n
               one(n) == CHOOSE i \in P : Cardinality({j \in P : j < i}) = n
    <2>1. \A n : other(n) = one(n)
      BY MediaCardinality
    <2>2. q = [n \in 1 .. size |-> Articles(c)[other(n - 1)]]
      BY MediaCardinality DEF Media!Within, Articles
    <2>3. [n \in 1 .. size |-> Articles(c)[other(n - 1)]] = [n \in 1 .. size |-> Articles(c)[one(n - 1)]]
      <3> HIDE DEF other, one
      <3> QED
        BY <2>1
    <2> QED
      BY <2>2, <2>3
  <1>2. P \in SUBSET Int /\ P \subseteq DOMAIN Articles(c) /\ IsFiniteSet(P)
    <2> DEFINE n == Len(Articles(c))
    <2>1. n \in Int /\ DOMAIN Articles(c) = 1 .. n
      OBVIOUS
    <2>2. P \subseteq DOMAIN Articles(c)
      OBVIOUS
    <2> HIDE DEF n, P
    <2>3. IsFiniteSet(1 .. n)
      BY <2>1, FS_Interval
    <2> QED
      BY <2>1, <2>2, <2>3, FS_Subset
  <1>3. size \in Nat /\ \A n \in 1 .. size : nth(n) \in P
    <2> HIDE DEF P
    <2> QED
      BY <1>2, Numbered
  <1> HIDE DEF P, nth, q, size
  <1>4. q \in [1 .. size -> Reported(c)]
    <2>1. \A n \in 1 .. size : Articles(c)[nth(n)] \in Reported(c)
      BY <1>2, <1>3 DEF Reported
    <2> QED
      BY <1>1, <2>1
  <1> QED
    BY <1>3, <1>4 DEF q

LEMMA GotArticlesStep ==
    ASSUME StoryAssumptions, GotArticles, [Media!Next]_(Media!vars)
    PROVE  GotArticles'
  <1>1. ASSUME world' = world, got' = got PROVE GotArticles'
    <2>1. \A c : Reported(c)' = Reported(c)
      BY <1>1 DEF Reported, Articles
    <2> QED
      BY <1>1, <2>1 DEF GotArticles
  <1>2. ASSUME NEW c \in Collector, world' = world, NEW new \in Seq(Reported(c)), got' = [got EXCEPT ![c] = new]
        PROVE  GotArticles'
    <2>1. \A d : Reported(d)' = Reported(d)
      BY <1>2 DEF Reported, Articles
    <2> QED
      BY <1>2, <2>1 DEF GotArticles
  <1>3. ASSUME NEW c \in Collector, Media!QuerySlice(c) PROVE GotArticles'
    <2> DEFINE s == Head(todo[c])
    <2>1. /\ world' = world
          /\ got' = got \/ got' = [got EXCEPT ![c] = @ \o Media!Within(c, s)]
      BY <1>3 DEF Media!QuerySlice, Media!GiveUp
    <2>2. Media!Within(c, s) \in Seq(Reported(c))
      <3>1. Len(Articles(c)) \in Nat /\ DOMAIN Articles(c) = 1 .. Len(Articles(c))
        BY DEF StoryAssumptions, GotArticles, Articles
      <3> HIDE DEF s
      <3> QED
        BY <3>1, WithinList
    <2> HIDE DEF s
    <2>3. got[c] \o Media!Within(c, s) \in Seq(Reported(c))
      BY <2>2 DEF GotArticles
    <2>4. CASE got' = [got EXCEPT ![c] = @ \o Media!Within(c, s)]
      BY <1>2, <2>1, <2>3, <2>4
    <2> QED
      BY <1>1, <2>1, <2>4
  <1>4. ASSUME NEW c \in Collector, Media!QueryFails(c) PROVE GotArticles'
    <2>1. world' = world /\ got' = [got EXCEPT ![c] = <<>>] /\ <<>> \in Seq(Reported(c))
      BY <1>4 DEF Media!QueryFails
    <2> QED
      BY <1>2, <2>1
  <1>5. ASSUME NEW c \in Collector,
               \/ Media!Start(c) \/ Media!Judge(c) \/ Media!Store(c) \/ Media!MarkRaw(c) \/ Media!Normalize(c)
               \/ Media!Publish(c) \/ Media!Relink(c) \/ Media!Finish(c) \/ Media!Die(c)
        PROVE  GotArticles'
    <2>1. world' = world /\ got' = got
      BY <1>5 DEF Media!Start, Media!Judge, Media!Store, Media!MarkRaw, Media!Normalize,
                  Media!Publish, Media!Relink, Media!Finish, Media!Die
    <2> QED
      BY <1>1, <2>1
  <1>6. ASSUME UNCHANGED Media!machine PROVE GotArticles'
    BY <1>1, <1>6 DEF Media!machine
  <1>7. CASE Media!Next
    <2>1. ASSUME NEW c \in Collector, Media!Collect(c) PROVE GotArticles'
      BY <1>3, <1>4, <1>5, <2>1 DEF Media!Collect
    <2>2. (\E c \in Collector : Media!Collect(c)) \/ UNCHANGED Media!machine
      BY <1>7 DEF Media!Next, Media!FindAffected, Media!DeleteExpired, Media!Expire
    <2> QED
      BY <1>6, <2>1, <2>2
  <1>8. CASE UNCHANGED Media!vars
    BY <1>6, <1>8 DEF Media!vars
  <1> QED
    BY <1>7, <1>8

(* "48-hour inception-anchored Jaccard story clustering", "chaining           *)
(* prevention": whatever a collector has got of the provider at any moment of *)
(* a collection, the stories made of it partition the articles of distinct    *)
(* urls, each is anchored in its first article and holds none that is older   *)
(* or more than the horizon newer, however many joined it before, its words   *)
(* are those of its articles, and the counts keep their hierarchy: no more    *)
(* stories than distinct articles, and none only of no article.               *)
THEOREM AnchoredStories == JobsSpec => []StoriesAreAnchored
  <1>1. JobsInit => GotArticles
    <2> SUFFICES ASSUME JobsInit PROVE GotArticles
      OBVIOUS
    <2>1. world \in Worlds /\ got = [c \in Collector |-> <<>>]
      BY DEF JobsInit, Media!Init
    <2>2. DOMAIN got = Collector /\ \A c \in Collector : got[c] = <<>>
      BY <2>1
    <2>3. \A c : <<>> \in Seq(Reported(c))
      OBVIOUS
    <2> QED
      BY <2>1, <2>2, <2>3 DEF GotArticles
  <1>2. GotArticles /\ [JobsNext]_all => GotArticles'
    <2>1. [JobsNext]_all => [Media!Next]_(Media!vars)
      BY DEF JobsNext, all, media, Media!vars, Media!machine, Media!store
    <2> QED
      BY <2>1, GotArticlesStep, ArticlesAssumption
  <1>3. GotArticles => StoriesAreAnchored
    <2> SUFFICES ASSUME GotArticles, NEW c \in Collector PROVE Media!WellClustered(got[c])
      BY DEF StoriesAreAnchored, Media!StoriesAreAnchored
    <2>1. Horizon \in Nat /\ \A a \in Reported(c) : IsArticle(a)
      BY ArticlesAssumption DEF StoryAssumptions, GotArticles, Reported, Articles
    <2> DEFINE q == got[c]
    <2>2. q \in Seq(Reported(c))
      BY DEF GotArticles
    <2> HIDE DEF q
    <2>3. Len(q) \in Nat /\ DOMAIN q = 1 .. Len(q) /\ \A i \in DOMAIN q : IsArticle(q[i])
      BY <2>1, <2>2
    <2>4. Media!WellClustered(q)
      BY <2>1, <2>3, ArticlesWellClustered
    <2> QED
      BY <2>4 DEF q
  <1> QED
    BY <1>1, <1>2, <1>3, PTL DEF JobsSpec
=============================================================================
