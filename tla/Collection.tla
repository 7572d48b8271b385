----------------------------- MODULE Collection -----------------------------
(***************************************************************************)
(* The collectors of application/collection.py that page a source adapter   *)
(* (CollectSource, CollectYouTubeVideos, CollectSearchInterest) over        *)
(* DiscoveryRepositorySQL and SearchInterestRepositorySQL, the identity     *)
(* policy of product_identity.py, and the retention job of                  *)
(* youtube_retention.py, which deletes raw records beside them.             *)
(*                                                                         *)
(* Every method of the repositories is one commit, so a collector is a      *)
(* sequence of commits with reads in between; the session neither           *)
(* autoflushes nor expires what it has read, so what an upsert decides is   *)
(* what it read before its first write.                                     *)
(*                                                                         *)
(* A listing is a source and the source's own product id.  A raw record is  *)
(* named by its source and payload, and a product by the listing whose      *)
(* upsert created it: both are unique by the indexes of the tables.         *)
(* Titles, variants, images and urls are left out; brand and category, which *)
(* the code only compares together, are one value.                          *)
(***************************************************************************)
EXTENDS Naturals, Sequences, FiniteSets, TLC

CONSTANTS
    Run,        \* collector runs
    Job,        \* retention runs
    Source,     \* source ids
    Fixture,    \* those whose products upsert_product treats as fixtures
    Expiring,   \* those the retention is configured for
    Item,       \* source_product_id values, and natural keys of a series
    Gtin,       \* valid GTINs
    Look,       \* brand and category
    Price,      \* prices and values, without the 0 of an unpriced offer
    None,       \* what a payload does not supply
    Plans,      \* what the collectors may be given to collect, together
    PageSize,   \* CollectionConfig.batch_size
    MaxRecords, \* CollectionConfig.max_records
    MaxPages,   \* CollectionConfig.max_pages
    PruneSize,  \* batch_size of the retention
    MaxBatches  \* max_batches of the retention

Kind    == {"product", "video", "interest"}
Payload == [from: Source, id: Item, valid: BOOLEAN, gtin: Gtin \cup {None},
            look: Look \cup {None}, price: Price \cup {None},
            stock: BOOLEAN \cup {None}]
Plan    == [kind: Kind, source: Source, feed: Seq(Payload)]
Listing == Source \X Item
Product == [gtin: Gtin \cup {None}, look: Look \cup {None},
            price: Price \cup {None}, stock: BOOLEAN]
Offer   == [price: Price \cup {0}, stock: BOOLEAN, product: Listing]
Key     == Source \X Payload  \* uq_raw_source_records_source_payload_hash

ASSUME CollectionAssumption ==
    /\ Plans \subseteq [Run -> Plan]
    /\ Fixture \subseteq Source /\ Expiring \subseteq Source
    /\ {PageSize, MaxRecords, MaxPages, PruneSize, MaxBatches} \subseteq Nat \ {0}
    /\ Price \subseteq Nat \ {0}
    /\ None \notin Gtin /\ None \notin Look /\ None \notin Price
    /\ None \notin BOOLEAN /\ None \notin Listing /\ None \notin Product /\ None \notin Offer

VARIABLES
    plan,     \* what each collector was started with
    pc,       \* where each collector is
    page,     \* the end of the batch it holds, and the batches it has had
    count,    \* its counters
    seen,     \* what its upsert has read
    row,      \* its row in collection_runs
    raws,     \* raw_source_records: the processing status of each
    old,      \* those fetched before the retention horizon
    products, \* products
    maps,     \* product_source_map
    created,  \* created_at of its rows
    obs,      \* product_observations
    offers,   \* retailer_offers
    history,  \* offer_price_history
    series,   \* search_interest_observations, by natural key
    job,      \* the retention runs
    made      \* how many products each collector has committed (no code reads it)

collector == <<plan, pc, page, count, seen, row, made>>
catalogue == <<products, maps, created, obs, offers, history>>
vars == <<collector, raws, old, catalogue, series, job>>

-----------------------------------------------------------------------------

Fresh    == [fetched |-> 0, inserted |-> 0, updated |-> 0, skipped |-> 0,
             failed |-> 0, verified |-> 0, possible |-> 0]
Noted(outcome) == [begun |-> 0, map |-> None, first |-> None, same |-> None, like |-> FALSE,
                   offer |-> None, product |-> None, others |-> FALSE,
                   outcome |-> outcome, match |-> "none"]
Unread   == Noted("none")
Counters == [fetched: Nat, inserted: Nat, updated: Nat, skipped: Nat,
             failed: Nat, verified: Nat, possible: Nat]
Reading  == [begun: Nat, map: Listing \cup {None}, first: Listing \cup {None},
             same: Listing \cup {None}, like: BOOLEAN, offer: Offer \cup {None},
             product: Product \cup {None}, others: BOOLEAN,
             outcome: {"none", "inserted", "updated", "skipped"},
             match: {"none", "verified", "possible"}]
Pruning  == [state: {"idle", "pruning", "completed", "failed", "dry_run"},
             source: Source \cup {None}, due: SUBSET Key, batches: Nat, pruned: Nat]
Ended    == {"done", "dead"}
Upserts  == {"lookup", "resolve", "write", "mark"}
Labels   == {"idle", "fetch", "record", "reread", "reject", "observe", "completing",
             "failing", "rollback"} \cup Upserts \cup Ended

TypeOK ==
    /\ plan \in Plans
    /\ pc \in [Run -> Labels]
    /\ page \in [Run -> [end: Nat, pages: Nat]]
    /\ count \in [Run -> Counters]
    /\ seen \in [Run -> Reading]
    /\ row \in [Run -> [status: {"none", "running", "completed", "failed"}, count: Counters]]
    /\ /\ DOMAIN raws \subseteq Key
       /\ \A k \in DOMAIN raws : raws[k] \in {"pending", "processed", "failed"}
    /\ old \subseteq DOMAIN raws
    /\ /\ DOMAIN products \subseteq Listing
       /\ \A p \in DOMAIN products : products[p] \in Product
    /\ /\ DOMAIN maps \subseteq Listing
       /\ \A l \in DOMAIN maps : maps[l] \in DOMAIN products
    /\ DOMAIN created = DOMAIN maps /\ \A l \in DOMAIN created : created[l] \in Nat
    /\ obs \subseteq [raw: Key, product: Listing, run: Run]
    /\ /\ DOMAIN offers \subseteq DOMAIN maps
       /\ \A l \in DOMAIN offers : offers[l] \in Offer
    /\ /\ DOMAIN history = DOMAIN offers
       /\ \A l \in DOMAIN history : history[l] \in Seq([price: Price \cup {0}, stock: BOOLEAN])
    /\ DOMAIN series \subseteq Listing
    /\ job \in [Job -> Pruning]
    /\ \A j \in Job : job[j].due \subseteq DOMAIN raws
    /\ made \in [Run -> Nat]

Empty == [x \in {} |-> None]

(* The table with a row, new or in the place of its own.                    *)
Put(table, x, row_) == [y \in DOMAIN table \cup {x} |-> IF y = x THEN row_ ELSE table[y]]

Init ==
    /\ plan \in Plans
    /\ pc = [r \in Run |-> "idle"]
    /\ page = [r \in Run |-> [end |-> 0, pages |-> 0]]
    /\ count = [r \in Run |-> Fresh]
    /\ seen = [r \in Run |-> Unread]
    /\ row = [r \in Run |-> [status |-> "none", count |-> Fresh]]
    /\ raws = Empty /\ old = {}
    /\ products = Empty /\ maps = Empty /\ created = Empty /\ obs = {} /\ offers = Empty
    /\ history = Empty /\ series = Empty
    /\ job = [j \in Job |-> [state |-> "idle", source |-> None, due |-> {},
                             batches |-> 0, pruned |-> 0]]
    /\ made = [r \in Run |-> 0]

-----------------------------------------------------------------------------

Goto(r, label) == pc' = [pc EXCEPT ![r] = label]

Counted(c, names) ==
    LET Plus(name) == IF name \in names THEN 1 ELSE 0
    IN  [fetched  |-> c.fetched + Plus("fetched"),   inserted |-> c.inserted + Plus("inserted"),
         updated  |-> c.updated + Plus("updated"),   skipped  |-> c.skipped + Plus("skipped"),
         failed   |-> c.failed + Plus("failed"),     verified |-> c.verified + Plus("verified"),
         possible |-> c.possible + Plus("possible")]

Tally(r, names) == count' = [count EXCEPT ![r] = Counted(@, names)]

Current(r) == plan[r].feed[count[r].fetched]
KeyOf(r)   == <<plan[r].source, Current(r)>>
ListingOf(r) == <<plan[r].source, Current(r).id>>

(* A value that is missing leaves, or gets, the one that was there. *)
Supplied(new, was) == IF new = None THEN was ELSE new

(* Where the collector goes once the n-th record is dealt with: to the next *)
(* of the batch, or to the next batch unless the adapter has no more.       *)
Proceed(r, n) ==
    Goto(r, IF n < page[r].end THEN "record"
            ELSE IF n = Len(plan[r].feed) THEN "completing" ELSE "fetch")

(* start_run. *)
Start(r) ==
    /\ pc[r] = "idle"
    /\ Goto(r, "fetch")
    /\ row' = [row EXCEPT ![r].status = "running"]
    /\ UNCHANGED <<plan, page, count, seen, made, raws, old, catalogue, series, job>>

WithinBounds(r) == count[r].fetched < MaxRecords /\ page[r].pages < MaxPages

(* One round of the paging loop.  The adapter may return fewer records than *)
(* asked for, none at all, more than asked for, or fail; a batch of another *)
(* source is such a failure.                                                *)
Fetch(r) ==
    /\ pc[r] = "fetch"
    /\ \/ /\ ~ WithinBounds(r)
          /\ Goto(r, "completing")
          /\ UNCHANGED page
       \/ /\ WithinBounds(r)
          /\ Goto(r, "failing")
          /\ UNCHANGED page
       \/ /\ WithinBounds(r)
          /\ Goto(r, "completing")
          /\ UNCHANGED page
       \/ /\ WithinBounds(r)
          /\ \E n \in 1 .. PageSize + 1 :
                /\ count[r].fetched + n <= Len(plan[r].feed)
                /\ page' = [page EXCEPT ![r] =
                      [end   |-> IF count[r].fetched + n <= MaxRecords
                                 THEN count[r].fetched + n ELSE MaxRecords,
                       pages |-> @.pages + 1]]
          /\ Goto(r, "record")
    /\ UNCHANGED <<plan, count, seen, row, made, raws, old, catalogue, series, job>>

(* The next record of the batch: one that claims another source is counted  *)
(* as failed; insert_raw_if_absent keeps the payload unless it is known; an *)
(* unusable one is then rejected by its normalization.                      *)
Record(r) ==
    LET n == count[r].fetched + 1
        c == plan[r].feed[n]
        k == <<plan[r].source, c>>
    IN  /\ pc[r] = "record"
        /\ \/ /\ c.from # plan[r].source
              /\ Tally(r, {"fetched", "failed"})
              /\ Proceed(r, n)
              /\ UNCHANGED <<raws, seen>>
           \/ /\ c.from = plan[r].source
              /\ Tally(r, {"fetched"})
              /\ \/ /\ k \in DOMAIN raws
                    /\ Goto(r, "reread")
                    /\ UNCHANGED <<raws, seen>>
                 \/ /\ k \notin DOMAIN raws
                    /\ raws' = Put(raws, k, "pending")
                    /\ seen' = [seen EXCEPT ![r] = Noted("inserted")]
                    /\ Goto(r, CASE plan[r].kind = "video" -> "mark"
                                 [] plan[r].kind # "video" /\ ~ c.valid -> "reject"
                                 [] plan[r].kind = "product" /\ c.valid -> "lookup"
                                 [] plan[r].kind = "interest" /\ c.valid -> "observe")
        /\ UNCHANGED <<plan, page, row, made, old, catalogue, series, job>>

(* The id of the known payload is read after the rollback; a row pruned in  *)
(* between is an error of the query.                                        *)
Reread(r) ==
    /\ pc[r] = "reread"
    /\ KeyOf(r) \in DOMAIN raws
    /\ Tally(r, {"skipped"})
    /\ Proceed(r, count[r].fetched)
    /\ UNCHANGED <<plan, page, seen, row, made, raws, old, catalogue, series, job>>

(* mark_raw(status="failed") of a payload that does not normalize. *)
Reject(r) ==
    /\ pc[r] = "reject"
    /\ raws' = [raws EXCEPT ![KeyOf(r)] = "failed"]
    /\ Tally(r, {"failed"})
    /\ Proceed(r, count[r].fetched)
    /\ seen' = [seen EXCEPT ![r] = Unread]
    /\ UNCHANGED <<plan, page, row, made, old, catalogue, series, job>>

-----------------------------------------------------------------------------
(* upsert_product. *)

(* _product_id_by_gtin: any one of them. *)
SameGtin(g) == {p \in DOMAIN products : g # None /\ products[p].gtin = g}

(* Faulty: a product of the same brand and category is good enough. *)
SameLook(g) == {p \in DOMAIN products : products[p].look # None}

(* The candidates resolve_identity may take a new listing for. *)
Verified(g) == SameGtin(g)

(* _possible_match_product_ids. *)
Resembles(look) == look # None /\ \E p \in DOMAIN products : products[p].look = look

(* The instants that rows and open transactions bear, and those the clock    *)
(* may show now: later than every committed row, no earlier than any         *)
(* transaction that is open.                                                 *)
Begun == {created[l] : l \in DOMAIN created} \cup {seen[q].begun : q \in Run}

Now == {t \in (Begun \cup {u + 1 : u \in Begun}) \ {0} :
           /\ \A l \in DOMAIN created : created[l] < t
           /\ \A q \in Run : seen[q].begun <= t}

(* The mapping of the listing is the first read of the transaction; now()   *)
(* is from here on the instant at which it began.                           *)
Lookup(r) ==
    LET l == ListingOf(r)
    IN  /\ pc[r] = "lookup"
        /\ \/ /\ l \in DOMAIN maps
              /\ seen' = [seen EXCEPT ![r].map = maps[l]]
           \/ /\ l \notin DOMAIN maps
              /\ \E now \in Now : seen' = [seen EXCEPT ![r].begun = now]
        /\ Goto(r, "resolve")
        /\ UNCHANGED <<plan, page, count, row, made, raws, old, catalogue, series, job>>

Listings(p) == {l \in DOMAIN maps : maps[l] = p}

(* Of the listings of a product those whose mapping is the oldest.          *)
Oldest(p) == {l \in Listings(p) : \A m \in Listings(p) : created[l] <= created[m]}

(* The other reads that precede the writes, and the decision of the policy: *)
(* a known listing, then a shared GTIN, then a new product.                 *)
Resolve(r) ==
    LET l == ListingOf(r)
        c == Current(r)
        known == seen[r].map
        found == IF known = None THEN Verified(c.gtin) ELSE {}
    IN  /\ pc[r] = "resolve"
        /\ \E same \in IF found = {} THEN {None} ELSE found,
              first \in IF known = None THEN {None} ELSE Oldest(known) :
              LET p == IF known # None THEN known ELSE same
              IN  seen' = [seen EXCEPT ![r] =
                    [begun   |-> @.begun,
                     map     |-> known,
                     first   |-> first,
                     same    |-> same,
                     like    |-> p = None /\ Resembles(c.look),
                     offer   |-> IF l \in DOMAIN offers THEN offers[l] ELSE None,
                     product |-> IF p = None THEN None ELSE products[p],
                     others  |-> \E m \in DOMAIN offers \ {l} :
                                    offers[m].product = p /\ offers[m].stock,
                     outcome |-> IF p = None THEN "inserted" ELSE "updated",
                     match   |-> CASE same # None -> "verified"
                                   [] p = None /\ Resembles(c.look) -> "possible"
                                   [] OTHER -> "none"]]
        /\ Goto(r, "write")
        /\ UNCHANGED <<plan, page, count, row, made, raws, old, catalogue, series, job>>

(* The product the upsert writes to: the decided one, or a new one.         *)
Target(r) == CASE seen[r].map # None -> seen[r].map
               [] seen[r].map = None /\ seen[r].same # None -> seen[r].same
               [] OTHER -> ListingOf(r)

IsNew(r) == seen[r].map = None /\ seen[r].same = None

(* The session writes a column only where the value differs from the one it *)
(* read; another transaction may have changed the row since.                *)
Written(now, read, new) == IF new = None \/ new = read THEN now ELSE new

(* _upsert_retailer_offer: a first offer has defaults for what is missing.  *)
OfferAfter(r) ==
    LET l == ListingOf(r)
        c == Current(r)
        was == seen[r].offer
    IN  IF was = None
        THEN [price |-> Supplied(c.price, 0), stock |-> Supplied(c.stock, TRUE),
              product |-> Target(r)]
        ELSE [price |-> Written(offers[l].price, was.price, c.price),
              stock |-> Written(offers[l].stock, was.stock, c.stock),
              product |-> offers[l].product]

(* Faulty: a change of the availability alone is not worth a row. *)
PricesOnly(r) ==
    LET l == ListingOf(r)
        c == Current(r)
        was == seen[r].offer
    IN  IF was = None THEN <<[price |-> Supplied(c.price, 0), stock |-> Supplied(c.stock, TRUE)]>>
        ELSE IF c.price \in {None, was.price} THEN history[l]
        ELSE Append(history[l], [price |-> c.price, stock |-> Supplied(c.stock, was.stock)])

(* Its row in offer_price_history, of a new offer or of a change.           *)
HistoryAfter(r) ==
    LET l == ListingOf(r)
        c == Current(r)
        was == seen[r].offer
    IN  IF was = None THEN <<[price |-> Supplied(c.price, 0), stock |-> Supplied(c.stock, TRUE)]>>
        ELSE IF c.price \in {None, was.price} /\ c.stock \in {None, was.stock} THEN history[l]
        ELSE Append(history[l], [price |-> Supplied(c.price, was.price),
                                 stock |-> Supplied(c.stock, was.stock)])

(* _sync_product_legacy_fields: in stock if any offer is, the others as read.*)
InStock(r) == seen[r].others \/ Supplied(Current(r).stock,
                                   IF seen[r].offer = None THEN TRUE ELSE seen[r].offer.stock)

(* _update_product_fields: a sparse payload erases nothing.                 *)
Refreshed(now, read, c) ==
    [gtin  |-> Written(now.gtin, read.gtin, c.gtin),
     look  |-> Written(now.look, read.look, c.look),
     price |-> Written(now.price, read.price, c.price),
     stock |-> Written(now.stock, read.stock, c.stock)]

(* Faulty: whichever source lists the product refreshes it. *)
Anybody(r) == TRUE

(* _is_primary_source: the listing whose mapping is the oldest.             *)
IsPrimary(r) == seen[r].first = ListingOf(r)

IsFixture(r) == plan[r].source \in Fixture

(* The row of the product after the upsert. *)
ProductAfter(r) ==
    LET p == Target(r)
        c == Current(r)
        read == seen[r].product
        kept == IF seen[r].map # None /\ (IsFixture(r) \/ IsPrimary(r))
                THEN Refreshed(products[p], read, c) ELSE products[p]
    IN  IF IsNew(r)
        THEN [gtin |-> c.gtin, look |-> c.look, price |-> c.price,
              stock |-> Supplied(c.stock, TRUE)]
        ELSE IF IsFixture(r) THEN kept
        ELSE [gtin |-> kept.gtin, look |-> kept.look, price |-> kept.price,
              stock |-> Written(products[p].stock, read.stock, InStock(r))]

(* The commit: mapping, observation, product and offer together.  A listing *)
(* that another collector has mapped since is a unique violation.           *)
Write(r) ==
    LET l == ListingOf(r)
        p == Target(r)
    IN  /\ pc[r] = "write"
        /\ seen[r].map = None => l \notin DOMAIN maps
        /\ products' = Put(products, p, ProductAfter(r))
        /\ maps' = Put(maps, l, p)
        /\ created' = Put(created, l, IF seen[r].map = None THEN seen[r].begun ELSE created[l])
        /\ obs' = obs \cup {[raw |-> KeyOf(r), product |-> p, run |-> r]}
        /\ \/ /\ IsFixture(r)
              /\ UNCHANGED <<offers, history>>
           \/ /\ ~ IsFixture(r)
              /\ offers' = Put(offers, l, OfferAfter(r))
              /\ history' = Put(history, l, HistoryAfter(r))
        /\ made' = [made EXCEPT ![r] = @ + (IF IsNew(r) THEN 1 ELSE 0)]
        /\ Goto(r, "mark")
        /\ UNCHANGED <<plan, page, count, seen, row, raws, old, series, job>>

(* insert_observation of the search interest: the first observation of a    *)
(* natural key is kept.                                                     *)
Observe(r) ==
    /\ pc[r] = "observe"
    /\ \/ /\ ListingOf(r) \in DOMAIN series
          /\ seen' = [seen EXCEPT ![r] = Noted("skipped")]
          /\ UNCHANGED series
       \/ /\ ListingOf(r) \notin DOMAIN series
          /\ series' = Put(series, ListingOf(r), Current(r).price)
          /\ UNCHANGED seen
    /\ Goto(r, "mark")
    /\ UNCHANGED <<plan, page, count, row, made, raws, old, catalogue, job>>

(* Faulty: an attached listing is counted as a new product too. *)
MarkInserted(r) ==
    /\ pc[r] = "mark"
    /\ raws' = [raws EXCEPT ![KeyOf(r)] = "processed"]
    /\ Tally(r, {"inserted", seen[r].match})
    /\ Proceed(r, count[r].fetched)
    /\ seen' = [seen EXCEPT ![r] = Unread]
    /\ UNCHANGED <<plan, page, row, made, old, catalogue, series, job>>

(* mark_raw(status="processed"), and the outcome is counted. *)
Mark(r) ==
    /\ pc[r] = "mark"
    /\ raws' = [raws EXCEPT ![KeyOf(r)] = "processed"]
    /\ Tally(r, {seen[r].outcome, seen[r].match})
    /\ Proceed(r, count[r].fetched)
    /\ seen' = [seen EXCEPT ![r] = Unread]
    /\ UNCHANGED <<plan, page, row, made, old, catalogue, series, job>>

-----------------------------------------------------------------------------

(* A SQLAlchemyError of any statement that handles a record. *)
DbFails(r) ==
    /\ pc[r] \in {"record", "reread", "reject", "observe"} \cup Upserts
    /\ Goto(r, "rollback")
    /\ seen' = [seen EXCEPT ![r] = Unread]
    /\ UNCHANGED <<plan, page, count, row, made, raws, old, catalogue, series, job>>

(* finish_run, with the counters of the collector. *)
Finish(r) ==
    /\ pc[r] \in {"completing", "failing", "rollback"}
    /\ row' = [row EXCEPT ![r] = [status |-> IF pc[r] = "completing" THEN "completed" ELSE "failed",
                                  count  |-> count[r]]]
    /\ Goto(r, "done")
    /\ UNCHANGED <<plan, page, count, seen, made, raws, old, catalogue, series, job>>

(* The process ends between two commits, or start_run, finish_run or the    *)
(* rollback raises, which the collector passes on.  Nothing resumes it, and *)
(* its row stays as it is.                                                  *)
Die(r) ==
    /\ pc[r] \notin Ended
    /\ Goto(r, "dead")
    /\ seen' = [seen EXCEPT ![r] = Unread]
    /\ UNCHANGED <<plan, page, count, row, made, raws, old, catalogue, series, job>>

-----------------------------------------------------------------------------
(* EnforceYouTubeRetention, for the source it is given. *)

Held == {KeyOf(r) : r \in {q \in Run : pc[q] \in {"reject", "observe"} \cup Upserts}}

(* A record passes the retention horizon; no collector takes that long over *)
(* a record it has just stored.                                             *)
Age(k) ==
    /\ k \in DOMAIN raws \ (old \cup Held)
    /\ k[1] \in Expiring
    /\ old' = old \cup {k}
    /\ UNCHANGED <<collector, raws, catalogue, series, job>>

Due(source) == {k \in old : k[1] = source}

(* The cutoff is taken once.  A dry run only counts. *)
StartPruning(j, source) ==
    /\ job[j].state = "idle"
    /\ \E state \in {"pruning", "dry_run", "failed"} :
          job' = [job EXCEPT ![j] = [state |-> state, source |-> source,
                     due |-> IF state = "pruning" THEN Due(source) ELSE {},
                     batches |-> 0, pruned |-> 0]]
    /\ UNCHANGED <<collector, raws, old, catalogue, series>>

(* Faulty: a batch that was filled exactly is taken for the last. *)
IsLastFull(n) == n <= PruneSize

(* "Cleaned all remaining expired records". *)
IsLast(n) == n < PruneSize

(* prune_expired_source_records: one committed batch.  Links and mappings   *)
(* of the deleted records are set to null.  (Two retention runs that select *)
(* one batch both report it; the deletion is the same.)                     *)
PruneBatch(j) ==
    /\ job[j].state = "pruning"
    /\ \E B \in SUBSET job[j].due :
          /\ Cardinality(B) = PruneSize \/ (B = job[j].due /\ Cardinality(B) < PruneSize)
          /\ raws' = [k \in DOMAIN raws \ B |-> raws[k]]
          /\ old' = old \ B
          /\ job' = [i \in Job |->
                IF i # j THEN [job[i] EXCEPT !.due = @ \ B]
                ELSE [state   |-> IF IsLast(Cardinality(B)) \/ job[j].batches + 1 = MaxBatches
                                  THEN "completed" ELSE "pruning",
                      source  |-> job[j].source,
                      due     |-> job[j].due \ B,
                      batches |-> job[j].batches + 1,
                      pruned  |-> job[j].pruned + Cardinality(B)]]
    /\ UNCHANGED <<collector, catalogue, series>>

(* A batch raises: what was committed stays, the run reports "failed". *)
PruneFails(j) ==
    /\ job[j].state = "pruning"
    /\ job' = [job EXCEPT ![j].state = "failed"]
    /\ UNCHANGED <<collector, raws, old, catalogue, series>>

-----------------------------------------------------------------------------

Collect(r) == \/ Start(r) \/ Fetch(r) \/ Record(r) \/ Reread(r) \/ Reject(r)
              \/ Lookup(r) \/ Resolve(r) \/ Write(r) \/ Observe(r) \/ Mark(r)
              \/ DbFails(r) \/ Finish(r) \/ Die(r)

Prune(j) == \/ \E s \in Expiring : StartPruning(j, s)
            \/ PruneBatch(j) \/ PruneFails(j)

Next == \/ \E r \in Run : Collect(r)
        \/ \E j \in Job : Prune(j)
        \/ \E k \in DOMAIN raws : Age(k)

Spec == Init /\ [][Next]_vars

-----------------------------------------------------------------------------
(* Properties.                                                              *)

(* "its counters stay truthful" (DiscoveryRepositorySQL): a finished row    *)
(* accounts for every record it fetched, but for the one a database error   *)
(* interrupted, and its inserted count is the number of products the        *)
(* collector committed, whatever other collectors and the retention did.    *)
CountersAreTruthful ==
    \A r \in Run : row[r].status \in {"completed", "failed"} =>
        LET c == row[r].count
            lost == c.fetched - (c.inserted + c.updated + c.skipped + c.failed)
        IN  /\ lost \in {0, 1}
            /\ row[r].status = "completed" => lost = 0
            /\ plan[r].kind = "product" => made[r] - c.inserted \in 0 .. lost
            /\ c.verified + c.possible <= c.inserted + c.updated

(* "a wrong merge is worse than a duplicate" (product_identity.py): a       *)
(* listing shares the product of another one only if both have been listed  *)
(* with the same GTIN; brand and category never merge products, and what    *)
(* races between collectors leave behind are duplicates.                    *)
MergedOnlyByGtin ==
    \A l \in DOMAIN maps : maps[l] # l =>
        \E o, q \in obs : /\ o.product = maps[l] /\ q.product = maps[l]
                          /\ <<o.raw[1], o.raw[2].id>> = l
                          /\ <<q.raw[1], q.raw[2].id>> # l
                          /\ o.raw[2].gtin = q.raw[2].gtin
                          /\ o.raw[2].gtin # None

(* "Its canonical fields belong to the first listing" (upsert_product), as   *)
(* far as the code keeps it: the price of a product was observed by a        *)
(* fixture, or by a listing whose mapping is as old as the one the product   *)
(* was created with.  created_at is when the transaction began: a listing    *)
(* that was attached before or after its product was created, but whose      *)
(* upsert began later, never sets the price.                                 *)
CanonicalIsPrimary ==
    \A p \in DOMAIN products : products[p].price # None =>
        \E o \in obs : /\ o.product = p
                       /\ o.raw[2].price = products[p].price
                       /\ \/ created[<<o.raw[1], o.raw[2].id>>] <= created[p]
                          \/ o.raw[1] \in Fixture

(* "append price history on change" (_upsert_retailer_offer): the price and *)
(* the availability an offer shows are in its history, also when two        *)
(* collectors of one source refresh it at once.                             *)
OfferStandsInHistory ==
    \A l \in DOMAIN offers :
        /\ \E i \in DOMAIN history[l] : history[l][i].price = offers[l].price
        /\ \E i \in DOMAIN history[l] : history[l][i].stock = offers[l].stock

(* What the catalogue shows was observed by who may say so. *)
CatalogueIsSourced == CanonicalIsPrimary /\ OfferStandsInHistory

(* "Cleaned all remaining expired records" (youtube_retention.py): a        *)
(* retention run that completes before its cap has left none of the records *)
(* that were due when it started.                                           *)
RetentionIsComplete ==
    \A j \in Job : job[j].state = "completed" /\ job[j].batches < MaxBatches => job[j].due = {}
=============================================================================
