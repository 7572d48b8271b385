------------------------------ MODULE Browsing ------------------------------
(***************************************************************************)
(* Two reads that take several steps while what they read changes.  A       *)
(* client follows the cursors of the feed of looks while its owner saves    *)
(* and removes looks, which reorders it (application/discover.py): it rests *)
(* on the newest rows of what is saved, so one that comes or goes moves     *)
(* another over the edge.  A request gathers its pool of products page by   *)
(* page, by offset, each statement with a snapshot of its own, while        *)
(* collection runs insert products and change what is eligible              *)
(* (application/for_you.py over candidate_retrieval.py).                    *)
(*                                                                         *)
(* Scores are in hundredths, which is how precise those of the catalog are. *)
(* A product is the number of its creation; the newest come first.          *)
(***************************************************************************)
EXTENDS Integers, Sequences, FiniteSets, SequencesExt

CONSTANTS
    None,
    Look,      \* the codes of the catalog, numbers in their order
    Seed,      \* scoreSeed of each
    Boost,     \* _FOR_YOU_SAVED_LOOK_BOOST
    Limit,     \* of a page of the feed
    RowsRead,  \* page_size of the saved looks it reads
    SavedRows, \* bound: what is saved when the client begins, as rows
    Size,      \* page_size of the pool
    MaxPages,  \* of the pool
    Changes    \* bound: what happens to looks or products meanwhile

VARIABLES
    saved,     \* the owner's rows, the newest first: a look, or None for an outfit
    cursor,    \* of the next page: None, or the score and the code of a look
    shown,     \* the looks shown, in order
    touched,   \* the looks saved, removed or not read since the first page
    pushed,    \* others that came into, or fell out of, the rows that are read
    browsing,  \* "no" before the first page, then "more", "end" or "refused"
    eligible,  \* the products the hard criteria select
    steady,    \* those that were and have been since the first statement
    pool,      \* the products read
    page,      \* the next page of the pool
    pages,     \* how many there are to read, once they are counted
    changes

feed == <<saved, cursor, shown, touched, pushed, browsing>>
read == <<eligible, steady, pool, page, pages>>
vars == <<feed, read, changes>>

Init == /\ saved \in SavedRows
        /\ cursor = None /\ shown = <<>> /\ touched = {} /\ pushed = {} /\ browsing = "no"
        /\ eligible \in {1 .. n : n \in 0 .. Size * MaxPages}
        /\ steady = eligible /\ pool = <<>> /\ page = 1 /\ pages = None
        /\ changes = 0

-----------------------------------------------------------------------------

(* _preferred_codes: of the first page of rows, the looks of the catalog.   *)
Preferred(rows) == {rows[i] : i \in {j \in DOMAIN rows : j <= RowsRead}} \cap Look

(* A set of distinct keys, in their order. *)
Sorted(S, before(_, _)) ==
    [i \in 1 .. Cardinality(S) |-> CHOOSE x \in S : Cardinality({y \in S : before(y, x)}) = i - 1]

Boosted(preferred, l) == IF l \notin preferred THEN Seed[l]
                         ELSE IF Seed[l] + Boost > 100 THEN 100 ELSE Seed[l] + Boost

(* _ranked_catalog, reordered by what is preferred. *)
Ranking(preferred) ==
    Sorted(Look, LAMBDA a, b :
        \/ Boosted(preferred, a) > Boosted(preferred, b)
        \/ Boosted(preferred, a) = Boosted(preferred, b) /\ a < b)

(* Faulty: the look is enough to find the place again. *)
ByCode(preferred, c) == {i \in DOMAIN Ranking(preferred) : Ranking(preferred)[i] = c.code}

(* Where a cursor points: to the look, if its score is still the same.      *)
Position(preferred, c) ==
    {i \in DOMAIN Ranking(preferred) :
        Ranking(preferred)[i] = c.code /\ Boosted(preferred, c.code) = c.score}

(* GetForYouFeed and _paginate, with the preferred looks that were read.    *)
Window(preferred) ==
    LET ranking == Ranking(preferred)
        start   == IF cursor = None THEN 0 ELSE CHOOSE i \in Position(preferred, cursor) : TRUE
        end     == IF start + Limit < Len(ranking) THEN start + Limit ELSE Len(ranking)
        last    == ranking[end]
    IN  IF cursor # None /\ Position(preferred, cursor) = {}
        THEN /\ browsing' = "refused"
             /\ UNCHANGED <<cursor, shown>>
        ELSE /\ shown' = shown \o SubSeq(ranking, start + 1, end)
             /\ browsing' = IF end < Len(ranking) THEN "more" ELSE "end"
             /\ cursor' = IF end < Len(ranking) THEN [score |-> Boosted(preferred, last), code |-> last]
                          ELSE None

NextPage == /\ browsing \in {"no", "more"}
            /\ Window(Preferred(saved))
            /\ UNCHANGED <<saved, touched, pushed, read, changes>>

(* Saved looks that cannot be read are taken for none. *)
NextPageUnread == /\ browsing \in {"no", "more"}
                  /\ changes < Changes
                  /\ Window({})
                  /\ touched' = touched \cup Preferred(saved)
                  /\ changes' = changes + 1
                  /\ UNCHANGED <<saved, pushed, read>>

(* The rows change, by one of this look or outfit. *)
React(l, rows) ==
    /\ browsing = "more"
    /\ changes < Changes
    /\ saved' = rows
    /\ touched' = touched \cup {l}
    /\ pushed' = pushed \cup (((Preferred(saved) \ Preferred(rows))
                                  \cup (Preferred(rows) \ Preferred(saved))) \ {l})
    /\ changes' = changes + 1
    /\ UNCHANGED <<cursor, shown, browsing, read>>

(* A look or an outfit is saved: its row stands where the beginning of its  *)
(* transaction puts it, behind those of transactions that began later.      *)
Save(l) == \E place \in 1 .. Len(saved) + 1 : React(l, InsertAt(saved, place, l))

Unsave == \E place \in DOMAIN saved : React(saved[place], RemoveAt(saved, place))

-----------------------------------------------------------------------------

IsReading == IF pages = None THEN FALSE ELSE page <= pages

InOrder(products) == Sorted(products, >)

(* Faulty: one page too far. *)
OffsetAfter(n) == n * Size

Offset(n) == (n - 1) * Size

(* count_candidates, of the first page: how many pages there are to read.   *)
Count == /\ pages = None
         /\ LET needed == (Cardinality(eligible) + Size - 1) \div Size
            IN  pages' = IF needed > MaxPages THEN MaxPages ELSE IF needed < 1 THEN 1 ELSE needed
         /\ UNCHANGED <<eligible, steady, pool, page, feed, changes>>

(* get_candidates. *)
ReadPage == /\ IsReading
            /\ pool' = pool \o SubSeq(InOrder(eligible), Offset(page) + 1,
                                      IF Offset(page) + Size < Cardinality(eligible)
                                      THEN Offset(page) + Size ELSE Cardinality(eligible))
            /\ page' = page + 1
            /\ UNCHANGED <<eligible, steady, pages, feed, changes>>

(* A collection run inserts a product, the newest of all. *)
Insert == /\ IsReading
          /\ changes < Changes
          /\ eligible' = eligible \cup {Size * MaxPages + changes + 1}
          /\ changes' = changes + 1
          /\ UNCHANGED <<steady, pool, page, pages, feed>>

(* It writes a price or a stock that the criteria exclude. *)
Withdraw(p) == /\ IsReading
               /\ changes < Changes
               /\ eligible' = eligible \ {p}
               /\ steady' = steady \ {p}
               /\ changes' = changes + 1
               /\ UNCHANGED <<pool, page, pages, feed>>

BrowseFeed == NextPage \/ NextPageUnread \/ Unsave \/ \E l \in Look \cup {None} : Save(l)

GatherPool == Count \/ ReadPage \/ Insert \/ \E p \in eligible : Withdraw(p)

Next == BrowseFeed \/ GatherPool

-----------------------------------------------------------------------------

(* "the code is the stable secondary key, so the window never shifts        *)
(* between pages" (_encode_cursor): whatever is saved and removed between   *)
(* two pages, a look that is left alone is shown once at most, and once if  *)
(* the feed is followed to its end; but for one look at most for each       *)
(* change, that it moves over the edge of the rows that are read.           *)
UnchangedLooksAreShownOnce ==
    LET moved == touched \cup pushed
    IN  /\ \A i, j \in DOMAIN shown : i < j /\ shown[i] = shown[j] => shown[i] \in moved
        /\ browsing = "end" => Look \ moved \subseteq Range(shown)
        /\ Cardinality(pushed) <= changes

(* Pages read by offset over a catalogue that changes: for each change that *)
(* is committed meanwhile at most one product is missed that was eligible   *)
(* throughout, and at most one is read twice.                               *)
PoolLosesOnlyWhatMoved ==
    LET found  == Range(pool)
        isOver == pages # None /\ ~ IsReading
    IN  /\ Len(pool) - Cardinality(found) <= changes
        /\ isOver => Cardinality(steady \ found) <= changes
=============================================================================
