------------------------------ MODULE Serving ------------------------------
(***************************************************************************)
(* What serves requests and what it rests on, side by side: accounts and    *)
(* sessions (Accounts), the adapters of the providers (GdeltSource,         *)
(* PagedSources), the gate of reasoning (ReasoningGate), the reads that go  *)
(* page by page (Browsing) and the wardrobe (Wardrobe).  They share no      *)
(* state, so a behaviour is one of these families, and the others rest.     *)
(***************************************************************************)
EXTENDS Accounts, Sequences, Integers

CONSTANTS  \* of GdeltSource
    Deadline, GdeltPace, GdeltTimeout, GdeltRetries, GdeltBase, GdeltBackoff, GdeltRetryAfter, MaxSlices

CONSTANTS  \* of PagedSources
    Listings, SourceBatch, MaxRecords, MaxPages, PageCap, PageLimit,
    Pace, Timeout, MaxRetries, Base, MaxBackoff, RetryAfter

CONSTANTS  \* of ReasoningGate
    Caller, Address, GateLimit, GateWindow, MaxBuckets, Permits, Attempts, MaxTime

CONSTANTS  \* of Browsing
    Look, Seed, FeedBoost, FeedPage, RowsRead, SavedRows, PoolPage, PoolPages, Changes

CONSTANTS  \* of Wardrobe
    Client, WardrobeScripts, ClosetStock, Worn, MaxRepresentatives, MaxCandidates, ClosetCodes

VARIABLES
    family,
    now, phase, attempt, slices, sent, wait, outcome,
    clock, buckets, step, current, tries, reply, free, active, read, gauge, passed, evicted,
    saved, cursor, shown, touched, pushed, browsing, eligible, steady, pool, page, pages, changes,
    input, rows, made, signalled, stage, turn, total, loaded, result, log, prior, kept, moved,
    provider, listing, stated, time, leg, tried, continuation, turns, collected, verdict, requests, asked, blank

gdelt    == <<now, phase, attempt, slices, sent, wait, outcome>>
gate     == <<clock, buckets, step, current, tries, reply, free, active, read, gauge, passed, evicted>>
paging   == <<saved, cursor, shown, touched, pushed, browsing, eligible, steady, pool, page, pages, changes>>
wardrobe == <<input, rows, made, signalled, stage, turn, total, loaded, result, log, prior, kept, moved>>

source   == <<provider, listing, stated, time, leg, tried, continuation, turns, collected, verdict,
              requests, asked, blank>>

Gdelt == INSTANCE GdeltSource WITH
    Pace <- GdeltPace, Timeout <- GdeltTimeout, MaxRetries <- GdeltRetries, Base <- GdeltBase,
    MaxBackoff <- GdeltBackoff, RetryAfter <- GdeltRetryAfter

Feed == INSTANCE PagedSources WITH Batch <- SourceBatch

Gate == INSTANCE ReasoningGate WITH
    Limit <- GateLimit, Window <- GateWindow, MaxRetries <- Attempts

Pages == INSTANCE Browsing WITH
    Boost <- FeedBoost, Limit <- FeedPage, Size <- PoolPage, MaxPages <- PoolPages

Closet == INSTANCE Wardrobe WITH
    Request <- Client, Scripts <- WardrobeScripts, Stock <- ClosetStock, Codes <- ClosetCodes

all == <<family, vars, gdelt, gate, paging, wardrobe, source>>

Families == {"accounts", "gdelt", "source", "gate", "feed", "pool", "wardrobe"}

(* The families that are not in play begin in one of their initial states.  *)
Starting ==
    /\ IF family = "accounts" THEN Init ELSE Init /\ script = CHOOSE s \in Scripts : TRUE
    /\ Gdelt!Init
    /\ Gate!Init
    /\ Pages!Init
    /\ family # "feed" => saved = <<>>
    /\ family # "pool" => eligible = {}
    /\ Closet!Init
    /\ family # "wardrobe" => input = CHOOSE s \in WardrobeScripts : TRUE
    /\ Feed!Init
    /\ family # "source" => provider = "seeded" /\ stated /\ listing = CHOOSE l \in Listings : TRUE

ServingInit == family \in Families /\ Starting

ServingNext ==
    \/ family = "accounts" /\ Next /\ UNCHANGED <<family, gdelt, gate, paging, wardrobe, source>>
    \/ family = "gdelt" /\ Gdelt!Next /\ UNCHANGED <<family, vars, gate, paging, wardrobe, source>>
    \/ family = "source" /\ Feed!Next /\ UNCHANGED <<family, vars, gdelt, gate, paging, wardrobe>>
    \/ family = "gate" /\ Gate!Next /\ UNCHANGED <<family, vars, gdelt, paging, wardrobe, source>>
    \/ family = "feed" /\ Pages!BrowseFeed /\ UNCHANGED <<family, vars, gdelt, gate, wardrobe, source>>
    \/ family = "pool" /\ Pages!GatherPool /\ UNCHANGED <<family, vars, gdelt, gate, wardrobe, source>>
    \/ family = "wardrobe" /\ Closet!Next /\ UNCHANGED <<family, vars, gdelt, gate, paging, source>>

ServingSpec == ServingInit /\ [][ServingNext]_all

-----------------------------------------------------------------------------

(* Whatever a provider answers and however late, requests keep their pace,   *)
(* their backoff and the number of their attempts, and a query to GDELT ends *)
(* within its deadline.                                                      *)
RequestsAreBounded ==
    /\ family = "gdelt" => Gdelt!RequestsAreBounded
    /\ family = "source" => Feed!RequestsArePaced

(* A permit of the reasoning gate is never lost and never given twice,       *)
(* however the call that holds it ends.                                      *)
PermitsAreConserved == Gate!PermitsAreConserved

(* Of one address no more requests than the limit come and are let pass      *)
(* within a window, unless its bucket was evicted to make room.              *)
WindowIsKept == Gate!WindowIsKept

(* What is read page by page: while it changes, a look that is left alone is *)
(* shown once (but for one at most for each change, that moves over the edge *)
(* of the saved rows that are read), and a pool of products or a wardrobe loses or repeats at most *)
(* one entry for each that came or went meanwhile; what a provider lists is  *)
(* collected without gap or repeat.                                          *)
PagesLoseOnlyWhatMoved ==
    IF family = "feed" THEN Pages!UnchangedLooksAreShownOnce
    ELSE IF family = "pool" THEN Pages!PoolLosesOnlyWhatMoved
    ELSE IF family = "source" THEN Feed!CollectedAsListed
    ELSE family = "wardrobe" => Closet!ReadingsMissOnlyWhatMoved

(* A PATCH of a wardrobe item never undoes another's field, and prevails     *)
(* over what was committed before it read.                                   *)
EditsPrevail == Closet!EditsPrevail
=============================================================================
