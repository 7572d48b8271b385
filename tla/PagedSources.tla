---------------------------- MODULE PagedSources ----------------------------
(***************************************************************************)
(* A collector's paging loop over the adapters of a retailer and of videos: *)
(* CollectSource of application/collection.py on AmazonProductAdapter       *)
(* (external/amazon_source.py, through PA-API or Rainforest) and on         *)
(* YouTubeSourceAdapter (external/youtube_source.py), or on the records an  *)
(* adapter is seeded with.  What becomes of a record is Collection's.       *)
(*                                                                         *)
(* The provider lists items, which are named by their place; it answers,    *)
(* throttles, fails or is late.  An item is [id, title], each "stated",     *)
(* "absent" or "odd", of another kind than the parser takes it for.  Time   *)
(* passes while the adapter sleeps or waits for the provider, which is      *)
(* taken to last no longer than the timeout.                                *)
(***************************************************************************)
EXTENDS Naturals, Sequences, FiniteSets, SequencesExt

CONSTANTS
    None,
    Listings,    \* what the provider may list
    Batch,       \* CollectionConfig.batch_size
    MaxRecords,  \* CollectionConfig.max_records
    MaxPages,    \* CollectionConfig.max_pages
    PageCap,     \* the most items the provider has on a page
    PageLimit,   \* the last page PA-API has
    Pace,        \* pace_interval_s
    Timeout,     \* request_timeout_s
    MaxRetries,  \* max_retries
    Base,        \* backoff_base_s
    MaxBackoff,  \* max_backoff_s, of YouTube
    RetryAfter   \* what a Retry-After header may ask for

Providers == {"paapi", "rainforest", "youtube", "seeded"}

VARIABLES
    provider,
    listing,
    stated,        \* whether the provider says how much there is
    time,
    leg,           \* "asking", "sending", "waiting" or "ended"
    tried,         \* attempts of the page that failed
    continuation,  \* where the next page begins, or None for the first
    turns,         \* pages collected
    collected,     \* the items collected, in order
    verdict,       \* how the collection ended
    requests,      \* what was sent: the page, the attempt, when, and when it
                   \* was known that no other may come before a time
    asked,         \* the numbers of items that were asked for (no code reads it)
    blank          \* whether a page that has items came without a usable one
                   \* (no code reads it)

vars == <<provider, listing, stated, time, leg, tried, continuation, turns, collected, verdict,
          requests, asked, blank>>

Verdicts == {"none", "completed", "auth", "rate_limit", "transient", "payload", "raised"}

TypeOK ==
    /\ provider \in Providers /\ listing \in Listings /\ stated \in BOOLEAN
    /\ time \in Nat /\ tried \in 0 .. MaxRetries /\ turns \in 0 .. MaxPages
    /\ leg \in {"asking", "sending", "waiting", "ended"} /\ verdict \in Verdicts
    /\ continuation \in Nat \cup {None}
    /\ collected \in Seq(DOMAIN listing) /\ Len(collected) <= MaxRecords
    /\ \A i \in DOMAIN requests : requests[i] \in [page: Nat, attempt: Nat, at: Nat, until: Nat]
    /\ asked \subseteq 1 .. Batch /\ blank \in BOOLEAN

Init ==
    /\ provider \in Providers /\ listing \in Listings /\ stated \in BOOLEAN
    /\ time = 0 /\ leg = "asking" /\ tried = 0 /\ continuation = None /\ turns = 0
    /\ collected = <<>> /\ verdict = "none" /\ requests = <<>>
    /\ asked = {} /\ blank = FALSE

Least(a, b) == IF a < b THEN a ELSE b

Most(a, b) == IF a > b THEN a ELSE b

End(with) == leg' = "ended" /\ verdict' = with

-----------------------------------------------------------------------------
(* The pages of the providers: the places of the items on one, and where    *)
(* the next begins.                                                         *)

Places(from, count) == {i \in DOMAIN listing : from < i /\ i <= from + count}

Limit == Least(Batch, MaxRecords - Len(collected))

Count == Least(PageCap, Limit)

Start(first) == IF continuation = None THEN first ELSE continuation

PagesOf(count) == (Len(listing) + count - 1) \div count

(* A page is a number, and its size what is asked for.                      *)
PaapiPage ==
    LET page  == Start(1)
        last  == IF stated /\ listing # <<>> THEN Least(PageLimit, PagesOf(Count)) ELSE PageLimit
        items == Places((page - 1) * Count, Count)
    IN  [items |-> items, next |-> IF page < last /\ items # {} THEN page + 1 ELSE None]

(* A page is a number, and its size the provider's.                         *)
RainforestPage ==
    LET page == Start(1)
    IN  [items |-> Places((page - 1) * PageCap, PageCap),
         next  |-> IF page < (IF stated THEN PagesOf(PageCap) ELSE 1) THEN page + 1 ELSE None]

(* Tokens of the provider, taken to lead to what follows the page.          *)
YouTubePage ==
    LET from == Start(0)
    IN  [items |-> Places(from, Count), next |-> IF from + Count < Len(listing) THEN from + Count ELSE None]

(* The records an adapter is seeded with, by offset.                        *)
SeededPage ==
    LET from == Start(0)
        end  == Least(from + Limit, Len(listing))
    IN  [items |-> Places(from, Limit), next |-> IF end < Len(listing) THEN end ELSE None]

Page == CASE provider = "paapi"      -> PaapiPage
          [] provider = "rainforest" -> RainforestPage
          [] provider = "youtube"    -> YouTubePage
          [] provider = "seeded"     -> SeededPage

-----------------------------------------------------------------------------
(* What becomes of an item: a record, nothing, or an error of the parser.   *)

PaapiParses(item) ==
    IF item.id # "stated" THEN "nothing"
    ELSE CASE item.title = "stated" -> "record"
           [] item.title = "absent" -> "nothing"
           [] item.title = "odd"    -> "error"

RainforestParses(item) ==
    IF "absent" \in {item.id, item.title} THEN "nothing"
    ELSE IF item.title = "odd" THEN "error" ELSE "record"

YouTubeParses(item) ==
    IF item.id # "stated" THEN "nothing"
    ELSE IF item.title = "odd" THEN "error" ELSE "record"

Parses(item) == CASE provider = "paapi"      -> PaapiParses(item)
                  [] provider = "rainforest" -> RainforestParses(item)
                  [] provider = "youtube"    -> YouTubeParses(item)
                  [] provider = "seeded"     -> "record"

Usable(places) == {i \in places : Parses(listing[i]) = "record"}

Ordered(places) ==
    [n \in 1 .. Cardinality(places) |-> CHOOSE i \in places : Cardinality({j \in places : j < i}) = n - 1]

-----------------------------------------------------------------------------
(* A round of the loop, within its bounds. *)
Ask ==
    /\ leg = "asking"
    /\ IF Len(collected) < MaxRecords /\ turns < MaxPages
       THEN /\ leg' = IF provider = "seeded" THEN "waiting" ELSE "sending"
            /\ asked' = asked \cup {Count}
            /\ UNCHANGED verdict
       ELSE End("completed") /\ UNCHANGED asked
    /\ UNCHANGED <<provider, listing, stated, time, tried, continuation, turns, collected, requests, blank>>

(* _apply_pacing and _enforce_pacing: since the last request. *)
Paced == IF requests = <<>> THEN time ELSE Most(time, Last(requests).at + Pace)

Send ==
    /\ leg = "sending"
    /\ time' = Paced
    /\ requests' = Append(requests, [page |-> turns, attempt |-> tried, at |-> Paced, until |-> Paced])
    /\ leg' = "waiting"
    /\ UNCHANGED <<provider, listing, stated, tried, continuation, turns, collected, verdict, asked, blank>>

OnlyTime == UNCHANGED <<provider, listing, stated, continuation, turns, collected, asked, blank>>

(* Another attempt after a sleep that begins when the answer has come.      *)
Retry(came, seconds) ==
    /\ tried < MaxRetries
    /\ tried' = tried + 1
    /\ time' = came + seconds
    /\ requests' = [requests EXCEPT ![Len(requests)].until = came + seconds]
    /\ leg' = "sending"
    /\ UNCHANGED verdict
    /\ OnlyTime

GiveUp(came, with) ==
    /\ time' = came
    /\ End(with)
    /\ UNCHANGED <<tried, requests>>
    /\ OnlyTime

Came == {time + d : d \in 0 .. Timeout}

IsAmazon == provider \in {"paapi", "rainforest"}

(* Amazon's adapter: server errors, timeouts and lost connections are tried *)
(* again, a throttled request is not.                                       *)
AmazonFails(came) ==
    /\ IsAmazon
    /\ \/ Retry(came, Base * 2 ^ tried)
       \/ tried = MaxRetries /\ GiveUp(came, "transient")
       \/ GiveUp(came, "rate_limit")

(* YouTube's: a throttled request is tried again too, after what the        *)
(* provider asks for, however long; an exhausted quota is not.              *)
YouTubeFails(came) ==
    /\ provider = "youtube"
    /\ \/ Retry(came, Least(Base * 2 ^ tried, MaxBackoff))
       \/ \E seconds \in RetryAfter \ {0} : Retry(came, seconds)
       \/ tried = MaxRetries /\ GiveUp(came, "transient")
       \/ GiveUp(came, "rate_limit")

(* Refused for good, unreadable, or with an error of the client that is no  *)
(* SourceError, which the collector does not catch.                         *)
Refused(came) ==
    /\ provider # "seeded"
    /\ \E with \in {"auth", "payload", "raised"} : GiveUp(came, with)

Fails == /\ leg = "waiting"
         /\ \E came \in Came : AmazonFails(came) \/ YouTubeFails(came) \/ Refused(came)

(* PA-API answers with errors in the place of items too; those the adapter  *)
(* does not know are passed over.                                           *)
Answers == {Page} \cup IF provider = "paapi" THEN {[items |-> {}, next |-> None]} ELSE {}

(* The page is parsed as a whole; its records are taken up to the bound, and *)
(* a page without any is the last.                                          *)
Answered ==
    /\ leg = "waiting"
    /\ time' \in Came /\ (provider = "seeded" => time' = time)
    /\ \E page \in Answers :
       LET records == Ordered(Usable(page.items))
       IN  IF \E i \in page.items : Parses(listing[i]) = "error"
           THEN End("raised") /\ UNCHANGED <<tried, continuation, turns, collected, blank>>
           ELSE IF records = <<>>
           THEN /\ End("completed")
                /\ blank' = (page.items # {} \/ page # Page)
                /\ UNCHANGED <<tried, continuation, turns, collected>>
           ELSE /\ collected' = collected \o
                       SubSeq(records, 1, Least(Len(records), MaxRecords - Len(collected)))
                /\ turns' = turns + 1
                /\ tried' = 0
                /\ continuation' = page.next
                /\ IF continuation' = None THEN End("completed") ELSE leg' = "asking" /\ UNCHANGED verdict
                /\ UNCHANGED blank
    /\ UNCHANGED <<provider, listing, stated, requests, asked>>

Next == Ask \/ Send \/ Fails \/ Answered

Spec == Init /\ [][Next]_vars

-----------------------------------------------------------------------------

(* "Request spacing between outbound calls", "bounded retries": whatever    *)
(* the provider answers and however late, requests are Pace apart, none is  *)
(* sent before the backoff of the last or before the provider allows it,    *)
(* and the attempts of a page are in order and no more than allowed.        *)
RequestsArePaced ==
    /\ \A i \in DOMAIN requests \ {1} :
          LET last == requests[i - 1]
              next == requests[i]
          IN  /\ next.at >= last.at + Pace /\ next.at >= last.until
              /\ \/ next.page = last.page /\ next.attempt = last.attempt + 1 /\ next.attempt <= MaxRetries
                 \/ next.page = last.page + 1 /\ next.attempt = 0
    /\ verdict = "transient" => Last(requests).attempt = MaxRetries

(* "continuation ... must be passed back verbatim to fetch the next page;   *)
(* None means the batch is the last one" (SourceBatch): what is collected   *)
(* is the beginning of what the provider lists, without gap or repeat, and  *)
(* all of it unless a bound is met or a page had nothing usable.  Excepted  *)
(* is PA-API when a smaller last page is asked for, which is another page.  *)
CollectedAsListed ==
    LET usable == Usable(DOMAIN listing)
        taken  == ToSet(collected)
    IN  (provider = "paapi" => Cardinality(asked) <= 1)
        => /\ collected = Ordered(taken)
           /\ \A i \in taken, j \in usable : j < i => j \in taken
           /\ verdict = "completed" /\ Len(collected) < MaxRecords
              => \/ usable \subseteq taken
                 \/ blank \/ turns = MaxPages
                 \/ provider = "rainforest" /\ ~ stated
                 \/ provider = "paapi" /\ turns = PageLimit
=============================================================================
