# Fansivibe backend: a TLA+ verification

Fansivibe is a styling assistant: a FastAPI backend over PostgreSQL
(`src/backend`), a Flutter client (`src/newproject/flutter_application_1`) and a
body of documents (`src/docs`). This directory models the backend: the requests
that several threads or worker processes run at the same time over one database,
that clients repeat after a timeout and that can die between any two commits; the
collectors and the retention that fill and prune the catalogue beside them; the
reads that go page by page while what they read changes; and the pure rules that
rank, match, count and ground what a person is shown.

Section 1 is the inventory, 2 the modules and how they correspond to the code, 3
the runs, 4 what they found, 5 the proofs, 6 what is left out, 7 what remains.

## 1. The system

### 1.1 How requests run

Each request is served by a thread with its own SQLAlchemy session
(`infrastructure/db/session.py`), at READ COMMITTED. A router resolves the bearer
token (`api/deps.py`), builds a use case (`application/*.py`) on repositories
(`infrastructure/db/repositories.py`) and calls it once. Collectors and retention
are command-line jobs over the same repositories, most of whose methods are one
commit. Outside `api/rate_limit.py` there is no lock in the application: what
orders two requests is the database, that is

* its unique indexes: an insert waits for an open transaction that inserted the
  same key, then fails with `IntegrityError` if that one committed;
* its foreign keys: an insert locks the row of its account, so the erasure of the
  account waits for it, and an insert after the erasure fails;
* its row locks: a flushed UPDATE or DELETE keeps its row until the commit;
* `ON DELETE CASCADE` and `ON DELETE SET NULL`.

A request that raises or dies has its session closed (`get_db`), which rolls
back what it had not committed. Nothing resumes a request. A session does not
read again what it has loaded, and SQLAlchemy writes only the columns whose value
differs from the loaded one: both matter in `Wardrobe` and `Collection`.

### 1.2 Components

| component | state | operations | what is hard | what makes it correct | modelled by |
|---|---|---|---|---|---|
| Analysis runs (`analysis.py`) | `analysis_runs`, `style_profile`, `learning_signals`, `activity_days` | five creating use cases | key races; pending runs left by a failure or a death; two commits of TRX-6 | one key one run; the profile only from completed runs | `AnalysisRuns` |
| Wear history (`wardrobe.py`) | wear groups and events | log a wear action | key races inside an open transaction; replay in two reads | actions are whole and immutable | `WearLog` |
| Wardrobe items (`wardrobe.py`, `outfits.py`, `today.py`) | `wardrobe_items` | add, edit, delete, list, insight, derive outfits | load-then-flush edits; reads by offset | no field is undone; a reading misses only what moved | `Wardrobe` |
| Saved looks (`saved_looks.py`) | `saved_looks`, signals, days | save (TRX-3), delete | three writes in one commit; replays; waits on two indexes | saves are whole, keys are kept | `SavedLooks` |
| Feedback (`feedback.py`) | `feedback_events` | append a reaction | target deleted between check and insert, or after | no dangling target | `SavedLooks` |
| Discovery events (`discovery_events.py`) | `discovery_events` | ingest 1 to 50 events | overlapping batches, rollback of a batch, database deadlocks | acknowledged is stored | `DiscoveryEvents` |
| Accounts, sessions (`auth.py`, `deps.py`) | `users`, `user_sessions` | register, log in, log out, resolve, erase | same address twice; dead tokens; erasure against running requests | one account per address; the dead are refused | `Accounts` |
| User events, preferences (`events.py`, `users.py`) | `user_events`, `preferences` | event CRUD, PATCH | read, extend, write back of a list | fed occasions stay | `Accounts` |
| Rate limit, reasoning gate (`rate_limit.py`) | buckets, a semaphore, a count, a gauge | admit, acquire, release | bounded table; three variables changed in steps | permits conserved; window kept | `ReasoningGate` |
| Collection, identity (`collection.py`, `product_identity.py`) | products, source maps, observations, offers, price history, runs | upsert of source records | check-then-insert of identities; partial failure | counters are true; merges by GTIN only; nothing listed is skipped or doubled | `Collection`, `PagedSources` |
| YouTube retention | raw records | pruning in batches | a failure between batches; records that come and age | what was due is gone | `Collection` |
| Media attention | articles, observations, links | halve, cluster, publish, relink | cut windows; retries; pruning beside it | a published count is whole | `MediaAttention`, `StoryClusters`, `GdeltSource` |
| Trends, search interest, videos | none (reads) | aggregate, score, match | repetition that looks like growth | what is observed again is no growth and corroborates nothing | `Trends` |
| Recommendation reads (`for_you.py`, `discover.py`, `complete_looks.py`) | none | pool, rank, page, assemble | pages over a catalogue in motion; ties; empty and capped pools | wanted, whole, affordable, each once | `Browsing`, `Personalization`, `CompleteLooks` |
| Styling rules (`analysis_rules.py`, `grooming_rules.py`) | none | choose and score | caps, ties, bounds | the best wins and its reasons are earned | `OutfitChoice`, `Styling`, `Garments` |
| Reasoning (`ffo_*.py`, `conclusion_admission.py`) | none | retrieve, validate, admit, select | what the model says is anything | an answer rests on what was retrieved | `Evidence` |
| Learning (`learning.py`) | signals, days | mark styled today; reads | one row per day | a day per save or run | parts of `AnalysisRuns`, `SavedLooks`, `Personalization` |
| Vision adapters, media and try-on, HTTP layer, telemetry, migrations, deployment, Flutter client | – | – | – | – | not modelled (section 6) |

`PROJECT.json` lists the components with their sources and status, and the
hazards line by line.

### 1.3 How they interact

All components meet in the database and mainly in four places. *The account*:
erasing it cascades into every table while other requests of the account are
under way; each module of account data therefore has the erasure as an action,
and `Accounts` has it as a request among others. *The wardrobe item and the saved
look*: wears, saves and reactions check that they exist and write later, and an
outfit is derived from a wardrobe that is read page by page; the modules have
the deletions and edits as actions. *The style profile and the styled day*:
analyses write the former, analyses and saves the latter. *The raw record*:
collectors insert and mark it, the retention deletes it. The components share
nothing else: a wear never reads a run, a discovery event never reads a save. So
each is a module of its own with the others' effects on it as actions, and the
common contract of the `Idempotency-Key` is one abstract module that two of them
implement. Where one component calls another the module of the caller uses that
of the callee: `Wardrobe` chooses with the operators of `OutfitChoice`,
`MediaAttention` clusters with those of `StoryClusters`.

## 2. Modules

| module | what it is |
|---|---|
| `AnalysisRuns`, `WearLog`, `SavedLooks`, `DiscoveryEvents` | the four keyed or batched write paths |
| `KeyedCreate` | abstract: what an `Idempotency-Key` promises of a creating endpoint |
| `Accounts` | accounts, sessions, events and preferred occasions |
| `ReasoningGate`, `GdeltSource`, `PagedSources` | admission to the reasoner; paced calls of providers, page by page |
| `Collection`, `MediaAttention` | the jobs that fill and prune the catalogue |
| `Wardrobe`, `Browsing` | writes and paged reads that interleave |
| `OutfitChoice`, `Styling`, `Personalization`, `CompleteLooks`, `Trends`, `StoryClusters`, `Evidence`, `Garments`, `GuestAnalysis` | pure rules, as operators |
| `Serving`, `Jobs` | compositions: what serves requests; the jobs on the catalogue |
| `Laws` | what each rule promises of its cases, which cases may be put to it, and what is assumed of the tables |
| `Rules` | the rules as a behaviour: a case is put to one of them |
| `MC*` | small instances for TLC |
| `Folding` | inductions over data: numbers, finite sets, orders, folds |
| `*_proofs` | theorems: of `AnalysisRuns`, `WearLog`, `SavedLooks` and `DiscoveryEvents`, of the compositions `Serving` and `Jobs`, and of `Rules` |

`Serving` extends `Accounts` and instantiates `GdeltSource`, `PagedSources`,
`ReasoningGate`, `Browsing` and `Wardrobe`; `Jobs` extends `Collection` and
instantiates `MediaAttention`. What is composed shares no state, so `family` says
at the start which part moves and the others rest; every behaviour of a
composition is one of each of its parts (`ServesGate`, `JobsCollect` and the like),
and a theorem about a part is one about the composition. `Rules` stands beside
them: its one step, `Examine`, puts a case to a rule. `MCServing` runs both in one
model, each behaviour one of `ServingSpec` or one of `RulesSpec` while the other
rests, and gives the instances; `MCRules` gives the cases.

### 2.1 Conventions

A request `r` is a member of `Request`, and the row it inserts is named by it:
each request inserts at most one row per table (a batch: one per event), so
`status[r]`, `look[r]` or `users[r]` is that row. `input[r]` or `script[r]` is what
the client sent; two requests with equal inputs are a submission and its retry.
`pc[r]` or `stage[r]` is the point the handler has reached. An action is the code
between two points at which another request can interfere: a commit, or a read
whose answer may be out of date at the next statement. A transaction that stays
open over several actions is visible to nobody but is waited for. `Abort(r)` or
`Die(r)` is the death of a request at any point before its last commit.

Payloads, titles and texts are model values: the code compares them for equality
and stores them. In the rules a text is the set of the words it is matched by;
scores are integers in the precision of the code's weights (hundredths, or
whatever the module states). Definitions that begin "Faulty" are plausible
bugs, one per property; they are used by no run and stand before the operator
they would replace.

Variables marked *history* (`log`, `prior`, `kept`, `touched`, `passed`, `stale`,
`fed` and the like) are read by no action of the code; properties need them to
speak of the past.

### 2.2 AnalysisRuns

`Begin` is the validation (an upload, or a stored face shape), `Lookup` the
search for the key, `Create` the insert and commit of the pending run, `Relookup`
the `except IntegrityError` path, `Analyse` the ports and the engine, `Complete`
and `Fail` the two PL/pgSQL functions that settle a pending row, `UpdateProfile`
and `EmitSignals` the two commits of TRX-6. `Findings(kind)` is what the ports may
return: nothing, a measured appearance the engine failed on, a face shape alone,
or every attribute, and for outfits the independent garment branch. The style
profile is recorded by the run each attribute came from, which is what the
provenance properties need.

A profile-only and an image submission of the same run type share a run under one
key, because the content hash is compared only when both have one; the model
has this, and `AnswerFitsSubmission` says exactly so much.

### 2.3 WearLog, SavedLooks, KeyedCreate

*WearLog.* `CreateGroup` inserts the ledger row and waits for an open writer of
the key; `LogRow` flushes one event row; `Commit` covers all of them; `LogFails` is
the `except` that rolls back. `Reread` and `ReadRows` are the two reads of a replay.
The clock is any reading in `Instant` at each `Validate`. The omitted `wornAt`
takes that reading and does not join the comparison.

*SavedLooks.* Saves run `Check`, `Lookup`, `InsertLook`, `InsertSignal`,
`MarkStyled`, `CommitSave`; reactions `Check`, `Lookup`, `React`. A save holds its
index entry from `InsertLook` on and the day's row from `MarkStyled` on, and both
waits are guards. `Fails` is the `except Exception` with its rollback; the unique
violation of a concurrent duplicate takes the same path and is answered 500.
`DeleteLook` sets the targets of reactions to null.

*KeyedCreate* is the abstract promise: under one account and key at most one
creation lives; a submission creates it, is handed it if it fits, is told of a
conflict, or is refused and leaves nothing; deletions release slots. `WearLog`
and the saves of `SavedLooks` implement it: the slot holds the committed action or
the stored look, and a request has been told the outcome as soon as it is
decided. Reactions are left out of the mapping because what a reaction stored
changes when its target is deleted (section 4). `AnalysisRuns` is not an
implementation: a run is answered before it has content, and compatibility of
two submissions is not an equivalence. Its version of the promise is
`SameKeySameRun` with `AnswerFitsSubmission`.

### 2.4 DiscoveryEvents

`Check` is validation and the batch's consistency, `Read` the rows that exist,
`InsertRow` one row of the flush in the order of the batch, `Commit`, and
`Recheck` the `except IntegrityError`. `WaitsFor(r)` is the set of open transactions
the next insert waits for; `Deadlock(r)` ends one request of a cycle of such
waits, as PostgreSQL does, with an error that is not an `IntegrityError`. That
detection is the database's and is modelled from what the code does with its
error: nothing but the rollback of the closed session and a 500.

### 2.5 Accounts

One request is one endpoint call. Registration is `Find`, `Create` (with the
`except IntegrityError`), `Issue`, `Profile`; a login ends in `Issue`. Every other
request carries a token, the session it was minted for or the development token,
and passes `Resolve` (or `FindDev`, `InsertDev`) and `Act` before its handler, so a
token can die at each point in between: by `Revoke` (logout), `Erase` or `Expire`.
`stale` are the requests sent when their token was dead already. Creating or
changing an event is one commit, feeding `preferredOccasions` is a best-effort
second unit of work, `ReadPrefs` and `WritePrefs`, beside `Patch`. A request that
replaces the list without having read it as it is (a PATCH, or a write-back whose
read is out of date) puts the account in `replaced`; that is the lost update the
code accepts, and `OccasionsAreKept` is about everything else.

### 2.6 ReasoningGate, GdeltSource and PagedSources

*ReasoningGate.* `Arrive` reads the clock; `Limited` is what follows once the thread
has the lock, which may be much later: the sliding window, judged and extended by
that reading, with the eviction of the oldest bucket. `Acquire`, `Count`, `ReadCount`,
`ShowCount` are the semaphore, the count under its lock, the read outside it and the
gauge; `Reason` is an attempt of `OllamaFashionReasoner` with its retries; the way out
mirrors the way in on every outcome. `Tick` is time.

*GdeltSource.* `query_slice` slice after slice: pacing, the request, backoff or
`Retry-After`, all against one deadline, in integer time units.

*PagedSources.* The loop of `CollectSource` over the adapters of Amazon (through
PA-API or Rainforest) and YouTube, or over the records an adapter is seeded with.
`Ask` is the test of the loop, `Send` a request after its pacing, `Fails` whatever the
adapter makes of a failure, and `Answered` parses a page and collects its records.
A page is a number whose size is asked for (PA-API), a number of fixed size
(Rainforest), a token (YouTube) or an offset. The providers differ in what is
tried again: Amazon's adapter gives up on a 429 at once and backs off without a
cap, YouTube's waits for a `Retry-After`. The listing does not change meanwhile; that
it may is what `Browsing` and `Wardrobe` are about. What becomes of a record is in
`Collection`, which takes the pages as given.

### 2.7 Collection and MediaAttention

*Collection.* `Fetch`, `Record`, `Reread`, `Reject`, `Lookup`, `Resolve`, `Write`,
`Observe`, `Mark`, `Finish` are the commits of a collector and the reads between them.
`Lookup` is the first read of an upsert, that of its own mapping, with which its
transaction begins; `Resolve` is the other reads that it decides on (GTIN,
resemblance, offer, and whether the listing is the primary one) and `Write` what it
then writes, with the rows others committed meanwhile in view of the unique
indexes only. `seen[r]` is that stale knowledge. `DbFails` is a `SQLAlchemyError`
of any of these statements, which ends the run as failed after a rollback.
`StartPruning`, `PruneBatch`, `PruneFails` are the retention, and `Age` makes a record due.
A product is named by the listing that created it. The primary listing is another
matter: the code takes the mapping with the earliest `created_at`, a default `now()`,
which in PostgreSQL is when the transaction began. `created` holds these instants
and `Oldest` compares them. Only their order counts, so `Now` offers those that tell
orders apart: later than every row that is committed and no earlier than any
transaction that is open. That the clock never goes back is assumed.

*MediaAttention.* `QuerySlice` answers or fails; a slice at the provider's cap is
halved until `MaxDepth` or `MinSlice`, then taken as cut. `Judge`, `Store`, `MarkRaw`,
`Normalize`, `Publish`, `Relink`, `Finish` are the commits after it; `FindAffected`
and `DeleteExpired` the pruner with its suppression of observations. The
clustering is evaluated on the articles that were fetched.

### 2.8 Wardrobe and Browsing

*Wardrobe.* A PATCH or DELETE is `Load` (the check that the item exists),
`Select`, and a flush that waits for the row; `Merged` writes the fields that differ from
the loaded copy, as SQLAlchemy does. A reading is `CountItems` and one `ReadItems`
per page, each with its own snapshot, then `Derive` or `DeriveToday`. `Summarize`
and `Cover` are the two statements of the insight.

*Browsing.* `BrowseFeed` follows cursors of score and code while saves and removals
change scores; a cursor of a look whose score changed is refused. What raises a
score are the newest `RowsRead` rows of what is saved (100 in the code), so each page
reads the list of rows: one that is saved pushes the oldest of them out, and one that is
removed lets another in (`pushed`). Saved outfits take rows too. `GatherPool`
reads pages by offset while products come and go.

### 2.9 The rules

`OutfitChoice` (candidates, points, order, winner, reasons), `Styling` (rankings
and single garments), `Personalization` (criteria, mapping to concepts,
preferences, points, pages), `CompleteLooks` (cores, completions, budget,
anchor), `Trends` (catalogue demand, videos, feed signals, search interest,
matching), `StoryClusters` and `Evidence` are operators over small records. Each
ends in laws quoted from the docstrings, which relate two evaluations wherever
they can: to own more never leaves a smaller outfit, a repeated observation is not
growth, a first like leaves the winner. (Of money `MoreIsNotLess` compares a budget with
none at all.) What a repetition does move is said as well: an observation of a
product counts once more, and a signal pulls the mean growth of its trend. `Laws`
collects them, with predicates for the cases that may be put to a rule
(`IsOutfitCase`, `IsVideosCase` and so on: what the database and the callers guarantee
of the inputs), so that theorems can speak of every case; the cases that TLC takes are
in `MCRules`. `GuestAnalysis` sets the pass of a guest, which answers at once and
stores nothing, beside the pass of a member. The tables of the code (vocabularies,
palettes, seasons) are constants, small instances of them in `MCRules` or `Garments`.

## 3. Runs

| run | bounds | shows | states |
|---|---|---|---|
| `MCAnalysisRuns` | 2 requests, 2 accounts, 1 key, 2 images, 8 inputs; fair | no run pending but by a death, every submission is answered | 141,724 |
| `MCAnalysisRaces` | 3 requests of one account, 4 contending inputs, symmetric | one key one run, fitting answers, provenance of profile and signals, profiles never forget | 442,084 |
| `MCWearLog` | 2 requests, 2 accounts, 3 items, 2 instants, 6 inputs; fair | whole actions, faithful replays, immutable history, waits end, `KeyedCreate` is implemented | 76,411 |
| `MCSavedLooks` | 2 requests, 2 accounts, 2 keys, 1 item, 6 inputs; fair | waits end, saves implement `KeyedCreate` | 18,182 |
| `MCSavedRaces` | 3 requests, otherwise the same | TRX-3 is whole, no dangling target, reactions stay | 997,416 |
| `MCDiscoveryEvents` | 3 batches over 2 events with 2 payloads, an account and a guest, 5 inputs; fair | whole batches, truthful acknowledgements, single events are stored, batches end | 158,220 |
| `MCJobs` | family *catalogue*: 2 collectors under 5 plans, 1 retention run, pages of 1, 2 records, batches of 1; family *media*: 2 collectors of one key over 5 worlds, among them one that lists a later copy of an article before an earlier, 1 pruner, cap 2, depth 2 | counters, merges, prices and histories, retention; published counts, story clusters | 1,192,026 |
| `MCServing` | families *accounts* (4 requests, 5 scripts), *gdelt* (deadline 9, 1 retry, 2 slices), *source* (4 providers, listings of up to 5 items, pages of 2, 5 wanted, 3 pages, 1 retry), *gate* (4 calls, limit and window of 2, 1 permit, 1 bucket), *feed* (5 looks, pages of 2, up to 5 saved rows of which 3 are read), *pool* (pages of 2, 3 pages, 2 changes), *wardrobe* (3 requests, 4 items), and beside them the rules, each on its cases | accounts and tokens, requests to providers and what is collected from their pages, permits and windows, paged reads, edits, the laws of the rules, guests answered as members are | 529,248 |
| `MCAnalysisTrace`, `MCSavedReplay`, `MCReactionConflict`, `MCDiscoveryLoss` | as needed | the four disagreements of section 4 | |

*Families.* `MCJobs` and `MCServing` check components that share no state in one
run: `family` is chosen at the start and only the variables of that family
move, so the run is the sum of its families and not their product. A rule takes one
step, `Examine`, to each of its cases, and the law is an action
property over that step (`[][… case' …]_case`), so that TLC evaluates it once
per case.

*Bounds.* The code distinguishes a request from "the other holder of its key" and
from "a third one that comes after": three requests give a winner, a loser and
a later retry. Two suffice where the property is about pairs or about liveness.
Two accounts are there to see that equal keys of different accounts do not
meet; where a run has one account the keys of others are covered by the proof.
The scripts, plans and worlds are listed by hand in the MC modules: those that
meet on a row, and one or two that must not. Pages, caps, batches and buckets are
scaled down until two pages are needed, the cap is reached exactly, and a batch
is filled exactly, which is where the boundaries bite. For each cap the run has a
case on either side of it. At the gate `IsShort` bounds the four calls: a call goes on
beyond the window of its address only at the beginning of the time and while the
fourth has not come. The semaphore reads no clock and has one permit, so three calls
that contend for it at once are enough, and the four matter to the window, where a
late holder of an old reading has to pass between others.

*Deadlock checking* is off in every run: a finite set of submissions that have
all been answered is a state in which the system may stop. That nothing stops
before is what `RequestsAreAnswered` checks where the code can wait.

*Fairness.* `FairSpec` of `AnalysisRuns`, `WearLog`, `SavedLooks` and
`DiscoveryEvents` is weak fairness of `Step(r)` for each request: a thread that is
neither dead nor waiting runs on. Handlers are synchronous, the calls of the
vision services have timeouts, and PostgreSQL wakes an insert when the
transaction it waits for ends. No fairness is assumed of submissions,
deletions, erasures, failures (`LogFails`, `Fails`) or deaths. In
`DiscoveryEvents` the database's resolution of a deadlock is part of `Step`; without
it `RequestsAreAnswered` would fail for batches in opposite orders. The other
modules state no fairness: collectors and reads wait for nobody but a row lock,
and that a call of the provider ends in time is a safety property,
`RequestsAreBounded`.

Each property of a passing run has a mutant of the modelled code in
`PROJECT.json` that TLC finds to violate it.

## 4. What the runs found

1. **Trace of an applied analysis** (`AppliedIsTraced`).
   `docs/database/TRANSACTION_BOUNDARIES.md:171` has the profile and the signals of
   TRX-6 commit together; `update_style_profile` commits by itself, so a death
   between the two leaves an applied analysis without trace. What does hold is
   the converse, `TraceIsEarned`.
2. **Repeated save** (`RepeatedSaveIsRecognised`). The docstring of
   `saved_looks.py` returns the original save for a repeated key and payload; the
   items are checked before the key is looked up, so it is a 404 once an item is
   deleted.
3. **Replayed reaction** (`ReplayedReactionMatches`). The docstring of `feedback.py`
   makes a different payload under a key a conflict; after the target was deleted
   the stored row compares equal to a reaction with no target.
4. **Accepted events that are not stored** (`AcceptedIsStored`). A batch that loses
   the race for one event is rolled back as a whole, and the events no other
   batch stored are still reported as accepted. A batch of a single event, which
   is what the shipped client sends, is not affected: `SingletonIsStored` holds and
   is proved.

Other observations from reading the code closely enough to model it. No run is
kept for them; the models do what the code does.

*Writes.*
* A run whose worker died stays pending and is what a retry under its key is
  given. A repeated wear whose item was deleted is a 404 like a repeated save. A
  concurrent duplicate of a save or a reaction is a 500, not a replay.
* `API_CONTRACT_RULES.md:378` calls analyses never idempotent while the code
  honours the key; the version column that `TRANSACTION_BOUNDARIES.md` gives TRX-6
  is not used.
* A PATCH of a wardrobe item skips a field equal to the loaded value, so its 200
  may carry the value of another PATCH; a row deleted between select and flush
  is a 500 although the handler promises a 404.
* The window of the rate limit is judged by a clock that is read before the lock is
  taken (`rate_limit.py:66`). A thread that is held up in between is let pass by its old
  reading, so more than the limit may be let pass within the length of a window, or
  bear stamps of one window. `WindowIsKept` therefore counts the requests that come
  and are let pass within the same window.
* The gauge of active reasoning calls can settle on a value that is not zero:
  the count is read outside the lock (`rate_limit.py`).
* `prune_expired_raw_records`, which the media retention calls, deletes the expired
  raw records of every source; a suppressed media observation still holds its
  natural key.

*Sources.*
* The docstring of `_is_primary_source` (`repositories.py:1649`) and the comment at
  `repositories.py:2013` give the canonical fields of a product to its original creator.
  The code takes the oldest mapping, and its `created_at` is when the transaction
  began: a listing whose upsert began before that of the creator, but found the product
  by its GTIN, is the oldest and sets the price from then on (TLC finds this trace on the
  plans of `MCCollection`). What does hold is `CanonicalIsPrimary`: but for a fixture,
  nobody whose upsert began later than the creator's ever sets it.
* The last `limit` of a collection may be smaller than the ones before, when
  `max_records` is no multiple of the page size or items were dropped. PA-API counts
  its pages in that size, so the last page is another one: it repeats items
  already collected and misses later ones. `CollectedAsListed` excepts this case.
* A page with items but without a usable one ends a collection as completed
  although it has a continuation, which by the docstring of `SourceBatch` is what
  says that there is more. PA-API errors in a 200 that are not of the four known
  kinds are passed over as an empty page, with the same effect.
* A title of an unexpected kind raises an `AttributeError` in the parsers, and httpx
  has errors that the adapters do not translate; the collector catches neither,
  and its `collection_runs` row stays `running`.
* YouTube's backoff is capped, its `Retry-After` is not.

*Reads.*
* `discover.py` (about 109–111) says that the window "never shifts between pages";
  a cursor whose look changed its score is refused with 422.
* The feed reads the newest 100 saved rows (`discover.py:312`). Beyond these a saved look
  is not preferred, and one that is saved or removed moves another over the edge: it
  changes its score though nobody touched it, and may be shown twice or missed.
* The provider of news is asked for no order (`gdelt_source.py:184`), and of several
  copies of a url the first is kept (`media_attention.py:845`). Where a later copy is
  listed before an earlier, which of them is kept, and with its time and title the
  number of stories, depends on where the window was halved; the number of articles
  does not.
* The wardrobe and the pool are read by offset, each page with its own snapshot:
  a deletion in between makes a reading miss an item that was there throughout,
  so an outfit can be refused for a category that is owned.
* `candidate_retrieval` decodes a cursor and ignores it. `NOT IN` criteria drop the
  products whose brand or category is NULL; attributes match exactly in SQL and
  by substring in memory. A criteria error raised outside the router's `try` is a
  500.

*Rules.*
* `recommend_hairstyle` documents the pompadour as first for round, square and
  rectangular faces; for rectangular the quiff wins, 0.97 to 0.93.
* `assemble_personalization_context` calls `get_for_user` without the look's id,
  raises a `TypeError` and swallows it; no production caller passes its result on.
* The "seasonal conflict penalty" of `compute_outfit_intelligence` is applied for
  any conflict, and coverage and missing categories count the same gap twice.
* A score is cut off at 100. Where that happened to the second-best outfit, a first
  dislike of it can make it overtake the winner: of the raw scores 100 and 103, both
  shown as 100, sharing two garments makes 98 and 99. The attempt to prove "a
  dislike lets it overtake no other" ended here, and TLC shows such a wardrobe;
  `ReactionsCount` states it below the cap.
* At most 25 candidates are generated in the order of the skeletons, so a rich
  wardrobe rarely has one with outerwear or accessories considered. Today's
  alternatives may repeat the look that is shown.
* `outfit_compatibility.py:284` looks a material up in a table keyed by season, so
  a seasonal conflict never arises there; an anchor without a slot is ignored;
  `int(125**(1/3))` is 4.
* Looks are assembled from the newest 100 pieces of a wardrobe
  (`complete_looks.py:156`): in a fuller one a new piece pushes an old one out, and may
  leave a smaller outfit. `MoreIsNotLess` speaks of a piece that joins a wardrobe
  that is still read to its end.
* `fashion_concept_extraction.py:222` checks negative patterns "against all text" but
  not against tags; `build_trends` computes `unique_products` and does not use it;
  a trend without reported growth is scored as if its velocity were 0.
* `catalog_concept_matcher.py` states INR when no currency is given, against its own
  heading; an answer that is `insufficient` may come without `missing_evidence`.

## 5. Proofs

TLAPS checks the theorems of `Folding` and of the seven `*_proofs` modules for every
set of requests, accounts, keys, items, images, events, runs, sources, listings and
inputs, every number of permits, limit, pace, deadline and size of page, any
window, cap and depth, and every corpus, vocabulary and case of the rules. They
rest on the assumptions the modules name: the inputs are well-typed, `None` is none
of the values it stands beside, owners exist, the clock reads integers, accounts
and guest sessions are different, the sets of callers and looks are finite, a page
has room for an entry.

Proved are the type invariants, every safety invariant and action property that a
passing run checks, and both refinements of `KeyedCreate`. The properties that say no
more than that a key or an index entry has one holder (`OneWriterPerKey`,
`OneRowPerKey`, `OneRowPerEvent`) and the type invariants stand in the modules and are
theorems, without a run of their own. For the state machines the argument is the same
everywhere: an inductive invariant, that it holds initially, one lemma per action (or
per action and conjunct) that a step keeps it, and the property from it.

### 5.1 Writes

* *AnalysisRuns.* None of the properties is inductive: that the loser of a race may be
  given the winner's run says nothing without relating the row to the stage of
  its request (`RowPhase`), and a key may be used again only because an erased
  account cannot submit (`RowsHaveOwners`, `ErasedIsGone`, `OneRowPerKey`). The profile
  needs that a run past its completion is still completed, or erased.
* *WearLog.* `IInv` ties the state of the ledger row to the stage and the rows to the
  item set, keeps the stamp within the comparison of a replay, and says that
  what a replay found is kept or erased. The refinement maps each action to a
  step of `KeyedCreate` or a stutter: `Commit` to its `Create`, `Reread` to `Replay` or
  `Conflict`, `EraseAccount` to `Release`.
* *SavedLooks.* `IInv` says which writes a transaction holds at each stage and
  which rows exist after it (`Phase`), and that a checked target belongs to the
  account of the reaction even when it is gone by the insert (`CheckedOwner`), from
  which the foreign key alone keeps the targets owned. The refinement maps
  `CommitSave` to `Create`, `Lookup` to `Replay` or `Conflict`, every refusal to one
  refusal, and `DeleteLook` and `EraseAccount` to `Release`; `OneRowPerKey` makes the
  choice of a slot's holder unique.
* *DiscoveryEvents.* `IInv` adds to the properties what a batch knows at each stage: past
  its check it does not contradict itself, what it did not find missing is
  stored, and, after an `IntegrityError`, one of its events is stored or the
  account is gone. The last is why a single event is never lost.
* *Accounts.* `AccountsInv` (in `Serving_proofs`) adds where each kind of request can
  be (`Phase`), that rows exist only from their insert on (`RowsAreLate`), that a
  registration that found an account found its own (`FindsItsOwn`), and that a token
  once dead stays dead (`StaleStaysStale`): sessions are named by their request, so
  none is minted again.
* *Collection.* Besides the properties, `IInv` says for each run where it may be
  (`Position`), what its stale reads still imply (`Decided`), that its counters
  account for every record (`Balanced`) and that the row of the run lags the counters
  by what is uncommitted (`RowIsCount`); and of the catalogue that whatever was
  observed is mapped and every GTIN of a product was observed, which is why a merge
  decided on an old read is still a merge by GTIN.

### 5.2 Serving

* *The gate.* `GateInv` counts who is inside and who is counted, with the lemmas of
  the library on the cardinality of a set that gains or loses one element
  (`ConservedPermits`). For the window, `WindowInv` says that of an address
  that was never evicted the bucket remembers every pass whose reading of the clock is
  not older than a window, because whoever prunes has read the clock before now; and
  that of the requests that came and passed within one window, wherever it begins, there
  are no more than the limit. The second needs the first, and both need that buckets
  are of distinct addresses. Their hits are not in order, since a thread may come to
  the lock with an older reading than the one before it (`SlidingWindow`). An eviction
  forgets passes, which is why the property excepts addresses that were evicted.
* *The providers.* `SliceInv` relates the clock of a GDELT query to the phase it is
  in, its pace and the last request sent; `SourceInv` does so for the paged sources,
  where the number of attempts, the doubling of the backoff and its cap, and the
  `Retry-After` come in (`BoundedRequests`).
* *Edits.* What a PATCH writes depends on what it loaded, which may be stale.
  `EditInv` says that the value of each field is the one wanted by the last edit in
  the order of commits that names it, and that whoever holds a row knows of it all
  but what was committed since (`OverlappingEdits`).
* *Reads* (`WholeReads`, four families). `FeedInv`: the shown looks that were neither
  touched nor pushed over the edge of the rows that are read are exactly those before
  the cursor, in an order (best score, then code) that the others cannot disturb; and
  each change pushes at most one look, since it moves the rows behind it by one place.
  `PoolInv` and, for the wardrobe, `ReadInv` count: what lies before the offset and
  was not found, less what was found and has moved behind it, is at most the number of
  changes. That a page after an offset holds what it should rests on lemmas about the
  rank of a member in a finite ordered set, which are shared by both. `CollectInv`:
  what was collected is the front of the list up to the position the next request asks
  for, unless PA-API was asked for pages of two sizes (section 4).

  The assumptions: codes are integers, for the code compares them; a wardrobe
  reading asks for pages of one entry or more (`SizesArePositive`, the code has
  constants); listings are sequences.

### 5.3 Jobs

`WholeWindows` is `PresentIsWhole` for any number of collectors, keys and pruners.
`MediaInv` says of each collector that the slices still to query follow one another
to the end of the window (`SlicesFollow`), so that what it has got is what the
provider has before the first of them (`Whole`: the articles and their number), and
that each article is counted when it is stored (`CountInv`). A halving keeps this
because the halves meet in the middle; a slice below the cap extends it because the
places of two adjoining stretches are those of the first and those of the second
(`PlacesJoin`). Of each url one copy is kept, whichever came first, so what is kept of a
whole window is one of its `Selections` (`WholeIsEverything`), and the number of urls
does not depend on the halving. Where copies are listed in the order of their time
(`EarliestFirst`), and only there, the distinct articles of two adjoining stretches are
those of the first and, of the second, those with new urls (`DistinctJoin`,
`FirstJoin`), so that the stories are those of the undivided window. Neither `Relink`
nor the pruner changes the counts of an observation.

`MediaAssumptions`, which `Jobs` assumes as `WindowAssumption`, says only that what the
provider has is a list of articles with a time. Of the order of the list nothing is
assumed.

`SourcedCatalogue` needs that a product keeps the mapping it was created with
(`Founded`), and that a listing which saw itself as the primary one still bears no later
an instant than the creator's mapping when it writes (`Decided`): rows keep their
instants, whatever was attached since.

`AnchoredStories` is `StoriesAreAnchored`. The clusters are a fold over the articles in
the order of their time, and the step is proved to keep what the property says:
what has been placed is partitioned, every cluster holds its anchor, and none of
its articles is earlier than the anchor or outside the window from it. `Folding`
takes it from the step to the fold. `ArticlesAssumption` is what the sorting needs: the
time, outlet and url of an article are of an ordered kind, and its headline has
finitely many words.

### 5.4 The rules

The rules keep no state, so a theorem about one is a law of its operators for every
case, and the temporal step only says that what `Examine` puts to a rule is a case.
What a fold or a count over data computes is an induction. The library's induction
theorems take a predicate as a parameter, which the provers cannot instantiate;
`Folding` takes a *set* instead (`NumbersFollow`: a set that holds 0 and the successor
of each of its numbers holds them all; `SubsetsFollow` likewise for the subsets of a
finite set) and proves from it the ranks of a finite order (`Ranks`, `Ranked`), what a
fold keeps (`FoldKeeps`, `FoldAppends`), and that a sum does not depend on the order of
its terms and is never less than that of some of them (`SumsAddUp`, `SumsGrow`). Of lists
that hold each member of a set once it proves that a finite set has one in any strict
order (`InTheirOrder`), that the members at some places of one are another
(`AtPlacesEnlists`), and that its parts of one size, one after the other, are its
beginning (`PartsJoin`). The step of a fold is a constant operator of the module, given
a value by the module that folds.

* *Answers* (`GroundedAnswers`). Whatever the model puts out: what survives the
  validation and the selection of conclusions is a subsequence of it, each of whose
  members passed the checks of `conclusion_admission.py` against the documents of this
  query; the counting is by ranks.
* *Trends* (`CountedTrends`). Windows that meet share no observation. A product that is
  observed again by its source in the same half of the window adds one to the count; the
  products, sources and growth stay, and so does the stage, unless it was the third
  observation that a concept with a baseline lacked. Of each video one record is kept,
  whose views do not fall and which an equal reading does not change, so to collect it
  again moves nothing; fixtures are filtered before a match is scored. Two sources are two
  members of a set, however often each reports. A signal that is repeated does count in
  the mean growth of its trend (`trending/domain.py:107`): it pulls the velocity
  towards its own growth (`RepeatsPull`), so it can make a trend only of what grew slower
  than itself, unmake one only of what grew faster, and touches no other.
* *Outfits* (`SettledChoices`). The cap of 25 is not reached by the pairs of
  represented tops and bottoms, since three of each are represented (`OutfitBounds`),
  so each has its candidate. Points are bounded term by term: compatibility lies in
  9..65 and the base score in 9..97, so that reactions never push a score below 0 and
  only the cap of 100 can cut. The winner is the greatest in an order that is shown
  to be strict and total on the candidates. A first like adds as much to the liked
  outfit as to any other, a first dislike takes at least as much from it as from any
  other below the cap. Each reason names a term of the sum, and the sum without what
  it speaks of is shown to be smaller; for a favourite that compares a wardrobe
  with its copy, garment by garment.
* *For you* (`SettledChoices` too). The shelf is a list in a strict order (newest,
  then by id), what fits the criteria is a list of what SQL selects, and the pages of
  the pool joined are its beginning (`PoolIs`): so a product is scored once, and what
  fits and is not in the pool is beyond the pages, beyond the cap of a retrieval by
  concept, or lost to SQL for one of the two reasons of `IsLost`. The filter in memory
  and the one in SQL are compared criterion by criterion, both ways
  (`SelectedPasses`, `PassingIsSelected`). The limits of the profile are those of the
  criteria unless the request states others (`LimitsOfProfiles`). The points of all
  dimensions add up to 100, so the sum over the awarded ones is at most that, and no
  point is awarded for a dimension nothing is known of (`AwardsAreKnown`). The ranking is
  a list of the pool, its pages joined are the whole of it (`EveryoneIsShown`).
* *Looks* (`CompletedLooks`). The order of looks is strict and total on the looks of a
  configuration: more points, then cheaper, fuller, and the ids slot by slot. So a
  finite set of them has a best one, which is among the completions of its core, of
  which at least two are kept (`PerCore`); what is shown first is therefore the best
  of all that can be put together in the greatest size that any is found for. After
  it the order is that of fractions with positive denominators, and again strict and
  total, so the greedy selection always finds a next look, one that is not shown yet.
  The selection is a recursive function of the number of looks; that there is such a
  function is `NumbersFollow` again. Without a budget everything that was feasible
  still is. With one more piece owned the places of the others move by one
  (`PlacesMove`), so what was considered for an optional slot still is, unless the new
  piece pushed it out of the sample: then the new piece is considered, costs nothing and
  has an id of its own, and with it in that slot the look stays feasible, its price
  compared term by term (`SumsCompare`).
* *Rankings, garments and guests* (`SettledChoices` too). The order of looks is total
  and moves no preferred look back; a garment is judged by its own rule from equal
  inputs; each outcome of the two analyzers is answered to a guest as the run of
  a member ends; a look that is saved counts in its own catalog.

The assumptions are of the tables: concepts name traits that have a weight
(`VocabularyAssumption`), what is unknown is no number, truth value or palette
(`UnknownAssumption`, `PaletteAssumption`), the bridge maps to concepts that exist
(`BridgeAssumption`), the pool has a page and a page room for a product
(`RetrievalBounds`), a sample of candidates has room for one (`LooksBounds`); and
`CasesAssumption`, that cases are of the kinds of `Laws` (of
products, that they are finitely many and an id names one; of what looks are made
of, that an id names one piece and a price is not negative). TLC evaluates each of
them on the instances of `MCServing`.

### 5.5 Only model-checked

* Every `RequestsAreAnswered`, since liveness under fairness is beyond the prover.

## 6. What is not modelled

* *Vision, language model, try-on.* What they may return is a set, or any output
  of the required structure; that they are slow is the interleaving. The assembly
  of prompts, hashing and validation of uploads keep no state.
* *The connection pool.* A session is opened before the handler and its connection
  kept during slow calls (`session.py:46`); the bound and the timeout are settings
  (`session.py:28-39`) and belong to all endpoints together. A request that gets no
  connection in time fails before its first action.
* *HTTP layer, telemetry, deployment, migrations.* Error codes appear where an
  action ends with them; counters nothing reads back do not. Of the migrations the
  two PL/pgSQL functions are in `AnalysisRuns`.
* *Words.* The wording of explanations and reasons, tokenization, plural forms,
  the contents of catalogues and vocabularies; where the code compares texts the
  models compare sets of words.
* *The caps of the outfit inputs*: the newest 100 reactions, wears and saved looks that
  the choice of an outfit reads. `OutfitChoice` takes the lists it is given.
* *Streaks* of `learning.py`, listings that differ only in their order, the
  administration's queries.
* *The Flutter client*, a separate program: its retries and its one-event batches
  appear as inputs.

Three components stay *partly* modelled for these reasons: learning (streaks),
styling rules (tables and wording) and reasoning (the model and its prompt). The
SQL repositories have no module of their own; their statements and constraints
are in the actions of those who call them.

## 7. Plan

Done, in this order: `AnalysisRuns`, `KeyedCreate`, `WearLog`, `SavedLooks`,
`DiscoveryEvents`; then `Accounts`, `ReasoningGate`, `Collection`,
`PagedSources`, `MediaAttention` with `GdeltSource` and `StoryClusters`, `Wardrobe`, `Browsing` and
the rules; then the proofs of `Accounts`, `Collection`, the gate and GDELT and the
second refinement; then `GuestAnalysis`, the compositions `Serving` and `Jobs`, and
the proofs of everything that both compose; then `Laws`, `Rules` and `Folding`, with
the proofs of the story clusters, the answers, the trends, the outfits, the guests
and the products for a person; last the complete looks.

Worth doing next:

1. An abstract specification of a page-by-page read (a set with insertions and
   removals, and what may be missed) that `Browsing` and `Wardrobe` both implement:
   the lemmas on ranks of section 5.2 are its beginning.
2. The connection pool with its settings of size and timeout, composed with
   `AnalysisRuns`.
3. Streaks as a recursive function over days.
