-------------------------------- MODULE Laws ---------------------------------
(***************************************************************************)
(* What the pure rules promise, each for the cases that may be put to it:   *)
(* the rules themselves are Personalization, Trends, CompleteLooks, Evidence, *)
(* OutfitChoice, Styling and GuestAnalysis.                                 *)
(***************************************************************************)
EXTENDS Integers, Sequences, FiniteSets

CONSTANTS
    Unknown, Malformed,
    BridgeTable,      \* the mapping tables of ffo_bridge.py, by field
    TermKind,         \* of each verified concept
    CategorySuits,    \* _CATEGORY_OCCASIONS
    NeutralColors,    \* _NEUTRAL_COLOR_CODES
    NaturalMaterials, \* _NATURAL_MATERIAL_CODES
    Lexicon,          \* the words, in their lexical order
    RetrievalCap,     \* limit=1000 of a retrieval by concept
    RetrievalPage,    \* page_size=100 of the pool
    RetrievalPages,   \* of the pool
    LookOwned,   \* page_size=100 of the wardrobe that looks are made of
    LookShelf,   \* candidates_per_slot
    LookSample,  \* max_sec_per_slot, by the number of slots
    Corpus,      \* the documents of data/ffo/corpus.py
    Vocabulary,  \* of the concepts that are looked for in videos and products
    Alias,       \* of the terms of trends
    PerCategory, \* _MAX_REPRESENTATIVES_PER_CATEGORY
    PerWardrobe, \* _MAX_CANDIDATES
    MaxBytes,    \* of an upload
    SavedPage    \* of the saved looks that are read for an analysis

-----------------------------------------------------------------------------
(* For you: a case is [catalogue, request, size], what is sold, who asks for *)
(* what, and the size of the pages of the answer.                            *)

ForYou == INSTANCE Personalization WITH
    None <- Unknown, Table <- BridgeTable, Kind <- TermKind, Suits <- CategorySuits,
    Neutrals <- NeutralColors, Natural <- NaturalMaterials, Alphabet <- Lexicon,
    QueryCap <- RetrievalCap, PoolPage <- RetrievalPage, MaxPages <- RetrievalPages

ASSUME RetrievalBounds ==
    RetrievalCap \in Nat /\ RetrievalPage \in Nat \ {0} /\ RetrievalPages \in Nat \ {0}

(* The tables of the bridge name concepts of the corpus only.               *)
ASSUME BridgeAssumption ==
    /\ ForYou!Bridged \ {"title"} \subseteq DOMAIN BridgeTable
    /\ \A f \in DOMAIN BridgeTable : \A i \in DOMAIN BridgeTable[f] :
          BridgeTable[f][i].concept \in DOMAIN TermKind

(* Rows of products, each with its key.                                     *)
IsForYouCase(c) ==
    /\ IsFiniteSet(c.catalogue) /\ c.size \in Nat \ {0}
    /\ \A p \in c.catalogue :
          /\ p.id \in Int /\ p.created \in Int
          /\ \A t \in ForYou!Traits : IsFiniteSet(p.text[t])
    /\ \A p, q \in c.catalogue : p.id = q.id => p = q
    /\ DOMAIN c.request.criteria =
          {"include", "exclude", "traits", "min", "max", "currency",
           "priced", "pictured", "stocked", "made", "concepts", "words"}

ForYouHolds(c) == /\ ForYou!IsWanted(c.catalogue, c.request, c.size)
                  /\ \A p \in c.catalogue : ForYou!IsMapped(p)
-----------------------------------------------------------------------------
(* Trends: a case is of one of five rules.                                   *)

Trend == INSTANCE Trends WITH None <- Unknown

(* What is unknown is no number and no truth value, nothing that is          *)
(* concluded of videos, and no text too long for a profile.                  *)
ASSUME UnknownAssumption == Unknown \notin Int \cup BOOLEAN \cup Trend!Attentions \cup {"endless"}

(* Each trait that a concept has is weighed.                                *)
ASSUME VocabularyAssumption ==
    \A c \in DOMAIN Vocabulary : DOMAIN Vocabulary[c].traits \subseteq DOMAIN Trend!Weight

IsList(s) == Len(s) \in Nat /\ s = [i \in 1 .. Len(s) |-> s[i]]

IsWindow(w) == w.start \in Int /\ w.end \in Int /\ w.start <= w.end

(* Rows of trend_observations, and two windows that meet.                   *)
IsHistoryCase(c) ==
    /\ IsFiniteSet(c.history)
    /\ \A o \in c.history :
          /\ DOMAIN o = {"id", "product", "category", "source", "at", "price", "stock", "made"}
          /\ o.at \in Int /\ o.id # 0
    /\ IsWindow(c.window) /\ IsWindow(c.next) /\ c.next.start = c.window.end

(* Records of videos: when a video was published, and by whom, is the same  *)
(* whenever it is read.                                                     *)
IsVideosCase(c) ==
    /\ IsList(c.records)
    /\ \A i \in DOMAIN c.records :
          /\ DOMAIN c.records[i] = {"video", "channel", "at", "views", "title", "tags", "description"}
          /\ c.records[i].at \in Int \cup {Unknown}
          /\ c.records[i].views \in Nat \cup {Unknown}
    /\ \A i, j \in DOMAIN c.records :
          c.records[i].video = c.records[j].video =>
              c.records[i].at = c.records[j].at /\ c.records[i].channel = c.records[j].channel
    /\ IsWindow(c.window)

(* Rows of products that a concept is matched with.                         *)
IsProductsCase(c) ==
    /\ c.concept \in DOMAIN Vocabulary /\ c.limit \in Nat
    /\ IsFiniteSet(c.products)
    /\ \A p \in c.products :
          /\ DOMAIN p = {"id", "category", "kind", "title", "traits", "currency", "made"}
          /\ p.id \in Int
    /\ \A p, q \in c.products : p.id = q.id => p = q

(* Signals of the feed. *)
IsFeedCase(c) ==
    /\ IsFiniteSet(c.signals) /\ c.now \in Int
    /\ \A s \in c.signals :
          /\ DOMAIN s = {"id", "term", "source", "at", "growth", "volume"}
          /\ s.id # 0 /\ s.at \in Int /\ s.growth \in Int \cup {Unknown}

(* Two payloads of search interest, one after the other.                    *)
IsInterestCase(c) ==
    /\ IsWindow(c.window)
    /\ \A p \in {c.first, c.second} :
          /\ DOMAIN p = {"kind", "key", "display", "geo", "scope", "start", "end",
                         "status", "value", "scale", "version"}
          /\ p.start \in Int \cup {Unknown} /\ p.end \in Int \cup {Unknown}

IsTrendsCase(c) ==
    \/ c.rule = "history"  /\ IsHistoryCase(c)
    \/ c.rule = "videos"   /\ IsVideosCase(c)
    \/ c.rule = "products" /\ IsProductsCase(c)
    \/ c.rule = "feed"     /\ IsFeedCase(c)
    \/ c.rule = "interest" /\ IsInterestCase(c)

TrendsHold(c) ==
    /\ c.rule = "history"  => Trend!CatalogueIsCounted(c.history, c.window, c.next)
    /\ c.rule = "videos"   => Trend!VideosAreCountedOnce(c.concept, c.records, c.window)
    /\ c.rule = "products" => Trend!MatchesAreGenuine(c.concept, c.products, c.limit)
    /\ c.rule = "feed"     => Trend!TrendsAreCorroborated(c.signals, c.now)
    /\ c.rule = "interest" => Trend!SeriesAreNotInflated(c.first, c.second, c.window)
-----------------------------------------------------------------------------
(* Complete looks: a case is [request, piece], what is asked for, and a      *)
(* piece that its owner may come to own.                                     *)

Looks == INSTANCE CompleteLooks WITH
    None <- Unknown, OwnedPage <- LookOwned, PerSlot <- LookShelf, Sample <- LookSample

ASSUME LooksBounds ==
    LookOwned \in Nat /\ LookShelf \in Nat /\ LookSample \in [1 .. 3 -> Nat \ {0}]

IsPiece(x) ==
    x.id \in Nat \ {0} /\ x.price \in Nat \cup {Unknown} /\ x.slot \in Looks!Slots \cup {Unknown}

LooksPieces(r) == {r.owned[i] : i \in DOMAIN r.owned} \cup {r.products[i] : i \in DOMAIN r.products}

(* Rows of the wardrobe and of products, each with its key.                 *)
IsLooksRequest(r) ==
    /\ DOMAIN r = {"user", "anchor", "owned", "products", "allowed", "budget", "style", "limit"}
    /\ IsList(r.owned) /\ IsList(r.products)
    /\ \A i \in DOMAIN r.owned : r.owned[i].source = "wardrobe"
    /\ \A i \in DOMAIN r.products : r.products[i].source = "catalog"
    /\ \A x \in LooksPieces(r) : IsPiece(x)
    /\ \A x, y \in LooksPieces(r) : x.id = y.id => x = y
    /\ r.budget \in Nat \cup {Unknown} /\ r.limit \in Nat \ {0}

IsLooksCase(c) ==
    /\ IsLooksRequest(c.request)
    /\ IsPiece(c.piece) /\ c.piece.source = "wardrobe"
    /\ \A x \in LooksPieces(c.request) : x.id # c.piece.id

LooksHold(c) == /\ Looks!LooksAreWhole(c.request)
                /\ Looks!FirstIsBest(c.request)
                /\ Looks!MoreIsNotLess(c.request, c.piece)
-----------------------------------------------------------------------------
(* Answers: a case is [query, output, max], what is asked, what a model put  *)
(* out, and how many conclusions it may draw.                                *)

Reasoned == INSTANCE Evidence WITH None <- Unknown

(* A conclusion as ffo_reasoning.py parses it. *)
IsConclusion(c) ==
    DOMAIN c = {"cites", "refs", "subject", "claims", "recorded", "says", "words", "contested"}

IsAnswerCase(c) ==
    LET cs == c.output.conclusions
    IN  /\ IsList(cs)
        /\ \A i \in DOMAIN cs : IsConclusion(cs[i])

AnswersHold(c) ==
    Reasoned!IsGrounded(Reasoned!Retrieve(Corpus, c.query), c.query, c.output, c.max)
-----------------------------------------------------------------------------
(* Outfits: a case is [choice], what an outfit is chosen from.               *)

Outfits == INSTANCE OutfitChoice WITH
    None <- Unknown, MaxRepresentatives <- PerCategory, MaxCandidates <- PerWardrobe

(* The cap of the candidates leaves room for each pair that is represented.  *)
ASSUME OutfitBounds ==
    PerCategory \in Nat /\ PerWardrobe \in Nat /\ PerCategory * PerCategory <= PerWardrobe

(* What is unknown of a garment is no palette. *)
ASSUME PaletteAssumption == Unknown \notin {"monochrome", "warm", "cool"}

IsGarment(x) == /\ DOMAIN x = {"id", "category", "color", "material", "fit", "favorite"}
                /\ x.id \in Int /\ x.favorite \in BOOLEAN

(* Reactions are to the looks that are saved. *)
IsOutfitCase(c) ==
    LET choice == c.choice
    IN  /\ DOMAIN choice = {"wardrobe", "saved", "events", "looks", "groups", "occasions", "palette", "fit"}
        /\ IsFiniteSet(choice.wardrobe) /\ \A x \in choice.wardrobe : IsGarment(x)
        /\ \A x, y \in choice.wardrobe : x.id = y.id => x = y
        /\ IsList(choice.looks) /\ IsList(choice.groups)
        /\ \A e \in choice.events : e.look \in DOMAIN choice.looks

OutfitsHold(c) == /\ Outfits!IsSettled(c.choice)
                  /\ Outfits!ReactionsCount(c.choice)
                  /\ Outfits!ReasonsAreEarned(c.choice)
-----------------------------------------------------------------------------
(* Rankings and garments. *)

Advice == INSTANCE GuestAnalysis WITH
    None <- Unknown, Blank <- "blank", Endless <- "endless", Unreadable <- "unreadable"

IsStylingCase(c) ==
    \/ /\ c.rule = "ranking"
       /\ c.ranking.engine \in {Advice!Hairstyles, Advice!Grooming}
       /\ DOMAIN c.ranking.asked = {"face", "signals", "preferred", "excluded", "saved"}
       /\ c.ranking.asked.signals \in Nat
    \/ /\ c.rule = "garment"
       /\ DOMAIN c.garment = {"category", "color", "material", "favorite", "saved"}
       /\ c.garment.favorite \in BOOLEAN /\ c.garment.saved \in BOOLEAN
       /\ DOMAIN c.room = {"categories", "occasions"}
       /\ IsFiniteSet(c.room.categories) /\ IsFiniteSet(c.room.occasions)

StylingHolds(c) ==
    IF c.rule = "ranking" THEN Advice!PreferencesCount(c.ranking.engine, c.ranking.asked)
    ELSE Advice!GarmentsAreJudgedEvenly(c.garment, c.room)
-----------------------------------------------------------------------------
(* Guests and members. *)

IsGuestCase(c) ==
    \/ /\ c.rule = "image"
       /\ c.pass.sight.is \in {"crashed", "refused", "seen"}
       /\ c.pass.clothes.is \in {"crashed", "refused", "seen"}
    \/ /\ c.rule = "profile"
       /\ DOMAIN c.pass = {"profile", "engine"}
       /\ DOMAIN c.pass.profile = {"face_shape", "skin_tone", "body_type", "style_type"}

(* A text that is too long is refused where a guest states it; a member has *)
(* none.                                                                    *)
GuestsHold(c) ==
    IF c.rule = "image" THEN Advice!GuestsAreAnsweredAlike(c.pass)
    ELSE \/ \E f \in DOMAIN c.pass.profile : c.pass.profile[f] = "endless"
         \/ Advice!SavedLooksCount(c.pass, c.saved)
=============================================================================
