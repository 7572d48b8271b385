SPECIFICATION MCSpec
CONSTANTS
    r1 = r1  r2 = r2  r3 = r3  r4 = r4
    dev = dev  mail = mail
    w1 = w1  w2 = w2
    k1 = k1  k2 = k2
    work = work  date = date
    Request = {r1, r2, r3, r4}
    Subject = {dev, mail}
    Dev = dev
    Word = {w1, w2}
    IdemKey = {k1, k2}
    Type = {work, date}
    None = None
    Unknown = None
    Malformed = Malformed
    PerCategory = 2  PerWardrobe = 4  MaxBytes = 20  SavedPage = 2
    BridgeTable <- Tables  TermKind <- Terms  CategorySuits <- Suiting  Lexicon <- ByLetter
    NeutralColors = {"black"}  NaturalMaterials = {"cotton"}
    LookOwned = 3  LookShelf = 2  LookSample <- Samples
    RetrievalCap = 4  RetrievalPage = 2  RetrievalPages = 2
    Cases <- MCCases  Corpus <- MCCorpus  Vocabulary <- MCVocabulary  Alias <- MCAlias
    Scripts <- MCScripts
    Deadline = 9  GdeltPace = 2  GdeltTimeout = 3  GdeltRetries = 1
    GdeltBase = 1  GdeltBackoff = 2  GdeltRetryAfter = {0, 3}  MaxSlices = 2
    Listings <- MCListings
    SourceBatch = 3  MaxRecords = 5  MaxPages = 3  PageCap = 2  PageLimit = 3
    Pace = 2  Timeout = 1  MaxRetries = 1  Base = 1  MaxBackoff = 2  RetryAfter = {0, 3}
    Caller = {r1, r2, r3, r4}
    Address = {mail, dev}
    GateLimit = 2  GateWindow = 2  MaxBuckets = 1  Permits = 1  Attempts = 1  MaxTime = 2
    Look = {1, 2, 3, 4, 5}
    Seed <- MCSeed
    RowsRead = 3  SavedRows <- MCSavedRows
    FeedBoost = 3  FeedPage = 2  PoolPage = 2  PoolPages = 3  Changes = 2
    Client = {r1, r2, r3}
    WardrobeScripts <- MCWardrobe
    ClosetStock <- MCStock
    Worn = {1, 3}
    MaxRepresentatives = 2  MaxCandidates = 4
    ClosetCodes <- MCCodes
INVARIANTS
    RowsHaveOneOwner
    RegisteredAsDescribed
    DeadTokensAreRefused
    OccasionsAreKept
    RequestsAreBounded
    PermitsAreConserved
    WindowIsKept
    PagesLoseOnlyWhatMoved
    EditsPrevail
PROPERTIES
    LooksAreComplete
    TrendsAreCounted
    AnswersAreGrounded
    ChoicesAreSettled
CHECK_DEADLOCK FALSE
