SPECIFICATION JobsSpec
CONSTANTS
    r1 = r1  r2 = r2
    c1 = c1  c2 = c2
    p1 = p1  k1 = k1
    w1 = w1  w2 = w2  w3 = w3
    j1 = j1
    amazon = amazon  seed = seed
    shop = shop
    i1 = i1
    g1 = g1
    look = look
    none = none
    Run = {r1, r2}
    Job = {j1}
    Source = {amazon, shop, seed}
    Fixture = {seed}
    Expiring = {shop}
    Item = {i1}
    Gtin = {g1}
    Look = {look}
    Price = {1, 2}
    None = none
    Plans <- MCPlans
    PageSize = 1
    MaxRecords = 2
    MaxPages = 2
    PruneSize = 1
    MaxBatches = 3
    Horizon = 2
    Word = {w1, w2, w3}
    Collector = {c1, c2}
    Pruner = {p1}
    MediaKey = {k1}
    Worlds <- MCWorlds
    Window = 4  MaxDepth = 2  MinSlice = 1  SliceCap = 2
INVARIANTS
    CountersAreTruthful
    MergedOnlyByGtin
    CatalogueIsSourced
    RetentionIsComplete
    PresentIsWhole
    StoriesAreAnchored
CHECK_DEADLOCK FALSE
