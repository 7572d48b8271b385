SPECIFICATION FairSpec
CONSTANTS
    r1 = r1  r2 = r2  r3 = r3
    u1 = u1  u2 = u2
    k1 = k1  k2 = k2
    i1 = i1  i2 = i2  j1 = j1
    None = None
    Request = {r1, r2}
    User = {u1, u2}
    Key = {k1}
    Item = {i1, i2, j1}
    Owner <- MCOwner
    Instant <- MCInstant
    Leeway = 1
    MaxItems = 2
    Inputs <- MCInputs
INVARIANTS
    WholeActions
    ReplayListsOriginal
PROPERTIES
    HistoryIsImmutable
    RequestsAreAnswered
    KeepsPromise
CHECK_DEADLOCK FALSE
