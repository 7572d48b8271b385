SPECIFICATION Spec
CONSTANTS
    r1 = r1  r2 = r2  r3 = r3
    u1 = u1  u2 = u2
    k1 = k1  k2 = k2
    i1 = i1  b1 = b1  b2 = b2
    None = None
    Request = {r1, r2, r3}
    User = {u1, u2}
    Key = {k1, k2}
    Item = {i1}
    Owner <- MCOwner
    Body = {b1, b2}
    Inputs <- MCInputs
INVARIANTS
    SaveIsWhole
    NoDanglingTarget
PROPERTIES
    ReactionsSurvive
CHECK_DEADLOCK FALSE
