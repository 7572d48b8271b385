SPECIFICATION Spec
CONSTANTS
    r1 = r1  r2 = r2  r3 = r3
    u1 = u1  g1 = g1
    c1 = c1  c2 = c2
    h1 = h1  h2 = h2
    Request = {r1, r2}
    User = {u1}
    Guest = {g1}
    EventId = {c1, c2}
    Hash = {h1, h2}
    Inputs <- MCInputs
INVARIANTS
    AcceptedIsStored
CHECK_DEADLOCK FALSE
