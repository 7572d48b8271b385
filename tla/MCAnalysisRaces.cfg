SPECIFICATION Spec
CONSTANTS
    r1 = r1  r2 = r2  r3 = r3
    u1 = u1  u2 = u2
    k1 = k1  i1 = i1  i2 = i2
    None = None
    Request = {r1, r2, r3}
    User = {u1}
    Key = {k1}
    Image = {i1, i2}
    Inputs <- MCContended
SYMMETRY RequestSymmetry
INVARIANTS
    SameKeySameRun
    AnswerFitsSubmission
    ProfileProvenance
    TraceIsEarned
PROPERTIES
    ProfileNeverForgets
CHECK_DEADLOCK FALSE
