CONSTANTS
    Jobs = {j1, j2}
    Workers = {w1, w2}
    Children = {c1}
    None = None
    MaxAttempts = 2
    MaxClaims = 3
SPECIFICATION Spec
SYMMETRY Symmetry
INVARIANT
    FinalMeansFinished
CHECK_DEADLOCK FALSE
