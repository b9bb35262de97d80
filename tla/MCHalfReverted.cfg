CONSTANTS
    Jobs = {j1}
    Workers = {w1}
    Children = {c1, c2}
    None = None
    MaxAttempts = 2
    MaxContinuations = 0
    MaxCrashes = 1
    MaxSignals = 0
    MaxKeyBreaks = 0
    MaxFaults = 0
    ChildResults = {"success", "hard"}
    ChildEffects = {"rollback"}
    Mishaps = {}
SPECIFICATION Spec
PROPERTY
    NeverHalfReverted
