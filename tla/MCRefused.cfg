CONSTANTS
    Jobs = {j1}
    Workers = {w1}
    Children = {c1, c2}
    None = None
    MaxAttempts = 1
    MaxContinuations = 0
    MaxCrashes = 0
    MaxSignals = 0
    MaxKeyBreaks = 0
    MaxFaults = 0
    ChildResults = {"auth"}
    ChildEffects = {"auth log", "spend"}
    Mishaps = {}
SPECIFICATION Spec
PROPERTY
    RefusedRunFails
