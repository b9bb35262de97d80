CONSTANTS
    Jobs = {j1, j2}
    Workers = {w1}
    Children = {c1, c2}
    None = None
    MaxAttempts = 1
    MaxContinuations = 0
    MaxCrashes = 1
    MaxSignals = 1
    MaxKeyBreaks = 0
    MaxFaults = 0
    ChildResults = {"success", "auth"}
    ChildEffects = {}
    Mishaps = {}
SPECIFICATION Spec
SYMMETRY Symmetry
INVARIANTS
    OneRunning
    ToldTheTruth
    OnlyAskedIsCancelled
PROPERTIES
    ImplementsLifecycle
