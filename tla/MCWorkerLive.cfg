CONSTANTS
    Jobs = {j1}
    Workers = {w1}
    Children = {c1, c2}
    None = None
    MaxAttempts = 2
    MaxContinuations = 1
    MaxCrashes = 1
    MaxSignals = 1
    MaxKeyBreaks = 1
    MaxFaults = 0
    ChildResults = {"success", "auth", "limit"}
    ChildEffects = {}
    Mishaps = {}
SPECIFICATION FairSpec
PROPERTIES
    EverySettles
    BlockedResumes
