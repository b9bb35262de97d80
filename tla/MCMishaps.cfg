CONSTANTS
    Jobs = {j1}
    Workers = {w1}
    Children = {c1, c2}
    None = None
    MaxAttempts = 2
    MaxContinuations = 1
    MaxCrashes = 1
    MaxSignals = 0
    MaxKeyBreaks = 1
    MaxFaults = 1
    ChildResults = {"success", "limit"}
    ChildEffects = {}
    Mishaps = {"unverifiable pid", "refused prepare", "broken check", "free tier"}
SPECIFICATION PatientSpec
INVARIANTS
    ClaimHeld
    AttemptsBounded
    ReadsOwnResult
    OnlyRunningHasChild
    SecondOutcomeCostsCrash
PROPERTIES
    CancelStops
