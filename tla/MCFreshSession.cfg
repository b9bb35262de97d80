SPECIFICATION Spec
CONSTANTS
    MaxBatchSize = 1
    MaxConsecutiveFailures = 2
    NHistory = 1
    Earlier = {0}
    HistoryCap = 0
    NLive = 1
    MaxTransports = 2
    MaxSessions = 2
    MaxMishaps = 1
INVARIANTS
    HistoryInEverySession
CHECK_DEADLOCK FALSE
