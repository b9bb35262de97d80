SPECIFICATION FairSpec
CONSTANTS
    MaxBatchSize = 2
    MaxConsecutiveFailures = 2
    NHistory = 3
    Earlier = {0, 2}
    HistoryCap = 2
    NLive = 2
    MaxTransports = 2
    MaxSessions = 2
    MaxMishaps = 1
INVARIANTS
    TypeOK
    HistoryFirst
    InOrder
PROPERTIES
    DeliversInOrder
    HonestMarks
    QueueSurvives
    MessagesSettle
    GateOpens
CHECK_DEADLOCK FALSE
