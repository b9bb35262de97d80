SPECIFICATION Spec
CONSTANTS
    lead = lead
    mate = mate
    None = None
    Agents <- Pair
    May <- TwoEditors
    MaxId = 2
    InitTasks = 1
    MaxEdits = 2
    MaxCrashes = 0
INVARIANT UniqueIds
CHECK_DEADLOCK FALSE
