SPECIFICATION FairSpec
CONSTANTS
    lead = lead
    mate = mate
    None = None
    Agents <- Pair
    May <- LeadEdits
    MaxId = 2
    InitTasks = 1
    MaxEdits = 2
    MaxCrashes = 1
INVARIANTS TypeOK OneWinner
PROPERTIES ClaimsOutlastUpdates NobodyWinsDoneWork SomebodyTakesIt
\* With nothing left to do and no edits left, everybody waits.
CHECK_DEADLOCK FALSE
