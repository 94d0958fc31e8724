SPECIFICATION FairSpec
CONSTANTS
    Types = {"at", "interval", "watch"}
    Every = 2
    MaxTime = 3
    MaxOcc = 2
    MaxAttempts = 2
    MaxEdits = 1
    MaxOwner = 2
CHECK_DEADLOCK FALSE
INVARIANTS OneOutstanding RemovedScheduleRests
PROPERTIES DueTimesFire
