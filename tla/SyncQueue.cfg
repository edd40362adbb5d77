SPECIFICATION Spec
CONSTANTS
    Files = {f1, f2}
    f1 = f1
    f2 = f2
    Absent = Absent
    MaxClock = 3
    MaxQueue = 3
    WaitsForMount = TRUE
    SaveFails = TRUE
    PopulateFails = TRUE
INVARIANTS TypeOK RequestsHaveASave OneSyncfsAtATime DrainedMeansSaved
PROPERTIES PersistedSurvives SyncedIsSaved
CHECK_DEADLOCK FALSE
