SPECIFICATION Spec
CONSTANTS
    Files = {f1, f2}
    f1 = f1
    f2 = f2
    Absent = Absent
    MaxClock = 3
    MaxQueue = 3
    WaitsForMount = FALSE
    SaveFails = FALSE
    PopulateFails = FALSE
PROPERTIES PersistedSurvives
CHECK_DEADLOCK FALSE
