SPECIFICATION SpecAll
CONSTANTS
    Files = {f1, f2}
    f1 = f1
    f2 = f2
    Absent = Absent
    Callbacks = {c1, c2}
    c1 = c1
    c2 = c2
    MaxClock = 1
    MaxQueue = 1
    WaitsForMount = FALSE
    SaveFails = TRUE
    PopulateFails = TRUE
PROPERTY CalledFromTimer
CHECK_DEADLOCK FALSE
