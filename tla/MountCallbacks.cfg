SPECIFICATION SpecAll
CONSTANTS
    Files = {f1, f2}
    f1 = f1
    f2 = f2
    Absent = Absent
    Callbacks = {c1, c2, c3}
    c1 = c1
    c2 = c2
    c3 = c3
    MaxClock = 2
    MaxQueue = 2
    WaitsForMount = FALSE
    SaveFails = TRUE
    PopulateFails = TRUE
INVARIANT CallbackInv
PROPERTIES ImplementsPatient GivenIsCalled
CHECK_DEADLOCK FALSE
