SPECIFICATION SpecAll
CONSTANTS
    Files = {p1, p2, j}
    p1 = p1
    p2 = p2
    j = j
    Journal = j
    Absent = Absent
    MaxClock = 10
    MaxQueue = 6
    MaxTx = 2
    WaitsForMount = TRUE
    WaitsForSaves = FALSE
    SaveFails = FALSE
    PopulateFails = FALSE
INVARIANT SnapshotIsCommitted
CHECK_DEADLOCK FALSE
