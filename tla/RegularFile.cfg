SPECIFICATION Spec
CONSTANTS
    MaxPages = 3
    Pages = {1, 2}
    NoWrite = NoWrite
    Fails = {"write", "ftruncate", "fsync", "unlink"}
    Protected = TRUE
INVARIANTS TypeOK ReadsLatest SizeIsTrue SyncedIsStored
PROPERTY OnlyDirtyPagesChange
CHECK_DEADLOCK FALSE
