SPECIFICATION Spec
CONSTANTS
    IsDb = TRUE
    Byte = {0, 1}
    Chunks <- PageChunks
    PageSize = 3
    HeaderLimit = 3
    Radix = 2
    MaxSize = 6
    PageFaults = TRUE
    KeyFaults = TRUE
    BufferedPages = TRUE
    TruncatesJournal = FALSE
    NoFile = NoFile
    Unknown = Unknown
INVARIANTS CleanMeansSaved
CHECK_DEADLOCK FALSE
