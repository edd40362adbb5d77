SPECIFICATION Spec
CONSTANTS
    IsDb = TRUE
    Byte = {0, 1}
    Chunks <- PageChunks
    PageSize = 3
    HeaderLimit = 3
    Radix = 2
    MaxSize = 6
    PageFaults = FALSE
    KeyFaults = FALSE
    BufferedPages = FALSE
    TruncatesJournal = FALSE
    NoFile = NoFile
    Unknown = Unknown
INVARIANTS ShortReadZeroFills
CHECK_DEADLOCK FALSE
