SPECIFICATION Spec
CONSTANTS
    IsDb = FALSE
    Byte = {0, 1}
    Chunks <- RecordChunks
    PageSize = 2
    HeaderLimit = 2
    Radix = 2
    MaxSize = 4
    PageFaults = FALSE
    KeyFaults = FALSE
    BufferedPages = FALSE
    TruncatesJournal = FALSE
    NoFile = NoFile
    Unknown = Unknown
PROPERTIES FileContract SyncOkMeansSaved
CHECK_DEADLOCK FALSE
