SPECIFICATION Spec
CONSTANTS
    IsDb = FALSE
    Byte = {0, 1}
    Chunks <- RecordChunks
    PageSize = 2
    HeaderLimit = 2
    Radix = 2
    MaxSize = 4
    PageFaults = FALSE
    KeyFaults = FALSE
    BufferedPages = FALSE
    TruncatesJournal = TRUE
    NoFile = NoFile
    Unknown = Unknown
PROPERTIES TruncateSetsSize
CHECK_DEADLOCK FALSE
