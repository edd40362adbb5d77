SPECIFICATION Spec
CONSTANTS
    IsDb = TRUE
    Byte = {0, 1}
    Chunks <- TwoPageSizes
    PageSize = 2
    HeaderLimit = 2
    Radix = 2
    MaxSize = 8
    PageFaults = FALSE
    KeyFaults = FALSE
    BufferedPages = FALSE
    TruncatesJournal = FALSE
    NoFile = NoFile
    Unknown = Unknown
PROPERTIES WriteLeavesOtherBytes
CHECK_DEADLOCK FALSE
