SPECIFICATION Spec
CONSTANTS
    Pragmas <- SafeModes
    Spills = FALSE
    DbFaults = FALSE
    Kills = TRUE
    TornStores = {"file_size"}
    MaxPages = 2
    MaxTx = 2
    MaxJournal = 24
    NoFile = NoFile
    Unknown = Unknown
    NoTx = NoTx
PROPERTY Atomic
