SPECIFICATION Spec
CONSTANTS
    Pragmas <- SafeModes
    Spills = TRUE
    DbFaults = FALSE
    Kills = TRUE
    TornStores = {"hot_journal"}
    MaxPages = 3
    MaxTx = 2
    MaxJournal = 24
    NoFile = NoFile
    Unknown = Unknown
    NoTx = NoTx
PROPERTY Atomic
