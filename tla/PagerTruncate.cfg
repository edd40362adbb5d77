SPECIFICATION Spec
CONSTANTS
    Pragmas <- TruncateFull
    Spills = FALSE
    DbFaults = FALSE
    Kills = FALSE
    TornStores = {}
    MaxPages = 2
    MaxTx = 2
    MaxJournal = 24
    NoFile = NoFile
    Unknown = Unknown
    NoTx = NoTx
INVARIANT AnswersAreTrue
