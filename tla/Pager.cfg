SPECIFICATION Spec
CONSTANTS
    Pragmas <- SafeModes
    Spills = TRUE
    DbFaults = TRUE
    Kills = TRUE
    TornStores = {"journal"}
    MaxPages = 3
    MaxTx = 2
    MaxJournal = 30
    NoFile = NoFile
    Unknown = Unknown
    NoTx = NoTx
INVARIANTS TypeOK ReadsWhatIsCommitted AnswersAreTrue Inv
PROPERTIES Atomic OverwrittenOnlyWhenJournaled
