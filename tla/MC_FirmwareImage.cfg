SPECIFICATION GenSpec
CONSTANTS
    NoJob = NoJob
    NoTemplate = NoTemplate
    Jobs <- MCJobs
    Bases <- MCBases
    HartCounts <- MCHartCounts
    Gibs <- MCGibs
INVARIANTS
    TypeOK
    CompleteWhenOk
    NothingOverwritten
    AddressesAgree
    InsideMemory
    GeneratedTreesFit
PROPERTY ImageTouchedAfterChecks
