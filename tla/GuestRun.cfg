SPECIFICATION GuestFairSpec
CONSTANTS
    ExitCodes = {0, 1, 2, 127, 255}
    Signals = {9, 11}
    Programs <- AllPrograms
    MaxParts = 3
INVARIANTS
    GoodTrapMeansSuccess
    StreamReadWhole
    FirstFailureStops
    ProfiledCommandAnnounced
PROPERTIES MachineStops
