CONSTANTS
    ExitCodes = {0, 1}
    Signals = {9}
    Programs <- AllPrograms
    MaxParts = 0
SPECIFICATION GuestFairSpec
PROPERTY StopsWithExitCode
