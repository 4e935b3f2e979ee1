CONSTANTS
    HARTS = 3
    SmpChoices = {2, 3}
    FailureCodes = {1, 137}
    QemuFailures = {124}
SPECIFICATION FairSpec
INVARIANTS
    TypeOK
    PassMeansEveryCopyPassed
    FirstFailureReported
    CleanRunPasses
PROPERTIES
    ImplementsContract
    VerdictReached
