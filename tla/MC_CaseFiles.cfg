SPECIFICATION FillSpec
CONSTANTS
    Cases <- MCCases
    Data <- MCData
    Raw <- MCRaw
    Endians = {"le", "be"}
    HeaderSizes = {0, 8, 32}
    MaxRuns = 2
    MaxMishaps = 1
INVARIANT PackageHoldsItsInputs
INVARIANT RefusedOnlyForMissing
