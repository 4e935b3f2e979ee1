SPECIFICATION Spec
CONSTANTS
    Last = 3
    Settings = {"single", "two", "four"}
    Multihart = {"two", "four"}
    Nothing = Nothing
    MaxRuns = 2
    MaxMishaps = 3
INVARIANTS
    ExportIsOfThisRun
    StampMeansExported
