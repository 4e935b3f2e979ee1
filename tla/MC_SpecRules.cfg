SPECIFICATION Spec
CONSTANTS
    Suites = {"spec2006", "spec2017", "spec2026"}
    Configs <- MCConfigs
    Nothing = Nothing
    MaxMakes = 4
    MaxFailures = 1
INVARIANTS
    MadeForCommandLine
    
