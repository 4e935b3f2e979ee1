SPECIFICATION Spec
CONSTANTS
    Resuming = {FALSE, TRUE}
    Cases = {"test", "ref"}
    Keys = {"gcc16", "gcc17"}
    Torn = Torn
    Nothing = Nothing
    MaxMakes = 3
    MaxMishaps = 2
INVARIANTS
    TypeOK
    ExportedIsRight
    PackageRunsElf
