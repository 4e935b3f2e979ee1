SPECIFICATION Spec
CONSTANTS
    Kinds = {"linux", "am"}
    Files = {"tests", "data"}
    Versions = {"v1", "v2"}
    Archs = {"xs", "nutshell"}
    None = None
    MaxMakes = 3
    MaxEdits = 2
    MaxMishaps = 1
INVARIANT ProductIsOfWorkload
PROPERTY FailureRepairs
