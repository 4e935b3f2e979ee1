SPECIFICATION X264Spec
CONSTANTS
    Cases = {"rate", "speed", "train"}
    Workload <- MCWorkload
    Isos <- MCIsos
    None = None
    MaxRuns = 4
    MaxIsos = 2
    MaxMishaps = 1
PROPERTY PackagedVideoRight
PROPERTY LeftoversHarmless
