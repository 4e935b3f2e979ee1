CONSTANTS
    Configs <- MCConfigs
    Edited <- MCEdited
    MaxMakes = 3
    MaxMishaps = 1
SPECIFICATION Spec
INVARIANTS
    FirmwareIsCurrent
    SecondMakeIsIdle
PROPERTY PlatformsShareRootfs
