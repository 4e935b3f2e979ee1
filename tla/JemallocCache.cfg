CONSTANTS
    Build = {b1, b2, b3}
    Key = {k1, k2}
    NoKey = NoKey
    MaxMakes = 3
    MaxSignals = 2
SPECIFICATION FairSpec
INVARIANTS
    TypeOK
    OneHolder
    LinkedWhole
PROPERTIES
    InstalledOnce
    EveryBuildEnds
