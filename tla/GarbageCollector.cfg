SPECIFICATION FairSpec
CONSTANTS
    None = None
    Names <- MCNames
    Layers = 2
    Faults = {"list", "readDir", "orphan", "layer", "cleanup", "write"}
    MaxCreates = 3
    MaxFaults = 2
INVARIANTS TypeOK ServedComplete
PROPERTIES StaleCollected
