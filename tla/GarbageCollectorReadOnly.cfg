SPECIFICATION FairSpec
CONSTANTS
    None = None
    Names <- MCNames
    Layers = 2
    Faults = {"orphan"}
    MaxCreates = 1
    MaxFaults = 1
PROPERTIES NoStaleEntries
