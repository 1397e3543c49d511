SPECIFICATION Spec
CONSTANTS
    None = None
    Names <- MCNames
    Layers = 2
    Faults = {}
    MaxCreates = 2
    MaxFaults = 0
PROPERTIES CollectsMissedOnly
