SPECIFICATION Spec
CONSTANTS
    None = None
    d1 = d1
    d2 = d2
    Digests = {d1, d2}
    Second = 2
    Intervals <- MCIntervals
    MaxJitter = 2
    MaxUnpack = 2
    MaxStore = 2
    MaxTime = 14
    MaxEdits = 2
SYMMETRY Images
INVARIANTS TypeOK PolledInIntervals AtRestAsExpected
PROPERTIES NotPolledEarly LastUnpackedByExtraction
CHECK_DEADLOCK FALSE
