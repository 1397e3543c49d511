SPECIFICATION Spec
CONSTANTS
    None = None
    d1 = d1
    d2 = d2
    Refs = {"tag", "sha"}
    CanonicalRefs = {"sha"}
    Digests = {d1, d2}
    Results <- MCResults
    Specs <- MCSpecs
    Faults = {}
    ForegroundDeletion = TRUE
    MaxWrites = 2
    MaxPushes = 0
    MaxFaults = 0
SYMMETRY DigestSymmetry
PROPERTIES NothingAfterFinalizerRemoved
CHECK_DEADLOCK FALSE
