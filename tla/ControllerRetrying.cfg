SPECIFICATION Spec
CONSTANTS
    None = None
    d1 = d1
    d2 = d2
    Refs = {"tag", "sha"}
    CanonicalRefs = {"sha"}
    Digests = {d1, d2}
    Results <- MCResults
    Specs <- MCSpecs
    Faults = {"podReplaced", "registry"}
    ForegroundDeletion = FALSE
    MaxWrites = 1
    MaxPushes = 0
    MaxFaults = 2
SYMMETRY DigestSymmetry
PROPERTIES RetryingStillServed
CHECK_DEADLOCK FALSE
