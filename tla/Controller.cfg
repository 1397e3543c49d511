SPECIFICATION Spec
CONSTANTS
    None = None
    d1 = d1
    d2 = d2
    Refs = {"tag", "sha"}
    CanonicalRefs = {"sha"}
    Digests = {d1, d2}
    Results <- MCResults
    Specs <- MCSpecs
    Faults = {"registry", "disk", "api", "reply", "crash", "podReplaced"}
    ForegroundDeletion = FALSE
    MaxWrites = 3
    MaxPushes = 1
    MaxFaults = 1
SYMMETRY DigestSymmetry
INVARIANTS TypeOK NoOrphan QuiescentSettled
PROPERTIES GenerationsAdvance SucceededIsStored
CHECK_DEADLOCK FALSE
