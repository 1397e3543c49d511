SPECIFICATION FairSpec
CONSTANTS
    None = None
    d1 = d1
    d2 = d2
    Refs = {"tag", "sha"}
    CanonicalRefs = {"sha"}
    Digests = {d1}
    Results <- MCResults
    Specs <- MCSpecs
    Faults = {"registry", "disk", "api", "reply", "crash", "podReplaced"}
    ForegroundDeletion = TRUE
    MaxWrites = 2
    MaxPushes = 0
    MaxFaults = 1
PROPERTIES Converges DeletionCompletes
CHECK_DEADLOCK FALSE
