SPECIFICATION Spec
CONSTANTS
    d1 = d1
    d2 = d2
    d3 = d3
    Tag = Tag
    Malformed = Malformed
    None = None
    Digests <- MCDigests
    Labelled <- MCLabelled
    Layers = 2
    Faults = {}
    MaxPushes = 1
    MaxFaults = 0
INVARIANTS ResolvedIsExact
