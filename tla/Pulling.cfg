SPECIFICATION PullingSpec
CONSTANTS
    d1 = d1
    d2 = d2
    d3 = d3
    Tag = Tag
    Malformed = Malformed
    None = None
    Digests <- MCDigests
    Labelled <- MCLabelled
    Layers = 2
    Faults = {"pull", "disk", "delete", "crash"}
    MaxPushes = 2
    MaxFaults = 2
    v1 = v1
    v2 = v2
    Versions = {v1, v2}
    Absent = Absent
    NoKey = NoKey
    Nothing = Nothing
    Torn = Torn
    SyncFaults = {"get", "disk", "manager"}
    MaxEdits = 3
    MaxSyncFaults = 2
    a = a
    dotted = dotted
    Files = {a, dotted}
    Dotted = {dotted}
    Up = Up
    Dot = Dot
    Empty = Empty
    MaxSrc = 3
    MaxName = 3
INVARIANTS TypeOK OnlyLeftoversIncomplete OnlyMovedTagsMixUp OneImageKept
INVARIANTS SecretTypeOK FileFollowsSecret NoCredentialsLeft KeepsSubtree
PROPERTIES OldKeptUntilNew PullsSucceed
