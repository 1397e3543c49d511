SPECIFICATION ServingSpec
CONSTANTS
    two = two
    empty = empty
    None = None
    Catalogs = {two, empty}
    Size <- MCSize
    Readers = {r1, r2}
    Faults = {"disk", "remove", "crash"}
    MaxFiles = 3
    MaxFaults = 2
    Requests = {r1, r2}
    WriteTimeout = 4
    ShutdownTimeout = 3
    GracePeriod = 3
    PodGracePeriod = 1
    ServerFaults = {"serve"}
INVARIANTS TypeOK ServedIsWhole TempsRemoved ServerTypeOK DownloadsFinish
PROPERTIES AtomicView StartEnds
