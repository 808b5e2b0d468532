CONSTANTS
    Callers = {c1, c2, c3}
    Paths = {"a", "b", "d", "l"}
    Blobs = {"A", "B", "D", "L", "X"}
    Tree <- SmallTree
    Archive <- SmallArchive
    None = "none"
    MaxEvictions = 1
    MaxCancels = 1
\* Every mount may be done.
CHECK_DEADLOCK FALSE
SPECIFICATION FairSpec
INVARIANTS
    OneFetcher
    UndroppedMountsFetch
    OkMeansCached
PROPERTY EveryCallerReturns
