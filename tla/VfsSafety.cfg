CONSTANTS
    Tasks = {t1, t2}
    Names = {"d", "f", "g", "u"}
    Digests = {"top", "sub"}
    Blobs = {"long", "short", "odd"}
    Content <- SmallTree
    Data <- SmallData
    SizeOf <- SmallSizes
    Inlined = {"short"}
    RootDigest = "top"
    PageSize = 1
    ReadSize = 2
    Faults = TRUE
    MaxCalls = 3
\* Every call may have been made.
CHECK_DEADLOCK FALSE
SPECIFICATION FairSpec
INVARIANTS
    TypeOK
    ItemsMeanOneEntry
    ListingIsComplete
    
PROPERTY EveryCallEnds
