CONSTANTS
    Daemons = {d1, d2, d3}
    Volumes = {v1}
    None = None
    MaxFaults = 1
    Reusable = {d1}
\* Every daemon may have ended.
CHECK_DEADLOCK FALSE
SPECIFICATION FairSpec
INVARIANTS
    ServingOwnsFiles
    StoppedLeavesNothing
PROPERTY StopsEnd
