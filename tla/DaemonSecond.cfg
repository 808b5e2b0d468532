CONSTANTS
    Daemons = {d1, d2}
    Volumes = {v1}
    None = None
    MaxFaults = 0
    Reusable = {}
\* Every daemon may have ended.
CHECK_DEADLOCK FALSE
SPECIFICATION Spec
INVARIANT RunningKeepsVolumes
