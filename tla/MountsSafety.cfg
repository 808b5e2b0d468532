CONSTANTS
    i1 = i1
    i2 = i2
    k1 = k1
    k2 = k2
    None = None
    Ids <- MCIds
    RepoOf <- OneRepo
    Repos = {k1, k2}
    Requests = {r1, r2}
    Tasks = {t1, t2}
    Backends = {"nfs", "fskit"}
    WritesFail = TRUE
    MaxRestarts = 1
SPECIFICATION FairSpec
\* Every request may be answered and every mount gone.
CHECK_DEADLOCK FALSE
INVARIANTS
    OnlyLostMountsDangle
    MountsKeepReservations
    ListedMountsServe
PROPERTY EjectedSessionsEnd
