SPECIFICATION CacheSpec
CONSTANTS
    Blobs = {b1, b2, b3}
    Repos = {r1, r2}
    Sizes = {1, 2}
    Limits = {2, 4}
    AnyLimit = 2
    Budgets = {2}
    Seeds = {{}, {b1, b2, b3}}
    Threads = {t1}
    None = None
    MaxRefcount = 2
    git = git
    dir = dir
    Digests = {git, dir}
    Algo <- MCAlgo
    Writers = {w1, w2}
    Readers = {g1}
    Puts = {git, dir}
    Commits = {git}
    Nothing = Nothing
    MaxCrashes = 1
SYMMETRY CacheSymmetry
INVARIANTS
    TotalIsExact
    DefaultsFitPool
    NoUncountedFiles
PROPERTIES
    BudgetKeepsBlobs
    OverflowOnlyWhenAllProtected
    LoopAdvances
    ReadsAreWhole
