SPECIFICATION FairSpec
CONSTANTS
    Calls = {c1, c2}
    Conns = {k1, k2}
    Sessions = {s1, s2}
    Tokens = {t1}
    None = None
    MaxFaults = 1
INVARIANTS
    TypeOK
    AnswersAreOwn
    DownFailsOnlyItsOwn
    NoRefusals
PROPERTIES
    EveryCallReturns
\* Every call may have returned and every session ended.
CHECK_DEADLOCK FALSE
