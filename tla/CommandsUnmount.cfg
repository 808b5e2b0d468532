CONSTANTS
    s1 = s1
    s2 = s2
    p1 = p1
    p2 = p2
    l1 = l1
    Clients = {c1, c2}
    Sources = {s1, s2}
    Points = {p1, p2}
    Links = {l1}
    Pairs <- MCPairs
    None = None
    MaxCommands = 2
    MaxFaults = 0
    Mounts = {m1, m2}
    Specs <- MCSpecs
    GitHeads = {2}
    Nothing = Nothing
    TTL = 1
    MaxVersion = 2
    MaxTime = 2
    MaxEvents = 0
    MaxCalls = 2
SPECIFICATION CommandsSpec
PROPERTIES UnmountsAreWhole
CHECK_DEADLOCK FALSE
