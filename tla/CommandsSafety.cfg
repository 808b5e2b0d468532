CONSTANTS
    s1 = s1
    s2 = s2
    p1 = p1
    p2 = p2
    l1 = l1
    Clients = {c1, c2}
    Sources = {s1, s2}
    Points = {p1, p2}
    Links = {l1}
    Pairs <- MCPairs
    None = None
    MaxCommands = 3
    MaxFaults = 1
    Mounts = {m1, m2}
    Specs <- MCSpecs
    GitHeads = {2}
    Nothing = Nothing
    TTL = 1
    MaxVersion = 2
    MaxTime = 2
    MaxEvents = 3
    MaxCalls = 2
SPECIFICATION CommandsSpec
SYMMETRY CommandsSymmetry
INVARIANTS TypeOK OrphansAreTold RequestsTypeOK CallsAreCounted ResolvesAreShown VersionsAreRight
PROPERTIES UserFilesSurvive
CHECK_DEADLOCK FALSE
