SPECIFICATION Spec
CONSTANTS
  m1 = m1
  m2 = m2
  r1 = r1
  r2 = r2
  c1 = c1
  c2 = c2
  root = root
  src = src
  main = main
  big = big
  link = link
  vendored = vendored
  None = None
  Stale = Stale
  Machines = {m1, m2}
  Redis = {m1, m2}
  Requests = {r1, r2}
  Commits = {c1, c2}
  Tree <- TreeDef
  Trees = {src}
  Files = {main, big}
  Links = {link}
  Submodules = {vendored}
  Root = root
  In <- InDef
  Below <- BelowDef
  Size <- SizeDef
  SmallBlobThreshold = 4
  ThresholdCount = 2
  MaxBytes = 5
  OldCommits = {c1}
  MaxEvents = 0
INVARIANT MountsAreReadable
SYMMETRY Symmetry
CHECK_DEADLOCK FALSE
