CONSTANTS
  p1 = p1
  p2 = p2
  short = short
  long = long
  c1 = c1
  c2 = c2
  stream = stream
  tA = tA
  tB = tB
  all = all
  one = one
  claude = claude
  Processes = {p1, p2}
  Docs = {short, long}
  Chunks = {c1, c2}
  ChunksOf <- MCChunksOf
  Streams = {stream}
  Keep = 1
  MaxRows = 2
  MaxCrashes = 1
  MaxOutages = 1
  MaxMishaps = 2
  Process = {p1, p2}
  Target = {tA, tB}
  Codex = {tA}
  Admitted = {tA, tB}
  MaxTargets = 2
  MaxOps = 2
  MaxFaults = 2
  MaxCuts = 1
  Nobody = Nobody
  Lane = {all, one}
  Watched = {claude}
  Claude = {claude}
  ByCodex = {}
  Legacy = {claude}
  OldLane = one
  Configs = 2
  MaxWrites = 1
  MaxStops = 1
  None = None
  Commands = {p1, p2}
  Copies = {tA, tB}
  Paths = {claude}
  PathOf <- MCPathOf
  Absent = Absent
  Theirs = Theirs
  MaxLapses = 1
  MaxLosses = 1
  MaxEdits = 0
  Parts = {"copies"}
SYMMETRY Symmetry
SPECIFICATION OperationsSpec
INVARIANT
  OutputHasIntent
CHECK_DEADLOCK FALSE
