CONSTANTS
  Owner = {o1, o2}
  NoLease = NoLease
  TTL = 3
  MinRoom = 2
  MaxWait = 5
  MaxEpoch = 3
  Slots = 2
  Conn = {c1, c2, c3}
  MaxJobs = 1
  Limit = 2
  Reserve = 1
  Workers = 1
  MemoryLimit = 3
  MaxBody = 2
  TransformLimit = 1
  Emitter = {e1, e2}
  PendingLimit = 2
  FlushLimit = 1
  MaxEvents = 3
  MaxTrouble = 2
  Inference = {i1, i2}
  MaxFailures = 2
  Key = {a, b, c}
  MaxKeys = 2
  MinSamples = 2
  MinEstimate = 1000
  LowSample = 250
  HighSample = 4000
  MinRatio = 1000
  MaxRatio = 2000
  Weight = 8
  Estimate <- MCEstimate
  Reported <- MCReported
  MaxSamples = 3
SPECIFICATION ProcessSpec
INVARIANTS
  StalledWorkIsBounded
  NothingVanishes
PROPERTIES
  GateRefined
  WaitEnds
  WorkEnds
  EverythingSettles
  AssertionFollows
  NeverOvershoots
CHECK_DEADLOCK FALSE
