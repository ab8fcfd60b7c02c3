CONSTANTS
  MaxRuns = 3
  MaxProcs = 3
  NoOp = NoOp
  NoMsg = NoMsg
  NoLease = NoLease
  TTL = 2
  MinRoom = 1
  MaxWait = 2
  MaxEpoch = 2
  Slots = 2
  u1 = u1
  u2 = u2
  Upgrade = {u1, u2}
  MaxFaults = 2
  MaxKills = 1
  MaxUpdates = 1
  Nobody = Nobody
  k1 = k1
  k2 = k2
  r1 = r1
  r2 = r2
  r3 = r3
  same = same
  Call = {k1, k2}
  Source = {r1, r2, r3}
  Digest = {same}
  DigestOf <- MCDigestOf
  Base = 1
  Window = {0, 3}
  Standing = {0, 2}
  Asked = {3}
  Requests = 2
  Lifetime = 1
  Rereads = 2
  RescueSize = 1
  RescueTime = 1
  Recently = 2
  QueueLimit = 1
  MaxTime = 2
  MaxSetBacks = 1
  MaxGeneration = 2
  NoScope = NoScope
  Byte = {"n", "r", "e", "t", "f"}
  BufferLimit = 4
  MaxBytes = 10
  own = own
  ours = ours
  theirs = theirs
  Port = {ours, theirs}
  DefaultPort = ours
  Upstream = {openai, own}
  Provider = openai
  Elsewhere = Elsewhere
  None = None
  MaxLapses = 2
  MaxEdits = 1
  Client = {x1, x2}
  Live <- MCLive
  Log <- MCLog
  Transcript <- MCTranscript
  Shown = {"proxy", "log"}
  PageLimit = 1
  OpenAttempts = 3
  NoSpace = NoSpace
  MaxBusy = 1
  MaxLoss = 1
  MaxBatch = 2
  MaxReport = 1
SYMMETRY Symmetry
SPECIFICATION ServiceSpec
INVARIANTS
  StopsAreHarmless
  NeverStranded
  AllowanceRespected
  OutcomeIsTrue
  RemovedUrlIsSaved
  ObservationsAreSound
PROPERTIES
  NoStartOnMixture
  VerdictIsTrue
  RescueIsSound
  SwitchKeepsRoutes
CHECK_DEADLOCK FALSE
