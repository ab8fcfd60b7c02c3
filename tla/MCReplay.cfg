CONSTANTS
  w1 = w1
  w2 = w2
  Workers = {w1, w2}
  Setups <- MCSetups
  Fixed = 4
  ResultMax = 8
  ThoughtMax = 4
  CarryMax = 20
  Shell = 4
  Slack = 2
  Joint = 1
  MaxEntries = 2
  Parts = {"replay", "install", "files"}
  Config = {f, g}
  None = None
  Foreign = Foreign
  Manager = {"launchd", "systemd"}
  MaxFaults = 3
  Records <- MCRecords
  Policies <- MCPolicies
  Yields <- MCYields
  Claude = TRUE
  KeepTail = 2
  KeepPerTool = 2
  Reserve = 2
  PartTokens = 2
  StubTokens = 1
  CardTokens = 1
  MaxListed = 2
  MaxEdits = 64
  MinTrigger = 8
  MinFloor = 2
  MaxTokens = 1000
  MaxRecords = 4
  MaxCuts = 2
  Nil = Nil
SPECIFICATION ReplaySpec
INVARIANTS
  ListIsSound
  RecordIsTrue
  RepeatedCutIsOneCut
  PlansAreSound
PROPERTIES
  SameAsFresh
  RetryIsShorter
  ForeignIsLeft
  LaunchdRepairConverges
CHECK_DEADLOCK FALSE
