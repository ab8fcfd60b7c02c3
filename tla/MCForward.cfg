CONSTANTS
  Request = {r1}
  MaxSize = 2
  Unknown = Unknown
  Absent = Absent
SPECIFICATION FairSpec
INVARIANTS
  CapacityRespected
  StrictHonoured
  MemoryHonest
PROPERTIES
  EveryRequestAnswered
  DrainQuiesces
CHECK_DEADLOCK FALSE
