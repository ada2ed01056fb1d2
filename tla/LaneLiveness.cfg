SPECIFICATION FairSpec
CONSTANTS
  Token = {t1, t2}
  Pid = {p1, p2}
  NoPid = NoPid
  InteractiveSlots = 0
  NonInteractiveSlots = 1
  Faults = {}
CHECK_DEADLOCK FALSE
INVARIANTS NoGhostRecords
PROPERTIES InteractiveServed NonInteractiveServed
