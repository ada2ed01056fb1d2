SPECIFICATION Spec
CONSTANTS
  Token = {t1, t2}
  Pid = {p1}
  NoPid = NoPid
  InteractiveSlots = 1
  NonInteractiveSlots = 1
  Faults = {"read_error"}
SYMMETRY MCSymmetry
CHECK_DEADLOCK FALSE
INVARIANTS HoldersStayRecorded
