SPECIFICATION Spec
CONSTANTS
  Token = {t1, t2}
  Pid = {p1, p2}
  NoPid = NoPid
  InteractiveSlots = 1
  NonInteractiveSlots = 1
  Faults = {"orphan_child"}
SYMMETRY MCSymmetry
CHECK_DEADLOCK FALSE
INVARIANTS InferencesCapped
