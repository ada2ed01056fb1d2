SPECIFICATION Spec
CONSTANTS
  Token = {t1, t2, t3}
  Pid = {p1, p2}
  NoPid = NoPid
  InteractiveSlots = 1
  NonInteractiveSlots = 1
  Faults = {"pid_reuse", "write_error"}
SYMMETRY MCSymmetry
INVARIANTS TypeOK CapacityRespected ReservationRespected HoldersStayRecorded
PROPERTIES NoOvertaking
