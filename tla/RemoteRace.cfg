CONSTANTS
  w1 = w1
  w2 = w2
  Job = {1}
  Worker = {w1, w2}
  NoWorker = NoWorker
  MaxAttempts = 2
  Concurrency = 1
  LeaseTicks = 2
  StaleTicks = 1
  Balance = FALSE
  WindowTicks = 0
  FreshTicks = 0
  Capable <- AllCapable
  Faults = {"crash", "lost_reply", "refuse", "disable"}
SPECIFICATION Spec
SYMMETRY MCSymmetry
INVARIANTS TypeOK WinnerObjectsIntact UploadKept FailedForAReason LeaseFollowsNewestBeat
PROPERTIES SettledStays LiveLeaseKept ImplementsLifecycle
