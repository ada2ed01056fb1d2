\* One component of the control plane at a time, see MCJobs.
SPECIFICATION Spec
CONSTANTS
  Nothing = Nothing
  Absent = Absent  Null = Null  NegZero = NegZero
INVARIANTS RowsTellTheTruth ObjectsFindable OneAnswerPerRequest RepetitionIsFound
INVARIANTS LeasesWithinCapacity
PROPERTIES LocalJobsSettleOnce UploadsServeTheirJobs
CHECK_DEADLOCK FALSE
