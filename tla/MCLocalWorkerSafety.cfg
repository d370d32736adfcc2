SPECIFICATION Spec
CONSTANTS
  w1 = w1
  w2 = w2
  Worker = {w1, w2}
  Nobody = Nobody
  Departed = Departed
  Lease = 2
  FixtureInterval = 3
  FullInterval = 4
  PlayerInterval = 3
  Retry = 2
  TrainingRetry = 2
  TrainingEnabled = TRUE
  MaxLag = 1
  MaxRun = 3
  Weeks = 1
  MaxNews = 1
  MaxStops = 2
SYMMETRY WorkerSymmetry
INVARIANTS TypeOK StatusMatchesLease OwnerRunsOperation
PROPERTIES NoDoubleSync NoTrainingOnOldCutoff LeaseSpec
