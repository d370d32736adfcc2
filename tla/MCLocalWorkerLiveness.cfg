SPECIFICATION FairSpec
CONSTANTS
  w1 = w1
  Worker = {w1}
  Nobody = Nobody
  Departed = Departed
  Lease = 2
  FixtureInterval = 6
  FullInterval = 7
  PlayerInterval = 3
  Retry = 6
  TrainingRetry = 2
  TrainingEnabled = TRUE
  MaxLag = 1
  MaxRun = 2
  Weeks = 2
  MaxNews = 1
  MaxStops = 1
PROPERTIES LeaseRecovered PlayerNotStarved FullSyncRecurs TrainingCatchesUp
