SPECIFICATION FairSpec
CONSTANTS
  m1 = m1
  m2 = m2
  m3 = m3
  Match = {m1, m2, m3}
  Trainer = {1}
  Weeks = 2
  WeekOf <- TwoMatchesFirst
  MaxClock = 2
INVARIANTS TypeOK NoFutureData InstallationNamesActive VoidedForgotten
PROPERTIES CatalogSpec TrainingConverges
