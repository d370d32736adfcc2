SPECIFICATION Spec
CONSTANTS
  m1 = m1
  m2 = m2
  m3 = m3
  Match = {m1, m2}
  Trainer = {1, 2}
  Weeks = 2
  WeekOf <- OneMatchAWeek
  MaxClock = 2
INVARIANTS NoFutureData
