SPECIFICATION Spec
CONSTANTS
  d1 = d1
  d2 = d2
  c1 = c1
  c2 = c2
  c3 = c3
  Device = {d1}
  Client = {}
  DeviceOf <- DeviceOfClient
  Ingestor = {1}
  Kickoff = {1, 2}
  s1 = s1
  s2 = s2
  Score = {s1, s2}
  Before = 1
  After = 1
  MaxTime = 0
  MaxRevision = 4
  MaxResult = 4
INVARIANTS TypeOK AcceptedIsNewest
SYMMETRY Scores
