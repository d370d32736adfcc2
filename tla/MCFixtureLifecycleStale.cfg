SPECIFICATION Spec
CONSTANTS
  d1 = d1
  d2 = d2
  c1 = c1
  c2 = c2
  c3 = c3
  Device = {d1}
  Client = {c1}
  DeviceOf <- DeviceOfClient
  Ingestor = {1, 2}
  Kickoff = {1, 3}
  s1 = s1
  s2 = s2
  Score = {s1}
  Before = 1
  After = 1
  MaxTime = 3
  MaxRevision = 4
  MaxResult = 2
INVARIANTS WindowFollowsKickoff
