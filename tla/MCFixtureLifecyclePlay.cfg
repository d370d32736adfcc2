SPECIFICATION Spec
CONSTANTS
  d1 = d1
  d2 = d2
  c1 = c1
  c2 = c2
  c3 = c3
  Device = {d1}
  Client = {c1, c2}
  DeviceOf <- DeviceOfClient
  Ingestor = {1}
  Kickoff = {1, 2}
  s1 = s1
  s2 = s2
  Score = {}
  Before = 1
  After = 1
  MaxTime = 3
  MaxRevision = 3
  MaxResult = 0
INVARIANTS RevisionMatchesFixture CountedPlayInWindow
PROPERTIES LedgerSpec
SYMMETRY Clients
