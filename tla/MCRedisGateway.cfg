SPECIFICATION Spec
CONSTANTS
  a = a
  b = b
  p1 = p1
  a1 = a1
  b1 = b1
  h = h
  i1 = i1
  i2 = i2
  Instance = {i1, i2}
  Conn = {a1, b1}
  Who <- MCWho
  Hazard = {h}
  Tour = Tour
  Author <- MCAuthor
  Plan = {p1}
  Pin = Pin
  None = None
  MaxFrames = 2
  MaxFaults = 1
SYMMETRY InstanceSymmetry
CHECK_DEADLOCK FALSE
INVARIANTS
  TypeOK
  LiveOrder
  SubscriptionFollows
  SnapshotIsLatest
  JoinersAgree
  JoinersSettle
PROPERTIES
  ReporterRemoves
