SPECIFICATION Spec
CONSTANTS
  o = o
  a = a
  Member = {o, a}
  Owner = o
  HazardId = {h1}
  Reporter <- OwnerReports
  Plan = {p1}
  NoPlan = NoPlan
  Conn = {c1, c2, c3}
  None = None
  Budget <- TwoEditsOneRebuild
CHECK_DEADLOCK FALSE
INVARIANT NoReportLost
