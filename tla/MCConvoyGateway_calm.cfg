SPECIFICATION Spec
CONSTANTS
  o = o
  a = a
  Member = {o, a}
  Owner = o
  HazardId = {h1, h2}
  Reporter <- MemberReports
  Plan = {p1, p2}
  NoPlan = NoPlan
  Conn = {c1, c2, c3}
  None = None
  Budget <- Undisturbed
CHECK_DEADLOCK FALSE
INVARIANTS
  NoGhosts
  NoReportLost
PROPERTY LeaderPlanUndisturbed
