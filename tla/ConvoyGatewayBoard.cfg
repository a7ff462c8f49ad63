SPECIFICATION Spec
CONSTANTS
  o = o
  a = a
  Member = {o, a}
  Owner = o
  HazardId = {ha}
  Reporter <- MemberReports
  Plan = {p1}
  NoPlan = NoPlan
  Conn = {c1, c2, c3}
  None = None
  Budget <- Restarts
CHECK_DEADLOCK FALSE
SYMMETRY ConnSymmetry
INVARIANTS
  EndsAgree
  PeersLearnHazards
  PeersLearnPlan
PROPERTY ImplementsBoard
