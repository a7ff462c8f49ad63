SPECIFICATION Spec
CONSTANTS
  Person = {p1, p2}
  Convoy = {c1, c2}
  Req = {r1, r2, r3, r4}
  None = None
  Overlap = FALSE
  Past = {"none", "crossed"}
  Spent = 1
SYMMETRY Symmetry
INVARIANTS
  TypeOK
  OwnerLeads
  DeletedForGood
  OneEntryEach
  ErrorsExplained
PROPERTY JoinerListed
