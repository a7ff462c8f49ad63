SPECIFICATION Spec
CONSTANTS
  Person = {p1}
  Convoy = {c1}
  Req = {r1, r2, r3}
  None = None
  Overlap = FALSE
  Past = {"none"}
  Spent = 0
INVARIANT StaysErased
