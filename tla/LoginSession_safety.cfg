CONSTANTS
  Caller = {c1, c2, c3}
  Name = {n1, n2}
  Pass = {p1, p2}
  User = {u1, u2}
  LToken = {l1, l2}
  None = None
  Form = {"good", "empty", "length", "chars", "device"}
  kMaxRetries = 1
  UniqueNames = TRUE
SPECIFICATION Spec
SYMMETRY Symmetry
INVARIANTS
  SuccessStored
  Authentic
  RowsBounded
  TokenOneOwner
CHECK_DEADLOCK FALSE
