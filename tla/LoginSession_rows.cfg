CONSTANTS
  Caller = {c1, c2}
  Name = {n1}
  Pass = {p1}
  User = {u1}
  LToken = {l1, l2}
  None = None
  Form = {"good", "empty", "length", "chars", "device"}
  kMaxRetries = 1
  UniqueNames = TRUE
SPECIFICATION Spec
INVARIANTS
  OneRowPerLogin
CHECK_DEADLOCK FALSE
