CONSTANTS
  Caller = {c1, c2}
  Getter = {g1, g2}
  Reader = {}
  Issuer = {i1}
  Redeemer = {r1}
  Name = {n1, n2}
  Pass = {p1}
  User = {u1, u2}
  LToken = {l1, l2}
  Quoted = {q1}
  UToken = {a1, a2}
  VToken = {v1}
  None = None
  Form = {"good"}
  kMaxRetries = 1
  MaxFaults = 1
  UniqueNames = TRUE
SPECIFICATION Spec
SYMMETRY Symmetry
CONSTRAINT Bounded
INVARIANTS
  IdentityProven
PROPERTIES
  ImplementsUserToken
  ImplementsVerifyToken
CHECK_DEADLOCK FALSE
