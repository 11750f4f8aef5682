CONSTANTS
  Getter = {g1, g2}
  Reader = {w1}
  User = {u1, u2}
  LToken = {l1}
  Quoted = {q1}
  UToken = {a1, a2}
  None = None
  kMaxRetries = 1
  LoginExpire = 0
  MaxTime = 1
SPECIFICATION Spec
SYMMETRY Symmetry
CONSTRAINT Bounded
INVARIANTS
  TokensDistinct
  TokensAuthentic
  GetterStored
CHECK_DEADLOCK FALSE
