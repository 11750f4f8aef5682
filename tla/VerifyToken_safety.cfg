CONSTANTS
  Issuer = {i1, i2}
  Redeemer = {r1, r2}
  User = {u1, u2}
  UToken = {a1, a2}
  VToken = {v1, v2}
  None = None
SPECIFICATION Spec
SYMMETRY Symmetry
INVARIANTS
  RedeemedAtMostOnce
  RedeemerToldOwner
  SpentMeansWon
PROPERTIES
  ImplementsOneTimeToken
CHECK_DEADLOCK FALSE
