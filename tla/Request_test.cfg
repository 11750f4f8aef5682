CONSTANTS
  Letters <- OtherText
  Scripts <- TestScripts
  User = {1}
  Limit = 2
  IntMax = 7
SPECIFICATION RequestSpec
INVARIANTS
  LoginTestUnderstood
CHECK_DEADLOCK FALSE
