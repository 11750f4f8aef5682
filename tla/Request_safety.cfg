CONSTANTS
  Letters <- OtherText
  Scripts <- SafetyScripts
  User = {1, 2, 3, 4, 5}
  Limit = 2
  IntMax = 7
SPECIFICATION RequestSpec
INVARIANTS
  ParamsArrive
  NothingInherited
  NoUnexpectedCode
  PagesJoin
CHECK_DEADLOCK FALSE
