SPECIFICATION Spec
CONSTANTS
  Null = Null
  Broken = Broken
  f1 = f1
  f2 = f2
  f3 = f3
  Paths <- MCPaths
  Configs <- MCConfigs
INVARIANTS
  UniqueNames
  OrderIrrelevant
CHECK_DEADLOCK FALSE
