SPECIFICATION Spec
CONSTANTS
  Confs <- OneShotConfs
  Localtime <- MCLocaltime
  MaxBoot = 3
  MaxTime = 11
  MaxLate = 0
  MaxReloads = 1
INVARIANTS
  OneOffPending
CHECK_DEADLOCK FALSE
