SPECIFICATION Spec
SYMMETRY PidSymmetry
CONSTANTS
  s1 = s1  s2 = s2  s3 = s3  a1 = a1  a2 = a2  b1 = b1  b2 = b2
  e1 = e1  e2 = e2  eU = eU  eV = eV  p1 = p1  p2 = p2  p3 = p3
  NoAction = NoAction  NoEvent = NoEvent  NoPid = NoPid
  Schedule = {s1, s2}
  Action = {a1, a2, b1}
  Event = {e1, e2, eU, eV}
  Pid = {p1, p2, p3}
  NSupp = 2
  SchedOf <- ChainSchedOf
  FirstAct <- ChainFirstAct
  NextAct <- ChainNextAct
  Mode <- ChainMode
  Start <- ChainStart
  End <- ChainEnd
  EvType <- ChainEvType
  Dest <- ChainDest
  Runnable = {a1, a2, b1}
  SuppStart <- ChainSuppStart
  SuppEnd <- ChainSuppEnd
  SuppMatch <- ChainSuppMatch
  StopRunning <- ChainStop
  SchedTags <- ChainSchedTags
  ActTags <- ChainActTags
  Fnmatch <- MCFnmatch
  ForkFails = TRUE
  OperatorCleans = FALSE
  MaxReloads = 0
INVARIANTS
  TypeOK
  SuppressionCount
  SuppressedWhileActive
  RunningHasChild
  SequentialOneChild
  DeferredPending
PROPERTIES
  NoStartWhileSuppressed
