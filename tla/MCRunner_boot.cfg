SPECIFICATION Spec
SYMMETRY PidSymmetry
CONSTANTS
  s1 = s1  s2 = s2  s3 = s3  a1 = a1  a2 = a2  b1 = b1  b2 = b2
  e1 = e1  e2 = e2  eU = eU  eV = eV  p1 = p1  p2 = p2  p3 = p3
  NoAction = NoAction  NoEvent = NoEvent  NoPid = NoPid
  Schedule = {s1, s2, s3}
  Action = {a1, a2, b1, b2}
  Event = {e1, e2, eU, eV}
  Pid = {p1, p2}
  NSupp = 1
  SchedOf <- BootSchedOf
  FirstAct <- BootFirstAct
  NextAct <- BootNextAct
  Mode <- BootMode
  Start <- BootStart
  End <- BootEnd
  EvType <- BootEvType
  Dest <- BootDest
  Runnable = {a1, a2, b1, b2}
  SuppStart <- BootSuppStart
  SuppEnd <- BootSuppEnd
  SuppMatch <- BootSuppMatch
  StopRunning <- BootStop
  SchedTags <- BootSchedTags
  ActTags <- BootActTags
  Fnmatch <- MCFnmatch
  ForkFails = TRUE
  OperatorCleans = TRUE
  MaxReloads = 1
INVARIANTS
  PidsOwned
PROPERTIES
  InputStable
