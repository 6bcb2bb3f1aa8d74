SPECIFICATION Spec
CONSTANTS
  Confs <- AllConfs
  Localtime <- MCLocaltime
  MaxBoot = 3
  MaxTime = 11
  MaxLate = 1
  MaxReloads = 2
INVARIANTS
  TypeOK
  NoTriggerDropped
  StaysArmed
PROPERTIES
  StartupOnce
  PeriodicOnGrid
  QuietAfterEnd
  CalendarEverySecond
  ImplementsSource
CHECK_DEADLOCK FALSE
