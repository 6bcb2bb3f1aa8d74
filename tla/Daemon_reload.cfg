CONSTANTS
  Pids = {p1}
  Null = Null
  Empty = Empty
  MaxStarts = 2
  MaxCommands = 3
  MaxVersion = 1
  MaxRunning = 1
  MaxZombies = 2
SPECIFICATION Spec
PROPERTIES
  ReloadApplied
  ZombiesReaped
CHECK_DEADLOCK FALSE
