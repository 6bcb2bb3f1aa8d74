CONSTANTS
  Pids = {p1, p2}
  Null = Null
  Empty = Empty
  MaxStarts = 3
  MaxCommands = 2
  MaxVersion = 1
  MaxRunning = 0
  MaxZombies = 1
SPECIFICATION Spec
INVARIANTS
  TypeOK
  ServingIsNamed
  StatusAnswered
PROPERTIES
  RemovedByOwner
CHECK_DEADLOCK FALSE
