SPECIFICATION FairSpec
CONSTANTS
  NResults = 2
  MaxCrashes = 1
  MaxReloads = 1
  MaxFails = 1
  LinkFails = TRUE
INVARIANTS
  NoLoss
  ProcessedOnce
  ActiveComplete
PROPERTIES
  ImplementsMailbox
  ReceivedProcessed
