SPECIFICATION Spec
CONSTANTS
  Runs <- MCRuns
INVARIANTS
  MetaReadBack
  TableReadBack
CHECK_DEADLOCK FALSE
