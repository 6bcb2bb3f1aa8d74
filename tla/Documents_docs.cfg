SPECIFICATION Spec
CONSTANTS
  Kinds = {"agent", "capability", "registry", "option", "supp", "event", "task", "cap_task", "schedule", "action", "result"}
  MaxFields = 2
INVARIANTS
  FormatsAgree
  JsonRoundTrip
  XmlRoundTrip
  ConfigSetsNoState
  ObjectsWellFormed
CHECK_DEADLOCK FALSE
