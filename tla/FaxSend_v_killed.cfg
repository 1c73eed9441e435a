SPECIFICATION Spec
CONSTANTS
  Docs <- MCDocs
  Procs = {"p1", "p2"}
  MaxDials = 3
  MaxTries = 2
  MaxCalls = 6
  MaxMishaps = 2
  Mishaps = {"faxsend"}
INVARIANTS KilledSetsNoStatus
CHECK_DEADLOCK FALSE
