SPECIFICATION Spec
CONSTANTS
  Ring = 6
  SeqNos = 12
  Span = 2
  Entries = 2
  Schemes = {"none", "redundancy", "fec"}
  Long = {3, 6, 8, 12, 13}
  MaxSent = 19
  MaxFlight = 2
  MaxLost = 3
  Mishaps = {"reorder", "repeat", "switch", "stop"}
  MaxMishaps = 1
INVARIANTS Exact PlayedOnce RedundancyHeals ReceivedIsPlayed
PROPERTIES InOrder FecRepairs
CHECK_DEADLOCK FALSE
