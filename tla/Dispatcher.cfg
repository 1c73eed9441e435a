SPECIFICATION DFairSpec
CONSTANTS
  Delays = {0, 1}
  MaxTimers = 2
  Pids = {"k1", "k2"}
  MaxDepth = 2
INVARIANTS NoStatusForgotten DeafForASecond
PROPERTIES ChildNoticed RunsSchedTimeout
