SPECIFICATION FairSpec
CONSTANTS
  t1 = t1  t2 = t2  c1 = c1  c2 = c2  e1 = e1  e2 = e2  e3 = e3
  Threads = {t1, t2}
  Channels = {c1, c2}
  Users <- MCUsers
  Framed = {c1}
  Flagged = {c1}
  Ents = {e1, e2, e3}
  None = None
  MaxUse = 1
  MaxFrames = 1
  MaxAutomons = 2
  Faults = {"calloc", "thread", "spurious"}
INVARIANTS NoStaleReference UsesBalanced FramesKept FlagKept
PROPERTIES StopReturns
