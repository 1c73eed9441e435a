SPECIFICATION Spec
CONSTANTS
  a = a  b = b  c = c  d1 = d1  d2 = d2  m1 = m1  m2 = m2
  Jobs = {a, b}
  Dests = {d1}
  Modems = {m1}
  NoModem = NoModem
  DestOf <- MCDestOf
  Group <- AnyModem
  UsrPri <- MCUsrPri
  Polls = {}
  PollModems = {}
  MaxBatchJobs = 2
  MaxConcurrentCalls = 1
  MaxTries = 2
  JobCtrl = FALSE
  MaxWaits = 1
  MaxUnread = 2
  Env = {"pending", "reject", "delay", "crash", "cover", "killtime"}
INVARIANTS PriorityBucket NoJobForgotten OneJobHoldsPid NoFault
