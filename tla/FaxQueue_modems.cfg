SPECIFICATION Spec
CONSTANTS
  a = a  b = b  c = c  d1 = d1  d2 = d2  m1 = m1  m2 = m2
  Jobs = {a, b}
  Dests = {d1}
  Modems = {m1, m2}
  NoModem = NoModem
  DestOf <- MCDestOf
  Group <- AnyModem
  UsrPri <- MCUsrPri
  Polls = {b}
  PollModems = {m2}
  MaxBatchJobs = 2
  MaxConcurrentCalls = 1
  MaxTries = 1
  JobCtrl = FALSE
  MaxWaits = 1
  MaxUnread = 2
  Env = {"uucp", "getty"}
INVARIANTS LockHeld ConcurrencyLimit
PROPERTIES UsesModems
