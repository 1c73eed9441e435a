SPECIFICATION FairSpec
CONSTANTS
  Docs <- MCDocs
  Procs = {"p1", "p2"}
  MaxDials = 3
  MaxTries = 2
  MaxCalls = 6
  MaxMishaps = 3
  Mishaps = {"convert", "fork", "faxq", "faxq_notify", "modem", "modemlock", "setup",
             "vanish", "reformat", "pip", "faxsend", "abort", "late"}
INVARIANTS DoneMeansSent FailedMeansUnsent SentOnce DiskNeverAhead PageHandlingInStep WithinLimits ToldOnce
PROPERTIES JobEnds
CHECK_DEADLOCK FALSE
