\* Early termination switched on, with a maximum above its three NACKs.
CONSTANTS
  NofProcesses = 1
  MaxHarqTx = 4
  MaxTb = 2
  Delay = 1
  PrbContention = FALSE
  EarlyTermination = TRUE
SPECIFICATION Spec
INVARIANT
  GrantReadAsMeant
