\* The UE alone in the cell: every TB is settled and every process freed.
CONSTANTS
  NofProcesses = 2
  MaxHarqTx = 2
  MaxTb = 3
  Delay = 4
  PrbContention = FALSE
  EarlyTermination = FALSE
SPECIFICATION FairSpec
PROPERTIES
  EveryTbSettled
  EveryPidFreed
  ImplementsFairTransfer
