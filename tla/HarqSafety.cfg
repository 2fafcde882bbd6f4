\* The HARQ loop with the propagation delay of the code.
CONSTANTS
  NofProcesses = 2
  MaxHarqTx = 3
  MaxTb = 3
  Delay = 4
  PrbContention = TRUE
  EarlyTermination = FALSE
SPECIFICATION Spec
INVARIANTS
  TypeOK
  StopAndWait
  SentIsHeld
  GrantReadAsMeant
  FeedbackIsAwaited
  SoftBufferPure
  LoopInv
PROPERTIES
  ImplementsTransfer
