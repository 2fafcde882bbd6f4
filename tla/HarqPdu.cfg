\* The PDU a retransmission carries: expected to be violated.
CONSTANTS
  NofProcesses = 2
  MaxHarqTx = 2
  MaxTb = 2
  Delay = 4
  PrbContention = FALSE
  EarlyTermination = FALSE
SPECIFICATION Spec
INVARIANTS
  PduOfTb
