\* One process, limits of one to three transmissions, two sizes of TB.
CONSTANTS
  NofProcesses = 1
  MaxTxs = {1, 2, 3}
  Tbs = {1, 2}
  MaxSent = 5
SPECIFICATION Spec
INVARIANTS
  TypeOK
  PendingIffOpen
  RvContinues
  ManagerInv
PROPERTIES
  DiscardJustified
