\* Two UEs, all algorithms; the answer to a grant comes one TTI later.
CONSTANTS
  NofUes = 2
  NofProcesses = 2
  MaxHarqTx = 2
  TotalPrb = 2
  StarveTti = 1
  MinPrb = 1
  MaxSamples = 0
  Rtt = 1
  Algorithms = {"PF", "RR", "EPF"}
  SrDemands = {15}
  BsrDemands = {15}
SPECIFICATION FairSpec
INVARIANTS
  TypeOK
  PrbsDisjoint
  OneGrantPerUe
  GrantReadAsMeant
  RrBoundedWait
  EpfBoundedWait
  SchedInv
PROPERTIES
  EpfServes
