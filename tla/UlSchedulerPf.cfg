\* Three UEs under PF: the processes of two of them fill every TTI.
CONSTANTS
  NofUes = 3
  NofProcesses = 1
  MaxHarqTx = 1
  TotalPrb = 2
  StarveTti = 1
  MinPrb = 1
  MaxSamples = 1
  Rtt = 1
  Algorithms = {"PF"}
  SrDemands = {10, 20}
  BsrDemands = {}
SPECIFICATION FairSpec
PROPERTIES
  PfServes
