\* Round robin, full-band demand; the answer to a grant comes two TTIs later.
CONSTANTS
  NofUes = 2
  NofProcesses = 3
  MaxHarqTx = 2
  TotalPrb = 1
  StarveTti = 1
  MinPrb = 1
  MaxSamples = 0
  Rtt = 2
  Algorithms = {"RR"}
  SrDemands = {10}
  BsrDemands = {}
SPECIFICATION FairSpec
PROPERTIES
  RrServes
