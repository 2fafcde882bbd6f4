\* Two packets whose size is not a level of the table of the BSR.
CONSTANTS
  NofChannels = 2
  NofLcgs = 2
  LcgOf <- OneInEach
  Pbr <- NoRate
  BucketSize <- NoRate
  NofProcesses = 2
  MaxHarqTx = 2
  Delay = 1
  SrEnabled = TRUE
  DsrTransMax = 3
  SrPeriod = 4
  SrProhibit = 0
  MinSrPeriod = 1
  MaxSrPeriod = 4
  NewSrPeriods = {}
  PeriodicTimer = 3
  RetxTimer = 4
  TotalPrb = 3
  Cqis = {}
  ArrivalSizes = {13}
  MaxArrivals = 2
  MaxCrcErrors = 2
SPECIFICATION Spec
INVARIANT
  ReportIsLowerBound
