\* One UE, three channels in two LCGs, two packets, two failing transmissions and a
\* CQI; an SR that can give up before its answer comes, with a period that changes.
CONSTANTS
  NofChannels = 3
  NofLcgs = 2
  LcgOf <- FirstAlone
  Pbr <- RatesOf
  BucketSize <- BucketsOf
  NofProcesses = 2
  MaxHarqTx = 2
  Delay = 2
  SrEnabled = TRUE
  DsrTransMax = 2
  SrPeriod = 1
  SrProhibit = 0
  MinSrPeriod = 1
  MaxSrPeriod = 2
  NewSrPeriods = {1, 9}
  PeriodicTimer = 4
  RetxTimer = 4
  TotalPrb = 3
  Cqis = {6}
  ArrivalSizes = {9}
  MaxArrivals = 2
  MaxCrcErrors = 2
SPECIFICATION FairSpec
INVARIANTS
  DataInv
  BytesBalance
  NoProbe
  PduRoundTrip
  ReportCovers
  TbIsLocked
PROPERTIES
  SrGoesWithRegular
  LcpHonoured
  GrantHoldsDemand
  EventuallyDrained
