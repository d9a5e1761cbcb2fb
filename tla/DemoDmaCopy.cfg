SPECIFICATION FairSpecC
CONSTANTS
  Masters = {cpu}
  Addrs = {0, 1, 2, 3, 4, 5, 6, 7, 8, 9}
  Data = {0, 1, 2, 3, 4, 5, 6, 7, 8, 9}
  InitMem <- DistinctMem
  Burst = 2
  WordMod = 10
  RegIns = {}
  CtrlIns = {}
  Jobs <- SomeJobs
  MaxPauses = 1
INVARIANT DoneMeansCopied
PROPERTIES ImplementsCopy JobEnds
