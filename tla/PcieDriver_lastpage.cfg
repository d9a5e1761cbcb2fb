SPECIFICATION FairSpecD
CONSTANTS
  PageSize = 2
  WordMod = 16
  Pages = {0, 1, 2}
  PhysAddrs = {0, 1, 2, 3, 4, 5, 6, 7}
  InitMem <- DistinctMem
  RegionSizes = {2, 4}
  Data = {0, 1, 2, 3, 4, 5, 6, 7, 8, 9}
  Attrs = {"R", "W"}
  Mappings <- Buffers
  AddrIns = {}
  LengthIns = {}
  CtrlIns = {}
  Jobs <- LastPageJobs
  MaxRegions = 3
  MaxBusy = 4
  MaxInv = 1
PROPERTIES CommandEnds
