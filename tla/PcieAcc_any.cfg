SPECIFICATION Spec
CONSTANTS
  PageSize = 4
  WordMod = 16
  Pages = {0, 1}
  PhysAddrs = {0, 1, 2, 3, 4, 5, 6, 7}
  InitMem <- BlankMem
  RegionSizes = {4, 8}
  Data = {0}
  Attrs = {"R", "W"}
  Mappings <- Overlapping
  AddrIns = {2}
  LengthIns = {3}
  CtrlIns = {{"write", "md5"}, {"md5"}, {"read"}, {"translate"}}
  MaxRegions = 1
  MaxBusy = 2
  MaxInv = 1
INVARIANTS TypeOK DmaGranted
CHECK_DEADLOCK FALSE
