SPECIFICATION Spec
CONSTANTS
  Masters = {m1, m2}
  Addrs = {0, 1, 2}
  Data = {0}
  InitMem <- BlankMem
  Burst = 2
  WordMod = 8
  RegIns = {0, 3}
  CtrlIns = {{}, {"RUN"}}
SYMMETRY MasterSymmetry
INVARIANTS TypeOK NoLostStart IrqNotStale
CHECK_DEADLOCK FALSE
