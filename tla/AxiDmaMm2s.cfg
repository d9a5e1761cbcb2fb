SPECIFICATION Spec
CONSTANTS
  WordMod = 8
  AddrIns = {0}
  LengthIns = {0, 1, 5}
  Burst = 2
  MaxAddr = 6
CONSTRAINT AddrBound
INVARIANTS TypeOK IrqFollows AssertNotIdle IdleAtRest
