SPECIFICATION DmiSpec
CONSTANTS
  Machines <- MCMachines
  AddrMod = 1073745920
  Unset = Unset
  Garbage = {0}
  Leftover = {0, 1}
  Values = {v}
  Blank = Blank
  MaxWrites = 1
INVARIANT RangesValid
CHECK_DEADLOCK FALSE
