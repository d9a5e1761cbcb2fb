SPECIFICATION Spec
CONSTANTS
  Machines <- MCMachines
  AddrMod = 1073745920
  Unset = Unset
  Garbage = {0, 1}
  Leftover = {0, 1}
  Values = {v}
  Blank = Blank
  MaxWrites = 1
INVARIANTS TypeOK FlatMemory Inside
