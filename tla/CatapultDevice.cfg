SPECIFICATION FairSpec
CONSTANTS
  h1 = h1
  h2 = h2
  Regs <- RoleRegs
  NoReg = NoReg
  HalfMod = 2
  Hosts = {h1, h2}
  Owner <- PageOwner
  Shell <- SomeShell
  BadValue = 2
  HasRole = TRUE
  RoleValue <- RoleReads
  Addresses <- SomeAddresses
  MaxTime = 2
  Capability = 5
  MaxSlots = 128
INVARIANTS TypeOK NeverTorn CopiesLength Located
PROPERTY StashFrees
CHECK_DEADLOCK FALSE
