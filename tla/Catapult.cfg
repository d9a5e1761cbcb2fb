SPECIFICATION FairSpec
CONSTANTS
  SlotCount = 3
  Configured <- AllSlots
  Word <- AllWords
  Regs <- SlotRegs
  NoReg = NoReg
  HalfMod = 3
  Froms = {3, 5}
INVARIANTS NoneAsleep ReadsAsAsked
PROPERTIES DoneMeansServed InTurn JobEnds
