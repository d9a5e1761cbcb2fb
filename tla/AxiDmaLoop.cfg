SPECIFICATION LoopSpec
CONSTANTS
  WordMod = 4
  AddrIns = {0}
  LengthIns = {0, 2, 3}
  Senders = {s1, s2}
  Beats <- SomeBeats
  MaxAddr = 4
  Burst = 2
  Packets = 2
  Sizes = {1, 3}
  RxSize = 3
  LinkSize = 2
CONSTRAINT AddrBound
CHECK_DEADLOCK FALSE
INVARIANTS TypeOK HeldOnlyIdle PacketWhole
PROPERTY PacketArrives
