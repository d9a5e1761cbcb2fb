--------------------------- MODULE MCCatapultDevice ---------------------------
(* CatapultDevice with one shell register of each kind and two programs     *)
EXTENDS RegisterLayout, TLC

CONSTANTS h1, h2

\* Registers of the table, with one value that is not 0 for each that could
\* change, and an address that none has
Ro == 52
Rw == 256 + 164
Counters == Column({66, 67}, 3)
Hole == 84

Number(address) == Split(address).reg

Register(a, initial) ==
  Number(a) :> [initial |-> initial, kind |-> KindAt(a)]

SomeShell ==
  Register(Ro, 1) @@ Register(Rw, 1)
    @@ Register(66 * 256 + Ro, 0) @@ Register(67 * 256 + Ro, 0)

\* A soft register and a DMA register with the same number
RoleAddresses == {8 * MiB, 7 * MiB}
RoleRegs == {RoleReg(Split(a)) : a \in RoleAddresses}
RoleReads == <<8, 0>> :> 0 @@ <<7, 0>> :> 1
PageOwner == <<8, 0>> :> h1 @@ <<7, 0>> :> h2

SomeAddresses ==
  {Split(a) : a \in {Ro, Rw, Rw - 4, Rw - 2, Hole} \cup Counters
                      \cup {8 * MiB, 8 * MiB + 2, 8 * MiB + 4, 7 * MiB + 4}
                      \cup {3 * MiB, 16 * MiB + Rw}}
=============================================================================
