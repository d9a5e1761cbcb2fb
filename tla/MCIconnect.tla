------------------------------ MODULE MCIconnect ------------------------------
(* The machines of the repository, and three in miniature: one whose second *)
(* initiator has an offset that wraps around, one where it was never set,   *)
(* and one with entries that memmap did not set.                            *)
EXTENDS Iconnect

\* The first and the last initiator are active.
FirstAndLast(initiators) == {0, initiators - 1}
T == INSTANCE Tops WITH Active <- FirstAndLast

Miniature(base) ==
  T!Wired(2, 3,
    <<[addr |-> 1, size |-> 1, words |-> 2],
      [addr |-> 3, size |-> 1, words |-> 2],
      [addr |-> 0, size |-> AddrMod - 1, words |-> AddrMod]>>,
    [i \in 0 .. 1 |-> IF i = 0 THEN 0 ELSE base])

\* The entry that is left over overlaps the mapping and goes beyond it.
Littered ==
  [T!Wired(1, 2, <<[addr |-> 1, size |-> 1, words |-> 2],
                   [addr |-> 4, size |-> 1, words |-> 2]>>, [i \in {0} |-> 0])
     EXCEPT !.stale = {[addr |-> 2, size |-> 3, mode |-> "relative"]},
            !.asked = 1 .. 6]

MCMachines == T!Tops \cup {Miniature(AddrMod - 2), Miniature(Unset), Littered}
ASSUME MachinesFit == \A m \in MCMachines : Fits(m)
=============================================================================
