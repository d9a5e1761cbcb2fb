------------------------------ MODULE MCDemoDma ------------------------------
(* DemoDma with a few bytes of memory                                       *)
EXTENDS DemoDma, TLC

MasterSymmetry == Permutations(Masters)

BlankMem == [a \in Addrs |-> 0]
=============================================================================
