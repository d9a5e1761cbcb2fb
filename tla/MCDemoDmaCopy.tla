---------------------------- MODULE MCDemoDmaCopy ----------------------------
(* DemoDmaCopy with jobs of several bursts, of one, of a part of one, and   *)
(* of none                                                                  *)
EXTENDS DemoDmaCopy

DistinctMem == [a \in Addrs |-> a]

SomeJobs == {[src |-> 0, dst |-> 5, n |-> 5],
             [src |-> 6, dst |-> 0, n |-> 2],
             [src |-> 9, dst |-> 3, n |-> 1],
             [src |-> 0, dst |-> 4, n |-> 0]}
=============================================================================
