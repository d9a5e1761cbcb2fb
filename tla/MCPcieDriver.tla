---------------------------- MODULE MCPcieDriver ----------------------------
(* PcieDriver with three buffers, two of them at the same virtual page, and *)
(* one job of every kind.                                                   *)
EXTENDS PcieDriver

Buffers == {[page |-> 0, n |-> 2, phys |-> 0, attr |-> {"R", "W"}],
            [page |-> 2, n |-> 1, phys |-> 2, attr |-> {"R", "W"}],
            [page |-> 2, n |-> 1, phys |-> 3, attr |-> {"R", "W"}]}

SomeJobs == {[op |-> "translate", addr |-> 0, len |-> 6, data |-> 0],
             [op |-> "read",      addr |-> 4, len |-> 1, data |-> 1],
             [op |-> "write",     addr |-> 1, len |-> 1, data |-> 0],
             [op |-> "md5",       addr |-> 0, len |-> 5, data |-> 0],
             [op |-> "md5",       addr |-> 4, len |-> 0, data |-> 0]}

\* Every word has a value of its own, so that a digest shows which were read.
DistinctMem == [a \in PhysAddrs |-> a + 2]

\* A read of the second word of the last page that is mapped
LastPageJobs == {[op |-> "read", addr |-> 5, len |-> 1, data |-> 1]}
=============================================================================
