------------------------------ MODULE MCPcieAcc ------------------------------
(* PcieAcc with a small IOMMU: the buffers the host may map.                *)
EXTENDS PcieAcc

\* One buffer of two pages, or one of one page elsewhere in memory
Overlapping == {[page |-> 0, n |-> 2, phys |-> 0, attr |-> {"R", "W"}],
                [page |-> 1, n |-> 1, phys |-> 0, attr |-> {"R"}]}

BlankMem == [a \in PhysAddrs |-> 0]
=============================================================================
