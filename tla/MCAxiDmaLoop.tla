---------------------------- MODULE MCAxiDmaLoop ----------------------------
(* AxiDmaLoop with two senders, beats of three kinds and addresses bounded  *)
EXTENDS AxiDmaLoop

CONSTANT MaxAddr

AddrBound == regs.addr <= MaxAddr

SomeBeats == {[len |-> 1, eop |-> FALSE], [len |-> 2, eop |-> TRUE],
              [len |-> 3, eop |-> FALSE]}
=============================================================================
