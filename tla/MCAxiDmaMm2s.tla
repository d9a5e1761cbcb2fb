---------------------------- MODULE MCAxiDmaMm2s ----------------------------
(* AxiDmaMm2s with addresses bounded                                        *)
EXTENDS AxiDmaMm2s

CONSTANT MaxAddr

AddrBound == regs.addr <= MaxAddr
=============================================================================
