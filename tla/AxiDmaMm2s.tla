----------------------------- MODULE AxiDmaMm2s -----------------------------
(***************************************************************************)
(* The memory-to-stream channel of the AXI DMA: axidma_mm2s.  Its thread   *)
(* do_dma_copy reads at most 2 KB at a time and sends them on the stream   *)
(* with an end-of-packet mark on the last.  It blocks in its wait(), in    *)
(* the memory read and in the stream transaction.  The data of a burst are *)
(* named by the addresses they come from.                                  *)
(***************************************************************************)
EXTENDS AxiDma

CONSTANT Burst      \* sizeof buf: 2048

ASSUME BurstAssumption == Burst \in Nat \ {0}

VARIABLES
  pc,        \* "wait", "ready" once notified, "read", "stream"
  burst      \* the burst in hand: its address, tlen and eop

vars == <<baseVars, pc, burst>>

NoBurst == [addr |-> 0, len |-> 0, eop |-> FALSE]

TypeOK ==
  /\ BaseTypeOK
  /\ pc \in {"wait", "ready", "read", "stream"}
  /\ burst \in [addr : Nat, len : 0 .. Burst, eop : BOOLEAN]

\* Mutants: the whole length in one burst; every burst ends the packet.
IssueWhole(r) ==
  /\ pc' = "read"
  /\ burst' = [addr |-> r.addr, len |-> r.length, eop |-> TRUE]
IssueEop(r) ==
  /\ pc' = "read"
  /\ burst' = [addr |-> r.addr,
               len |-> IF r.length > Burst THEN Burst ELSE r.length, eop |-> TRUE]

\* The loop body up to the memory read, with registers r
Issue(r) ==
  LET n == IF r.length > Burst THEN Burst ELSE r.length
  IN /\ pc' = "read"
     /\ burst' = [addr |-> r.addr, len |-> n, eop |-> n = r.length]

\* wait(ev_dma_copy) returns
Wake ==
  /\ pc = "ready"
  /\ Issue(regs)
  /\ UNCHANGED baseVars

ReadDone ==
  /\ pc = "read"
  /\ pc' = "stream"
  /\ UNCHANGED <<baseVars, burst>>

\* Mutant: the burst that ends the packet ends the transfer.
FinishedPacket(n) == burst.eop

\* With n bytes to go the transfer is done.
Finished(n) == n = 0

\* The stream transaction returns: the registers move on from the address the
\* burst had and the length they have now.
StreamDone ==
  LET n == (regs.length - burst.len) % WordMod
      r == [regs EXCEPT !.length = n,
                        !.addr = burst.addr + burst.len,
                        !.sr = IF Finished(n) THEN @ \cup {"IDLE", "IOC_IRQ"} ELSE @]
  IN /\ pc = "stream"
     /\ regs' = r
     /\ upd' = (upd \/ Finished(n))
     /\ IF n = 0 THEN pc' = "wait" /\ burst' = NoBurst ELSE Issue(r)
     /\ UNCHANGED <<copied, irq>>

\* b_transport.  The notification of a LENGTH write is lost unless the thread
\* is in its wait().
BusLength(n) ==
  /\ WriteLength(n)
  /\ pc' = IF pc = "wait" THEN "ready" ELSE pc
  /\ UNCHANGED burst

BusOther == AccessOther /\ UNCHANGED <<pc, burst>>

Irqs == UpdateIrqs /\ UNCHANGED <<pc, burst>>

Init == BaseInit /\ pc = "wait" /\ burst = NoBurst

Thread == Wake \/ ReadDone \/ StreamDone

Next == Thread \/ Irqs \/ BusOther \/ \E n \in LengthIns : BusLength(n)

Spec == Init /\ [][Next]_vars

\* assert(!(regs.sr & AXIDMA_SR_IDLE)): wherever the thread goes on to a burst,
\* after its wait() or with a length that is not 0, the channel is not idle,
\* whatever was written to SR and LENGTH in between.
AssertNotIdle == pc = "ready" \/ regs.length # 0 => ~Idle

\* An idle channel is at rest: no burst in hand, and nothing left to send.
IdleAtRest == Idle => pc = "wait" /\ regs.length = 0

=============================================================================
