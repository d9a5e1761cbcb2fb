----------------------------- MODULE AxiDmaS2mm -----------------------------
(***************************************************************************)
(* The stream-to-memory channel of the AXI DMA: axidma_s2mm.  It has no    *)
(* thread of its own: s_b_transport runs in the process that sends on the  *)
(* stream, and blocks it while the channel is idle and while the data are  *)
(* written to memory.                                                      *)
(***************************************************************************)
EXTENDS AxiDma

CONSTANTS
  Senders,    \* the processes that send on the stream
  Beats       \* what they send: [len, eop]

ASSUME BeatsAssumption == Beats \subseteq [len : Word, eop : BOOLEAN]

VARIABLES
  at,         \* where each sender is: "out", "wait", "ready", "write"
  beat,       \* the transaction it brings
  move        \* the copy it is blocked in: [to, n] with n = len_to_copy

vars == <<baseVars, at, beat, move>>

NoBeat == [len |-> 0, eop |-> FALSE]
NoMove == [to |-> 0, n |-> 0]

TypeOK ==
  /\ BaseTypeOK
  /\ at \in [Senders -> {"out", "wait", "ready", "write"}]
  /\ beat \in [Senders -> [len : Word, eop : BOOLEAN]]
  /\ move \in [Senders -> [to : Nat, n : Word]]

\* The back-pressure, and past it the copy
Admit(s, b) ==
  IF Idle
  THEN at' = [at EXCEPT ![s] = "wait"] /\ UNCHANGED move
  ELSE /\ at' = [at EXCEPT ![s] = "write"]
       /\ move' = [move EXCEPT ![s] =
            [to |-> regs.addr,
             n |-> IF regs.length >= b.len THEN b.len ELSE regs.length]]

\* s_b_transport is called
Arrive(s, b) ==
  /\ at[s] = "out"
  /\ beat' = [beat EXCEPT ![s] = b]
  /\ Admit(s, b)
  /\ UNCHANGED baseVars

\* wait(ev_dma_copy) returns: the loop tests IDLE again.
Recheck(s) ==
  /\ at[s] = "ready"
  /\ Admit(s, beat[s])
  /\ UNCHANGED <<baseVars, beat>>

\* Mutant: no 32-bit wrap
UnwrappedRest(m) == regs.length - m.n

\* What is left of LENGTH after the copy m, whatever was written to it meanwhile
Rest(m) == (regs.length - m.n) % WordMod

\* The copy is done and s_b_transport returns.
WriteDone(s) ==
  LET m == move[s]
      n == Rest(m)
      over == n = 0 \/ beat[s].eop
  IN /\ at[s] = "write"
     /\ copied' = (copied + m.n) % WordMod
     /\ regs' = [regs EXCEPT !.addr = m.to + m.n,
                             !.length = IF over THEN copied' ELSE n,
                             !.sr = IF over THEN @ \cup {"IDLE", "IOC_IRQ"} ELSE @]
     /\ upd' = TRUE
     /\ at' = [at EXCEPT ![s] = "out"]
     /\ beat' = [beat EXCEPT ![s] = NoBeat]
     /\ move' = [move EXCEPT ![s] = NoMove]
     /\ UNCHANGED irq

\* Mutant: the event is not notified.
BusLengthQuiet(n) == WriteLength(n) /\ UNCHANGED <<at, beat, move>>

\* b_transport.  A LENGTH write wakes every sender that is held back.
BusLength(n) ==
  /\ WriteLength(n)
  /\ at' = [s \in Senders |-> IF at[s] = "wait" THEN "ready" ELSE at[s]]
  /\ UNCHANGED <<beat, move>>

BusOther == AccessOther /\ UNCHANGED <<at, beat, move>>

Irqs == UpdateIrqs /\ UNCHANGED <<at, beat, move>>

Init ==
  /\ BaseInit
  /\ at = [s \in Senders |-> "out"]
  /\ beat = [s \in Senders |-> NoBeat]
  /\ move = [s \in Senders |-> NoMove]

Sender(s) == Recheck(s) \/ WriteDone(s) \/ \E b \in Beats : Arrive(s, b)

Next ==
  \/ \E s \in Senders : Sender(s)
  \/ Irqs
  \/ BusOther
  \/ \E n \in LengthIns : BusLength(n)

Spec == Init /\ [][Next]_vars

\* A sender is held back only while the channel is idle: the notification of
\* the LENGTH write that ended the idleness has reached every one of them, and
\* one that lost the race to another goes back to wait only if the channel is
\* idle again.
HeldOnlyIdle == \A s \in Senders : at[s] = "wait" => Idle

=============================================================================
