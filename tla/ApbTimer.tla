------------------------------- MODULE ApbTimer -------------------------------
(***************************************************************************)
(* The bridge from TLM to APB (src/tlm2apb-bridge.h) and the timer behind  *)
(* it (src/apb_timer.v), with one initiator.  Both are clocked: at an edge *)
(* each sees the signals as they were before it.                           *)
(*                                                                         *)
(* The bridge is in wait(delay), waits for a rising edge, for a falling    *)
(* edge, and then for rising edges until the timer is ready.               *)
(***************************************************************************)
EXTENDS Integers

CONSTANTS
  WordMod,    \* 2^32
  Addresses,  \* the addresses that the initiator accesses
  X           \* the value of prdata that means none: 'bx

ASSUME TimerConstants ==
  /\ WordMod \in Nat /\ WordMod > 3
  /\ Addresses \subseteq Nat

VARIABLES
  clk,        \* whether the clock is high
  trans,      \* the transaction: where the bridge is in it, what it accesses,
              \* the data read, and whether the timer was on at its beginning
  apb,        \* psel, penable, pwrite, paddr, pwdata
  tmr,        \* the timer's registers: en and irq of tmr_cfg, cnt, div, free
  reply       \* pready and prdata

vars == <<clk, trans, apb, tmr, reply>>

Word == 0 .. WordMod - 1
Regs == {0, 1, 2, 3}

\* tmr_cfg as the word that is read and written
Cfg(t) == (IF t.en THEN 1 ELSE 0) + (IF t.irq THEN 2 ELSE 0)

TypeOK ==
  /\ clk \in BOOLEAN
  /\ trans.at \in {"idle", "delay", "setup", "enable", "access"}
  /\ trans.data \in Word \cup {X}
  /\ apb.psel \in BOOLEAN /\ apb.penable \in BOOLEAN /\ apb.pwrite \in BOOLEAN
  /\ tmr \in [en : BOOLEAN, irq : BOOLEAN, cnt : Word, div : Word, free : Word]
  /\ reply.pready \in BOOLEAN /\ reply.prdata \in Word \cup {X}

\* The clock is slow: rst may have come and gone between two edges.
Init ==
  /\ clk = FALSE
  /\ trans = [at |-> "idle", write |-> FALSE, addr |-> 0, data |-> 0,
              wasOn |-> FALSE]
  /\ apb = [psel |-> FALSE, penable |-> FALSE, pwrite |-> FALSE,
            paddr |-> 0, pwdata |-> 0]
  /\ tmr \in [en : BOOLEAN, irq : BOOLEAN, cnt : Word, div : Word, free : Word]
  /\ reply = [pready |-> FALSE, prdata |-> X]

-----------------------------------------------------------------------------
(* The bridge: b_transport                                                  *)

\* The address is shifted here
Paddr(a) == a \div 4

Request(a, w, v) ==
  /\ trans.at = "idle"
  /\ trans' = [at |-> "delay", write |-> w, addr |-> a, data |-> v,
                wasOn |-> tmr.en]
  /\ apb' = [apb EXCEPT !.psel = TRUE, !.pwrite = w, !.paddr = Paddr(a),
                        !.pwdata = IF w THEN v ELSE 0]
  /\ UNCHANGED <<clk, tmr, reply>>

DelayOver ==
  /\ trans.at = "delay"
  /\ trans' = [trans EXCEPT !.at = "setup"]
  /\ UNCHANGED <<clk, apb, tmr, reply>>

\* Mutant: the data are read until the timer is ready.
BridgePosEdgeFirst ==
  CASE trans.at = "setup" ->
         /\ trans' = [trans EXCEPT !.at = "enable"]
         /\ UNCHANGED apb
    [] trans.at = "access" ->
         /\ trans' = [trans EXCEPT
              !.data = IF trans.write \/ reply.pready THEN @ ELSE reply.prdata,
              !.at = IF reply.pready THEN "idle" ELSE "access"]
         /\ apb' = [apb EXCEPT !.psel = ~reply.pready, !.penable = ~reply.pready]
    [] OTHER -> UNCHANGED <<trans, apb>>

\* At a rising edge
BridgePosEdge ==
  CASE trans.at = "setup" ->
         /\ trans' = [trans EXCEPT !.at = "enable"]
         /\ UNCHANGED apb
    [] trans.at = "access" ->
         /\ trans' = [trans EXCEPT
              !.data = IF trans.write THEN @ ELSE reply.prdata,
              !.at = IF reply.pready THEN "idle" ELSE "access"]
         /\ apb' = [apb EXCEPT !.psel = ~reply.pready, !.penable = ~reply.pready]
    [] OTHER -> UNCHANGED <<trans, apb>>

\* and at a falling one
BridgeNegEdge ==
  IF trans.at = "enable"
  THEN /\ trans' = [trans EXCEPT !.at = "access"]
       /\ apb' = [apb EXCEPT !.penable = TRUE]
  ELSE UNCHANGED <<trans, apb>>

-----------------------------------------------------------------------------
(* The timer                                                                *)

\* and here again
Decoded == apb.paddr \div 4

\* Mutants: the counter is not reloaded; no interrupt is raised.
CountedFromEnd(t) ==
  [t EXCEPT !.free = (@ + 1) % WordMod,
            !.cnt = IF t.en THEN @ - 1 ELSE @,
            !.irq = @ \/ (t.en /\ t.cnt = 0)]
CountedPast(t) ==
  [t EXCEPT !.free = (@ + 1) % WordMod,
            !.cnt = IF t.en THEN (@ - 1) % WordMod ELSE @,
            !.irq = @]

Counted(t) ==
  [t EXCEPT !.free = (@ + 1) % WordMod,
            !.cnt = IF ~t.en THEN @ ELSE IF @ = 0 THEN t.div
                    ELSE @ - 1,
            !.irq = @ \/ (t.en /\ t.cnt = 0)]

\* Mutant: the divisor is not reloaded.
WrittenOver(old, t) ==
  LET v == apb.pwdata
  IN CASE Decoded = 0 -> [t EXCEPT !.en = (v % 2 = 1), !.irq = (v \div 2 % 2 = 1)]
       [] Decoded = 1 -> [t EXCEPT !.cnt = v]
       [] Decoded = 2 -> [t EXCEPT !.div = v]
       [] Decoded = 3 -> [t EXCEPT !.free = v]
       [] OTHER -> t

\* A write's assignments come last and win over those of the counting.
Written(old, t) ==
  LET v == apb.pwdata
      en == v % 2 = 1
  IN CASE Decoded = 0 -> [t EXCEPT !.en = en, !.irq = (v \div 2 % 2 = 1),
                                   !.cnt = IF en /\ ~old.en THEN old.div ELSE @]
       [] Decoded = 1 -> [t EXCEPT !.cnt = v]
       [] Decoded = 2 -> [t EXCEPT !.div = v]
       [] Decoded = 3 -> [t EXCEPT !.free = v]
       [] OTHER -> t

Writing == apb.psel /\ apb.penable /\ apb.pwrite

\* The value of register r; of tmr_cfg only two bits are driven.
ValueOf(t, r) ==
  CASE r = 0 -> Cfg(t) [] r = 1 -> t.cnt [] r = 2 -> t.div
    [] r = 3 -> t.free [] OTHER -> X

\* Mutant: ready for reads only
ReadyForReads == apb.psel /\ apb.penable /\ ~apb.pwrite
Ready == apb.psel /\ apb.penable

TimerPosEdge ==
  /\ tmr' = IF Writing THEN Written(tmr, Counted(tmr)) ELSE Counted(tmr)
  /\ reply' = [pready |-> Ready,
               prdata |-> IF apb.psel THEN ValueOf(tmr, Decoded) ELSE X]

-----------------------------------------------------------------------------

PosEdge == ~clk /\ clk' = TRUE /\ BridgePosEdge /\ TimerPosEdge

NegEdge ==
  /\ clk /\ clk' = FALSE
  /\ BridgeNegEdge
  /\ UNCHANGED <<tmr, reply>>

Next ==
  \/ \E a \in Addresses :
       \/ Request(a, FALSE, 0)
       \/ \E v \in Word : Request(a, TRUE, v)
  \/ DelayOver
  \/ PosEdge
  \/ NegEdge

Spec == Init /\ [][Next]_vars

\* The clock runs, and a delay ends.
FairSpec == Spec /\ WF_vars(PosEdge \/ NegEdge) /\ WF_vars(DelayOver)

-----------------------------------------------------------------------------
(* Properties                                                               *)

Completes == trans.at = "access" /\ trans'.at = "idle"

\* A read returns the value that the register had at the edge before, which
\* is the edge at which the timer became ready; never one from before that,
\* and never an undriven word of a register that exists.
ReadsFresh ==
  [][Completes /\ ~trans.write =>
       CASE Decoded = 0 -> trans'.data \in {Cfg(tmr), Cfg([tmr EXCEPT !.irq = FALSE])}
         [] Decoded = 1 -> tmr.cnt = Counted([tmr EXCEPT !.cnt = trans'.data]).cnt
         [] Decoded = 2 -> trans'.data = tmr.div
         [] Decoded = 3 -> tmr.free = (trans'.data + 1) % WordMod
         [] OTHER -> trans'.data = X]_vars

\* Enabling the timer reloads the divisor: when the write has returned, the
\* timer has counted one edge from it.
EnableReloads ==
  [][Completes /\ trans.write /\ Decoded = 0 /\ apb.pwdata % 2 = 1
       /\ ~trans.wasOn
     => tmr'.cnt = (IF tmr.div = 0 THEN 0 ELSE tmr.div - 1)]_vars

\* The handshake ends, whenever it begins between the edges.
TransactionEnds == trans.at = "delay" ~> trans.at = "idle"

\* A timer that is enabled interrupts, unless it is written to first.
HitsInterrupt ==
  tmr.en /\ trans.at = "idle" ~> tmr.irq \/ (trans.write /\ trans.at # "idle")

=============================================================================
