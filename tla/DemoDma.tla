------------------------------- MODULE DemoDma -------------------------------
(***************************************************************************)
(* The demo DMA controller (src/demo-dma.h, src/demo-dma.cc): registers    *)
(* written by b_transport, and one thread, do_dma_copy, that copies bursts *)
(* of at most 32 bytes from src_addr to dst_addr.                          *)
(*                                                                         *)
(* One action is the code run between two blocking points: wait() in the   *)
(* thread, a transaction on init_socket in the thread and in b_transport   *)
(* (the speculative read of a ctrl write).  Time is abstracted: a timed    *)
(* notification or wait ends at some later step.                           *)
(*                                                                         *)
(* The bus masters, the interconnect and the memory are not in this        *)
(* component.  Here the masters write any register at any time; byte_en    *)
(* stays 0, its reset value.                                               *)
(***************************************************************************)
EXTENDS Integers, Sequences

CONSTANTS
  Masters,    \* the processes that access the registers
  Addrs,      \* the addresses that decode to memory
  Data,       \* the values of a byte of memory
  InitMem,    \* what memory holds at the start
  Burst,      \* sizeof buf: 32
  WordMod,    \* 2^32: the registers are uint32_t
  RegIns,     \* what the masters write to dst_addr, src_addr and len
  CtrlIns     \* what they write to ctrl: sets of "RUN" and "DONE"

ASSUME DmaConstants ==
  /\ Burst \in Nat \ {0}
  /\ WordMod \in Nat \ {0}
  /\ Data # {}
  /\ InitMem \in [Addrs -> Data]
  /\ RegIns \subseteq 0 .. WordMod - 1
  /\ CtrlIns \subseteq SUBSET {"RUN", "DONE"}

VARIABLES
  regs,       \* the registers
  pc,         \* where do_dma_copy is
  tlen,       \* its burst length
  from, to,   \* the addresses of the transactions it is blocked in
  buf,        \* its buffer
  irq,        \* the interrupt line
  ev,         \* whether ev_dma_copy has a notification pending
  master,     \* "idle", or in b_transport: the response of the speculative
              \* read that it is blocked in
  mem         \* the memory

vars == <<regs, pc, tlen, from, to, buf, irq, ev, master, mem>>

Word == 0 .. WordMod - 1

TypeOK ==
  /\ regs \in [dst : Word, src : Word, len : Word,
               ctrl : SUBSET {"RUN", "DONE"},
               error_resp : {"OKAY", "GENERIC", "DECODE"}]
  /\ pc \in {"unborn", "born", "wait", "ready", "read", "write", "delay"}
  /\ tlen \in 0 .. Burst
  /\ from \in Word /\ to \in Word
  /\ buf \in Seq(Data)
  /\ irq \in BOOLEAN
  /\ ev \in BOOLEAN
  /\ master \in [Masters -> {"idle", "OKAY", "DECODE"}]
  /\ mem \in [Addrs -> Data]

-----------------------------------------------------------------------------
(* do_dma_trans: the response, and what it leaves in error_resp             *)

Decodes(a, n) == a .. (a + n - 1) \subseteq Addrs

Response(a, n) == IF Decodes(a, n) THEN "OKAY" ELSE "DECODE"

Running == "RUN" \in regs.ctrl
Done == "DONE" \in regs.ctrl

\* tlen, with registers r
BurstLength(r) == IF r.len > Burst THEN Burst ELSE r.len

\* Mutants: no 32-bit wrap; src_addr is forgotten.
AdvancedUnwrapped(r) ==
  [r EXCEPT !.dst = @ + tlen, !.src = @ + tlen, !.len = @ - tlen]
AdvancedDst(r) ==
  [r EXCEPT !.dst = (@ + tlen) % WordMod, !.len = (@ - tlen) % WordMod]

\* The registers r after a burst
Advanced(r) ==
  [r EXCEPT !.dst = (@ + tlen) % WordMod,
            !.src = (@ + tlen) % WordMod,
            !.len = (@ - tlen) % WordMod]

\* Below, q is the interrupt line as the step has left it so far.

\* Mutant: done after any burst
SignalAnyBurst(r, q) ==
  IF "RUN" \in r.ctrl
  THEN /\ regs' = [r EXCEPT !.ctrl = (@ \ {"RUN"}) \cup {"DONE"}]
       /\ irq' = TRUE
       /\ pc' = "wait"
  ELSE regs' = r /\ irq' = q /\ pc' = "delay"

\* The end of the loop body, with registers r: signal done, or wait(1 us).
Signal(r, q) ==
  IF r.len = 0 /\ "RUN" \in r.ctrl
  THEN /\ regs' = [r EXCEPT !.ctrl = (@ \ {"RUN"}) \cup {"DONE"}]
       /\ irq' = TRUE
       /\ pc' = "wait"
  ELSE /\ regs' = r
       /\ irq' = q
       /\ pc' = "delay"

\* The loop body, past "if (!RUN) wait(ev_dma_copy)"
Body(q) ==
  IF regs.len > 0 /\ Running
  THEN /\ pc' = "read"
       /\ tlen' = BurstLength(regs)
       /\ from' = regs.src
       /\ irq' = q
       /\ UNCHANGED regs
  ELSE Signal(regs, q) /\ UNCHANGED <<tlen, from>>

\* Mutant: the thread waits for a notification whatever RUN is.
TopWaits(q) ==
  /\ pc' = "wait"
  /\ irq' = q
  /\ UNCHANGED <<regs, tlen, from>>

\* The top of the loop
Top(q) ==
  IF Running THEN Body(q)
  ELSE /\ pc' = "wait"
       /\ irq' = q
       /\ UNCHANGED <<regs, tlen, from>>

Others == UNCHANGED <<to, buf, ev, master, mem>>

\* The first notification starts the thread (dont_initialize).
Begin == pc = "born" /\ Top(irq) /\ Others

\* wait(ev_dma_copy) returns.
Wake == pc = "ready" /\ Body(irq) /\ Others

\* wait(1 us) returns: update_irqs, then the loop again.
DelayDone == pc = "delay" /\ Top(Done) /\ Others

\* The read of a burst returns; the write is issued with dst_addr as it is
\* now.  A failed read leaves in buf whatever was there.
ReadDone ==
  /\ pc = "read"
  /\ pc' = "write"
  /\ to' = regs.dst
  /\ regs' = [regs EXCEPT !.error_resp = Response(from, tlen)]
  /\ IF Decodes(from, tlen)
     THEN buf' = [i \in 1 .. tlen |-> mem[from + i - 1]]
     ELSE buf' \in [1 .. tlen -> Data]
  /\ UNCHANGED <<tlen, from, irq, ev, master, mem>>

\* The write of a burst returns: the registers advance by the burst, whatever
\* the masters have written to them meanwhile.
WriteDone ==
  /\ pc = "write"
  /\ mem' = IF Decodes(to, tlen)
            THEN [a \in Addrs |-> IF a \in to .. to + tlen - 1
                                  THEN buf[a - to + 1] ELSE mem[a]]
            ELSE mem
  /\ Signal(Advanced([regs EXCEPT !.error_resp = Response(to, tlen)]), irq)
  /\ tlen' = 0 /\ from' = 0 /\ to' = 0 /\ buf' = <<>>
  /\ UNCHANGED <<ev, master>>

\* The pending notification of ev_dma_copy comes due: lost unless the thread
\* has not started or is in wait(ev_dma_copy).
EventFires ==
  /\ ev
  /\ ev' = FALSE
  /\ pc' = CASE pc = "unborn" -> "born"
             [] pc = "wait"   -> "ready"
             [] OTHER         -> pc
  /\ UNCHANGED <<regs, tlen, from, to, buf, irq, master, mem>>

-----------------------------------------------------------------------------
(* b_transport, from a master                                               *)

\* A write to dst_addr, src_addr or len
BusWrite(m, reg, v) ==
  /\ master[m] = "idle"
  /\ regs' = [regs EXCEPT ![reg] = v]
  /\ UNCHANGED <<pc, tlen, from, to, buf, irq, ev, master, mem>>

\* A write to ctrl blocks in the speculative read of src_addr
BusWriteCtrl(m, c) ==
  /\ master[m] = "idle"
  /\ regs' = [regs EXCEPT !.ctrl = c]
  /\ master' = [master EXCEPT ![m] = Response(regs.src, 4)]
  /\ UNCHANGED <<pc, tlen, from, to, buf, irq, ev, mem>>

\* Mutant: only a start is notified.
SpecReadDoneRunning(m) ==
  /\ master[m] # "idle"
  /\ master' = [master EXCEPT ![m] = "idle"]
  /\ regs' = [regs EXCEPT !.error_resp = master[m]]
  /\ ev' = (ev \/ Running)
  /\ UNCHANGED <<pc, tlen, from, to, buf, irq, mem>>

\* and then notifies the thread; an earlier notification stays as it is.
SpecReadDone(m) ==
  /\ master[m] # "idle"
  /\ master' = [master EXCEPT ![m] = "idle"]
  /\ regs' = [regs EXCEPT !.error_resp = master[m]]
  /\ ev' = TRUE
  /\ UNCHANGED <<pc, tlen, from, to, buf, irq, mem>>

-----------------------------------------------------------------------------
Init ==
  /\ regs = [dst |-> 0, src |-> 0, len |-> 0, ctrl |-> {},
             error_resp |-> "OKAY"]
  /\ pc = "unborn"
  /\ tlen = 0 /\ from = 0 /\ to = 0
  /\ buf = <<>>
  /\ irq = FALSE
  /\ ev = FALSE
  /\ master = [m \in Masters |-> "idle"]
  /\ mem = InitMem

Thread == Begin \/ Wake \/ DelayDone \/ ReadDone \/ WriteDone

Kernel == Thread \/ EventFires \/ \E m \in Masters : SpecReadDone(m)

MasterStep ==
  \E m \in Masters :
    \/ \E reg \in {"dst", "src", "len"}, v \in RegIns : BusWrite(m, reg, v)
    \/ \E c \in CtrlIns : BusWriteCtrl(m, c)

Next == Kernel \/ MasterStep

Spec == Init /\ [][Next]_vars

-----------------------------------------------------------------------------
(* Properties                                                               *)

\* A notification is on its way to the thread: pending, or to be made when
\* the speculative read of a ctrl write returns.
Notice == ev \/ \E m \in Masters : master[m] # "idle"

\* No start is lost: when ctrl has RUN and the thread is not on its way to
\* see it, a notification is, although a notification is lost whenever the
\* thread is in a transaction or a timed wait.
NoLostStart ==
  Running /\ pc \in {"unborn", "wait"} => Notice

\* The interrupt line does not stay behind DONE: where they differ, the
\* thread is not in its wait(), or a notification will take it out of it.
IrqNotStale ==
  pc \in {"unborn", "wait"} /\ irq # Done => Notice

=============================================================================
