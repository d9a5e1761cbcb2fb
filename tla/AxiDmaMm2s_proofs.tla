-------------------------- MODULE AxiDmaMm2s_proofs --------------------------
(* Theorems about the memory-to-stream channel of the AXI DMA, for any host *)
(* program and any size of a burst or a register.                           *)
EXTENDS AxiDmaMm2s, TLAPS

BaseInv == BaseTypeOK /\ IrqFollows

Regs == [cr : SUBSET {"IOC_IRQ_EN"}, sr : SUBSET {"IDLE", "IOC_IRQ"},
         addr : Nat, length : Word]

\* The remainder is a register's value.
LEMMA WordRange ==
  ASSUME NEW v \in Int
  PROVE  v % WordMod \in Word
BY AxiDmaConstants, Z3 DEF Word

LEMMA ZeroInWord == 0 \in Word
BY AxiDmaConstants DEF Word

LEMMA BaseInitInv == BaseInit => BaseInv
<1> SUFFICES ASSUME BaseInit PROVE BaseInv
  OBVIOUS
<1>1. BaseTypeOK
  BY ZeroInWord DEF BaseInit, BaseTypeOK
<1>2. regs.cr = {} /\ irq = FALSE
  BY DEF BaseInit
<1>3. Interrupting = FALSE
  BY <1>2 DEF Interrupting
<1> QED
  BY <1>1, <1>2, <1>3 DEF BaseInv, IrqFollows

LEMMA UpdateIrqsInv == BaseInv /\ UpdateIrqs => BaseInv'
<1> SUFFICES ASSUME BaseInv, UpdateIrqs PROVE BaseInv'
  OBVIOUS
<1>1. Interrupting \in BOOLEAN
  BY DEF Interrupting
<1>2. BaseTypeOK'
  BY <1>1 DEF BaseInv, BaseTypeOK, UpdateIrqs
<1>3. irq' = Interrupting'
  BY DEF UpdateIrqs, Interrupting
<1> QED
  BY <1>2, <1>3 DEF BaseInv, IrqFollows

LEMMA WriteLengthInv ==
  ASSUME NEW n \in Word, BaseInv, WriteLength(n)
  PROVE  BaseInv' /\ ~Idle' /\ regs'.length = n
<1>1. regs \in Regs
  BY DEF BaseInv, BaseTypeOK, Regs
<1>2. regs' \in Regs /\ regs'.sr = regs.sr \ {"IDLE"} /\ regs'.length = n
  BY <1>1 DEF WriteLength, Regs
<1>3. BaseTypeOK'
  BY <1>2, ZeroInWord DEF WriteLength, BaseInv, BaseTypeOK, Regs
<1>4. IrqFollows'
  BY DEF WriteLength, IrqFollows
<1> QED
  BY <1>2, <1>3, <1>4 DEF BaseInv, Idle

LEMMA AccessInv ==
  ASSUME BaseInv, NEW on \in SUBSET {"IOC_IRQ_EN"}, NEW a \in Nat,
         NEW bits \in SUBSET {"IDLE", "IOC_IRQ"},
         ReadReg \/ WriteCr(on) \/ WriteAddr(a) \/ WriteSr(bits)
  PROVE  BaseInv' /\ Idle' = Idle /\ regs'.length = regs.length
<1>0. regs \in Regs
  BY DEF BaseInv, BaseTypeOK, Regs
<1> DEFINE KeepsLength ==
      /\ regs' \in Regs
      /\ "IDLE" \in regs'.sr <=> "IDLE" \in regs.sr
      /\ regs'.length = regs.length
<1>1. KeepsLength
  <2>1. CASE ReadReg
    BY <1>0, <2>1 DEF ReadReg
  <2>2. CASE WriteCr(on)
    BY <1>0, <2>2 DEF WriteCr, Regs
  <2>3. CASE WriteAddr(a)
    BY <1>0, <2>3 DEF WriteAddr, Regs
  <2>4. CASE WriteSr(bits)
    BY <1>0, <2>4 DEF WriteSr, Regs
  <2> QED
    BY <2>1, <2>2, <2>3, <2>4
<1>2. copied' = copied /\ irq' = irq /\ upd' = TRUE
  BY DEF ReadReg, WriteCr, WriteAddr, WriteSr
<1> QED
  BY <1>1, <1>2 DEF BaseInv, BaseTypeOK, IrqFollows, Idle, Regs

LEMMA AccessOtherInv ==
  ASSUME BaseInv, AccessOther
  PROVE  BaseInv' /\ Idle' = Idle /\ regs'.length = regs.length
<1>1. PICK on \in SUBSET {"IOC_IRQ_EN"}, a \in Nat, bits \in SUBSET {"IDLE", "IOC_IRQ"} :
         ReadReg \/ WriteCr(on) \/ WriteAddr(a) \/ WriteSr(bits)
  <2>1. {} \in SUBSET {"IOC_IRQ_EN"} /\ 0 \in Nat /\ {} \in SUBSET {"IDLE", "IOC_IRQ"}
    OBVIOUS
  <2> QED
    BY <2>1, AxiDmaConstants, Zenon DEF AccessOther
<1> QED
  BY <1>1, AccessInv

-----------------------------------------------------------------------------
ThreadTypeOK ==
  /\ pc \in {"wait", "ready", "read", "stream"}
  /\ burst \in [addr : Nat, len : 0 .. Burst, eop : BOOLEAN]

\* Inductive: IdleAtRest says where the thread is when IDLE is set, and
\* AssertNotIdle what IDLE is when the thread goes on.
ChannelInv == BaseInv /\ ThreadTypeOK /\ AssertNotIdle /\ IdleAtRest

LEMMA NoBurstType == NoBurst \in [addr : Nat, len : 0 .. Burst, eop : BOOLEAN]
BY BurstAssumption DEF NoBurst

LEMMA IssueType ==
  ASSUME NEW r \in Regs, Issue(r)
  PROVE  pc' = "read" /\ ThreadTypeOK'
<1> DEFINE n == IF r.length > Burst THEN Burst ELSE r.length
<1>1. r.length \in Nat /\ r.addr \in Nat
  BY AxiDmaConstants DEF Regs, Word
<1>2. n \in 0 .. Burst /\ (n = r.length) \in BOOLEAN
  BY <1>1, BurstAssumption
<1>3. pc' = "read" /\ burst' = [addr |-> r.addr, len |-> n, eop |-> n = r.length]
  BY DEF Issue
<1> HIDE DEF n
<1> QED
  BY <1>1, <1>2, <1>3 DEF ThreadTypeOK

LEMMA InitChannelInv == Init => ChannelInv
<1> SUFFICES ASSUME Init PROVE ChannelInv
  OBVIOUS
<1>1. BaseInv
  BY BaseInitInv DEF Init
<1>2. regs.length = 0 /\ regs.sr = {} /\ pc = "wait" /\ burst = NoBurst
  BY DEF Init, BaseInit
<1>3. ~Idle
  BY <1>2 DEF Idle
<1> QED
  BY <1>1, <1>2, <1>3, NoBurstType
     DEF ChannelInv, ThreadTypeOK, AssertNotIdle, IdleAtRest

LEMMA NextChannelInv == ChannelInv /\ [Next]_vars => ChannelInv'
<1> SUFFICES ASSUME ChannelInv, [Next]_vars PROVE ChannelInv'
  OBVIOUS
<1>0. BaseInv /\ ThreadTypeOK /\ regs \in Regs /\ regs.length \in Nat
  BY AxiDmaConstants DEF ChannelInv, BaseInv, BaseTypeOK, Regs, Word
<1>1. ASSUME UNCHANGED baseVars
      PROVE  BaseInv' /\ Idle' = Idle /\ regs' = regs
  BY <1>0, <1>1
     DEF baseVars, BaseInv, BaseTypeOK, IrqFollows, Interrupting, Idle
<1>2. CASE Wake
  <2>1. Issue(regs) /\ UNCHANGED baseVars /\ pc = "ready"
    BY <1>2 DEF Wake
  <2>2. pc' = "read" /\ ThreadTypeOK'
    BY <1>0, <2>1, IssueType
  <2> QED
    BY <1>1, <2>1, <2>2 DEF ChannelInv, AssertNotIdle, IdleAtRest
<1>3. CASE ReadDone
  <2>1. UNCHANGED baseVars /\ burst' = burst /\ pc = "read" /\ pc' = "stream"
    BY <1>3 DEF ReadDone
  <2> QED
    BY <1>1, <2>1 DEF ChannelInv, ThreadTypeOK, AssertNotIdle, IdleAtRest
<1>4. CASE StreamDone
  <2> DEFINE n == (regs.length - burst.len) % WordMod
             sr == IF Finished(n) THEN regs.sr \cup {"IDLE", "IOC_IRQ"}
                                  ELSE regs.sr
             r == [regs EXCEPT !.length = n,
                               !.addr = burst.addr + burst.len, !.sr = sr]
  <2>1. /\ pc = "stream"
        /\ regs' = r
        /\ upd' = (upd \/ Finished(n))
        /\ IF n = 0 THEN pc' = "wait" /\ burst' = NoBurst ELSE Issue(r)
        /\ copied' = copied /\ irq' = irq
    BY <1>4 DEF StreamDone
  <2>2. ~Idle
    BY <2>1 DEF ChannelInv, IdleAtRest
  <2>3. burst.len \in Nat /\ burst.addr \in Nat
    BY <1>0, BurstAssumption DEF ThreadTypeOK
  <2>4. n \in Word
    BY <1>0, <2>3, WordRange
  <2> HIDE DEF n
  <2>5. sr \in SUBSET {"IDLE", "IOC_IRQ"} /\ burst.addr + burst.len \in Nat
    BY <1>0, <2>3 DEF Regs
  <2> HIDE DEF sr
  <2>6. r \in Regs /\ r.length = n /\ r.cr = regs.cr /\ r.sr = sr
    BY <1>0, <2>4, <2>5 DEF Regs
  <2>7. CASE n = 0
    <3>1. r.sr = regs.sr \cup {"IDLE", "IOC_IRQ"}
      BY <2>7, <2>6 DEF Finished, sr
    <3>2. Idle' /\ pc' = "wait" /\ burst' = NoBurst /\ upd' = TRUE
      BY <2>1, <2>7, <3>1 DEF Idle, Finished
    <3>3. BaseInv'
      BY <1>0, <2>1, <2>6, <3>2 DEF BaseInv, BaseTypeOK, IrqFollows, Regs
    <3> QED
      BY <2>1, <2>6, <2>7, <3>2, <3>3, NoBurstType
         DEF ChannelInv, ThreadTypeOK, AssertNotIdle, IdleAtRest
  <2>8. CASE n # 0
    <3>1. r.sr = regs.sr /\ upd' = upd
      BY <1>0, <2>1, <2>8, <2>6 DEF Finished, sr, BaseInv, BaseTypeOK
    <3> HIDE DEF r
    <3>2. Issue(r)
      BY <2>1, <2>8
    <3>3. pc' = "read" /\ ThreadTypeOK'
      BY <2>6, <3>2, IssueType
    <3>4. ~Idle' /\ Interrupting' = Interrupting
      BY <2>1, <2>2, <2>6, <3>1 DEF Idle, Interrupting
    <3>5. BaseInv'
      BY <1>0, <2>1, <2>6, <3>1, <3>4
         DEF BaseInv, BaseTypeOK, IrqFollows, Regs
    <3> QED
      BY <3>3, <3>4, <3>5 DEF ChannelInv, AssertNotIdle, IdleAtRest
  <2> QED
    BY <2>7, <2>8
<1>5. CASE Irqs
  <2>1. UpdateIrqs /\ pc' = pc /\ burst' = burst /\ regs' = regs
    BY <1>5 DEF Irqs, UpdateIrqs
  <2> QED
    BY <1>0, <2>1, UpdateIrqsInv
       DEF ChannelInv, ThreadTypeOK, AssertNotIdle, IdleAtRest, Idle
<1>6. CASE BusOther
  <2>1. AccessOther /\ pc' = pc /\ burst' = burst
    BY <1>6 DEF BusOther
  <2>2. BaseInv' /\ Idle' = Idle /\ regs'.length = regs.length
    BY <1>0, <2>1, AccessOtherInv
  <2> QED
    BY <2>1, <2>2 DEF ChannelInv, ThreadTypeOK, AssertNotIdle, IdleAtRest
<1>7. ASSUME NEW n \in LengthIns, BusLength(n)
      PROVE  ChannelInv'
  <2>1. WriteLength(n) /\ burst' = burst
        /\ pc' = IF pc = "wait" THEN "ready" ELSE pc
    BY <1>7 DEF BusLength
  <2>2. BaseInv' /\ ~Idle'
    BY <1>0, <2>1, AxiDmaConstants, WriteLengthInv
  <2> QED
    BY <2>1, <2>2 DEF ChannelInv, ThreadTypeOK, AssertNotIdle, IdleAtRest
<1>8. CASE UNCHANGED vars
  <2>1. UNCHANGED baseVars /\ pc' = pc /\ burst' = burst
    BY <1>8 DEF vars
  <2> QED
    BY <1>1, <2>1 DEF ChannelInv, ThreadTypeOK, AssertNotIdle, IdleAtRest
<1> QED
  BY <1>2, <1>3, <1>4, <1>5, <1>6, <1>7, <1>8 DEF Next, Thread

LEMMA AlwaysChannelInv == Spec => []ChannelInv
BY InitChannelInv, NextChannelInv, PTL DEF Spec

(* The registers and the thread's burst keep their types: the burst that    *)
(* do_dma_copy holds never exceeds its buffer.                              *)
THEOREM Mm2sTypeCorrect == Spec => []TypeOK
<1>1. ChannelInv => TypeOK
  BY DEF ChannelInv, BaseInv, TypeOK, ThreadTypeOK
<1> QED
  BY <1>1, AlwaysChannelInv, PTL

(* The assertion of axidma_mm2s::do_dma_copy, that the channel is not idle  *)
(* when a burst is taken, holds whatever the host writes to SR and LENGTH,  *)
(* also while a burst is under way.                                         *)
THEOREM Mm2sAssertHolds == Spec => []AssertNotIdle
<1>1. ChannelInv => AssertNotIdle
  BY DEF ChannelInv
<1> QED
  BY <1>1, AlwaysChannelInv, PTL

(* An idle channel has no burst in hand and nothing left to send, so a host *)
(* that sees IDLE may reuse the memory it sent from.                        *)
THEOREM Mm2sIdleAtRest == Spec => []IdleAtRest
<1>1. ChannelInv => IdleAtRest
  BY DEF ChannelInv
<1> QED
  BY <1>1, AlwaysChannelInv, PTL

(* Wherever the interrupt line differs from the masked status, update_irqs  *)
(* is about to run.                                                         *)
THEOREM Mm2sIrqFollows == Spec => []IrqFollows
<1>1. ChannelInv => IrqFollows
  BY DEF ChannelInv, BaseInv
<1> QED
  BY <1>1, AlwaysChannelInv, PTL
=============================================================================
