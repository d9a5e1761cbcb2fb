-------------------------- MODULE AxiDmaLoop_proofs --------------------------
(* Theorems about the stream-to-memory channel of the AXI DMA, for any set  *)
(* of senders, any host program and any size of a register, and about the   *)
(* two channels with their drivers, for packets and bursts of any length    *)
(* and a link that cuts them into any pieces.                               *)
EXTENDS AxiDmaLoop, WellFoundedInduction, TLAPS

-----------------------------------------------------------------------------
(* The registers of the channel s2mm                                        *)

Regs == [cr : SUBSET {"IOC_IRQ_EN"}, sr : SUBSET {"IDLE", "IOC_IRQ"},
         addr : Nat, length : Word]

BaseInv == BaseTypeOK /\ IrqFollows

LEMMA WordRange ==
  ASSUME NEW v \in Int
  PROVE  v % WordMod \in Word
BY AxiDmaConstants, Z3 DEF Word

LEMMA ZeroInWord == 0 \in Word
BY AxiDmaConstants DEF Word

LEMMA BaseInitInv == BaseInit => BaseInv
<1> SUFFICES ASSUME BaseInit PROVE BaseInv
  OBVIOUS
<1>1. BaseTypeOK /\ regs.cr = {}
  BY ZeroInWord DEF BaseInit, BaseTypeOK
<1> QED
  BY <1>1 DEF BaseInit, BaseInv, IrqFollows, Interrupting

LEMMA UpdateIrqsInv == BaseInv /\ UpdateIrqs => BaseInv'
BY DEF BaseInv, BaseTypeOK, IrqFollows, UpdateIrqs, Interrupting

\* Every access makes update_irqs run.
LEMMA AccessBase ==
  ASSUME BaseInv, regs' \in Regs, copied' \in Word, irq' = irq, upd' = TRUE
  PROVE  BaseInv'
BY DEF BaseInv, BaseTypeOK, IrqFollows, Regs

LEMMA WriteLengthInv ==
  ASSUME NEW n \in Word, BaseInv, WriteLength(n)
  PROVE  BaseInv' /\ ~Idle'
<1>1. regs \in Regs
  BY DEF BaseInv, BaseTypeOK, Regs
<1>2. regs' \in Regs /\ regs'.sr = regs.sr \ {"IDLE"}
  BY <1>1 DEF WriteLength, Regs
<1>3. BaseInv'
  BY <1>2, ZeroInWord, AccessBase DEF WriteLength
<1> QED
  BY <1>2, <1>3 DEF Idle

LEMMA AccessInv ==
  ASSUME BaseInv, NEW on \in SUBSET {"IOC_IRQ_EN"}, NEW a \in Nat,
         NEW bits \in SUBSET {"IDLE", "IOC_IRQ"},
         ReadReg \/ WriteCr(on) \/ WriteAddr(a) \/ WriteSr(bits)
  PROVE  BaseInv' /\ Idle' = Idle
<1>1. regs \in Regs /\ copied \in Word
  BY DEF BaseInv, BaseTypeOK, Regs
<1>2. regs' \in Regs /\ ("IDLE" \in regs'.sr <=> "IDLE" \in regs.sr)
  <2>1. CASE ReadReg
    BY <1>1, <2>1 DEF ReadReg
  <2>2. CASE WriteCr(on)
    BY <1>1, <2>2 DEF WriteCr, Regs
  <2>3. CASE WriteAddr(a)
    BY <1>1, <2>3 DEF WriteAddr, Regs
  <2>4. CASE WriteSr(bits)
    BY <1>1, <2>4 DEF WriteSr, Regs
  <2> QED
    BY <2>1, <2>2, <2>3, <2>4
<1>3. copied' = copied /\ irq' = irq /\ upd' = TRUE
  BY DEF ReadReg, WriteCr, WriteAddr, WriteSr
<1> QED
  BY <1>1, <1>2, <1>3, AccessBase DEF Idle

LEMMA AccessOtherInv ==
  ASSUME BaseInv, AccessOther
  PROVE  BaseInv' /\ Idle' = Idle
<1>1. PICK on \in SUBSET {"IOC_IRQ_EN"}, a \in Nat, bits \in SUBSET {"IDLE", "IOC_IRQ"} :
         ReadReg \/ WriteCr(on) \/ WriteAddr(a) \/ WriteSr(bits)
  <2>1. {} \in SUBSET {"IOC_IRQ_EN"} /\ 0 \in Nat /\ {} \in SUBSET {"IDLE", "IOC_IRQ"}
    OBVIOUS
  <2> QED
    BY <2>1, AxiDmaConstants, Zenon DEF AccessOther
<1> QED
  BY <1>1, AccessInv

-----------------------------------------------------------------------------
(* The channel s2mm alone                                                   *)

SendersTypeOK ==
  /\ at \in [Senders -> {"out", "wait", "ready", "write"}]
  /\ beat \in [Senders -> [len : Word, eop : BOOLEAN]]
  /\ move \in [Senders -> [to : Nat, n : Word]]

ChannelInv == BaseInv /\ SendersTypeOK /\ HeldOnlyIdle

LEMMA NothingType ==
  NoBeat \in [len : Word, eop : BOOLEAN] /\ NoMove \in [to : Nat, n : Word]
BY ZeroInWord DEF NoBeat, NoMove

\* Letting a beat in, or holding it back, keeps the senders' types, and holds
\* back on an idle channel only.
LEMMA AdmitInv ==
  ASSUME SendersTypeOK, HeldOnlyIdle, regs \in Regs,
         NEW s \in Senders, NEW b \in [len : Word, eop : BOOLEAN],
         Admit(s, b), UNCHANGED baseVars
  PROVE  /\ at' \in [Senders -> {"out", "wait", "ready", "write"}]
         /\ move' \in [Senders -> [to : Nat, n : Word]]
         /\ HeldOnlyIdle'
<1>0. Idle' = Idle
  BY DEF baseVars, Idle
<1>1. CASE Idle
  BY <1>0, <1>1 DEF Admit, SendersTypeOK, HeldOnlyIdle
<1>2. CASE ~Idle
  <2> DEFINE n == IF regs.length >= b.len THEN b.len ELSE regs.length
  <2>1. n \in Word /\ regs.addr \in Nat
    BY DEF Regs
  <2>2. /\ at' = [at EXCEPT ![s] = "write"]
        /\ move' = [move EXCEPT ![s] = [to |-> regs.addr, n |-> n]]
    BY <1>2 DEF Admit
  <2> HIDE DEF n
  <2> QED
    BY <1>0, <2>1, <2>2 DEF SendersTypeOK, HeldOnlyIdle
<1> QED
  BY <1>1, <1>2

LEMMA InitChannelInv == Init => ChannelInv
<1> SUFFICES ASSUME Init PROVE ChannelInv
  OBVIOUS
<1>1. BaseInv
  BY BaseInitInv DEF Init
<1>2. SendersTypeOK /\ HeldOnlyIdle
  BY NothingType DEF Init, SendersTypeOK, HeldOnlyIdle
<1> QED
  BY <1>1, <1>2 DEF ChannelInv

LEMMA ChannelFacts ==
  ASSUME ChannelInv
  PROVE  BaseInv /\ SendersTypeOK /\ HeldOnlyIdle /\ regs \in Regs /\ copied \in Word
BY DEF ChannelInv, BaseInv, BaseTypeOK, Regs

LEMMA SteadyBase ==
  ASSUME ChannelInv, UNCHANGED baseVars
  PROVE  BaseInv' /\ Idle' = Idle
BY DEF ChannelInv, baseVars, BaseInv, BaseTypeOK, IrqFollows, Interrupting, Idle

LEMMA RecheckInv ==
  ASSUME ChannelInv, NEW s \in Senders, Recheck(s)
  PROVE  ChannelInv'
<1>0. SendersTypeOK /\ HeldOnlyIdle /\ regs \in Regs
  BY ChannelFacts
<1>1. Admit(s, beat[s]) /\ UNCHANGED baseVars /\ beat' = beat
  BY DEF Recheck
<1>2. beat[s] \in [len : Word, eop : BOOLEAN]
  BY <1>0 DEF SendersTypeOK
<1> QED
  BY <1>0, <1>1, <1>2, SteadyBase, AdmitInv DEF ChannelInv, SendersTypeOK

LEMMA ArriveInv ==
  ASSUME ChannelInv, NEW s \in Senders, NEW b \in [len : Word, eop : BOOLEAN],
         Arrive(s, b)
  PROVE  ChannelInv'
<1>0. SendersTypeOK /\ HeldOnlyIdle /\ regs \in Regs
  BY ChannelFacts
<1>1. Admit(s, b) /\ UNCHANGED baseVars /\ beat' = [beat EXCEPT ![s] = b]
  BY DEF Arrive
<1>2. beat' \in [Senders -> [len : Word, eop : BOOLEAN]]
  BY <1>0, <1>1 DEF SendersTypeOK
<1> QED
  BY <1>0, <1>1, <1>2, SteadyBase, AdmitInv DEF ChannelInv, SendersTypeOK

LEMMA WriteDoneInv ==
  ASSUME ChannelInv, NEW s \in Senders, WriteDone(s)
  PROVE  ChannelInv'
<1>0. BaseInv /\ SendersTypeOK /\ HeldOnlyIdle /\ regs \in Regs /\ copied \in Word
  BY ChannelFacts
<1> DEFINE m == move[s]
           over == Rest(m) = 0 \/ beat[s].eop
           length == IF over THEN copied' ELSE Rest(m)
           sr == IF over THEN regs.sr \cup {"IDLE", "IOC_IRQ"} ELSE regs.sr
<1>1. m.to \in Nat /\ m.n \in Word /\ m.n \in Int
  BY <1>0, AxiDmaConstants DEF SendersTypeOK, Word
<1>2. /\ copied' = (copied + m.n) % WordMod
      /\ regs' = [regs EXCEPT !.addr = m.to + m.n, !.length = length,
                              !.sr = sr]
      /\ upd' = TRUE /\ irq' = irq
      /\ at' = [at EXCEPT ![s] = "out"]
      /\ beat' = [beat EXCEPT ![s] = NoBeat]
      /\ move' = [move EXCEPT ![s] = NoMove]
  BY DEF WriteDone
<1>3. copied' \in Word
  <2>1. copied + m.n \in Int
    BY <1>0, <1>1, AxiDmaConstants DEF Word
  <2> QED
    BY <1>2, <2>1, WordRange
<1>4. Rest(m) \in Word
  <2>1. regs.length - m.n \in Int
    BY <1>0, <1>1, AxiDmaConstants DEF Regs, Word
  <2> QED
    BY <2>1, WordRange DEF Rest
<1>5. /\ length \in Word /\ m.to + m.n \in Nat
      /\ sr \in SUBSET {"IDLE", "IOC_IRQ"} /\ regs.sr \subseteq sr
  BY <1>0, <1>1, <1>3, <1>4, AxiDmaConstants DEF Regs, Word
<1> HIDE DEF m, length, sr
<1>6. regs' \in Regs /\ regs'.sr = sr
  BY <1>0, <1>2, <1>5 DEF Regs
<1>7. BaseInv'
  BY <1>0, <1>2, <1>3, <1>6 DEF BaseInv, BaseTypeOK, IrqFollows, Regs
<1>8. SendersTypeOK'
  BY <1>0, <1>2, NothingType DEF SendersTypeOK
<1>9. HeldOnlyIdle'
  BY <1>0, <1>2, <1>5, <1>6 DEF HeldOnlyIdle, SendersTypeOK, Idle
<1> QED
  BY <1>7, <1>8, <1>9 DEF ChannelInv

LEMMA IrqsInv == ChannelInv /\ Irqs => ChannelInv'
<1> SUFFICES ASSUME ChannelInv, Irqs PROVE ChannelInv'
  OBVIOUS
<1>1. UpdateIrqs /\ regs' = regs /\ UNCHANGED <<at, beat, move>>
  BY DEF Irqs, UpdateIrqs
<1> QED
  BY <1>1, ChannelFacts, UpdateIrqsInv
     DEF ChannelInv, SendersTypeOK, HeldOnlyIdle, Idle

\* An access to the registers that leaves the senders alone
LEMMA SteadySenders ==
  ASSUME ChannelInv, BaseInv', Idle' = Idle, UNCHANGED <<at, beat, move>>
  PROVE  ChannelInv'
BY DEF ChannelInv, SendersTypeOK, HeldOnlyIdle

LEMMA LengthInv ==
  ASSUME ChannelInv, NEW n \in Word, BusLength(n)
  PROVE  ChannelInv'
<1>1. /\ WriteLength(n)
      /\ at' = [s \in Senders |-> IF at[s] = "wait" THEN "ready" ELSE at[s]]
      /\ beat' = beat /\ move' = move
  BY DEF BusLength
<1>2. SendersTypeOK' /\ HeldOnlyIdle'
  BY <1>1, ChannelFacts DEF SendersTypeOK, HeldOnlyIdle
<1> QED
  BY <1>1, <1>2, ChannelFacts, WriteLengthInv DEF ChannelInv

LEMMA SteadyChannel == ChannelInv /\ UNCHANGED vars => ChannelInv'
BY SteadyBase, SteadySenders DEF vars

LEMMA NextChannelInv == ChannelInv /\ [Next]_vars => ChannelInv'
<1> SUFFICES ASSUME ChannelInv, [Next]_vars PROVE ChannelInv'
  OBVIOUS
<1>1. CASE \E s \in Senders : Sender(s)
  BY <1>1, RecheckInv, WriteDoneInv, ArriveInv, BeatsAssumption DEF Sender
<1>2. CASE BusOther
  BY <1>2, ChannelFacts, AccessOtherInv, SteadySenders DEF BusOther
<1>3. CASE \E n \in LengthIns : BusLength(n)
  BY <1>3, LengthInv, AxiDmaConstants
<1> QED
  BY <1>1, <1>2, <1>3, IrqsInv, SteadyChannel DEF Next

LEMMA AlwaysChannelInv == Spec => []ChannelInv
BY InitChannelInv, NextChannelInv, PTL DEF Spec

\* The registers and what each sender brings keep their types, whatever senders
\* and host do to LENGTH while a copy is under way.
THEOREM S2mmTypeCorrect == Spec => []TypeOK
<1>1. ChannelInv => TypeOK
  BY DEF ChannelInv, BaseInv, TypeOK, SendersTypeOK
<1> QED
  BY <1>1, AlwaysChannelInv, PTL

\* No sender stays blocked in s_b_transport on a channel that the host has
\* started: a sender in the back-pressure wait() means an idle channel.
THEOREM S2mmHeldOnlyIdle == Spec => []HeldOnlyIdle
<1>1. ChannelInv => HeldOnlyIdle
  BY DEF ChannelInv
<1> QED
  BY <1>1, AlwaysChannelInv, PTL

\* Wherever the interrupt line differs from the masked status, update_irqs is
\* about to run.
THEOREM S2mmIrqFollows == Spec => []IrqFollows
<1>1. ChannelInv => IrqFollows
  BY DEF ChannelInv, BaseInv
<1> QED
  BY <1>1, AlwaysChannelInv, PTL
-----------------------------------------------------------------------------
(* Words of packets.  s is the sequence of the lengths, a word is the number *)
(* of its packet and its place in it.                                        *)

Size(s, p) == IF p = 0 THEN 0 ELSE s[p]

IsWord(s, w) ==
  /\ w \in Nat \X Nat
  /\ w[1] \in 1 .. Len(s) /\ w[2] \in 1 .. Size(s, w[1])

Ends(s, w) == w[2] = Size(s, w[1])

\* The word after u
After(s, u) == IF Ends(s, u) THEN <<u[1] + 1, 1>> ELSE <<u[1], u[2] + 1>>

\* The last of the words up to the i-th of packet p
UpTo(s, p, i) == IF i = 0 /\ p > 0 THEN <<p - 1, Size(s, p - 1)>> ELSE <<p, i>>

-----------------------------------------------------------------------------
(* The sending half                                                         *)

\* The words of its packet that the channel has put on the link
Streamed == IF tx = "filled" THEN 0 ELSE Size(sizes, packet) - mRegs.length

Sent == UpTo(sizes, packet, Streamed)

\* The registers and the burst are at that place of the packet, and the
\* interrupt is set only behind its end.
TxInv ==
  /\ mRegs \in Regs
  /\ sizes \in Seq(Sizes) /\ Len(sizes) = packet
  /\ tx \in {"reset", "idle", "filled", "wait"}
  /\ pc \in {"wait", "ready", "read", "stream"}
  /\ tx = "reset" => packet = 0
  /\ tx \in {"filled", "wait"} => packet > 0
  /\ tx # "wait" => pc = "wait" /\ "IOC_IRQ" \notin mRegs.sr
  /\ tx = "filled" => mRegs.addr = 0
  /\ pc = "wait" => mRegs.length = 0
  /\ pc # "wait" => /\ mRegs.length \in 1 .. Size(sizes, packet)
                    /\ "IOC_IRQ" \notin mRegs.sr
  /\ pc = "ready" => mRegs.addr = 0 /\ mRegs.length = Size(sizes, packet)
  /\ pc \in {"read", "stream"} =>
       /\ burst.addr = Size(sizes, packet) - mRegs.length
       /\ burst.len = IF mRegs.length > Burst THEN Burst ELSE mRegs.length
       /\ burst.eop = (burst.len = mRegs.length)
  /\ pc = "stream" => inHand = [k \in 1 .. burst.len |-> <<packet, burst.addr + k>>]

\* The words on the link l are consecutive, up to v.
Linked(s, l, v) ==
  /\ l \in Seq([word : Nat \X Nat, eop : BOOLEAN])
  /\ \A k \in 1 .. Len(l) :
       IsWord(s, l[k].word) /\ (l[k].eop <=> Ends(s, l[k].word))
  /\ \A k \in 1 .. Len(l) - 1 : l[k + 1].word = After(s, l[k].word)
  /\ l # <<>> => l[Len(l)].word = v

SendInv == TxInv /\ Linked(sizes, link, Sent)

-----------------------------------------------------------------------------
(* The receiving half, if no transaction was early                          *)

Here == at[Deliverer]
Beat == beat[Deliverer]

\* The words of the packet that is received that are in memory
Stored == IF rx # "wait" THEN 0 ELSE IF Idle THEN regs.length ELSE copied

Taken == UpTo(sizes, Len(got) + 1, Stored)

\* The last word that has left the link
Front == IF Here = "out" THEN Taken ELSE brought[Beat.len]

RxInv ==
  /\ rx \in {"reset", "idle", "ready", "wait"}
  /\ DOMAIN memory = 0 .. RxSize - 1
  /\ rx = "wait" => posted
  /\ rx = "reset" => ~posted
  /\ ~posted => ~Idle /\ Here = "out"
  /\ rx # "wait" => "IOC_IRQ" \notin regs.sr /\ (posted => Idle)
  /\ rx = "ready" => regs.addr = 0
  /\ rx = "wait" /\ ~Idle =>
       /\ "IOC_IRQ" \notin regs.sr
       /\ regs.addr = copied /\ copied \in 0 .. RxSize /\ regs.length = RxSize - copied
       /\ copied > 0 => Len(got) < packet
       /\ Len(got) < packet => copied < Size(sizes, Len(got) + 1)
  /\ rx = "wait" /\ Idle => Len(got) < packet /\ regs.length = Size(sizes, Len(got) + 1)
  /\ rx = "wait" => \A a \in 0 .. Stored - 1 : memory[a] = <<Len(got) + 1, a + 1>>

\* The words q of transaction b are consecutive and of one packet, and follow u.
Piece(s, b, q, u) ==
  /\ b.len > 0
  /\ q = [k \in 1 .. b.len |-> <<q[1][1], q[1][2] + k - 1>>]
  /\ IsWord(s, q[1]) /\ IsWord(s, q[b.len])
  /\ q[1] = After(s, u)
  /\ b.eop <=> Ends(s, q[b.len])

PieceInv ==
  /\ Here \in {"ready", "write"} => ~Idle /\ rx = "wait"
  /\ Here = "write" => move[Deliverer] = [to |-> copied, n |-> Beat.len]
  /\ Here # "out" => Piece(sizes, Beat, brought, Taken)

FrontInv == IF link = <<>> THEN Front = Sent ELSE link[1].word = After(sizes, Front)

GotInv ==
  /\ got \in Seq(Seq(Nat \X Nat)) /\ Len(got) <= packet
  /\ \A p \in 1 .. Len(got) : got[p] = [k \in 1 .. sizes[p] |-> <<p, k>>]

TakeInv == RxInv /\ PieceInv /\ FrontInv /\ GotInv

LoopInv ==
  /\ ChannelInv
  /\ wired => SendInv
  /\ wired /\ ~early => TakeInv
  /\ ~wired => got = <<>> /\ packet = 0

-----------------------------------------------------------------------------
(* Lemmas on words and sequences of them                                    *)

\* A set of numbers has a smallest one.
LEMMA Smallest ==
  ASSUME NEW D \in SUBSET Nat, D # {}
  PROVE  \E d \in D : \A e \in D : d <= e
<1> DEFINE R == {p \in Nat \X Nat : p[1] < p[2]}
<1>1. IsWellFoundedOn(R, Nat)
  BY NatLessThanWellFounded DEF OpToRel
<1>2. \A d, e \in Nat : e < d => <<e, d>> \in R
  OBVIOUS
<1> HIDE DEF R
<1>3. PICK d \in D : \A e \in D : <<e, d>> \notin R
  BY <1>1, WFMin
<1>4. ASSUME NEW e \in D PROVE d <= e
  <2>1. ~(e < d)
    BY <1>2, <1>3
  <2> QED BY <2>1
<1> QED
  BY <1>4

LEMMA SizeFacts ==
  ASSUME NEW s \in Seq(Sizes)
  PROVE  /\ RxSize \in Nat \ {0} /\ RxSize < WordMod /\ RxSize \in Word
         /\ \A p \in 1 .. Len(s) : s[p] \in 1 .. RxSize /\ Size(s, p) = s[p]
         /\ \A p \in 0 .. Len(s) : Size(s, p) \in 0 .. RxSize
         /\ Size(s, 0) = 0
<1>1. RxSize \in Nat \ {0} /\ RxSize < WordMod /\ RxSize \in Word
  BY LoopConstants, AxiDmaConstants DEF Word
<1>2. ASSUME NEW p \in 1 .. Len(s)
      PROVE  s[p] \in 1 .. RxSize /\ Size(s, p) = s[p]
  <2>1. s[p] \in Sizes /\ p # 0
    OBVIOUS
  <2> QED BY <2>1, LoopConstants DEF Size
<1>3. Size(s, 0) = 0
  BY DEF Size
<1>4. ASSUME NEW p \in 0 .. Len(s) PROVE Size(s, p) \in 0 .. RxSize
  BY <1>1, <1>2, <1>3
<1> QED BY <1>1, <1>2, <1>3, <1>4

\* The word behind the first i of packet p
LEMMA AfterUpTo ==
  ASSUME NEW s \in Seq(Sizes), NEW p \in 1 .. Len(s) + 1, NEW i \in Nat,
         p <= Len(s) => i < Size(s, p), p = Len(s) + 1 => i = 0
  PROVE  After(s, UpTo(s, p, i)) = <<p, i + 1>>
<1>1. CASE i = 0
  BY <1>1 DEF After, UpTo, Ends
<1>2. CASE i # 0
  <2>1. UpTo(s, p, i) = <<p, i>> /\ p <= Len(s) /\ p \in 0 .. Len(s)
    BY <1>2 DEF UpTo
  <2>2. ~Ends(s, <<p, i>>)
    BY <2>1, SizeFacts DEF Ends
  <2> QED BY <2>1, <2>2 DEF After
<1> QED BY <1>1, <1>2

LEMMA GrownSize ==
  ASSUME NEW s \in Seq(Sizes), NEW n \in Sizes, NEW p \in 0 .. Len(s)
  PROVE  Size(Append(s, n), p) = Size(s, p)
BY DEF Size

\* A packet more changes nothing for the words of those before it.
LEMMA Grown ==
  ASSUME NEW s \in Seq(Sizes), NEW n \in Sizes, NEW t, t = Append(s, n)
  PROVE  /\ t \in Seq(Sizes) /\ Len(t) = Len(s) + 1
         /\ \A p \in 0 .. Len(s) : Size(t, p) = Size(s, p)
         /\ Size(t, Len(s) + 1) = n
         /\ \A w : IsWord(s, w) => IsWord(t, w) /\ (Ends(t, w) <=> Ends(s, w))
         /\ \A u : u[1] \in 0 .. Len(s) => After(t, u) = After(s, u)
         /\ \A p \in 0 .. Len(s) + 1, i \in Nat : UpTo(t, p, i) = UpTo(s, p, i)
<1>1. t \in Seq(Sizes) /\ Len(t) = Len(s) + 1 /\ Len(s) \in Nat
  OBVIOUS
<1>3. \A p \in 0 .. Len(s) : Size(t, p) = Size(s, p)
  BY GrownSize
<1>4. Size(t, Len(s) + 1) = n
  BY <1>1 DEF Size
<1>5. ASSUME NEW w, IsWord(s, w)
      PROVE  IsWord(t, w) /\ (Ends(t, w) <=> Ends(s, w))
  <2>1. w \in Nat \X Nat /\ w[1] \in 1 .. Len(s) /\ w[2] \in 1 .. Size(s, w[1])
    BY <1>5 DEF IsWord
  <2>2. Size(t, w[1]) = Size(s, w[1])
    BY <1>3, <2>1
  <2> QED BY <1>1, <2>1, <2>2 DEF IsWord, Ends
<1>6. ASSUME NEW u, u[1] \in 0 .. Len(s) PROVE After(t, u) = After(s, u)
  BY <1>3, <1>6 DEF After, Ends
<1>7. ASSUME NEW p \in 0 .. Len(s) + 1, NEW i \in Nat
      PROVE  UpTo(t, p, i) = UpTo(s, p, i)
  <2>1. p > 0 => Size(t, p - 1) = Size(s, p - 1)
    BY <1>1, <1>3
  <2> QED BY <2>1 DEF UpTo
<1> QED BY <1>1, <1>3, <1>4, <1>5, <1>6, <1>7

LinkWord == [word : Nat \X Nat, eop : BOOLEAN]

LEMMA LinkedGrown ==
  ASSUME NEW s \in Seq(Sizes), NEW n \in Sizes, NEW t, t = Append(s, n),
         NEW l, NEW v, Linked(s, l, v)
  PROVE  Linked(t, l, v)
<1>1. /\ l \in Seq(LinkWord)
      /\ \A k \in 1 .. Len(l) :
           IsWord(s, l[k].word) /\ (l[k].eop <=> Ends(s, l[k].word))
      /\ \A k \in 1 .. Len(l) - 1 : l[k + 1].word = After(s, l[k].word)
      /\ l # <<>> => l[Len(l)].word = v
  BY DEF Linked, LinkWord
<1>2. ASSUME NEW k \in 1 .. Len(l)
      PROVE  IsWord(t, l[k].word) /\ (l[k].eop <=> Ends(t, l[k].word))
  <2>1. IsWord(s, l[k].word) /\ (l[k].eop <=> Ends(s, l[k].word))
    BY <1>1
  <2> QED BY <2>1, Grown
<1>3. ASSUME NEW k \in 1 .. Len(l) - 1
      PROVE  l[k + 1].word = After(t, l[k].word)
  <2>1. k \in 1 .. Len(l) /\ l[k + 1].word = After(s, l[k].word)
    BY <1>1
  <2>2. l[k].word[1] \in 0 .. Len(s)
    <3>1. l[k].word[1] \in 1 .. Len(s)
      BY <1>1, <2>1 DEF IsWord
    <3> QED BY <3>1
  <2>3. \A u : u[1] \in 0 .. Len(s) => After(t, u) = After(s, u)
    BY Grown
  <2> QED BY <2>1, <2>2, <2>3
<1> QED BY <1>1, <1>2, <1>3 DEF Linked, LinkWord

\* A burst of n words, behind the first i of packet p
BurstOf(p, i, n, e) ==
  [k \in 1 .. n |-> [word |-> <<p, i + k>>, eop |-> e /\ k = n]]

LEMMA LinkedAppend ==
  ASSUME NEW s \in Seq(Sizes), NEW l, NEW p \in 1 .. Len(s), NEW i \in Nat,
         NEW n \in Nat \ {0}, i + n <= Size(s, p), NEW e \in BOOLEAN,
         e <=> i + n = Size(s, p), Linked(s, l, UpTo(s, p, i))
  PROVE  /\ Linked(s, l \o BurstOf(p, i, n, e), UpTo(s, p, i + n))
         /\ l \o BurstOf(p, i, n, e) # <<>>
         /\ (l \o BurstOf(p, i, n, e))[1].word =
              IF l = <<>> THEN After(s, UpTo(s, p, i)) ELSE l[1].word
<1> DEFINE b == BurstOf(p, i, n, e)
           c == l \o b
<1>1. /\ l \in Seq(LinkWord)
      /\ \A k \in 1 .. Len(l) :
           IsWord(s, l[k].word) /\ (l[k].eop <=> Ends(s, l[k].word))
      /\ \A k \in 1 .. Len(l) - 1 : l[k + 1].word = After(s, l[k].word)
      /\ l # <<>> => l[Len(l)].word = UpTo(s, p, i)
  BY DEF Linked, LinkWord
<1>3. p \in Nat /\ Len(s) \in Nat /\ Size(s, p) \in Nat /\ RxSize \in Nat
  BY SizeFacts
<1>2. /\ b \in Seq(LinkWord) /\ Len(b) = n
      /\ \A k \in 1 .. n : b[k].word = <<p, i + k>> /\ (b[k].eop <=> (e /\ k = n))
  <2>1. ASSUME NEW k \in 1 .. n
        PROVE  [word |-> <<p, i + k>>, eop |-> e /\ k = n] \in LinkWord
    <3>1. <<p, i + k>> \in Nat \X Nat /\ (e /\ k = n) \in BOOLEAN
      BY <1>3
    <3> QED BY <3>1 DEF LinkWord
  <2>2. b \in [1 .. n -> LinkWord]
    BY <2>1 DEF BurstOf
  <2>3. b \in Seq(LinkWord) /\ Len(b) = n
    BY <2>2
  <2>4. \A k \in 1 .. n : b[k] = [word |-> <<p, i + k>>, eop |-> e /\ k = n]
    BY DEF BurstOf
  <2>5. ASSUME NEW k \in 1 .. n
        PROVE  b[k].word = <<p, i + k>> /\ (b[k].eop <=> (e /\ k = n))
    <3> DEFINE f == e /\ k = n
    <3>1. b[k] = [word |-> <<p, i + k>>, eop |-> f]
      BY <2>4
    <3> HIDE DEF f
    <3>2. b[k].word = <<p, i + k>> /\ b[k].eop = f
      BY <3>1
    <3> QED BY <3>2, Zenon DEF f
  <2> HIDE DEF b
  <2> QED BY <2>3, <2>5
<1>4. ASSUME NEW k \in 1 .. n
      PROVE  /\ IsWord(s, b[k].word) /\ (b[k].eop <=> Ends(s, b[k].word))
             /\ b[k].word = After(s, UpTo(s, p, i + k - 1))
  <2>1. i + k \in 1 .. Size(s, p) /\ i + k - 1 \in Nat /\ i + k - 1 < Size(s, p)
    BY <1>3
  <2>2. IsWord(s, b[k].word)
    <3>1. b[k].word = <<p, i + k>> /\ i + k \in Nat
      BY <1>2, <2>1
    <3> QED BY <1>3, <2>1, <3>1 DEF IsWord
  <2>3. b[k].eop <=> Ends(s, b[k].word)
    BY <1>2, <1>3 DEF Ends
  <2>4. After(s, UpTo(s, p, i + k - 1)) = <<p, i + k>>
    <3>1. p \in 1 .. Len(s) + 1 /\ p # Len(s) + 1
      BY <1>3
    <3>2. After(s, UpTo(s, p, i + k - 1)) = <<p, (i + k - 1) + 1>>
      BY <2>1, <3>1, AfterUpTo
    <3>3. (i + k - 1) + 1 = i + k
      BY <1>3
    <3> QED BY <3>2, <3>3
  <2> QED BY <1>2, <2>2, <2>3, <2>4
<1>5. ASSUME NEW k \in 1 .. n PROVE UpTo(s, p, i + k) = b[k].word
  <2>1. i + k # 0 /\ b[k].word = <<p, i + k>>
    BY <1>2
  <2> QED BY <2>1 DEF UpTo
<1> HIDE DEF b
<1>6. c \in Seq(LinkWord) /\ Len(c) = Len(l) + n /\ Len(l) \in Nat
  <2>1. l \in Seq(LinkWord) /\ b \in Seq(LinkWord) /\ Len(b) = n
    BY <1>1, <1>2
  <2> QED BY <2>1
<1>7. ASSUME NEW k \in 1 .. Len(c)
      PROVE  c[k] = IF k <= Len(l) THEN l[k] ELSE b[k - Len(l)]
  BY <1>1, <1>2, <1>6
<1> HIDE DEF c
<1>8. ASSUME NEW k \in 1 .. Len(c)
      PROVE  IsWord(s, c[k].word) /\ (c[k].eop <=> Ends(s, c[k].word))
  <2>1. CASE k <= Len(l)
    BY <1>1, <1>6, <1>7, <2>1
  <2>2. CASE k > Len(l)
    <3>1. k - Len(l) \in 1 .. n
      BY <1>6, <2>2
    <3>2. c[k] = b[k - Len(l)]
      BY <1>6, <1>7, <2>2
    <3> QED BY <1>4, <3>1, <3>2
  <2> QED BY <1>6, <2>1, <2>2
<1>9. ASSUME NEW k \in 1 .. Len(c) - 1
      PROVE  c[k + 1].word = After(s, c[k].word)
  <2>0. k \in 1 .. Len(c) /\ k + 1 \in 1 .. Len(c)
    BY <1>6
  <2>1. CASE k < Len(l)
    <3>1. c[k] = l[k] /\ c[k + 1] = l[k + 1] /\ k \in 1 .. Len(l) - 1
      BY <1>6, <1>7, <2>0, <2>1
    <3> QED BY <1>1, <3>1
  <2>2. CASE k = Len(l)
    <3>1. c[k] = l[Len(l)] /\ c[k + 1] = b[1] /\ l # <<>>
      BY <1>1, <1>6, <1>7, <2>0, <2>2
    <3>2. b[1].word = After(s, UpTo(s, p, i + 1 - 1)) /\ i + 1 - 1 = i
      BY <1>4
    <3> QED BY <1>1, <3>1, <3>2
  <2>3. CASE k > Len(l)
    <3>1. PICK j \in 1 .. n - 1 : j = k - Len(l)
      BY <1>6, <2>3
    <3>2. c[k] = b[j] /\ c[k + 1] = b[j + 1] /\ j \in 1 .. n /\ j + 1 \in 1 .. n
      <4>1. /\ k - Len(l) = j /\ (k + 1) - Len(l) = j + 1
            /\ ~(k <= Len(l)) /\ ~(k + 1 <= Len(l)) /\ j \in 1 .. n /\ j + 1 \in 1 .. n
        BY <1>6, <2>3, <3>1
      <4> QED BY <1>7, <2>0, <4>1
    <3>3. b[j + 1].word = After(s, UpTo(s, p, i + (j + 1) - 1)) /\ i + (j + 1) - 1 = i + j
      BY <1>4, <3>2
    <3>4. UpTo(s, p, i + j) = b[j].word
      BY <1>5, <3>2
    <3> QED BY <3>2, <3>3, <3>4
  <2> QED BY <1>6, <2>1, <2>2, <2>3
<1>10. c # <<>> /\ c[Len(c)].word = UpTo(s, p, i + n)
  <2>1. n \in 1 .. n /\ Len(c) \in 1 .. Len(c) /\ c[Len(c)] = b[n]
    BY <1>6, <1>7
  <2> QED BY <1>5, <1>6, <2>1
<1>11. c[1].word = IF l = <<>> THEN After(s, UpTo(s, p, i)) ELSE l[1].word
  <2>1. 1 \in 1 .. Len(c)
    BY <1>6
  <2>2. CASE l = <<>>
    <3>1. Len(l) = 0 /\ c[1] = b[1]
      BY <1>7, <2>1, <2>2
    <3>2. b[1].word = After(s, UpTo(s, p, i + 1 - 1)) /\ i + 1 - 1 = i
      BY <1>4
    <3> QED BY <2>2, <3>1, <3>2
  <2>3. CASE l # <<>>
    <3>1. 1 <= Len(l)
      BY <1>1, <2>3
    <3> QED BY <1>7, <2>1, <2>3, <3>1
  <2> QED BY <2>2, <2>3
<1>12. Linked(s, c, UpTo(s, p, i + n))
  BY <1>6, <1>8, <1>9, <1>10 DEF Linked, LinkWord
<1> QED BY <1>10, <1>11, <1>12 DEF c, b

\* What is left when the first n words are gone
LEMMA LinkedTail ==
  ASSUME NEW s \in Seq(Sizes), NEW l, NEW v, Linked(s, l, v), NEW n \in 1 .. Len(l)
  PROVE  LET c == SubSeq(l, n + 1, Len(l))
         IN /\ Linked(s, c, v)
            /\ IF c = <<>> THEN l[n].word = v
               ELSE c[1].word = After(s, l[n].word)
<1> DEFINE c == SubSeq(l, n + 1, Len(l))
<1>1. /\ l \in Seq(LinkWord)
      /\ \A k \in 1 .. Len(l) :
           IsWord(s, l[k].word) /\ (l[k].eop <=> Ends(s, l[k].word))
      /\ \A k \in 1 .. Len(l) - 1 : l[k + 1].word = After(s, l[k].word)
      /\ l # <<>> => l[Len(l)].word = v
  BY DEF Linked, LinkWord
<1>2. /\ c \in Seq(LinkWord) /\ Len(c) = Len(l) - n /\ Len(l) \in Nat
      /\ \A k \in 1 .. Len(c) : c[k] = l[n + k]
  BY <1>1
<1>3. l # <<>>
  BY <1>2
<1> HIDE DEF c
<1>4. ASSUME NEW k \in 1 .. Len(c)
      PROVE  IsWord(s, c[k].word) /\ (c[k].eop <=> Ends(s, c[k].word))
  <2>1. n + k \in 1 .. Len(l) /\ c[k] = l[n + k]
    BY <1>2
  <2> QED BY <1>1, <2>1
<1>5. ASSUME NEW k \in 1 .. Len(c) - 1
      PROVE  c[k + 1].word = After(s, c[k].word)
  <2>1. /\ k \in 1 .. Len(c) /\ k + 1 \in 1 .. Len(c)
        /\ n + k \in 1 .. Len(l) - 1 /\ n + (k + 1) = (n + k) + 1
    BY <1>2
  <2>2. c[k] = l[n + k] /\ c[k + 1] = l[n + (k + 1)]
    BY <1>2, <2>1
  <2>3. l[(n + k) + 1].word = After(s, l[n + k].word)
    BY <1>1, <2>1
  <2> QED BY <2>1, <2>2, <2>3
<1>6. c # <<>> => c[Len(c)].word = v
  <2>1. ASSUME c # <<>> PROVE c[Len(c)] = l[Len(l)]
    <3>1. Len(c) \in 1 .. Len(c) /\ n + Len(c) = Len(l)
      BY <1>2, <2>1
    <3> QED BY <1>2, <3>1
  <2> QED BY <1>1, <1>3, <2>1
<1>7. IF c = <<>> THEN l[n].word = v ELSE c[1].word = After(s, l[n].word)
  <2>1. CASE c = <<>>
    <3>1. n = Len(l)
      BY <1>2, <2>1
    <3> QED BY <1>1, <1>3, <2>1, <3>1
  <2>2. CASE c # <<>>
    <3>1. 1 \in 1 .. Len(c) /\ n \in 1 .. Len(l) - 1
      BY <1>2, <2>2
    <3>2. c[1] = l[n + 1]
      BY <1>2, <3>1
    <3> QED BY <1>1, <2>2, <3>1, <3>2
  <2> QED BY <2>1, <2>2
<1>8. Linked(s, c, v)
  BY <1>2, <1>4, <1>5, <1>6 DEF Linked, LinkWord
<1> QED BY <1>7, <1>8 DEF c

\* The first n words, none of which but the last ends a packet, are of one.
LEMMA LinkedHead ==
  ASSUME NEW s \in Seq(Sizes), NEW l, NEW v, Linked(s, l, v), NEW n \in 1 .. Len(l),
         \A k \in 1 .. n - 1 : ~l[k].eop
  PROVE  \A k \in 1 .. n : l[k].word = <<l[1].word[1], l[1].word[2] + k - 1>>
<1>1. /\ l \in Seq(LinkWord)
      /\ \A k \in 1 .. Len(l) :
           IsWord(s, l[k].word) /\ (l[k].eop <=> Ends(s, l[k].word))
      /\ \A k \in 1 .. Len(l) - 1 : l[k + 1].word = After(s, l[k].word)
  BY DEF Linked, LinkWord
<1> DEFINE w == l[1].word
           Straight(k) == l[k].word = <<w[1], w[2] + k - 1>>
           D == {k \in 1 .. n : ~Straight(k)}
<1>2. w \in Nat \X Nat /\ Len(l) \in Nat /\ n \in Nat
  <2>1. 1 \in 1 .. Len(l) /\ Len(l) \in Nat
    BY <1>1
  <2> QED BY <1>1, <2>1 DEF IsWord
<1>3. Straight(1)
  BY <1>2
<1>4. ASSUME NEW k \in 1 .. n - 1, Straight(k) PROVE Straight(k + 1)
  <2>1. k \in 1 .. Len(l) - 1 /\ k \in 1 .. Len(l)
    BY <1>2
  <2>2. l[k + 1].word = After(s, l[k].word) /\ ~Ends(s, l[k].word)
    BY <1>1, <2>1
  <2>3. l[k + 1].word = <<l[k].word[1], l[k].word[2] + 1>>
    BY <2>2 DEF After
  <2>4. l[k].word[1] = w[1] /\ l[k].word[2] = w[2] + k - 1
    BY <1>4
  <2>5. w[2] \in Nat
    BY <1>2
  <2>6. l[k].word[2] + 1 = w[2] + (k + 1) - 1
    BY <2>4, <2>5
  <2> QED BY <2>3, <2>4, <2>6
<1>5. D = {}
  <2> SUFFICES ASSUME D # {} PROVE FALSE
    OBVIOUS
  <2>1. D \subseteq Nat
    OBVIOUS
  <2>2. PICK d \in D : \A e \in D : d <= e
    <3> HIDE DEF D
    <3> QED BY <2>1, Smallest
  <2>3. d # 1
    BY <1>3
  <2>4. d - 1 \in 1 .. n - 1 /\ (d - 1) + 1 = d /\ d - 1 \in 1 .. n /\ ~(d <= d - 1)
    BY <1>2, <2>3
  <2>5. Straight(d - 1)
    <3>1. d - 1 \notin D
      BY <2>2, <2>4
    <3> HIDE DEF Straight
    <3> QED BY <2>4, <3>1
  <2>6. Straight((d - 1) + 1)
    <3> HIDE DEF Straight, D
    <3> QED BY <1>4, <2>4, <2>5
  <2>7. Straight(d)
    <3> HIDE DEF Straight, D
    <3> QED BY <2>4, <2>6
  <2> QED BY <2>7
<1> QED BY <1>5

-----------------------------------------------------------------------------
(* The steps of the sending half                                            *)

LEMMA TxFacts ==
  ASSUME TxInv
  PROVE  /\ mRegs \in Regs /\ sizes \in Seq(Sizes) /\ Len(sizes) = packet
         /\ packet \in Nat /\ RxSize \in Nat /\ Size(sizes, 0) = 0
         /\ Size(sizes, packet) \in 0 .. RxSize /\ Size(sizes, packet) \in Word
         /\ packet > 0 => /\ Size(sizes, packet) \in 1 .. RxSize
                          /\ sizes[packet] = Size(sizes, packet)
         /\ mRegs.length \in Nat /\ mRegs.length < WordMod /\ WordMod \in Nat
<1>1. sizes \in Seq(Sizes) /\ Len(sizes) = packet /\ mRegs \in Regs
  BY DEF TxInv
<1>2. packet \in Nat /\ packet \in 0 .. Len(sizes)
  BY <1>1
<1>3. Size(sizes, packet) \in 0 .. RxSize
  BY <1>1, <1>2, SizeFacts
<1>4. packet > 0 => /\ Size(sizes, packet) \in 1 .. RxSize
                    /\ sizes[packet] = Size(sizes, packet)
  <2>1. packet > 0 => packet \in 1 .. Len(sizes)
    BY <1>1, <1>2
  <2> QED BY <1>1, <2>1, SizeFacts
<1>5. RxSize \in Nat /\ RxSize < WordMod /\ Size(sizes, 0) = 0
  BY <1>1, SizeFacts
<1>6. Size(sizes, packet) \in Word
  BY <1>3, <1>5, AxiDmaConstants DEF Word
<1>7. mRegs.length \in Nat /\ mRegs.length < WordMod /\ WordMod \in Nat
  BY <1>1, AxiDmaConstants DEF Regs, Word
<1> QED BY <1>1, <1>2, <1>3, <1>4, <1>5, <1>6, <1>7

\* The sender's driver between its packets puts nothing on the link.
LEMMA TxStepInv ==
  ASSUME TxInv, UNCHANGED <<inHand, link>>,
         TxEnable \/ TxGo \/ TxDone
  PROVE  TxInv' /\ Sent' = Sent /\ UNCHANGED <<packet, sizes>>
<1>1. CASE TxEnable
  <2>1. /\ tx = "reset" /\ tx' = "idle" /\ pc' = pc /\ burst' = burst
        /\ packet' = packet /\ sizes' = sizes /\ inHand' = inHand
        /\ mRegs' = [mRegs EXCEPT !.cr = {"IOC_IRQ_EN"}]
    BY <1>1 DEF TxEnable, M!WriteCr
  <2>2. /\ mRegs' \in Regs /\ mRegs'.length = mRegs.length /\ mRegs'.sr = mRegs.sr
        /\ mRegs'.addr = mRegs.addr
    BY <2>1, TxFacts DEF Regs
  <2>3. TxInv'
    BY <2>1, <2>2 DEF TxInv
  <2>4. Sent' = Sent
    BY <2>1, <2>2 DEF Sent, Streamed
  <2> QED BY <2>1, <2>3, <2>4
<1>2. CASE TxGo
  <2> DEFINE n == sizes[packet]
  <2>1. /\ tx = "filled" /\ tx' = "wait" /\ packet' = packet /\ sizes' = sizes
        /\ mRegs' = [mRegs EXCEPT !.length = n, !.sr = @ \ {"IDLE"}]
        /\ pc' = (IF pc = "wait" THEN "ready" ELSE pc) /\ burst' = burst
        /\ inHand' = inHand
    BY <1>2 DEF TxGo, M!BusLength, M!WriteLength
  <2>2. /\ packet > 0 /\ pc = "wait" /\ "IOC_IRQ" \notin mRegs.sr /\ mRegs.addr = 0
        /\ mRegs.length = 0
    BY <2>1 DEF TxInv
  <2>3. n \in Word /\ n = Size(sizes, packet) /\ n \in 1 .. RxSize
    BY <2>2, TxFacts
  <2> HIDE DEF n
  <2>4. /\ mRegs' \in Regs /\ mRegs'.length = n /\ "IOC_IRQ" \notin mRegs'.sr
        /\ mRegs'.addr = 0
    BY <2>1, <2>2, <2>3, TxFacts DEF Regs
  <2>5. TxInv'
    BY <2>1, <2>2, <2>3, <2>4, TxFacts DEF TxInv
  <2>6. Sent' = Sent
    BY <2>1, <2>3, <2>4, TxFacts DEF Sent, Streamed
  <2> QED BY <2>1, <2>5, <2>6
<1>3. CASE TxDone
  <2>1. /\ tx = "wait" /\ tx' = "idle" /\ packet' = packet /\ sizes' = sizes
        /\ "IOC_IRQ" \in mRegs.sr
        /\ mRegs' = [mRegs EXCEPT !.sr = @ \ ({"IOC_IRQ"} \cap {"IOC_IRQ"})]
        /\ pc' = pc /\ burst' = burst /\ inHand' = inHand
    BY <1>3 DEF TxDone, M!WriteSr
  <2>2. pc = "wait" /\ packet > 0
    BY <2>1 DEF TxInv
  <2>3. /\ mRegs' \in Regs /\ mRegs'.length = mRegs.length
        /\ "IOC_IRQ" \notin mRegs'.sr
    BY <2>1, TxFacts DEF Regs
  <2>4. TxInv'
    BY <2>1, <2>2, <2>3, TxFacts DEF TxInv
  <2>5. Sent' = Sent
    BY <2>1, <2>3 DEF Sent, Streamed
  <2> QED BY <2>1, <2>4, <2>5
<1> QED BY <1>1, <1>2, <1>3

LEMMA TxFillInv ==
  ASSUME TxInv, NEW n \in Sizes, TxFill(n), UNCHANGED <<inHand, link>>
  PROVE  /\ TxInv' /\ Sent' = Sent
         /\ sizes' = Append(sizes, n) /\ packet' = packet + 1
<1>1. /\ tx = "idle" /\ tx' = "filled" /\ packet' = packet + 1
      /\ sizes' = Append(sizes, n) /\ pc' = pc /\ burst' = burst /\ inHand' = inHand
      /\ mRegs' = [mRegs EXCEPT !.addr = 0]
  BY DEF TxFill, M!WriteAddr
<1>2. pc = "wait" /\ "IOC_IRQ" \notin mRegs.sr /\ mRegs.length = 0
  BY <1>1 DEF TxInv
<1>3. /\ mRegs' \in Regs /\ mRegs'.length = 0 /\ mRegs'.sr = mRegs.sr
      /\ mRegs'.addr = 0
  BY <1>1, <1>2, TxFacts DEF Regs
<1>4. /\ sizes \in Seq(Sizes) /\ Len(sizes) = packet /\ packet \in Nat
      /\ sizes' \in Seq(Sizes) /\ Len(sizes') = packet'
  BY <1>1, TxFacts
<1>5. TxInv'
  BY <1>1, <1>2, <1>3, <1>4 DEF TxInv
<1>6. Sent' = Sent
  <2>1. Sent' = UpTo(sizes', packet + 1, 0)
    BY <1>1 DEF Sent, Streamed
  <2>2. Size(sizes', packet) = Size(sizes, packet)
    <3>1. packet \in 0 .. Len(sizes)
      BY <1>4
    <3> QED BY <1>1, <1>4, <3>1, GrownSize
  <2>3. Sent' = <<packet, Size(sizes, packet)>>
    BY <1>4, <2>1, <2>2 DEF UpTo
  <2>4. Sent = UpTo(sizes, packet, Size(sizes, packet))
    BY <1>1, <1>2, TxFacts DEF Sent, Streamed
  <2>5. Sent = <<packet, Size(sizes, packet)>>
    BY <2>4, TxFacts DEF UpTo
  <2> QED BY <2>3, <2>5
<1> QED BY <1>1, <1>5, <1>6

LEMMA Mm2sStepInv ==
  ASSUME TxInv, Read \/ ((M!Wake \/ M!Irqs) /\ UNCHANGED <<inHand, link>>),
         UNCHANGED txVars
  PROVE  TxInv' /\ Sent' = Sent /\ UNCHANGED <<packet, sizes, link>>
<1>1. tx' = tx /\ packet' = packet /\ sizes' = sizes
  BY DEF txVars
<1>2. CASE Read
  <2>1. /\ pc = "read" /\ pc' = "stream" /\ mRegs' = mRegs /\ burst' = burst
        /\ inHand' = [k \in 1 .. burst.len |-> <<packet, burst.addr + k>>]
        /\ link' = link
    BY <1>2 DEF Read, M!ReadDone, M!baseVars
  <2>2. TxInv' /\ Sent' = Sent
    BY <1>1, <2>1 DEF TxInv, Sent, Streamed
  <2> QED BY <1>1, <2>1, <2>2
<1>3. CASE M!Wake /\ UNCHANGED <<inHand, link>>
  <2> DEFINE n == IF mRegs.length > Burst THEN Burst ELSE mRegs.length
  <2>1. /\ pc = "ready" /\ pc' = "read" /\ mRegs' = mRegs /\ link' = link
        /\ burst' = [addr |-> mRegs.addr, len |-> n, eop |-> n = mRegs.length]
        /\ inHand' = inHand
    BY <1>3 DEF M!Wake, M!Issue, M!baseVars
  <2>2. /\ burst'.addr = mRegs.addr /\ burst'.len = n
        /\ burst'.eop = (n = mRegs.length)
    <3> DEFINE e == n = mRegs.length
    <3>1. burst' = [addr |-> mRegs.addr, len |-> n, eop |-> e]
      BY <2>1
    <3> HIDE DEF n, e
    <3>2. burst'.addr = mRegs.addr /\ burst'.len = n /\ burst'.eop = e
      BY <3>1
    <3> QED BY <3>2, Zenon DEF e
  <2>3. /\ mRegs.addr = 0 /\ mRegs.length = Size(sizes, packet) /\ tx = "wait"
        /\ packet > 0 /\ "IOC_IRQ" \notin mRegs.sr
    BY <2>1 DEF TxInv
  <2>4. TxInv'
    BY <1>1, <2>1, <2>2, <2>3, TxFacts DEF TxInv
  <2>5. Sent' = Sent
    BY <1>1, <2>1 DEF Sent, Streamed
  <2> QED BY <1>1, <2>1, <2>4, <2>5
<1>4. CASE M!Irqs /\ UNCHANGED <<inHand, link>>
  BY <1>1, <1>4 DEF M!Irqs, M!UpdateIrqs, TxInv, Sent, Streamed
<1> QED BY <1>2, <1>3, <1>4

LEMMA StreamInv ==
  ASSUME SendInv, Stream, UNCHANGED txVars
  PROVE  /\ SendInv' /\ UNCHANGED <<packet, sizes>>
         /\ link' # <<>>
         /\ link'[1].word = IF link = <<>> THEN After(sizes, Sent) ELSE link[1].word
<1> DEFINE n == (mRegs.length - burst.len) % WordMod
           i == burst.addr
           size == Size(sizes, packet)
           sr == IF n = 0 THEN mRegs.sr \cup {"IDLE", "IOC_IRQ"} ELSE mRegs.sr
           r == [mRegs EXCEPT !.length = n, !.addr = i + burst.len, !.sr = sr]
           m == IF n > Burst THEN Burst ELSE n
<1>1. /\ pc = "stream" /\ mRegs' = r
      /\ IF n = 0 THEN pc' = "wait" /\ burst' = M!NoBurst
         ELSE pc' = "read" /\ burst' = [addr |-> r.addr,
                len |-> IF r.length > Burst THEN Burst ELSE r.length,
                eop |-> (IF r.length > Burst THEN Burst ELSE r.length) = r.length]
      /\ link' = link \o [k \in 1 .. burst.len |->
                   [word |-> inHand[k], eop |-> burst.eop /\ k = burst.len]]
      /\ inHand' = <<>>
  BY DEF Stream, M!StreamDone, M!Issue, M!Finished
<1>2. tx' = tx /\ packet' = packet /\ sizes' = sizes
  BY DEF txVars
<1>3. TxInv /\ Linked(sizes, link, Sent)
  BY DEF SendInv
<1>4. /\ tx = "wait" /\ packet > 0 /\ mRegs.length \in 1 .. size
      /\ "IOC_IRQ" \notin mRegs.sr
      /\ i = size - mRegs.length
      /\ burst.len = (IF mRegs.length > Burst THEN Burst ELSE mRegs.length)
      /\ burst.eop = (burst.len = mRegs.length)
  BY <1>1, <1>3 DEF TxInv
<1>5. inHand = [k \in 1 .. burst.len |-> <<packet, i + k>>]
  BY <1>1, <1>3 DEF TxInv
<1>6. /\ size \in Nat /\ mRegs.length \in Nat /\ mRegs.length < WordMod
      /\ WordMod \in Nat /\ mRegs \in Regs /\ packet \in 1 .. Len(sizes)
      /\ sizes \in Seq(Sizes) /\ Len(sizes) = packet
  BY <1>3, <1>4, TxFacts
<1>7. /\ burst.len \in Nat \ {0} /\ burst.len <= mRegs.length /\ i \in Nat
      /\ i + burst.len <= size /\ burst.eop \in BOOLEAN
      /\ burst.eop <=> i + burst.len = size
  <2> HIDE DEF i, size
  <2>1. burst.len \in Nat \ {0} /\ burst.len <= mRegs.length /\ i \in Nat
    BY <1>4, <1>6, LoopConstants
  <2>2. (burst.len = mRegs.length) \in BOOLEAN
    OBVIOUS
  <2>3. burst.eop \in BOOLEAN
    BY <1>4, <2>2, Zenon
  <2>4. i + burst.len <= size /\ (burst.len = mRegs.length <=> i + burst.len = size)
    <3>1. PICK x \in Nat, y \in Nat, z \in Nat :
                 x = burst.len /\ y = mRegs.length /\ z = size
      BY <1>6, <2>1
    <3>2. i = z - y /\ x <= y
      BY <1>4, <2>1, <3>1
    <3>3. i + x <= z /\ (x = y <=> i + x = z)
      BY <3>2
    <3> QED BY <3>1, <3>3
  <2>5. burst.eop <=> burst.len = mRegs.length
    BY <1>4, Zenon
  <2> QED BY <2>1, <2>3, <2>4, <2>5
<1>8. n = mRegs.length - burst.len /\ n \in Nat /\ n < WordMod
  <2>1. PICK d \in Nat : d = mRegs.length - burst.len /\ d < WordMod
    BY <1>6, <1>7
  <2>2. d % WordMod = d
    BY <1>6, <2>1, Z3
  <2> QED BY <2>1, <2>2
<1>9. /\ mRegs' \in Regs /\ mRegs'.length = n /\ mRegs'.addr = i + burst.len
      /\ n # 0 => mRegs'.sr = mRegs.sr
  <2>0. sr \in SUBSET {"IDLE", "IOC_IRQ"} /\ (n # 0 => sr = mRegs.sr)
    BY <1>6 DEF Regs
  <2> HIDE DEF n, i, sr
  <2>1. n \in Word /\ i + burst.len \in Nat
    BY <1>6, <1>7, <1>8 DEF Word
  <2> QED BY <1>1, <1>6, <2>0, <2>1 DEF Regs
<1>10. link' = link \o BurstOf(packet, i, burst.len, burst.eop)
  <2>1. \A k \in 1 .. burst.len : inHand[k] = <<packet, i + k>>
    BY <1>5
  <2> HIDE DEF i
  <2>2. [k \in 1 .. burst.len |-> [word |-> inHand[k], eop |-> burst.eop /\ k = burst.len]]
        = BurstOf(packet, i, burst.len, burst.eop)
    BY <2>1 DEF BurstOf
  <2> QED BY <1>1, <2>2
<1>11. /\ Sent = UpTo(sizes, packet, i)
       /\ Sent' = UpTo(sizes, packet, i + burst.len)
  <2>1. Streamed = size - mRegs.length /\ Streamed' = size - n
    BY <1>2, <1>4, <1>9 DEF Streamed
  <2>2. Streamed = i
    BY <1>4, <2>1
  <2>3. Streamed' = i + burst.len
    <3> HIDE DEF i, n, size
    <3>1. PICK x \in Nat, y \in Nat, z \in Nat :
                 x = burst.len /\ y = mRegs.length /\ z = size
      BY <1>6, <1>7
    <3>2. i = z - y /\ n = y - x
      BY <1>4, <1>8, <3>1
    <3>3. z - n = i + x
      BY <3>2
    <3> QED BY <2>1, <3>1, <3>3
  <2> QED BY <1>2, <2>2, <2>3 DEF Sent
<1>12. /\ Linked(sizes, link', Sent') /\ link' # <<>>
       /\ link'[1].word = IF link = <<>> THEN After(sizes, Sent) ELSE link[1].word
  <2>1. Linked(sizes, link, UpTo(sizes, packet, i)) /\ i + burst.len <= Size(sizes, packet)
        /\ (burst.eop <=> i + burst.len = Size(sizes, packet))
    BY <1>3, <1>7, <1>11
  <2>2. packet \in 1 .. Len(sizes) /\ i \in Nat /\ burst.len \in Nat \ {0}
        /\ burst.eop \in BOOLEAN /\ sizes \in Seq(Sizes)
    BY <1>6, <1>7
  <2> HIDE DEF i, size
  <2>3. ASSUME NEW p, NEW j, NEW k, NEW e,
               p = packet, j = i, k = burst.len, e = burst.eop
        PROVE  LET l == link \o BurstOf(p, j, k, e)
               IN /\ Linked(sizes, l, UpTo(sizes, p, j + k)) /\ l # <<>>
                  /\ l[1].word = IF link = <<>> THEN After(sizes, UpTo(sizes, p, j))
                                 ELSE link[1].word
    <3>1. /\ Linked(sizes, link, UpTo(sizes, p, j)) /\ j + k <= Size(sizes, p)
          /\ (e <=> j + k = Size(sizes, p))
          /\ p \in 1 .. Len(sizes) /\ j \in Nat /\ k \in Nat \ {0}
          /\ e \in BOOLEAN /\ sizes \in Seq(Sizes)
      BY <2>1, <2>2, <2>3
    <3> QED BY <3>1, LinkedAppend
  <2> QED BY <1>10, <1>11, <2>3
<1>13. TxInv'
  <2>1. CASE n = 0
    BY <1>1, <1>2, <1>4, <1>6, <1>9, <2>1 DEF TxInv, M!NoBurst
  <2>2. CASE n # 0
    <3>1. /\ pc' = "read"
          /\ burst' = [addr |-> i + burst.len, len |-> m, eop |-> m = n]
      <4>1. r = mRegs' /\ r.length = n /\ r.addr = i + burst.len
        BY <1>1, <1>9
      <4> HIDE DEF r, n
      <4> QED BY <1>1, <2>2, <4>1
    <3>2. burst'.addr = i + burst.len /\ burst'.len = m /\ burst'.eop = (m = n)
      <4> DEFINE e == m = n
      <4>1. burst' = [addr |-> i + burst.len, len |-> m, eop |-> e]
        BY <3>1
      <4> HIDE DEF m, n, e, i
      <4>2. burst'.addr = i + burst.len /\ burst'.len = m /\ burst'.eop = e
        BY <4>1
      <4> QED BY <4>2, Zenon DEF e
    <3>3. n \in 1 .. size /\ i + burst.len = size - n
      <4> HIDE DEF n, size
      <4>1. PICK x \in Nat, y \in Nat, z \in Nat :
                   x = burst.len /\ y = mRegs.length /\ z = size
        BY <1>6, <1>7
      <4>2. i = z - y /\ y <= z /\ x > 0 /\ x <= y /\ n = y - x /\ n # 0
        BY <1>4, <1>7, <1>8, <2>2, <4>1
      <4>3. n \in 1 .. z /\ i + x = z - n
        BY <4>2
      <4> QED BY <4>1, <4>3
    <3> HIDE DEF n, i
    <3> QED BY <1>2, <1>4, <1>6, <1>9, <2>2, <3>1, <3>2, <3>3 DEF TxInv
  <2> QED BY <2>1, <2>2
<1> QED BY <1>2, <1>12, <1>13 DEF SendInv
-----------------------------------------------------------------------------
(* The receiving half under the steps of the sending half                   *)

LEMMA TakeFacts ==
  ASSUME ChannelInv, TxInv, TakeInv
  PROVE  /\ sizes \in Seq(Sizes) /\ Len(sizes) = packet /\ packet \in Nat
         /\ Len(got) \in 0 .. packet /\ RxSize \in Nat
         /\ Stored \in Nat /\ (Stored > 0 => Len(got) < packet)
         /\ copied \in Nat
         /\ Taken[1] \in 0 .. packet /\ Front[1] \in 0 .. packet
<1>1. /\ sizes \in Seq(Sizes) /\ Len(sizes) = packet /\ packet \in Nat
      /\ RxSize \in Nat
  BY TxFacts
<1>2. RxInv /\ PieceInv /\ GotInv
  BY DEF TakeInv
<1>3. Len(got) \in 0 .. packet
  <2>1. Len(got) \in Nat /\ Len(got) <= packet
    BY <1>2 DEF GotInv
  <2> QED BY <1>1, <2>1
<1>4. copied \in Nat /\ regs.length \in Nat
  BY ChannelFacts, AxiDmaConstants DEF Regs, Word
<1>5. Stored \in Nat /\ (Stored > 0 => Len(got) < packet)
  BY <1>2, <1>4 DEF RxInv, Stored
<1>6. Taken[1] \in 0 .. packet
  BY <1>1, <1>3, <1>5 DEF Taken, UpTo
<1>7. Front[1] \in 0 .. packet
  <2>1. CASE Here = "out"
    BY <1>6, <2>1 DEF Front
  <2>2. CASE Here # "out"
    <3>1. IsWord(sizes, Front)
      BY <1>2, <2>2 DEF PieceInv, Piece, Front
    <3> QED BY <1>1, <3>1 DEF IsWord
  <2> QED BY <2>1, <2>2
<1> QED BY <1>1, <1>3, <1>4, <1>5, <1>6, <1>7

\* What is received is as before if only the link or the sender has moved.
LEMMA TakeSteady ==
  ASSUME TakeInv, UNCHANGED <<vars, rxVars, brought, memory>>,
         sizes' = sizes, packet' = packet, FrontInv'
  PROVE  TakeInv'
<1>1. /\ regs' = regs /\ copied' = copied /\ at' = at /\ beat' = beat /\ move' = move
      /\ rx' = rx /\ got' = got /\ posted' = posted /\ brought' = brought
      /\ memory' = memory
  BY DEF vars, baseVars, rxVars
<1>2. /\ Idle' = Idle /\ Stored' = Stored /\ Here' = Here /\ Beat' = Beat
      /\ Taken' = Taken
  BY <1>1 DEF Idle, Stored, Here, Beat, Taken
<1>3. RxInv' /\ PieceInv' /\ GotInv'
  BY <1>1, <1>2 DEF TakeInv, RxInv, PieceInv, GotInv
<1> QED BY <1>3 DEF TakeInv

LEMMA FrontSteady ==
  ASSUME FrontInv, UNCHANGED <<vars, rxVars, brought>>, sizes' = sizes, Sent' = Sent,
         link' = link
  PROVE  FrontInv'
BY DEF FrontInv, Front, Taken, Here, Beat, Stored, Idle, vars, baseVars, rxVars

LEMMA StreamTake ==
  ASSUME SendInv, TakeInv, Stream, UNCHANGED <<vars, txVars, rxVars, brought, memory>>
  PROVE  TakeInv'
<1>1. /\ sizes' = sizes /\ packet' = packet /\ link' # <<>>
      /\ link'[1].word = IF link = <<>> THEN After(sizes, Sent) ELSE link[1].word
  BY StreamInv
<1>2. Front' = Front
  BY <1>1 DEF Front, Taken, Here, Beat, Stored, Idle, vars, baseVars, rxVars
<1>3. FrontInv'
  BY <1>1, <1>2 DEF TakeInv, FrontInv
<1> QED BY <1>1, <1>3, TakeSteady

LEMMA PieceGrown ==
  ASSUME NEW s \in Seq(Sizes), NEW n \in Sizes, NEW b, NEW q, NEW u,
         u[1] \in 0 .. Len(s), Piece(s, b, q, u)
  PROVE  Piece(Append(s, n), b, q, u)
<1> DEFINE t == Append(s, n)
<1>1. /\ \A w : IsWord(s, w) => IsWord(t, w) /\ (Ends(t, w) <=> Ends(s, w))
      /\ After(t, u) = After(s, u)
  BY Grown
<1> HIDE DEF t
<1>2. Piece(t, b, q, u)
  BY <1>1 DEF Piece
<1> QED BY <1>2 DEF t

LEMMA FillTake ==
  ASSUME ChannelInv, TxInv, TakeInv, NEW n \in Sizes, TxFill(n),
         UNCHANGED <<vars, rxVars, inHand, link, brought, memory>>
  PROVE  TakeInv'
<1> DEFINE t == Append(sizes, n)
<1>1. sizes' = t /\ packet' = packet + 1 /\ Sent' = Sent
  BY TxFillInv
<1>2. /\ regs' = regs /\ copied' = copied /\ at' = at /\ beat' = beat /\ move' = move
      /\ rx' = rx /\ got' = got /\ posted' = posted /\ brought' = brought
      /\ memory' = memory /\ link' = link
  BY DEF vars, baseVars, rxVars
<1>3. /\ Idle' = Idle /\ Stored' = Stored /\ Here' = Here /\ Beat' = Beat
  BY <1>2 DEF Idle, Stored, Here, Beat
<1>4. /\ sizes \in Seq(Sizes) /\ Len(sizes) = packet /\ packet \in Nat
      /\ Len(got) \in 0 .. packet /\ Stored \in Nat
      /\ Taken[1] \in 0 .. packet /\ Front[1] \in 0 .. packet /\ copied \in Nat
  BY TakeFacts
<1>5. /\ \A p \in 0 .. packet : Size(t, p) = Size(sizes, p)
      /\ Size(t, packet + 1) = n
      /\ \A u : u[1] \in 0 .. packet => After(t, u) = After(sizes, u)
      /\ \A p \in 0 .. packet + 1, i \in Nat : UpTo(t, p, i) = UpTo(sizes, p, i)
  <2>1. /\ \A p \in 0 .. Len(sizes) : Size(t, p) = Size(sizes, p)
        /\ Size(t, Len(sizes) + 1) = n
        /\ \A u : u[1] \in 0 .. Len(sizes) => After(t, u) = After(sizes, u)
        /\ \A p \in 0 .. Len(sizes) + 1, i \in Nat : UpTo(t, p, i) = UpTo(sizes, p, i)
    BY <1>4, Grown
  <2> HIDE DEF t
  <2> QED BY <1>4, <2>1
<1>6. n \in Nat \ {0}
  BY LoopConstants
<1>7. Taken' = Taken
  BY <1>1, <1>2, <1>3, <1>4, <1>5 DEF Taken
<1>8. Front' = Front
  BY <1>2, <1>3, <1>7 DEF Front
<1>9. RxInv /\ PieceInv /\ FrontInv /\ GotInv
  BY DEF TakeInv
<1>10. RxInv'
  <2>1. Len(got) < packet => Size(t, Len(got) + 1) = Size(sizes, Len(got) + 1)
    BY <1>4, <1>5
  <2>2. Len(got) < packet + 1 =>
          Len(got) < packet \/ Size(t, Len(got) + 1) = n
    BY <1>4, <1>5
  <2> HIDE DEF t
  <2>3. rx = "wait" /\ ~Idle =>
          /\ copied > 0 => Len(got) < packet + 1
          /\ Len(got) < packet + 1 => copied < Size(t, Len(got) + 1)
    BY <1>4, <1>6, <1>9, <2>1, <2>2 DEF RxInv
  <2>4. rx = "wait" /\ Idle =>
          Len(got) < packet + 1 /\ regs.length = Size(t, Len(got) + 1)
    BY <1>4, <1>9, <2>1 DEF RxInv
  <2> QED BY <1>1, <1>2, <1>3, <1>9, <2>3, <2>4 DEF RxInv
<1>11. PieceInv'
  <2>1. Here # "out" => Piece(sizes', Beat, brought, Taken)
    BY <1>1, <1>4, <1>9, PieceGrown DEF PieceInv
  <2> QED BY <1>2, <1>3, <1>7, <1>9, <2>1 DEF PieceInv
<1>12. FrontInv'
  BY <1>1, <1>2, <1>4, <1>5, <1>8, <1>9 DEF FrontInv
<1>13. GotInv'
  <2>1. ASSUME NEW p \in 1 .. Len(got) PROVE sizes'[p] = sizes[p]
    BY <1>1, <1>4
  <2> QED BY <1>1, <1>2, <1>4, <1>9, <2>1 DEF GotInv
<1> QED BY <1>10, <1>11, <1>12, <1>13 DEF TakeInv
-----------------------------------------------------------------------------
(* The steps of the receiving half                                          *)

LEMMA DelivererIsSender == Deliverer \in Senders
BY LoopConstants DEF Deliverer

\* What the channel knows when a transaction may be let in: the place of its
\* words, and that they fit the buffer.
LEMMA AdmitFacts ==
  ASSUME ChannelInv, TxInv, RxInv, GotInv, ~Idle, rx = "wait",
         NEW b, NEW q, b.len \in Nat, Piece(sizes, b, q, Taken)
  PROVE  /\ copied + b.len <= Size(sizes, Len(got) + 1)
         /\ \A k \in 1 .. b.len : q[k] = <<Len(got) + 1, copied + k>>
         /\ Len(got) < packet /\ b.len <= regs.length
         /\ b.eop <=> copied + b.len = Size(sizes, Len(got) + 1)
<1> DEFINE g == Len(got) + 1
<1>1. /\ sizes \in Seq(Sizes) /\ Len(sizes) = packet /\ packet \in Nat
      /\ RxSize \in Nat /\ Len(got) \in Nat /\ Len(got) <= packet
      /\ copied \in Nat /\ Stored = copied
  <2>1. copied \in Nat
    BY ChannelFacts, AxiDmaConstants DEF Word
  <2> QED BY <2>1, TxFacts DEF GotInv, Stored
<1>2. /\ regs.length = RxSize - copied
      /\ copied > 0 => Len(got) < packet
      /\ Len(got) < packet => copied < Size(sizes, g)
  BY DEF RxInv
<1>3. /\ b.len > 0 /\ q = [k \in 1 .. b.len |-> <<q[1][1], q[1][2] + k - 1>>]
      /\ IsWord(sizes, q[1]) /\ IsWord(sizes, q[b.len])
      /\ q[1] = After(sizes, UpTo(sizes, g, copied))
      /\ b.eop <=> Ends(sizes, q[b.len])
  BY <1>1 DEF Piece, Taken
<1>4. q[1] = <<g, copied + 1>>
  <2>1. g \in 1 .. Len(sizes) + 1
    BY <1>1
  <2>2. (g <= Len(sizes) => copied < Size(sizes, g)) /\ (g = Len(sizes) + 1 => copied = 0)
    BY <1>1, <1>2
  <2> HIDE DEF g
  <2> QED BY <1>1, <1>3, <2>1, <2>2, AfterUpTo
<1>5. ASSUME NEW k \in 1 .. b.len PROVE q[k] = <<g, copied + k>>
  <2>1. q[k] = <<q[1][1], q[1][2] + k - 1>>
    BY <1>3
  <2>2. q[1][1] = g /\ q[1][2] = copied + 1
    BY <1>4
  <2>3. (copied + 1) + k - 1 = copied + k
    BY <1>1
  <2> HIDE DEF g
  <2> QED BY <2>1, <2>2, <2>3
<1>6. q[b.len] = <<g, copied + b.len>>
  <2>1. b.len \in 1 .. b.len
    BY <1>3
  <2> HIDE DEF g
  <2> QED BY <1>5, <2>1
<1>7. g <= packet /\ copied + b.len <= Size(sizes, g)
  <2> HIDE DEF g
  <2> QED BY <1>1, <1>3, <1>6 DEF IsWord
<1>8. b.eop <=> copied + b.len = Size(sizes, g)
  <2> HIDE DEF g
  <2> QED BY <1>3, <1>6 DEF Ends
<1>9. Size(sizes, g) \in Nat /\ Size(sizes, g) <= RxSize
  <2>1. g \in 0 .. Len(sizes)
    BY <1>1, <1>7
  <2>2. \A p \in 0 .. Len(sizes) : Size(sizes, p) \in 0 .. RxSize
    BY <1>1, SizeFacts
  <2> HIDE DEF g
  <2> QED BY <1>1, <2>1, <2>2
<1>10. b.len <= regs.length
  <2> HIDE DEF g
  <2> QED BY <1>1, <1>2, <1>7, <1>9
<1> QED BY <1>1, <1>5, <1>7, <1>8, <1>10

\* The transaction b is let in or held back, and is the next piece either way.
LEMMA AdmitTake ==
  ASSUME ChannelInv, TxInv, RxInv, GotInv, posted,
         NEW b \in [len : Word, eop : BOOLEAN], Admit(Deliverer, b),
         beat' = [beat EXCEPT ![Deliverer] = b],
         UNCHANGED <<baseVars, txVars, rxVars, memory>>,
         Piece(sizes, b, brought', Taken)
  PROVE  RxInv' /\ PieceInv' /\ GotInv' /\ Here' # "out" /\ Beat' = b
<1>1. /\ regs' = regs /\ copied' = copied /\ sizes' = sizes /\ packet' = packet
      /\ rx' = rx /\ got' = got /\ posted' = posted /\ memory' = memory
  BY DEF baseVars, txVars, rxVars
<1>2. Idle' = Idle /\ Stored' = Stored /\ Taken' = Taken
  BY <1>1 DEF Idle, Stored, Taken
<1>3. /\ at \in [Senders -> {"out", "wait", "ready", "write"}]
      /\ beat \in [Senders -> [len : Word, eop : BOOLEAN]]
      /\ move \in [Senders -> [to : Nat, n : Word]]
      /\ Deliverer \in Senders
  BY ChannelFacts, DelivererIsSender DEF SendersTypeOK
<1>4. Beat' = b
  BY <1>3 DEF Beat
<1>5. Here' = (IF Idle THEN "wait" ELSE "write")
  BY <1>3 DEF Here, Admit
<1>6. CASE Idle
  <2>1. PieceInv'
    BY <1>1, <1>2, <1>4, <1>5, <1>6 DEF PieceInv
  <2>2. RxInv'
    BY <1>1, <1>2 DEF RxInv
  <2>3. GotInv'
    BY <1>1 DEF GotInv
  <2> QED BY <1>4, <1>5, <1>6, <2>1, <2>2, <2>3
<1>7. CASE ~Idle
  <2>1. rx = "wait"
    BY <1>7 DEF RxInv
  <2>2. b.len \in Nat
    BY AxiDmaConstants DEF Word
  <2>3. b.len <= regs.length
    BY <1>7, <2>1, <2>2, AdmitFacts
  <2>4. regs.addr = copied /\ regs.length \in Nat
    BY <1>7, <2>1, ChannelFacts, AxiDmaConstants DEF RxInv, Regs, Word
  <2>5. move'[Deliverer] = [to |-> copied, n |-> b.len]
    <3>1. (IF regs.length >= b.len THEN b.len ELSE regs.length) = b.len
      BY <2>2, <2>3, <2>4
    <3> QED BY <1>3, <1>7, <2>4, <3>1 DEF Admit
  <2>6. PieceInv'
    BY <1>1, <1>2, <1>4, <1>5, <1>7, <2>1, <2>5 DEF PieceInv
  <2>7. RxInv'
    BY <1>1, <1>2, <2>1 DEF RxInv
  <2>8. GotInv'
    BY <1>1 DEF GotInv
  <2> QED BY <1>4, <1>5, <1>7, <2>6, <2>7, <2>8
<1> QED BY <1>6, <1>7

\* What the link brings is never longer than a packet.
LEMMA BringShort ==
  ASSUME TxInv, Linked(sizes, link, Sent), NEW n \in 1 .. Len(link),
         \A k \in 1 .. n - 1 : ~link[k].eop
  PROVE  n \in Word
<1>1. sizes \in Seq(Sizes) /\ RxSize \in Nat /\ RxSize < WordMod /\ WordMod \in Nat
  BY TxFacts, SizeFacts, AxiDmaConstants
<1>2. \A k \in 1 .. n : link[k].word = <<link[1].word[1], link[1].word[2] + k - 1>>
  BY <1>1, LinkedHead
<1>3. /\ link \in Seq([word : Nat \X Nat, eop : BOOLEAN])
      /\ IsWord(sizes, link[1].word) /\ IsWord(sizes, link[n].word)
      /\ n \in 1 .. n /\ n \in Nat
  <2>1. link \in Seq([word : Nat \X Nat, eop : BOOLEAN]) /\ Len(link) \in Nat
    BY DEF Linked
  <2>2. 1 \in 1 .. Len(link) /\ n \in 1 .. n /\ n \in Nat
    BY <2>1
  <2> QED BY <2>1, <2>2 DEF Linked
<1>4. PICK x \in Nat \ {0} : link[1].word[2] = x
  BY <1>3 DEF IsWord
<1>5. link[n].word[2] = x + n - 1
  <2>1. link[n].word = <<link[1].word[1], link[1].word[2] + n - 1>>
    BY <1>2, <1>3
  <2> QED BY <1>4, <2>1
<1>6. PICK p \in 1 .. Len(sizes) : x + n - 1 <= Size(sizes, p)
  BY <1>3, <1>5 DEF IsWord
<1>7. Size(sizes, p) \in Nat /\ Size(sizes, p) <= RxSize
  BY <1>1, SizeFacts
<1> QED BY <1>1, <1>3, <1>4, <1>6, <1>7 DEF Word

LEMMA BringInv ==
  ASSUME ChannelInv, SendInv, NEW n \in 1 .. LinkSize, Bring(n), UNCHANGED txVars,
         mRegs' = mRegs
  PROVE  ChannelInv' /\ Linked(sizes, link', Sent)
<1>1. TxInv /\ Linked(sizes, link, Sent) /\ sizes \in Seq(Sizes)
  BY TxFacts DEF SendInv
<1>2. n \in 1 .. Len(link)
  <2>1. Len(link) \in Nat
    BY <1>1 DEF Linked
  <2> QED BY <2>1 DEF Bring
<1>3. /\ \A k \in 1 .. n - 1 : ~link[k].eop
      /\ Arrive(Deliverer, [len |-> n, eop |-> link[n].eop])
      /\ link' = SubSeq(link, n + 1, Len(link))
  BY DEF Bring
<1>4. n \in Word /\ link[n].eop \in BOOLEAN
  <2>1. link[n].eop \in BOOLEAN
    <3>1. link \in Seq(LinkWord)
      BY <1>1 DEF Linked, LinkWord
    <3>2. link[n] \in LinkWord
      BY <1>2, <3>1
    <3> QED BY <3>2 DEF LinkWord
  <2> QED BY <1>1, <1>2, <1>3, <2>1, BringShort
<1>5. [len |-> n, eop |-> link[n].eop] \in [len : Word, eop : BOOLEAN]
  BY <1>4
<1>6. ChannelInv'
  BY <1>3, <1>5, ArriveInv, DelivererIsSender
<1>7. Linked(sizes, link', Sent)
  BY <1>1, <1>2, <1>3, LinkedTail
<1> QED BY <1>6, <1>7

LEMMA BringTake ==
  ASSUME ChannelInv, SendInv, TakeInv, NEW n \in 1 .. LinkSize, Bring(n), ~early',
         UNCHANGED <<txVars, rxVars>>, mRegs' = mRegs
  PROVE  TakeInv'
<1> DEFINE b == [len |-> n, eop |-> link[n].eop]
<1>1. /\ TxInv /\ Linked(sizes, link, Sent) /\ sizes \in Seq(Sizes)
      /\ RxInv /\ PieceInv /\ FrontInv /\ GotInv
  BY TxFacts DEF SendInv, TakeInv
<1>2. n \in 1 .. Len(link) /\ link # <<>>
  <2>1. link \in Seq([word : Nat \X Nat, eop : BOOLEAN]) /\ Len(link) \in Nat
    BY <1>1 DEF Linked
  <2>2. n \in 1 .. Len(link)
    BY <2>1 DEF Bring
  <2>3. link # <<>>
    BY <2>1, <2>2
  <2> QED BY <2>2, <2>3
<1>3. /\ \A k \in 1 .. n - 1 : ~link[k].eop
      /\ at[Deliverer] = "out" /\ Admit(Deliverer, b) /\ UNCHANGED baseVars
      /\ beat' = [beat EXCEPT ![Deliverer] = b]
      /\ brought' = [k \in 1 .. n |-> link[k].word]
      /\ link' = SubSeq(link, n + 1, Len(link))
      /\ early' = (early \/ (~posted /\ ~Idle))
      /\ memory' = memory
  BY DEF Bring, Arrive
<1>4. posted
  BY <1>1, <1>3 DEF RxInv
<1>5. /\ \A k \in 1 .. n : link[k].word = <<link[1].word[1], link[1].word[2] + k - 1>>
      /\ IsWord(sizes, link[1].word) /\ IsWord(sizes, link[n].word)
      /\ link[n].eop <=> Ends(sizes, link[n].word)
      /\ link[n].eop \in BOOLEAN
  <2>1. 1 \in 1 .. Len(link)
    BY <1>2
  <2>2. \A k \in 1 .. n : link[k].word = <<link[1].word[1], link[1].word[2] + k - 1>>
    BY <1>1, <1>2, <1>3, LinkedHead
  <2>3. /\ IsWord(sizes, link[1].word) /\ IsWord(sizes, link[n].word)
        /\ link[n].eop <=> Ends(sizes, link[n].word)
    BY <1>1, <1>2, <2>1 DEF Linked
  <2>4. link[n].eop \in BOOLEAN
    <3>1. link \in Seq(LinkWord)
      BY <1>1 DEF Linked, LinkWord
    <3>2. link[n] \in LinkWord
      BY <1>2, <3>1
    <3> QED BY <3>2 DEF LinkWord
  <2> QED BY <2>2, <2>3, <2>4
<1>6. /\ n \in Word /\ b \in [len : Word, eop : BOOLEAN]
      /\ b.len = n /\ (b.eop <=> link[n].eop)
  <2>1. n \in Word
    BY <1>1, <1>2, <1>3, BringShort
  <2>2. b.len = n /\ b.eop = link[n].eop
    OBVIOUS
  <2> QED BY <1>5, <2>1, <2>2
<1>7. /\ brought'[1] = link[1].word /\ brought'[n] = link[n].word
      /\ brought' = [k \in 1 .. n |-> <<link[1].word[1], link[1].word[2] + k - 1>>]
  <2>1. 1 \in 1 .. n /\ n \in 1 .. n
    BY <1>2
  <2> QED BY <1>3, <1>5, <2>1
<1>8. link[1].word = After(sizes, Taken)
  BY <1>1, <1>2, <1>3 DEF FrontInv, Front, Here
<1> HIDE DEF b
<1>9. Piece(sizes, b, brought', Taken)
  <2>1. brought' = [k \in 1 .. b.len |-> <<brought'[1][1], brought'[1][2] + k - 1>>]
    BY <1>6, <1>7
  <2>2. b.len > 0
    BY <1>2, <1>6
  <2> QED BY <1>5, <1>6, <1>7, <1>8, <2>1, <2>2 DEF Piece
<1>10. RxInv' /\ PieceInv' /\ GotInv' /\ Here' # "out" /\ Beat' = b
  BY <1>1, <1>3, <1>4, <1>6, <1>9, AdmitTake
<1>11. FrontInv'
  <2>1. Front' = link[n].word
    BY <1>6, <1>7, <1>10 DEF Front
  <2>2. sizes' = sizes /\ Sent' = Sent
    BY DEF txVars, Sent, Streamed
  <2>3. IF link' = <<>> THEN link[n].word = Sent
        ELSE link'[1].word = After(sizes, link[n].word)
    <3>1. LET c == SubSeq(link, n + 1, Len(link))
          IN IF c = <<>> THEN link[n].word = Sent
             ELSE c[1].word = After(sizes, link[n].word)
      BY <1>1, <1>2, LinkedTail
    <3> QED BY <1>3, <3>1
  <2> QED BY <2>1, <2>2, <2>3 DEF FrontInv
<1> QED BY <1>10, <1>11 DEF TakeInv

LEMMA RecheckTake ==
  ASSUME ChannelInv, SendInv, TakeInv, Recheck(Deliverer),
         UNCHANGED <<link, brought, memory, txVars, rxVars>>, mRegs' = mRegs
  PROVE  TakeInv'
<1>1. TxInv /\ RxInv /\ PieceInv /\ FrontInv /\ GotInv
  BY DEF SendInv, TakeInv
<1>2. /\ Here = "ready" /\ Admit(Deliverer, Beat) /\ UNCHANGED baseVars
      /\ beat' = beat
  BY DEF Recheck, Here, Beat
<1>3. /\ Beat \in [len : Word, eop : BOOLEAN]
      /\ beat' = [beat EXCEPT ![Deliverer] = Beat]
  BY <1>2, ChannelFacts, DelivererIsSender DEF SendersTypeOK, Beat
<1>4. posted /\ Piece(sizes, Beat, brought', Taken)
  BY <1>1, <1>2 DEF RxInv, PieceInv
<1>5. RxInv' /\ PieceInv' /\ GotInv' /\ Here' # "out" /\ Beat' = Beat
  BY <1>1, <1>2, <1>3, <1>4, AdmitTake
<1>6. Front' = Front
  BY <1>2, <1>5 DEF Front
<1>7. sizes' = sizes /\ Sent' = Sent
  BY DEF txVars, Sent, Streamed
<1>8. FrontInv'
  BY <1>1, <1>6, <1>7 DEF FrontInv
<1> QED BY <1>5, <1>8 DEF TakeInv

\* A transaction is over where its packet is, and not before.
LEMMA DepositTake ==
  ASSUME ChannelInv, SendInv, TakeInv, Deposit, UNCHANGED <<txVars, rxVars>>,
         mRegs' = mRegs
  PROVE  TakeInv'
<1> DEFINE L == Beat.len
           g == Len(got) + 1
           size == Size(sizes, g)
           m == move[Deliverer]
           over == Rest(m) = 0 \/ Beat.eop
           sr == IF over THEN regs.sr \cup {"IDLE", "IOC_IRQ"} ELSE regs.sr
           length == IF over THEN copied' ELSE Rest(m)
<1>1. TxInv /\ RxInv /\ PieceInv /\ FrontInv /\ GotInv
  BY DEF SendInv, TakeInv
<1>2. /\ Here = "write"
      /\ copied' = (copied + m.n) % WordMod
      /\ regs' = [regs EXCEPT !.addr = m.to + m.n, !.length = length, !.sr = sr]
      /\ at' = [at EXCEPT ![Deliverer] = "out"]
      /\ memory' = [a \in DOMAIN memory |->
           IF m.to <= a /\ a < m.to + m.n THEN brought[a - m.to + 1] ELSE memory[a]]
      /\ link' = link
  BY DEF Deposit, WriteDone, Here, Beat
<1>3. /\ ~Idle /\ rx = "wait" /\ m = [to |-> copied, n |-> L]
      /\ Piece(sizes, Beat, brought, Taken)
  BY <1>1, <1>2 DEF PieceInv
<1>4. /\ L \in Nat /\ copied \in Nat /\ regs \in Regs /\ WordMod \in Nat
      /\ RxSize \in Nat /\ RxSize < WordMod /\ L > 0 /\ Deliverer \in Senders
      /\ at \in [Senders -> {"out", "wait", "ready", "write"}]
      /\ sizes \in Seq(Sizes) /\ Len(sizes) = packet /\ Len(got) \in Nat
      /\ packet \in Nat
  <2>1. Beat \in [len : Word, eop : BOOLEAN]
    BY ChannelFacts, DelivererIsSender DEF SendersTypeOK, Beat
  <2>2. sizes \in Seq(Sizes) /\ Len(sizes) = packet
    BY <1>1, TxFacts
  <2>3. RxSize \in Nat /\ RxSize < WordMod
    BY <2>2, SizeFacts
  <2>4. L \in Word /\ copied \in Word /\ regs \in Regs
    BY <2>1, ChannelFacts
  <2>5. L \in Nat /\ copied \in Nat /\ WordMod \in Nat
    BY <2>4, AxiDmaConstants DEF Word
  <2>6. L > 0 /\ Len(got) \in Nat
    BY <1>1, <1>3 DEF Piece, GotInv
  <2>7. at \in [Senders -> {"out", "wait", "ready", "write"}]
    BY ChannelFacts DEF SendersTypeOK
  <2> QED BY <2>2, <2>3, <2>4, <2>5, <2>6, <2>7, DelivererIsSender, TxFacts, <1>1
<1>5. /\ copied + L <= size
      /\ \A k \in 1 .. L : brought[k] = <<g, copied + k>>
      /\ g <= packet /\ L <= regs.length
      /\ Beat.eop <=> copied + L = size
  <2>1. /\ copied + L <= Size(sizes, Len(got) + 1)
        /\ \A k \in 1 .. L : brought[k] = <<Len(got) + 1, copied + k>>
        /\ Len(got) < packet /\ L <= regs.length
        /\ Beat.eop <=> copied + L = Size(sizes, Len(got) + 1)
    BY <1>1, <1>3, <1>4, AdmitFacts
  <2> QED BY <1>4, <2>1
<1>6. /\ regs.length = RxSize - copied /\ "IOC_IRQ" \notin regs.sr
      /\ DOMAIN memory = 0 .. RxSize - 1 /\ posted
      /\ \A a \in 0 .. copied - 1 : memory[a] = <<g, a + 1>>
  BY <1>1, <1>3 DEF RxInv, Stored
<1>7. size \in Nat /\ size <= RxSize
  <2>1. g \in 0 .. Len(sizes)
    BY <1>4, <1>5
  <2>2. \A p \in 0 .. Len(sizes) : Size(sizes, p) \in 0 .. RxSize
    BY <1>4, SizeFacts
  <2> HIDE DEF g
  <2> QED BY <1>4, <2>1, <2>2
<1> HIDE DEF L, g, size
<1>8. m.to = copied /\ m.n = L
  BY <1>3
<1>9. copied' = copied + L /\ Rest(m) = RxSize - (copied + L)
  <2>1. PICK x \in Nat, y \in Nat : x = copied + L /\ y = RxSize - (copied + L)
                                    /\ x < WordMod /\ y < WordMod
    BY <1>4, <1>5, <1>7
  <2>2. x % WordMod = x /\ y % WordMod = y
    BY <1>4, <2>1, Z3
  <2>3. regs.length - L = y
    BY <1>4, <1>6, <2>1
  <2> QED BY <1>2, <1>8, <2>1, <2>2, <2>3 DEF Rest
<1>10. over <=> copied + L = size
  <2>1. Rest(m) = 0 => copied + L = size
    BY <1>4, <1>5, <1>7, <1>9
  <2> QED BY <1>5, <2>1
<1>11. /\ regs'.addr = copied' /\ regs'.length = length /\ regs'.sr = sr
       /\ Idle' <=> over
  <2>1. regs'.addr = m.to + m.n /\ regs'.length = length /\ regs'.sr = sr
    <3> HIDE DEF m, length, sr
    <3> QED BY <1>2, <1>4 DEF Regs
  <2>2. Idle' <=> over
    <3> HIDE DEF over
    <3> QED BY <1>3, <2>1 DEF Idle
  <2> QED BY <1>8, <1>9, <2>1, <2>2
<1> HIDE DEF m, over
<1>12. /\ sizes' = sizes /\ packet' = packet /\ rx' = rx /\ got' = got
       /\ posted' = posted /\ Sent' = Sent
  BY DEF txVars, rxVars, Sent, Streamed
<1>13. Stored' = copied + L /\ Here' = "out"
  BY <1>2, <1>3, <1>4, <1>9, <1>11, <1>12 DEF Stored, Here
<1>14. ASSUME NEW a \in 0 .. (copied + L) - 1
       PROVE  memory'[a] = <<g, a + 1>>
  <2>1. a \in DOMAIN memory
    BY <1>4, <1>5, <1>6, <1>7
  <2>2. CASE a < copied
    <3>1. memory'[a] = memory[a] /\ a \in 0 .. copied - 1
      BY <1>2, <1>4, <1>8, <2>1, <2>2
    <3> QED BY <1>6, <3>1
  <2>3. CASE a >= copied
    <3>1. /\ a - copied + 1 \in 1 .. L /\ copied + (a - copied + 1) = a + 1
          /\ copied <= a /\ a < copied + L
      BY <1>4, <2>3
    <3>2. memory'[a] = brought[a - copied + 1]
      BY <1>2, <1>8, <2>1, <3>1
    <3>3. brought[a - copied + 1] = <<g, copied + (a - copied + 1)>>
      BY <1>5, <3>1
    <3> QED BY <3>1, <3>2, <3>3
  <2> QED BY <1>4, <2>2, <2>3
<1>15. DOMAIN memory' = 0 .. RxSize - 1
  BY <1>2, <1>6
<1>16. RxInv'
  <2>1. rx' = "wait" /\ posted' /\ rx' \in {"reset", "idle", "ready", "wait"}
    BY <1>3, <1>6, <1>12
  <2>2. ~Idle' => /\ "IOC_IRQ" \notin regs'.sr
                  /\ copied' \in 0 .. RxSize /\ regs'.length = RxSize - copied'
                  /\ copied' < size
    BY <1>4, <1>5, <1>6, <1>7, <1>9, <1>10, <1>11
  <2>3. Idle' => regs'.length = size
    BY <1>9, <1>10, <1>11
  <2>4. Len(got) < packet
    BY <1>4, <1>5 DEF g
  <2> QED BY <1>11, <1>12, <1>13, <1>14, <1>15, <2>1, <2>2, <2>3, <2>4
          DEF RxInv, g, size
<1>17. PieceInv'
  BY <1>13 DEF PieceInv
<1>18. GotInv'
  BY <1>1, <1>12 DEF GotInv
<1>19. Front' = Front
  <2>1. Taken' = <<g, copied + L>>
    BY <1>4, <1>12, <1>13 DEF Taken, UpTo, g
  <2>2. Front = brought[L] /\ L \in 1 .. L
    BY <1>2, <1>4 DEF Front, L
  <2> QED BY <1>5, <1>13, <2>1, <2>2 DEF Front
<1>20. FrontInv'
  BY <1>1, <1>2, <1>12, <1>19 DEF FrontInv
<1> QED BY <1>16, <1>17, <1>18, <1>20 DEF TakeInv

LEMMA IrqsTake ==
  ASSUME TakeInv, Irqs, UNCHANGED <<txVars, rxVars, link, brought, memory>>,
         mRegs' = mRegs
  PROVE  TakeInv'
<1>1. /\ regs' = regs /\ copied' = copied /\ at' = at /\ beat' = beat /\ move' = move
      /\ rx' = rx /\ got' = got /\ posted' = posted /\ brought' = brought
      /\ memory' = memory /\ sizes' = sizes /\ packet' = packet /\ link' = link
  BY DEF Irqs, UpdateIrqs, rxVars, txVars
<1>2. /\ Idle' = Idle /\ Stored' = Stored /\ Here' = Here /\ Beat' = Beat
      /\ Taken' = Taken /\ Sent' = Sent
  BY <1>1 DEF Idle, Stored, Here, Beat, Taken, Sent, Streamed, txVars
<1>3. Front' = Front
  BY <1>1, <1>2 DEF Front
<1>4. RxInv' /\ PieceInv' /\ GotInv' /\ FrontInv'
  BY <1>1, <1>2, <1>3 DEF TakeInv, RxInv, PieceInv, GotInv, FrontInv
<1> QED BY <1>4 DEF TakeInv

\* The receiver's driver between its packets leaves the link and the memory.
LEMMA ReadyTake ==
  ASSUME ChannelInv, TxInv, TakeInv, RxEnable \/ RxAddr,
         UNCHANGED <<txVars, link, brought, memory>>, mRegs' = mRegs
  PROVE  TakeInv'
<1>1. /\ rx \in {"reset", "idle"} /\ rx' \in {"idle", "ready"} /\ (rx' = "ready" => regs'.addr = 0)
      /\ at' = at /\ beat' = beat /\ move' = move /\ copied' = copied
      /\ got' = got /\ posted' = posted /\ brought' = brought
      /\ memory' = memory /\ sizes' = sizes /\ packet' = packet /\ link' = link
      /\ regs'.length = regs.length /\ regs'.sr = regs.sr
      /\ (rx = "reset" => rx' = "idle")
  <2>0. regs \in Regs
    BY ChannelFacts
  <2>1. CASE RxEnable
    BY <2>0, <2>1 DEF RxEnable, WriteCr, Regs, txVars
  <2>2. CASE RxAddr
    BY <2>0, <2>2 DEF RxAddr, WriteAddr, Regs, txVars
  <2> QED BY <2>1, <2>2
<1>2. RxInv /\ PieceInv /\ GotInv /\ FrontInv
  BY DEF TakeInv
<1>3. /\ Idle' = Idle /\ Stored = 0 /\ Stored' = 0 /\ Here' = Here /\ Beat' = Beat
      /\ Sent' = Sent
  BY <1>1 DEF Idle, Stored, Here, Beat, Sent, Streamed, txVars
<1>4. Taken' = Taken
  BY <1>1, <1>3 DEF Taken
<1>5. Front' = Front
  BY <1>1, <1>3, <1>4 DEF Front
<1>6. RxInv'
  BY <1>1, <1>2, <1>3 DEF RxInv
<1>7. Here \notin {"ready", "write"}
  BY <1>1, <1>2 DEF PieceInv
<1>8. PieceInv'
  BY <1>1, <1>2, <1>3, <1>4, <1>7 DEF PieceInv
<1>9. GotInv' /\ FrontInv'
  BY <1>1, <1>2, <1>3, <1>5 DEF GotInv, FrontInv
<1> QED BY <1>6, <1>8, <1>9 DEF TakeInv

LEMMA PostTake ==
  ASSUME ChannelInv, TxInv, TakeInv, RxPost,
         UNCHANGED <<txVars, link, brought, memory>>, mRegs' = mRegs
  PROVE  TakeInv'
<1>1. /\ rx = "ready" /\ rx' = "wait" /\ posted' = TRUE /\ got' = got
      /\ regs' = [regs EXCEPT !.length = RxSize, !.sr = @ \ {"IDLE"}]
      /\ copied' = 0
      /\ at' = [s \in Senders |-> IF at[s] = "wait" THEN "ready" ELSE at[s]]
      /\ beat' = beat /\ move' = move /\ brought' = brought
      /\ memory' = memory /\ sizes' = sizes /\ packet' = packet /\ link' = link
  BY DEF RxPost, BusLength, WriteLength, txVars
<1>2. RxInv /\ PieceInv /\ GotInv /\ FrontInv
  BY DEF TakeInv
<1>3. /\ sizes \in Seq(Sizes) /\ Len(sizes) = packet /\ packet \in Nat
      /\ Len(got) \in 0 .. packet /\ RxSize \in Nat
  BY TakeFacts
<1>4. regs.addr = 0 /\ "IOC_IRQ" \notin regs.sr
  BY <1>1, <1>2 DEF RxInv
<1>5. /\ regs'.addr = 0 /\ regs'.length = RxSize /\ "IOC_IRQ" \notin regs'.sr
      /\ ~Idle'
  <2>1. regs \in Regs
    BY ChannelFacts
  <2> QED BY <1>1, <1>4, <2>1 DEF Idle, Regs
<1>6. Here # "write"
  BY <1>1, <1>2 DEF PieceInv
<1>7. /\ Here' # "write" /\ Beat' = Beat /\ (Here' = "out" <=> Here = "out")
  BY <1>1, <1>6, DelivererIsSender DEF Here, Beat
<1>8. Stored = 0 /\ Stored' = 0
  BY <1>1, <1>5 DEF Stored
<1>9. Taken' = Taken /\ Sent' = Sent
  BY <1>1, <1>8 DEF Taken, Sent, Streamed, txVars
<1>10. Front' = Front
  BY <1>1, <1>7, <1>9 DEF Front
<1>11. Len(got) < packet => 0 < Size(sizes, Len(got) + 1)
  <2>1. Len(got) < packet => Len(got) + 1 \in 1 .. Len(sizes)
    BY <1>3
  <2>2. \A p \in 1 .. Len(sizes) : Size(sizes, p) > 0
    BY <1>3, SizeFacts
  <2> QED BY <2>1, <2>2
<1>12. DOMAIN memory = 0 .. RxSize - 1
  BY <1>2 DEF RxInv
<1>13. RxInv'
  BY <1>1, <1>3, <1>5, <1>8, <1>11, <1>12 DEF RxInv
<1>14. PieceInv'
  BY <1>1, <1>2, <1>5, <1>7, <1>9 DEF PieceInv
<1>15. GotInv' /\ FrontInv'
  BY <1>1, <1>2, <1>9, <1>10 DEF GotInv, FrontInv
<1> QED BY <1>13, <1>14, <1>15 DEF TakeInv

\* The packet that the driver takes is the whole of the next one.
LEMMA DoneTake ==
  ASSUME ChannelInv, TxInv, TakeInv, RxDone,
         UNCHANGED <<txVars, link, brought, memory>>, mRegs' = mRegs
  PROVE  TakeInv'
<1> DEFINE g == Len(got) + 1
           size == Size(sizes, g)
           taken == [k \in 1 .. regs.length |-> memory[k - 1]]
<1>1. /\ rx = "wait" /\ rx' = "idle" /\ posted' = posted /\ "IOC_IRQ" \in regs.sr
      /\ got' = Append(got, taken)
      /\ regs' = [regs EXCEPT !.sr = @ \ ({"IOC_IRQ"} \cap {"IOC_IRQ"})]
      /\ copied' = copied
      /\ at' = at /\ beat' = beat /\ move' = move /\ brought' = brought
      /\ memory' = memory /\ sizes' = sizes /\ packet' = packet /\ link' = link
  BY DEF RxDone, WriteSr, txVars
<1>2. RxInv /\ PieceInv /\ GotInv /\ FrontInv
  BY DEF TakeInv
<1>3. /\ sizes \in Seq(Sizes) /\ Len(sizes) = packet /\ packet \in Nat
      /\ Len(got) \in 0 .. packet /\ RxSize \in Nat
  BY TakeFacts
<1>4. Idle /\ posted /\ DOMAIN memory = 0 .. RxSize - 1
  BY <1>1, <1>2 DEF RxInv
<1>5. /\ Len(got) < packet /\ regs.length = size
      /\ \A a \in 0 .. regs.length - 1 : memory[a] = <<g, a + 1>>
  BY <1>1, <1>2, <1>4 DEF RxInv, Stored
<1>6. Idle' /\ "IOC_IRQ" \notin regs'.sr
  <2>1. regs \in Regs
    BY ChannelFacts
  <2> QED BY <1>1, <1>4, <2>1 DEF Idle, Regs
<1>7. g \in 1 .. packet /\ size \in Nat \ {0} /\ sizes[g] = size
  <2>1. g \in 1 .. Len(sizes)
    BY <1>3, <1>5
  <2>2. \A p \in 1 .. Len(sizes) : sizes[p] \in 1 .. RxSize /\ Size(sizes, p) = sizes[p]
    BY <1>3, SizeFacts
  <2> HIDE DEF g
  <2> QED BY <1>3, <2>1, <2>2
<1>8. taken = [k \in 1 .. size |-> <<g, k>>]
  <2>1. ASSUME NEW k \in 1 .. size PROVE memory[k - 1] = <<g, k>>
    <3>1. k - 1 \in 0 .. size - 1 /\ (k - 1) + 1 = k
      BY <1>7
    <3> HIDE DEF size, g
    <3> QED BY <1>5, <3>1
  <2> HIDE DEF size, g
  <2> QED BY <1>5, <2>1
<1>9. taken \in Seq(Nat \X Nat)
  <2>1. g \in Nat
    BY <1>3
  <2> HIDE DEF taken, g, size
  <2>2. taken \in [1 .. size -> Nat \X Nat]
    BY <1>7, <1>8, <2>1
  <2> QED BY <1>7, <2>2
<1>10. /\ got' \in Seq(Seq(Nat \X Nat)) /\ Len(got') = g
       /\ got'[g] = taken /\ \A p \in 1 .. Len(got) : got'[p] = got[p]
  <2>1. got \in Seq(Seq(Nat \X Nat)) /\ Len(got) \in Nat
    BY <1>2 DEF GotInv
  <2> HIDE DEF taken
  <2> QED BY <1>1, <1>9, <2>1
<1>11. GotInv'
  <2>1. ASSUME NEW p \in 1 .. g PROVE got'[p] = [k \in 1 .. sizes[p] |-> <<p, k>>]
    <3>1. CASE p = g
      <4> HIDE DEF g, size, taken
      <4> QED BY <1>7, <1>8, <1>10, <3>1
    <3>2. CASE p # g
      <4>1. p \in 1 .. Len(got)
        BY <1>3, <3>2
      <4> HIDE DEF g
      <4> QED BY <1>2, <1>10, <4>1 DEF GotInv
    <3> QED BY <3>1, <3>2
  <2> HIDE DEF g
  <2>2. sizes' = sizes /\ packet' = packet /\ g <= packet
    BY <1>1, <1>3, <1>7
  <2> HIDE DEF taken
  <2> QED BY <1>10, <2>1, <2>2 DEF GotInv
<1>12. Here \notin {"ready", "write"}
  BY <1>2, <1>4 DEF PieceInv
<1>13. /\ Here' = Here /\ Beat' = Beat /\ Sent' = Sent
  BY <1>1 DEF Here, Beat, Sent, Streamed, txVars
<1>14. Taken' = Taken
  <2>1. Taken = UpTo(sizes, g, size) /\ Taken' = UpTo(sizes, g + 1, 0)
    BY <1>1, <1>4, <1>5, <1>10 DEF Taken, Stored
  <2>2. Taken = <<g, size>>
    BY <1>7, <2>1 DEF UpTo
  <2>3. Taken' = <<g, size>>
    <3>1. (g + 1) - 1 = g /\ g + 1 > 0
      BY <1>3
    <3> HIDE DEF g
    <3> QED BY <2>1, <3>1 DEF UpTo, size
  <2> QED BY <2>2, <2>3
<1>15. Front' = Front
  BY <1>1, <1>13, <1>14 DEF Front
<1>16. RxInv'
  BY <1>1, <1>4, <1>6 DEF RxInv
<1>17. PieceInv'
  BY <1>1, <1>2, <1>12, <1>13, <1>14 DEF PieceInv
<1>18. FrontInv'
  BY <1>1, <1>2, <1>13, <1>15 DEF FrontInv
<1> QED BY <1>11, <1>16, <1>17, <1>18 DEF TakeInv
-----------------------------------------------------------------------------
(* The two channels and their drivers                                       *)

LEMMA InitLoopInv == LoopInit => LoopInv
<1> SUFFICES ASSUME LoopInit PROVE LoopInv
  OBVIOUS
<1>1. ChannelInv
  BY InitChannelInv DEF LoopInit
<1>2. /\ mRegs = [cr |-> {}, sr |-> {}, addr |-> 0, length |-> 0] /\ pc = "wait"
      /\ tx = "reset" /\ packet = 0 /\ sizes = <<>> /\ link = <<>>
      /\ regs = [cr |-> {}, sr |-> {}, addr |-> 0, length |-> 0]
      /\ at = [s \in Senders |-> "out"]
      /\ rx = "reset" /\ got = <<>> /\ posted = FALSE
      /\ memory = [a \in 0 .. RxSize - 1 |-> <<0, 0>>]
  BY DEF LoopInit, M!Init, M!BaseInit, Init, BaseInit
<1>3. sizes \in Seq(Sizes) /\ Len(sizes) = 0 /\ 0 \in Word
  BY <1>2, ZeroInWord
<1>4. mRegs \in Regs
  BY <1>2, <1>3 DEF Regs
<1>5. TxInv
  BY <1>2, <1>3, <1>4 DEF TxInv
<1>6. Linked(sizes, link, Sent)
  BY <1>2 DEF Linked
<1>7. Here = "out" /\ ~Idle /\ Stored = 0
  BY <1>2, DelivererIsSender DEF Here, Idle, Stored
<1>8. RxInv
  BY <1>2, <1>7 DEF RxInv
<1>9. PieceInv /\ GotInv
  BY <1>2, <1>7 DEF PieceInv, GotInv
<1>10. FrontInv
  <2>1. Sent = <<0, 0>>
    BY <1>2 DEF Sent, Streamed, UpTo, Size
  <2>2. Taken = <<0, 0>>
    BY <1>2, <1>7 DEF Taken, UpTo, Size
  <2> QED BY <1>2, <1>7, <2>1, <2>2 DEF FrontInv, Front
<1> QED BY <1>1, <1>2, <1>5, <1>6, <1>8, <1>9, <1>10
        DEF LoopInv, SendInv, TakeInv

LEMMA TxLoopInv ==
  ASSUME LoopInv, wired, wired', Tx
  PROVE  LoopInv'
<1>1. /\ TxEnable \/ TxGo \/ TxDone \/ \E n \in Sizes : TxFill(n)
      /\ UNCHANGED vars /\ inHand' = inHand /\ link' = link /\ brought' = brought
      /\ UNCHANGED rxVars /\ memory' = memory /\ early' = early
  BY DEF Tx, s2mm
<1>2. ChannelInv /\ SendInv /\ TxInv /\ Linked(sizes, link, Sent)
  BY DEF LoopInv, SendInv
<1>3. ChannelInv'
  BY <1>1, <1>2, SteadyChannel
<1>4. CASE TxEnable \/ TxGo \/ TxDone
  <2>1. TxInv' /\ Sent' = Sent /\ packet' = packet /\ sizes' = sizes
    BY <1>1, <1>2, <1>4, TxStepInv
  <2>2. SendInv'
    BY <1>1, <1>2, <2>1 DEF SendInv
  <2>3. ~early' => TakeInv'
    <3> SUFFICES ASSUME ~early' PROVE TakeInv'
      OBVIOUS
    <3>1. TakeInv /\ FrontInv
      BY <1>1 DEF LoopInv, TakeInv
    <3>2. FrontInv'
      BY <1>1, <2>1, <3>1, FrontSteady
    <3> QED BY <1>1, <2>1, <3>1, <3>2, TakeSteady
  <2> QED BY <1>3, <2>2, <2>3 DEF LoopInv
<1>5. CASE \E n \in Sizes : TxFill(n)
  <2>0. PICK n \in Sizes : TxFill(n)
    BY <1>5
  <2>1. /\ TxInv' /\ Sent' = Sent
        /\ sizes' = Append(sizes, n) /\ packet' = packet + 1
    BY <1>1, <1>2, <2>0, TxFillInv
  <2>2. SendInv'
    <3>1. sizes \in Seq(Sizes)
      BY <1>2, TxFacts
    <3>2. Linked(sizes', link, Sent)
      BY <1>2, <2>1, <3>1, LinkedGrown
    <3> QED BY <1>1, <2>1, <3>2 DEF SendInv
  <2>3. ~early' => TakeInv'
    <3> SUFFICES ASSUME ~early' PROVE TakeInv'
      OBVIOUS
    <3>1. TakeInv
      BY <1>1 DEF LoopInv
    <3> QED BY <1>1, <1>2, <2>0, <3>1, FillTake
  <2> QED BY <1>3, <2>2, <2>3 DEF LoopInv
<1> QED BY <1>1, <1>4, <1>5

LEMMA Mm2sLoopInv ==
  ASSUME LoopInv, wired, wired', Mm2s
  PROVE  LoopInv'
<1>1. /\ Read \/ Stream \/ ((M!Wake \/ M!Irqs) /\ UNCHANGED <<inHand, link>>)
      /\ UNCHANGED vars /\ UNCHANGED txVars /\ brought' = brought
      /\ UNCHANGED rxVars /\ memory' = memory /\ early' = early
  BY DEF Mm2s, s2mm
<1>2. ChannelInv /\ SendInv /\ TxInv /\ Linked(sizes, link, Sent)
  BY DEF LoopInv, SendInv
<1>3. ChannelInv'
  BY <1>1, <1>2, SteadyChannel
<1>4. CASE Stream
  <2>1. SendInv'
    BY <1>1, <1>2, <1>4, StreamInv
  <2>2. ~early' => TakeInv'
    BY <1>1, <1>2, <1>4, StreamTake DEF LoopInv
  <2> QED BY <1>3, <2>1, <2>2 DEF LoopInv
<1>5. CASE Read \/ ((M!Wake \/ M!Irqs) /\ UNCHANGED <<inHand, link>>)
  <2>1. TxInv' /\ Sent' = Sent /\ packet' = packet /\ sizes' = sizes /\ link' = link
    BY <1>1, <1>2, <1>5, Mm2sStepInv
  <2>2. SendInv'
    BY <1>2, <2>1 DEF SendInv
  <2>3. ~early' => TakeInv'
    <3> SUFFICES ASSUME ~early' PROVE TakeInv'
      OBVIOUS
    <3>1. TakeInv /\ FrontInv
      BY <1>1 DEF LoopInv, TakeInv
    <3>2. FrontInv'
      BY <1>1, <2>1, <3>1, FrontSteady
    <3> QED BY <1>1, <2>1, <3>1, <3>2, TakeSteady
  <2> QED BY <1>3, <2>2, <2>3 DEF LoopInv
<1> QED BY <1>1, <1>4, <1>5

\* What leaves the sending half and the link alone
LEMMA SendSteady ==
  ASSUME SendInv, UNCHANGED <<mm2s, inHand, txVars>>, Linked(sizes, link', Sent)
  PROVE  SendInv'
<1>1. /\ mRegs' = mRegs /\ pc' = pc /\ burst' = burst /\ inHand' = inHand
      /\ tx' = tx /\ packet' = packet /\ sizes' = sizes
  BY DEF mm2s, txVars
<1>2. TxInv' /\ Sent' = Sent
  BY <1>1 DEF SendInv, TxInv, Sent, Streamed
<1> QED BY <1>1, <1>2 DEF SendInv

LEMMA S2mmLoopInv ==
  ASSUME LoopInv, wired, wired', S2mm
  PROVE  LoopInv'
<1>1. /\ \/ \E n \in 1 .. LinkSize : Bring(n)
         \/ Deposit
         \/ (Recheck(Deliverer) \/ Irqs) /\ UNCHANGED <<link, brought, memory, early>>
      /\ UNCHANGED <<mm2s, inHand, txVars, rxVars>> /\ mRegs' = mRegs
  BY DEF S2mm, mm2s
<1>2. ChannelInv /\ SendInv /\ Linked(sizes, link, Sent)
  BY DEF LoopInv, SendInv
<1>3. CASE \E n \in 1 .. LinkSize : Bring(n)
  <2>1. PICK n \in 1 .. LinkSize : Bring(n)
    BY <1>3
  <2>2. ChannelInv' /\ SendInv'
    BY <1>1, <1>2, <2>1, BringInv, SendSteady
  <2>3. ~early' => TakeInv'
    <3> SUFFICES ASSUME ~early' PROVE TakeInv'
      OBVIOUS
    <3>1. TakeInv
      BY <2>1 DEF Bring, LoopInv
    <3> QED BY <1>1, <1>2, <2>1, <3>1, BringTake
  <2> QED BY <2>2, <2>3 DEF LoopInv
<1>4. CASE Deposit
  <2>1. ChannelInv'
    BY <1>2, <1>4, WriteDoneInv, DelivererIsSender DEF Deposit
  <2>2. SendInv'
    <3>1. link' = link
      BY <1>4 DEF Deposit
    <3> QED BY <1>1, <1>2, <3>1, SendSteady
  <2>3. ~early' => TakeInv'
    <3>1. early' = early
      BY <1>4 DEF Deposit
    <3> QED BY <1>1, <1>2, <1>4, <3>1, DepositTake DEF LoopInv
  <2> QED BY <2>1, <2>2, <2>3 DEF LoopInv
<1>5. CASE (Recheck(Deliverer) \/ Irqs) /\ UNCHANGED <<link, brought, memory, early>>
  <2>1. ChannelInv'
    BY <1>2, <1>5, RecheckInv, IrqsInv, DelivererIsSender
  <2>2. SendInv'
    BY <1>1, <1>2, <1>5, SendSteady
  <2>3. ~early' => TakeInv'
    BY <1>1, <1>2, <1>5, RecheckTake, IrqsTake DEF LoopInv
  <2> QED BY <2>1, <2>2, <2>3 DEF LoopInv
<1> QED BY <1>1, <1>3, <1>4, <1>5

LEMMA RxLoopInv ==
  ASSUME LoopInv, wired, wired', Rx
  PROVE  LoopInv'
<1>1. /\ RxEnable \/ RxAddr \/ RxPost \/ RxDone
      /\ UNCHANGED <<mm2s, inHand, txVars>> /\ mRegs' = mRegs
      /\ link' = link /\ brought' = brought /\ memory' = memory /\ early' = early
  BY DEF Rx, mm2s
<1>2. ChannelInv /\ BaseInv /\ SendInv /\ TxInv /\ Linked(sizes, link, Sent)
  BY ChannelFacts DEF LoopInv, SendInv
<1>3. ChannelInv'
  <2>0. /\ {} \in SUBSET {"IOC_IRQ_EN"} /\ {"IOC_IRQ_EN"} \in SUBSET {"IOC_IRQ_EN"}
        /\ {} \in SUBSET {"IDLE", "IOC_IRQ"} /\ {"IOC_IRQ"} \in SUBSET {"IDLE", "IOC_IRQ"}
        /\ 0 \in Nat /\ RxSize \in Word
    BY LoopConstants
  <2>1. CASE RxEnable \/ RxAddr \/ RxDone
    <3>1. /\ WriteCr({"IOC_IRQ_EN"}) \/ WriteAddr(0) \/ WriteSr({"IOC_IRQ"})
          /\ UNCHANGED <<at, beat, move>>
      BY <2>1 DEF RxEnable, RxAddr, RxDone
    <3>2. BaseInv' /\ Idle' = Idle
      BY <1>2, <2>0, <3>1, AccessInv
    <3> QED BY <1>2, <3>1, <3>2, SteadySenders
  <2>2. CASE RxPost
    BY <1>2, <2>0, <2>2, LengthInv DEF RxPost
  <2> QED BY <1>1, <2>1, <2>2
<1>4. SendInv'
  BY <1>1, <1>2, SendSteady
<1>5. ~early' => TakeInv'
  BY <1>1, <1>2, ReadyTake, PostTake, DoneTake DEF LoopInv
<1> QED BY <1>3, <1>4, <1>5 DEF LoopInv

LEMMA NextLoopInv == LoopInv /\ [LoopNext]_allVars => LoopInv'
<1> SUFFICES ASSUME LoopInv, [LoopNext]_allVars PROVE LoopInv'
  OBVIOUS
<1>1. CASE Loop
  <2>1. wired /\ wired' /\ (Tx \/ Mm2s \/ S2mm \/ Rx)
    BY <1>1 DEF Loop
  <2> QED BY <2>1, TxLoopInv, Mm2sLoopInv, S2mmLoopInv, RxLoopInv
<1>2. CASE Alone
  <2>1. ~wired /\ ~wired' /\ Next /\ got' = got /\ packet' = packet
    BY <1>2 DEF Alone, loopVars, rxVars, txVars
  <2>2. ChannelInv'
    BY <2>1, NextChannelInv DEF LoopInv
  <2> QED BY <2>1, <2>2 DEF LoopInv
<1>3. CASE UNCHANGED allVars
  <2>1. UNCHANGED vars /\ wired' = wired /\ UNCHANGED <<mm2s, inHand, txVars>>
        /\ UNCHANGED <<link, brought, rxVars, memory, early>>
    BY <1>3 DEF allVars, loopVars
  <2>2. ChannelInv'
    BY <2>1, SteadyChannel DEF LoopInv
  <2>3. wired' => SendInv'
    BY <2>1, SendSteady DEF LoopInv, SendInv
  <2>4. wired' /\ ~early' => TakeInv'
    <3> SUFFICES ASSUME wired', ~early' PROVE TakeInv'
      OBVIOUS
    <3>1. TakeInv /\ FrontInv
      BY <2>1 DEF LoopInv, TakeInv
    <3>2. sizes' = sizes /\ packet' = packet /\ Sent' = Sent
      BY <2>1 DEF txVars, mm2s, Sent, Streamed
    <3>3. FrontInv'
      BY <2>1, <3>1, <3>2, FrontSteady
    <3> QED BY <2>1, <3>1, <3>2, <3>3, TakeSteady
  <2>5. ~wired' => got' = <<>> /\ packet' = 0
    BY <2>1 DEF LoopInv, rxVars, txVars
  <2> QED BY <2>2, <2>3, <2>4, <2>5 DEF LoopInv
<1> QED BY <1>1, <1>2, <1>3 DEF LoopNext

LEMMA AlwaysLoopInv == LoopSpec => []LoopInv
BY InitLoopInv, NextLoopInv, PTL DEF LoopSpec

\* The channel keeps its types and holds its senders back only while it is idle
\* under the drivers, too, whatever pieces the link brings.
THEOREM LoopTypeCorrect == LoopSpec => []TypeOK
<1>1. LoopInv => TypeOK
  BY DEF LoopInv, ChannelInv, BaseInv, TypeOK, SendersTypeOK
<1> QED
  BY <1>1, AlwaysLoopInv, PTL

THEOREM LoopHeldOnlyIdle == LoopSpec => []HeldOnlyIdle
<1>1. LoopInv => HeldOnlyIdle
  BY DEF LoopInv, ChannelInv
<1> QED
  BY <1>1, AlwaysLoopInv, PTL

\* The receiver takes the packets that were sent, whole and in their order,
\* however long they and the bursts are and wherever the link cuts them, unless
\* a transaction was admitted before the first LENGTH write.
THEOREM LoopPacketWhole == LoopSpec => []PacketWhole
<1>1. ASSUME LoopInv PROVE PacketWhole
  <2>1. CASE wired
    <3> SUFFICES ASSUME ~early PROVE PacketWhole
      BY DEF PacketWhole
    <3>1. GotInv
      BY <1>1, <2>1 DEF LoopInv, TakeInv
    <3>2. DOMAIN got = 1 .. Len(got)
      BY <3>1 DEF GotInv
    <3> QED BY <3>1, <3>2 DEF PacketWhole, GotInv
  <2>2. CASE ~wired
    <3>1. got = <<>> /\ packet = 0
      BY <1>1, <2>2 DEF LoopInv
    <3> QED BY <3>1 DEF PacketWhole
  <2> QED BY <2>1, <2>2
<1> QED
  BY <1>1, AlwaysLoopInv, PTL
=============================================================================
