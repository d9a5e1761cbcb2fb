------------------------------ MODULE AxiDmaLoop ------------------------------
(***************************************************************************)
(* Both channels of the AXI DMA (src/xilinx-axidma.cc) with their drivers: *)
(* packets are sent with axidma_mm2s, pass a link that keeps the order,    *)
(* and are received with axidma_s2mm.  The lmac machines have one of each, *)
(* and the link is their bridges, the MAC, the PHY and the network.        *)
(*                                                                         *)
(* An initial state chooses between the loop and axidma_s2mm alone, with   *)
(* any host and any senders (wired is FALSE).  The data of a packet are    *)
(* its number and the place in it.                                         *)
(***************************************************************************)
EXTENDS AxiDmaS2mm, Sequences

CONSTANTS
  Burst,      \* sizeof buf in axidma_mm2s
  Packets,    \* bound: how many packets are sent
  Sizes,      \* their lengths
  RxSize,     \* the length of the receiver's buffer
  LinkSize    \* how many words the link holds

ASSUME LoopConstants ==
  /\ Packets \in Nat
  /\ RxSize \in Word \ {0}
  /\ Sizes \subseteq 1 .. RxSize
  /\ LinkSize \in Nat
  /\ Burst \in Nat \ {0}
  /\ Senders # {}

VARIABLES
  wired,      \* whether the channels and the drivers are connected
  mRegs, mCopied, mIrq, mUpd, pc, burst,   \* the channel mm2s
  inHand,     \* the words of its burst
  tx,         \* the sender: "reset", "idle", "filled", "wait"
  packet,     \* the packet in its buffer
  sizes,      \* the lengths of the packets so far
  link,       \* the words under way: [word, eop]
  brought,    \* the words of the transaction at s_b_transport
  rx,         \* the receiver: "reset", "idle", "ready", "wait"
  memory,     \* its buffer
  got,        \* the packets it took
  posted,     \* the receiver has written LENGTH
  early       \* a transaction was admitted before the first LENGTH write

mm2s == <<mRegs, mCopied, mIrq, mUpd, pc, burst>>
s2mm == vars
txVars == <<tx, packet, sizes>>
rxVars == <<rx, got, posted>>
loopVars == <<mm2s, inHand, txVars, link, brought, rxVars, memory, early>>
allVars == <<vars, loopVars, wired>>

M == INSTANCE AxiDmaMm2s
       WITH regs <- mRegs, copied <- mCopied, irq <- mIrq, upd <- mUpd

\* The process of the link that calls s_b_transport
Deliverer == CHOOSE s \in Senders : TRUE

\* A bound: the channels find the same in length_copied, 0 or the highest.
LoopInit ==
  /\ Init /\ copied \in {0, WordMod - 1}
  /\ M!Init /\ mCopied = copied
  /\ wired \in BOOLEAN
  /\ inHand = <<>>
  /\ tx = "reset" /\ packet = 0 /\ sizes = <<>>
  /\ link = <<>> /\ brought = <<>>
  /\ rx = "reset" /\ got = <<>> /\ posted = FALSE
  /\ memory = [a \in 0 .. RxSize - 1 |-> <<0, 0>>]
  /\ early = FALSE

-----------------------------------------------------------------------------
(* The sender's driver.  A handler of the interrupt reads SR.               *)

TxEnable ==
  /\ tx = "reset"
  /\ tx' = "idle"
  /\ M!WriteCr({"IOC_IRQ_EN"})
  /\ UNCHANGED <<pc, burst, packet, sizes>>

TxFill(n) ==
  /\ tx = "idle"
  /\ packet < Packets
  /\ tx' = "filled"
  /\ packet' = packet + 1
  /\ sizes' = Append(sizes, n)
  /\ M!WriteAddr(0)
  /\ UNCHANGED <<pc, burst>>

TxGo ==
  /\ tx = "filled"
  /\ tx' = "wait"
  /\ M!BusLength(sizes[packet])
  /\ UNCHANGED <<packet, sizes>>

TxDone ==
  /\ tx = "wait"
  /\ mIrq /\ "IOC_IRQ" \in mRegs.sr
  /\ tx' = "idle"
  /\ M!WriteSr({"IOC_IRQ"})
  /\ UNCHANGED <<pc, burst, packet, sizes>>

Tx ==
  /\ TxEnable \/ TxGo \/ TxDone \/ \E n \in Sizes : TxFill(n)
  /\ UNCHANGED <<s2mm, inHand, link, brought, rxVars, memory, early>>

-----------------------------------------------------------------------------
(* The channel mm2s: the thread reads the sender's buffer as it is then,    *)
(* and its stream transaction blocks until the link has room.               *)

Read ==
  /\ M!ReadDone
  /\ inHand' = [k \in 1 .. burst.len |-> <<packet, burst.addr + k>>]
  /\ UNCHANGED link

Stream ==
  /\ M!StreamDone
  /\ Len(link) + burst.len <= LinkSize
  /\ link' = link \o [k \in 1 .. burst.len |->
                        [word |-> inHand[k], eop |-> burst.eop /\ k = burst.len]]
  /\ inHand' = <<>>

Mm2s ==
  /\ Read \/ Stream \/ ((M!Wake \/ M!Irqs) /\ UNCHANGED <<inHand, link>>)
  /\ UNCHANGED <<s2mm, txVars, brought, rxVars, memory, early>>

-----------------------------------------------------------------------------
(* The link and the channel s2mm.  The link brings any number of words of   *)
(* one packet in a transaction.                                             *)

Bring(n) ==
  /\ n <= Len(link)
  /\ \A k \in 1 .. n - 1 : ~link[k].eop
  /\ Arrive(Deliverer, [len |-> n, eop |-> link[n].eop])
  /\ brought' = [k \in 1 .. n |-> link[k].word]
  /\ link' = SubSeq(link, n + 1, Len(link))
  /\ early' = (early \/ (~posted /\ ~Idle))
  /\ UNCHANGED memory

\* The copy m puts the first m.n of the words at m.to.
Deposit ==
  LET m == move[Deliverer]
  IN /\ WriteDone(Deliverer)
     /\ memory' = [a \in DOMAIN memory |->
          IF m.to <= a /\ a < m.to + m.n THEN brought[a - m.to + 1] ELSE memory[a]]
     /\ brought' = <<>>
     /\ UNCHANGED <<link, early>>

S2mm ==
  /\ \/ \E n \in 1 .. LinkSize : Bring(n)
     \/ Deposit
     \/ (Recheck(Deliverer) \/ Irqs) /\ UNCHANGED <<link, brought, memory, early>>
  /\ UNCHANGED <<mm2s, inHand, txVars, rxVars>>

-----------------------------------------------------------------------------
(* The receiver's driver                                                    *)

RxEnable ==
  /\ rx = "reset"
  /\ rx' = "idle"
  /\ WriteCr({"IOC_IRQ_EN"})
  /\ UNCHANGED <<at, beat, move, got, posted>>

RxAddr ==
  /\ rx = "idle"
  /\ rx' = "ready"
  /\ WriteAddr(0)
  /\ UNCHANGED <<at, beat, move, got, posted>>

RxPost ==
  /\ rx = "ready"
  /\ rx' = "wait"
  /\ BusLength(RxSize)
  /\ posted' = TRUE
  /\ UNCHANGED got

\* The packet has as many words as LENGTH says.
RxDone ==
  /\ rx = "wait"
  /\ irq /\ "IOC_IRQ" \in regs.sr
  /\ rx' = "idle"
  /\ got' = Append(got, [k \in 1 .. regs.length |-> memory[k - 1]])
  /\ WriteSr({"IOC_IRQ"})
  /\ UNCHANGED <<at, beat, move, posted>>

Rx ==
  /\ RxEnable \/ RxAddr \/ RxPost \/ RxDone
  /\ UNCHANGED <<mm2s, inHand, txVars, link, brought, memory, early>>

-----------------------------------------------------------------------------

Loop == wired /\ (Tx \/ Mm2s \/ S2mm \/ Rx) /\ UNCHANGED wired
Alone == ~wired /\ Next /\ UNCHANGED <<loopVars, wired>>

LoopNext == Loop \/ Alone

\* Every process of the simulation runs when it can, and the drivers do not
\* stop halfway.
LoopSpec ==
  /\ LoopInit /\ [][LoopNext]_allVars
  /\ WF_allVars(wired /\ Mm2s /\ UNCHANGED wired)
  /\ WF_allVars(wired /\ S2mm /\ UNCHANGED wired)
  /\ WF_allVars(wired /\ Rx /\ UNCHANGED wired)
  /\ WF_allVars(wired /\ tx # "idle" /\ Tx /\ UNCHANGED wired)

\* The receiver takes the packets that were sent, in their order, each whole,
\* although they travel in bursts and arrive in pieces, and LENGTH tells their
\* lengths.  What arrives before the first LENGTH write is lost, and its end
\* is taken for that of a packet: the channel is not idle then.
PacketWhole ==
  ~early =>
    /\ Len(got) <= packet
    /\ \A p \in DOMAIN got : got[p] = [k \in 1 .. sizes[p] |-> <<p, k>>]

\* A packet that is sent is received, unless one was early: both channels go
\* on from the end of a packet to the next, and a sender that is held back is
\* let go.
PacketArrives ==
  \A p \in 1 .. Packets : wired /\ packet = p ~> early \/ Len(got) >= p

=============================================================================
