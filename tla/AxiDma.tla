------------------------------- MODULE AxiDma -------------------------------
(***************************************************************************)
(* The registers and the interrupt that the two channels of the AXI DMA    *)
(* share (class axidma of src/xilinx-axidma.h, src/xilinx-axidma.cc).      *)
(* AxiDmaMm2s and AxiDmaS2mm add a channel's data mover.                   *)
(***************************************************************************)
EXTENDS Integers

CONSTANTS
  WordMod,     \* 2^32: length and length_copied are uint32_t
  AddrIns,     \* what the host writes to ADDR_MSB:ADDR
  LengthIns    \* what it writes to LENGTH

Word == 0 .. WordMod - 1

ASSUME AxiDmaConstants ==
  /\ WordMod \in Nat \ {0}
  /\ AddrIns \subseteq Nat
  /\ LengthIns \subseteq Word

VARIABLES
  regs,       \* the registers; cr and sr as sets of bits
  copied,     \* length_copied
  irq,        \* the interrupt line
  upd         \* whether the update_irqs method has been made to run

baseVars == <<regs, copied, irq, upd>>

BaseTypeOK ==
  /\ regs \in [cr : SUBSET {"IOC_IRQ_EN"}, sr : SUBSET {"IDLE", "IOC_IRQ"},
               addr : Nat, length : Word]
  /\ copied \in Word
  /\ irq \in BOOLEAN
  /\ upd \in BOOLEAN

\* The constructor leaves length_copied as it finds it.
BaseInit ==
  /\ regs = [cr |-> {}, sr |-> {}, addr |-> 0, length |-> 0]
  /\ copied \in Word
  /\ irq = FALSE
  /\ upd = FALSE

Idle == "IDLE" \in regs.sr
Interrupting == "IOC_IRQ" \in regs.sr /\ "IOC_IRQ_EN" \in regs.cr

UpdateIrqs ==
  /\ upd
  /\ irq' = Interrupting
  /\ upd' = FALSE
  /\ UNCHANGED <<regs, copied>>

\* Mutant: the interrupt is not updated.
WriteSrQuiet(bits) ==
  /\ regs' = [regs EXCEPT !.sr = @ \ (bits \cap {"IOC_IRQ"})]
  /\ UNCHANGED <<copied, irq, upd>>

\* b_transport: a write to CR, to ADDR or ADDR_MSB, or to SR, where a one
\* clears the interrupt
WriteCr(bits) ==
  /\ regs' = [regs EXCEPT !.cr = bits]
  /\ upd' = TRUE
  /\ UNCHANGED <<copied, irq>>

WriteAddr(a) ==
  /\ regs' = [regs EXCEPT !.addr = a]
  /\ upd' = TRUE
  /\ UNCHANGED <<copied, irq>>

WriteSr(bits) ==
  /\ regs' = [regs EXCEPT !.sr = @ \ (bits \cap {"IOC_IRQ"})]
  /\ upd' = TRUE
  /\ UNCHANGED <<copied, irq>>

\* Mutant: IDLE is left as it is.
WriteLengthIdle(n) ==
  /\ regs' = [regs EXCEPT !.length = n]
  /\ copied' = 0
  /\ upd' = TRUE
  /\ UNCHANGED irq

\* A write to LENGTH, which also notifies ev_dma_copy (in the channels)
WriteLength(n) ==
  /\ regs' = [regs EXCEPT !.length = n, !.sr = @ \ {"IDLE"}]
  /\ copied' = 0
  /\ upd' = TRUE
  /\ UNCHANGED irq

\* A read makes update_irqs run too.
ReadReg == upd' = TRUE /\ UNCHANGED <<regs, copied, irq>>

\* Any access that does not start a transfer.  A register's number is taken to
\* be one of the array's, although b_transport does not check it.
AccessOther ==
  \/ ReadReg
  \/ \E bits \in SUBSET {"IOC_IRQ_EN"} : WriteCr(bits)
  \/ \E a \in AddrIns : WriteAddr(a)
  \/ \E bits \in SUBSET {"IDLE", "IOC_IRQ"} : WriteSr(bits)

\* The interrupt line is the masked status, or update_irqs is about to run:
\* no path that changes SR or CR forgets the update.
IrqFollows == irq # Interrupting => upd

=============================================================================
