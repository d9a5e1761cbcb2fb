--------------------------------- MODULE Tops ---------------------------------
(***************************************************************************)
(* The machines of the repository, as their constructors build them: what  *)
(* each maps on its interconnect, in the order of the memmap calls, and    *)
(* how many initiators and targets the interconnect has.                   *)
(*                                                                         *)
(* An address counts words of eight bytes, so that 0x200000000 is an       *)
(* integer of TLC's: every mapping starts and ends at such a word.  The    *)
(* highest address lies above the highest mapping, and UINT64_MAX as a     *)
(* size is that address.                                                   *)
(***************************************************************************)
EXTENDS Integers, Sequences

CONSTANTS AddrMod, Unset, Active(_)

\* The word at an offset in the page of 64 KiB that the upper digits name
At(page, offset) == page * 8192 + offset \div 8

Words(bytes) == bytes \div 8
KiB == 1024
MiB == 1024 * 1024

\* A mapping of bytes - 1 at addr, to a target that has some number of words
Sized(addr, bytes, words) ==
  [addr |-> addr, size |-> (bytes - 1) \div 8, words |-> words]
Window(addr, bytes) == Sized(addr, bytes, Words(bytes))

\* QEMU behind the rest: at 0, of size 0xffffffff - 1 or UINT64_MAX
Qemu4G == [addr |-> 0, size |-> \h1FFFFFFF, words |-> \h20000000]
QemuAll == [addr |-> 0, size |-> AddrMod - 1, words |-> AddrMod]

LastWord(w) == (w.addr + w.size) % AddrMod

\* A bound: the programs access the first and the last word of each mapping,
\* and the last word of all.
Probes(ws) ==
  UNION {{ws[n].addr, LastWord(ws[n])} : n \in DOMAIN ws} \cup {AddrMod - 1}

Wired(initiators, targets, ws, base) ==
  [initiators |-> initiators,
   targets |-> targets,
   calls |-> [n \in DOMAIN ws |-> [addr |-> ws[n].addr, size |-> ws[n].size,
                                   mode |-> "relative"]],
   words |-> [n \in DOMAIN ws |-> ws[n].words],
   base |-> base,
   stale |-> {[addr |-> 0, size |-> 0, mode |-> "relative"]},
   active |-> Active(initiators),
   asked |-> Probes(ws)]

\* The constructor of the interconnect sets the first offset, no machine the
\* others.
FirstOnly(initiators) ==
  [i \in 0 .. initiators - 1 |-> IF i = 0 THEN 0 ELSE Unset]

Machine(initiators, targets, ws) ==
  Wired(initiators, targets, ws, FirstOnly(initiators))

-----------------------------------------------------------------------------

\* zynq_demo: the debug device, and nothing else
Zynq == Machine(1, 1, <<Window(At(\h4000, 0), \h100)>>)

\* The first DMA of zynqmp_demo has its registers at 0xa0010000.
DemoDma(n) == Window(At(\hA001, n * \h100), \h18)

\* zynqmp_demo, without the Verilog models: mem_af has more words than the
\* mapping shows.
ZynqMP ==
  Machine(1 + 4, 6 + 4,
    <<Window(At(\hA000, 0), \h100),
      DemoDma(0), DemoDma(1), DemoDma(2), DemoDma(3),
      Window(At(\hA002, 0), \h10),
      Window(At(\hA045, 0), \h10),
      Sized(At(\hA046, 0), \h400, Words(16 * 512)),
      Window(At(\hA080, 0), 64 * KiB),
      Qemu4G>>)

VersalDevices ==
  <<Window(At(\h8000, 0), \h100),
    Sized(At(\h8001, 0), \h10, Words(\h18)),
    Window(At(\h20000, 0), 32 * KiB),
    Window(At(\h8002, 0), \h10),
    Window(At(\hA045, 0), \h10),
    Sized(At(\hA046, 0), \h400, Words(16 * 512)),
    Window(At(\hA080, 0), 64 * KiB),
    Window(At(\hFF4E, 0), MiB)>>

\* versal_demo, and with DDR_IN_SYSTEMC: QEMU is then behind an address of
\* 0x80000000, from which its own are counted.
Versal == Machine(6, 9, VersalDevices \o <<Qemu4G>>)

DdrSize == \h10000000
VersalDdr ==
  Machine(6, 10, VersalDevices
    \o <<[addr |-> 0, size |-> DdrSize - 1, words |-> DdrSize],
         [Qemu4G EXCEPT !.addr = DdrSize]>>)

\* zynqmp_lmac2_demo and lmac3, at 0xa0000000; riscv_virt, at 0x28000000
Lmac(page) ==
  Machine(3, 4,
    <<Window(At(page + 3, 0), \h4000),
      Window(At(page + 3, \h4000), \h100),
      Window(At(page + 3, \h5000), \h100),
      Qemu4G>>)

Lmac2ZynqMP == Lmac(\hA000)
Lmac2RiscV == Lmac(\h2800)

\* zynqmp_vcs_demo
Vcs ==
  Machine(2, 4,
    <<Window(At(\hA000, 0), \h100),
      Sized(At(\hA001, 0), \h10, Words(\h18)),
      Window(At(\hA002, 0), \h10),
      Qemu4G>>)

\* versal_mrmac_demo
Mrmac ==
  Machine(3, 8,
    <<Window(At(\hA401, 0), \h10000),
      Window(At(\hA402, 0), \h1000),
      Window(At(\hA406, 0), \h100),
      Window(At(\hA407, 0), \h100),
      Window(At(\hA408, 0), \h100),
      Window(At(\hA409, 0), \h100),
      Window(At(\hA40A, 0), \h100),
      Qemu4G>>)

\* versal_net_cdx_stub
CdxStub ==
  Machine(3, 7,
    <<Window(At(\hE400, 0), \h100),
      Window(At(\hE402, 0), \h100),
      Window(At(\hE403, 0), \h100),
      Window(At(\hE404, 0), \h100),
      Window(At(\hE410, 0), 2 * MiB),
      Window(At(\hE430, 0), 2 * MiB),
      QemuAll>>)

\* bedrock_cdx: the Catapult device of 16 MiB
BedrockCdx == Machine(2, 2, <<Window(At(\hE400, 0), 16 * MiB), QemuAll>>)

\* The dummy memory behind the QDMA of cpm-qdma-demo
QdmaCard == Machine(1, 1, <<Window(At(\h10210, 0), \h1000)>>)

Tops ==
  {Zynq, ZynqMP, Versal, VersalDdr, Lmac2ZynqMP, Lmac2RiscV, Vcs, Mrmac,
   CdxStub, BedrockCdx, QdmaCard}
=============================================================================
