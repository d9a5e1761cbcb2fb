---------------------------- MODULE RegisterLayout ----------------------------
(***************************************************************************)
(* Where the registers of a Catapult device lie: the shell registers that  *)
(* init_shell_registers adds (src/catapult/catapult_device.cc), the DMA    *)
(* registers that init_dma_registers adds (src/catapult/slots_dma.cc,      *)
(* slots_dma.h), and how HelloWorldRole (src/catapult/hello_world.cc) gets *)
(* from an address to the index of a DMA register.  What the registers     *)
(* hold is left out.                                                       *)
(***************************************************************************)
EXTENDS CatapultDevice, FiniteSets

CONSTANTS
  Capability,   \* INTER_ADDR_SOFT_REG_CAPABILITY, of a header outside src/
  MaxSlots      \* the slots for which the index of a register has room

ASSUME LayoutConstants ==
  /\ Capability \in 0 .. 15 \ {3, 10, 15}
  /\ MaxSlots \in Nat \ {0} /\ MaxSlots <= 128

MiB == 1048576

\* The bits of an address, as CatapultDevice has them
Split(address) == [above |-> address \div (16 * MiB),
                   page  |-> (address \div MiB) % 16,
                   reg   |-> (address \div 8) % (MiB \div 8),
                   off   |-> address % 8]

-----------------------------------------------------------------------------
(* The shell registers: 256 bytes apart, in columns of 16 bytes             *)

Column(rows, c) == {256 * r + 16 * c + 4 : r \in rows}

ShellColumn == Column(0 .. 127, 3)
AsmiColumn == Column(0 .. 31, 10)
LegacyColumn == Column(4 .. 6, 15)
CapabilityColumn == Column(0 .. 31, Capability)

ShellFamilies == {ShellColumn, AsmiColumn, LegacyColumn, CapabilityColumn}

ShellNumbers == {Split(a).reg : a \in UNION ShellFamilies}

\* init_shell_registers adds no others.
ASSUME TableConstants == DOMAIN Shell \subseteq ShellNumbers

\* Registers 66 and 67 read as the cycle counter, and those of the ASMI are
\* written.
KindAt(address) ==
  CASE address \in AsmiColumn  -> "writable"
    [] address \in Column({66}, 3) -> "low"
    [] address \in Column({67}, 3) -> "high"
    [] OTHER                   -> "readonly"

-----------------------------------------------------------------------------
(* The DMA registers, by index                                              *)

DmaBit == 131072            \* 0x20000

\* The one at 0x1c7f0, and those from 0x20000 on
Magic0 == 116720
Fixed == {DmaBit + i : i \in 0 .. 9 \cup 16 .. 19 \cup 22 .. 25 \cup 32 .. 36}

\* Mutant: a slot's registers are two apart, although it has three.
AddressRegnumClose(s, t) == DmaBit + 512 + 2 * s + t

\* get_address_regnum: the types 0, 1 and 2 are input, output and control.
AddressRegnum(s, t) == DmaBit + 512 + 4 * s + t

\* get_doorbell_regnum: the types 0 and 1 are full and done.
DoorbellRegnum(s, t) == DmaBit + 65536 + 512 * s + t

SlotRegnums(s) == {AddressRegnum(s, t) : t \in 0 .. 2}
                    \cup {DoorbellRegnum(s, t) : t \in 0 .. 1}

\* The index that the role makes of an address
RegIndex(address) == (address \div 8) % (2 * DmaBit)

\* The addresses whose accesses get to the DMA register with index i
ReachedBy(i) ==
  {a \in {p * MiB + 8 * (i % DmaBit) : p \in 0 .. 15} :
     AddressType(Split(a)) = "dma" /\ RegIndex(a) = i}

-----------------------------------------------------------------------------
(* Properties                                                               *)

Disjoint(S) == \A x, y \in S : x # y => x \cap y = {}

Apart ==
  /\ Cardinality(ShellFamilies) = 4 /\ Disjoint(ShellFamilies)
  /\ \A a \in UNION ShellFamilies :
       AddressType(Split(a)) = "shell" /\ Split(a).off = 4
  /\ Disjoint({Fixed} \cup {SlotRegnums(s) : s \in 0 .. MaxSlots - 1})
  /\ \A s \in 0 .. MaxSlots - 1 : Cardinality(SlotRegnums(s)) = 5
  /\ \A i \in Fixed \cup UNION {SlotRegnums(s) : s \in 0 .. MaxSlots - 1} :
       ReachedBy(i) = {p * MiB + 8 * (i - DmaBit) : p \in {7, 9}}
  /\ ReachedBy(Magic0) = {}

\* No register is added where another is, which add_register asserts, for any
\* number of slots that an index has room for; every shell register is where
\* an access finds it, those that the device keeps among them; and a DMA
\* register from 0x20000 on has two addresses, one in each page of the DMA
\* registers, while the one at 0x1c7f0 has none.
Located == DOMAIN shell \subseteq ShellNumbers /\ Apart

=============================================================================
