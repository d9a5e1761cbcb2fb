---------------------------- MODULE CatapultDevice ----------------------------
(***************************************************************************)
(* The register interface of a Catapult device: CatapultDevice of src/     *)
(* catapult/catapult_device.h and catapult_device.cc, with its shell       *)
(* registers (src/catapult/register_map.hpp), the width adapter of its     *)
(* role registers, and the reset of its machine (src/bedrock_cdx.cc).      *)
(* b_transport runs to its end without a wait.                             *)
(*                                                                         *)
(* An address has the bits above the device's 16 MB, the page (its bits    *)
(* 20 to 23), the register's number and the offset in the 8 bytes of the   *)
(* register.  The adapter tells the registers of the role's pages apart by *)
(* <<page, number>>, aliases included.  The role is no part of this        *)
(* module: HasRole says whether there is one, and RoleValue what its       *)
(* registers read as.  Its registers are written by the programs of        *)
(* AdapterHosts; anybody may do anything else.                             *)
(***************************************************************************)
EXTENDS AdapterHosts

CONSTANTS
  Shell,        \* the shell registers: [number -> [initial, kind]], where a
                \* kind is "readonly", "writable", "low" or "high", the two
                \* halves of the cycle counter
  BadValue,     \* 0xdeadbeefdeadbeef
  HasRole,      \* whether _role is set
  RoleValue,    \* [Regs -> Full]
  Addresses,    \* the addresses that are accessed: [above, page, reg, off]
  MaxTime       \* bound: the microseconds that are modelled

Kinds == {"readonly", "writable", "low", "high"}

ASSUME DeviceConstants ==
  /\ \A r \in DOMAIN Shell : Shell[r].initial \in Half /\ Shell[r].kind \in Kinds
  /\ BadValue \in Full
  /\ HasRole \in BOOLEAN
  /\ RoleValue \in [Regs -> Full]
  /\ \A a \in Addresses : a.page \in {7, 8, 9} => <<a.page, a.reg>> \in Regs
  /\ MaxTime \in Nat

VARIABLES
  shell,      \* the values of the shell registers
  now,        \* sc_time_stamp, in microseconds
  pulled,     \* whether pull_reset has reset the device
  repeats,    \* the programs that may repeat a write, not knowing whether
              \* it was before the reset
  stopped,    \* whether an assertion has failed
  trans       \* the last transaction: its length, whether it was refused, and
              \* how many bytes it has put in the data buffer

vars == <<hostVars, shell, now, pulled, repeats, stopped, trans>>

TypeOK ==
  /\ HostsTypeOK
  /\ shell \in [DOMAIN Shell -> Half]
  /\ now \in 0 .. MaxTime
  /\ pulled \in BOOLEAN
  /\ repeats \subseteq Hosts
  /\ stopped \in BOOLEAN
  /\ trans \in [len : Nat, refused : BOOLEAN, copied : Nat]

-----------------------------------------------------------------------------
(* The register map of the shell                                            *)

\* Register(), add, add_register: every register has its initial value.
Added == [r \in DOMAIN Shell |-> Shell[r].initial]

\* RegisterMap::reset, Register::reset
MapReset == shell' = [r \in DOMAIN Shell |-> Shell[r].initial]

\* get_cycle_counter
CycleCounter == now

\* Register::read: the reader that was added, or the value
RegisterRead(r) ==
  CASE Shell[r].kind = "low"  -> Low(CycleCounter)
    [] Shell[r].kind = "high" -> High(CycleCounter) % HalfMod
    [] OTHER                  -> shell[r]

\* Mutant: a write of 8 bytes is not cut to 32 bits.
StoredUncut(v) == v
Stored(v) == Low(v)

\* Register::write: what is read-only stays, and is written without an error.
RegisterWrite(r, v) ==
  shell' = IF Shell[r].kind = "writable"
           THEN [shell EXCEPT ![r] = Stored(v)] ELSE shell

\* find: shell registers are at offset 4.
Found(a) == a.off = 4 /\ a.reg \in DOMAIN Shell

-----------------------------------------------------------------------------
(* Reads: the number of bytes and the value                                 *)

\* get_address_type
AddressType(a) ==
  CASE a.above # 0      -> "external"
    [] a.page = 0       -> "shell"
    [] a.page = 8       -> "soft"
    [] a.page \in {7, 9} -> "dma"
    [] OTHER            -> "invalid"

RoleAddress(a) == AddressType(a) \in {"soft", "dma"}

RoleReg(a) == <<a.page, a.reg>>

Unread == [bytes |-> 0, value |-> BadValue]

ReadShell(a, len) ==
  CASE a.off # 4 -> [bytes |-> len, value |-> 0]
    [] Found(a)  -> [bytes |-> 4, value |-> RegisterRead(a.reg)]
    [] OTHER     -> Unread

\* Mutant: the adapter reads 8 bytes whatever the length.
ReadRoleWide(a, len) ==
  [bytes |-> 8, value |-> IF HasRole THEN RoleValue[RoleReg(a)] ELSE BadValue]

\* The adapter's read: without a role the value stays what it was.
ReadRole(a, len) ==
  LET v == IF HasRole THEN RoleValue[RoleReg(a)] ELSE BadValue
  IN [bytes |-> len,
      value |-> IF len = 8 THEN v ELSE IF a.off = 4 THEN High(v) ELSE Low(v)]

ReadRegister(a, len) ==
  CASE AddressType(a) = "shell" -> ReadShell(a, len)
    [] RoleAddress(a)           -> ReadRole(a, len)
    [] OTHER                    -> Unread

-----------------------------------------------------------------------------
(* b_transport                                                              *)

Aligned(a, len) == a.off % len = 0

Running == ~stopped

\* Everything but the registers and the transaction
Around == <<now, pulled, repeats, stopped>>

Transacted(len, copied) ==
  trans' = [len |-> len, refused |-> FALSE, copied |-> copied]

\* A length that is not 4 or 8, or byte enables
Refuse(len) ==
  /\ Running
  /\ trans' = [len |-> len, refused |-> TRUE, copied |-> 0]
  /\ UNCHANGED <<hostVars, shell, Around>>

\* The adapter's assertion on alignment fails.
Misalign(a, len) ==
  /\ Running
  /\ RoleAddress(a) /\ ~Aligned(a, len)
  /\ stopped' = TRUE
  /\ UNCHANGED <<hostVars, shell, now, pulled, repeats, trans>>

MaxOf(m, n) == IF m > n THEN m ELSE n

Read(a, len) ==
  LET r == ReadRegister(a, len)
  IN /\ Running
     /\ RoleAddress(a) => Aligned(a, len)
     /\ Transacted(len, IF r.bytes = 0 THEN 0 ELSE MaxOf(len, r.bytes))
     /\ UNCHANGED <<hostVars, shell, Around>>

\* A write to a shell register; one to an address that holds none changes
\* nothing.
WriteShell(a, len, v) ==
  /\ Running
  /\ AddressType(a) = "shell"
  /\ IF Found(a) THEN RegisterWrite(a.reg, v) ELSE UNCHANGED shell
  /\ Transacted(len, 0)
  /\ UNCHANGED <<hostVars, Around>>

\* A write to an address that is no register's
WriteNowhere(a, len) ==
  /\ Running
  /\ AddressType(a) \in {"external", "invalid"}
  /\ Transacted(len, 0)
  /\ UNCHANGED <<hostVars, shell, Around>>

\* A program's write to a register of the role
WriteRole(h) ==
  /\ Running
  /\ Continue(h)
  /\ Transacted(IF WriteWide(h) THEN 8 ELSE 4, 0)
  /\ UNCHANGED <<shell, Around>>

-----------------------------------------------------------------------------
(* The machine                                                              *)

\* pull_reset, a microsecond after the start: reset sets the shell registers,
\* and the adapter keeps its stash.  A program may then repeat a write.
PullReset ==
  /\ Running
  /\ now = 1 /\ ~pulled
  /\ MapReset
  /\ pulled' = TRUE
  /\ repeats' = Hosts
  /\ UNCHANGED <<hostVars, now, stopped, trans>>

Tick ==
  /\ Running
  /\ now < MaxTime
  /\ now = 1 => pulled
  /\ now' = now + 1
  /\ UNCHANGED <<hostVars, shell, pulled, repeats, stopped, trans>>

Start(h, r, v) ==
  /\ Begin(h, r, v)
  /\ UNCHANGED <<shell, Around, trans>>

StartAgain(h) ==
  /\ h \in repeats
  /\ Repeat(h)
  /\ repeats' = repeats \ {h}
  /\ UNCHANGED <<shell, now, pulled, stopped, trans>>

Init ==
  /\ HostsInit
  /\ shell = Added
  /\ now = 0
  /\ pulled = FALSE
  /\ repeats = {}
  /\ stopped = FALSE
  /\ trans = [len |-> 0, refused |-> FALSE, copied |-> 0]

Next ==
  \/ \E len \in {1, 16} : Refuse(len)
  \/ \E a \in Addresses, len \in {4, 8} :
       \/ Misalign(a, len)
       \/ Read(a, len)
       \/ \E v \in IF len = 8 THEN Full ELSE Half : WriteShell(a, len, v)
       \/ WriteNowhere(a, len)
  \/ \E h \in Hosts :
       \/ \E r \in Regs, v \in Full : Start(h, r, v)
       \/ StartAgain(h)
       \/ WriteRole(h)
  \/ PullReset
  \/ Tick

Spec == Init /\ [][Next]_vars

\* A program that has begun a write goes on with it.
FairSpec == Spec /\ \A h \in Hosts : WF_vars(WriteRole(h))

-----------------------------------------------------------------------------
(* Properties                                                               *)

\* A read fills the initiator's data buffer or leaves it alone; it never
\* copies more than the buffer holds, although it copies the larger of the
\* length asked for and the number of bytes that the register's reader says
\* it has read.
CopiesLength == trans.copied \in {0, trans.len}

\* The adapter does not stay in the middle of a write, in which it drops the
\* 32-bit writes of everybody else, reset or not, as long as the simulation
\* runs.
StashFrees == InProgress ~> (~InProgress \/ stopped)

=============================================================================
