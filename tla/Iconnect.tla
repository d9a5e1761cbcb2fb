------------------------------- MODULE Iconnect -------------------------------
(***************************************************************************)
(* The interconnect (src/iconnect.h) between the initiators and the        *)
(* targets of a machine.  The machine's constructor maps its targets, one  *)
(* memmap call each with idx = -1; then the initiators' transactions are   *)
(* routed to them.  A target may block, so that transactions of several    *)
(* initiators are in the interconnect at once.                             *)
(*                                                                         *)
(* A target is a memory of words that stands for any device: what is       *)
(* written at an offset is read there.  An address is that of a word.      *)
(***************************************************************************)
EXTENDS Integers, Sequences

CONSTANTS
  Machines,   \* the machines, one of which runs
  AddrMod,    \* 2^64, in words
  Unset,      \* a target_offset that is not set
  Garbage,    \* what an element of target_offset may hold that is not set
  Leftover,   \* what the offset of an address that is not mapped may hold
  Values,     \* what is written in a word
  Blank,      \* what a word holds that was never written
  MaxWrites   \* bound: the writes

Word == 0 .. AddrMod - 1
Entry == [addr : Word, size : Word, mode : {"relative", "absolute"}]

\* N_INITIATORS, N_TARGETS, the memmap calls, the offsets that
\* set_target_offset is called with, how many words each target has, and
\* bounds: what an entry of map may hold that is not set, the initiators that
\* are active and the bus addresses they use
IsMachine(m) ==
  /\ m.initiators \in Nat \ {0}
  /\ m.targets \in Nat \ {0}
  /\ m.calls \in Seq(Entry) /\ Len(m.calls) <= m.targets
  /\ \A i \in 0 .. m.initiators - 1 : m.base[i] \in Word \/ (m.base[i] = Unset /\ i # 0)
  /\ m.words \in Seq(Nat) /\ Len(m.words) = Len(m.calls)
  /\ m.stale \subseteq Entry
  /\ m.active \subseteq 0 .. m.initiators - 1
  /\ m.asked \subseteq Word

ASSUME IconnectConstants ==
  /\ AddrMod \in Nat \ {0}
  /\ Unset \notin Word
  /\ Garbage \subseteq Word
  /\ Leftover \subseteq Word
  /\ Blank \notin Values
  /\ MaxWrites \in Nat
  /\ \A m \in Machines : IsMachine(m)

VARIABLES
  machine,        \* which one runs
  map,            \* the address map
  made,           \* how many of the calls have been made
  targetOffset,   \* target_offset
  call,           \* each initiator's transaction
  cells,          \* the words that were written, in each target
  flat,           \* the word last written at each bus address
  read,           \* the read that was just answered: the value, the one last
                  \* written, and the target that gave it
  disturbed,      \* the targets that an address was sent to that is not mapped
  writes          \* how many writes there were

vars == <<machine, map, made, targetOffset, call, cells, flat, read, disturbed,
          writes>>

Initiators == 0 .. machine.initiators - 1
Targets == 0 .. machine.targets - 1
Entries == 0 .. machine.targets * 4 - 1

NoCall == [at |-> "idle", asked |-> 0, addr |-> 0, target |-> 0,
           stray |-> FALSE, write |-> FALSE, value |-> Blank]

\* A memory holds the words that were written.
WordIn(f, k) == IF k \in DOMAIN f THEN f[k] ELSE Blank
Put(f, k, v) == [x \in DOMAIN f \cup {k} |-> IF x = k THEN v ELSE f[x]]
IsMemory(f, keys) == DOMAIN f \subseteq keys /\ f \in [DOMAIN f -> Values]

TypeOK ==
  /\ machine \in Machines
  /\ map \in [Entries -> Entry]
  /\ made \in 0 .. Len(machine.calls)
  /\ targetOffset \in [Initiators -> Word]
  /\ call \in [Initiators ->
       [at : {"idle", "target"}, asked : Word, addr : Word, target : Targets,
        stray : BOOLEAN, write : BOOLEAN, value : Values \cup {Blank}]]
  /\ IsMemory(cells, Targets \X Word)
  /\ IsMemory(flat, Word)
  /\ read \in [value : Values \cup {Blank}, latest : Values \cup {Blank}, target : Targets]
  /\ disturbed \subseteq Targets
  /\ writes \in 0 .. MaxWrites

\* A free entry, whatever else it holds
Free == [addr |-> 0, size |-> 0, mode |-> "relative"]

NoMemory == [x \in {} |-> Blank]
NoRead == [value |-> Blank, latest |-> Blank, target |-> 0]

Init ==
  /\ machine \in Machines
  /\ map \in [Entries -> machine.stale \cup {Free}]
  /\ \A t \in Targets : map[t] = Free
  /\ \A e \in Entries \ Targets : map[e] \in machine.stale
  /\ made = 0
  /\ targetOffset \in
       [Initiators -> Garbage \cup {0} \cup {machine.base[i] : i \in Initiators}]
  /\ \A i \in Initiators :
       IF machine.base[i] # Unset THEN targetOffset[i] = machine.base[i]
       ELSE IF i \in machine.active THEN targetOffset[i] \in Garbage
       ELSE targetOffset[i] = 0
  /\ call = [i \in Initiators |-> NoCall]
  /\ cells = NoMemory
  /\ flat = NoMemory
  /\ read = NoRead
  /\ disturbed = {}
  /\ writes = 0

-----------------------------------------------------------------------------
(* The address map                                                          *)

\* memmap takes the first entry that is free.
MemMap ==
  /\ made < Len(machine.calls)
  /\ \E e \in Targets :
       /\ map[e].size = 0
       /\ \A f \in 0 .. e - 1 : map[f].size # 0
       /\ map' = [map EXCEPT ![e] = machine.calls[made + 1]]
  /\ made' = made + 1
  /\ UNCHANGED <<machine, targetOffset, call, cells, flat, read, disturbed, writes>>

Built == made = Len(machine.calls)

\* Mutant: only the end of the range is tested.
HoldsBelow(e, a) ==
  /\ map[e].size # 0
  /\ a <= (map[e].addr + map[e].size) % AddrMod

\* The range of an entry, its end included: the machines give a size that is
\* smaller by one byte.  The sum wraps around.
Holds(e, a) ==
  /\ map[e].size # 0
  /\ a >= map[e].addr
  /\ a <= (map[e].addr + map[e].size) % AddrMod

\* Mutant: every target is given the address on the bus.
OffsetAbsolute(e, a) == a
OffsetIn(e, a) == IF map[e].mode = "relative" THEN a - map[e].addr ELSE a

Hits(a) == {e \in Entries : Holds(e, a)}

\* map_address takes the first entry that holds the address.
FirstOf(hits) == {e \in hits : \A f \in hits : e <= f}
MapsTo(a, t) == t \in FirstOf(Hits(a))

\* An address that none of the machine's mappings is for
Strays(a) == \A t \in Targets : ~Holds(t, a)

\* sk_idx: memmap gives an entry its own number; an entry that was not set may
\* hold any target's.
Socket(e) == IF e \in Targets THEN {e} ELSE Targets

-----------------------------------------------------------------------------
(* Transactions                                                             *)

\* Mutant: the sum does not wrap around.
BusUnwrapped(i, a) == a + targetOffset[i]
Bus(i, a) == (a + targetOffset[i]) % AddrMod

\* A program that knows of no offset asks for the address it wants on the bus.
Known(i) == IF machine.base[i] = Unset THEN 0 ELSE machine.base[i]

\* What initiator i asks for to reach b on the bus
Asks(i, b) == (b - Known(i)) % AddrMod

\* What its addresses are shifted by: the offset that was set, or else what
\* the array happens to hold
Shift(i) == IF machine.base[i] = Unset THEN targetOffset[i] ELSE machine.base[i]

\* The word of the bus that its address a stands for
Meant(i, a) == (a + Shift(i)) % AddrMod

\* Where map_address sends what initiator i asks for: the target and the
\* offset.  An address that no entry holds goes to target 0, at an offset that
\* is not initialised; one that an entry holds that was not set, to any target.
Routes(i, a) ==
  LET b == Bus(i, a)
      hits == Hits(b)
  IN IF hits = {} THEN {0} \X Leftover
     ELSE UNION {Socket(e) \X {OffsetIn(e, b)} : e \in FirstOf(hits)}

\* The targets that an access of b to t may have disturbed
Disturbs(b, t) == IF Strays(b) THEN {t} ELSE {}

Counted(w) ==
  /\ w => writes < MaxWrites
  /\ writes' = IF w THEN writes + 1 ELSE writes

\* The target's answer to initiator i
Serve(i, a, t, o, w, v) ==
  LET cell == <<t, o>>
      b == Meant(i, a)
  IN IF w
     THEN /\ cells' = Put(cells, cell, v)
          /\ flat' = Put(flat, b, v)
          /\ read' = NoRead
     ELSE /\ read' = [value |-> WordIn(cells, cell), latest |-> WordIn(flat, b),
                      target |-> t]
          /\ UNCHANGED <<cells, flat>>

\* b_transport, up to the target
Issue(i, a, w, v) ==
  /\ Built
  /\ call[i].at = "idle"
  /\ Counted(w)
  /\ \E r \in Routes(i, a) :
       /\ call' = [call EXCEPT ![i] =
         [at |-> "target", asked |-> a, addr |-> r[2], target |-> r[1],
          stray |-> Strays(Bus(i, a)), write |-> w, value |-> v]]
       /\ disturbed' = disturbed \cup Disturbs(Bus(i, a), r[1])
  /\ read' = NoRead
  /\ UNCHANGED <<machine, map, made, targetOffset, cells, flat>>

\* The target answers.
Return(i) ==
  LET c == call[i]
  IN /\ c.at = "target"
     /\ call' = [call EXCEPT ![i] = NoCall]
     /\ Serve(i, c.asked, c.target, c.addr, c.write, c.value)
     /\ UNCHANGED <<machine, map, made, targetOffset, disturbed, writes>>

\* transport_dbg: nothing waits.
Debug(i, a, w, v) ==
  /\ Built
  /\ Counted(w)
  /\ \E r \in Routes(i, a) :
       /\ Serve(i, a, r[1], r[2], w, v)
       /\ disturbed' = disturbed \cup Disturbs(Bus(i, a), r[1])
  /\ UNCHANGED <<machine, map, made, targetOffset, call>>

Transact ==
  \E i \in machine.active, b \in machine.asked :
    \/ Issue(i, Asks(i, b), FALSE, Blank)
    \/ \E v \in Values : Issue(i, Asks(i, b), TRUE, v)

\* A bound: the debug accesses come when no transaction is under way.
Inspect ==
  /\ \A j \in Initiators : call[j].at = "idle"
  /\ \E i \in machine.active, b \in machine.asked :
       \/ Debug(i, Asks(i, b), FALSE, Blank)
       \/ \E v \in Values : Debug(i, Asks(i, b), TRUE, v)

Next == MemMap \/ Transact \/ Inspect \/ \E i \in Initiators : Return(i)

Spec == Init /\ [][Next]_vars

-----------------------------------------------------------------------------
(* Properties                                                               *)

\* The bus of the machine is one memory: a read finds what was last written at
\* its bus address, through whichever initiator, although each target has
\* offsets of its own and the ranges of the map overlap.  An initiator whose
\* offset was never set sees that memory too, shifted by whatever the array
\* holds.  Excepted is a target from the first access that went to it without
\* being mapped to it, and may have written anywhere in it.
FlatMemory == read.target \notin disturbed => read.value = read.latest

\* A transaction whose address is mapped is at a word that its target has:
\* the sizes in the memmap calls are those in the targets' constructors.
Inside ==
  \A i \in Initiators :
    call[i].at = "target" /\ ~call[i].stray => call[i].addr < machine.words[call[i].target + 1]

\* What it rests on: a mapping is not empty, does not wrap around and is no
\* longer than what the target has.
Fits(m) ==
  \A n \in 1 .. Len(m.calls) :
    /\ m.calls[n].mode = "relative"
    /\ m.calls[n].size > 0
    /\ m.calls[n].addr + m.calls[n].size < AddrMod
    /\ m.calls[n].size < m.words[n]

=============================================================================
