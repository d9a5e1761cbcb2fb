------------------------ MODULE CatapultDevice_proofs ------------------------
(* Theorems about a Catapult device and its width adapter, for any number   *)
(* of programs that write through it, any registers and any addresses, and  *)
(* about where its registers lie.                                           *)
EXTENDS RegisterLayout, FiniteSetTheorems, TLAPS

LEMMA HalvesType ==
  \A v \in Full : Low(v) \in Half /\ High(v) \in Half /\ v = High(v) * HalfMod + Low(v)
BY AdapterConstants, Z3 DEF Full, Half, Low, High

LEMMA HalfInFull == Half \subseteq Full
BY AdapterConstants, Z3 DEF Full, Half

\* A program that is at work writes to a register of its own.
JobsOwn ==
  \A h \in Hosts :
    job[h].at # "idle" => job[h].reg \in Regs /\ Owner[job[h].reg] = h

\* The low half that is held is of the write its program is at, be it that the
\* program has begun to repeat it.
HeldHalf ==
  InProgress =>
    LET j == job[Owner[stash.reg]]
    IN j.at # "idle" /\ j.reg = stash.reg /\ stash.data = Low(j.v)

HostsInv == HostsTypeOK /\ JobsOwn /\ HeldHalf /\ NeverTorn

LEMMA InitHostsInv == HostsInit => HostsInv
<1> SUFFICES ASSUME HostsInit PROVE HostsInv
  OBVIOUS
<1>1. 0 \in Half /\ 0 \in Full
  BY AdapterConstants, Z3 DEF Half, Full
<1>2. HostsTypeOK
  BY <1>1 DEF HostsInit, HostsTypeOK, StashTypeOK, NoStash, Idle, Nothing
<1>3. JobsOwn /\ HeldHalf /\ NeverTorn
  BY DEF HostsInit, JobsOwn, HeldHalf, NeverTorn, InProgress, NoStash, Idle, Nothing
<1> QED
  BY <1>2, <1>3 DEF HostsInv

\* What the adapter holds and posts after a write by a program that is at work
LEMMA WriteInv ==
  ASSUME HostsInv, NEW h \in Hosts, job[h].at # "idle",
         NEW part \in {"low", "high", "wide"}, NEW v \in Full,
         part # "wide" => v \in Half,
         Write(h, part, v)
  PROVE  /\ StashTypeOK'
         /\ stash' \in {stash, NoStash, [reg |-> job[h].reg, data |-> v]}
         /\ stash' # stash /\ stash' # NoStash => part = "low"
         /\ part # "low" /\ stash.reg = job[h].reg => stash' = NoStash
<1>1. job[h].reg \in Regs /\ StashTypeOK
  BY DEF HostsInv, JobsOwn, HostsTypeOK
<1>2. StashTypeOK'
  <2>1. 0 \in Half
    BY AdapterConstants DEF Half
  <2> QED
    BY <1>1, <2>1 DEF Write, StashWrite, StashTypeOK, NoStash
<1> QED
  BY <1>1, <1>2 DEF Write, StashWrite, Completes, NoStash, InProgress

\* What the actions of the device do to the programs and the adapter
HostsNext ==
  \E h \in Hosts :
    \/ \E r \in Regs, v \in Full : Begin(h, r, v)
    \/ Repeat(h)
    \/ Continue(h)

LEMMA NextHostsInv ==
  ASSUME HostsInv, [HostsNext]_hostVars
  PROVE  HostsInv'
<1> USE HostConstants
<1>0. /\ HostsTypeOK /\ JobsOwn /\ HeldHalf /\ NeverTorn
      /\ job \in [Hosts -> [at : {"idle", "low", "high"},
                            reg : Regs \cup {NoReg}, v : Full]]
  BY DEF HostsInv, HostsTypeOK
<1>1. ASSUME NEW h \in Hosts, NEW r \in Regs, NEW v \in Full, Begin(h, r, v)
      PROVE  HostsInv'
  <2>1. /\ job[h].at = "idle" /\ Owner[r] = h
        /\ job' = [job EXCEPT ![h] = [at |-> "low", reg |-> r, v |-> v]]
        /\ UNCHANGED <<stash, posted>>
    BY <1>1 DEF Begin
  <2>2. HostsTypeOK'
    BY <1>0, <2>1 DEF HostsTypeOK, StashTypeOK
  <2>3. JobsOwn'
    BY <1>0, <2>1 DEF JobsOwn
  <2>4. HeldHalf'
    BY <1>0, <2>1 DEF HeldHalf, InProgress, HostsTypeOK, StashTypeOK
  <2> QED
    BY <1>0, <2>1, <2>2, <2>3, <2>4 DEF HostsInv, NeverTorn
<1>2. ASSUME NEW h \in Hosts, WriteLow(h)
      PROVE  HostsInv'
  <2> DEFINE v == Low(job[h].v)
  <2>1. v \in Half /\ v \in Full
    BY <1>0, HalvesType, HalfInFull
  <2>2. /\ job[h].at = "low" /\ Write(h, "low", v)
        /\ job' = [job EXCEPT ![h].at = "high"]
    BY <1>2 DEF WriteLow
  <2>3. posted' = posted
    BY <2>2 DEF Write, Completes
  <2>4. /\ StashTypeOK'
        /\ stash' \in {stash, NoStash, [reg |-> job[h].reg, data |-> v]}
    BY <2>1, <2>2, WriteInv
  <2>5. HostsTypeOK' /\ JobsOwn'
    BY <1>0, <2>2, <2>3, <2>4 DEF HostsTypeOK, JobsOwn
  <2>6. HeldHalf'
    <3> USE DEF HeldHalf, InProgress
    <3>1. CASE stash' = stash
      <4>1. stash.reg # NoReg => Owner[stash.reg] \in Hosts
        BY <1>0 DEF HostsTypeOK, StashTypeOK
      <4> QED
        BY <1>0, <2>2, <3>1, <4>1
    <3>2. CASE stash' = NoStash
      BY <3>2 DEF NoStash
    <3>3. CASE stash' = [reg |-> job[h].reg, data |-> v]
      <4>1. Owner[job[h].reg] = h
        BY <1>0, <2>2 DEF JobsOwn
      <4> QED
        BY <1>0, <2>2, <3>3, <4>1
    <3> QED
      BY <2>4, <3>1, <3>2, <3>3
  <2> QED
    BY <1>0, <2>3, <2>5, <2>6 DEF HostsInv, NeverTorn
<1>3. ASSUME NEW h \in Hosts, WriteHigh(h) \/ WriteWide(h)
      PROVE  HostsInv'
  <2>1. PICK part \in {"high", "wide"}, v \in Full :
          /\ Write(h, part, v) /\ job[h].at # "idle"
          /\ job' = [job EXCEPT ![h] = Idle]
          /\ part = "high" => v = High(job[h].v) /\ v \in Half
          /\ part = "wide" => v = job[h].v
    BY <1>0, <1>3, HalvesType, HalfInFull DEF WriteHigh, WriteWide
  <2>2. /\ StashTypeOK'
        /\ stash' \in {stash, NoStash}
        /\ stash.reg = job[h].reg => stash' = NoStash
    BY <2>1, WriteInv
  <2>3. job[h].reg \in Regs /\ Owner[job[h].reg] = h
    BY <1>0, <2>1 DEF JobsOwn
  <2>4. /\ posted'.v = posted'.meant
        /\ posted' \in [reg : Regs \cup {NoReg}, v : Full, meant : Full]
    <3>1. CASE Completes(job[h].reg, part)
      <4>1. posted' = [reg |-> job[h].reg, v |-> Composed(part, v),
                       meant |-> job[h].v]
        BY <2>1, <3>1 DEF Write
      <4>2. Composed(part, v) = job[h].v
        <5>1. CASE part = "wide"
          BY <2>1, <5>1 DEF Composed
        <5>2. CASE part = "high"
          <6>1. stash.reg = job[h].reg
            BY <3>1, <5>2 DEF Completes
          <6>2. stash.data = Low(job[h].v)
            BY <1>0, <2>3, <6>1, AdapterConstants DEF HeldHalf, InProgress
          <6> QED
            BY <1>0, <2>1, <5>2, <6>2, HalvesType DEF Composed
        <5> QED
          BY <5>1, <5>2
      <4> QED
        BY <1>0, <2>3, <4>1, <4>2
    <3>2. CASE ~Completes(job[h].reg, part)
      BY <1>0, <2>1, <3>2 DEF Write, NeverTorn, HostsTypeOK
    <3> QED
      BY <3>1, <3>2
  <2>5. HostsTypeOK' /\ JobsOwn'
    <3>1. Idle \in [at : {"idle", "low", "high"}, reg : Regs \cup {NoReg}, v : Full]
      BY AdapterConstants, <1>0, HalfInFull DEF Idle, Half
    <3> QED
      BY <1>0, <2>1, <2>2, <2>4, <3>1 DEF HostsTypeOK, JobsOwn, Idle
  <2>6. HeldHalf'
    <3> USE DEF HeldHalf, InProgress
    <3>1. CASE stash' = NoStash
      BY <3>1 DEF NoStash
    <3>2. CASE stash' = stash /\ stash' # NoStash
      <4>1. stash.reg # job[h].reg
        BY <2>2, <3>2
      <4>2. ASSUME stash.reg # NoReg
            PROVE  Owner[stash.reg] \in Hosts /\ Owner[stash.reg] # h
        <5>1. stash.reg \in Regs
          BY <1>0, <4>2 DEF HostsTypeOK, StashTypeOK
        <5> QED
          BY <1>0, <4>1, <4>2, <5>1
      <4> QED
        BY <1>0, <2>1, <3>2, <4>2
    <3> QED
      BY <2>2, <3>1, <3>2
  <2> QED
    BY <2>4, <2>5, <2>6 DEF HostsInv, NeverTorn
<1>4. ASSUME NEW h \in Hosts, Repeat(h)
      PROVE  HostsInv'
  <2>1. /\ job[h].at = "high"
        /\ job' = [job EXCEPT ![h].at = "low"]
        /\ UNCHANGED <<stash, posted>>
    BY <1>4 DEF Repeat
  <2>2. HostsTypeOK' /\ JobsOwn'
    BY <1>0, <2>1 DEF HostsTypeOK, StashTypeOK, JobsOwn
  <2>3. HeldHalf'
    <3>1. stash.reg # NoReg => Owner[stash.reg] \in Hosts
      BY <1>0 DEF HostsTypeOK, StashTypeOK
    <3> QED
      BY <1>0, <2>1, <3>1 DEF HeldHalf, InProgress
  <2> QED
    BY <1>0, <2>1, <2>2, <2>3 DEF HostsInv, NeverTorn
<1>5. CASE UNCHANGED hostVars
  BY <1>0, <1>5 DEF hostVars, HostsInv, HostsTypeOK, StashTypeOK, JobsOwn, HeldHalf,
                    InProgress, NeverTorn
<1> QED
  BY <1>1, <1>2, <1>3, <1>4, <1>5 DEF HostsNext, Continue

\* A step of the device is a step of the programs and the adapter, or leaves
\* them alone.
LEMMA StepHosts == [Next]_vars => [HostsNext]_hostVars
<1> SUFFICES ASSUME [Next]_vars PROVE [HostsNext]_hostVars
  OBVIOUS
<1>1. ASSUME NEW a \in Addresses, NEW len \in {4, 8},
             \/ Misalign(a, len) \/ Read(a, len) \/ WriteNowhere(a, len)
             \/ \E v \in IF len = 8 THEN Full ELSE Half : WriteShell(a, len, v)
      PROVE  UNCHANGED hostVars
  BY <1>1 DEF Misalign, Read, WriteNowhere, WriteShell
<1>2. ASSUME NEW h \in Hosts,
             \/ \E r \in Regs, v \in Full : Start(h, r, v)
             \/ StartAgain(h) \/ WriteRole(h)
      PROVE  HostsNext
  BY <1>2 DEF Start, StartAgain, WriteRole, HostsNext
<1>3. ASSUME NEW len \in {1, 16}, Refuse(len)
      PROVE  UNCHANGED hostVars
  BY <1>3 DEF Refuse
<1>4. CASE PullReset \/ Tick \/ UNCHANGED vars
  BY <1>4 DEF PullReset, Tick, vars
<1> QED
  BY <1>1, <1>2, <1>3, <1>4 DEF Next

\* No torn value reaches the role, however many programs write through the
\* adapter: it composes a high half with the low half of the same write, or
\* drops it; and it does so although a reset leaves the adapter alone.
THEOREM AdapterNeverTorn == Spec => []NeverTorn
<1>1. Init => HostsInv
  BY InitHostsInv DEF Init
<1>2. HostsInv /\ [Next]_vars => HostsInv'
  BY StepHosts, NextHostsInv
<1>3. HostsInv => NeverTorn
  BY DEF HostsInv
<1> QED
  BY <1>1, <1>2, <1>3, PTL DEF Spec

-----------------------------------------------------------------------------
(* The device's own variables                                               *)

DeviceTypeOK ==
  /\ shell \in [DOMAIN Shell -> Half]
  /\ now \in 0 .. MaxTime
  /\ pulled \in BOOLEAN
  /\ repeats \subseteq Hosts
  /\ stopped \in BOOLEAN
  /\ trans \in [len : Nat, refused : BOOLEAN, copied : Nat]

DeviceInv == DeviceTypeOK /\ CopiesLength

LEMMA AddedType == [r \in DOMAIN Shell |-> Shell[r].initial] \in [DOMAIN Shell -> Half]
  BY DeviceConstants

\* The bytes that are copied to the data buffer: no reader says that it has
\* read more than was asked for, and MaxOf takes what was.
LEMMA CopiedBytes ==
  ASSUME NEW a \in Addresses, NEW len \in {4, 8}
  PROVE  ReadRegister(a, len).bytes \in {0, 4, len}
  BY DEF ReadRegister, ReadShell, ReadRole, Unread

LEMMA NextDeviceInv == DeviceInv /\ [Next]_vars => DeviceInv'
<1> SUFFICES ASSUME DeviceInv, [Next]_vars PROVE DeviceInv'
  OBVIOUS
<1> USE DEF DeviceInv, DeviceTypeOK, CopiesLength
<1>1. ASSUME NEW len \in {1, 16}, Refuse(len)
      PROVE  DeviceInv'
  BY <1>1 DEF Refuse, Around
<1>2. ASSUME NEW a \in Addresses, NEW len \in {4, 8}, Misalign(a, len)
      PROVE  DeviceInv'
  BY <1>2 DEF Misalign
<1>3. ASSUME NEW a \in Addresses, NEW len \in {4, 8}, Read(a, len)
      PROVE  DeviceInv'
  <2> DEFINE b == ReadRegister(a, len).bytes
             copied == IF b = 0 THEN 0 ELSE MaxOf(len, b)
  <2>1. copied \in {0, len}
    BY CopiedBytes DEF MaxOf
  <2>2. trans' = [len |-> len, refused |-> FALSE, copied |-> copied]
    BY <1>3 DEF Read, Transacted
  <2>3. UNCHANGED <<shell, Around>>
    BY <1>3 DEF Read
  <2> QED
    BY <2>1, <2>2, <2>3 DEF Around
<1>4. ASSUME NEW a \in Addresses, NEW len \in {4, 8},
             NEW v \in IF len = 8 THEN Full ELSE Half, WriteShell(a, len, v)
      PROVE  DeviceInv'
  <2>1. v \in Full
    BY HalfInFull
  <2>2. Low(v) \in Half
    BY <2>1, HalvesType
  <2>3. shell' \in [DOMAIN Shell -> Half]
    BY <1>4, <2>2 DEF WriteShell, RegisterWrite, Stored
  <2>4. /\ trans' = [len |-> len, refused |-> FALSE, copied |-> 0]
        /\ UNCHANGED Around
    BY <1>4 DEF WriteShell, Transacted
  <2> QED
    BY <2>3, <2>4 DEF Around
<1>5. ASSUME NEW a \in Addresses, NEW len \in {4, 8}, WriteNowhere(a, len)
      PROVE  DeviceInv'
  BY <1>5 DEF WriteNowhere, Transacted, Around
<1>6. ASSUME NEW h \in Hosts, NEW r \in Regs, NEW v \in Full, Start(h, r, v)
      PROVE  DeviceInv'
  BY <1>6 DEF Start, Around
<1>7. ASSUME NEW h \in Hosts, StartAgain(h)
      PROVE  DeviceInv'
  BY <1>7 DEF StartAgain
<1>8. ASSUME NEW h \in Hosts, WriteRole(h)
      PROVE  DeviceInv'
  <2>1. PICK len \in {4, 8} : trans' = [len |-> len, refused |-> FALSE, copied |-> 0]
    BY <1>8 DEF WriteRole, Transacted
  <2>2. UNCHANGED <<shell, Around>>
    BY <1>8 DEF WriteRole
  <2> QED
    BY <2>1, <2>2 DEF Around
<1>9. CASE PullReset
  BY <1>9, AddedType DEF PullReset, MapReset
<1>10. CASE Tick
  BY <1>10, DeviceConstants DEF Tick
<1>11. CASE UNCHANGED vars
  BY <1>11 DEF vars
<1> QED
  BY <1>1, <1>2, <1>3, <1>4, <1>5, <1>6, <1>7, <1>8, <1>9, <1>10, <1>11 DEF Next

LEMMA InitDeviceInv == Init => DeviceInv
<1> SUFFICES ASSUME Init PROVE DeviceInv
  OBVIOUS
<1>1. shell \in [DOMAIN Shell -> Half]
  BY AddedType DEF Init, Added
<1>2. trans \in [len : Nat, refused : BOOLEAN, copied : Nat] /\ trans.copied = 0
  BY DEF Init
<1>3. now \in 0 .. MaxTime
  BY DeviceConstants DEF Init
<1>4. pulled \in BOOLEAN /\ repeats \subseteq Hosts /\ stopped \in BOOLEAN
  BY DEF Init
<1> QED
  BY <1>1, <1>2, <1>3, <1>4 DEF DeviceInv, DeviceTypeOK, CopiesLength

\* The device's variables keep their types: the shell registers their 32 bits,
\* and the adapter its halves.
THEOREM DeviceTypeCorrect == Spec => []TypeOK
<1>1. Init => HostsInv /\ DeviceInv
  BY InitHostsInv, InitDeviceInv DEF Init
<1>2. HostsInv /\ DeviceInv /\ [Next]_vars => (HostsInv /\ DeviceInv)'
  BY StepHosts, NextHostsInv, NextDeviceInv
<1>3. HostsInv /\ DeviceInv => TypeOK
  BY DEF HostsInv, DeviceInv, DeviceTypeOK, TypeOK
<1> QED
  BY <1>1, <1>2, <1>3, PTL DEF Spec

\* The initiator's data buffer is never overrun, for any address, length and
\* shell register.
THEOREM DeviceCopiesLength == Spec => []CopiesLength
<1>1. DeviceInv => CopiesLength
  BY DEF DeviceInv
<1> QED
  BY <1>1, InitDeviceInv, NextDeviceInv, PTL DEF Spec

-----------------------------------------------------------------------------
(* Where the registers lie                                                  *)

\* An address of a column of the shell registers
LEMMA InColumn ==
  ASSUME NEW rows \in SUBSET Nat, \A r \in rows : r <= 127,
         NEW c \in 0 .. 15, NEW a \in Column(rows, c)
  PROVE  /\ a \in Nat /\ a <= 32767 /\ (a \div 16) % 16 = c /\ a % 8 = 4
<1>1. PICK r \in rows : a = 256 * r + 16 * c + 4
  BY DEF Column
<1>2. r \in Nat /\ r <= 127
  OBVIOUS
<1>3. a \in Nat /\ a <= 32767
  BY <1>1, <1>2, Z3
<1>4. (a \div 16) % 16 = c /\ a % 8 = 4
  BY <1>1, <1>2, Z3
<1> QED BY <1>3, <1>4, Z3

LEMMA FamilyIs ==
  ASSUME NEW f \in ShellFamilies
  PROVE  \E rows \in SUBSET Nat : \E c \in {3, 10, 15, Capability} :
           (\A r \in rows : r <= 127) /\ f = Column(rows, c) /\ f # {}
<1>1. Capability \in 0 .. 15
  BY LayoutConstants
<1>2. ASSUME NEW rows \in SUBSET Nat, NEW r \in rows, NEW c \in 0 .. 15
      PROVE  Column(rows, c) # {}
  BY DEF Column
<1>3. CASE f = ShellColumn
  BY <1>2, <1>3 DEF ShellColumn
<1>4. CASE f = AsmiColumn
  BY <1>2, <1>4 DEF AsmiColumn
<1>5. CASE f = LegacyColumn
  BY <1>2, <1>5 DEF LegacyColumn
<1>6. CASE f = CapabilityColumn
  BY <1>1, <1>2, <1>6 DEF CapabilityColumn
<1> QED BY <1>3, <1>4, <1>5, <1>6 DEF ShellFamilies

\* The column in which an address is
ColumnNo(a) == (a \div 16) % 16

LEMMA FamilyColumns ==
  /\ \A a \in ShellColumn : ColumnNo(a) = 3
  /\ \A a \in AsmiColumn : ColumnNo(a) = 10
  /\ \A a \in LegacyColumn : ColumnNo(a) = 15
  /\ \A a \in CapabilityColumn : ColumnNo(a) = Capability
<1>1. Capability \in 0 .. 15
  BY LayoutConstants
<1>2. ASSUME NEW rows \in SUBSET Nat, \A r \in rows : r <= 127,
             NEW c \in 0 .. 15, NEW a \in Column(rows, c)
      PROVE  ColumnNo(a) = c
  BY <1>2, InColumn DEF ColumnNo
<1>3. /\ 0 .. 127 \in SUBSET Nat /\ 0 .. 31 \in SUBSET Nat /\ 4 .. 6 \in SUBSET Nat
      /\ \A r \in 0 .. 127 : r <= 127
      /\ \A r \in 0 .. 31 : r <= 127
      /\ \A r \in 4 .. 6 : r <= 127
  OBVIOUS
<1>4. 3 \in 0 .. 15 /\ 10 \in 0 .. 15 /\ 15 \in 0 .. 15
  OBVIOUS
<1> QED
  BY <1>1, <1>2, <1>3, <1>4 DEF ShellColumn, AsmiColumn, LegacyColumn, CapabilityColumn

LEMMA FamiliesDisjoint == Disjoint(ShellFamilies)
<1> SUFFICES ASSUME NEW f \in ShellFamilies, NEW g \in ShellFamilies, f # g, f \cap g # {}
             PROVE  FALSE
  BY DEF Disjoint
<1>1. PICK a : a \in f /\ a \in g
  OBVIOUS
<1>2. Capability \notin {3, 10, 15}
  BY LayoutConstants
<1> QED BY <1>1, <1>2, FamilyColumns DEF ShellFamilies

LEMMA Four ==
  ASSUME NEW a, NEW b, NEW c, NEW d,
         a # b, a # c, a # d, b # c, b # d, c # d
  PROVE  IsFiniteSet({a, b, c, d}) /\ Cardinality({a, b, c, d}) = 4
<1>1. IsFiniteSet({a}) /\ Cardinality({a}) = 1
  BY FS_Singleton
<1>2. IsFiniteSet({a} \cup {b}) /\ Cardinality({a} \cup {b}) = 2
  BY <1>1, FS_AddElement
<1>3. {a} \cup {b} = {a, b}
  OBVIOUS
<1>4. IsFiniteSet({a, b} \cup {c}) /\ Cardinality({a, b} \cup {c}) = 3
  BY <1>2, <1>3, FS_AddElement
<1>5. {a, b} \cup {c} = {a, b, c}
  OBVIOUS
<1>6. IsFiniteSet({a, b, c} \cup {d}) /\ Cardinality({a, b, c} \cup {d}) = 4
  BY <1>4, <1>5, FS_AddElement
<1>7. {a, b, c} \cup {d} = {a, b, c, d}
  OBVIOUS
<1> QED BY <1>6, <1>7

LEMMA Five ==
  ASSUME NEW a, NEW b, NEW c, NEW d, NEW e,
         a # b, a # c, a # d, a # e, b # c, b # d, b # e, c # d, c # e, d # e
  PROVE  Cardinality({a, b, c, d, e}) = 5
<1> DEFINE S == {a, b, c, d}
<1>1. IsFiniteSet(S) /\ Cardinality(S) = 4
  BY Four
<1>2. e \notin S /\ S \cup {e} = {a, b, c, d, e}
  OBVIOUS
<1> HIDE DEF S
<1>3. Cardinality(S \cup {e}) = 5
  BY <1>1, <1>2, FS_AddElement
<1> QED BY <1>2, <1>3

\* The families have no address in common, so that there are four.
LEMMA FourFamilies == Cardinality(ShellFamilies) = 4
<1> DEFINE A == ShellColumn
           B == AsmiColumn
           C == LegacyColumn
           D == CapabilityColumn
<1>1. Capability \notin {3, 10, 15}
  BY LayoutConstants
<1>2. /\ \A a \in A : ColumnNo(a) = 3
      /\ \A a \in B : ColumnNo(a) = 10
      /\ \A a \in C : ColumnNo(a) = 15
      /\ \A a \in D : ColumnNo(a) = Capability
  BY FamilyColumns
<1>3. /\ A \in ShellFamilies /\ B \in ShellFamilies
      /\ C \in ShellFamilies /\ D \in ShellFamilies
  BY DEF ShellFamilies
<1>4. A # {} /\ B # {} /\ C # {} /\ D # {}
  BY <1>3, FamilyIs
<1>5. ShellFamilies = {A, B, C, D}
  BY DEF ShellFamilies
<1> HIDE DEF A, B, C, D
<1>6. A # B /\ A # C /\ A # D /\ B # C /\ B # D /\ C # D
  BY <1>1, <1>2, <1>4
<1>7. Cardinality({A, B, C, D}) = 4
  BY <1>6, Four
<1> QED BY <1>5, <1>7

\* Every shell register is at its place in the first page.
LEMMA ShellPlaces ==
  ASSUME NEW a \in UNION ShellFamilies
  PROVE  AddressType(Split(a)) = "shell" /\ Split(a).off = 4
<1>1. PICK f \in ShellFamilies : a \in f
  OBVIOUS
<1>2. PICK rows \in SUBSET Nat, c \in {3, 10, 15, Capability} :
        (\A r \in rows : r <= 127) /\ f = Column(rows, c)
  BY FamilyIs
<1>3. c \in 0 .. 15
  BY LayoutConstants
<1>4. a \in Nat /\ a <= 32767 /\ a % 8 = 4
  BY <1>1, <1>2, <1>3, InColumn
<1>5. a \div (16 * MiB) = 0 /\ (a \div MiB) % 16 = 0
  BY <1>4, Z3 DEF MiB
<1> QED BY <1>4, <1>5 DEF AddressType, Split

-----------------------------------------------------------------------------

\* The indices of the DMA registers, with the constants worked out
LEMMA FixedIndex == \A i \in Fixed : i \in Nat /\ 131072 <= i /\ i <= 131108
BY DEF Fixed, DmaBit

LEMMA SlotIndex ==
  ASSUME NEW s \in Nat, NEW i \in SlotRegnums(s)
  PROVE  \/ \E t \in 0 .. 2 : i = 131584 + 4 * s + t
         \/ \E t \in 0 .. 1 : i = 196608 + 512 * s + t
BY DEF SlotRegnums, AddressRegnum, DoorbellRegnum, DmaBit

LEMMA SlotsApart ==
  ASSUME NEW s \in Nat, s <= 127
  PROVE  /\ Fixed \cap SlotRegnums(s) = {}
         /\ \A u \in Nat : u <= 127 /\ u # s => SlotRegnums(u) \cap SlotRegnums(s) = {}
<1>1. ASSUME NEW i \in Fixed, i \in SlotRegnums(s) PROVE FALSE
  <2>1. i \in Nat /\ 131072 <= i /\ i <= 131108
    BY FixedIndex
  <2>2. CASE \E t \in 0 .. 2 : i = 131584 + 4 * s + t
    BY <2>1, <2>2
  <2>3. CASE \E t \in 0 .. 1 : i = 196608 + 512 * s + t
    BY <2>1, <2>3
  <2> QED BY <1>1, <2>2, <2>3, SlotIndex
<1>2. ASSUME NEW u \in Nat, u <= 127, u # s,
             NEW i \in SlotRegnums(u), i \in SlotRegnums(s)
      PROVE  FALSE
  <2>1. /\ \/ \E t \in 0 .. 2 : i = 131584 + 4 * s + t
           \/ \E t \in 0 .. 1 : i = 196608 + 512 * s + t
        /\ \/ \E t \in 0 .. 2 : i = 131584 + 4 * u + t
           \/ \E t \in 0 .. 1 : i = 196608 + 512 * u + t
    BY <1>2, SlotIndex
  <2>2. CASE /\ \E t \in 0 .. 2 : i = 131584 + 4 * s + t
             /\ \E t \in 0 .. 2 : i = 131584 + 4 * u + t
    <3>1. PICK t \in 0 .. 2, x \in 0 .. 2 :
            i = 131584 + 4 * s + t /\ i = 131584 + 4 * u + x
      BY <2>2
    <3> QED BY <1>2, <3>1, Z3
  <2>3. CASE /\ \E t \in 0 .. 1 : i = 196608 + 512 * s + t
             /\ \E t \in 0 .. 1 : i = 196608 + 512 * u + t
    <3>1. PICK t \in 0 .. 1, x \in 0 .. 1 :
            i = 196608 + 512 * s + t /\ i = 196608 + 512 * u + x
      BY <2>3
    <3> QED BY <1>2, <3>1, Z3
  <2>4. CASE \/ /\ \E t \in 0 .. 2 : i = 131584 + 4 * s + t
                /\ \E t \in 0 .. 1 : i = 196608 + 512 * u + t
             \/ /\ \E t \in 0 .. 2 : i = 131584 + 4 * u + t
                /\ \E t \in 0 .. 1 : i = 196608 + 512 * s + t
    <3>1. PICK x \in Nat, y \in Nat, t \in 0 .. 2, z \in 0 .. 1 :
            x <= 127 /\ i = 131584 + 4 * x + t /\ i = 196608 + 512 * y + z
      BY <1>2, <2>4
    <3> QED BY <3>1, Z3
  <2> QED BY <2>1, <2>2, <2>3, <2>4
<1> QED BY <1>1, <1>2

LEMMA FiveRegisters ==
  ASSUME NEW s \in Nat, s <= 127
  PROVE  Cardinality(SlotRegnums(s)) = 5
<1> DEFINE a == AddressRegnum(s, 0)
           b == AddressRegnum(s, 1)
           c == AddressRegnum(s, 2)
           d == DoorbellRegnum(s, 0)
           e == DoorbellRegnum(s, 1)
<1>1. /\ a # b /\ a # c /\ b # c /\ a # d /\ a # e /\ b # d /\ b # e
      /\ c # d /\ c # e /\ d # e
  BY Z3 DEF AddressRegnum, DoorbellRegnum, DmaBit
<1>2. 0 .. 2 = {0, 1, 2} /\ 0 .. 1 = {0, 1}
  OBVIOUS
<1>3. /\ {AddressRegnum(s, t) : t \in {0, 1, 2}} = {a, b, c}
      /\ {DoorbellRegnum(s, t) : t \in {0, 1}} = {d, e}
  OBVIOUS
<1>4. SlotRegnums(s) = {a, b, c} \cup {d, e}
  BY <1>2, <1>3 DEF SlotRegnums
<1> HIDE DEF a, b, c, d, e
<1>5. SlotRegnums(s) = {a, b, c, d, e}
  BY <1>4
<1>6. Cardinality({a, b, c, d, e}) = 5
  BY <1>1, Five
<1> QED BY <1>5, <1>6

LEMMA DmaBitIs == DmaBit = 131072
BY DEF DmaBit

\* The address of register k of page p
At(p, k) == p * MiB + 8 * k

\* An access in page p finds the register of the page's half of the indices.
LEMMA PageIndex ==
  ASSUME NEW p \in 0 .. 15, NEW k \in Nat, k < DmaBit
  PROVE  /\ Split(At(p, k)).above = 0 /\ Split(At(p, k)).page = p
         /\ RegIndex(At(p, k)) = DmaBit * (p % 2) + k
<1> DEFINE a == At(p, k)
<1>1. a = 1048576 * p + 8 * k /\ a \in Nat
  BY DmaBitIs, Z3 DEF At, MiB
<1>0. k \in Nat /\ k < 131072
  BY DmaBitIs, Z3
<1>2. a \div 16777216 = 0
  BY <1>0, <1>1, Z3
<1>3. a \div 1048576 = p
  BY <1>0, <1>1, Z3
<1>4. p % 16 = p
  BY Z3
<1>5. a \div 8 = 131072 * p + k
  BY <1>0, <1>1, Z3
<1>6. (131072 * p + k) % 262144 = 131072 * (p % 2) + k
  BY <1>0, <1>1, Z3
<1>7. 16 * MiB = 16777216 /\ MiB = 1048576 /\ 2 * DmaBit = 262144 /\ DmaBit = 131072
  BY DEF MiB, DmaBit
<1> HIDE DEF a
<1>8. Split(a).above = 0 /\ Split(a).page = p
  BY <1>2, <1>3, <1>4, <1>7 DEF Split
<1>9. RegIndex(a) = DmaBit * (p % 2) + k
  BY <1>5, <1>6, <1>7 DEF RegIndex
<1> QED BY <1>8, <1>9 DEF a

\* Only the pages 7 and 9 hold DMA registers, and both are odd.
LEMMA DmaIndex ==
  ASSUME NEW p \in 0 .. 15, NEW k \in Nat, k < DmaBit
  PROVE  /\ AddressType(Split(At(p, k))) = "dma" <=> p \in {7, 9}
         /\ p \in {7, 9} => RegIndex(At(p, k)) = DmaBit + k
<1>1. /\ Split(At(p, k)).above = 0 /\ Split(At(p, k)).page = p
      /\ RegIndex(At(p, k)) = DmaBit * (p % 2) + k
  BY PageIndex, Zenon
<1>2. AddressType(Split(At(p, k))) = "dma" <=> p \in {7, 9}
  BY <1>1 DEF AddressType
<1>3. ASSUME p \in {7, 9} PROVE RegIndex(At(p, k)) = DmaBit + k
  <2>1. p % 2 = 1
    BY <1>3, Z3
  <2>2. DmaBit * 1 = DmaBit
    BY DmaBitIs
  <2> QED BY <1>1, <2>1, <2>2, Zenon
<1> QED BY <1>2, <1>3

LEMMA Reached ==
  ASSUME NEW i, NEW k \in Nat, k < DmaBit, i % DmaBit = k
  PROVE  ReachedBy(i) = IF i = DmaBit + k THEN {At(p, k) : p \in {7, 9}} ELSE {}
<1>1. ReachedBy(i) = {a \in {At(p, k) : p \in 0 .. 15} :
                        AddressType(Split(a)) = "dma" /\ RegIndex(a) = i}
  BY DEF ReachedBy, At
<1>2. \A p \in 0 .. 15 :
        /\ AddressType(Split(At(p, k))) = "dma" <=> p \in {7, 9}
        /\ p \in {7, 9} => RegIndex(At(p, k)) = DmaBit + k
  BY DmaIndex, Zenon
<1>3. \A p \in {7, 9} : p \in 0 .. 15
  OBVIOUS
<1> DEFINE P == 0 .. 15
           Q == {7, 9}
           T(a) == AddressType(Split(a)) = "dma"
<1> HIDE DEF P, Q, T
<1>4. ReachedBy(i) = {a \in {At(p, k) : p \in P} : T(a) /\ RegIndex(a) = i}
  BY <1>1 DEF P, T
<1>5. /\ \A p \in P : /\ T(At(p, k)) <=> p \in Q
                      /\ p \in Q => RegIndex(At(p, k)) = DmaBit + k
      /\ \A p \in Q : p \in P
  BY <1>2, <1>3 DEF P, Q, T
<1>6. ReachedBy(i) = IF i = DmaBit + k THEN {At(p, k) : p \in Q} ELSE {}
  BY <1>4, <1>5
<1> QED BY <1>6 DEF Q

LEMMA UpperHalf ==
  ASSUME NEW i \in Nat, DmaBit <= i, i < 2 * DmaBit
  PROVE  \E k \in Nat : k < DmaBit /\ i = DmaBit + k /\ i % DmaBit = k
<1>1. i - 131072 \in Nat /\ i - 131072 < 131072 /\ i % 131072 = i - 131072
  BY DmaBitIs, Z3
<1>2. i = 131072 + (i - 131072)
  BY Z3
<1> QED BY <1>1, <1>2, DmaBitIs, Z3

LEMMA TwoAddresses ==
  ASSUME NEW i \in Nat, DmaBit <= i, i < 2 * DmaBit
  PROVE  ReachedBy(i) = {p * MiB + 8 * (i - DmaBit) : p \in {7, 9}}
<1>1. PICK k \in Nat : k < DmaBit /\ i = DmaBit + k /\ i % DmaBit = k
  BY UpperHalf
<1>2. ReachedBy(i) = {At(p, k) : p \in {7, 9}}
  BY <1>1, Reached
<1>3. DmaBit \in Nat
  BY DmaBitIs
<1>4. i - DmaBit = k
  BY <1>1, <1>3
<1> QED BY <1>2, <1>4, Zenon DEF At

LEMMA NoAddress == ReachedBy(Magic0) = {}
<1>1. /\ Magic0 \in Nat /\ Magic0 < DmaBit /\ Magic0 % DmaBit = Magic0
      /\ Magic0 # DmaBit + Magic0
  BY Z3 DEF Magic0, DmaBit
<1> QED BY <1>1, Reached

LEMMA LayoutApart == Apart
<1> DEFINE N == MaxSlots - 1
           S == {Fixed} \cup {SlotRegnums(s) : s \in 0 .. N}
<1>1. \A s \in 0 .. N : s \in Nat /\ s <= 127
  BY LayoutConstants
<1> HIDE DEF N
<1>2. Disjoint(S)
  <2> SUFFICES ASSUME NEW x \in S, NEW y \in S, x # y PROVE x \cap y = {}
    BY DEF Disjoint
  <2>1. ASSUME NEW s \in 0 .. N PROVE Fixed \cap SlotRegnums(s) = {}
    BY <1>1, SlotsApart
  <2>2. ASSUME NEW s \in 0 .. N, NEW u \in 0 .. N, SlotRegnums(s) # SlotRegnums(u)
        PROVE  SlotRegnums(u) \cap SlotRegnums(s) = {}
    BY <1>1, <2>2, SlotsApart
  <2>3. CASE x = Fixed
    BY <2>1, <2>3
  <2>4. CASE y = Fixed
    BY <2>1, <2>4
  <2>5. CASE x # Fixed /\ y # Fixed
    BY <2>2, <2>5
  <2> QED BY <2>3, <2>4, <2>5
<1>3. \A s \in 0 .. N : Cardinality(SlotRegnums(s)) = 5
  BY <1>1, FiveRegisters
<1>4. ASSUME NEW i \in Fixed \cup UNION {SlotRegnums(s) : s \in 0 .. N}
      PROVE  ReachedBy(i) = {p * MiB + 8 * (i - DmaBit) : p \in {7, 9}}
  <2>1. CASE i \in Fixed
    <3>1. i \in Nat /\ DmaBit <= i /\ i < 2 * DmaBit
      BY <2>1, FixedIndex, DmaBitIs, Z3
    <3> QED BY <3>1, TwoAddresses
  <2>2. ASSUME NEW s \in 0 .. N, i \in SlotRegnums(s)
        PROVE  i \in Nat /\ DmaBit <= i /\ i < 2 * DmaBit
    <3>1. s \in Nat /\ s <= 127
      BY <1>1
    <3>2. CASE \E t \in 0 .. 2 : i = 131584 + 4 * s + t
      BY <3>1, <3>2, DmaBitIs, Z3
    <3>3. CASE \E t \in 0 .. 1 : i = 196608 + 512 * s + t
      BY <3>1, <3>3, DmaBitIs, Z3
    <3> QED BY <2>2, <3>1, <3>2, <3>3, SlotIndex
  <2> QED BY <2>1, <2>2, TwoAddresses
<1> QED
  BY <1>2, <1>3, <1>4, FourFamilies, FamiliesDisjoint, ShellPlaces, NoAddress
  DEF Apart, N

\* No register is added where another is, for any number of slots that an index
\* has room for and any column of the capability registers that is not taken; and
\* every register is where an access finds it, but for the one that has no address.
THEOREM DeviceLocated == Spec => []Located
<1>1. TypeOK => DOMAIN shell \subseteq ShellNumbers
  BY TableConstants DEF TypeOK
<1>2. TypeOK => Located
  BY <1>1, LayoutApart DEF Located
<1> QED
  BY <1>2, DeviceTypeCorrect, PTL

=============================================================================
