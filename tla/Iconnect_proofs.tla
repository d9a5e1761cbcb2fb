---------------------------- MODULE Iconnect_proofs ----------------------------
(* Theorems about the interconnect, for every address map: any number of    *)
(* mappings of any size, which may overlap and wrap around.                 *)
EXTENDS Iconnect, TLAPS

\* A memory holds what was put last.
LEMMA PutRead ==
  ASSUME NEW f, NEW k, NEW v, NEW x
  PROVE  WordIn(Put(f, k, v), x) = IF x = k THEN v ELSE WordIn(f, x)
BY DEF WordIn, Put

LEMMA PutType ==
  ASSUME NEW f, NEW K, NEW k \in K, NEW v \in Values, IsMemory(f, K)
  PROVE  IsMemory(Put(f, k, v), K)
<1>1. DOMAIN Put(f, k, v) = DOMAIN f \cup {k}
  BY DEF Put
<1>2. \A x \in DOMAIN Put(f, k, v) : Put(f, k, v)[x] \in Values
  BY DEF Put, IsMemory
<1>3. Put(f, k, v) = [x \in DOMAIN Put(f, k, v) |-> Put(f, k, v)[x]]
  BY DEF Put
<1> QED
  BY <1>1, <1>2, <1>3 DEF IsMemory

LEMMA ReadType ==
  ASSUME NEW f, NEW K, NEW x, IsMemory(f, K)
  PROVE  WordIn(f, x) \in Values \cup {Blank}
BY DEF WordIn, IsMemory

-----------------------------------------------------------------------------
(* Where an address goes                                                    *)

LEMMA MapType ==
  ASSUME TypeOK, NEW e \in Entries
  PROVE  /\ map[e].addr \in Word /\ map[e].size \in Word
         /\ map[e].mode \in {"relative", "absolute"}
BY DEF TypeOK, Entry

LEMMA MachineType ==
  ASSUME TypeOK
  PROVE  /\ machine.initiators \in Nat \ {0} /\ machine.targets \in Nat \ {0}
         /\ machine.calls \in Seq(Entry) /\ Len(machine.calls) <= machine.targets
         /\ \A i \in Initiators : machine.base[i] \in Word \/ machine.base[i] = Unset
         /\ machine.active \subseteq Initiators
         /\ machine.asked \subseteq Word
         /\ Targets \subseteq Entries /\ 0 \in Targets /\ Targets \subseteq Nat
BY IconnectConstants DEF TypeOK, IsMachine, Initiators, Targets, Entries

LEMMA ZeroWord == 0 \in Word /\ Word \subseteq Int
BY IconnectConstants DEF Word

LEMMA SmallMod == \A m \in Nat \ {0}, k \in Nat : k < m => k % m = k
BY Z3

LEMMA ModWord == \A a \in Int : a % AddrMod \in Word
BY IconnectConstants, Z3 DEF Word

\* A mapped address is sent to one target,
LEMMA OneTarget ==
  ASSUME TypeOK, NEW b, NEW t, NEW u, MapsTo(b, t), MapsTo(b, u)
  PROVE  t = u
<1>1. t \in Nat /\ u \in Nat /\ t <= u /\ u <= t
  BY MachineType DEF MapsTo, FirstOf, Hits, Entries
<1> QED
  BY <1>1

\* at an offset that is a word's,
LEMMA OffsetType ==
  ASSUME TypeOK, NEW b \in Word, NEW t, MapsTo(b, t)
  PROVE  OffsetIn(t, b) \in Word
<1>1. t \in Entries /\ b >= map[t].addr
  BY DEF MapsTo, FirstOf, Hits, Holds
<1>2. map[t].addr \in Word
  BY <1>1, MapType
<1> QED
  BY <1>1, <1>2, IconnectConstants DEF OffsetIn, Word

\* and to no offset of a target are two addresses sent.
LEMMA OneAddress ==
  ASSUME TypeOK, NEW b \in Word, NEW c \in Word, NEW t, MapsTo(b, t), MapsTo(c, t),
         OffsetIn(t, b) = OffsetIn(t, c)
  PROVE  b = c
<1>1. map[t].addr \in Word
  BY MapType DEF MapsTo, FirstOf, Hits
<1> QED
  BY <1>1, IconnectConstants DEF OffsetIn, Word

-----------------------------------------------------------------------------
(* The invariant                                                            *)

\* The offset of an initiator is the one that was set, if one was.
OffsetsSet ==
  \A i \in Initiators : machine.base[i] # Unset => targetOffset[i] = machine.base[i]

\* A transaction at a target was sent there by the map as it is.
RightCall(i, c) ==
  LET b == Meant(i, c.asked)
  IN c.at = "target" =>
       /\ Built
       /\ c.write => c.value \in Values
       /\ IF c.stray THEN Strays(b) /\ c.target \in disturbed
          ELSE MapsTo(b, c.target) /\ c.addr = OffsetIn(c.target, b)

SentRight(i) == RightCall(i, call[i])

\* What a target holds is what was last written at the address, except in
\* a target that an address was sent to that is not mapped.
Agrees ==
  \A b \in Word, t \in Targets :
    MapsTo(b, t) /\ t \notin disturbed
      => WordIn(cells, <<t, OffsetIn(t, b)>>) = WordIn(flat, b)

\* Nothing is accessed before the map is complete.
QuietUntilBuilt == ~Built => cells = NoMemory /\ flat = NoMemory

IInv ==
  /\ TypeOK
  /\ OffsetsSet
  /\ \A i \in Initiators : SentRight(i)
  /\ Agrees
  /\ QuietUntilBuilt
  /\ FlatMemory

LEMMA BusMeant ==
  ASSUME OffsetsSet, NEW i \in Initiators, NEW a
  PROVE  Bus(i, a) = Meant(i, a)
BY DEF OffsetsSet, Bus, Meant, Shift

LEMMA MeantWord ==
  ASSUME TypeOK, NEW i \in Initiators, NEW a \in Word
  PROVE  Meant(i, a) \in Word
<1>1. Shift(i) \in Int
  BY MachineType, ZeroWord DEF Shift, TypeOK
<1>2. a + Shift(i) \in Int
  BY <1>1, ZeroWord
<1> QED
  BY <1>2, ModWord DEF Meant

LEMMA AsksWord ==
  ASSUME TypeOK, NEW i \in Initiators, NEW b \in Word
  PROVE  Asks(i, b) \in Word
<1>1. Known(i) \in Int
  BY MachineType, ZeroWord DEF Known
<1>2. b - Known(i) \in Int
  BY <1>1, ZeroWord
<1> QED
  BY <1>2, ModWord DEF Asks

LEMMA SameMap ==
  ASSUME UNCHANGED <<machine, map, targetOffset>>
  PROVE  /\ \A b, t : MapsTo(b, t)' <=> MapsTo(b, t)
         /\ \A b, t : OffsetIn(t, b)' = OffsetIn(t, b)
         /\ \A b : Strays(b)' <=> Strays(b)
         /\ \A i, a : Meant(i, a)' = Meant(i, a)
         /\ Targets' = Targets /\ Initiators' = Initiators /\ Entries' = Entries
BY DEF MapsTo, FirstOf, Hits, Holds, OffsetIn, Strays, Meant, Shift, Targets, Initiators,
   Entries

\* A transaction that was sent right stays so.
LEMMA SentKept ==
  ASSUME UNCHANGED <<machine, map, made, targetOffset>>, disturbed \subseteq disturbed',
         NEW i, call'[i] = call[i], SentRight(i)
  PROVE  SentRight(i)'
<1>1. Built' <=> Built
  BY DEF Built
<1>2. PICK c : c = call[i]
  OBVIOUS
<1>3. RightCall(i, c)'
  <2>1. RightCall(i, c)
    BY <1>2 DEF SentRight
  <2> QED
    BY <1>1, <2>1, SameMap DEF RightCall
<1> QED
  BY <1>2, <1>3 DEF SentRight

\* A range that a target has holds an address that does not stray.
LEMMA NotStray ==
  ASSUME TypeOK, NEW b, NEW t, MapsTo(b, t), t \in Targets
  PROVE  ~Strays(b)
BY DEF MapsTo, FirstOf, Hits, Strays

\* map_address sends an address where the map says, or to some target.
LEMMA RouteRight ==
  ASSUME TypeOK, OffsetsSet, NEW i \in Initiators, NEW a \in Word, NEW r \in Routes(i, a)
  PROVE  /\ r[1] \in Targets /\ r[2] \in Word
         /\ ~Strays(Meant(i, a)) =>
              MapsTo(Meant(i, a), r[1]) /\ r[2] = OffsetIn(r[1], Meant(i, a))
<1>1. PICK b \in Word : b = Meant(i, a) /\ b = Bus(i, a)
  BY BusMeant, MeantWord
<1>2. CASE Hits(b) = {}
  <2>1. r \in {0} \X Leftover
    BY <1>1, <1>2 DEF Routes
  <2>2. Strays(b)
    BY <1>2, MachineType DEF Hits, Strays
  <2> QED
    BY <1>1, <2>1, <2>2, MachineType, IconnectConstants
<1>3. CASE Hits(b) # {}
  <2>1. PICK e : MapsTo(b, e) /\ r \in Socket(e) \X {OffsetIn(e, b)}
    BY <1>1, <1>3 DEF Routes, MapsTo
  <2>2. r[1] \in Targets /\ r[2] = OffsetIn(e, b) /\ r[2] \in Word
    BY <2>1, OffsetType DEF Socket
  <2>3. ASSUME ~Strays(b) PROVE r[1] = e
    <3>1. PICK t \in Targets : t \in Hits(b)
      BY <2>3, MachineType DEF Strays, Hits
    <3>2. e \in Entries /\ e <= t
      BY <2>1, <3>1 DEF MapsTo, FirstOf, Hits
    <3>3. e \in Targets
      BY <3>2, MachineType DEF Targets, Entries
    <3> QED
      BY <2>1, <3>3 DEF Socket
  <2> QED
    BY <1>1, <2>1, <2>2, <2>3
<1> QED
  BY <1>2, <1>3

\* The answer to a transaction that was sent there by the map keeps the
\* targets in step with what was written at the addresses.
LEMMA ServeInv ==
  ASSUME TypeOK, Agrees, UNCHANGED <<machine, map, targetOffset>>,
         NEW i \in Initiators, NEW a \in Word, NEW t \in Targets, NEW o \in Word,
         NEW w \in BOOLEAN, NEW v, w => v \in Values,
         disturbed \subseteq disturbed',
         Strays(Meant(i, a)) => t \in disturbed',
         ~Strays(Meant(i, a)) => MapsTo(Meant(i, a), t) /\ o = OffsetIn(t, Meant(i, a)),
         Serve(i, a, t, o, w, v)
  PROVE  /\ Agrees' /\ FlatMemory'
         /\ IsMemory(cells', Targets \X Word) /\ IsMemory(flat', Word)
         /\ read' \in [value : Values \cup {Blank}, latest : Values \cup {Blank},
                      target : Targets]
<1> DEFINE b == Meant(i, a)
<1>0. b \in Word
  BY MeantWord
<1>1. CASE w
  <2>1. /\ cells' = Put(cells, <<t, o>>, v)
        /\ flat' = Put(flat, b, v)
        /\ read' = NoRead
    BY <1>1 DEF Serve
  <2>2. IsMemory(cells', Targets \X Word) /\ IsMemory(flat', Word)
    BY <1>0, <1>1, <2>1, PutType DEF TypeOK
  <2>3. FlatMemory'
    BY <2>1 DEF FlatMemory, NoRead
  <2>4. ASSUME NEW c \in Word, NEW u \in Targets, MapsTo(c, u), u \notin disturbed'
        PROVE  WordIn(cells', <<u, OffsetIn(u, c)>>) = WordIn(flat', c)
    <3>1. WordIn(cells, <<u, OffsetIn(u, c)>>) = WordIn(flat, c)
      BY <2>4 DEF Agrees
    <3>2. WordIn(flat', c) = IF c = b THEN v ELSE WordIn(flat, c)
      BY <2>1, PutRead
    <3>3. WordIn(cells', <<u, OffsetIn(u, c)>>)
            = IF <<u, OffsetIn(u, c)>> = <<t, o>> THEN v
              ELSE WordIn(cells, <<u, OffsetIn(u, c)>>)
      BY <2>1, PutRead
    <3>4. CASE Strays(b)
      <4>1. u # t
        BY <2>4, <3>4
      <4>2. c # b
        BY <2>4, <3>4, NotStray
      <4> QED
        BY <3>1, <3>2, <3>3, <4>1, <4>2
    <3>5. CASE ~Strays(b)
      <4>1. MapsTo(b, t) /\ o = OffsetIn(t, b)
        BY <3>5
      <4>2. CASE c = b
        <5>1. u = t
          BY <2>4, <4>1, <4>2, OneTarget
        <5> QED
          BY <3>2, <3>3, <4>1, <4>2, <5>1
      <4>3. CASE c # b
        <5>1. <<u, OffsetIn(u, c)>> # <<t, o>>
          BY <1>0, <2>4, <4>1, <4>3, OneAddress
        <5> QED
          BY <3>1, <3>2, <3>3, <4>3, <5>1
      <4> QED
        BY <4>2, <4>3
    <3> QED
      BY <3>4, <3>5
  <2>5. Agrees'
    <3> HIDE DEF b
    <3> QED
      BY <2>4, SameMap DEF Agrees
  <2> QED
    BY <2>1, <2>2, <2>3, <2>5, MachineType DEF NoRead
<1>2. CASE ~w
  <2>1. /\ read' = [value |-> WordIn(cells, <<t, o>>), latest |-> WordIn(flat, b),
                    target |-> t]
        /\ cells' = cells /\ flat' = flat
    BY <1>2 DEF Serve
  <2>2. Agrees'
    <3> HIDE DEF b
    <3> QED
      BY <2>1, SameMap DEF Agrees
  <2>3. FlatMemory'
    <3> SUFFICES ASSUME t \notin disturbed'
                 PROVE  WordIn(cells, <<t, o>>) = WordIn(flat, b)
      BY <2>1 DEF FlatMemory
    <3>1. ~Strays(b)
      OBVIOUS
    <3> QED
      BY <1>0, <3>1 DEF Agrees
  <2> QED
    BY <2>1, <2>2, <2>3, ReadType DEF TypeOK
<1> QED
  BY <1>1, <1>2

-----------------------------------------------------------------------------
(* It holds initially and every step keeps it                               *)

LEMMA InitInv ==
  ASSUME Init
  PROVE  IInv
<1>1. machine \in Machines /\ IsMachine(machine)
  BY IconnectConstants DEF Init
<1>2. 0 \in Targets
  BY <1>1 DEF IsMachine, Targets
<1>3. OffsetsSet
  BY DEF Init, OffsetsSet
<1>4. targetOffset \in [Initiators -> Word]
  <2>1. \A i \in Initiators : targetOffset[i] \in Word
    BY <1>1, ZeroWord, IconnectConstants DEF Init, IsMachine, Initiators
  <2> QED
    BY <2>1 DEF Init
<1>5. map \in [Entries -> Entry]
  <2>1. Free \in Entry
    BY ZeroWord DEF Entry, Free
  <2> QED
    BY <1>1, <2>1 DEF Init, IsMachine
<1>6. IsMemory(cells, Targets \X Word) /\ IsMemory(flat, Word)
  <2>1. DOMAIN NoMemory = {} /\ NoMemory \in [DOMAIN NoMemory -> Values]
    BY DEF NoMemory
  <2> QED
    BY <2>1 DEF Init, IsMemory
<1>7. call \in [Initiators ->
       [at : {"idle", "target"}, asked : Word, addr : Word, target : Targets,
        stray : BOOLEAN, write : BOOLEAN, value : Values \cup {Blank}]]
  BY <1>2, ZeroWord DEF Init, NoCall
<1>8. made \in 0 .. Len(machine.calls) /\ writes \in 0 .. MaxWrites
  BY <1>1, IconnectConstants DEF Init, IsMachine
<1>9. TypeOK
  BY <1>1, <1>2, <1>4, <1>5, <1>6, <1>7, <1>8 DEF Init, TypeOK, NoRead
<1>10. \A i \in Initiators : SentRight(i)
  BY DEF Init, SentRight, RightCall, NoCall
<1>11. Agrees /\ QuietUntilBuilt /\ FlatMemory
  BY DEF Init, Agrees, QuietUntilBuilt, FlatMemory, WordIn, NoMemory, NoRead
<1> QED
  BY <1>3, <1>9, <1>10, <1>11 DEF IInv

\* A mapping is made while nothing was accessed.
LEMMA MemMapInv ==
  ASSUME IInv, MemMap
  PROVE  IInv'
<1> USE DEF IInv
<1>1. PICK e \in Targets : map' = [map EXCEPT ![e] = machine.calls[made + 1]]
  BY DEF MemMap
<1>2. /\ made < Len(machine.calls) /\ made' = made + 1
      /\ UNCHANGED <<machine, targetOffset, call, cells, flat, read, disturbed, writes>>
  BY DEF MemMap
<1>3. made \in Nat /\ Len(machine.calls) \in Nat /\ ~Built
  BY <1>2, MachineType DEF TypeOK, Built
<1>4. machine.calls[made + 1] \in Entry
  BY <1>2, <1>3, MachineType
<1>5. map' \in [Entries -> Entry] /\ made' \in 0 .. Len(machine.calls)
  BY <1>1, <1>2, <1>3, <1>4, MachineType DEF TypeOK
<1>6. TypeOK'
  BY <1>2, <1>5 DEF TypeOK, Initiators, Targets, Entries
<1>7. OffsetsSet'
  BY <1>2 DEF OffsetsSet, Initiators
<1>8. (\A i \in Initiators : SentRight(i))'
  <2>1. \A i \in Initiators : call[i].at # "target"
    BY <1>3 DEF SentRight, RightCall
  <2> QED
    BY <1>2, <2>1 DEF SentRight, RightCall, Initiators
<1>9. cells' = NoMemory /\ flat' = NoMemory
  BY <1>2, <1>3 DEF QuietUntilBuilt
<1>10. Agrees' /\ QuietUntilBuilt'
  BY <1>9 DEF Agrees, QuietUntilBuilt, WordIn, NoMemory
<1>11. FlatMemory'
  BY <1>2 DEF FlatMemory
<1> QED
  BY <1>6, <1>7, <1>8, <1>10, <1>11

LEMMA CountedType ==
  ASSUME TypeOK, NEW w \in BOOLEAN, Counted(w)
  PROVE  writes' \in 0 .. MaxWrites
BY IconnectConstants DEF TypeOK, Counted

\* What else a step of a transaction keeps: the map and the offsets
LEMMA FrameInv ==
  ASSUME IInv, UNCHANGED <<machine, map, made, targetOffset>>
  PROVE  /\ OffsetsSet'
         /\ Built' <=> Built
         /\ Initiators' = Initiators /\ Targets' = Targets /\ Entries' = Entries
BY DEF IInv, OffsetsSet, Built, Initiators, Targets, Entries

LEMMA IssueInv ==
  ASSUME IInv, NEW i \in Initiators, NEW a \in Word, NEW w \in BOOLEAN,
         NEW v \in Values \cup {Blank}, w => v \in Values, Issue(i, a, w, v)
  PROVE  IInv'
<1>0. TypeOK /\ OffsetsSet /\ Agrees /\ QuietUntilBuilt /\ FlatMemory
      /\ \A j \in Initiators : SentRight(j)
  BY DEF IInv
<1>1. /\ Built /\ Counted(w) /\ read' = NoRead
      /\ UNCHANGED <<machine, map, made, targetOffset, cells, flat>>
  BY DEF Issue
<1>2. PICK r \in Routes(i, a) :
        /\ call' = [call EXCEPT ![i] =
          [at |-> "target", asked |-> a, addr |-> r[2], target |-> r[1],
           stray |-> Strays(Bus(i, a)), write |-> w, value |-> v]]
        /\ disturbed' = disturbed \cup Disturbs(Bus(i, a), r[1])
  BY DEF Issue
<1>3. Bus(i, a) = Meant(i, a) /\ Strays(Bus(i, a)) \in BOOLEAN
  BY <1>0, BusMeant DEF Strays
<1>4. /\ r[1] \in Targets /\ r[2] \in Word
      /\ ~Strays(Meant(i, a)) =>
           MapsTo(Meant(i, a), r[1]) /\ r[2] = OffsetIn(r[1], Meant(i, a))
  BY <1>0, RouteRight
<1>14. /\ disturbed \subseteq disturbed' /\ disturbed' \subseteq Targets
       /\ Strays(Meant(i, a)) => r[1] \in disturbed'
  BY <1>0, <1>2, <1>3, <1>4 DEF Disturbs, TypeOK
<1>5. TypeOK'
  <2>1. call' \in [Initiators ->
       [at : {"idle", "target"}, asked : Word, addr : Word, target : Targets,
        stray : BOOLEAN, write : BOOLEAN, value : Values \cup {Blank}]]
    BY <1>0, <1>2, <1>3, <1>4 DEF TypeOK
  <2>2. writes' \in 0 .. MaxWrites
    BY <1>0, <1>1, CountedType
  <2> QED
    BY <1>0, <1>1, <1>14, <2>1, <2>2, FrameInv, MachineType DEF TypeOK, NoRead
<1>13. PICK c : c = [at |-> "target", asked |-> a, addr |-> r[2], target |-> r[1],
                stray |-> Strays(Bus(i, a)), write |-> w, value |-> v]
  OBVIOUS
<1>6. RightCall(i, c)'
  <2>1. PICK b : b = Meant(i, a)
    OBVIOUS
  <2>2. /\ c.at = "target" /\ c.asked = a /\ c.write = w /\ c.value = v
        /\ c.target = r[1] /\ c.addr = r[2]
        /\ c.stray <=> Strays(b)
    BY <1>3, <1>13, <2>1
  <2>3. Built' /\ Meant(i, a)' = b /\ (Strays(b)' <=> Strays(b))
    BY <1>1, <2>1, SameMap, FrameInv
  <2>4. CASE Strays(b)
    <3>1. r[1] \in disturbed'
      BY <1>14, <2>1, <2>4
    <3> QED
      BY <2>2, <2>3, <2>4, <3>1 DEF RightCall
  <2>5. CASE ~Strays(b)
    <3>1. MapsTo(b, r[1])' /\ r[2] = OffsetIn(r[1], b)'
      BY <1>1, <1>4, <2>1, <2>5, SameMap
    <3> QED
      BY <2>2, <2>3, <2>5, <3>1 DEF RightCall
  <2> QED
    BY <2>4, <2>5
<1>7. ASSUME NEW j \in Initiators PROVE SentRight(j)'
  <2>1. CASE j = i
    <3>1. call'[j] = c
      BY <1>0, <1>2, <1>13, <2>1 DEF TypeOK
    <3> QED
      BY <1>6, <2>1, <3>1 DEF SentRight
  <2>2. CASE j # i
    <3>1. call'[j] = call[j]
      BY <1>0, <1>2, <2>2 DEF TypeOK
    <3> QED
      BY <1>0, <1>1, <1>14, <3>1, SentKept
  <2> QED
    BY <2>1, <2>2
<1>8. Agrees'
  BY <1>0, <1>1, <1>14, SameMap DEF Agrees
<1>9. QuietUntilBuilt' /\ FlatMemory'
  BY <1>0, <1>1, FrameInv DEF QuietUntilBuilt, FlatMemory, NoRead
<1> QED
  BY <1>1, <1>5, <1>7, <1>8, <1>9, FrameInv DEF IInv

LEMMA DebugInv ==
  ASSUME IInv, NEW i \in Initiators, NEW a \in Word, NEW w \in BOOLEAN,
         NEW v \in Values \cup {Blank}, w => v \in Values, Debug(i, a, w, v)
  PROVE  IInv'
<1>0. TypeOK /\ OffsetsSet /\ Agrees /\ QuietUntilBuilt /\ FlatMemory
      /\ \A j \in Initiators : SentRight(j)
  BY DEF IInv
<1>1. /\ Built /\ Counted(w)
      /\ UNCHANGED <<machine, map, made, targetOffset, call>>
  BY DEF Debug
<1>2. PICK r \in Routes(i, a) :
        /\ Serve(i, a, r[1], r[2], w, v)
        /\ disturbed' = disturbed \cup Disturbs(Bus(i, a), r[1])
  BY DEF Debug
<1>3. Bus(i, a) = Meant(i, a)
  BY <1>0, BusMeant
<1>4. /\ r[1] \in Targets /\ r[2] \in Word
      /\ ~Strays(Meant(i, a)) =>
           MapsTo(Meant(i, a), r[1]) /\ r[2] = OffsetIn(r[1], Meant(i, a))
  BY <1>0, RouteRight
<1>9. /\ disturbed \subseteq disturbed' /\ disturbed' \subseteq Targets
      /\ Strays(Meant(i, a)) => r[1] \in disturbed'
  BY <1>0, <1>2, <1>3, <1>4 DEF Disturbs, TypeOK
<1>5. /\ Agrees' /\ FlatMemory'
      /\ IsMemory(cells', Targets \X Word) /\ IsMemory(flat', Word)
      /\ read' \in [value : Values \cup {Blank}, latest : Values \cup {Blank},
                   target : Targets]
  <2>1. UNCHANGED <<machine, map, targetOffset>>
    BY <1>1
  <2>2. PICK t \in Targets, o \in Word : t = r[1] /\ o = r[2]
    BY <1>4
  <2>3. /\ Serve(i, a, t, o, w, v)
        /\ ~Strays(Meant(i, a)) => MapsTo(Meant(i, a), t) /\ o = OffsetIn(t, Meant(i, a))
        /\ Strays(Meant(i, a)) => t \in disturbed'
    BY <1>2, <1>4, <1>9, <2>2
  <2> QED
    BY <1>0, <1>9, <2>1, <2>3, ServeInv
<1>6. TypeOK'
  <2>1. writes' \in 0 .. MaxWrites
    BY <1>0, <1>1, CountedType
  <2> QED
    BY <1>0, <1>1, <1>5, <1>9, <2>1, FrameInv DEF TypeOK
<1>7. ASSUME NEW j \in Initiators PROVE SentRight(j)'
  BY <1>0, <1>1, <1>9, SentKept
<1>8. QuietUntilBuilt'
  BY <1>0, <1>1, FrameInv DEF QuietUntilBuilt
<1> QED
  BY <1>1, <1>5, <1>6, <1>7, <1>8, FrameInv DEF IInv

LEMMA ReturnInv ==
  ASSUME IInv, NEW i \in Initiators, Return(i)
  PROVE  IInv'
<1> USE DEF IInv
<1> DEFINE c == call[i]
<1>1. /\ c.at = "target"
      /\ call' = [call EXCEPT ![i] = NoCall]
      /\ Serve(i, c.asked, c.target, c.addr, c.write, c.value)
      /\ UNCHANGED <<machine, map, made, targetOffset, disturbed, writes>>
  BY DEF Return
<1>2. /\ c.asked \in Word /\ c.target \in Targets /\ c.addr \in Word
      /\ c.write \in BOOLEAN /\ c.stray \in BOOLEAN
  BY DEF TypeOK
<1>3. /\ Built
      /\ c.write => c.value \in Values
      /\ Strays(Meant(i, c.asked)) => c.target \in disturbed
      /\ ~Strays(Meant(i, c.asked)) =>
           MapsTo(Meant(i, c.asked), c.target) /\ c.addr = OffsetIn(c.target, Meant(i, c.asked))
  <2>1. RightCall(i, c) /\ i \in Initiators
    BY DEF SentRight
  <2>2. c.target \in Targets
    BY <1>2
  <2> HIDE DEF c, IInv
  <2> QED
    BY <1>1, <2>1, <2>2, NotStray DEF RightCall, IInv
<1>4. /\ Agrees' /\ FlatMemory'
      /\ IsMemory(cells', Targets \X Word) /\ IsMemory(flat', Word)
      /\ read' \in [value : Values \cup {Blank}, latest : Values \cup {Blank},
                   target : Targets]
  <2> HIDE DEF c
  <2> QED
    BY <1>1, <1>2, <1>3, ServeInv
<1>5. TypeOK'
  <2>1. call' \in [Initiators ->
       [at : {"idle", "target"}, asked : Word, addr : Word, target : Targets,
        stray : BOOLEAN, write : BOOLEAN, value : Values \cup {Blank}]]
    BY <1>1, ZeroWord, MachineType DEF TypeOK, NoCall
  <2> QED
    BY <1>1, <1>4, <2>1, FrameInv DEF TypeOK
<1>6. ASSUME NEW j \in Initiators PROVE SentRight(j)'
  <2>1. CASE j = i
    BY <1>1, <2>1 DEF TypeOK, SentRight, RightCall, NoCall
  <2>2. CASE j # i
    <3>1. call'[j] = call[j]
      BY <1>1, <2>2 DEF TypeOK
    <3> QED
      BY <1>1, <3>1, SentKept
  <2> QED
    BY <2>1, <2>2
<1>7. QuietUntilBuilt'
  BY <1>1, <1>3, FrameInv DEF QuietUntilBuilt
<1> QED
  BY <1>1, <1>4, <1>5, <1>6, <1>7, FrameInv

LEMMA NextInv ==
  ASSUME IInv, [Next]_vars
  PROVE  IInv'
<1>1. CASE MemMap
  BY <1>1, MemMapInv
<1>2. CASE Transact
  <2>1. PICK i \in Initiators, b \in Word :
          \/ Issue(i, Asks(i, b), FALSE, Blank)
          \/ \E v \in Values : Issue(i, Asks(i, b), TRUE, v)
    BY <1>2, MachineType DEF Transact, IInv
  <2>2. Asks(i, b) \in Word
    BY AsksWord DEF IInv
  <2> QED
    BY <2>1, <2>2, IssueInv
<1>3. CASE Inspect
  <2>1. PICK i \in Initiators, b \in Word :
          \/ Debug(i, Asks(i, b), FALSE, Blank)
          \/ \E v \in Values : Debug(i, Asks(i, b), TRUE, v)
    BY <1>3, MachineType DEF Inspect, IInv
  <2>2. Asks(i, b) \in Word
    BY AsksWord DEF IInv
  <2> QED
    BY <2>1, <2>2, DebugInv
<1>4. CASE \E i \in Initiators : Return(i)
  BY <1>4, ReturnInv
<1>5. CASE UNCHANGED vars
  <2>1. ASSUME NEW j \in Initiators PROVE SentRight(j)'
    BY <1>5, SentKept DEF vars, IInv
  <2>2. Agrees' /\ QuietUntilBuilt' /\ FlatMemory'
    BY <1>5, SameMap, FrameInv DEF Agrees, QuietUntilBuilt, FlatMemory, vars, IInv
  <2>3. TypeOK'
    BY <1>5, FrameInv DEF TypeOK, vars, IInv
  <2> QED
    BY <1>5, <2>1, <2>2, <2>3, FrameInv DEF IInv, vars
<1> QED
  BY <1>1, <1>2, <1>3, <1>4, <1>5 DEF Next

-----------------------------------------------------------------------------
(* The theorems                                                             *)

\* The state has the types declared: every offset that map_address gives is
\* an address, and every target one of the interconnect's.
THEOREM TypeCorrect ==
  Spec => []TypeOK
<1>1. Init => IInv
  BY InitInv
<1>2. IInv /\ [Next]_vars => IInv'
  BY NextInv
<1>3. IInv => TypeOK
  BY DEF IInv
<1> QED
  BY <1>1, <1>2, <1>3, PTL DEF Spec

\* Whatever a machine maps, however the mappings overlap and whatever the
\* offsets and the entries of the map hold that were not set, its bus is one
\* memory but for the targets that an address was sent to that is not mapped.
THEOREM OneMemory ==
  Spec => []FlatMemory
<1>1. Init => IInv
  BY InitInv
<1>2. IInv /\ [Next]_vars => IInv'
  BY NextInv
<1>3. IInv => FlatMemory
  BY DEF IInv
<1> QED
  BY <1>1, <1>2, <1>3, PTL DEF Spec

-----------------------------------------------------------------------------
(* Machines whose memmap calls fit their targets                            *)

\* The calls fill the entries in their order.
InOrder ==
  \A e \in Targets :
    IF e < made THEN map[e] = machine.calls[e + 1] ELSE map[e].size = 0

LEMMA InOrderInit == Init => InOrder
<1> SUFFICES ASSUME Init PROVE InOrder
  OBVIOUS
<1>1. machine \in Machines /\ IsMachine(machine)
  BY IconnectConstants DEF Init
<1> QED
  BY <1>1 DEF Init, InOrder, IsMachine, Targets, Free

LEMMA InOrderNext ==
  ASSUME \A m \in Machines : Fits(m), TypeOK, InOrder, [Next]_vars
  PROVE  InOrder'
<1>1. CASE MemMap
  <2>1. PICK e \in Targets :
          /\ map[e].size = 0
          /\ \A f \in 0 .. e - 1 : map[f].size # 0
          /\ map' = [map EXCEPT ![e] = machine.calls[made + 1]]
    BY <1>1 DEF MemMap
  <2>2. made < Len(machine.calls) /\ made' = made + 1 /\ machine' = machine
    BY <1>1 DEF MemMap
  <2>3. made \in Nat /\ Len(machine.calls) \in Nat /\ Len(machine.calls) <= machine.targets
        /\ machine.targets \in Nat /\ e \in Nat
    BY MachineType DEF TypeOK
  <2>4. \A f \in Targets : f < made => map[f].size > 0
    <3> SUFFICES ASSUME NEW f \in Targets, f < made PROVE map[f].size > 0
      OBVIOUS
    <3>1. f \in Nat /\ f + 1 \in 1 .. Len(machine.calls)
      BY <2>2, <2>3, MachineType
    <3> QED
      BY <3>1 DEF InOrder, Fits, TypeOK
  <2>5. e = made
    <3>1. ~(e < made)
      BY <2>1, <2>4
    <3>2. made \in Targets
      BY <2>2, <2>3 DEF Targets
    <3>3. ~(made < e)
      BY <2>1, <2>3, <3>2 DEF InOrder
    <3> QED
      BY <2>3, <3>1, <3>3
  <2>6. ASSUME NEW f \in Targets
        PROVE  IF f < made + 1 THEN map'[f] = machine.calls[f + 1] ELSE map'[f].size = 0
    <3>1. f \in Nat /\ f \in Entries
      BY MachineType
    <3>2. CASE f = e
      BY <2>1, <2>3, <2>5, <3>1, <3>2 DEF TypeOK
    <3>3. CASE f # e
      <4>1. map'[f] = map[f]
        BY <2>1, <3>1, <3>3 DEF TypeOK
      <4> QED
        BY <2>3, <2>5, <3>1, <3>3, <4>1 DEF InOrder
    <3> QED
      BY <3>2, <3>3
  <2> QED
    BY <2>2, <2>6 DEF InOrder, Targets
<1>2. CASE UNCHANGED <<machine, map, made>>
  BY <1>2 DEF InOrder, Targets
<1>3. Transact \/ Inspect \/ (\E i \in Initiators : Return(i)) \/ UNCHANGED vars
        => UNCHANGED <<machine, map, made>>
  BY DEF Transact, Inspect, Issue, Debug, Return, vars
<1> QED
  BY <1>1, <1>2, <1>3 DEF Next

LEMMA InsideHolds ==
  ASSUME \A m \in Machines : Fits(m), IInv, InOrder
  PROVE  Inside
<1> SUFFICES ASSUME NEW i \in Initiators, call[i].at = "target", ~call[i].stray
             PROVE  call[i].addr < machine.words[call[i].target + 1]
  BY DEF Inside
<1> DEFINE t == call[i].target
           b == Meant(i, call[i].asked)
<1>1. TypeOK /\ t \in Targets /\ call[i].asked \in Word
  BY DEF IInv, TypeOK
<1>2. MapsTo(b, t) /\ call[i].addr = OffsetIn(t, b)
  BY DEF IInv, SentRight, RightCall
<1>3. b \in Word
  BY <1>1, MeantWord
<1> HIDE DEF t, b
<1>4. /\ map[t].size # 0 /\ b >= map[t].addr
      /\ b <= (map[t].addr + map[t].size) % AddrMod
  BY <1>2 DEF MapsTo, FirstOf, Hits, Holds
<1>5. t < made /\ map[t] = machine.calls[t + 1]
  BY <1>1, <1>4 DEF InOrder
<1>6. t \in Nat /\ t + 1 \in 1 .. Len(machine.calls) /\ machine.calls[t + 1] \in Entry
  BY <1>1, <1>5, MachineType DEF TypeOK
<1>7. /\ map[t].mode = "relative" /\ map[t].addr + map[t].size < AddrMod
      /\ map[t].size < machine.words[t + 1]
  BY <1>1, <1>5, <1>6 DEF Fits, TypeOK
<1>8. map[t].addr \in Nat /\ map[t].size \in Nat /\ AddrMod \in Nat \ {0} /\ b \in Nat
  BY <1>3, <1>5, <1>6, IconnectConstants DEF Entry, Word
<1>9. (map[t].addr + map[t].size) % AddrMod = map[t].addr + map[t].size
  <2>1. PICK k \in Nat : k = map[t].addr + map[t].size
    BY <1>8
  <2>2. k < AddrMod
    BY <1>7, <2>1
  <2> QED
    BY <1>8, <2>1, <2>2, SmallMod
<1>10. machine.words[t + 1] \in Nat
  BY <1>1, <1>6, IconnectConstants DEF TypeOK, IsMachine
<1>11. b - map[t].addr < machine.words[t + 1]
  BY <1>4, <1>7, <1>8, <1>9, <1>10
<1> QED
  BY <1>2, <1>7, <1>11 DEF OffsetIn, t

\* If each mapping fits its target, no transaction whose address is mapped is
\* sent to an offset that its target does not have, whatever the offsets of the
\* initiators hold.
THEOREM WithinTargets ==
  ASSUME \A m \in Machines : Fits(m)
  PROVE  Spec => []Inside
<1>1. Init => IInv /\ InOrder
  BY InitInv, InOrderInit
<1>2. IInv /\ InOrder /\ [Next]_vars => IInv' /\ InOrder'
  BY NextInv, InOrderNext DEF IInv
<1>3. IInv /\ InOrder => Inside
  BY InsideHolds
<1> QED
  BY <1>1, <1>2, <1>3, PTL DEF Spec
=============================================================================
