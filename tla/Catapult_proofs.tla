--------------------------- MODULE Catapult_proofs ---------------------------
(* Theorems about the slots engine, for any number of slots: first with a   *)
(* host that writes any register at any time (SlotsAny), whether or not the *)
(* slots have a buffer, then with the drivers of Catapult, any number of    *)
(* them with registers of any width.                                        *)
EXTENDS Catapult, FiniteSetTheorems,
        WellFoundedInduction, TLAPS

Any == INSTANCE SlotsAny

-----------------------------------------------------------------------------
(* The order of the scan                                                    *)

\* How many slots are tested before s by a scan that begins behind x
DistFrom(x, s) == (s - x - 1) % SlotCount

LEMMA DistRange ==
  \A x, s \in Slots : DistFrom(x, s) \in 0 .. SlotCount - 1
BY SlotConstants, Z3 DEF Slots, DistFrom

LEMMA DistType == slot \in Slots => \A s \in Slots : Dist(s) \in 0 .. SlotCount - 1
BY DistRange DEF DistFrom, Dist

LEMMA DistValue ==
  ASSUME NEW x \in Slots, NEW s \in Slots
  PROVE  DistFrom(x, s) = IF s > x THEN s - x - 1 ELSE s - x - 1 + SlotCount
BY SlotConstants, Z3 DEF Slots, DistFrom

\* A slot is the last that is tested behind itself, and no two slots are
\* tested at once.
LEMMA DistOrder ==
  ASSUME NEW x \in Slots, NEW s \in Slots
  PROVE  /\ s # x => DistFrom(x, s) < DistFrom(x, x)
         /\ \A t \in Slots : DistFrom(x, s) = DistFrom(x, t) => s = t
<1>1. x \in 0 .. SlotCount - 1 /\ s \in 0 .. SlotCount - 1
  BY DEF Slots
<1>2. s # x => DistFrom(x, s) < DistFrom(x, x)
  BY <1>1, DistValue, SlotConstants
<1>3. ASSUME NEW t \in Slots, DistFrom(x, s) = DistFrom(x, t) PROVE s = t
  <2>1. t \in 0 .. SlotCount - 1
    BY DEF Slots
  <2> QED BY <1>1, <1>3, <2>1, DistValue, SlotConstants
<1> QED BY <1>2, <1>3

\* Behind n, which lies behind x, the slots behind n keep their order.
LEMMA DistMoves ==
  ASSUME NEW x \in Slots, NEW n \in Slots, NEW s \in Slots,
         DistFrom(x, n) < DistFrom(x, s)
  PROVE  DistFrom(n, s) = DistFrom(x, s) - DistFrom(x, n) - 1
<1>1. /\ x \in 0 .. SlotCount - 1 /\ s \in 0 .. SlotCount - 1
      /\ n \in 0 .. SlotCount - 1
  BY DEF Slots
<1> QED BY <1>1, DistValue, SlotConstants

\* A set of numbers has a smallest one.
LEMMA Smallest ==
  ASSUME NEW D \in SUBSET Nat, D # {}
  PROVE  \E d \in D : \A e \in D : d <= e
<1> DEFINE R == {p \in Nat \X Nat : p[1] < p[2]}
<1>1. IsWellFoundedOn(R, Nat)
  BY NatLessThanWellFounded DEF OpToRel
<1>2. \A d, e \in Nat : e < d => <<e, d>> \in R
  OBVIOUS
<1> HIDE DEF R
<1>3. PICK d \in D : \A e \in D : <<e, d>> \notin R
  BY <1>1, WFMin
<1>4. ASSUME NEW e \in D PROVE d <= e
  <2>1. ~(e < d)
    BY <1>2, <1>3
  <2> QED
    BY <2>1
<1> QED
  BY <1>4

\* Among slots there is one that is tested first,
LEMMA NearestFirst ==
  ASSUME slot \in Slots, NEW S \in SUBSET Slots, S # {}
  PROVE  Nearest(S) \in S /\ \A t \in S : Dist(Nearest(S)) <= Dist(t)
<1> DEFINE D == {Dist(s) : s \in S}
<1>1. \A s \in S : Dist(s) \in 0 .. SlotCount - 1
  BY DistType
<1>2. D \subseteq Nat /\ D # {}
  BY <1>1, SlotConstants
<1>3. PICK d \in D : \A e \in D : d <= e
  <2> HIDE DEF D
  <2> QED BY <1>2, Smallest
<1>4. \E s \in S : \A t \in S : Dist(s) <= Dist(t)
  BY <1>3
<1> QED
  BY <1>4 DEF Nearest

\* and one that is tested last.
LEMMA FarthestIn ==
  ASSUME slot \in Slots, NEW S \in SUBSET Slots, S # {}
  PROVE  Farthest(S) \in S
<1> DEFINE D == {SlotCount - 1 - Dist(s) : s \in S}
<1>1. \A s \in S : Dist(s) \in 0 .. SlotCount - 1
  BY DistType
<1>2. D \subseteq Nat /\ D # {}
  BY <1>1, SlotConstants
<1>3. PICK d \in D : \A e \in D : d <= e
  <2> HIDE DEF D
  <2> QED BY <1>2, Smallest
<1>4. PICK s \in S : d = SlotCount - 1 - Dist(s)
  OBVIOUS
<1>5. ASSUME NEW t \in S PROVE Dist(t) <= Dist(s)
  <2>1. d <= SlotCount - 1 - Dist(t)
    BY <1>3
  <2> HIDE DEF D
  <2> QED
    BY <1>1, <1>4, <2>1, SlotConstants
<1> QED
  BY <1>5 DEF Farthest

-----------------------------------------------------------------------------
(* The engine and the writes to its registers                               *)

EngineInv == EngineTypeOK /\ NoneAsleep

LEMMA InitEngineInv == EngineInit => EngineInv
<1> SUFFICES ASSUME EngineInit PROVE EngineInv
  OBVIOUS
<1> USE SlotConstants DEF EngineInit
<1>1. slot \in Slots
  BY DEF Slots
<1>2. copy \in [from : Word, blocks : Word]
  BY DEF NoCopy
<1> QED
  BY <1>1, <1>2 DEF EngineInv, EngineTypeOK, NoneAsleep

LEMMA ScanInv == EngineInv /\ Scan => EngineInv'
<1> SUFFICES ASSUME EngineInv, Scan PROVE EngineInv'
  OBVIOUS
<1>0. EngineTypeOK /\ UNCHANGED <<input, ev>> /\ 0 \in Word
  BY SlotConstants DEF EngineInv, Scan
<1>1. CASE TakeSlot
  <2> DEFINE s == Nearest(Pending \cap Configured)
  <2>1. s \in Slots
    BY <1>0, <1>1, NearestFirst DEF TakeSlot, EngineTypeOK, Pending
  <2>2. /\ slot' = s
        /\ full' = [t \in Slots |-> IF t \notin Configured /\ Dist(t) < Dist(s)
                                    THEN 0 ELSE full[t]]
        /\ copy' = [from |-> input[s], blocks |-> full[s]]
        /\ pc' \in {"aborted", "read"}
    BY <1>1 DEF TakeSlot
  <2> HIDE DEF s
  <2> QED
    BY <1>0, <2>1, <2>2 DEF EngineInv, EngineTypeOK, NoneAsleep
<1>2. CASE Sleep
  <2>1. slot' \in Slots
    BY <1>0, <1>2, FarthestIn DEF Sleep, EngineTypeOK, Pending
  <2>2. full' = [t \in Slots |-> 0] /\ pc' = "sleep" /\ UNCHANGED copy
    BY <1>2 DEF Sleep
  <2>3. Pending' = {}
    BY <2>2 DEF Pending
  <2> QED
    BY <1>0, <2>1, <2>2, <2>3 DEF EngineInv, EngineTypeOK, NoneAsleep
<1> QED
  BY <1>1, <1>2 DEF Scan

LEMMA EngineKept == EngineInv /\ Engine => EngineInv'
<1> SUFFICES ASSUME EngineInv, Engine PROVE EngineInv'
  OBVIOUS
<1> USE SlotConstants DEF EngineInv, EngineTypeOK, NoneAsleep, Pending
<1>1. CASE Scan
  BY <1>1, ScanInv
<1>2. CASE ReadDone
  BY <1>2 DEF ReadDone
<1>3. CASE Clear
  BY <1>3 DEF Clear, NoCopy
<1>4. CASE Notified
  BY <1>4 DEF Notified
<1> QED
  BY <1>1, <1>2, <1>3, <1>4 DEF Engine

LEMMA WritesKept ==
  ASSUME EngineInv,
         \/ \E s \in Slots, w \in Word : WriteInput(s, w) \/ WriteFull(s, w)
         \/ \E w \in Word : WriteDone(w)
         \/ Reset
  PROVE  EngineInv'
<1> USE SlotConstants DEF EngineInv, EngineTypeOK, NoneAsleep, Pending
<1>1. CASE \E s \in Slots, w \in Word : WriteInput(s, w)
  BY <1>1 DEF WriteInput
<1>2. CASE \E s \in Slots, w \in Word : WriteFull(s, w)
  BY <1>2 DEF WriteFull
<1>3. CASE \E w \in Word : WriteDone(w)
  BY <1>3 DEF WriteDone
<1>4. CASE Reset
  BY <1>4 DEF Reset
<1> QED
  BY <1>1, <1>2, <1>3, <1>4

\* SlotsAny has the same engine and the same writes.
LEMMA SameEngine ==
  /\ Any!Engine <=> Engine
  /\ Any!Init <=> EngineInit
  /\ Any!EngineTypeOK <=> EngineTypeOK
  /\ Any!NoneAsleep <=> NoneAsleep
BY DEF Any!Engine, Engine, Any!Scan, Scan, Any!TakeSlot, TakeSlot, Any!Sleep, Sleep,
       Any!ReadDone, ReadDone, Any!Clear, Clear, Any!Notified, Notified,
       Any!Nearest, Nearest, Any!Farthest, Farthest, Any!Dist, Dist,
       Any!Pending, Pending, Any!Slots, Slots, Any!NoCopy, NoCopy,
       Any!Init, Any!EngineInit, EngineInit, Any!EngineTypeOK, EngineTypeOK,
       Any!NoneAsleep, NoneAsleep

LEMMA SameWrites ==
  Any!Host <=>
    /\ pc # "aborted"
    /\ \/ \E s \in Slots, w \in Word : WriteInput(s, w) \/ WriteFull(s, w)
       \/ \E w \in Word : WriteDone(w)
       \/ Reset
BY DEF Any!Host, Any!Slots, Slots, Any!WriteInput, WriteInput, Any!WriteFull,
       WriteFull, Any!WriteDone, WriteDone, Any!Reset, Reset

LEMMA NextEngineInv == EngineInv /\ [Any!Next]_(Any!engineVars) => EngineInv'
<1> SUFFICES ASSUME EngineInv, [Any!Next]_(Any!engineVars) PROVE EngineInv'
  OBVIOUS
<1>1. CASE Any!Engine
  BY <1>1, SameEngine, EngineKept
<1>2. CASE Any!Host
  BY <1>2, SameWrites, WritesKept
<1>3. CASE UNCHANGED Any!engineVars
  BY <1>3 DEF Any!engineVars, EngineInv, EngineTypeOK, NoneAsleep, Pending
<1> QED
  BY <1>1, <1>2, <1>3 DEF Any!Next

\* The engine's variables keep their types: slot_number is always a slot, as
\* the assertion of find_next_full_doorbell demands (slots_dma.cc:278).
THEOREM SlotsTypeCorrect == Any!Spec => []EngineTypeOK
<1>1. Any!Init => EngineInv
  BY SameEngine, InitEngineInv
<1>2. EngineInv => EngineTypeOK
  BY DEF EngineInv
<1> QED
  BY <1>1, <1>2, NextEngineInv, PTL DEF Any!Spec

\* The engine never sleeps on a doorbell, whatever is written and reset while
\* its thread is blocked.
THEOREM SlotsNoneAsleep == Any!Spec => []NoneAsleep
<1>1. Any!Init => EngineInv
  BY SameEngine, InitEngineInv
<1>2. EngineInv => NoneAsleep
  BY DEF EngineInv
<1> QED
  BY <1>1, <1>2, NextEngineInv, PTL DEF Any!Spec

-----------------------------------------------------------------------------
(* The drivers.  The invariant of Catapult: who is at work, what the adapter *)
(* holds, what the registers hold for a driver, what the engine reads, and   *)
(* the order in which it goes round.                                         *)

\* A driver with 32-bit accesses is alone.
AtWork ==
  /\ \A s \in narrow : active = {s}
  /\ \A s \in Slots : driver[s].at # "idle" =>
       /\ s \in active
       /\ driver[s].from \in Froms /\ driver[s].blocks # 0
  /\ \A s \in Slots : driver[s].at \in {"inputHigh", "ringHigh"} => s \in narrow

HeldHalf ==
  /\ (\A s \in Slots : driver[s].at \notin {"inputHigh", "ringHigh"}) => stash = NoStash
  /\ \A s \in Slots :
       /\ driver[s].at = "inputHigh" =>
            stash = [reg |-> <<"input", s>>, data |-> Low(driver[s].from)]
       /\ driver[s].at = "ringHigh" =>
            stash = [reg |-> <<"full", s>>, data |-> Low(driver[s].blocks)]

Written ==
  \A s \in Slots :
    /\ driver[s].at \in {"ring", "ringHigh", "poll"} => input[s] = driver[s].from
    /\ full[s] # 0 => driver[s].at = "poll" /\ full[s] = driver[s].blocks
    /\ driver[s].at = "poll" /\ full[s] = 0 => s \in served

Reading ==
  /\ pc # "aborted"
  /\ pc \in {"read", "copied"} =>
       full[slot] # 0 /\ copy = [from |-> input[slot], blocks |-> full[slot]]
  /\ pc = "copied" => slot \in served

\* A slot that is rung is tested before those that have passed it by.
Ahead ==
  /\ \A s \in Slots : full[s] = 0 => passed[s] = {}
  /\ pc = "copied" => passed[slot] = {}
  /\ pc = "read" => \A s \in Rung \ {slot} : slot \notin passed[s]
  /\ \A s \in Rung : \A t \in passed[s] :
       (pc = "read" /\ s = slot) \/ DistFrom(slot, s) < DistFrom(slot, t)

CatapultInv ==
  TypeOK /\ NoneAsleep /\ AtWork /\ HeldHalf /\ Written /\ Reading /\ Ahead

Drivers == [Slots -> [at : Steps, from : Full, blocks : Half]]

LEMMA Halves ==
  /\ \A v \in Full : Low(v) \in Half /\ High(v) \in Half /\ v = High(v) * HalfMod + Low(v)
  /\ \A v \in Half : v \in Full /\ Low(v) = v
  /\ 0 \in Half
BY AdapterConstants, Z3 DEF Full, Half, Low, High

LEMMA InitCatapult == Init => CatapultInv
<1> SUFFICES ASSUME Init PROVE CatapultInv
  OBVIOUS
<1>1. EngineTypeOK /\ NoneAsleep
  BY InitEngineInv DEF Init, EngineInv
<1>2. 0 \in Full /\ 0 \in Half
  BY Halves
<1>3. /\ driver = [s \in Slots |-> [at |-> "idle", from |-> 0, blocks |-> 0]]
      /\ stash = NoStash /\ served = {} /\ passed = [s \in Slots |-> {}]
      /\ full = [s \in Slots |-> 0] /\ pc = "ready"
  BY DEF Init, EngineInit
<1>4. narrow \subseteq active /\ active \subseteq Slots /\ \A s \in narrow : active = {s}
  <2>1. active \in {Slots} \cup {{s} : s \in Slots}
    BY DEF Init
  <2>2. narrow = {} \/ (narrow = active /\ Cardinality(narrow) = 1)
    BY DEF Init
  <2>3. ASSUME NEW s \in narrow PROVE narrow = {s}
    <3>1. Cardinality(narrow) = 1
      BY <2>2, <2>3
    <3>2. CASE \E x \in Slots : narrow = {x}
      BY <2>3, <3>2
    <3>3. CASE narrow = Slots
      <4>1. IsFiniteSet(Slots) /\ Cardinality(Slots) = SlotCount
        <5>1. 0 \in Int /\ SlotCount - 1 \in Int
          BY SlotConstants
        <5>2. IsFiniteSet(Slots)
              /\ Cardinality(Slots) = IF 0 > SlotCount - 1 THEN 0 ELSE (SlotCount - 1) - 0 + 1
          BY <5>1, FS_Interval DEF Slots
        <5> QED BY <5>2, SlotConstants
      <4>2. SlotCount = 1
        BY <3>1, <3>3, <4>1
      <4>3. Slots = {0}
        BY <4>2 DEF Slots
      <4> QED BY <2>3, <3>3, <4>3
    <3> QED BY <2>1, <2>2, <2>3, <3>2, <3>3
  <2> QED BY <2>1, <2>2, <2>3
<1>5. TypeOK
  <2>1. driver \in Drivers
    BY <1>2, <1>3 DEF Drivers, Steps
  <2>2. StashTypeOK
    BY <1>2, <1>3 DEF StashTypeOK, NoStash
  <2> QED BY <1>1, <1>3, <1>4, <2>1, <2>2 DEF TypeOK, Drivers
<1> QED
  BY <1>1, <1>3, <1>4, <1>5
  DEF CatapultInv, AtWork, HeldHalf, Written, Reading, Ahead, Rung

-----------------------------------------------------------------------------
(* What a step of a driver does                                             *)

\* Driver s is past the low half of its write of v.
Halfway(s, kind, v, high) ==
  /\ s \in narrow
  /\ stash' = [reg |-> <<kind, s>>, data |-> Low(v)]
  /\ driver' = [driver EXCEPT ![s].at = high]
  /\ UNCHANGED <<active, narrow, engineVars, served, passed>>

\* Its write has reached the engine.
Whole(s, kind, v, next) ==
  /\ stash' = NoStash
  /\ \/ kind = "input" /\ WriteInput(s, v)
     \/ kind = "full" /\ WriteFull(s, v)
  /\ driver' = [driver EXCEPT ![s].at = next]
  /\ UNCHANGED <<active, narrow, served, passed>>

\* Between its writes nothing is held, and while a driver is alone no other
\* holds anything.
LEMMA NothingHeld ==
  ASSUME CatapultInv, NEW s \in Slots,
         driver[s].at \notin {"idle", "inputHigh", "ringHigh"}
  PROVE  stash = NoStash
<1>1. ASSUME NEW t \in Slots, driver[t].at \in {"inputHigh", "ringHigh"} PROVE FALSE
  <2>1. t \in narrow /\ active = {t} /\ s \in active
    BY <1>1 DEF CatapultInv, AtWork
  <2> QED BY <1>1, <2>1
<1> QED BY <1>1 DEF CatapultInv, HeldHalf

LEMMA FirstEffect ==
  ASSUME CatapultInv, NEW s \in Slots,
         driver[s].at \notin {"idle", "inputHigh", "ringHigh"},
         NEW kind \in {"input", "full"}, NEW v \in Full, NEW high, NEW next,
         WriteFirst(s, kind, v, high, next)
  PROVE  Halfway(s, kind, v, high) \/ Whole(s, kind, v, next)
<1> DEFINE r == <<kind, s>>
<1>1. stash = NoStash /\ r[1] = kind /\ r[2] = s
  BY NothingHeld
<1>2. r # NoReg
  BY AdapterConstants, DriverConstants
<1>3. CASE s \in narrow
  <2>1. /\ Access(r, "low", Low(v))
        /\ driver' = [driver EXCEPT ![s].at = high]
        /\ UNCHANGED <<active, narrow, served, passed>>
    BY <1>3 DEF WriteFirst
  <2>2. ~Completes(r, "low") /\ ~InProgress
    BY <1>1 DEF Completes, InProgress, NoStash
  <2>3. stash' = [reg |-> r, data |-> Low(v)] /\ UNCHANGED engineVars
    BY <2>1, <2>2 DEF Access, StashWrite
  <2> QED BY <1>3, <2>1, <2>3 DEF Halfway
<1>4. CASE s \notin narrow
  <2>1. /\ Access(r, "wide", v)
        /\ driver' = [driver EXCEPT ![s].at = next]
        /\ UNCHANGED <<active, narrow, served, passed>>
    BY <1>4 DEF WriteFirst
  <2>2. stash' = NoStash /\ RoleWrite(r, v)
    BY <2>1 DEF Access, StashWrite, Completes, Composed
  <2> QED BY <1>1, <2>1, <2>2 DEF Whole, RoleWrite
<1> QED BY <1>3, <1>4

LEMMA SecondEffect ==
  ASSUME CatapultInv, NEW s \in Slots,
         NEW kind \in {"input", "full"}, NEW v \in Full, NEW next,
         stash = [reg |-> <<kind, s>>, data |-> Low(v)],
         WriteSecond(s, kind, v, next)
  PROVE  Whole(s, kind, v, next)
<1> DEFINE r == <<kind, s>>
<1>1. stash.reg = r /\ r[1] = kind /\ r[2] = s /\ stash.data = Low(v)
  OBVIOUS
<1>2. Composed("high", High(v)) = v
  BY <1>1, Halves DEF Composed
<1>3. stash' = NoStash /\ RoleWrite(r, v)
  BY <1>1, <1>2 DEF WriteSecond, Access, StashWrite, Completes
<1> QED BY <1>1, <1>3 DEF WriteSecond, Whole, RoleWrite

LEMMA SetInputEffect ==
  ASSUME CatapultInv, NEW s \in Slots, SetInput(s)
  PROVE  \/ driver[s].at = "input" /\ Halfway(s, "input", driver[s].from, "inputHigh")
         \/ driver[s].at \in {"input", "inputHigh"}
              /\ Whole(s, "input", driver[s].from, "ring")
<1>1. driver[s].from \in Full
  BY DEF CatapultInv, TypeOK
<1>2. CASE driver[s].at = "input" /\ WriteFirst(s, "input", driver[s].from, "inputHigh", "ring")
  BY <1>1, <1>2, FirstEffect
<1>3. CASE driver[s].at = "inputHigh" /\ WriteSecond(s, "input", driver[s].from, "ring")
  BY <1>1, <1>3, SecondEffect DEF CatapultInv, HeldHalf
<1> QED BY <1>2, <1>3 DEF SetInput

LEMMA RingEffect ==
  ASSUME CatapultInv, NEW s \in Slots, Ring(s)
  PROVE  \/ driver[s].at = "ring" /\ Halfway(s, "full", driver[s].blocks, "ringHigh")
         \/ driver[s].at \in {"ring", "ringHigh"}
              /\ Whole(s, "full", driver[s].blocks, "poll")
<1>1. driver[s].blocks \in Full
  BY Halves DEF CatapultInv, TypeOK
<1>2. CASE driver[s].at = "ring" /\ WriteFirst(s, "full", driver[s].blocks, "ringHigh", "poll")
  BY <1>1, <1>2, FirstEffect
<1>3. CASE driver[s].at = "ringHigh" /\ WriteSecond(s, "full", driver[s].blocks, "poll")
  BY <1>1, <1>3, SecondEffect DEF CatapultInv, HeldHalf
<1> QED BY <1>2, <1>3 DEF Ring

\* A driver that has read its doorbell as zero has been served: the number of
\* blocks fits the half that a narrow driver reads.
LEMMA PollEffect ==
  ASSUME CatapultInv, NEW s \in Slots, PollDone(s)
  PROVE  /\ driver[s].at = "poll" /\ full[s] = 0 /\ s \in served
         /\ driver' = [driver EXCEPT ![s] = [at |-> "idle", from |-> 0, blocks |-> 0]]
         /\ UNCHANGED <<active, narrow, stash, engineVars, served, passed>>
<1>1. /\ driver[s].at = "poll"
      /\ ReadValue(<<"full", s>>, IF s \in narrow THEN "low" ELSE "wide") = 0
      /\ driver' = [driver EXCEPT ![s] = [at |-> "idle", from |-> 0, blocks |-> 0]]
      /\ UNCHANGED <<active, narrow, stash, engineVars, served, passed>>
  BY DEF PollDone
<1>2. Low(full[s]) = 0 \/ full[s] = 0
  BY <1>1 DEF ReadValue
<1>3. full[s] = 0
  BY <1>2, Halves DEF CatapultInv, TypeOK, Written
<1> QED BY <1>1, <1>3 DEF CatapultInv, Written

-----------------------------------------------------------------------------
(* The invariant is preserved.                                              *)

LEMMA CatapultFacts ==
  ASSUME CatapultInv
  PROVE  /\ driver \in Drivers /\ full \in [Slots -> Full] /\ input \in [Slots -> Full]
         /\ slot \in Slots /\ passed \in [Slots -> SUBSET Slots] /\ served \subseteq Slots
         /\ EngineInv /\ Configured = Slots /\ Froms \subseteq Full \ {0}
BY DriverConstants DEF CatapultInv, TypeOK, EngineInv, EngineTypeOK, Drivers

\* The slot the engine reads for has its driver waiting.
LEMMA ReaderPolls ==
  ASSUME CatapultInv, pc \in {"read", "copied"}
  PROVE  slot \in Slots /\ full[slot] # 0 /\ driver[slot].at = "poll"
BY CatapultFacts DEF CatapultInv, Reading, Written

LEMMA BeginInv ==
  ASSUME CatapultInv, NEW s \in Slots, NEW a \in Froms, NEW n \in Half \ {0},
         Begin(s, a, n)
  PROVE  CatapultInv'
<1>1. /\ s \in active /\ driver[s].at = "idle"
      /\ driver' = [driver EXCEPT ![s] = [at |-> "input", from |-> a, blocks |-> n]]
      /\ served' = served \ {s}
      /\ UNCHANGED <<active, narrow, stash, passed, input, full, pc, slot, copy, ev>>
  BY DEF Begin, engineVars
<1>2. /\ driver \in Drivers /\ slot \in Slots /\ a \in Full /\ served \subseteq Slots
  BY CatapultFacts
<1>3. TypeOK'
  <2>1. driver' \in Drivers
    BY <1>1, <1>2 DEF Drivers, Steps
  <2> QED BY <1>1, <2>1 DEF CatapultInv, TypeOK, StashTypeOK, EngineTypeOK, Drivers
<1>4. NoneAsleep'
  BY <1>1 DEF CatapultInv, NoneAsleep, Pending
<1>5. AtWork'
  BY <1>1, <1>2 DEF CatapultInv, AtWork, Drivers
<1>6. HeldHalf'
  BY <1>1, <1>2 DEF CatapultInv, HeldHalf, Drivers
<1>7. Written'
  BY <1>1, <1>2 DEF CatapultInv, Written, Drivers
<1>8. Reading'
  <2>1. pc \in {"read", "copied"} => slot # s
    BY <1>1, ReaderPolls
  <2> QED BY <1>1, <2>1 DEF CatapultInv, Reading
<1>9. Ahead'
  BY <1>1 DEF CatapultInv, Ahead, Rung
<1> QED BY <1>3, <1>4, <1>5, <1>6, <1>7, <1>8, <1>9 DEF CatapultInv

\* The first half: the register is as it was.
LEMMA HalfwayInv ==
  ASSUME CatapultInv, NEW s \in Slots, NEW kind, NEW v \in Full, NEW high,
         Halfway(s, kind, v, high),
         \/ /\ kind = "input" /\ v = driver[s].from
            /\ driver[s].at = "input" /\ high = "inputHigh"
         \/ /\ kind = "full" /\ v = driver[s].blocks
            /\ driver[s].at = "ring" /\ high = "ringHigh"
  PROVE  CatapultInv'
<1>1. /\ s \in narrow
      /\ stash' = [reg |-> <<kind, s>>, data |-> Low(v)]
      /\ driver' = [driver EXCEPT ![s].at = high]
      /\ UNCHANGED <<active, narrow, served, passed, input, full, pc, slot, copy, ev>>
  BY DEF Halfway, engineVars
<1>2. driver \in Drivers /\ slot \in Slots
  BY CatapultFacts
<1>3. \A t \in Slots \ {s} : driver[t].at = "idle"
  BY <1>1 DEF CatapultInv, AtWork
<1>4. TypeOK'
  <2>1. driver' \in Drivers
    BY <1>1, <1>2 DEF Drivers, Steps
  <2>2. StashTypeOK'
    BY <1>1, Halves, DriverConstants DEF StashTypeOK
  <2> QED BY <1>1, <2>1, <2>2 DEF CatapultInv, TypeOK, EngineTypeOK, Drivers
<1>5. NoneAsleep'
  BY <1>1 DEF CatapultInv, NoneAsleep, Pending
<1>6. AtWork'
  BY <1>1, <1>2 DEF CatapultInv, AtWork, Drivers
<1>7. HeldHalf'
  BY <1>1, <1>2, <1>3 DEF HeldHalf, Drivers
<1>8. Written'
  BY <1>1, <1>2 DEF CatapultInv, Written, Drivers
<1>9. Reading'
  BY <1>1 DEF CatapultInv, Reading
<1>10. Ahead'
  BY <1>1 DEF CatapultInv, Ahead, Rung
<1> QED BY <1>4, <1>5, <1>6, <1>7, <1>8, <1>9, <1>10 DEF CatapultInv

LEMMA WholeFacts ==
  ASSUME CatapultInv, NEW s \in Slots, NEW kind, NEW v \in Full, NEW next \in Steps,
         next \notin {"idle", "inputHigh", "ringHigh"}, driver[s].at # "idle",
         Whole(s, kind, v, next)
  PROVE  TypeOK' /\ NoneAsleep' /\ AtWork' /\ HeldHalf'
<1>1. /\ stash' = NoStash
      /\ driver' = [driver EXCEPT ![s].at = next]
      /\ UNCHANGED <<active, narrow, served, passed>>
      /\ WriteInput(s, v) \/ WriteFull(s, v)
  BY DEF Whole
<1>2. driver \in Drivers /\ EngineInv
  BY CatapultFacts
<1>3. EngineInv'
  BY <1>1, <1>2, WritesKept, DriverConstants
<1>4. TypeOK'
  <2>1. driver' \in Drivers
    BY <1>1, <1>2 DEF Drivers
  <2>2. StashTypeOK'
    BY <1>1, Halves DEF StashTypeOK, NoStash
  <2> QED BY <1>1, <1>3, <2>1, <2>2 DEF CatapultInv, TypeOK, EngineInv, Drivers
<1>5. AtWork'
  BY <1>1, <1>2 DEF CatapultInv, AtWork, Drivers
<1>6. HeldHalf'
  <2>1. ASSUME NEW t \in Slots PROVE driver'[t].at \notin {"inputHigh", "ringHigh"}
    <3>1. CASE t = s
      BY <1>1, <1>2, <3>1 DEF Drivers
    <3>2. CASE t # s
      <4>1. driver'[t] = driver[t]
        BY <1>1, <1>2, <3>2 DEF Drivers
      <4>2. ASSUME driver[t].at \in {"inputHigh", "ringHigh"} PROVE FALSE
        BY <3>2, <4>2 DEF CatapultInv, AtWork
      <4> QED BY <4>1, <4>2
    <3> QED BY <3>1, <3>2
  <2> QED BY <1>1, <2>1 DEF HeldHalf
<1> QED BY <1>3, <1>4, <1>5, <1>6 DEF EngineInv

LEMMA InputInv ==
  ASSUME CatapultInv, NEW s \in Slots, driver[s].at \in {"input", "inputHigh"},
         Whole(s, "input", driver[s].from, "ring")
  PROVE  CatapultInv'
<1>1. /\ input' = [input EXCEPT ![s] = driver[s].from]
      /\ driver' = [driver EXCEPT ![s].at = "ring"]
      /\ UNCHANGED <<served, passed, full, pc, slot, copy, ev>>
  BY DEF Whole, WriteInput
<1>2. driver \in Drivers /\ input \in [Slots -> Full] /\ slot \in Slots
  BY CatapultFacts
<1>3. TypeOK' /\ NoneAsleep' /\ AtWork' /\ HeldHalf'
  BY <1>2, WholeFacts DEF Drivers, Steps
<1>4. Written'
  BY <1>1, <1>2 DEF CatapultInv, Written, Drivers
<1>5. Reading'
  <2>1. pc \in {"read", "copied"} => slot # s
    BY ReaderPolls
  <2> QED BY <1>1, <1>2, <2>1 DEF CatapultInv, Reading
<1>6. Ahead'
  BY <1>1 DEF CatapultInv, Ahead, Rung
<1> QED BY <1>3, <1>4, <1>5, <1>6 DEF CatapultInv

LEMMA RungInv ==
  ASSUME CatapultInv, NEW s \in Slots, driver[s].at \in {"ring", "ringHigh"},
         Whole(s, "full", driver[s].blocks, "poll")
  PROVE  CatapultInv'
<1>1. /\ full' = [full EXCEPT ![s] = driver[s].blocks]
      /\ driver' = [driver EXCEPT ![s].at = "poll"]
      /\ UNCHANGED <<served, passed, input, pc, slot, copy>>
  BY DEF Whole, WriteFull
<1>2. /\ driver \in Drivers /\ full \in [Slots -> Full] /\ slot \in Slots
      /\ passed \in [Slots -> SUBSET Slots]
  BY CatapultFacts
<1>3. driver[s].blocks # 0 /\ full[s] = 0 /\ passed[s] = {}
  BY DEF CatapultInv, AtWork, Written, Ahead
<1>4. TypeOK' /\ NoneAsleep' /\ AtWork' /\ HeldHalf'
  BY <1>2, Halves, WholeFacts DEF Drivers, Steps
<1>5. Written'
  BY <1>1, <1>2, <1>3 DEF CatapultInv, Written, Drivers
<1>6. pc \in {"read", "copied"} => slot # s
  BY ReaderPolls
<1>7. Reading'
  BY <1>1, <1>2, <1>6 DEF CatapultInv, Reading
<1>8. Ahead'
  <2>1. Rung' = Rung \cup {s}
    BY <1>1, <1>2, <1>3 DEF Rung
  <2> QED BY <1>1, <1>2, <1>3, <1>6, <2>1 DEF CatapultInv, Ahead
<1> QED BY <1>4, <1>5, <1>7, <1>8 DEF CatapultInv

LEMMA PollInv ==
  ASSUME CatapultInv, NEW s \in Slots, PollDone(s)
  PROVE  CatapultInv'
<1>1. /\ driver[s].at = "poll" /\ full[s] = 0
      /\ driver' = [driver EXCEPT ![s] = [at |-> "idle", from |-> 0, blocks |-> 0]]
      /\ UNCHANGED <<active, narrow, stash, served, passed>>
      /\ UNCHANGED <<input, full, pc, slot, copy, ev>>
  BY PollEffect DEF engineVars
<1>2. driver \in Drivers /\ slot \in Slots
  BY CatapultFacts
<1>3. TypeOK'
  <2>1. driver' \in Drivers
    BY <1>1, <1>2, Halves DEF Drivers, Steps
  <2> QED BY <1>1, <2>1 DEF CatapultInv, TypeOK, StashTypeOK, EngineTypeOK, Drivers
<1>4. NoneAsleep' /\ Reading' /\ Ahead'
  BY <1>1 DEF CatapultInv, NoneAsleep, Pending, Reading, Ahead, Rung
<1>5. AtWork'
  BY <1>1, <1>2 DEF CatapultInv, AtWork, Drivers
<1>6. HeldHalf'
  BY <1>1, <1>2 DEF CatapultInv, HeldHalf, Drivers
<1>7. Written'
  BY <1>1, <1>2 DEF CatapultInv, Written, Drivers
<1> QED BY <1>3, <1>4, <1>5, <1>6, <1>7 DEF CatapultInv

-----------------------------------------------------------------------------
(* The engine's steps                                                       *)

LEMMA EngineFrame ==
  ASSUME CatapultInv, EngineStep
  PROVE  /\ UNCHANGED <<active, narrow, stash, driver>>
         /\ EngineInv'
         /\ AtWork' /\ HeldHalf'
<1>1. Engine /\ UNCHANGED <<active, narrow, stash, driver>>
  BY DEF EngineStep
<1>2. EngineInv'
  BY <1>1, CatapultFacts, EngineKept
<1>3. AtWork' /\ HeldHalf'
  BY <1>1 DEF CatapultInv, AtWork, HeldHalf
<1> QED BY <1>1, <1>2, <1>3

\* The nearest slot that is rung is taken, and it is ready to be read.
LEMMA TakeInv ==
  ASSUME CatapultInv, Scan, TakeSlot,
         UNCHANGED <<driver, served, passed>>
  PROVE  Written' /\ Reading' /\ Ahead'
<1> DEFINE n == Nearest(Pending \cap Configured)
<1>1. /\ driver \in Drivers /\ full \in [Slots -> Full] /\ slot \in Slots
      /\ passed \in [Slots -> SUBSET Slots] /\ Configured = Slots
      /\ Froms \subseteq Full \ {0}
  BY CatapultFacts
<1>2. Pending \cap Configured = Rung /\ Rung \subseteq Slots /\ Rung # {}
  BY <1>1 DEF Pending, Rung, TakeSlot
<1>3. n \in Rung
  BY <1>1, <1>2, NearestFirst
<1>4. \A t \in Rung : DistFrom(slot, n) <= DistFrom(slot, t)
  BY <1>1, <1>2, NearestFirst DEF DistFrom, Dist
<1>5. /\ pc = "ready" /\ slot' = n /\ input' = input
      /\ copy' = [from |-> input[n], blocks |-> full[n]]
      /\ pc' = IF input[n] = 0 THEN "aborted" ELSE "read"
  BY DEF TakeSlot, Scan
<1>6. full' = full
  <2>1. full' = [t \in Slots |-> full[t]]
    BY <1>1 DEF TakeSlot
  <2> QED BY <1>1, <2>1
<1> HIDE DEF n
<1>7. n \in Slots /\ full[n] # 0 /\ driver[n].at = "poll"
  BY <1>3 DEF Rung, CatapultInv, Written
<1>8. input[n] # 0
  <2>1. driver[n].from \in Froms /\ input[n] = driver[n].from
    BY <1>7 DEF CatapultInv, Written, AtWork
  <2> QED BY <1>1, <2>1
<1>9. Written'
  BY <1>5, <1>6 DEF CatapultInv, Written
<1>10. Reading'
  BY <1>5, <1>6, <1>7, <1>8 DEF Reading
<1>11. Ahead'
  <2>1. Rung' = Rung
    BY <1>6 DEF Rung
  <2>2. \A s \in Slots : full'[s] = 0 => passed'[s] = {}
    BY <1>6 DEF CatapultInv, Ahead
  <2>3. ASSUME NEW s \in Rung \ {n}
        PROVE  /\ n \notin passed[s]
               /\ \A t \in passed[s] : DistFrom(n, s) < DistFrom(n, t)
    <3>1. s \in Slots /\ passed[s] \subseteq Slots
      BY <1>1, <1>2
    <3>2. \A t \in passed[s] : DistFrom(slot, s) < DistFrom(slot, t)
      BY <1>5 DEF CatapultInv, Ahead
    <3>3. /\ DistFrom(slot, n) \in Int /\ DistFrom(slot, s) \in Int
          /\ \A t \in passed[s] : DistFrom(slot, t) \in Int
      BY <1>1, <1>7, <3>1, DistRange
    <3>4. DistFrom(slot, n) < DistFrom(slot, s)
      <4>1. DistFrom(slot, n) # DistFrom(slot, s)
        BY <1>1, <1>7, <3>1, DistOrder
      <4>2. DistFrom(slot, n) <= DistFrom(slot, s)
        BY <1>4
      <4> QED BY <3>3, <4>1, <4>2
    <3>5. n \notin passed[s]
      <4>1. ~(DistFrom(slot, s) < DistFrom(slot, n))
        BY <3>3, <3>4
      <4> QED BY <3>2, <4>1
    <3>6. ASSUME NEW t \in passed[s] PROVE DistFrom(n, s) < DistFrom(n, t)
      <4>1. DistFrom(slot, n) < DistFrom(slot, t)
        BY <3>2, <3>3, <3>4
      <4>2. DistFrom(n, s) = DistFrom(slot, s) - DistFrom(slot, n) - 1
        BY <1>1, <1>7, <3>1, <3>4, DistMoves
      <4>3. DistFrom(n, t) = DistFrom(slot, t) - DistFrom(slot, n) - 1
        BY <1>1, <1>7, <3>1, <4>1, DistMoves
      <4>4. DistFrom(slot, s) < DistFrom(slot, t)
        BY <3>2
      <4> QED BY <3>3, <4>2, <4>3, <4>4
    <3> QED BY <3>5, <3>6
  <2>4. pc' = "read"
    BY <1>5, <1>8
  <2> QED BY <1>5, <2>1, <2>2, <2>3, <2>4 DEF Ahead
<1> QED BY <1>9, <1>10, <1>11

LEMMA SleepInv ==
  ASSUME CatapultInv, Scan, Sleep, UNCHANGED <<driver, served, passed>>
  PROVE  Written' /\ Reading' /\ Ahead'
<1>1. full \in [Slots -> Full] /\ Configured = Slots
  BY CatapultFacts
<1>2. Pending = {}
  BY <1>1 DEF Sleep, Pending
<1>3. full' = full
  BY <1>1, <1>2 DEF Sleep, Pending
<1>4. slot' = slot /\ pc = "ready" /\ pc' = "sleep" /\ input' = input
  BY <1>2 DEF Sleep, Scan
<1> QED BY <1>3, <1>4 DEF CatapultInv, Written, Reading, Ahead, Rung

\* The read ends: the slots that are rung have been passed by once more.
LEMMA ReadDoneInv ==
  ASSUME CatapultInv, ReadDone, UNCHANGED driver,
         served' = served \cup {slot},
         passed' = [s \in Slots |->
           IF s \in Rung \ {slot} THEN passed[s] \cup {slot} ELSE {}]
  PROVE  Written' /\ Reading' /\ Ahead'
<1>1. /\ pc = "read" /\ pc' = "copied"
      /\ UNCHANGED <<input, full, slot, copy>>
  BY DEF ReadDone
<1>2. /\ slot \in Slots /\ Rung \subseteq Slots /\ Rung' = Rung
      /\ passed \in [Slots -> SUBSET Slots]
  BY <1>1, CatapultFacts DEF Rung
<1>3. Written' /\ Reading'
  BY <1>1 DEF CatapultInv, Written, Reading
<1>4. \A s \in Slots : full'[s] = 0 => passed'[s] = {}
  BY <1>1, <1>2 DEF Rung
<1>5. passed'[slot] = {}
  BY <1>2
<1>6. ASSUME NEW s \in Rung, NEW t \in passed'[s]
      PROVE  DistFrom(slot, s) < DistFrom(slot, t)
  <2>1. s \in Slots /\ s # slot /\ passed'[s] = passed[s] \cup {slot}
    BY <1>2
  <2>2. CASE t = slot
    BY <1>2, <2>1, <2>2, DistOrder
  <2>3. CASE t \in passed[s]
    BY <2>1, <2>3 DEF CatapultInv, Ahead
  <2> QED BY <2>1, <2>2, <2>3
<1>7. Ahead'
  BY <1>1, <1>2, <1>4, <1>5, <1>6 DEF Ahead
<1> QED BY <1>3, <1>7

LEMMA ClearInv ==
  ASSUME CatapultInv, Clear, UNCHANGED <<driver, served, passed>>
  PROVE  Written' /\ Reading' /\ Ahead'
<1>1. /\ pc = "copied" /\ pc' = "ready"
      /\ full' = [full EXCEPT ![slot] = 0]
      /\ UNCHANGED <<input, slot>>
  BY DEF Clear
<1>2. full \in [Slots -> Full] /\ slot \in Slots
  BY CatapultFacts
<1>3. slot \in served /\ passed[slot] = {}
  BY <1>1 DEF CatapultInv, Reading, Ahead
<1>4. Rung' = Rung \ {slot}
  BY <1>1, <1>2 DEF Rung
<1>5. Written'
  BY <1>1, <1>2, <1>3 DEF CatapultInv, Written
<1>6. Reading' /\ Ahead'
  BY <1>1, <1>2, <1>3, <1>4 DEF CatapultInv, Reading, Ahead
<1> QED BY <1>5, <1>6

LEMMA NotifiedInv ==
  ASSUME CatapultInv, Notified, UNCHANGED <<driver, served, passed>>
  PROVE  Written' /\ Reading' /\ Ahead'
<1>1. /\ UNCHANGED <<input, full, slot, copy>>
      /\ pc' = pc \/ (pc = "sleep" /\ pc' = "ready")
  BY DEF Notified
<1> QED BY <1>1 DEF CatapultInv, Written, Reading, Ahead, Rung

LEMMA EngineStepInv == CatapultInv /\ EngineStep => CatapultInv'
<1> SUFFICES ASSUME CatapultInv, EngineStep PROVE CatapultInv'
  OBVIOUS
<1>1. /\ UNCHANGED <<active, narrow, stash, driver>>
      /\ EngineInv' /\ AtWork' /\ HeldHalf'
  BY EngineFrame
<1>2. /\ slot \in Slots /\ passed \in [Slots -> SUBSET Slots] /\ served \subseteq Slots
  BY CatapultFacts
<1>3. served' \subseteq Slots /\ passed' \in [Slots -> SUBSET Slots]
  BY <1>2 DEF EngineStep
<1>4. TypeOK' /\ NoneAsleep'
  BY <1>1, <1>3 DEF CatapultInv, TypeOK, StashTypeOK, EngineInv
<1>5. Written' /\ Reading' /\ Ahead'
  <2>1. CASE ReadDone
    BY <1>1, <2>1, ReadDoneInv DEF EngineStep
  <2>2. ASSUME ~ReadDone PROVE Written' /\ Reading' /\ Ahead'
    <3>1. UNCHANGED <<driver, served, passed>> /\ (Scan \/ Clear \/ Notified)
      BY <1>1, <2>2 DEF EngineStep, Engine
    <3>2. CASE Scan
      BY <3>1, <3>2, TakeInv, SleepInv DEF Scan
    <3> QED BY <3>1, <3>2, ClearInv, NotifiedInv
  <2> QED BY <2>1, <2>2
<1> QED BY <1>1, <1>4, <1>5 DEF CatapultInv

LEMMA DriveInv ==
  ASSUME CatapultInv, NEW s \in Slots, Drive(s)
  PROVE  CatapultInv'
<1>1. driver[s].from \in Full /\ driver[s].blocks \in Full
  BY Halves DEF CatapultInv, TypeOK
<1>2. CASE SetInput(s)
  BY <1>1, <1>2, SetInputEffect, HalfwayInv, InputInv
<1>3. CASE Ring(s)
  BY <1>1, <1>3, RingEffect, HalfwayInv, RungInv
<1> QED BY <1>2, <1>3, PollInv DEF Drive

LEMMA NextCatapult == CatapultInv /\ [Next]_vars => CatapultInv'
<1> SUFFICES ASSUME CatapultInv, [Next]_vars PROVE CatapultInv'
  OBVIOUS
<1>1. CASE UNCHANGED vars
  BY <1>1 DEF vars, engineVars, CatapultInv, TypeOK, StashTypeOK, EngineTypeOK,
     NoneAsleep, Pending, AtWork, HeldHalf, Written, Reading, Ahead, Rung
<1> QED BY <1>1, BeginInv, DriveInv, EngineStepInv DEF Next

LEMMA CatapultInvariant == Spec => []CatapultInv
BY InitCatapult, NextCatapult, PTL DEF Spec

-----------------------------------------------------------------------------
(* What follows for the drivers                                             *)

\* The device with its drivers implements the engine with a host that does
\* anything: each access of a driver is a write of that host or stays in the
\* adapter.
THEOREM CatapultImplementsSlots == Spec => Any!Spec
<1>1. Init => Any!Init
  BY SameEngine DEF Init
<1>2. CatapultInv /\ [Next]_vars => [Any!Next]_(Any!engineVars)
  <2> SUFFICES ASSUME CatapultInv, [Next]_vars
               PROVE  Any!Next \/ UNCHANGED engineVars
    BY DEF engineVars, Any!engineVars
  <2>1. CASE EngineStep
    BY <2>1, SameEngine DEF EngineStep, Any!Next
  <2>2. ASSUME NEW s \in Slots, Drive(s) PROVE Any!Next \/ UNCHANGED engineVars
    <3>1. /\ pc # "aborted" /\ Word = Full
          /\ driver[s].from \in Full /\ driver[s].blocks \in Full
      BY DriverConstants, Halves DEF CatapultInv, Reading, TypeOK
    <3>2. ASSUME NEW v \in Full, WriteInput(s, v) \/ WriteFull(s, v) PROVE Any!Next
      BY <3>1, <3>2, SameWrites DEF Any!Next
    <3>3. CASE SetInput(s)
      BY <3>1, <3>2, <3>3, SetInputEffect DEF Halfway, Whole
    <3>4. CASE Ring(s)
      BY <3>1, <3>2, <3>4, RingEffect DEF Halfway, Whole
    <3>5. CASE PollDone(s)
      BY <3>5 DEF PollDone
    <3> QED BY <2>2, <3>3, <3>4, <3>5 DEF Drive
  <2>3. ASSUME NEW s \in Slots, NEW a \in Froms, NEW n \in Half \ {0}, Begin(s, a, n)
        PROVE  UNCHANGED engineVars
    BY <2>3 DEF Begin
  <2>4. CASE UNCHANGED vars
    BY <2>4 DEF vars
  <2> QED BY <2>1, <2>2, <2>3, <2>4 DEF Next
<1> QED BY <1>1, <1>2, CatapultInvariant, PTL DEF Spec, Any!Spec

\* The engine sleeps on no driver's doorbell.
THEOREM CatapultNoneAsleep == Spec => []NoneAsleep
BY CatapultImplementsSlots, SlotsNoneAsleep, PTL

\* The engine reads the address and the number of blocks that the slot's driver
\* has written, as one value or in halves, and its assertion on the address
\* holds, for any number of slots and registers of any width.
THEOREM CatapultReadsAsAsked == Spec => []ReadsAsAsked
<1>1. CatapultInv => ReadsAsAsked
  BY ReaderPolls DEF CatapultInv, Reading, Written, ReadsAsAsked
<1> QED BY <1>1, CatapultInvariant, PTL

\* A doorbell that reads as zero is that of a slot that has been served.
THEOREM CatapultDoneMeansServed == Spec => DoneMeansServed
<1>1. CatapultInv /\ [Next]_vars => [\A s \in Slots : PollDone(s) => s \in served]_vars
  BY PollEffect
<1> QED BY <1>1, CatapultInvariant, PTL DEF Spec, DoneMeansServed

\* The engine goes round: between the ring of a slot and the read for it no
\* other slot is read for twice, for any number of slots.
THEOREM CatapultInTurn == Spec => InTurn
<1>1. CatapultInv /\ [Next]_vars
        => [ReadDone => \A s \in Rung \ {slot} : slot \notin passed[s]]_vars
  BY DEF ReadDone, CatapultInv, Ahead
<1> QED BY <1>1, CatapultInvariant, PTL DEF Spec, InTurn

=============================================================================
