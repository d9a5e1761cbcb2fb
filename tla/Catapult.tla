------------------------------- MODULE Catapult -------------------------------
(***************************************************************************)
(* Slots DMA of a Catapult device, from a host's register accesses to the  *)
(* engine's read of the host's memory: CatapultDevice::b_transport (src/   *)
(* catapult/catapult_device.cc) routes an access by its address to the     *)
(* shell registers or through the width adapter to the role, and           *)
(* HelloWorldRole (src/catapult/hello_world.cc) to the slots engine.       *)
(*                                                                         *)
(* A driver owns a slot.  It writes the slot's input address, rings the    *)
(* full doorbell with the number of blocks, and reads the doorbell until   *)
(* it is zero.  A narrow driver does so with 32-bit accesses.  Which       *)
(* drivers are at work, and which of them are narrow, is chosen at the     *)
(* start; a narrow driver is alone, since a write of another driver        *)
(* between its halves makes the adapter drop them.                         *)
(***************************************************************************)
EXTENDS WidthAdapter, SlotsEngine, FiniteSets

CONSTANTS
  Froms         \* the addresses they copy from

ASSUME DriverConstants ==
  /\ Froms \subseteq Full \ {0}
  /\ Word = Full
  /\ Regs = {"input", "full"} \X Slots
  /\ Configured = Slots

VARIABLES
  active,       \* the slots whose drivers are at work
  narrow,       \* those with 32-bit accesses
  driver,       \* each slot's driver: what it does next, from where and how
                \* many blocks it has copied
  served,       \* the slots whose job the engine's read from the host is back
  passed        \* for each slot that is rung, the slots read since

vars == <<active, narrow, stash, engineVars, driver, served, passed>>

Steps == {"idle", "input", "inputHigh", "ring", "ringHigh", "poll"}

TypeOK ==
  /\ narrow \subseteq active /\ active \subseteq Slots
  /\ StashTypeOK
  /\ EngineTypeOK
  /\ driver \in [Slots -> [at : Steps, from : Full, blocks : Half]]
  /\ served \subseteq Slots
  /\ passed \in [Slots -> SUBSET Slots]

Init ==
  /\ active \in {Slots} \cup {{s} : s \in Slots}
  /\ narrow \in {{}} \cup {n \in {active} : Cardinality(n) = 1}
  /\ stash = NoStash
  /\ EngineInit
  /\ driver = [s \in Slots |-> [at |-> "idle", from |-> 0, blocks |-> 0]]
  /\ served = {}
  /\ passed = [s \in Slots |-> {}]

-----------------------------------------------------------------------------
(* The device's registers                                                   *)

\* The role's write_soft_register: a DMA register of the engine
RoleWrite(r, v) ==
  \/ r[1] = "input" /\ WriteInput(r[2], v)
  \/ r[1] = "full" /\ WriteFull(r[2], v)

\* b_transport of a write to a role register
Access(r, part, v) ==
  /\ StashWrite(r, part, v)
  /\ IF Completes(r, part) THEN RoleWrite(r, Composed(part, v))
     ELSE UNCHANGED engineVars

\* b_transport of a read of a role register: a 32-bit access to the low half,
\* or a 64-bit one
ReadValue(r, part) ==
  LET v == IF r[1] = "input" THEN input[r[2]] ELSE full[r[2]]
  IN IF part = "low" THEN Low(v) ELSE v

-----------------------------------------------------------------------------
(* The drivers                                                              *)

Begin(s, a, n) ==
  /\ s \in active /\ driver[s].at = "idle"
  /\ driver' = [driver EXCEPT ![s] = [at |-> "input", from |-> a, blocks |-> n]]
  /\ served' = served \ {s}
  /\ UNCHANGED <<active, narrow, stash, engineVars, passed>>

\* Driver s writes v to its register of a kind, in one access or in two, and
\* goes on from the first to high and from the last to next.
WriteFirst(s, kind, v, high, next) ==
  LET part == IF s \in narrow THEN "low" ELSE "wide"
  IN /\ Access(<<kind, s>>, part, IF s \in narrow THEN Low(v) ELSE v)
     /\ driver' = [driver EXCEPT ![s].at = IF s \in narrow THEN high ELSE next]
     /\ UNCHANGED <<active, narrow, served, passed>>

WriteSecond(s, kind, v, next) ==
  /\ Access(<<kind, s>>, "high", High(v))
  /\ driver' = [driver EXCEPT ![s].at = next]
  /\ UNCHANGED <<active, narrow, served, passed>>

SetInput(s) ==
  \/ /\ driver[s].at = "input"
     /\ WriteFirst(s, "input", driver[s].from, "inputHigh", "ring")
  \/ /\ driver[s].at = "inputHigh"
     /\ WriteSecond(s, "input", driver[s].from, "ring")

Ring(s) ==
  \/ /\ driver[s].at = "ring"
     /\ WriteFirst(s, "full", driver[s].blocks, "ringHigh", "poll")
  \/ /\ driver[s].at = "ringHigh"
     /\ WriteSecond(s, "full", driver[s].blocks, "poll")

\* The driver reads its doorbell as zero.
PollDone(s) ==
  /\ driver[s].at = "poll"
  /\ ReadValue(<<"full", s>>, IF s \in narrow THEN "low" ELSE "wide") = 0
  /\ driver' = [driver EXCEPT ![s] = [at |-> "idle", from |-> 0, blocks |-> 0]]
  /\ UNCHANGED <<active, narrow, stash, engineVars, served, passed>>

Drive(s) == SetInput(s) \/ Ring(s) \/ PollDone(s)

-----------------------------------------------------------------------------
(* The engine, and what is recorded of its reads                            *)

Rung == {s \in Slots : full[s] # 0}

\* The engine reads for slot t: the slots that are rung have been passed by.
EngineStep ==
  /\ Engine
  /\ UNCHANGED <<active, narrow, stash, driver>>
  /\ IF ReadDone
     THEN /\ served' = served \cup {slot}
          /\ passed' = [s \in Slots |->
               IF s \in Rung \ {slot} THEN passed[s] \cup {slot} ELSE {}]
     ELSE UNCHANGED <<served, passed>>

Next ==
  \/ EngineStep
  \/ \E s \in Slots :
       \/ \E a \in Froms, n \in Half \ {0} : Begin(s, a, n)
       \/ Drive(s)

Spec == Init /\ [][Next]_vars

\* The thread is scheduled, the host's memory answers, and a driver that has
\* begun a job goes on with it.
FairSpec == Spec /\ WF_vars(EngineStep) /\ \A s \in Slots : WF_vars(Drive(s))

-----------------------------------------------------------------------------
(* Properties                                                               *)

\* The engine reads what the slot's driver asked for: its whole address and
\* its number of blocks, never a half of one and of another; and
\* assert(input_address != 0) holds, whatever the order in which the drivers
\* set up their slots.
ReadsAsAsked ==
  /\ pc # "aborted"
  /\ pc \in {"read", "copied"} =>
       /\ driver[slot].at = "poll"
       /\ copy = [from |-> driver[slot].from, blocks |-> driver[slot].blocks]

\* A driver that has seen its doorbell cleared has been served: the read of its
\* buffer has come back, with the data or with an error.
DoneMeansServed ==
  [][\A s \in Slots : PollDone(s) => s \in served]_vars

\* While a slot's doorbell is set, no other slot is read for twice.
InTurn ==
  [][ReadDone => \A s \in Rung \ {slot} : slot \notin passed[s]]_vars

\* Every job ends.
JobEnds == \A s \in Slots : driver[s].at = "ring" ~> driver[s].at = "idle"

=============================================================================
