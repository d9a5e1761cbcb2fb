----------------------------- MODULE SlotsEngine -----------------------------
(***************************************************************************)
(* The slots DMA engine of a Catapult role (src/catapult/slots_dma.h,      *)
(* src/catapult/slots_dma.cc): the DMA registers of its slots, and one     *)
(* thread, dma_thread, that looks for a slot whose "full" doorbell is set  *)
(* and copies the slot's data from the host.                               *)
(*                                                                         *)
(* The thread blocks in its wait() for a doorbell, in the read from the    *)
(* host and in two wait(SC_ZERO_TIME); an action is what runs between.     *)
(* dma_write_to_host has an empty body.  Of the registers, those that the  *)
(* engine reads are here: the input addresses and the full doorbells.      *)
(***************************************************************************)
EXTENDS Integers

CONSTANTS
  SlotCount,    \* _slot_count
  Configured,   \* the slots with a buffer in _slot_config
  Word          \* the values of a register

Slots == 0 .. SlotCount - 1

ASSUME SlotConstants ==
  /\ SlotCount \in Nat \ {0}
  /\ Configured \subseteq Slots
  /\ 0 \in Word

VARIABLES
  input,      \* the input address registers
  full,       \* the full doorbells
  pc,         \* where dma_thread is
  slot,       \* its slot_number
  copy,       \* the read it is in: from and blocks
  ev          \* whether _dma_doorbell_write has a notification pending

engineVars == <<input, full, pc, slot, copy, ev>>

NoCopy == [from |-> 0, blocks |-> 0]

EngineTypeOK ==
  /\ input \in [Slots -> Word]
  /\ full \in [Slots -> Word]
  /\ pc \in {"ready", "read", "copied", "sleep", "aborted"}
  /\ slot \in Slots
  /\ copy \in [from : Word, blocks : Word]
  /\ ev \in BOOLEAN

EngineInit ==
  /\ input = [s \in Slots |-> 0]
  /\ full = [s \in Slots |-> 0]
  /\ pc = "ready"
  /\ slot = SlotCount - 1
  /\ copy = NoCopy
  /\ ev = FALSE

-----------------------------------------------------------------------------
(* dma_thread                                                               *)

Pending == {s \in Slots : full[s] # 0}

\* Mutant: every scan begins with slot 0.
DistFromZero(s) == s

\* How many slots find_next_full_doorbell tests before s
Dist(s) == (s - slot - 1) % SlotCount

Nearest(S) == CHOOSE s \in S : \A t \in S : Dist(s) <= Dist(t)
Farthest(S) == CHOOSE s \in S : \A t \in S : Dist(t) <= Dist(s)

\* Mutants: the address is that of the slot before; the doorbell is cleared
\* before the copy.
TakeSlotStale ==
  LET s == Nearest(Pending \cap Configured)
  IN /\ Pending \cap Configured # {}
     /\ slot' = s
     /\ full' = full
     /\ copy' = [from |-> input[slot], blocks |-> full[s]]
     /\ pc' = IF input[slot] = 0 THEN "aborted" ELSE "read"
TakeSlotClears ==
  LET s == Nearest(Pending \cap Configured)
  IN /\ Pending \cap Configured # {}
     /\ slot' = s
     /\ full' = [full EXCEPT ![s] = 0]
     /\ copy' = [from |-> input[s], blocks |-> full[s]]
     /\ pc' = IF input[s] = 0 THEN "aborted" ELSE "read"

\* A slot with a buffer is found.  The doorbells on the way to it, of slots
\* without one, have been cleared.
TakeSlot ==
  LET s == Nearest(Pending \cap Configured)
  IN /\ Pending \cap Configured # {}
     /\ slot' = s
     /\ full' = [t \in Slots |-> IF t \notin Configured /\ Dist(t) < Dist(s)
                                 THEN 0 ELSE full[t]]
     /\ copy' = [from |-> input[s], blocks |-> full[s]]
     /\ pc' = IF input[s] = 0 THEN "aborted" ELSE "read"

\* There is none: all doorbells are cleared, and the thread waits.
Sleep ==
  /\ Pending \cap Configured = {}
  /\ slot' = IF Pending = {} THEN slot ELSE Farthest(Pending)
  /\ full' = [t \in Slots |-> 0]
  /\ pc' = "sleep"
  /\ UNCHANGED copy

Scan ==
  /\ pc = "ready"
  /\ TakeSlot \/ Sleep
  /\ UNCHANGED <<input, ev>>

\* The read from the host returns, with the data or with an error, as nobody
\* looks at the response; and wait(SC_ZERO_TIME) is entered.
ReadDone ==
  /\ pc = "read"
  /\ pc' = "copied"
  /\ UNCHANGED <<input, full, slot, copy, ev>>

\* The doorbell is cleared, whatever it holds by now.
Clear ==
  /\ pc = "copied"
  /\ full' = [full EXCEPT ![slot] = 0]
  /\ copy' = NoCopy
  /\ pc' = "ready"
  /\ UNCHANGED <<input, slot, ev>>

\* The notification comes due: lost unless the thread is in its wait().
Notified ==
  /\ ev /\ pc # "aborted"
  /\ ev' = FALSE
  /\ pc' = IF pc = "sleep" THEN "ready" ELSE pc
  /\ UNCHANGED <<input, full, slot, copy>>

Engine == Scan \/ ReadDone \/ Clear \/ Notified

-----------------------------------------------------------------------------
(* Writes to the registers                                                  *)

WriteInput(s, a) ==
  /\ input' = [input EXCEPT ![s] = a]
  /\ UNCHANGED <<full, pc, slot, copy, ev>>

\* Mutant: no notification
WriteFullQuiet(s, n) ==
  /\ full' = [full EXCEPT ![s] = n]
  /\ UNCHANGED <<input, pc, slot, copy, ev>>

\* write_doorbell_register, for a full doorbell
WriteFull(s, n) ==
  /\ full' = [full EXCEPT ![s] = n]
  /\ ev' = (ev \/ n # 0)
  /\ UNCHANGED <<input, pc, slot, copy>>

\* and for a done doorbell, whose value nobody reads
WriteDone(n) ==
  /\ ev' = (ev \/ n # 0)
  /\ UNCHANGED <<input, full, pc, slot, copy>>

\* reset: every register has its initial value again.
Reset ==
  /\ input' = [s \in Slots |-> 0]
  /\ full' = [s \in Slots |-> 0]
  /\ UNCHANGED <<pc, slot, copy, ev>>

\* The engine does not sleep on a doorbell: when a slot's doorbell is set and
\* the thread is in its wait(), a notification is on its way, although one
\* that comes due while the thread is elsewhere is lost.
NoneAsleep == pc = "sleep" /\ Pending # {} => ev

=============================================================================
