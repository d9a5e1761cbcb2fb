------------------------------- MODULE SlotsAny -------------------------------
(***************************************************************************)
(* The slots engine with a host that writes any DMA register at any time,  *)
(* and resets it.                                                          *)
(***************************************************************************)
EXTENDS SlotsEngine

Init == EngineInit

\* A failed assertion ends the simulation.
Host ==
  /\ pc # "aborted"
  /\ \/ \E s \in Slots, w \in Word : WriteInput(s, w) \/ WriteFull(s, w)
     \/ \E w \in Word : WriteDone(w)
     \/ Reset

Next == Engine \/ Host

Spec == Init /\ [][Next]_engineVars

=============================================================================
