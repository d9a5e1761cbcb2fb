------------------------------ MODULE MCCatapult ------------------------------
(* Catapult with a few slots and small registers                            *)
EXTENDS Catapult

SlotRegs == {"input", "full"} \X Slots
AllSlots == Slots
AllWords == Full
=============================================================================
