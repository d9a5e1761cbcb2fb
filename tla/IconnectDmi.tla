------------------------------ MODULE IconnectDmi ------------------------------
(***************************************************************************)
(* Direct memory access through the interconnect (src/iconnect.h): an      *)
(* initiator asks for a pointer, the target answers with the range that it *)
(* grants, in offsets of its own, and the interconnect gives the           *)
(* initiator the addresses.  A target that takes a range back tells it to  *)
(* every initiator.                                                        *)
(***************************************************************************)
EXTENDS Iconnect

VARIABLES
  granted,  \* the ranges that each initiator holds a pointer to
  invalid   \* what unmap_offset has reported as an invalid range, if it has,
            \* and aborted: "no", "grant" or "refusal"

dmiVars == <<vars, granted, invalid>>

DmiInit == Init /\ granted = [i \in Initiators |-> {}] /\ invalid = "no"

\* The ranges of its own that a target grants: its first word, or all
Ranges(t) == {[start |-> 0, end |-> e] : e \in {0, machine.words[t + 1] - 1}}

\* unmap_offset
Refuses(t, o) == map[t].mode = "relative" /\ o >= map[t].size
Unmapped(t, o) == IF map[t].mode = "relative" THEN map[t].addr + o ELSE o

\* The range of a refusal is tlm_dmi's own, all addresses.
Everything == [start |-> 0, end |-> AddrMod - 1]

\* get_direct_mem_ptr: the range of a refusal is mapped back like another.
GetDirectMemPtr(i, a) ==
  /\ Built
  /\ invalid = "no"
  /\ \E r \in Routes(i, a), ok \in BOOLEAN :
       \E g \in IF ok THEN Ranges(r[1]) ELSE {Everything} :
         IF Refuses(r[1], g.start) \/ Refuses(r[1], g.end)
         THEN invalid' = (IF ok THEN "grant" ELSE "refusal") /\ UNCHANGED granted
         ELSE /\ granted' = [granted EXCEPT ![i] = @ \cup
                   (IF ok THEN {[start |-> Unmapped(r[1], g.start),
                                 end |-> Unmapped(r[1], g.end)]} ELSE {})]
              /\ UNCHANGED invalid
  /\ UNCHANGED vars

\* What the interconnect subtracts: the offset of the initiator that has the
\* target's number, or what lies behind the array
Reversed(t) == IF t \in Initiators THEN {targetOffset[t]} ELSE Garbage

\* invalidate_direct_mem_ptr: each initiator drops what overlaps.
InvalidateDirectMemPtr(t) ==
  /\ Built
  /\ invalid = "no"
  /\ \E g \in Ranges(t), off \in Reversed(t) :
       IF Refuses(t, g.start) \/ Refuses(t, g.end)
       THEN invalid' = "grant" /\ UNCHANGED granted
       ELSE /\ granted' = [i \in Initiators |->
                 {h \in granted[i] : \/ h.end < Unmapped(t, g.start) - off
                                     \/ h.start > Unmapped(t, g.end) - off}]
            /\ UNCHANGED invalid
  /\ UNCHANGED vars

DmiNext ==
  \/ invalid = "no" /\ MemMap /\ UNCHANGED <<granted, invalid>>
  \/ \E i \in machine.active, b \in machine.asked : GetDirectMemPtr(i, Asks(i, b))
  \/ \E t \in Targets : InvalidateDirectMemPtr(t)

DmiSpec == DmiInit /\ [][DmiNext]_dmiVars

\* The range that a target grants lies within what is mapped of it, or
\* unmap_offset reports "Invalid range in iconnect" and aborts.
RangesValid == invalid # "grant"

=============================================================================
