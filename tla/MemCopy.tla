------------------------------- MODULE MemCopy -------------------------------
(***************************************************************************)
(* What a DMA controller promises, whatever its bursts: it takes one copy  *)
(* job at a time, and copies its bytes, in any order and any grouping,     *)
(* each of them once, and nothing else.                                    *)
(***************************************************************************)
EXTENDS Integers

CONSTANTS Addrs, InitMem,
          Jobs      \* the copies asked for: [src, dst, n]

VARIABLES
  mem,      \* the memory
  todo      \* what is still to be copied: pairs of a source and a destination

vars == <<mem, todo>>

Init == mem = InitMem /\ todo = {}

Start ==
  /\ todo = {}
  /\ \E j \in Jobs : todo' = {<<j.src + k, j.dst + k>> : k \in 0 .. j.n - 1}
  /\ UNCHANGED mem

Copy ==
  \E S \in (SUBSET todo) \ {{}} :
    /\ todo' = todo \ S
    /\ mem' = [a \in Addrs |->
                LET sources == {p[1] : p \in {q \in S : q[2] = a}}
                IN IF sources = {} THEN mem[a] ELSE mem[CHOOSE b \in sources : TRUE]]

Next == Start \/ Copy

Spec == Init /\ [][Next]_vars

\* A job that was started is finished.
FairSpec == Spec /\ WF_vars(Copy)
=============================================================================
