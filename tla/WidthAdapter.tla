----------------------------- MODULE WidthAdapter -----------------------------
(***************************************************************************)
(* The adapter between the 32-bit accesses of a host and the 64-bit        *)
(* registers of a Catapult role (src/catapult/register_adapter.hpp, class  *)
(* RegisterWidthAdapter).  A write to the low half of a register is        *)
(* stashed until the write to its high half; a 64-bit write goes through.  *)
(* An access runs to its end without a wait, so each is one step.          *)
(***************************************************************************)
EXTENDS Integers

CONSTANTS
  Regs,       \* the 64-bit registers
  NoReg,      \* _addr when there is no write in progress: UINT64_MAX
  HalfMod     \* 2^32

ASSUME AdapterConstants ==
  /\ NoReg \notin Regs
  /\ HalfMod \in Nat \ {0}

Half == 0 .. HalfMod - 1
Full == 0 .. HalfMod * HalfMod - 1

Low(v) == v % HalfMod
High(v) == v \div HalfMod

VARIABLE stash     \* the write in progress: _addr and _data

NoStash == [reg |-> NoReg, data |-> 0]

StashTypeOK == stash \in [reg : Regs \cup {NoReg}, data : Half]

InProgress == stash.reg # NoReg

\* An access is to the "low" or the "high" half of a register, or "wide".

\* Mutant: any high half completes the write in progress.
CompletesAny(r, part) == part = "wide" \/ (part = "high" /\ InProgress)

\* Whether a write is passed on to the role
Completes(r, part) == part = "wide" \/ (part = "high" /\ stash.reg = r)

\* The value passed on, for an access that brings v
Composed(part, v) == IF part = "wide" THEN v ELSE v * HalfMod + stash.data

\* Mutant: a completed write stays in progress.
StashKept(r, part, v) ==
  stash' = IF ~Completes(r, part) /\ part = "low" /\ ~InProgress
           THEN [reg |-> r, data |-> v] ELSE stash

\* What a write leaves in progress: out of sequence, a half is dropped and an
\* earlier low half stays.
StashWrite(r, part, v) ==
  stash' = IF Completes(r, part) THEN NoStash
           ELSE IF part = "low" /\ ~InProgress
           THEN [reg |-> r, data |-> v] ELSE stash

=============================================================================
