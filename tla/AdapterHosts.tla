----------------------------- MODULE AdapterHosts -----------------------------
(***************************************************************************)
(* Programs that write 64-bit registers through the width adapter, with    *)
(* one 64-bit write or with two 32-bit ones, low half first.  Each program *)
(* has registers of its own.                                               *)
(***************************************************************************)
EXTENDS WidthAdapter

CONSTANTS
  Hosts,      \* the programs
  Owner       \* [Regs -> Hosts]: which program writes a register

ASSUME HostConstants == Owner \in [Regs -> Hosts]

VARIABLES
  job,        \* what each program is writing: [at, reg, v]
  posted      \* the last write that went to the role, and the value that its
              \* program meant

hostVars == <<stash, job, posted>>

Idle == [at |-> "idle", reg |-> NoReg, v |-> 0]
Nothing == [reg |-> NoReg, v |-> 0, meant |-> 0]

HostsTypeOK ==
  /\ StashTypeOK
  /\ job \in [Hosts -> [at : {"idle", "low", "high"},
                        reg : Regs \cup {NoReg}, v : Full]]
  /\ posted \in [reg : Regs \cup {NoReg}, v : Full, meant : Full]

HostsInit ==
  /\ stash = NoStash
  /\ job = [h \in Hosts |-> Idle]
  /\ posted = Nothing

Begin(h, r, v) ==
  /\ job[h].at = "idle"
  /\ Owner[r] = h
  /\ job' = [job EXCEPT ![h] = [at |-> "low", reg |-> r, v |-> v]]
  /\ UNCHANGED <<stash, posted>>

\* Program h writes v to a part of its register.
Write(h, part, v) ==
  LET r == job[h].reg
  IN /\ StashWrite(r, part, v)
     /\ posted' = IF Completes(r, part)
                  THEN [reg |-> r, v |-> Composed(part, v), meant |-> job[h].v]
                  ELSE posted

WriteLow(h) ==
  /\ job[h].at = "low"
  /\ Write(h, "low", Low(job[h].v))
  /\ job' = [job EXCEPT ![h].at = "high"]

WriteHigh(h) ==
  /\ job[h].at = "high"
  /\ Write(h, "high", High(job[h].v))
  /\ job' = [job EXCEPT ![h] = Idle]

WriteWide(h) ==
  /\ job[h].at = "low"
  /\ Write(h, "wide", job[h].v)
  /\ job' = [job EXCEPT ![h] = Idle]

Continue(h) == WriteLow(h) \/ WriteHigh(h) \/ WriteWide(h)

\* A program that does not know what became of its low half writes the
\* register from the beginning, with the same value.
Repeat(h) ==
  /\ job[h].at = "high"
  /\ job' = [job EXCEPT ![h].at = "low"]
  /\ UNCHANGED <<stash, posted>>

-----------------------------------------------------------------------------
(* Properties                                                               *)

\* No torn value reaches the role: what is posted is the whole of one write
\* of the register's program, however the accesses of the programs interleave,
\* whichever of them the adapter drops, and whichever are repeated.
NeverTorn == posted.v = posted.meant

=============================================================================
