----------------------------- MODULE DemoDmaCopy -----------------------------
(***************************************************************************)
(* The controller of DemoDma with one master that uses it for what it is   *)
(* for: programs dst_addr, src_addr and len, sets RUN, may clear RUN and   *)
(* set it again while the copy runs, waits for DONE and writes 0 to ctrl.  *)
(* It implements MemCopy.                                                  *)
(***************************************************************************)
EXTENDS DemoDma

CONSTANTS
  Jobs,        \* the copies: [src, dst, n]
  MaxPauses    \* bound: how often the master clears RUN during a job

\* The jobs are of memory within the 32 bits of the registers, and do not
\* overlap.
ASSUME JobsAssumption ==
  \A j \in Jobs :
    /\ j.src \in Word /\ j.dst \in Word /\ j.n \in Word
    /\ j.src + j.n <= WordMod /\ j.dst + j.n <= WordMod
    /\ Decodes(j.src, j.n) /\ Decodes(j.dst, j.n)
    /\ j.src + j.n <= j.dst \/ j.dst + j.n <= j.src

ASSUME OneMaster == \E m \in Masters : Masters = {m}

VARIABLES
  host,        \* what the master does next
  job,         \* the job it programs or waits for
  pauses       \* how often it has paused it

copyVars == <<vars, host, job, pauses>>

CPU == CHOOSE m \in Masters : TRUE

Ready == master[CPU] = "idle"

\* A new job: the first of its three registers
HostNew ==
  /\ host = "idle"
  /\ job' \in Jobs
  /\ BusWrite(CPU, "dst", job'.dst)
  /\ host' = "src"
  /\ pauses' = 0

HostSrc ==
  /\ host = "src"
  /\ BusWrite(CPU, "src", job.src)
  /\ host' = "len"
  /\ UNCHANGED <<job, pauses>>

HostLen ==
  /\ host = "len"
  /\ BusWrite(CPU, "len", job.n)
  /\ host' = "start"
  /\ UNCHANGED <<job, pauses>>

\* RUN is set, at the start or after a pause
HostRun ==
  /\ host \in {"start", "paused"}
  /\ BusWriteCtrl(CPU, {"RUN"})
  /\ host' = "run"
  /\ UNCHANGED <<job, pauses>>

HostPause ==
  /\ host = "run"
  /\ pauses < MaxPauses
  /\ BusWriteCtrl(CPU, {})
  /\ host' = "paused"
  /\ pauses' = pauses + 1
  /\ UNCHANGED job

\* DONE is read: the copy is over, and the master clears it.
HostAck ==
  /\ host = "run"
  /\ Done
  /\ BusWriteCtrl(CPU, {})
  /\ host' = "idle"
  /\ UNCHANGED <<job, pauses>>

HostWork == HostSrc \/ HostLen \/ HostRun \/ HostAck

KernelStep == Kernel /\ UNCHANGED <<host, job, pauses>>

InitC == Init /\ host = "idle" /\ job \in Jobs /\ pauses = 0

NextC == KernelStep \/ HostNew \/ HostWork \/ HostPause

SpecC == InitC /\ [][NextC]_copyVars

\* The kernel runs what can run: the thread, due notifications, and the
\* transactions, which return.  The master goes on once it has begun a job.
FairSpecC ==
  /\ SpecC
  /\ WF_copyVars(Thread /\ UNCHANGED <<host, job, pauses>>)
  /\ WF_copyVars(EventFires /\ UNCHANGED <<host, job, pauses>>)
  /\ WF_copyVars(SpecReadDone(CPU) /\ UNCHANGED <<host, job, pauses>>)
  /\ WF_copyVars(HostWork)

-----------------------------------------------------------------------------
(* Properties                                                               *)

\* The refinement: what is left to copy are the len bytes at src_addr, from
\* the write that programs the length on.
Todo == IF host \in {"start", "run", "paused"}
        THEN {<<regs.src + k, regs.dst + k>> : k \in 0 .. regs.len - 1}
        ELSE {}

Copying == INSTANCE MemCopy WITH todo <- Todo

\* Through bursts, delays, pauses in the middle of a burst and resumptions,
\* the controller copies exactly the bytes of each job, and ends each job.
ImplementsCopy == Copying!FairSpec

\* When DONE is set nothing of the job is left: DONE is never that of an
\* earlier job, and no burst is in flight that would still write memory.
DoneMeansCopied ==
  host = "run" /\ Done => Todo = {} /\ pc \notin {"read", "write"}

\* A job ends: DONE comes, although a notification is lost when it comes
\* while the thread is in a transaction or a timed wait.
JobEnds == host = "start" ~> host = "idle"

=============================================================================
