---------------------------- MODULE DemoDma_proofs ----------------------------
(* Theorems about DemoDma, whatever the bus masters write, and about        *)
(* DemoDmaCopy, whatever the jobs: for any sizes of the memory, of a burst  *)
(* and of a register.                                                       *)
EXTENDS DemoDmaCopy, SequenceTheorems, TLAPS

\* The remainder is a register's value.
LEMMA WordRange ==
  ASSUME NEW v \in Int
  PROVE  v % WordMod \in Word
BY DmaConstants, Z3 DEF Word

LEMMA ZeroInWord == 0 \in Word
BY DmaConstants DEF Word

LEMMA ResponseType ==
  ASSUME NEW a, NEW n
  PROVE  Response(a, n) \in {"OKAY", "DECODE"}
BY DEF Response

-----------------------------------------------------------------------------
(* The type invariant.  It is inductive with what the thread holds in its   *)
(* buffer while the write of a burst is under way.                          *)

BufInv == pc = "write" => buf \in [1 .. tlen -> Data]

TypeInv == TypeOK /\ BufInv

Regs == [dst : Word, src : Word, len : Word, ctrl : SUBSET {"RUN", "DONE"},
         error_resp : {"OKAY", "GENERIC", "DECODE"}]

LEMMA InitTypeInv == Init => TypeInv
<1> SUFFICES ASSUME Init PROVE TypeInv
  OBVIOUS
<1>1. regs \in Regs
  BY ZeroInWord DEF Init, Regs
<1>2. tlen \in 0 .. Burst /\ from \in Word /\ to \in Word
  BY ZeroInWord, DmaConstants DEF Init
<1>3. buf \in Seq(Data)
  BY EmptySeq DEF Init
<1> QED
  BY <1>1, <1>2, <1>3, DmaConstants DEF Init, TypeInv, TypeOK, BufInv, Regs

\* The end of the loop body keeps the registers, the line and pc well-typed.
LEMMA SignalType ==
  ASSUME NEW r \in Regs, NEW q \in BOOLEAN, Signal(r, q)
  PROVE  regs' \in Regs /\ irq' \in BOOLEAN /\ pc' \in {"wait", "delay"}
<1>1. CASE r.len = 0 /\ "RUN" \in r.ctrl
  BY <1>1 DEF Signal, Regs
<1>2. CASE ~(r.len = 0 /\ "RUN" \in r.ctrl)
  BY <1>2 DEF Signal
<1> QED
  BY <1>1, <1>2

LEMMA BodyType ==
  ASSUME TypeOK, NEW q \in BOOLEAN, Body(q)
  PROVE  /\ regs' \in Regs /\ irq' \in BOOLEAN
         /\ pc' \in {"wait", "delay", "read"}
         /\ tlen' \in 0 .. Burst /\ from' \in Word
<1>0. regs \in Regs /\ tlen \in 0 .. Burst /\ from \in Word
  BY DEF TypeOK, Regs
<1>1. CASE regs.len > 0 /\ Running
  <2>1. regs.len \in Nat /\ regs.src \in Word
    BY <1>0, DmaConstants DEF Regs, Word
  <2>2. BurstLength(regs) \in 0 .. Burst
    BY <2>1, DmaConstants DEF BurstLength
  <2> QED
    BY <1>0, <1>1, <2>1, <2>2 DEF Body
<1>2. CASE ~(regs.len > 0 /\ Running)
  <2>1. Signal(regs, q) /\ tlen' = tlen /\ from' = from
    BY <1>2 DEF Body
  <2> QED
    BY <1>0, <2>1, SignalType
<1> QED
  BY <1>1, <1>2

LEMMA TopType ==
  ASSUME TypeOK, NEW q \in BOOLEAN, Top(q)
  PROVE  /\ regs' \in Regs /\ irq' \in BOOLEAN
         /\ pc' \in {"wait", "delay", "read"}
         /\ tlen' \in 0 .. Burst /\ from' \in Word
<1>1. CASE Running
  BY <1>1, BodyType DEF Top
<1>2. CASE ~Running
  BY <1>2 DEF Top, TypeOK, Regs
<1> QED
  BY <1>1, <1>2

\* The registers after a burst are registers.
LEMMA AdvancedType ==
  ASSUME TypeOK, NEW r \in Regs
  PROVE  Advanced(r) \in Regs
<1>1. r.dst \in Int /\ r.src \in Int /\ r.len \in Int /\ tlen \in Int
  BY DmaConstants DEF TypeOK, Regs, Word
<1>2. r.dst + tlen \in Int /\ r.src + tlen \in Int /\ r.len - tlen \in Int
  BY <1>1
<1>3. /\ (r.dst + tlen) % WordMod \in Word
      /\ (r.src + tlen) % WordMod \in Word
      /\ (r.len - tlen) % WordMod \in Word
  BY <1>2, WordRange
<1> QED
  BY <1>3 DEF Advanced, Regs

LEMMA KernelTypeInv == TypeInv /\ Kernel => TypeInv'
<1> SUFFICES ASSUME TypeInv, Kernel PROVE TypeInv'
  OBVIOUS
<1>0. TypeOK /\ regs \in Regs /\ irq \in BOOLEAN /\ Done \in BOOLEAN
  BY DEF TypeInv, TypeOK, Regs, Done
<1>1. CASE Begin
  <2>1. Top(irq) /\ Others
    BY <1>1 DEF Begin
  <2> QED
    BY <1>0, <2>1, TopType DEF Others, TypeInv, TypeOK, BufInv, Regs
<1>2. CASE Wake
  <2>1. Body(irq) /\ Others
    BY <1>2 DEF Wake
  <2> QED
    BY <1>0, <2>1, BodyType DEF Others, TypeInv, TypeOK, BufInv, Regs
<1>3. CASE DelayDone
  <2>1. Top(Done) /\ Others
    BY <1>3 DEF DelayDone
  <2> QED
    BY <1>0, <2>1, TopType DEF Others, TypeInv, TypeOK, BufInv, Regs
<1>4. CASE ReadDone
  <2>1. tlen \in Nat /\ from \in Int
    BY DmaConstants DEF TypeInv, TypeOK, Word
  <2>2. buf' \in [1 .. tlen -> Data]
    <3>1. CASE Decodes(from, tlen)
      <4>1. \A i \in 1 .. tlen : from + i - 1 \in Addrs
        BY <2>1, <3>1 DEF Decodes
      <4> QED
        BY <1>4, <3>1, <4>1 DEF ReadDone, TypeInv, TypeOK
    <3>2. CASE ~Decodes(from, tlen)
      BY <1>4, <3>2 DEF ReadDone
    <3> QED
      BY <3>1, <3>2
  <2>3. buf' \in Seq(Data)
    BY <2>1, <2>2
  <2>4. regs' \in Regs /\ to' \in Word
    BY <1>0, <1>4, ResponseType DEF ReadDone, Regs
  <2> QED
    BY <1>4, <2>2, <2>3, <2>4 DEF ReadDone, TypeInv, TypeOK, BufInv, Regs
<1>5. CASE WriteDone
  <2> DEFINE r == [regs EXCEPT !.error_resp = Response(to, tlen)]
  <2>1. r \in Regs
    BY <1>0, ResponseType DEF Regs
  <2>2. Advanced(r) \in Regs
    BY <1>0, <2>1, AdvancedType
  <2>3. Signal(Advanced(r), irq)
    BY <1>5 DEF WriteDone
  <2>4. regs' \in Regs /\ irq' \in BOOLEAN /\ pc' \in {"wait", "delay"}
    BY <1>0, <2>2, <2>3, SignalType
  <2>5. mem' \in [Addrs -> Data]
    <3>1. mem \in [Addrs -> Data]
      BY DEF TypeInv, TypeOK
    <3>2. CASE Decodes(to, tlen)
      <4>1. buf \in [1 .. tlen -> Data] /\ to \in Int /\ tlen \in Nat
        BY <1>5, DmaConstants DEF WriteDone, TypeInv, TypeOK, BufInv, Word
      <4>2. ASSUME NEW a \in Addrs, a \in to .. to + tlen - 1
            PROVE  buf[a - to + 1] \in Data
        <5>1. a - to + 1 \in 1 .. tlen
          BY <4>1, <4>2
        <5> QED
          BY <4>1, <5>1
      <4> QED
        BY <1>5, <3>1, <3>2, <4>2 DEF WriteDone
    <3>3. CASE ~Decodes(to, tlen)
      BY <1>5, <3>1, <3>3 DEF WriteDone
    <3> QED
      BY <3>2, <3>3
  <2>6. tlen' \in 0 .. Burst /\ from' \in Word /\ to' \in Word
    BY <1>5, ZeroInWord, DmaConstants DEF WriteDone
  <2>7. buf' \in Seq(Data)
    BY <1>5, EmptySeq DEF WriteDone
  <2>8. ev' = ev /\ master' = master
    BY <1>5 DEF WriteDone
  <2> QED
    BY <2>4, <2>5, <2>6, <2>7, <2>8 DEF TypeInv, TypeOK, BufInv, Regs
<1>6. CASE EventFires
  BY <1>6 DEF EventFires, TypeInv, TypeOK, BufInv
<1>7. CASE \E m \in Masters : SpecReadDone(m)
  <2>1. PICK m \in Masters : SpecReadDone(m)
    BY <1>7
  <2>2. regs' \in Regs
    BY <1>0, <2>1 DEF SpecReadDone, TypeOK, Regs
  <2> QED
    BY <2>1, <2>2 DEF SpecReadDone, TypeInv, TypeOK, BufInv, Regs
<1> QED
  BY <1>1, <1>2, <1>3, <1>4, <1>5, <1>6, <1>7 DEF Kernel, Thread

LEMMA BusWriteTypeInv ==
  ASSUME TypeInv, NEW m \in Masters, NEW reg \in {"dst", "src", "len"},
         NEW v \in Word, BusWrite(m, reg, v)
  PROVE  TypeInv'
<1>1. regs' \in Regs
  BY DEF BusWrite, TypeInv, TypeOK, Regs
<1> QED
  BY <1>1 DEF BusWrite, TypeInv, TypeOK, BufInv, Regs

LEMMA BusWriteCtrlTypeInv ==
  ASSUME TypeInv, NEW m \in Masters, NEW c \in SUBSET {"RUN", "DONE"},
         BusWriteCtrl(m, c)
  PROVE  TypeInv'
<1>1. regs' \in Regs
  BY DEF BusWriteCtrl, TypeInv, TypeOK, Regs
<1> QED
  BY <1>1, ResponseType DEF BusWriteCtrl, TypeInv, TypeOK, BufInv, Regs

LEMMA NextTypeInv == TypeInv /\ [Next]_vars => TypeInv'
<1> SUFFICES ASSUME TypeInv, [Next]_vars PROVE TypeInv'
  OBVIOUS
<1>1. CASE Kernel
  BY <1>1, KernelTypeInv
<1>2. CASE MasterStep
  BY <1>2, BusWriteTypeInv, BusWriteCtrlTypeInv, DmaConstants
     DEF MasterStep, Word
<1>3. CASE UNCHANGED vars
  BY <1>3 DEF vars, TypeInv, TypeOK, BufInv
<1> QED
  BY <1>1, <1>2, <1>3 DEF Next

(* The registers, the thread's buffer and the memory keep their types in    *)
(* every state: no register leaves 32 bits, the burst in do_dma_copy never  *)
(* exceeds its buffer, whatever is written to the registers while it runs.  *)
THEOREM DmaTypeCorrect == Spec => []TypeOK
<1>1. TypeInv => TypeOK
  BY DEF TypeInv
<1> QED
  BY <1>1, InitTypeInv, NextTypeInv, PTL DEF Spec

-----------------------------------------------------------------------------
(* Starts and the interrupt line                                            *)

\* A write to ctrl leaves a notice.
LEMMA CtrlNotice ==
  ASSUME NEW m \in Masters, NEW c \in CtrlIns, TypeOK, BusWriteCtrl(m, c)
  PROVE  Notice'
<1>1. master'[m] \in {"OKAY", "DECODE"}
  BY ResponseType DEF BusWriteCtrl, TypeOK
<1> QED
  BY <1>1 DEF Notice

LEMMA NextNoLostStart ==
  TypeOK /\ NoLostStart /\ [Next]_vars => NoLostStart'
<1> SUFFICES ASSUME TypeOK, NoLostStart, [Next]_vars PROVE NoLostStart'
  OBVIOUS
<1>0. regs \in Regs
  BY DEF TypeOK, Regs
<1>1. ASSUME NEW r \in Regs, NEW q, Signal(r, q) PROVE NoLostStart'
  <2>1. CASE r.len = 0 /\ "RUN" \in r.ctrl
    <3>1. regs'.ctrl = (r.ctrl \ {"RUN"}) \cup {"DONE"}
      BY <1>1, <2>1 DEF Signal, Regs
    <3> QED
      BY <3>1 DEF NoLostStart, Running
  <2>2. CASE ~(r.len = 0 /\ "RUN" \in r.ctrl)
    BY <1>1, <2>2 DEF Signal, NoLostStart
  <2> QED
    BY <2>1, <2>2
<1>2. ASSUME NEW q, Body(q) PROVE NoLostStart'
  BY <1>0, <1>1, <1>2 DEF Body, NoLostStart
<1>3. ASSUME NEW q, Top(q) PROVE NoLostStart'
  BY <1>2, <1>3 DEF Top, NoLostStart, Running
<1>4. CASE Thread
  <2>1. CASE WriteDone
    <3> DEFINE r == [regs EXCEPT !.error_resp = Response(to, tlen)]
    <3>1. Advanced(r) \in Regs
      BY <1>0, ResponseType, AdvancedType DEF Regs
    <3> QED
      BY <1>1, <2>1, <3>1 DEF WriteDone
  <2>2. CASE ReadDone
    BY <2>2 DEF ReadDone, NoLostStart
  <2> QED
    BY <1>2, <1>3, <1>4, <2>1, <2>2 DEF Thread, Begin, Wake, DelayDone
<1>5. CASE EventFires
  BY <1>5 DEF EventFires, NoLostStart, TypeOK
<1>6. CASE \E m \in Masters : SpecReadDone(m)
  BY <1>6 DEF SpecReadDone, NoLostStart, Notice
<1>7. CASE MasterStep
  <2>1. ASSUME NEW m \in Masters, NEW reg \in {"dst", "src", "len"},
               NEW v \in RegIns, BusWrite(m, reg, v)
        PROVE  NoLostStart'
    BY <2>1 DEF BusWrite, NoLostStart, Running, Notice, TypeOK
  <2>2. ASSUME NEW m \in Masters, NEW c \in CtrlIns, BusWriteCtrl(m, c)
        PROVE  NoLostStart'
    BY <2>2, CtrlNotice DEF NoLostStart
  <2> QED
    BY <1>7, <2>1, <2>2 DEF MasterStep
<1>8. CASE UNCHANGED vars
  BY <1>8 DEF vars, NoLostStart, Running, Notice
<1> QED
  BY <1>4, <1>5, <1>6, <1>7, <1>8 DEF Next, Kernel

(* A start is never lost.  b_transport notifies do_dma_copy after every     *)
(* write to ctrl, and the notification is dropped if the thread is then in  *)
(* a transaction or in its timed wait; yet whenever the thread waits for a  *)
(* notification with RUN set, one is on its way.                            *)
THEOREM DmaLosesNoStart == Spec => []NoLostStart
<1>1. Init => NoLostStart
  BY DEF Init, NoLostStart, Running
<1> QED
  BY <1>1, DmaTypeCorrect, NextNoLostStart, PTL DEF Spec

\* Before the first notification has reached the thread, DONE is not set
\* and the line is low.
Unborn == pc \in {"unborn", "born"} => ~irq /\ ~Done

LEMMA NextIrq ==
  ASSUME \A c \in CtrlIns : "DONE" \notin c
  PROVE  TypeOK /\ Unborn /\ IrqNotStale /\ [Next]_vars
           => Unborn' /\ IrqNotStale'
<1> SUFFICES ASSUME TypeOK, Unborn, IrqNotStale, [Next]_vars
             PROVE  Unborn' /\ IrqNotStale'
  OBVIOUS
<1>1. ASSUME NEW r \in Regs, NEW q, Signal(r, q)
      PROVE  Unborn' /\ IrqNotStale'
  <2>1. CASE r.len = 0 /\ "RUN" \in r.ctrl
    <3>1. pc' = "wait" /\ irq' = TRUE
      BY <1>1, <2>1 DEF Signal
    <3>2. regs'.ctrl = (r.ctrl \ {"RUN"}) \cup {"DONE"}
      BY <1>1, <2>1 DEF Signal, Regs
    <3>3. Done' = TRUE
      BY <3>2 DEF Done
    <3> QED
      BY <3>1, <3>3 DEF Unborn, IrqNotStale
  <2>2. CASE ~(r.len = 0 /\ "RUN" \in r.ctrl)
    BY <1>1, <2>2 DEF Signal, Unborn, IrqNotStale
  <2> QED
    BY <2>1, <2>2
<1>2. regs \in Regs
  BY DEF TypeOK, Regs
<1>3. ASSUME NEW q, Body(q) PROVE Unborn' /\ IrqNotStale'
  BY <1>1, <1>2, <1>3 DEF Body, Unborn, IrqNotStale
<1>4. ASSUME NEW q, q = Done, Top(q) PROVE Unborn' /\ IrqNotStale'
  <2>1. CASE Running
    BY <1>3, <1>4, <2>1 DEF Top
  <2>2. CASE ~Running
    BY <1>4, <2>2 DEF Top, Unborn, IrqNotStale, Done
  <2> QED
    BY <2>1, <2>2
<1>5. CASE Begin
  <2>1. Top(irq) /\ irq = Done
    BY <1>5 DEF Begin, Unborn, TypeOK, Done
  <2> QED
    BY <1>4, <2>1
<1>6. CASE Wake
  BY <1>3, <1>6 DEF Wake
<1>7. CASE DelayDone
  BY <1>4, <1>7 DEF DelayDone
<1>8. CASE ReadDone
  BY <1>8 DEF ReadDone, Unborn, IrqNotStale
<1>9. CASE WriteDone
  <2> DEFINE r == [regs EXCEPT !.error_resp = Response(to, tlen)]
  <2>1. Advanced(r) \in Regs
    BY <1>2, ResponseType, AdvancedType DEF Regs
  <2> QED
    BY <1>1, <1>9, <2>1 DEF WriteDone
<1>10. CASE EventFires
  BY <1>10 DEF EventFires, Unborn, IrqNotStale, Done, TypeOK
<1>11. CASE \E m \in Masters : SpecReadDone(m)
  <2>1. PICK m \in Masters : SpecReadDone(m)
    BY <1>11
  <2>2. Done' = Done
    BY <2>1, <1>2 DEF SpecReadDone, Done, Regs
  <2> QED
    BY <2>1, <2>2 DEF SpecReadDone, Unborn, IrqNotStale, Notice
<1>12. CASE MasterStep
  <2>1. ASSUME NEW m \in Masters, NEW reg \in {"dst", "src", "len"},
               NEW v \in RegIns, BusWrite(m, reg, v)
        PROVE  Unborn' /\ IrqNotStale'
    <3>1. Done' = Done
      BY <1>2, <2>1 DEF BusWrite, Done, Regs
    <3> QED
      BY <2>1, <3>1 DEF BusWrite, Unborn, IrqNotStale, Notice
  <2>2. ASSUME NEW m \in Masters, NEW c \in CtrlIns, BusWriteCtrl(m, c)
        PROVE  Unborn' /\ IrqNotStale'
    <3>1. regs'.ctrl = c
      BY <1>2, <2>2 DEF BusWriteCtrl, Regs
    <3>2. ~Done'
      BY <3>1 DEF Done
    <3> QED
      BY <2>2, <3>2, CtrlNotice DEF BusWriteCtrl, Unborn, IrqNotStale
  <2> QED
    BY <1>12, <2>1, <2>2 DEF MasterStep
<1>13. CASE UNCHANGED vars
  BY <1>13 DEF vars, Unborn, IrqNotStale, Done, Notice
<1> QED
  BY <1>5, <1>6, <1>7, <1>8, <1>9, <1>10, <1>11, <1>12, <1>13
     DEF Next, Kernel, Thread

(* If no master writes DONE, the interrupt line never stays behind the DONE *)
(* bit: the thread that waits with the two different has a notification on  *)
(* its way.  The condition is needed: a DONE written before the first start *)
(* is not shown on the line, for the thread that starts on that write's     *)
(* notification goes to wait() past its only call of update_irqs.           *)
THEOREM DmaIrqFollowsDone ==
  ASSUME \A c \in CtrlIns : "DONE" \notin c
  PROVE  Spec => []IrqNotStale
<1>1. Init => Unborn /\ IrqNotStale
  <2>1. Init => irq = FALSE /\ regs.ctrl = {}
    BY DEF Init
  <2>2. ASSUME Init PROVE Done = FALSE
    BY <2>1, <2>2 DEF Done
  <2> QED
    BY <2>1, <2>2 DEF Unborn, IrqNotStale
<1>2. TypeOK /\ (Unborn /\ IrqNotStale) /\ [Next]_vars
        => (Unborn /\ IrqNotStale)'
  BY NextIrq
<1> QED
  BY <1>1, <1>2, DmaTypeCorrect, PTL DEF Spec

-----------------------------------------------------------------------------
(* DemoDmaCopy: jobs, one after the other                                   *)

\* The registers are at some byte of the job: what is left of it is what is
\* left from there.
AtJob ==
  /\ regs.len <= job.n
  /\ regs.src + regs.len = job.src + job.n
  /\ regs.dst + regs.len = job.dst + job.n

\* What the master has programmed and what it has written to ctrl
HostInv ==
  /\ job \in Jobs
  /\ host \in {"idle", "src", "len", "start", "run", "paused"}
  /\ host = "src" => regs.dst = job.dst
  /\ host = "len" => regs.dst = job.dst /\ regs.src = job.src
  /\ host \in {"start", "run", "paused"} /\ regs.len # 0 => AtJob
  /\ host = "run" => regs.ctrl \in {{"RUN"}, {"DONE"}}
  /\ host # "run" => regs.ctrl = {}
  /\ Done => regs.len = 0

\* The burst that is under way is the next of the job.
BurstInv ==
  /\ pc \in {"read", "write"} =>
       /\ host \in {"run", "paused"}
       /\ tlen \in 1 .. regs.len
       /\ from = regs.src
  /\ pc = "write" =>
       /\ to = regs.dst
       /\ buf = [i \in 1 .. tlen |-> mem[from + i - 1]]

CopyInv == TypeInv /\ HostInv /\ BurstInv

LEMMA CPUIsMaster == CPU \in Masters
BY OneMaster DEF CPU

LEMMA JobType ==
  ASSUME HostInv
  PROVE  /\ job.src \in Word /\ job.dst \in Word /\ job.n \in Word
         /\ job.src + job.n <= WordMod /\ job.dst + job.n <= WordMod
         /\ Decodes(job.src, job.n) /\ Decodes(job.dst, job.n)
         /\ job.src + job.n <= job.dst \/ job.dst + job.n <= job.src
BY JobsAssumption DEF HostInv

LEMMA InitCopyInv == InitC => CopyInv
<1> SUFFICES ASSUME InitC PROVE CopyInv
  OBVIOUS
<1>1. TypeInv
  BY InitTypeInv DEF InitC
<1>2. HostInv
  BY DEF InitC, Init, HostInv, Done
<1>3. BurstInv
  BY DEF InitC, Init, BurstInv
<1> QED
  BY <1>1, <1>2, <1>3 DEF CopyInv

\* The end of the loop body, for registers that are those of the job
LEMMA SignalCopy ==
  ASSUME HostInv, NEW r \in Regs, NEW q \in BOOLEAN, Signal(r, q),
         r.ctrl = regs.ctrl, "DONE" \in r.ctrl => r.len = 0,
         (r.dst = regs.dst /\ r.src = regs.src /\ r.len = regs.len)
           \/ /\ host \in {"run", "paused"}
              /\ r.len # 0 => /\ r.len <= job.n
                              /\ r.src + r.len = job.src + job.n
                              /\ r.dst + r.len = job.dst + job.n,
         host' = host, job' = job
  PROVE  HostInv' /\ BurstInv'
<1>1. pc' \in {"wait", "delay"}
  BY DEF Signal
<1>2. BurstInv'
  BY <1>1 DEF BurstInv
<1>3. /\ regs'.dst = r.dst /\ regs'.src = r.src /\ regs'.len = r.len
      /\ \/ regs'.ctrl = r.ctrl
         \/ "RUN" \in r.ctrl /\ r.len = 0 /\ regs'.ctrl = (r.ctrl \ {"RUN"}) \cup {"DONE"}
  BY DEF Signal, Regs
<1>4. r.len = 0 \/ ("RUN" \notin r.ctrl => "DONE" \notin r.ctrl)
  BY DEF HostInv
<1>5. /\ host = "run" => regs'.ctrl \in {{"RUN"}, {"DONE"}}
      /\ host # "run" => regs'.ctrl = {}
      /\ "DONE" \in regs'.ctrl => regs'.len = 0
  BY <1>3, <1>4 DEF HostInv
<1>6. HostInv'
  BY <1>3, <1>5 DEF HostInv, AtJob, Done
<1> QED
  BY <1>2, <1>6

LEMMA BodyCopy ==
  ASSUME CopyInv, NEW q \in BOOLEAN, Body(q), host' = host, job' = job
  PROVE  /\ HostInv' /\ BurstInv'
         /\ regs'.src = regs.src /\ regs'.dst = regs.dst /\ regs'.len = regs.len
<1>0. HostInv /\ TypeOK /\ regs \in Regs
  BY DEF CopyInv, TypeInv, TypeOK, Regs
<1>1. CASE regs.len > 0 /\ Running
  <2>1. /\ pc' = "read" /\ tlen' = BurstLength(regs) /\ from' = regs.src
        /\ regs' = regs
    BY <1>1 DEF Body
  <2>2. host = "run"
    BY <1>0, <1>1 DEF HostInv, Running
  <2>3. BurstLength(regs) \in 1 .. regs.len
    BY <1>0, <1>1, DmaConstants DEF BurstLength, Regs, Word
  <2> QED
    BY <1>0, <2>1, <2>2, <2>3 DEF HostInv, BurstInv, AtJob, Done
<1>2. CASE ~(regs.len > 0 /\ Running)
  <2>1. Signal(regs, q)
    BY <1>2 DEF Body
  <2>2. "DONE" \in regs.ctrl => regs.len = 0
    BY <1>0 DEF HostInv, Done
  <2>3. HostInv' /\ BurstInv'
    BY <1>0, <2>1, <2>2, SignalCopy
  <2>4. regs'.src = regs.src /\ regs'.dst = regs.dst /\ regs'.len = regs.len
    BY <1>0, <2>1 DEF Signal, Regs
  <2> QED
    BY <2>3, <2>4
<1> QED
  BY <1>1, <1>2

LEMMA TopCopy ==
  ASSUME CopyInv, NEW q \in BOOLEAN, Top(q), host' = host, job' = job
  PROVE  /\ HostInv' /\ BurstInv'
         /\ regs'.src = regs.src /\ regs'.dst = regs.dst /\ regs'.len = regs.len
<1>1. CASE Running
  BY <1>1, BodyCopy DEF Top
<1>2. CASE ~Running
  BY <1>2 DEF Top, CopyInv, HostInv, BurstInv, AtJob, Done
<1> QED
  BY <1>1, <1>2

\* Nothing is done or left undone to the memory or the registers of the job.
Kept ==
  /\ regs'.src = regs.src /\ regs'.dst = regs.dst /\ regs'.len = regs.len
  /\ mem' = mem

LEMMA StepCopy ==
  ASSUME CopyInv, Kernel, ~WriteDone, host' = host, job' = job
  PROVE  HostInv' /\ BurstInv' /\ Kept
<1>0. /\ HostInv /\ BurstInv /\ TypeInv /\ TypeOK /\ regs \in Regs
      /\ irq \in BOOLEAN /\ Done \in BOOLEAN
  BY DEF CopyInv, TypeInv, TypeOK, Regs, Done
<1>1. CASE Begin
  BY <1>0, <1>1, TopCopy DEF Begin, Others, Kept
<1>2. CASE Wake
  BY <1>0, <1>2, BodyCopy DEF Wake, Others, Kept
<1>3. CASE DelayDone
  BY <1>0, <1>3, TopCopy DEF DelayDone, Others, Kept
<1>4. CASE ReadDone
  <2>1. /\ tlen \in 1 .. regs.len /\ from = regs.src
        /\ host \in {"run", "paused"} /\ regs.len \in Nat
    BY <1>0, <1>4, DmaConstants DEF ReadDone, BurstInv, Regs, Word
  <2>2. AtJob
    BY <1>0, <2>1 DEF HostInv
  <2>3. Decodes(from, tlen)
    <3>1. /\ job.src \in Int /\ job.n \in Int /\ regs.src \in Int
          /\ Decodes(job.src, job.n)
      BY <1>0, JobType DEF Regs, Word
    <3>2. from .. from + tlen - 1 \subseteq job.src .. job.src + job.n - 1
      BY <2>1, <2>2, <3>1 DEF AtJob
    <3> QED
      BY <3>1, <3>2 DEF Decodes
  <2>4. /\ pc' = "write" /\ to' = regs.dst /\ tlen' = tlen /\ from' = from
        /\ buf' = [i \in 1 .. tlen |-> mem[from + i - 1]]
        /\ regs' = [regs EXCEPT !.error_resp = Response(from, tlen)]
        /\ mem' = mem
    BY <1>4, <2>3 DEF ReadDone
  <2>5. /\ regs'.src = regs.src /\ regs'.dst = regs.dst /\ regs'.len = regs.len
        /\ regs'.ctrl = regs.ctrl
    BY <1>0, <2>4 DEF Regs
  <2>6. HostInv'
    BY <1>0, <2>5 DEF HostInv, AtJob, Done
  <2>7. BurstInv'
    BY <2>1, <2>4, <2>5 DEF BurstInv
  <2> QED
    BY <2>4, <2>5, <2>6, <2>7 DEF Kept
<1>5. CASE EventFires
  BY <1>0, <1>5 DEF EventFires, HostInv, BurstInv, AtJob, Done, Kept, TypeOK
<1>6. CASE \E m \in Masters : SpecReadDone(m)
  <2>1. PICK m \in Masters : SpecReadDone(m)
    BY <1>6
  <2>2. /\ regs'.src = regs.src /\ regs'.dst = regs.dst /\ regs'.len = regs.len
        /\ regs'.ctrl = regs.ctrl
    BY <1>0, <2>1 DEF SpecReadDone, Regs
  <2>3. UNCHANGED <<pc, tlen, from, to, buf, mem>>
    BY <2>1 DEF SpecReadDone
  <2>4. HostInv'
    BY <1>0, <2>2 DEF HostInv, AtJob, Done
  <2>5. BurstInv'
    BY <1>0, <2>2, <2>3 DEF BurstInv
  <2> QED
    BY <2>2, <2>3, <2>4, <2>5 DEF Kept
<1> QED
  BY <1>1, <1>2, <1>3, <1>4, <1>5, <1>6 DEF Kernel, Thread

\* The registers after a burst of the job: the same job, tlen bytes on.
LEMMA BurstAdvances ==
  ASSUME CopyInv, WriteDone
  PROVE  /\ tlen \in 1 .. regs.len /\ regs.len \in Nat /\ AtJob
         /\ Advanced([regs EXCEPT !.error_resp = Response(to, tlen)]) \in Regs
         /\ LET r == Advanced([regs EXCEPT !.error_resp = Response(to, tlen)])
            IN /\ r.len = regs.len - tlen /\ r.ctrl = regs.ctrl
               /\ r.len # 0 => r.src = regs.src + tlen /\ r.dst = regs.dst + tlen
<1> DEFINE p == [regs EXCEPT !.error_resp = Response(to, tlen)]
           r == Advanced(p)
<1>0. HostInv /\ BurstInv /\ TypeOK /\ regs \in Regs
  BY DEF CopyInv, TypeInv, TypeOK, Regs
<1>1. /\ tlen \in 1 .. regs.len /\ host \in {"run", "paused"}
      /\ regs.src \in Nat /\ regs.dst \in Nat /\ regs.len \in 0 .. WordMod - 1
  BY <1>0, DmaConstants DEF WriteDone, BurstInv, Regs, Word
<1>2. AtJob
  BY <1>0, <1>1 DEF HostInv
<1>3. p \in Regs
  BY <1>0, ResponseType DEF Regs
<1>4. r \in Regs
  BY <1>0, <1>3, AdvancedType
<1>5. /\ p.src = regs.src /\ p.dst = regs.dst /\ p.len = regs.len /\ p.ctrl = regs.ctrl
  BY <1>0 DEF Regs
<1>6. /\ r.src = (regs.src + tlen) % WordMod
      /\ r.dst = (regs.dst + tlen) % WordMod
      /\ r.len = (regs.len - tlen) % WordMod
      /\ r.ctrl = regs.ctrl
  BY <1>3, <1>5 DEF Advanced, Regs
<1>7. /\ job.src \in Nat /\ job.dst \in Nat /\ job.n \in Nat
      /\ job.src + job.n <= WordMod /\ job.dst + job.n <= WordMod
  BY <1>0, JobType, DmaConstants DEF Word
<1>8. \A x \in 0 .. WordMod - 1 : x % WordMod = x
  BY DmaConstants, Z3
<1>9. r.len = regs.len - tlen
  <2>1. regs.len - tlen \in 0 .. WordMod - 1
    BY <1>1, DmaConstants
  <2> QED
    BY <1>6, <1>8, <2>1
<1>10. ASSUME r.len # 0
       PROVE  r.src = regs.src + tlen /\ r.dst = regs.dst + tlen
  <2>1. tlen < regs.len
    BY <1>1, <1>9, <1>10
  <2>2. /\ regs.src + tlen \in 0 .. WordMod - 1
        /\ regs.dst + tlen \in 0 .. WordMod - 1
    BY <1>1, <1>2, <1>7, <2>1, DmaConstants DEF AtJob
  <2> QED
    BY <1>6, <1>8, <2>2
<1> QED
  BY <1>1, <1>2, <1>4, <1>6, <1>9, <1>10

LEMMA WriteDoneCopy ==
  ASSUME CopyInv, WriteDone, host' = host, job' = job
  PROVE  HostInv' /\ BurstInv'
<1> DEFINE r == Advanced([regs EXCEPT !.error_resp = Response(to, tlen)])
<1>0. HostInv /\ BurstInv /\ irq \in BOOLEAN /\ regs \in Regs
  BY DEF CopyInv, TypeInv, TypeOK, Regs
<1>1. Signal(r, irq) /\ host \in {"run", "paused"}
  BY <1>0 DEF WriteDone, BurstInv
<1>2. /\ tlen \in 1 .. regs.len /\ regs.len \in Nat /\ AtJob /\ r \in Regs
      /\ r.len = regs.len - tlen /\ r.ctrl = regs.ctrl
      /\ r.len # 0 => r.src = regs.src + tlen /\ r.dst = regs.dst + tlen
  BY BurstAdvances
<1> HIDE DEF r
<1>3. "DONE" \in r.ctrl => r.len = 0
  BY <1>0, <1>2 DEF HostInv, Done
<1>4. job.n \in Nat /\ regs.src \in Nat /\ regs.dst \in Nat
  BY <1>0, JobType, DmaConstants DEF Word, Regs
<1>5. r.len # 0 => /\ r.len <= job.n
                   /\ r.src + r.len = job.src + job.n
                   /\ r.dst + r.len = job.dst + job.n
  BY <1>2, <1>4 DEF AtJob
<1> QED
  BY <1>0, <1>1, <1>2, <1>3, <1>5, SignalCopy

\* A step of the master writes no memory, and leaves the burst under way.
LEMMA HostCopy ==
  ASSUME CopyInv, HostNew \/ HostWork \/ HostPause
  PROVE  CopyInv' /\ mem' = mem
<1>0. HostInv /\ BurstInv /\ TypeInv /\ TypeOK /\ regs \in Regs
  BY DEF CopyInv, TypeInv, TypeOK, Regs
<1>1. ASSUME NEW reg \in {"dst", "src", "len"}, NEW v, BusWrite(CPU, reg, v)
      PROVE  /\ regs' = [regs EXCEPT ![reg] = v]
             /\ UNCHANGED <<pc, tlen, from, to, buf, mem>>
  BY <1>1 DEF BusWrite
<1>2. ASSUME NEW c \in SUBSET {"RUN", "DONE"}, BusWriteCtrl(CPU, c)
      PROVE  /\ regs'.ctrl = c /\ regs'.src = regs.src
             /\ regs'.dst = regs.dst /\ regs'.len = regs.len
             /\ UNCHANGED <<pc, tlen, from, to, buf, mem>>
             /\ TypeInv'
  BY <1>0, <1>2, BusWriteCtrlTypeInv, CPUIsMaster DEF BusWriteCtrl, Regs
<1>3. ASSUME host \notin {"run", "paused"} PROVE pc \notin {"read", "write"}
  BY <1>0, <1>3 DEF BurstInv
<1>4. CASE HostNew
  <2>1. /\ job' \in Jobs /\ host' = "src" /\ host = "idle"
        /\ BusWrite(CPU, "dst", job'.dst) /\ job'.dst \in Word
    BY <1>4, JobsAssumption DEF HostNew
  <2>2. TypeInv'
    BY <1>0, <2>1, BusWriteTypeInv, CPUIsMaster
  <2>3. /\ regs'.dst = job'.dst /\ regs'.ctrl = regs.ctrl /\ regs'.len = regs.len
        /\ UNCHANGED <<pc, mem>>
    BY <1>0, <1>1, <2>1 DEF Regs
  <2> QED
    BY <1>0, <1>3, <2>1, <2>2, <2>3 DEF CopyInv, HostInv, BurstInv, Done
<1>5. CASE HostSrc
  <2>1. /\ job' = job /\ host' = "len" /\ host = "src"
        /\ BusWrite(CPU, "src", job.src) /\ job.src \in Word
    BY <1>0, <1>5, JobType DEF HostSrc
  <2>2. TypeInv'
    BY <1>0, <2>1, BusWriteTypeInv, CPUIsMaster
  <2>3. /\ regs'.dst = regs.dst /\ regs'.src = job.src
        /\ regs'.ctrl = regs.ctrl /\ regs'.len = regs.len
        /\ UNCHANGED <<pc, mem>>
    BY <1>0, <1>1, <2>1 DEF Regs
  <2> QED
    BY <1>0, <1>3, <2>1, <2>2, <2>3 DEF CopyInv, HostInv, BurstInv, Done
<1>6. CASE HostLen
  <2>1. /\ job' = job /\ host' = "start" /\ host = "len"
        /\ BusWrite(CPU, "len", job.n) /\ job.n \in Word
    BY <1>0, <1>6, JobType DEF HostLen
  <2>2. TypeInv'
    BY <1>0, <2>1, BusWriteTypeInv, CPUIsMaster
  <2>3. /\ regs'.dst = regs.dst /\ regs'.src = regs.src
        /\ regs'.ctrl = regs.ctrl /\ regs'.len = job.n
        /\ UNCHANGED <<pc, mem>>
    BY <1>0, <1>1, <2>1 DEF Regs
  <2>4. job.n <= job.n
    BY <2>1, DmaConstants DEF Word
  <2> QED
    BY <1>0, <1>3, <2>1, <2>2, <2>3, <2>4
       DEF CopyInv, HostInv, BurstInv, Done, AtJob
<1>7. CASE HostRun
  <2>1. /\ job' = job /\ host' = "run" /\ host \in {"start", "paused"}
        /\ BusWriteCtrl(CPU, {"RUN"})
    BY <1>7 DEF HostRun
  <2>2. /\ regs'.ctrl = {"RUN"} /\ regs'.src = regs.src
        /\ regs'.dst = regs.dst /\ regs'.len = regs.len
        /\ UNCHANGED <<pc, tlen, from, to, buf, mem>>
        /\ TypeInv'
    BY <1>2, <2>1
  <2> QED
    BY <1>0, <1>3, <2>1, <2>2 DEF CopyInv, HostInv, BurstInv, Done, AtJob
<1>8. CASE HostPause
  <2>1. /\ job' = job /\ host' = "paused" /\ host = "run"
        /\ BusWriteCtrl(CPU, {})
    BY <1>8 DEF HostPause
  <2>2. /\ regs'.ctrl = {} /\ regs'.src = regs.src
        /\ regs'.dst = regs.dst /\ regs'.len = regs.len
        /\ UNCHANGED <<pc, tlen, from, to, buf, mem>>
        /\ TypeInv'
    BY <1>2, <2>1
  <2> QED
    BY <1>0, <2>1, <2>2 DEF CopyInv, HostInv, BurstInv, Done, AtJob
<1>9. CASE HostAck
  <2>1. /\ job' = job /\ host' = "idle" /\ host = "run" /\ Done
        /\ BusWriteCtrl(CPU, {})
    BY <1>9 DEF HostAck
  <2>2. /\ regs'.ctrl = {} /\ regs'.src = regs.src
        /\ regs'.dst = regs.dst /\ regs'.len = regs.len
        /\ UNCHANGED <<pc, tlen, from, to, buf, mem>>
        /\ TypeInv'
    BY <1>2, <2>1
  <2>3. regs.len = 0 /\ pc \notin {"read", "write"}
    BY <1>0, <2>1 DEF HostInv, BurstInv
  <2> QED
    BY <1>0, <2>1, <2>2, <2>3 DEF CopyInv, HostInv, BurstInv, Done
<1> QED
  BY <1>4, <1>5, <1>6, <1>7, <1>8, <1>9 DEF HostWork

LEMMA NextCopyInv == CopyInv /\ [NextC]_copyVars => CopyInv'
<1> SUFFICES ASSUME CopyInv, [NextC]_copyVars PROVE CopyInv'
  OBVIOUS
<1>1. CASE KernelStep
  <2>1. Kernel /\ host' = host /\ job' = job /\ TypeInv'
    BY <1>1, KernelTypeInv DEF KernelStep, CopyInv
  <2> QED
    BY <2>1, StepCopy, WriteDoneCopy DEF CopyInv
<1>2. CASE HostNew \/ HostWork \/ HostPause
  BY <1>2, HostCopy
<1>3. CASE UNCHANGED copyVars
  BY <1>3 DEF copyVars, vars, CopyInv, TypeInv, TypeOK, BufInv, HostInv,
              BurstInv, AtJob, Done
<1> QED
  BY <1>1, <1>2, <1>3 DEF NextC

\* DONE is that of the job the master waits for, and comes after its last
\* byte: a pause, a resumption or a stray notification does not bring it
\* forward.
THEOREM CopyDoneMeansCopied == SpecC => []DoneMeansCopied
<1>1. CopyInv => DoneMeansCopied
  <2> SUFFICES ASSUME CopyInv, host = "run", Done
               PROVE  Todo = {} /\ pc \notin {"read", "write"}
    BY DEF DoneMeansCopied
  <2>1. regs.len = 0
    BY DEF CopyInv, HostInv
  <2>2. 0 .. regs.len - 1 = {}
    BY <2>1
  <2> QED
    BY <2>1, <2>2 DEF Todo, CopyInv, BurstInv
<1> QED
  BY <1>1, InitCopyInv, NextCopyInv, PTL DEF SpecC

-----------------------------------------------------------------------------
(* The refinement                                                           *)

\* A byte of the burst is one of those that are to be copied.
Bytes(s, d, n) == {<<s + k, d + k>> : k \in 0 .. n - 1}

LEMMA TodoBytes ==
  Todo = IF host \in {"start", "run", "paused"}
         THEN Bytes(regs.src, regs.dst, regs.len) ELSE {}
BY DEF Todo, Bytes

\* A step that keeps the registers and the memory stutters.
LEMMA KeptStutters ==
  ASSUME Kept, host' = host
  PROVE  Todo' = Todo /\ mem' = mem
BY DEF Kept, Todo

LEMMA BytesRest ==
  ASSUME NEW s \in Nat, NEW d \in Nat, NEW n \in Nat, NEW t \in 1 .. n
  PROVE  /\ Bytes(s, d, t) \subseteq Bytes(s, d, n) /\ Bytes(s, d, t) # {}
         /\ Bytes(s, d, n) \ Bytes(s, d, t) = Bytes(s + t, d + t, n - t)
<1>1. Bytes(s, d, t) \subseteq Bytes(s, d, n)
  BY DEF Bytes
<1>2. <<s + 0, d + 0>> \in Bytes(s, d, t)
  BY DEF Bytes
<1>3. Bytes(s, d, n) \ Bytes(s, d, t) = Bytes(s + t, d + t, n - t)
  <2>1. ASSUME NEW p \in Bytes(s, d, n), p \notin Bytes(s, d, t)
        PROVE  p \in Bytes(s + t, d + t, n - t)
    <3>1. PICK k \in 0 .. n - 1 : p = <<s + k, d + k>>
      BY DEF Bytes
    <3>2. k >= t
      BY <2>1, <3>1 DEF Bytes
    <3>3. k - t \in 0 .. (n - t) - 1 /\ p = <<(s + t) + (k - t), (d + t) + (k - t)>>
      BY <3>1, <3>2
    <3> QED
      BY <3>3 DEF Bytes
  <2>2. ASSUME NEW p \in Bytes(s + t, d + t, n - t)
        PROVE  p \in Bytes(s, d, n) /\ p \notin Bytes(s, d, t)
    <3>1. PICK k \in 0 .. (n - t) - 1 : p = <<(s + t) + k, (d + t) + k>>
      BY DEF Bytes
    <3>2. t + k \in 0 .. n - 1 /\ p = <<s + (t + k), d + (t + k)>>
      BY <3>1
    <3>3. \A i \in 0 .. t - 1 : p # <<s + i, d + i>>
      BY <3>1
    <3> QED
      BY <3>2, <3>3 DEF Bytes
  <2> QED
    BY <2>1, <2>2
<1> QED
  BY <1>1, <1>2, <1>3

\* A burst is taken from the bytes that are to be copied.
Splits(all, burst, rest) ==
  burst \subseteq all /\ burst # {} /\ rest = all \ burst

LEMMA BurstSplits ==
  ASSUME NEW s \in Nat, NEW d \in Nat, NEW n \in Nat, NEW t \in 1 .. n
  PROVE  Splits(Bytes(s, d, n), Bytes(s, d, t), Bytes(s + t, d + t, n - t))
BY BytesRest DEF Splits

\* Where the bytes come from that a burst writes to an address
SourcesOf(burst, a) == {p[1] : p \in {q \in burst : q[2] = a}}

LEMMA Sources ==
  ASSUME NEW s \in Nat, NEW d \in Nat, NEW t \in Nat, NEW a \in Int
  PROVE  SourcesOf(Bytes(s, d, t), a)
           = IF a \in d .. d + t - 1 THEN {s + (a - d)} ELSE {}
<1> DEFINE F == SourcesOf(Bytes(s, d, t), a)
<1>1. ASSUME NEW x \in F PROVE a \in d .. d + t - 1 /\ x = s + (a - d)
  <2>1. PICK p \in Bytes(s, d, t) : p[2] = a /\ x = p[1]
    BY <1>1 DEF SourcesOf
  <2>2. PICK k \in 0 .. t - 1 : p = <<s + k, d + k>>
    BY <2>1 DEF Bytes
  <2> QED
    BY <2>1, <2>2
<1>2. ASSUME a \in d .. d + t - 1 PROVE s + (a - d) \in F
  <2>1. a - d \in 0 .. t - 1 /\ a = d + (a - d)
    BY <1>2
  <2>2. <<s + (a - d), a>> \in Bytes(s, d, t)
    BY <2>1 DEF Bytes
  <2> QED
    BY <2>2 DEF SourcesOf
<1> QED
  BY <1>1, <1>2

\* The end of a write transaction copies the bytes of its burst.
LEMMA WriteDoneCopies ==
  ASSUME CopyInv, WriteDone, host' = host, Addrs \subseteq Int,
         NEW s \in Nat, NEW d \in Nat, NEW n \in Nat, NEW t \in 1 .. n,
         s = regs.src, d = regs.dst, n = regs.len, t = tlen
  PROVE  Copying!Copy
<1> DEFINE r == Advanced([regs EXCEPT !.error_resp = Response(to, tlen)])
<1>0. HostInv /\ BurstInv /\ TypeOK /\ regs \in Regs
  BY DEF CopyInv, TypeInv, TypeOK, Regs
<1>1. /\ host \in {"run", "paused"} /\ to = regs.dst /\ from = regs.src
      /\ buf = [i \in 1 .. tlen |-> mem[from + i - 1]]
  BY <1>0 DEF WriteDone, BurstInv
<1>2. /\ tlen \in 1 .. regs.len /\ regs.len \in Nat /\ AtJob /\ r \in Regs
      /\ r.len = regs.len - tlen
      /\ r.len # 0 => r.src = regs.src + tlen /\ r.dst = regs.dst + tlen
  BY BurstAdvances
<1>3. regs'.src = r.src /\ regs'.dst = r.dst /\ regs'.len = r.len
  BY <1>2 DEF WriteDone, Signal, Regs
<1> HIDE DEF r
<1>4. /\ regs.src \in Nat /\ regs.dst \in Nat /\ job.dst \in Nat /\ job.n \in Nat
      /\ Decodes(job.dst, job.n)
  BY <1>0, JobType, DmaConstants DEF Word, Regs
<1> DEFINE S == Bytes(s, d, t)
<1>5. Todo = Bytes(s, d, n)
  BY <1>1, TodoBytes
<1>6. S \subseteq Bytes(s, d, n) /\ S # {} /\ Bytes(s, d, n) \ S = Bytes(s + t, d + t, n - t)
  <2>1. Splits(Bytes(s, d, n), S, Bytes(s + t, d + t, n - t))
    BY BurstSplits
  <2> QED
    BY <2>1 DEF Splits
<1>7. Todo' = Todo \ S
  <2>1. Todo' = Bytes(r.src, r.dst, r.len)
    BY <1>1, <1>3 DEF Todo, Bytes
  <2>2. CASE r.len = 0
    <3>1. n - t = 0
      BY <1>2, <2>2
    <3>2. Bytes(r.src, r.dst, 0) = {} /\ Bytes(s + t, d + t, 0) = {}
      BY DEF Bytes
    <3> QED
      BY <1>5, <1>6, <2>1, <2>2, <3>1, <3>2
  <2>3. CASE r.len # 0
    <3>1. r.src = s + t /\ r.dst = d + t /\ r.len = n - t
      BY <1>2, <2>3
    <3>2. Bytes(r.src, r.dst, r.len) = Bytes(s + t, d + t, n - t)
      BY <3>1
    <3> QED
      BY <1>5, <1>6, <2>1, <3>2
  <2> QED
    BY <2>2, <2>3
<1>8. Decodes(to, tlen)
  <2>1. /\ to \in Nat /\ tlen \in Nat
        /\ job.dst <= to /\ to + tlen <= job.dst + job.n
    <3>1. to = regs.dst /\ regs.dst \in Nat /\ regs.len \in Nat
          /\ job.dst \in Nat /\ job.n \in Nat
      BY <1>1, <1>2, <1>4
    <3>2. tlen \in Nat /\ tlen <= regs.len
      BY <1>2
    <3>3. regs.len <= job.n /\ regs.dst + regs.len = job.dst + job.n
      BY <1>2 DEF AtJob
    <3> QED
      BY <3>1, <3>2, <3>3
  <2>2. to .. to + tlen - 1 \subseteq job.dst .. job.dst + job.n - 1
    BY <1>4, <2>1
  <2> QED
    BY <1>4, <2>2 DEF Decodes
<1>9. mem' = [a \in Addrs |-> IF a \in to .. to + tlen - 1
                               THEN buf[a - to + 1] ELSE mem[a]]
  BY <1>8 DEF WriteDone
<1>10. ASSUME NEW a \in Addrs
       PROVE  (IF a \in to .. to + tlen - 1 THEN buf[a - to + 1] ELSE mem[a])
                = IF SourcesOf(S, a) = {} THEN mem[a] ELSE mem[CHOOSE b \in SourcesOf(S, a) : TRUE]
  <2>1. a \in Int /\ tlen \in Nat
    BY <1>2
  <2>2. SourcesOf(S, a) = IF a \in to .. to + tlen - 1 THEN {from + (a - to)} ELSE {}
    <3>1. t \in Nat
      OBVIOUS
    <3>2. SourcesOf(S, a) = IF a \in d .. d + t - 1 THEN {s + (a - d)} ELSE {}
      BY <2>1, <3>1, Sources
    <3> QED
      BY <1>1, <3>2
  <2>3. CASE a \in to .. to + tlen - 1
    <3>1. SourcesOf(S, a) = {from + (a - to)}
      BY <2>2, <2>3
    <3>2. (CHOOSE b \in {from + (a - to)} : TRUE) = from + (a - to)
      OBVIOUS
    <3>3. a - to + 1 \in 1 .. tlen /\ from + (a - to + 1) - 1 = from + (a - to)
      <4>1. from \in Nat /\ to \in Nat
        BY <1>1, <1>4
      <4> QED
        BY <4>1, <2>1, <2>3
    <3>4. buf[a - to + 1] = mem[from + (a - to)]
      BY <1>1, <3>3
    <3> QED
      BY <2>3, <3>1, <3>2, <3>4
  <2>4. CASE a \notin to .. to + tlen - 1
    BY <2>2, <2>4
  <2> QED
    BY <2>3, <2>4
<1>11. mem' = [a \in Addrs |-> IF SourcesOf(S, a) = {} THEN mem[a]
                               ELSE mem[CHOOSE b \in SourcesOf(S, a) : TRUE]]
  BY <1>9, <1>10
<1>12. S \in (SUBSET Todo) \ {{}}
  BY <1>5, <1>6
<1> QED
  BY <1>7, <1>11, <1>12 DEF Copying!Copy, SourcesOf

LEMMA StepImplements ==
  ASSUME CopyInv, [NextC]_copyVars, Addrs \subseteq Int
  PROVE  [Copying!Next]_<<mem, Todo>>
<1>0. HostInv /\ regs \in Regs
  BY DEF CopyInv, TypeInv, TypeOK, Regs
<1>1. CASE KernelStep
  <2>1. Kernel /\ host' = host /\ job' = job
    BY <1>1 DEF KernelStep
  <2>2. CASE WriteDone
    <3>1. /\ regs.src \in Nat /\ regs.dst \in Nat /\ regs.len \in Nat
          /\ tlen \in 1 .. regs.len
      BY <1>0, <2>2, BurstAdvances, DmaConstants DEF Regs, Word
    <3> QED
      BY <2>1, <2>2, <3>1, WriteDoneCopies DEF Copying!Next
  <2>3. CASE ~WriteDone
    BY <2>1, <2>3, StepCopy, KeptStutters
  <2> QED
    BY <2>2, <2>3
<1>2. CASE HostNew \/ HostWork \/ HostPause
  <2>1. mem' = mem
    BY <1>2, HostCopy
  <2>2. CASE HostNew \/ HostSrc
    BY <2>1, <2>2 DEF HostNew, HostSrc, Todo
  <2>3. CASE HostLen
    <3>1. /\ host = "len" /\ host' = "start"
          /\ regs' = [regs EXCEPT !["len"] = job.n]
      BY <2>3 DEF HostLen, BusWrite
    <3>2. /\ regs'.dst = job.dst /\ regs'.src = job.src /\ regs'.len = job.n
          /\ job \in Jobs
      BY <1>0, <3>1 DEF HostInv, Regs
    <3>3. Todo = {} /\ Todo' = {<<job.src + k, job.dst + k>> : k \in 0 .. job.n - 1}
      BY <3>1, <3>2 DEF Todo
    <3> QED
      BY <2>1, <3>2, <3>3 DEF Copying!Next, Copying!Start
  <2>4. CASE HostRun \/ HostPause
    <3>1. PICK c : BusWriteCtrl(CPU, c)
      BY <2>4 DEF HostRun, HostPause
    <3>2. /\ regs'.dst = regs.dst /\ regs'.src = regs.src /\ regs'.len = regs.len
      BY <1>0, <3>1 DEF BusWriteCtrl, Regs
    <3>3. /\ host \in {"start", "run", "paused"}
          /\ host' \in {"start", "run", "paused"}
      BY <2>4 DEF HostRun, HostPause
    <3> QED
      BY <2>1, <3>2, <3>3 DEF Todo
  <2>5. CASE HostAck
    <3>1. host = "run" /\ Done /\ host' = "idle"
      BY <2>5 DEF HostAck
    <3>2. regs.len = 0
      BY <1>0, <3>1 DEF HostInv
    <3>3. 0 .. regs.len - 1 = {}
      BY <3>2
    <3>4. Todo = {} /\ Todo' = {}
      BY <3>1, <3>3 DEF Todo
    <3> QED
      BY <2>1, <3>4
  <2> QED
    BY <1>2, <2>2, <2>3, <2>4, <2>5 DEF HostWork
<1>3. CASE UNCHANGED copyVars
  BY <1>3 DEF copyVars, vars, Todo
<1> QED
  BY <1>1, <1>2, <1>3 DEF NextC

\* The controller copies the bytes of each job, each of them once, and
\* nothing else, whatever the sizes of the jobs, the bursts and the registers
\* and however often the master pauses and resumes.
THEOREM CopyImplements ==
  ASSUME Addrs \subseteq Int
  PROVE  SpecC => Copying!Spec
<1>1. InitC => Copying!Init
  BY DEF InitC, Init, Copying!Init, Todo
<1>2. CopyInv /\ [NextC]_copyVars => [Copying!Next]_<<mem, Todo>>
  BY StepImplements
<1> QED
  BY <1>1, <1>2, InitCopyInv, NextCopyInv, PTL
     DEF SpecC, Copying!Spec, Copying!vars
=============================================================================
