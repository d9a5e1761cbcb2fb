----------------------------- MODULE PcieDriver -----------------------------
(***************************************************************************)
(* The accelerator of PcieAcc driven by the programs of the repository,    *)
(* test-pcie-ats-demo-vfio.cc and pcie-acc-md5sum-vfio.cc: a host that     *)
(* maps a buffer, programs one command at a time, polls R_STATUS until it  *)
(* is not 0, and unmaps the buffer only between commands.  The jobs may    *)
(* come in any order and any number.                                       *)
(*                                                                         *)
(* The link delivers in order: an invalidation that was sent before a      *)
(* register access reaches the device before it.                           *)
(***************************************************************************)
EXTENDS PcieAcc

CONSTANTS
  Jobs        \* the commands: [op, addr, len, data]

\* The frame that buffer m gives to page p
Backs(m, p, frame, attr) ==
  p \in PagesOf(m) /\ frame = m.phys + (p - m.page) /\ attr = m.attr

\* The buffers are memory, to be read and written, and none of them lies
\* between two pages that continue it in front and behind: a translation that
\* reaches over it on both sides would survive its invalidation.
ASSUME BuffersAssumption ==
  \A m \in Mappings :
    /\ {"R", "W"} \subseteq m.attr
    /\ m.phys * PageSize .. (m.phys + m.n) * PageSize - 1 \subseteq PhysAddrs
    /\ ~ \E b, e \in Mappings :
           /\ Backs(b, m.page - 1, m.phys - 1, m.attr)
           /\ Backs(e, m.page + m.n, m.phys + m.n, m.attr)

\* The words that are read and written are there; a range that is translated
\* starts on a page, one that is hashed does or is a page or longer.
ASSUME JobsAssumption ==
  /\ Jobs \subseteq [op : Threads, addr : Nat, len : Nat, data : Data]
  /\ \A j \in Jobs :
       /\ j.op \in {"read", "write"} => j.len > 0
       /\ j.op = "translate" => j.addr % PageSize = 0
       /\ j.op = "md5" =>
            j.len < WordMod /\ (j.addr % PageSize = 0 \/ j.len >= PageSize)

VARIABLES
  host,       \* the next thing the program does
  job         \* the command it is programming or waiting for

driverVars == <<vars, host, job>>

HostStates == {"idle", "addr", "length", "status", "value", "ctrl", "poll"}

TypeOKD ==
  /\ TypeOK
  /\ host \in HostStates
  /\ job \in Jobs

-----------------------------------------------------------------------------
(* The buffers as the host sees them.                                       *)

Mapped(a) == a \div PageSize \in Pages /\ iommu[a \div PageSize] # Unmapped

Place(a) == iommu[a \div PageSize].phys * PageSize + (a % PageSize)

JobRange(j) == j.addr .. (j.addr + j.len - 1)

\* iommu_map_dma and iommu_unmap_dma.  A buffer is unmapped as a whole.
HostMap ==
  /\ host = "idle"
  /\ \E m \in Mappings : MapDma(m)
  /\ UNCHANGED <<host, job>>

HostUnmap ==
  /\ host = "idle"
  /\ \E m \in Mappings :
       /\ \A p \in PagesOf(m) : p \in Pages /\ iommu[p] =
            [phys |-> m.phys + (p - m.page), attr |-> m.attr]
       /\ UnmapDma(m)
  /\ UNCHANGED <<host, job>>

\* A test starts: test_read stores the bytes that it will have read back.
HostBegin(j) ==
  /\ host = "idle"
  /\ Len(atc) < MaxRegions
  /\ \A a \in JobRange(j) : Mapped(a)
  /\ job' = j
  /\ host' = "addr"
  /\ mem' = IF j.op # "read" THEN mem
            ELSE [a \in PhysAddrs |-> IF a = Place(j.addr) THEN j.data ELSE mem[a]]
  /\ UNCHANGED <<devVars, iommu, inv, granted>>

\* One write32 of the test: a register, then on to the next write.
HostWrite(at, reg, v, next) ==
  /\ host = at
  /\ inv = <<>>
  /\ BarWrite(reg, v)
  /\ host' = next
  /\ UNCHANGED job

\* Mutant: R_STATUS is not cleared.
HostProgramUncleared ==
  \/ HostWrite("addr", "addr", job.addr, "length")
  \/ HostWrite("length", "length", job.len,
               IF job.op = "write" THEN "value" ELSE "ctrl")
  \/ HostWrite("value", "value", job.data, "ctrl")

HostProgram ==
  \/ HostWrite("addr", "addr", job.addr, "length")
  \/ HostWrite("length", "length", job.len, "status")
  \/ HostWrite("status", "status", {}, IF job.op = "write" THEN "value" ELSE "ctrl")
  \/ HostWrite("value", "value", job.data, "ctrl")

HostCtrl ==
  /\ host = "ctrl"
  /\ inv = <<>>
  /\ BarWriteCtrl({job.op})
  /\ host' = "poll"
  /\ UNCHANGED job

\* Mutant: the status is not looked at.
HostDoneUnseen == host = "poll" /\ host' = "idle" /\ UNCHANGED <<vars, job>>

\* wait_for_done() reads a status other than 0.
HostDone ==
  /\ host = "poll"
  /\ regs.status # {}
  /\ host' = "idle"
  /\ UNCHANGED <<vars, job>>

-----------------------------------------------------------------------------
InitD ==
  /\ Init
  /\ host = "idle"
  /\ job \in Jobs

HostStep ==
  \/ HostMap
  \/ HostUnmap
  \/ \E j \in Jobs : HostBegin(j)
  \/ HostProgram
  \/ HostCtrl
  \/ HostDone

DeviceStep ==
  /\ ThreadStep \/ AtsInvalidate \/ \E t \in Threads : AtsAnswer(t)
  /\ UNCHANGED <<host, job>>

NextD == HostStep \/ DeviceStep

SpecD == InitD /\ [][NextD]_driverVars

\* The SystemC kernel runs every process that can run, QEMU answers every
\* request and delivers every message, and the program does not stop between
\* its register accesses; it may stop when it is idle.
Fairness ==
  /\ WF_driverVars(DeviceStep)
  /\ WF_driverVars(HostProgram \/ HostCtrl \/ HostDone)

FairSpecD == SpecD /\ Fairness

-----------------------------------------------------------------------------
(* Properties                                                               *)

\* A write to R_CTRL finds the thread it notifies in its wait(): the
\* notification is immediate, so otherwise the command would be lost and the
\* DONE of an earlier one taken for its own.
NoCommandLost == [][HostCtrl => pc[job.op] = "wait"]_driverVars

\* One command at a time: the four threads share one status register, and a
\* thread is at work exactly when the host waits for its command and the
\* status is still 0.
OneCommand ==
  \A t \in Threads :
    pc[t] # "wait" <=> host = "poll" /\ t = job.op /\ regs.status = {}

\* No access goes through a translation that the host has taken back: the
\* words of a DMA in flight are mapped now, to where it goes, with its
\* permission, although the cache outlives the mappings.
NoStaleAccess ==
  \A t \in Threads : pc[t] = "dma" =>
    \A k \in 0 .. access[t].len - 1 :
      LET a == access[t].virt + k
      IN /\ Mapped(a)
         /\ Place(a) = access[t].phys + k
         /\ access[t].kind \in iommu[a \div PageSize].attr

\* When no invalidation is on its way, the cache agrees with the IOMMU on
\* every address it translates.
AtcCurrent ==
  inv = <<>> =>
    \A i \in DOMAIN atc :
      \A a \in atc[i].virt .. (atc[i].virt + atc[i].len - 1) :
        /\ Mapped(a)
        /\ Place(a) = PhysOf(atc[i], a)
        /\ atc[i].attr = iommu[a \div PageSize].attr

\* "The thread will let the ATC perform ATS translation requests for the
\* address range starting at address ... with the length programmed into
\* R_LENGTH" (ats_req_thread): when the command is done the whole range of it
\* is in the cache.
TranslateCovers ==
  host = "poll" /\ regs.status # {} /\ job.op = "translate" =>
    \A a \in JobRange(job) : Cached(atc, a)

\* What the tests check by eye: when wait_for_done() returns, the command has
\* had its effect on exactly the words the host meant, through translations
\* made at different times, in regions of different lengths.
ResultRight ==
  host = "poll" /\ regs.status # {} =>
    CASE job.op = "read"  -> regs.value = job.data
      [] job.op = "write" -> Content(Place(job.addr)) = job.data
      [] job.op = "translate" -> TranslateCovers
      [] OTHER -> "ERR" \in regs.status \/
                  regs.digest = [k \in 1 .. job.len |->
                                   Content(Place(job.addr + k - 1))]

\* Every command of a mapped buffer comes to an end: wait_for_done() returns.
CommandEnds == host = "poll" ~> host = "idle"

=============================================================================
