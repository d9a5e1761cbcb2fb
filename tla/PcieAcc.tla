------------------------------- MODULE PcieAcc -------------------------------
(***************************************************************************)
(* The PCIe accelerator of the ATS demo (src/pcie-ats-demo/pcie-acc.h): a  *)
(* PCI device with one BAR of registers, four command threads and an       *)
(* address translation cache (ATC) that is filled by ATS requests and      *)
(* emptied by ATS invalidations.                                           *)
(*                                                                         *)
(* SystemC schedules its processes cooperatively, so one action is the     *)
(* code a process runs between two points where it gives up control: a     *)
(* wait() or a b_transport into another module (an ATS request, a DMA      *)
(* access).  The handlers bar_b_transport and b_transport_ats_inv never    *)
(* block, so each is one action.                                           *)
(*                                                                         *)
(* The host, the IOMMU, the remote-port link and the memory are not in     *)
(* src/; they are modelled from what the device asks of them.  Here the    *)
(* host writes any register at any time; PcieDriver has the host that the  *)
(* programs of the repository implement.                                   *)
(*                                                                         *)
(* Addresses count 4-byte words, the unit of the read and write commands.  *)
(***************************************************************************)
EXTENDS Integers, Sequences, FiniteSets

CONSTANTS
  PageSize,      \* SZ_4K, in words
  WordMod,       \* 2^64: unsigned long arithmetic wraps at it
  Pages,         \* the virtual pages the IOMMU may map
  PhysAddrs,     \* the words of physical memory
  InitMem,       \* what they hold at the start
  RegionSizes,   \* the lengths an ATS reply may have: powers of two pages
  Data,          \* the values of a memory word
  Attrs,         \* the permissions a translation may carry
  Mappings,      \* the buffers the host may map: [page, n, phys, attr]
  AddrIns,       \* what the host writes to R_ADDR_MSB:R_ADDR_LSB
  LengthIns,     \* what the host writes to R_LENGTH
  CtrlIns,       \* the sets of bits it writes to R_CTRL
  MaxRegions,    \* bound: no command starts with as many entries in the ATC
  MaxBusy,       \* bound: nor with as many threads at work
  MaxInv         \* bound: invalidations in flight

Threads == {"translate", "read", "write", "md5"}
Unmapped == [phys |-> -1, attr |-> {}]

ASSUME PageSizeAssumption == PageSize \in Nat \ {0}
ASSUME WordModAssumption == WordMod \in Nat /\ WordMod > PageSize
ASSUME PagesAssumption == Pages \subseteq Nat
ASSUME PhysAddrsAssumption == PhysAddrs \subseteq Nat
ASSUME RegionSizesAssumption ==
  \A n \in RegionSizes : n \in Nat /\ n >= PageSize /\ n % PageSize = 0
ASSUME DataAssumption == 0 \in Data
ASSUME InitMemAssumption == InitMem \in [PhysAddrs -> Data]
ASSUME AttrsAssumption == {"R", "W"} \subseteq Attrs
ASSUME MappingsAssumption ==
  Mappings \subseteq [page : Nat, n : Nat, phys : Nat, attr : SUBSET Attrs]
ASSUME InputsAssumption ==
  /\ AddrIns \subseteq Nat
  /\ LengthIns \subseteq Nat
  /\ CtrlIns \subseteq SUBSET Threads

VARIABLES
  regs,      \* the registers; addr is R_ADDR_MSB:R_ADDR_LSB
  pc,        \* where each thread is
  virt,      \* its virt_addr (addr in ats_req_thread)
  left,      \* its len (length in ats_req_thread)
  want,      \* the locals of do_ats_req: the range still to be translated
  answer,    \* the reply to its ATS request
  access,    \* the DMA access it is blocked in
  ctx,       \* the words given to MD5_Update so far
  atc,       \* ATC::m_regions
  iommu,     \* what each virtual page is mapped to
  inv,       \* invalidations on their way to the device
  mem,       \* physical memory
  granted    \* history: every translation the IOMMU has given

devVars == <<regs, pc, virt, left, want, answer, access, ctx, atc>>
envVars == <<iommu, inv, mem, granted>>
vars == <<devVars, envVars>>

Region == [virt : Nat, phys : Nat, len : Nat \ {0}, attr : SUBSET Attrs]
Answer == [ok : BOOLEAN, phys : Nat, len : Nat, attr : SUBSET Attrs]
Access == [virt : Nat, phys : Nat, len : Nat, kind : {"R", "W"}, data : Data]

NoAnswer == [ok |-> FALSE, phys |-> 0, len |-> 0, attr |-> {}]
NoAccess == [virt |-> 0, phys |-> 0, len |-> 0, kind |-> "R", data |-> 0]

TypeOK ==
  /\ regs \in [addr : Nat, length : Nat, value : Data,
               status : SUBSET {"DONE", "ERR"}, digest : Seq(Data)]
  /\ pc \in [Threads -> {"wait", "ready", "ats", "answered", "dma"}]
  /\ virt \in [Threads -> Nat]
  /\ left \in [Threads -> Nat]
  /\ want \in [Threads -> [virt : Nat, len : Nat]]
  /\ answer \in [Threads -> Answer]
  /\ access \in [Threads -> Access]
  /\ ctx \in Seq(Data)
  /\ atc \in Seq(Region)
  /\ iommu \in [Pages -> [phys : Nat, attr : SUBSET Attrs] \cup {Unmapped}]
  /\ inv \in Seq([virt : Nat, len : Nat])
  /\ mem \in [PhysAddrs -> Data]
  /\ granted \subseteq Region

-----------------------------------------------------------------------------
(* MemoryRegion and the look-ups of the ATC.                                *)

Align(a, n) == n * (a \div n)

Contains(r, a) == a >= r.virt /\ a < r.virt + r.len

\* Mutant: the offset in the page for the offset in the region
PageOffset(r, a) == r.phys + (a % PageSize)

\* m_phys_addr | (virt_addr & m_mask): the translation is aligned to its length
PhysOf(r, a) == r.phys + (a % r.len)

\* Entry i is the one the loops over m_regions stop at.
FirstHit(s, a, i) ==
  /\ i \in DOMAIN s
  /\ Contains(s[i], a)
  /\ \A j \in DOMAIN s : j < i => ~Contains(s[j], a)

Cached(s, a) == \E i \in DOMAIN s : Contains(s[i], a)

TestAttr(s, a, perm) ==
  \E i \in DOMAIN s : FirstHit(s, a, i) /\ perm \in s[i].attr

InRange(a, start, n) == a >= start /\ a < start + n

\* Mutants: only the page that the range starts in is looked at; only the
\* address after the end of the entry is.
InvalidatedFirstPage(r, start, n) == InRange(r.virt, start, PageSize)
InvalidatedPastEnd(r, start, n) == InRange(r.virt + r.len, start, n)

Invalidated(r, start, n) ==
  \/ InRange(r.virt, start, n)
  \/ InRange(r.virt + r.len - 1, start, n)

\* The enumerations of a finite set of indices in increasing order: one.
InOrder(S) ==
  {f \in [1 .. Cardinality(S) -> S] :
     \A j, k \in 1 .. Cardinality(S) : j < k => f[j] < f[k]}

\* What do_ats_req adds to the cache for a reply to a request at address a.
RegionOf(a, ans) ==
  [virt |-> Align(a, ans.len), phys |-> ans.phys,
   len |-> ans.len, attr |-> ans.attr]

\* Mutants: one more request after a reply that ends where the range ends; a
\* longer reply is not taken for the last.
CoversMore(r, n) == r.len > n
CoversExactly(r, n) == r.len = n

\* r is the last translation that do_ats_req needs for n more words.
CoversRest(r, n) == r.len >= n

-----------------------------------------------------------------------------
(* The IOMMU, the link and the memory.                                      *)

\* The entry for the start of the aligned block of n words around a
First(a, n) == Align(a, n) \div PageSize
Leaf(a, n) == iommu[First(a, n)]

\* That block is mapped as one contiguous, aligned range.
Uniform(a, n) ==
  LET count == n \div PageSize
  IN /\ First(a, n) \in Pages
     /\ Leaf(a, n) # Unmapped
     /\ Leaf(a, n).phys % count = 0
     /\ \A k \in 0 .. count - 1 :
          /\ First(a, n) + k \in Pages
          /\ iommu[First(a, n) + k] = [Leaf(a, n) EXCEPT !.phys = @ + k]

\* The replies to a request at address a: any length the mapping allows
Answers(a) ==
  LET sizes == {n \in RegionSizes : Uniform(a, n)}
  IN IF sizes = {} THEN {NoAnswer}
     ELSE {[ok |-> TRUE, phys |-> Leaf(a, n).phys * PageSize,
            len |-> n, attr |-> Leaf(a, n).attr] : n \in sizes}

PagesOf(m) == m.page .. (m.page + m.n - 1)

Content(a) == IF a \in PhysAddrs THEN mem[a] ELSE 0

-----------------------------------------------------------------------------
(* How a thread gives up control.  Each of the three outcomes sets pc,      *)
(* regs, virt, left, want and access; the locals die with the command.      *)

Complete(t, r) ==
  /\ pc' = [pc EXCEPT ![t] = "wait"]
  /\ regs' = r
  /\ virt' = [virt EXCEPT ![t] = 0]
  /\ left' = [left EXCEPT ![t] = 0]
  /\ want' = [want EXCEPT ![t] = [virt |-> 0, len |-> 0]]
  /\ access' = [access EXCEPT ![t] = NoAccess]

\* do_ats_req(a, size): the request is aligned to the page, then sent.
SendAts(t, a, n, size) ==
  /\ pc' = [pc EXCEPT ![t] = "ats"]
  /\ virt' = [virt EXCEPT ![t] = a]
  /\ left' = [left EXCEPT ![t] = n]
  /\ want' = [want EXCEPT ![t] = [virt |-> Align(a, PageSize),
                                 len |-> size + (a % PageSize)]]
  /\ UNCHANGED <<regs, access>>

\* phys_read or phys_write32: size words from phys, the translation of a.
Issue(t, a, phys, n, size, kind) ==
  /\ pc' = [pc EXCEPT ![t] = "dma"]
  /\ virt' = [virt EXCEPT ![t] = a]
  /\ left' = [left EXCEPT ![t] = n]
  /\ access' = [access EXCEPT ![t] =
       [virt |-> a, phys |-> phys, len |-> size,
        kind |-> kind, data |-> regs.value]]
  /\ UNCHANGED <<regs, want>>

Status(st) == [regs EXCEPT !.status = st]

-----------------------------------------------------------------------------
(* The threads.  s is the cache at the time of the step: the fill that ends *)
(* do_ats_req and the code up to the next blocking call are one step.       *)

\* read_thread, write_thread after the look-up
Transfer(t, s, a) ==
  LET perm == IF t = "read" THEN "R" ELSE "W"
  IN IF TestAttr(s, a, perm)
     THEN \E i \in DOMAIN s :
            FirstHit(s, a, i) /\ Issue(t, a, PhysOf(s[i], a), 1, 1, perm)
     ELSE Complete(t, Status({"DONE"}))

\* The loop of ats_req_thread, from address a with n words to go.  It stops
\* at the first page that is not in the cache.
Translate(t, s, a, n) ==
  LET pending == {k \in 0 .. n : /\ k * PageSize < n
                                 /\ ~Cached(s, a + k * PageSize)}
  IN IF pending = {}
     THEN Complete(t, Status({"DONE"}))
     ELSE \E k \in pending :
            /\ \A j \in pending : k <= j
            /\ SendAts(t, a + k * PageSize, n - k * PageSize, PageSize)

\* Mutant: a chunk is a page long wherever it starts.
Md5LenWhole(p, n) == IF n <= PageSize THEN n ELSE PageSize

\* md5_len at physical address p with n words to go.  It is unsigned: when
\* less is left than the offset in the page it wraps.
Md5Len(p, n) ==
  ((IF n <= PageSize THEN n ELSE PageSize) - (p % PageSize)) % WordMod

\* The body of the loop of md5_thread after the look-up
Md5Read(t, s, a, n) ==
  IF TestAttr(s, a, "R")
  THEN \E i \in DOMAIN s :
         /\ FirstHit(s, a, i)
         /\ LET p == PhysOf(s[i], a) IN Issue(t, a, p, n, Md5Len(p, n), "R")
  ELSE Complete(t, Status({"DONE", "ERR"}))

\* What a thread does at address a, n words to go, once a is in the cache s
Use(t, s, a, n) ==
  CASE t = "translate" -> IF n <= PageSize
                          THEN Complete(t, Status({"DONE"}))
                          ELSE Translate(t, s, a + PageSize, n - PageSize)
    [] t = "md5"       -> Md5Read(t, s, a, n)
    [] OTHER           -> Transfer(t, s, a)

\* The test of the cache and the request when the address is not in it
LookUp(t, s, a, n) ==
  IF Cached(s, a) THEN Use(t, s, a, n)
  ELSE SendAts(t, a, n, IF t = "md5" THEN n ELSE PageSize)

\* wait() returns: the thread reads the registers as they are now.
StartTranslate ==
  /\ pc["translate"] = "ready"
  /\ Translate("translate", atc, regs.addr, regs.length)
  /\ UNCHANGED <<answer, ctx, atc, envVars>>

StartTransfer(t) ==
  /\ t \in {"read", "write"}
  /\ pc[t] = "ready"
  /\ LookUp(t, atc, regs.addr, 1)
  /\ UNCHANGED <<answer, ctx, atc, envVars>>

StartMd5 ==
  /\ pc["md5"] = "ready"
  /\ \/ regs.length # 0 /\ LookUp("md5", atc, regs.addr, regs.length)
     \/ regs.length = 0 /\ Complete("md5", [regs EXCEPT !.status = {"DONE"},
                                                       !.digest = <<>>])
     \/ Complete("md5", Status({"DONE", "ERR"}))          \* MD5_Init fails
  /\ UNCHANGED <<answer, ctx, atc, envVars>>

\* The reply to an ATS request reaches do_ats_req: a failure is tried again,
\* a translation goes into the cache and the rest of the range is asked for.
Resume(t) ==
  /\ pc[t] = "answered"
  /\ answer' = [answer EXCEPT ![t] = NoAnswer]
  /\ IF ~answer[t].ok
     THEN /\ pc' = [pc EXCEPT ![t] = "ats"]
          /\ UNCHANGED <<regs, virt, left, want, access, ctx, atc>>
     ELSE LET r == RegionOf(want[t].virt, answer[t])
          IN /\ atc' = Append(atc, r)
             /\ IF CoversRest(r, want[t].len)
                THEN Use(t, atc', virt[t], left[t])
                ELSE /\ pc' = [pc EXCEPT ![t] = "ats"]
                     /\ want' = [want EXCEPT ![t] =
                                   [virt |-> r.virt + r.len,
                                    len |-> want[t].len - r.len]]
                     /\ UNCHANGED <<regs, virt, left, access>>
             /\ ctx' = IF t = "md5" /\ pc'[t] = "wait" THEN <<>> ELSE ctx
  /\ UNCHANGED envVars

\* phys_read32 returns
ReadDone ==
  /\ pc["read"] = "dma"
  /\ Complete("read", [regs EXCEPT !.value = Content(access["read"].phys),
                                   !.status = {"DONE"}])
  /\ UNCHANGED <<answer, ctx, atc, envVars>>

\* phys_write32 returns
WriteDone ==
  /\ pc["write"] = "dma"
  /\ mem' = [a \in PhysAddrs |-> IF a = access["write"].phys
                                THEN access["write"].data ELSE mem[a]]
  /\ Complete("write", Status({"DONE"}))
  /\ UNCHANGED <<answer, ctx, atc, iommu, inv, granted>>

\* phys_read returns to md5_thread.  A chunk longer than the buffer
\* data[SZ_4K] overruns the stack: the program does not go on from there.
Md5ReadDone ==
  LET x == access["md5"]
      hashed == ctx \o [i \in 1 .. x.len |-> Content(x.phys + i - 1)]
      n == (left["md5"] - x.len) % WordMod
  IN /\ pc["md5"] = "dma"
     /\ x.len <= PageSize
     /\ IF n = 0
        THEN Complete("md5", [regs EXCEPT !.status = {"DONE"},
                                          !.digest = hashed])
        ELSE LookUp("md5", atc, virt["md5"] + x.len, n)
     /\ ctx' = IF pc'["md5"] = "wait" THEN <<>> ELSE hashed
     /\ UNCHANGED <<answer, atc, envVars>>

-----------------------------------------------------------------------------
(* What reaches the device from outside.                                    *)

\* bar_b_transport, write to R_ADDR, R_MSB_ADDR, R_LENGTH, R_VAL, R_STATUS
BarWrite(reg, v) ==
  /\ regs' = [regs EXCEPT ![reg] = v]
  /\ UNCHANGED <<pc, virt, left, want, answer, access, ctx, atc, envVars>>

\* The thread that a write of the set of bits to R_CTRL notifies
Notified(bits) ==
  CASE "translate" \in bits -> "translate"
    [] "read" \in bits /\ "translate" \notin bits -> "read"
    [] "write" \in bits /\ bits \cap {"translate", "read"} = {} -> "write"
    [] OTHER -> "md5"

\* bar_b_transport, write to R_CTRL.  The notification is immediate: it is
\* lost when the thread is not in its wait().
BarWriteCtrl(bits) ==
  /\ bits # {}
  /\ Len(atc) < MaxRegions
  /\ Cardinality({t \in Threads : pc[t] # "wait"}) < MaxBusy
  /\ pc' = [pc EXCEPT ![Notified(bits)] = IF @ = "wait" THEN "ready" ELSE @]
  /\ UNCHANGED <<regs, virt, left, want, answer, access, ctx, atc, envVars>>

\* b_transport_ats_inv: the entries that are not hit stay, in their order.
AtsInvalidate ==
  LET keep == {i \in DOMAIN atc : ~Invalidated(atc[i], Head(inv).virt,
                                               Head(inv).len)}
  IN /\ inv # <<>>
     /\ inv' = Tail(inv)
     /\ \E f \in InOrder(keep) :
          atc' = [k \in 1 .. Cardinality(keep) |-> atc[f[k]]]
     /\ UNCHANGED <<regs, pc, virt, left, want, answer, access, ctx,
                    iommu, mem, granted>>

\* The IOMMU answers an ATS request.
AtsAnswer(t) ==
  /\ pc[t] = "ats"
  /\ \E ans \in Answers(want[t].virt) :
       /\ answer' = [answer EXCEPT ![t] = ans]
       /\ granted' = granted \cup
            (IF ans.ok THEN {RegionOf(want[t].virt, ans)} ELSE {})
  /\ pc' = [pc EXCEPT ![t] = "answered"]
  /\ UNCHANGED <<regs, virt, left, want, access, ctx, atc, iommu, inv, mem>>

\* The host maps a buffer (vfio iommu_map_dma)
MapDma(m) ==
  /\ PagesOf(m) \subseteq Pages
  /\ \A p \in PagesOf(m) : iommu[p] = Unmapped
  /\ iommu' = [p \in Pages |->
                IF p \in PagesOf(m)
                THEN [phys |-> m.phys + (p - m.page), attr |-> m.attr]
                ELSE iommu[p]]
  /\ UNCHANGED <<devVars, inv, mem, granted>>

\* and unmaps it (iommu_unmap_dma): an invalidation is sent to the device.
UnmapDma(m) ==
  /\ Len(inv) < MaxInv
  /\ \A p \in PagesOf(m) : p \in Pages /\ iommu[p] # Unmapped
  /\ iommu' = [p \in Pages |-> IF p \in PagesOf(m) THEN Unmapped ELSE iommu[p]]
  /\ inv' = Append(inv, [virt |-> m.page * PageSize, len |-> m.n * PageSize])
  /\ UNCHANGED <<devVars, mem, granted>>

-----------------------------------------------------------------------------
Init ==
  /\ regs = [addr |-> 0, length |-> 0, value |-> 0, status |-> {},
             digest |-> <<>>]
  /\ pc = [t \in Threads |-> "wait"]
  /\ virt = [t \in Threads |-> 0]
  /\ left = [t \in Threads |-> 0]
  /\ want = [t \in Threads |-> [virt |-> 0, len |-> 0]]
  /\ answer = [t \in Threads |-> NoAnswer]
  /\ access = [t \in Threads |-> NoAccess]
  /\ ctx = <<>>
  /\ atc = <<>>
  /\ iommu = [p \in Pages |-> Unmapped]
  /\ inv = <<>>
  /\ mem = InitMem
  /\ granted = {}

\* The processes of the device
ThreadStep ==
  \/ StartTranslate
  \/ \E t \in {"read", "write"} : StartTransfer(t)
  \/ StartMd5
  \/ \E t \in Threads : Resume(t)
  \/ ReadDone
  \/ WriteDone
  \/ Md5ReadDone

\* A host that writes any register at any time; to R_STATUS it writes 0.
BarStep ==
  \/ \E a \in AddrIns : BarWrite("addr", a)
  \/ \E n \in LengthIns : BarWrite("length", n)
  \/ \E d \in Data : BarWrite("value", d)
  \/ BarWrite("status", {})
  \/ \E bits \in CtrlIns : BarWriteCtrl(bits)

IommuStep ==
  \/ \E t \in Threads : AtsAnswer(t)
  \/ \E m \in Mappings : MapDma(m) \/ UnmapDma(m)

Next == ThreadStep \/ AtsInvalidate \/ BarStep \/ IommuStep

Spec == Init /\ [][Next]_vars

-----------------------------------------------------------------------------
(* Properties                                                               *)

\* The subtraction of pcie-acc.h:660 goes below zero: what is left to be hashed
\* is shorter than the offset of its start in the page.
Underflows(t) == t = "md5" /\ left[t] < access[t].virt % PageSize

\* Word k of access x is at the place that translation g gives it.
WithinGrant(g, x, k) ==
  /\ Contains(g, x.virt + k)
  /\ x.phys + k = PhysOf(g, x.virt + k)

\* Every word of a DMA access of a command goes to the place, and has the
\* permission, that the IOMMU gave in one translation of the command's own
\* virtual addresses, whatever the other threads put into the cache, remove
\* from it, or write to the registers while the thread was blocked in its ATS
\* request: a chunk "adjust[ed] to not cross SZ_4K boundaries" stays in its
\* page.  An access whose length underflows is longer than any translation;
\* of it this says only where it starts.
DmaGranted ==
  \A t \in Threads : pc[t] = "dma" =>
    \E g \in granted :
      /\ access[t].kind \in g.attr
      /\ WithinGrant(g, access[t], 0)
      /\ ~Underflows(t) =>
           \A k \in 0 .. access[t].len - 1 : WithinGrant(g, access[t], k)

=============================================================================
