-------------------------- MODULE PcieDriver_proofs --------------------------
(***************************************************************************)
(* Proofs about PcieAcc and PcieDriver, for every page size, every set of  *)
(* pages, buffers and register inputs.  The first part is about PcieAcc,   *)
(* with a host that may do anything: the types, and DmaGranted.  The       *)
(* second is about the drivers: their protocol (status to 0, command,      *)
(* poll) keeps one thread at work at a time and never loses a command.     *)
(***************************************************************************)
EXTENDS PcieDriver, FiniteSetTheorems, SequenceTheorems, WellFoundedInduction,
        TLAPS

USE DEF Threads

\* Aligning, and the offset within a block, stay in the natural numbers.
LEMMA AlignNat ==
  ASSUME NEW a \in Nat, NEW n \in Nat \ {0}
  PROVE  Align(a, n) \in Nat /\ a % n \in Nat
<1>1. a \div n \in Nat /\ a % n \in Nat
  BY Z3
<1>2. \A i, j \in Nat : i * j \in Nat
  BY Z3
<1> QED BY <1>1, <1>2 DEF Align

\* The translation of an address by a region is an address.
LEMMA PhysOfNat ==
  ASSUME NEW r \in Region, NEW a \in Nat
  PROVE  PhysOf(r, a) \in Nat
<1>1. r.phys \in Nat /\ r.len \in Nat \ {0}
  BY DEF Region
<1>2. a % r.len \in Nat
  BY <1>1, AlignNat
<1> QED BY <1>1, <1>2 DEF PhysOf

\* Every reply has the type of a reply, and a good one makes a region.
LEMMA AnswersType ==
  ASSUME TypeOK, NEW a \in Nat, NEW ans \in Answers(a)
  PROVE  ans \in Answer /\ (ans.ok => RegionOf(a, ans) \in Region)
<1>1. CASE ans = NoAnswer
  BY <1>1 DEF Answer, NoAnswer
<1>2. CASE ans # NoAnswer
  <2>1. PICK n \in RegionSizes :
           Uniform(a, n) /\ ans = [ok |-> TRUE, phys |-> Leaf(a, n).phys * PageSize,
                                   len |-> n, attr |-> Leaf(a, n).attr]
    BY <1>2 DEF Answers
  <2>2. n \in Nat \ {0}
    BY RegionSizesAssumption, PageSizeAssumption
  <2>3. Leaf(a, n) \in [phys : Nat, attr : SUBSET Attrs]
    BY <2>1 DEF Uniform, TypeOK, Leaf
  <2>4. \A i, j \in Nat : i * j \in Nat
    BY Z3
  <2>5. Leaf(a, n).phys * PageSize \in Nat
    BY <2>3, <2>4, PageSizeAssumption
  <2>6. ans \in Answer
    BY <2>1, <2>2, <2>3, <2>5 DEF Answer
  <2>7. RegionOf(a, ans) \in Region
    BY <2>1, <2>2, <2>3, <2>5, AlignNat DEF RegionOf, Region
  <2> QED BY <2>6, <2>7
<1> QED BY <1>1, <1>2

\* Unsigned arithmetic wraps to a natural number.
LEMMA WrapNat ==
  ASSUME NEW a \in Int, NEW n \in Nat \ {0}
  PROVE  a % n \in Nat
  BY Z3

-----------------------------------------------------------------------------
(* Arithmetic of pages                                                      *)

\* Quotient and rest
LEMMA Quotient ==
  ASSUME NEW n \in Nat \ {0}, NEW a \in Nat
  PROVE  /\ a \div n \in Nat /\ a % n \in 0 .. n - 1
         /\ a = (a \div n) * n + (a % n)
  BY Z3

LEMMA QuotientUnique ==
  ASSUME NEW n \in Nat \ {0}, NEW q \in Nat, NEW k \in 0 .. n - 1
  PROVE  (q * n + k) \div n = q /\ (q * n + k) % n = k
  BY Z3

\* A number is so many times another and a rest.
LEMMA Split ==
  ASSUME NEW n \in Nat \ {0}, NEW a \in Nat
  PROVE  \E q \in Nat, o \in 0 .. n - 1 :
           q = a \div n /\ o = a % n /\ a = q * n + o
  BY Quotient

\* Products
LEMMA TimesNat == ASSUME NEW i \in Nat, NEW j \in Nat PROVE i * j \in Nat
  BY Z3

LEMMA TimesInt == ASSUME NEW i \in Int, NEW j \in Int PROVE i * j \in Int
  BY Z3

LEMMA TimesDist ==
  ASSUME NEW n \in Nat, NEW i \in Int, NEW j \in Int
  PROVE  (i + j) * n = i * n + j * n /\ (i - j) * n = i * n - j * n
  BY Z3

LEMMA TimesOrder ==
  ASSUME NEW n \in Nat \ {0}, NEW i \in Int, NEW j \in Int
  PROVE  (i * n <= j * n <=> i <= j) /\ (i * n = j * n <=> i = j)
  BY Z3

-----------------------------------------------------------------------------
(* Pages.  A translation is current when it says what the IOMMU says of each *)
(* of its pages.                                                             *)

CurrentAt(r, f, c, p) ==
  /\ r.virt = f * PageSize /\ r.len = c * PageSize /\ r.phys = p * PageSize
  /\ r.virt % r.len = 0
  /\ \A k \in 0 .. c - 1 :
       f + k \in Pages /\ iommu[f + k] = [phys |-> p + k, attr |-> r.attr]

Current(r) == \E f, p \in Nat, c \in Nat \ {0} : CurrentAt(r, f, c, p)

\* An address is a page and an offset in it.
LEMMA PageOf ==
  ASSUME NEW a \in Nat
  PROVE  \E q \in Nat, o \in 0 .. PageSize - 1 :
           q = a \div PageSize /\ o = a % PageSize /\ a = q * PageSize + o
  BY PageSizeAssumption, Split

\* The page of an address in a block of pages
LEMMA PageIn ==
  ASSUME NEW f \in Nat, NEW c \in Nat \ {0}, NEW a \in Nat,
         a >= f * PageSize, a < f * PageSize + c * PageSize
  PROVE  (a \div PageSize) - f \in 0 .. c - 1
<1>1. PageSize \in Nat \ {0}
  BY PageSizeAssumption
<1>2. PICK q \in Nat, k \in 0 .. PageSize - 1 : 
         q = a \div PageSize /\ k = a % PageSize /\ a = q * PageSize + k
  BY PageOf
<1>3. q * PageSize \in Nat /\ f * PageSize \in Nat /\ c * PageSize \in Nat
  BY <1>1, TimesNat
<1>4. (q + 1) * PageSize = q * PageSize + PageSize
  <2>1. (q + 1) * PageSize = q * PageSize + 1 * PageSize
    BY <1>1, TimesDist
  <2> QED BY <1>1, <2>1
<1>5. (f + c) * PageSize = f * PageSize + c * PageSize
  BY <1>1, TimesDist
<1>6. f * PageSize < (q + 1) * PageSize /\ q * PageSize < (f + c) * PageSize
  BY <1>1, <1>2, <1>3, <1>4, <1>5
<1>7. ~((q + 1) * PageSize <= f * PageSize) /\ ~((f + c) * PageSize <= q * PageSize)
  BY <1>1, <1>3, <1>4, <1>5, <1>6
<1>8. ~(q + 1 <= f) /\ ~(f + c <= q)
  BY <1>1, <1>7, TimesOrder
<1> QED BY <1>2, <1>8

LEMMA TimesSwap ==
  ASSUME NEW i \in Nat, NEW j \in Nat, NEW k \in Nat
  PROVE  (i * j) * k = (i * k) * j /\ i * j = j * i
  BY Z3

LEMMA SmallMod ==
  ASSUME NEW n \in Nat \ {0}, NEW k \in Nat, k < n
  PROVE  k % n = k
  BY Z3

\* The offset in an aligned block
LEMMA BlockOffset ==
  ASSUME NEW v \in Nat, NEW n \in Nat \ {0}, v % n = 0,
         NEW a \in Nat, a >= v, a < v + n
  PROVE  a % n = a - v
<1>1. PICK b \in Nat : v = b * n + (v % n)
  BY Quotient
<1>2. b * n \in Nat
  BY TimesNat
<1>3. PICK d \in 0 .. n - 1 : d = a - v
  OBVIOUS
<1>4. (b * n + d) % n = d
  BY QuotientUnique
<1>5. v = b * n /\ a = v + d
  BY <1>1, <1>2, <1>3
<1> QED BY <1>3, <1>4, <1>5

\* The words behind an address in its page
LEMMA SamePage ==
  ASSUME NEW a \in Nat, NEW k \in Nat, (a % PageSize) + k < PageSize
  PROVE  (a + k) \div PageSize = a \div PageSize /\ (a + k) % PageSize = (a % PageSize) + k
<1>1. PICK q \in Nat, o \in 0 .. PageSize - 1 :
         q = a \div PageSize /\ o = a % PageSize /\ a = q * PageSize + o
  BY PageOf
<1>2. PageSize \in Nat \ {0} /\ q * PageSize \in Nat
  BY PageSizeAssumption, TimesNat
<1>3. PICK d \in 0 .. PageSize - 1 : d = o + k
  BY <1>1, <1>2
<1>4. (q * PageSize + d) \div PageSize = q /\ (q * PageSize + d) % PageSize = d
  BY <1>2, QuotientUnique
<1>5. a + k = q * PageSize + d
  BY <1>1, <1>2, <1>3
<1> QED BY <1>1, <1>3, <1>4, <1>5

\* What a current translation says of a word is what the IOMMU says.
LEMMA CurrentWords ==
  ASSUME NEW r \in Region, Current(r), NEW a \in Nat, Contains(r, a)
  PROVE  Mapped(a) /\ Place(a) = PhysOf(r, a)
         /\ r.attr = iommu[a \div PageSize].attr
<1>1. PICK f \in Nat, p \in Nat, c \in Nat \ {0} : CurrentAt(r, f, c, p)
  BY DEF Current
<1>2. PageSize \in Nat \ {0} /\ r.virt \in Nat /\ r.len \in Nat \ {0}
  BY PageSizeAssumption DEF Region
<1>3. PICK q \in Nat, o \in 0 .. PageSize - 1 :
         q = a \div PageSize /\ o = a % PageSize /\ a = q * PageSize + o
  BY PageOf
<1>4. PICK k \in 0 .. c - 1 : f + k = q
  <2>1. a >= f * PageSize /\ a < f * PageSize + c * PageSize
    BY <1>1 DEF CurrentAt, Contains
  <2>2. q - f \in 0 .. c - 1
    BY <1>3, <2>1, PageIn, Zenon
  <2>3. f + (q - f) = q
    BY <1>3
  <2> QED BY <2>2, <2>3, Zenon
<1>5. q \in Pages /\ iommu[q] = [phys |-> p + k, attr |-> r.attr]
  <2>1. f + k \in Pages /\ iommu[f + k] = [phys |-> p + k, attr |-> r.attr]
    BY <1>1, Zenon DEF CurrentAt
  <2> QED BY <1>4, <2>1, Zenon
<1>6. iommu[q] # Unmapped
  BY <1>5 DEF Unmapped
<1>7. PICK v \in Nat, n \in Nat \ {0} : v = r.virt /\ n = r.len
  BY <1>2
<1>8. a % n = a - v
  BY <1>1, <1>7, BlockOffset DEF CurrentAt, Contains
<1>9. a - r.virt = k * PageSize + o
  <2>1. q * PageSize = f * PageSize + k * PageSize
    BY <1>2, <1>3, <1>4, TimesDist
  <2>2. f * PageSize \in Nat /\ k * PageSize \in Nat
    BY <1>2, <1>4, TimesNat
  <2> QED BY <1>1, <1>2, <1>3, <2>1, <2>2 DEF CurrentAt
<1>10. (p + k) * PageSize = p * PageSize + k * PageSize
      /\ p * PageSize \in Nat /\ k * PageSize \in Nat
  BY <1>2, <1>4, TimesDist, TimesNat
<1>11. Place(a) = PhysOf(r, a)
  BY <1>1, <1>2, <1>3, <1>5, <1>7, <1>9, <1>10, <1>8 DEF Place, PhysOf, CurrentAt
<1> QED BY <1>3, <1>5, <1>6, <1>11 DEF Mapped

\* A good reply says what the IOMMU says, and is about the address asked for.
LEMMA AnswersCurrent ==
  ASSUME TypeOK, NEW a \in Nat, NEW ans \in Answers(a), ans.ok
  PROVE  Current(RegionOf(a, ans)) /\ Contains(RegionOf(a, ans), a)
<1>1. PICK n \in RegionSizes :
         Uniform(a, n) /\ ans = [ok |-> TRUE, phys |-> Leaf(a, n).phys * PageSize,
                                 len |-> n, attr |-> Leaf(a, n).attr]
  BY DEF Answers, NoAnswer
<1>2. PageSize \in Nat \ {0} /\ n \in Nat \ {0} /\ n % PageSize = 0 /\ n >= PageSize
  BY RegionSizesAssumption, PageSizeAssumption
<1>3. PICK c \in Nat \ {0} : c = n \div PageSize /\ n = c * PageSize
  <2>1. /\ n \div PageSize \in Nat
        /\ n = (n \div PageSize) * PageSize + (n % PageSize)
    BY <1>2, Quotient
  <2>2. PICK c \in Nat : c = n \div PageSize
    BY <2>1
  <2>3. c * PageSize \in Nat
    BY <1>2, TimesNat
  <2>4. n = c * PageSize
    BY <1>2, <2>1, <2>2, <2>3
  <2>5. c # 0
    <3>1. 0 * PageSize = 0
      BY <1>2
    <3> QED BY <1>2, <2>4, <3>1
  <2> QED BY <2>2, <2>4, <2>5
<1>4. PICK q \in Nat, o \in 0 .. n - 1 : q = a \div n /\ o = a % n /\ a = q * n + o
  BY <1>2, Split
<1>5. PICK f \in Nat : f = c * q
  BY TimesNat
<1>6. Align(a, n) = f * PageSize /\ Align(a, n) = q * n
  <2>1. Align(a, n) = n * q
    BY <1>4 DEF Align
  <2>2. n * q = (c * PageSize) * q
    BY <1>3
  <2>3. (c * PageSize) * q = (c * q) * PageSize /\ n * q = q * n
    BY <1>2, TimesSwap
  <2> QED BY <1>5, <2>1, <2>2, <2>3
<1>7. First(a, n) = f
  <2>1. (f * PageSize + 0) \div PageSize = f
    BY <1>2, QuotientUnique
  <2>2. f * PageSize + 0 = f * PageSize
    BY <1>2, TimesNat
  <2> QED BY <1>6, <2>1, <2>2 DEF First
<1>8. Align(a, n) % n = 0
  <2>1. (q * n + 0) % n = 0
    BY <1>2, QuotientUnique
  <2>2. q * n + 0 = q * n
    BY <1>2, TimesNat
  <2> QED BY <1>6, <2>1, <2>2
<1>9. iommu[f] \in [phys : Nat, attr : SUBSET Attrs]
  BY <1>1, <1>7 DEF Uniform, Leaf, TypeOK
<1>10. PICK p \in Nat : p = iommu[f].phys
  BY <1>9
<1>11. Leaf(a, n) = [phys |-> p, attr |-> iommu[f].attr]
  BY <1>7, <1>9, <1>10 DEF Leaf
<1>12. \A k \in 0 .. c - 1 :
          f + k \in Pages /\ iommu[f + k] = [phys |-> p + k, attr |-> iommu[f].attr]
  <2>1. TAKE k \in 0 .. c - 1
  <2>2. First(a, n) + k \in Pages
        /\ iommu[First(a, n) + k] = [Leaf(a, n) EXCEPT !.phys = @ + k]
    BY <1>1, <1>3, <2>1 DEF Uniform
  <2>3. f + k \in Pages /\ iommu[f + k] = [Leaf(a, n) EXCEPT !.phys = @ + k]
    BY <1>7, <2>2
  <2>4. [Leaf(a, n) EXCEPT !.phys = @ + k] = [phys |-> p + k, attr |-> iommu[f].attr]
    BY <1>11
  <2> QED BY <2>3, <2>4
<1>13. RegionOf(a, ans) = [virt |-> f * PageSize, phys |-> p * PageSize,
                           len |-> n, attr |-> iommu[f].attr]
  BY <1>1, <1>6, <1>11 DEF RegionOf
<1>14. CurrentAt(RegionOf(a, ans), f, c, p)
  BY <1>3, <1>6, <1>8, <1>12, <1>13 DEF CurrentAt
<1>15. Contains(RegionOf(a, ans), a)
  <2>1. q * n \in Nat
    BY <1>2, TimesNat
  <2> QED BY <1>2, <1>4, <1>6, <1>13, <2>1 DEF Contains
<1> QED BY <1>14, <1>15 DEF Current

-----------------------------------------------------------------------------
(* Translations are whole pages, as long as they are aligned to.            *)

OnPages(g) ==
  \E f, p \in Nat, c \in Nat \ {0} :
    /\ g.virt = f * PageSize /\ g.len = c * PageSize /\ g.phys = p * PageSize
    /\ g.virt % g.len = 0

LEMMA CurrentOnPages == ASSUME NEW g, Current(g) PROVE OnPages(g)
  BY DEF Current, CurrentAt, OnPages

\* So the rest of a page is translated as its first word is.
LEMMA GrantWords ==
  ASSUME NEW g \in Region, OnPages(g), NEW a \in Nat, Contains(g, a)
  PROVE  /\ PhysOf(g, a) % PageSize = a % PageSize
         /\ \A k \in Nat : (a % PageSize) + k < PageSize =>
              Contains(g, a + k) /\ PhysOf(g, a) + k = PhysOf(g, a + k)
<1>1. PICK f \in Nat, p \in Nat, c \in Nat \ {0} :
         /\ g.virt = f * PageSize /\ g.len = c * PageSize /\ g.phys = p * PageSize
         /\ g.virt % g.len = 0
  BY DEF OnPages
<1>2. PageSize \in Nat \ {0}
  BY PageSizeAssumption
<1>3. PICK q \in Nat, o \in 0 .. PageSize - 1 :
         q = a \div PageSize /\ o = a % PageSize /\ a = q * PageSize + o
  BY PageOf
<1>4. PICK v \in Nat, n \in Nat \ {0}, h \in Nat :
         v = g.virt /\ n = g.len /\ h = g.phys
  BY DEF Region
<1>5. PICK j \in 0 .. c - 1 : j = q - f
  <2>1. a >= f * PageSize /\ a < f * PageSize + c * PageSize
    BY <1>1 DEF Contains
  <2> QED BY <1>3, <2>1, PageIn, Zenon
<1>6. PICK e \in Nat : e = j * PageSize /\ e + PageSize <= n
  <2>1. j * PageSize \in Nat /\ (j + 1) * PageSize = j * PageSize + 1 * PageSize
    BY <1>2, <1>5, TimesNat, TimesDist
  <2>2. (j + 1) * PageSize <= c * PageSize
    BY <1>2, <1>5, TimesOrder
  <2> QED BY <1>1, <1>2, <1>4, <2>1, <2>2
<1>7. a = v + e + o
  <2>1. f + j = q
    BY <1>5
  <2>2. q * PageSize = f * PageSize + j * PageSize
    BY <1>2, <1>5, <2>1, TimesDist
  <2>3. q * PageSize = v + e
    BY <1>1, <1>4, <1>6, <2>2
  <2> QED BY <1>3, <2>3
<1>8. ASSUME NEW k \in Nat, o + k < PageSize
      PROVE  Contains(g, a + k) /\ PhysOf(g, a + k) = h + e + o + k
  <2>1. a + k >= v /\ a + k < v + n /\ a + k \in Nat
    BY <1>2, <1>6, <1>7, <1>8
  <2>2. v % n = 0
    BY <1>1, <1>4
  <2>3. (a + k) % n = (a + k) - v
    BY <2>1, <2>2, BlockOffset
  <2>4. PhysOf(g, a + k) = h + ((a + k) - v)
    BY <1>4, <2>3 DEF PhysOf
  <2>5. h + ((a + k) - v) = h + e + o + k
    BY <1>6, <1>7
  <2>6. Contains(g, a + k)
    BY <1>4, <2>1 DEF Contains
  <2> QED BY <2>4, <2>5, <2>6
<1>9. PhysOf(g, a) = h + e + o
  <2>1. 0 \in Nat /\ o + 0 < PageSize
    BY <1>2
  <2>2. PhysOf(g, a + 0) = h + e + o + 0
    BY <1>8, <2>1
  <2>3. a + 0 = a
    OBVIOUS
  <2> QED BY <2>2, <2>3
<1>10. PhysOf(g, a) % PageSize = o
  <2>1. ((p + j) * PageSize + o) % PageSize = o
    BY <1>2, QuotientUnique
  <2>2. (p + j) * PageSize = h + e
    BY <1>1, <1>2, <1>4, <1>5, <1>6, TimesDist
  <2> QED BY <1>9, <2>1, <2>2
<1>11. ASSUME NEW k \in Nat, (a % PageSize) + k < PageSize
       PROVE  Contains(g, a + k) /\ PhysOf(g, a) + k = PhysOf(g, a + k)
  BY <1>3, <1>8, <1>9, <1>11
<1> QED BY <1>3, <1>10, <1>11

-----------------------------------------------------------------------------
(* The inductive invariant: everything a thread may use as a translation,   *)
(* in the cache or in a reply it has not looked at yet, was granted, and    *)
(* what is granted is whole pages.                                          *)

GrantsOnPages == \A g \in granted : OnPages(g)

AtcGranted == \A i \in DOMAIN atc : atc[i] \in granted

AnswerGranted ==
  \A t \in Threads : pc[t] = "answered" /\ answer[t].ok =>
    RegionOf(want[t].virt, answer[t]) \in granted

IInv == TypeOK /\ GrantsOnPages /\ AtcGranted /\ AnswerGranted /\ DmaGranted

\* Accesses that go on are as they were.
LEMMA DmaKept ==
  ASSUME DmaGranted, granted \subseteq granted',
         \A u \in Threads : pc'[u] = "dma" =>
           pc[u] = "dma" /\ access'[u] = access[u] /\ left'[u] = left[u]
  PROVE  DmaGranted'
  BY DEF DmaGranted, Underflows, WithinGrant

\* An access of so many words stays in its page, unless its length wraps.
Fits(t, a, n, size) ==
  ~(t = "md5" /\ n < a % PageSize) => (a % PageSize) + size <= PageSize

Regs == [addr : Nat, length : Nat, value : Data,
         status : SUBSET {"DONE", "ERR"}, digest : Seq(Data)]

\* The part of TypeOK that the outcomes of a thread's step set
LocalsOK ==
  /\ regs \in Regs
  /\ pc \in [Threads -> {"wait", "ready", "ats", "answered", "dma"}]
  /\ virt \in [Threads -> Nat]
  /\ left \in [Threads -> Nat]
  /\ want \in [Threads -> [virt : Nat, len : Nat]]
  /\ access \in [Threads -> Access]

\* Thread t gives up control: the others stay where they are, and t is either
\* back in its wait() with the status set, or blocked and the registers as
\* they were.
Yields(t) ==
  /\ \A u \in Threads \ {t} : pc'[u] = pc[u]
  /\ \/ pc'[t] = "wait" /\ "DONE" \in regs'.status
     \/ pc'[t] # "wait" /\ regs' = regs

\* No thread has a reply that it did not have.
NoNewReply ==
  \A u \in Threads : pc'[u] = "answered" => pc[u] = "answered" /\ want'[u] = want[u]

Moved(t) == pc[t] # "wait" /\ NoNewReply /\ Yields(t)

\* What every outcome establishes: types, DmaGranted, and no new reply
Outcome(t) ==
  /\ LocalsOK'
  /\ DmaGranted'
  /\ NoNewReply
  /\ Yields(t)

\* A command ends with registers of their type.
LEMMA CompleteOutcome ==
  ASSUME IInv, granted' = granted, NEW t \in Threads, NEW r \in Regs,
         "DONE" \in r.status, Complete(t, r)
  PROVE  Outcome(t)
<1> USE DEF IInv
<1>1. NoAccess \in Access
  BY DataAssumption DEF NoAccess, Access
<1>2. LocalsOK'
  BY <1>1 DEF LocalsOK, TypeOK, Complete
<1>3. ASSUME NEW u \in Threads, pc'[u] = "dma"
      PROVE  pc[u] = "dma" /\ access'[u] = access[u] /\ left'[u] = left[u]
  BY <1>3 DEF TypeOK, Complete
<1>4. DmaGranted'
  BY <1>3, DmaKept
<1>5. ASSUME NEW u \in Threads, pc'[u] = "answered"
      PROVE  pc[u] = "answered" /\ want'[u] = want[u]
  BY <1>5 DEF TypeOK, Complete
<1>6. Yields(t)
  BY DEF Yields, TypeOK, Complete
<1> QED BY <1>2, <1>4, <1>5, <1>6 DEF Outcome, NoNewReply

\* The same for a request
LEMMA SendAtsOutcome ==
  ASSUME IInv, granted' = granted, NEW t \in Threads,
         NEW a \in Nat, NEW n \in Nat, NEW size \in Nat, SendAts(t, a, n, size)
  PROVE  Outcome(t)
<1> USE DEF IInv
<1>1. Align(a, PageSize) \in Nat /\ size + (a % PageSize) \in Nat
  BY AlignNat, PageSizeAssumption
<1>2. LocalsOK'
  BY <1>1 DEF LocalsOK, TypeOK, SendAts, Regs
<1>3. ASSUME NEW u \in Threads, pc'[u] = "dma"
      PROVE  pc[u] = "dma" /\ access'[u] = access[u] /\ left'[u] = left[u]
  BY <1>3 DEF TypeOK, SendAts
<1>4. DmaGranted'
  BY <1>3, DmaKept
<1>5. ASSUME NEW u \in Threads, pc'[u] = "answered"
      PROVE  pc[u] = "answered" /\ want'[u] = want[u]
  BY <1>5 DEF TypeOK, SendAts
<1>6. Yields(t)
  BY DEF Yields, TypeOK, SendAts
<1> QED BY <1>2, <1>4, <1>5, <1>6 DEF Outcome, NoNewReply

\* An access through a granted region is granted.
LEMMA IssueOutcome ==
  ASSUME IInv, granted' = granted, NEW t \in Threads,
         NEW a \in Nat, NEW n \in Nat, NEW size \in Nat, NEW kind \in {"R", "W"},
         NEW g \in granted, Contains(g, a), kind \in g.attr, Fits(t, a, n, size),
         Issue(t, a, PhysOf(g, a), n, size, kind)
  PROVE  Outcome(t)
<1> USE DEF IInv
<1>1. PhysOf(g, a) \in Nat
  BY PhysOfNat DEF TypeOK
<1> DEFINE x == [virt |-> a, phys |-> PhysOf(g, a), len |-> size,
                 kind |-> kind, data |-> regs.value]
<1>2. x \in Access
  BY <1>1 DEF Access, TypeOK
<1>3. LocalsOK'
  BY <1>2 DEF LocalsOK, TypeOK, Issue, Regs
<1>4. /\ x.virt = a /\ x.phys = PhysOf(g, a) /\ x.len = size /\ x.kind = kind
  OBVIOUS
<1>5. access'[t] = x /\ left'[t] = n
  BY DEF Issue, TypeOK
<1> HIDE DEF x
<1>6. \A k \in Nat : (a % PageSize) + k < PageSize => WithinGrant(g, x, k)
  <2>1. g \in Region /\ OnPages(g)
    BY DEF TypeOK, GrantsOnPages
  <2> QED BY <1>4, <2>1, GrantWords DEF WithinGrant
<1>7. WithinGrant(g, x, 0)
  <2>1. a % PageSize \in Nat /\ a % PageSize < PageSize /\ PageSize \in Nat
    BY PageSizeAssumption, Quotient
  <2>2. (a % PageSize) + 0 < PageSize
    BY <2>1
  <2> QED BY <1>6, <2>2
<1>8. ASSUME ~(t = "md5" /\ n < x.virt % PageSize), NEW k \in 0 .. x.len - 1
      PROVE  WithinGrant(g, x, k)
  <2>1. (a % PageSize) + size <= PageSize
    BY <1>4, <1>8 DEF Fits
  <2>2. a % PageSize \in Nat /\ PageSize \in Nat /\ k \in Nat /\ k < size
    BY <1>4, PageSizeAssumption, Quotient
  <2>3. (a % PageSize) + k < PageSize
    BY <2>1, <2>2
  <2> QED BY <1>6, <2>2, <2>3
<1>9. ASSUME NEW u \in Threads, pc'[u] = "dma"
      PROVE  \E h \in granted' :
               /\ access'[u].kind \in h.attr
               /\ WithinGrant(h, access'[u], 0)
               /\ ~(u = "md5" /\ left'[u] < access'[u].virt % PageSize) =>
                    \A k \in 0 .. access'[u].len - 1 : WithinGrant(h, access'[u], k)
  <2>1. CASE u = t
    BY <1>4, <1>5, <1>7, <1>8, <2>1
  <2>2. CASE u # t
    <3>1. pc[u] = "dma" /\ access'[u] = access[u] /\ left'[u] = left[u]
      BY <1>9, <2>2 DEF Issue, TypeOK
    <3> QED BY <3>1 DEF DmaGranted, Underflows
  <2> QED BY <2>1, <2>2
<1>10. DmaGranted'
  BY <1>9 DEF DmaGranted, Underflows, WithinGrant
<1>11. ASSUME NEW u \in Threads, pc'[u] = "answered"
      PROVE  pc[u] = "answered" /\ want'[u] = want[u]
  BY <1>11 DEF TypeOK, Issue
<1>12. Yields(t)
  BY DEF Yields, TypeOK, Issue
<1> QED BY <1>3, <1>10, <1>11, <1>12 DEF Outcome, NoNewReply

\* A cache a thread may work from: typed, and every entry granted
GoodCache(s) == s \in Seq(Region) /\ \A i \in DOMAIN s : s[i] \in granted

\* Setting the status keeps the registers typed.
LEMMA StatusType ==
  ASSUME TypeOK, NEW st \in SUBSET {"DONE", "ERR"}
  PROVE  Status(st) \in Regs /\ Status(st).status = st
  BY DEF TypeOK, Status, Regs

\* The entry a look-up stops at translates the address it was looked up for.
LEMMA HitContains ==
  ASSUME NEW s, NEW a, NEW i \in DOMAIN s, FirstHit(s, a, i)
  PROVE  Contains(s[i], a)
  BY DEF FirstHit

\* Two entries a look-up may stop at are the same one.
LEMMA FirstHitUnique ==
  ASSUME NEW s \in Seq(Region), NEW a, NEW i \in DOMAIN s, NEW j \in DOMAIN s,
         FirstHit(s, a, i), FirstHit(s, a, j)
  PROVE  i = j
<1>1. i \in Nat /\ j \in Nat
  OBVIOUS
<1> QED BY <1>1 DEF FirstHit

\* read_thread and write_thread, once their address has been looked up
LEMMA TransferOutcome ==
  ASSUME IInv, granted' = granted, NEW t \in {"read", "write"},
         NEW s, GoodCache(s), NEW a \in Nat, Transfer(t, s, a)
  PROVE  Outcome(t)
<1> DEFINE perm == IF t = "read" THEN "R" ELSE "W"
<1>1. CASE TestAttr(s, a, perm)
  <2>1. PICK j \in DOMAIN s : FirstHit(s, a, j) /\ perm \in s[j].attr
    BY <1>1 DEF TestAttr
  <2>2. PICK i \in DOMAIN s :
           FirstHit(s, a, i) /\ Issue(t, a, PhysOf(s[i], a), 1, 1, perm)
    BY <1>1 DEF Transfer
  <2>3. i = j
    BY <2>1, <2>2, FirstHitUnique DEF GoodCache
  <2>4. s[i] \in granted /\ Contains(s[i], a)
    BY <2>2 DEF GoodCache, FirstHit
  <2>5. Fits(t, a, 1, 1)
    <3>1. a % PageSize \in 0 .. PageSize - 1 /\ PageSize \in Nat
      BY PageSizeAssumption, Quotient
    <3> QED BY <3>1 DEF Fits
  <2> QED BY <2>1, <2>2, <2>3, <2>4, <2>5, IssueOutcome
<1>2. CASE ~TestAttr(s, a, perm)
  <2>1. Complete(t, Status({"DONE"}))
    BY <1>2 DEF Transfer
  <2> QED BY <2>1, StatusType, CompleteOutcome DEF IInv
<1> QED BY <1>1, <1>2

\* A chunk that does not wrap ends with its page at the latest.
LEMMA Md5LenFits ==
  ASSUME NEW p \in Nat, NEW a \in Nat, NEW n \in Nat, p % PageSize = a % PageSize
  PROVE  Md5Len(p, n) \in Nat /\ Fits("md5", a, n, Md5Len(p, n))
<1>1. PICK o \in 0 .. PageSize - 1 : o = a % PageSize
  BY PageSizeAssumption, Quotient
<1>2. PICK whole \in 0 .. PageSize : whole = IF n <= PageSize THEN n ELSE PageSize
  BY PageSizeAssumption
<1>3. Md5Len(p, n) = (whole - o) % WordMod
  BY <1>1, <1>2 DEF Md5Len
<1>4. Md5Len(p, n) \in Nat
  <2>1. whole - o \in Int /\ WordMod \in Nat \ {0}
    BY <1>1, <1>2, PageSizeAssumption, WordModAssumption
  <2> QED BY <1>3, <2>1, WrapNat
<1>5. ASSUME ~(n < o) PROVE o + Md5Len(p, n) <= PageSize
  <2>1. whole - o \in Nat /\ whole - o < WordMod /\ WordMod \in Nat \ {0}
    BY <1>1, <1>2, <1>5, PageSizeAssumption, WordModAssumption
  <2>2. Md5Len(p, n) = whole - o
    BY <1>3, <2>1, SmallMod
  <2> QED BY <1>1, <1>2, <2>2, PageSizeAssumption
<1> QED BY <1>1, <1>4, <1>5 DEF Fits

\* md5_thread, once the address of a chunk has been looked up
LEMMA Md5ReadOutcome ==
  ASSUME IInv, granted' = granted, NEW s, GoodCache(s),
         NEW a \in Nat, NEW n \in Nat, Md5Read("md5", s, a, n)
  PROVE  Outcome("md5")
<1>1. CASE TestAttr(s, a, "R")
  <2>1. PICK j \in DOMAIN s : FirstHit(s, a, j) /\ "R" \in s[j].attr
    BY <1>1 DEF TestAttr
  <2>2. PICK i \in DOMAIN s :
           /\ FirstHit(s, a, i)
           /\ Issue("md5", a, PhysOf(s[i], a), n, Md5Len(PhysOf(s[i], a), n), "R")
    BY <1>1 DEF Md5Read
  <2>3. i = j
    BY <2>1, <2>2, FirstHitUnique DEF GoodCache
  <2>4. s[i] \in granted /\ Contains(s[i], a) /\ s[i] \in Region /\ OnPages(s[i])
    BY <2>2 DEF GoodCache, FirstHit, IInv, GrantsOnPages
  <2>5. PhysOf(s[i], a) \in Nat /\ PhysOf(s[i], a) % PageSize = a % PageSize
    BY <2>4, PhysOfNat, GrantWords
  <2>6. /\ Md5Len(PhysOf(s[i], a), n) \in Nat
        /\ Fits("md5", a, n, Md5Len(PhysOf(s[i], a), n))
    BY <2>5, Md5LenFits
  <2> QED BY <2>1, <2>2, <2>3, <2>4, <2>6, IssueOutcome
<1>2. CASE ~TestAttr(s, a, "R")
  <2>1. Complete("md5", Status({"DONE", "ERR"}))
    BY <1>2 DEF Md5Read
  <2> QED BY <2>1, StatusType, CompleteOutcome DEF IInv
<1> QED BY <1>1, <1>2

\* The loop of ats_req_thread
LEMMA TranslateOutcome ==
  ASSUME IInv, granted' = granted, NEW s, NEW a \in Nat, NEW n \in Nat,
         Translate("translate", s, a, n)
  PROVE  Outcome("translate")
<1> DEFINE pending == {k \in 0 .. n : /\ k * PageSize < n
                                     /\ ~Cached(s, a + k * PageSize)}
<1>1. CASE pending = {}
  <2>1. Complete("translate", Status({"DONE"}))
    BY <1>1 DEF Translate
  <2> QED BY <2>1, StatusType, CompleteOutcome DEF IInv
<1>2. CASE pending # {}
  <2>1. PICK k \in pending :
           SendAts("translate", a + k * PageSize, n - k * PageSize, PageSize)
    BY <1>2 DEF Translate
  <2>2. k \in Nat /\ k * PageSize < n
    OBVIOUS
  <2>3. \A i, j \in Nat : i * j \in Nat
    BY Z3
  <2>4. k * PageSize \in Nat
    BY <2>2, <2>3, PageSizeAssumption
  <2> HIDE DEF pending
  <2>5. a + k * PageSize \in Nat /\ n - k * PageSize \in Nat
    BY <2>2, <2>4
  <2>6. PageSize \in Nat
    BY PageSizeAssumption
  <2> QED BY <2>1, <2>5, <2>6, SendAtsOutcome
<1> QED BY <1>1, <1>2

\* Whatever a thread does with an address that is in the cache
LEMMA UseOutcome ==
  ASSUME IInv, granted' = granted, NEW t \in Threads, NEW s, GoodCache(s),
         NEW a \in Nat, NEW n \in Nat, Use(t, s, a, n)
  PROVE  Outcome(t)
<1>1. CASE t = "translate" /\ n <= PageSize
  <2>1. Complete(t, Status({"DONE"}))
    BY <1>1 DEF Use
  <2> QED BY <2>1, StatusType, CompleteOutcome DEF IInv
<1>2. CASE t = "translate" /\ ~(n <= PageSize)
  <2>1. Translate(t, s, a + PageSize, n - PageSize)
    BY <1>2 DEF Use
  <2>2. a + PageSize \in Nat /\ n - PageSize \in Nat
    BY <1>2, PageSizeAssumption
  <2> QED BY <1>2, <2>1, <2>2, TranslateOutcome
<1>3. CASE t = "md5"
  BY <1>3, Md5ReadOutcome DEF Use
<1>4. CASE t \in {"read", "write"}
  BY <1>4, TransferOutcome DEF Use
<1> QED BY <1>1, <1>2, <1>3, <1>4

\* The same with the test of the cache before it
LEMMA LookUpOutcome ==
  ASSUME IInv, granted' = granted, NEW t \in Threads, NEW s, GoodCache(s),
         NEW a \in Nat, NEW n \in Nat, LookUp(t, s, a, n)
  PROVE  Outcome(t)
<1>1. CASE Cached(s, a)
  BY <1>1, UseOutcome DEF LookUp
<1>2. CASE ~Cached(s, a)
  <2>1. SendAts(t, a, n, IF t = "md5" THEN n ELSE PageSize)
    BY <1>2 DEF LookUp
  <2> QED BY <2>1, SendAtsOutcome, PageSizeAssumption
<1> QED BY <1>1, <1>2

-----------------------------------------------------------------------------
(* Every action keeps the invariant.                                        *)

\* From the outcome of a thread's step and what the step does besides
LEMMA OutcomeInv ==
  ASSUME IInv, NEW t \in Threads, Outcome(t), UNCHANGED <<iommu, inv, granted>>,
         ctx' \in Seq(Data), mem' \in [PhysAddrs -> Data],
         atc' \in Seq(Region), \A i \in DOMAIN atc' : atc'[i] \in granted,
         answer' \in [Threads -> Answer],
         \A u \in Threads : answer'[u] = answer[u] \/ ~answer'[u].ok
  PROVE  IInv'
<1>1. TypeOK'
  BY DEF IInv, TypeOK, Outcome, LocalsOK, Regs
<1>2. AtcGranted'
  BY DEF AtcGranted
<1>3. AnswerGranted'
  BY DEF IInv, AnswerGranted, Outcome, NoNewReply
<1>4. DmaGranted'
  BY DEF Outcome
<1>5. GrantsOnPages'
  BY DEF IInv, GrantsOnPages
<1> QED BY <1>1, <1>2, <1>3, <1>4, <1>5 DEF IInv

\* The steps that leave the cache and the replies as they are
LEMMA QuietInv ==
  ASSUME IInv, NEW t \in Threads, Outcome(t), UNCHANGED <<answer, atc, iommu, inv, granted>>,
         ctx' \in Seq(Data), mem' \in [PhysAddrs -> Data]
  PROVE  IInv'
<1>1. /\ atc' \in Seq(Region) /\ \A i \in DOMAIN atc' : atc'[i] \in granted
      /\ answer' \in [Threads -> Answer]
  BY DEF IInv, TypeOK, AtcGranted
<1> QED BY <1>1, OutcomeInv

LEMMA AtcGood == ASSUME IInv PROVE GoodCache(atc)
  BY DEF IInv, TypeOK, AtcGranted, GoodCache

\* What memory returns is a word.
LEMMA ContentType == ASSUME TypeOK, NEW a PROVE Content(a) \in Data
  BY DataAssumption DEF TypeOK, Content

LEMMA StartInv ==
  ASSUME IInv, \/ StartTranslate
               \/ \E t \in {"read", "write"} : StartTransfer(t)
               \/ StartMd5
  PROVE  IInv' /\ \E t \in Threads : Moved(t)
<1>1. regs.addr \in Nat /\ regs.length \in Nat /\ ctx \in Seq(Data)
      /\ mem \in [PhysAddrs -> Data]
  BY DEF IInv, TypeOK
<1>2. CASE StartTranslate
  <2>1. Outcome("translate")
    BY <1>1, <1>2, TranslateOutcome DEF StartTranslate, envVars
  <2>2. Moved("translate")
    BY <1>2, <2>1 DEF StartTranslate, Moved, Outcome
  <2> QED BY <1>1, <1>2, <2>1, <2>2, QuietInv DEF StartTranslate, envVars
<1>3. ASSUME NEW t \in {"read", "write"}, StartTransfer(t)
      PROVE  IInv' /\ \E u \in Threads : Moved(u)
  <2>1. Outcome(t)
    BY <1>1, <1>3, AtcGood, LookUpOutcome DEF StartTransfer, envVars
  <2>2. Moved(t)
    BY <1>3, <2>1 DEF StartTransfer, Moved, Outcome
  <2> QED BY <1>1, <1>3, <2>1, <2>2, QuietInv DEF StartTransfer, envVars
<1>4. CASE StartMd5
  <2>1. UNCHANGED <<answer, ctx, atc, iommu, inv, mem, granted>>
    BY <1>4 DEF StartMd5, envVars
  <2>2. /\ [regs EXCEPT !.status = {"DONE"}, !.digest = <<>>] \in Regs
        /\ "DONE" \in [regs EXCEPT !.status = {"DONE"}, !.digest = <<>>].status
    <3>1. <<>> \in Seq(Data)
      BY EmptySeq
    <3> QED BY <3>1 DEF IInv, TypeOK, Regs
  <2>6. pc["md5"] # "wait"
    BY <1>4 DEF StartMd5
  <2>3. CASE LookUp("md5", atc, regs.addr, regs.length)
    <3>1. Outcome("md5")
      BY <1>1, <2>1, <2>3, AtcGood, LookUpOutcome
    <3> QED BY <1>1, <2>1, <2>6, <3>1, QuietInv DEF Moved, Outcome
  <2>4. CASE Complete("md5", [regs EXCEPT !.status = {"DONE"}, !.digest = <<>>])
    <3>1. Outcome("md5")
      BY <2>1, <2>2, <2>4, CompleteOutcome
    <3> QED BY <1>1, <2>1, <2>6, <3>1, QuietInv DEF Moved, Outcome
  <2>5. CASE Complete("md5", Status({"DONE", "ERR"}))
    <3>1. Outcome("md5")
      BY <2>1, <2>5, StatusType, CompleteOutcome DEF IInv
    <3> QED BY <1>1, <2>1, <2>6, <3>1, QuietInv DEF Moved, Outcome
  <2> QED BY <1>4, <2>3, <2>4, <2>5 DEF StartMd5
<1> QED BY <1>2, <1>3, <1>4

\* A reply goes into the cache only if it was granted.
LEMMA ResumeInv ==
  ASSUME IInv, NEW t \in Threads, Resume(t)
  PROVE  IInv' /\ Moved(t)
<1> DEFINE r == RegionOf(want[t].virt, answer[t])
<1>1. /\ answer' = [answer EXCEPT ![t] = NoAnswer]
      /\ UNCHANGED <<iommu, inv, mem, granted>>
      /\ pc[t] = "answered"
  BY DEF Resume, envVars
<1>2. /\ answer' \in [Threads -> Answer]
      /\ \A u \in Threads : answer'[u] = answer[u] \/ ~answer'[u].ok
      /\ mem' \in [PhysAddrs -> Data]
  BY <1>1 DEF IInv, TypeOK, NoAnswer, Answer
<1>3. /\ virt[t] \in Nat /\ left[t] \in Nat
      /\ want[t] \in [virt : Nat, len : Nat]
      /\ ctx \in Seq(Data) /\ <<>> \in Seq(Data)
  BY EmptySeq DEF IInv, TypeOK
<1>4. CASE ~answer[t].ok
  <2>1. pc' = [pc EXCEPT ![t] = "ats"]
        /\ UNCHANGED <<regs, virt, left, want, access, ctx, atc>>
    BY <1>4 DEF Resume
  <2>2. LocalsOK'
    BY <2>1 DEF IInv, TypeOK, LocalsOK, Regs
  <2>3. DmaGranted'
    BY <1>1, <2>1, DmaKept DEF IInv, TypeOK
  <2>4. ASSUME NEW u \in Threads, pc'[u] = "answered"
        PROVE  pc[u] = "answered" /\ want'[u] = want[u]
    BY <2>1, <2>4 DEF IInv, TypeOK
  <2>5. Outcome(t)
    BY <2>1, <2>2, <2>3, <2>4 DEF Outcome, NoNewReply, Yields, IInv, TypeOK
  <2>6. GoodCache(atc)
    BY AtcGood
  <2> QED BY <1>1, <1>2, <1>3, <2>1, <2>5, <2>6, OutcomeInv DEF GoodCache, Moved, Outcome
<1>5. CASE answer[t].ok
  <2>1. r \in granted
    BY <1>1, <1>5 DEF IInv, AnswerGranted
  <2>2. r \in Region /\ r.virt \in Nat /\ r.len \in Nat
    BY <2>1 DEF IInv, TypeOK, Region
  <2>3. /\ atc' = Append(atc, r)
        /\ ctx' = <<>> \/ ctx' = ctx
    BY <1>5 DEF Resume
  <2> HIDE DEF r
  <2>4. atc' \in Seq(Region) /\ \A i \in DOMAIN atc' : atc'[i] \in granted
    <3>1. /\ atc \in Seq(Region)
          /\ \A i \in 1 .. Len(atc) : atc[i] \in granted
      <4>1. atc \in Seq(Region) /\ AtcGranted
        BY DEF IInv, TypeOK
      <4> QED BY <4>1, LenProperties DEF AtcGranted
    <3>2. /\ atc' \in Seq(Region)
          /\ Len(atc') = Len(atc) + 1
          /\ \A i \in 1 .. Len(atc) : atc'[i] = atc[i]
          /\ atc'[Len(atc) + 1] = r
      BY <3>1, <2>2, <2>3, AppendProperties
    <3> QED BY <3>1, <3>2, <2>1, LenProperties
  <2>5. CASE r.len >= want[t].len
    <3>1. Use(t, atc', virt[t], left[t])
      BY <1>5, <2>5 DEF Resume, r, CoversRest
    <3>2. GoodCache(atc')
      BY <2>4 DEF GoodCache
    <3>3. Outcome(t)
      BY <1>1, <1>3, <3>1, <3>2, UseOutcome
    <3> QED BY <1>1, <1>2, <1>3, <2>3, <2>4, <3>3, OutcomeInv DEF Moved, Outcome
  <2>6. CASE ~(r.len >= want[t].len)
    <3>1. /\ pc' = [pc EXCEPT ![t] = "ats"]
          /\ want' = [want EXCEPT ![t] = [virt |-> r.virt + r.len,
                                         len |-> want[t].len - r.len]]
          /\ UNCHANGED <<regs, virt, left, access>>
      BY <1>5, <2>6 DEF Resume, r, CoversRest
    <3>2. /\ r.virt + r.len \in Nat
          /\ want[t].len - r.len \in Nat
      BY <1>3, <2>2, <2>6
    <3>3. LocalsOK'
      BY <3>1, <3>2 DEF IInv, TypeOK, LocalsOK, Regs
    <3>4. DmaGranted'
      BY <1>1, <3>1, DmaKept DEF IInv, TypeOK
    <3>5. ASSUME NEW u \in Threads, pc'[u] = "answered"
          PROVE  pc[u] = "answered" /\ want'[u] = want[u]
      BY <3>1, <3>5 DEF IInv, TypeOK
    <3>6. Outcome(t)
      BY <3>1, <3>3, <3>4, <3>5 DEF Outcome, NoNewReply, Yields, IInv, TypeOK
    <3> QED BY <1>1, <1>2, <1>3, <2>3, <2>4, <3>6, OutcomeInv DEF Moved, Outcome
  <2> QED BY <2>5, <2>6
<1> QED BY <1>4, <1>5

LEMMA DmaDoneInv ==
  ASSUME IInv, ReadDone \/ WriteDone \/ Md5ReadDone
  PROVE  IInv' /\ \E t \in Threads : Moved(t)
<1>1. /\ regs \in Regs /\ ctx \in Seq(Data) /\ mem \in [PhysAddrs -> Data]
      /\ access \in [Threads -> Access]
  BY DEF IInv, TypeOK, Regs
<1>2. CASE ReadDone
  <2>1. UNCHANGED <<answer, ctx, atc, iommu, inv, mem, granted>>
    BY <1>2 DEF ReadDone, envVars
  <2> DEFINE r == [regs EXCEPT !.value = Content(access["read"].phys),
                               !.status = {"DONE"}]
  <2>2. r \in Regs /\ "DONE" \in r.status
    <3>1. Content(access["read"].phys) \in Data
      BY ContentType DEF IInv
    <3> QED BY <1>1, <3>1 DEF Regs
  <2>3. Outcome("read")
    BY <1>2, <2>1, <2>2, CompleteOutcome DEF ReadDone
  <2> QED BY <1>1, <1>2, <2>1, <2>3, QuietInv DEF ReadDone, Moved, Outcome
<1>3. CASE WriteDone
  <2>1. UNCHANGED <<answer, ctx, atc, iommu, inv, granted>>
    BY <1>3 DEF WriteDone
  <2>2. access["write"].data \in Data
    BY <1>1 DEF Access
  <2>3. mem' \in [PhysAddrs -> Data]
    BY <1>1, <1>3, <2>2 DEF WriteDone
  <2>4. Outcome("write")
    BY <1>3, <2>1, StatusType, CompleteOutcome DEF WriteDone, IInv
  <2> QED BY <1>1, <1>3, <2>1, <2>3, <2>4, QuietInv DEF WriteDone, Moved, Outcome
<1>4. CASE Md5ReadDone
  <2> DEFINE x == access["md5"]
             chunk == [i \in 1 .. x.len |-> Content(x.phys + i - 1)]
             hashed == ctx \o chunk
             n == (left["md5"] - x.len) % WordMod
  <2>1. UNCHANGED <<answer, atc, iommu, inv, mem, granted>>
    BY <1>4 DEF Md5ReadDone, envVars
  <2>2. x.len \in Nat /\ virt["md5"] \in Nat /\ left["md5"] \in Nat
    BY DEF IInv, TypeOK, Access
  <2>3. chunk \in Seq(Data)
    <3>1. \A i \in 1 .. x.len : Content(x.phys + i - 1) \in Data
      BY ContentType DEF IInv
    <3> QED BY <2>2, <3>1, IsASeq
  <2>4. hashed \in Seq(Data)
    BY <1>1, <2>3, ConcatProperties
  <2>5. n \in Nat
    BY <2>2, WrapNat, PageSizeAssumption, WordModAssumption
  <2>6. virt["md5"] + x.len \in Nat
    BY <2>2
  <2>7. ctx' \in Seq(Data)
    <3>1. ctx' = <<>> \/ ctx' = hashed
      BY <1>4 DEF Md5ReadDone
    <3> QED BY <2>4, <3>1, EmptySeq
  <2>8. \/ Complete("md5", [regs EXCEPT !.status = {"DONE"}, !.digest = hashed])
        \/ LookUp("md5", atc, virt["md5"] + x.len, n)
    BY <1>4 DEF Md5ReadDone
  <2>9. /\ [regs EXCEPT !.status = {"DONE"}, !.digest = hashed] \in Regs
        /\ "DONE" \in [regs EXCEPT !.status = {"DONE"}, !.digest = hashed].status
    BY <1>1, <2>4 DEF Regs
  <2> HIDE DEF n, hashed, x
  <2>10. Outcome("md5")
    BY <2>1, <2>5, <2>6, <2>8, <2>9, AtcGood, CompleteOutcome, LookUpOutcome
  <2> QED BY <1>1, <1>4, <2>1, <2>7, <2>10, QuietInv DEF Md5ReadDone, Moved, Outcome
<1> QED BY <1>2, <1>3, <1>4

\* Removing entries keeps the rest granted.
LEMMA InvalidateInv ==
  ASSUME IInv, AtsInvalidate
  PROVE  IInv'
<1> DEFINE keep == {i \in DOMAIN atc : ~Invalidated(atc[i], Head(inv).virt,
                                                    Head(inv).len)}
           m == Cardinality(keep)
<1>1. /\ atc \in Seq(Region) /\ inv \in Seq([virt : Nat, len : Nat])
      /\ \A i \in DOMAIN atc : atc[i] \in Region /\ atc[i] \in granted
  BY DEF IInv, TypeOK, AtcGranted
<1>2. PICK f \in [1 .. m -> keep] : atc' = [k \in 1 .. m |-> atc[f[k]]]
  BY DEF AtsInvalidate, InOrder
<1>3. m \in Nat
  <2>1. IsFiniteSet(1 .. Len(atc))
    <3>1. Len(atc) \in Int /\ 1 \in Int
      BY <1>1, LenProperties
    <3> QED BY <3>1, FS_Interval
  <2>2. IsFiniteSet(keep)
    BY <1>1, <2>1, LenProperties, FS_Subset
  <2> QED BY <2>2, FS_CardinalityType
<1>4. keep \subseteq DOMAIN atc
  OBVIOUS
<1> HIDE DEF keep, m
<1>5. \A k \in 1 .. m : f[k] \in DOMAIN atc
  BY <1>2, <1>4
<1>6. /\ atc' \in Seq(Region)
      /\ \A i \in DOMAIN atc' : atc'[i] \in granted
  BY <1>1, <1>2, <1>3, <1>5, IsASeq
<1>7. inv' \in Seq([virt : Nat, len : Nat])
  BY <1>1, HeadTailProperties DEF AtsInvalidate
<1>8. UNCHANGED <<regs, pc, virt, left, want, answer, access, ctx,
                  iommu, mem, granted>>
  BY DEF AtsInvalidate
<1>9. TypeOK'
  BY <1>6, <1>7, <1>8 DEF IInv, TypeOK
<1>10. AtcGranted'
  BY <1>6, <1>8 DEF AtcGranted
<1>11. AnswerGranted' /\ DmaGranted' /\ GrantsOnPages'
  BY <1>8, DmaKept DEF IInv, AnswerGranted, GrantsOnPages
<1> QED BY <1>9, <1>10, <1>11 DEF IInv

\* What a register access leaves alone: nothing that a thread relies on moves.
BarEffect ==
  /\ regs' \in Regs
  /\ pc' \in [Threads -> {"wait", "ready", "ats", "answered", "dma"}]
  /\ \A u \in Threads : pc'[u] \in {"answered", "dma"} => pc'[u] = pc[u]
  /\ virt' = virt /\ left' = left /\ want' = want /\ answer' = answer
  /\ access' = access /\ ctx' = ctx /\ atc' = atc
  /\ iommu' = iommu /\ inv' = inv /\ mem' = mem /\ granted' = granted

LEMMA BarEffectInv ==
  ASSUME IInv, BarEffect
  PROVE  IInv'
<1>1. TypeOK'
  BY DEF BarEffect, IInv, TypeOK, Regs
<1>2. AtcGranted' /\ AnswerGranted' /\ DmaGranted' /\ GrantsOnPages'
  BY DmaKept DEF BarEffect, IInv, AtcGranted, AnswerGranted, GrantsOnPages
<1> QED BY <1>1, <1>2 DEF IInv

LEMMA BarWriteEffect ==
  ASSUME IInv, NEW reg, NEW v, [regs EXCEPT ![reg] = v] \in Regs, BarWrite(reg, v)
  PROVE  BarEffect
  BY DEF BarEffect, BarWrite, IInv, TypeOK, envVars

LEMMA BarCtrlEffect ==
  ASSUME IInv, NEW bits \in SUBSET Threads, BarWriteCtrl(bits)
  PROVE  BarEffect
<1>1. Notified(bits) \in Threads
  BY DEF Notified
<1> HIDE DEF Notified
<1> QED BY <1>1 DEF BarEffect, BarWriteCtrl, IInv, TypeOK, Regs, envVars

LEMMA BarInv ==
  ASSUME IInv, BarStep
  PROVE  IInv'
<1>1. ASSUME NEW a \in AddrIns, BarWrite("addr", a) PROVE BarEffect
  <2>1. [regs EXCEPT !.addr = a] \in Regs
    BY InputsAssumption DEF IInv, TypeOK, Regs
  <2> QED BY <1>1, <2>1, BarWriteEffect
<1>2. ASSUME NEW n \in LengthIns, BarWrite("length", n) PROVE BarEffect
  <2>1. [regs EXCEPT !.length = n] \in Regs
    BY InputsAssumption DEF IInv, TypeOK, Regs
  <2> QED BY <1>2, <2>1, BarWriteEffect
<1>3. ASSUME NEW d \in Data, BarWrite("value", d) PROVE BarEffect
  <2>1. [regs EXCEPT !.value = d] \in Regs
    BY DEF IInv, TypeOK, Regs
  <2> QED BY <1>3, <2>1, BarWriteEffect
<1>4. ASSUME BarWrite("status", {}) PROVE BarEffect
  <2>1. [regs EXCEPT !.status = {}] \in Regs
    BY DEF IInv, TypeOK, Regs
  <2> QED BY <1>4, <2>1, BarWriteEffect
<1>5. ASSUME NEW bits \in CtrlIns, BarWriteCtrl(bits) PROVE BarEffect
  BY <1>5, InputsAssumption, BarCtrlEffect
<1>6. BarEffect
  BY <1>1, <1>2, <1>3, <1>4, <1>5 DEF BarStep
<1> QED BY <1>6, BarEffectInv

\* A reply is granted when it is given.
LEMMA AnswerInv ==
  ASSUME IInv, NEW t \in Threads, AtsAnswer(t)
  PROVE  IInv'
<1>1. PICK ans \in Answers(want[t].virt) :
        /\ answer' = [answer EXCEPT ![t] = ans]
        /\ granted' = granted \cup
             (IF ans.ok THEN {RegionOf(want[t].virt, ans)} ELSE {})
  BY DEF AtsAnswer
<1>2. /\ pc' = [pc EXCEPT ![t] = "answered"]
      /\ UNCHANGED <<regs, virt, left, want, access, ctx, atc, iommu, inv, mem>>
  BY DEF AtsAnswer
<1>3. want[t].virt \in Nat
  BY DEF IInv, TypeOK
<1>4. ans \in Answer /\ (ans.ok => RegionOf(want[t].virt, ans) \in Region)
  BY <1>3, AnswersType DEF IInv
<1>5. TypeOK'
  <2>1. granted' \subseteq Region
    BY <1>1, <1>4 DEF IInv, TypeOK
  <2>2. answer' \in [Threads -> Answer]
    BY <1>1, <1>4 DEF IInv, TypeOK
  <2>3. pc' \in [Threads -> {"wait", "ready", "ats", "answered", "dma"}]
    BY <1>2 DEF IInv, TypeOK
  <2> QED BY <1>2, <2>1, <2>2, <2>3 DEF IInv, TypeOK
<1>6. AtcGranted'
  BY <1>1, <1>2 DEF IInv, AtcGranted
<1>7. AnswerGranted'
  <2>1. ASSUME NEW u \in Threads, pc'[u] = "answered", answer'[u].ok
        PROVE  RegionOf(want'[u].virt, answer'[u]) \in granted'
    <3>1. CASE u = t
      <4>1. answer'[u] = ans
        BY <1>1, <3>1 DEF IInv, TypeOK
      <4> QED BY <1>1, <1>2, <2>1, <3>1, <4>1
    <3>2. CASE u # t
      <4>1. pc[u] = "answered" /\ answer'[u] = answer[u]
        BY <1>1, <1>2, <2>1, <3>2 DEF IInv, TypeOK
      <4> QED BY <1>1, <1>2, <2>1, <4>1 DEF IInv, AnswerGranted
    <3> QED BY <3>1, <3>2
  <2> QED BY <2>1 DEF AnswerGranted
<1>8. DmaGranted'
  <2>1. \A u \in Threads : pc'[u] = "dma" => pc[u] = "dma"
    BY <1>2 DEF IInv, TypeOK
  <2> QED BY <1>1, <1>2, <2>1, DmaKept DEF IInv
<1>9. GrantsOnPages'
  <2>1. ans.ok => OnPages(RegionOf(want[t].virt, ans))
    BY <1>3, AnswersCurrent, CurrentOnPages DEF IInv
  <2> QED BY <1>1, <2>1 DEF IInv, GrantsOnPages
<1> QED BY <1>5, <1>6, <1>7, <1>8, <1>9 DEF IInv

LEMMA MapInv ==
  ASSUME IInv, NEW m \in Mappings, MapDma(m) \/ UnmapDma(m)
  PROVE  IInv'
<1>1. m \in [page : Nat, n : Nat, phys : Nat, attr : SUBSET Attrs]
  BY MappingsAssumption
<1>2. UNCHANGED <<devVars, mem, granted>>
  BY DEF MapDma, UnmapDma
<1>3. iommu' \in [Pages -> [phys : Nat, attr : SUBSET Attrs] \cup {Unmapped}]
  <2>1. CASE MapDma(m)
    <3>1. \A p \in PagesOf(m) : m.phys + (p - m.page) \in Nat
      BY <1>1 DEF PagesOf
    <3> QED BY <1>1, <2>1, <3>1 DEF MapDma, IInv, TypeOK
  <2>2. CASE UnmapDma(m)
    BY <2>2 DEF UnmapDma, IInv, TypeOK
  <2> QED BY <2>1, <2>2
<1>4. inv' \in Seq([virt : Nat, len : Nat])
  <2>1. \A i, j \in Nat : i * j \in Nat
    BY Z3
  <2>2. m.page * PageSize \in Nat /\ m.n * PageSize \in Nat
    BY <1>1, <2>1, PageSizeAssumption
  <2>3. [virt |-> m.page * PageSize, len |-> m.n * PageSize]
          \in [virt : Nat, len : Nat]
    BY <2>2
  <2>4. inv \in Seq([virt : Nat, len : Nat])
    BY DEF IInv, TypeOK
  <2>5. \/ inv' = inv
        \/ inv' = Append(inv, [virt |-> m.page * PageSize,
                               len |-> m.n * PageSize])
    BY DEF MapDma, UnmapDma
  <2> DEFINE e == [virt |-> m.page * PageSize, len |-> m.n * PageSize]
             S == [virt : Nat, len : Nat]
  <2>6. e \in S /\ inv \in Seq(S)
    BY <2>3, <2>4
  <2>7. inv' = inv \/ inv' = Append(inv, e)
    BY <2>5
  <2> HIDE DEF e, S
  <2>8. Append(inv, e) \in Seq(S)
    BY <2>6, AppendProperties
  <2>9. inv' \in Seq(S)
    BY <2>6, <2>7, <2>8
  <2> QED BY <2>9 DEF S
<1>5. TypeOK'
  BY <1>2, <1>3, <1>4 DEF IInv, TypeOK, devVars
<1>6. AtcGranted' /\ AnswerGranted' /\ DmaGranted' /\ GrantsOnPages'
  BY <1>2, DmaKept DEF IInv, AtcGranted, AnswerGranted, GrantsOnPages, devVars
<1> QED BY <1>5, <1>6 DEF IInv

-----------------------------------------------------------------------------
\* The invariant holds at the start.
LEMMA InitInv == Init => IInv
<1> SUFFICES ASSUME Init PROVE IInv
  OBVIOUS
<1>1. NoAccess \in Access /\ NoAnswer \in Answer
  BY DataAssumption DEF NoAccess, Access, NoAnswer, Answer
<1>2. <<>> \in Seq(Data) /\ <<>> \in Seq(Region)
      /\ <<>> \in Seq([virt : Nat, len : Nat])
  BY EmptySeq
<1>3. TypeOK
  BY <1>1, <1>2, DataAssumption, InitMemAssumption DEF Init, TypeOK
<1>4. AtcGranted
  BY <1>2, LenProperties DEF Init, AtcGranted
<1>5. AnswerGranted /\ DmaGranted /\ GrantsOnPages
  BY DEF Init, AnswerGranted, DmaGranted, GrantsOnPages
<1> QED BY <1>3, <1>4, <1>5 DEF IInv

\* Every step keeps it.
LEMMA NextInv == IInv /\ [Next]_vars => IInv'
<1> SUFFICES ASSUME IInv, [Next]_vars PROVE IInv'
  OBVIOUS
<1>1. CASE ThreadStep
  BY <1>1, StartInv, ResumeInv, DmaDoneInv DEF ThreadStep
<1>2. CASE AtsInvalidate
  BY <1>2, InvalidateInv
<1>3. CASE BarStep
  BY <1>3, BarInv
<1>4. CASE IommuStep
  BY <1>4, AnswerInv, MapInv DEF IommuStep
<1>5. CASE UNCHANGED vars
  BY <1>5 DEF vars, devVars, envVars, IInv, TypeOK, AtcGranted,
              AnswerGranted, DmaGranted, Underflows, GrantsOnPages
<1> QED BY <1>1, <1>2, <1>3, <1>4, <1>5 DEF Next

\* The registers, the threads and the cache always have their types, whatever
\* the host and the IOMMU do.
THEOREM TypeCorrect == Spec => []TypeOK
<1>1. IInv => TypeOK
  BY DEF IInv
<1> QED BY <1>1, InitInv, NextInv, PTL DEF Spec

\* Every word of a DMA access of pcie_acc goes to where, and in the direction
\* that, the IOMMU granted for the addresses of the command, its first word
\* and, unless the length of a hashed chunk underflows, all the others: for
\* every page size, every mapping, every address and length, and any
\* interleaving of the four threads with register writes and invalidations.
THEOREM DmaAlwaysGranted == Spec => []DmaGranted
<1>1. IInv => DmaGranted
  BY DEF IInv
<1> QED BY <1>1, InitInv, NextInv, PTL DEF Spec

-----------------------------------------------------------------------------
(* The drivers                                                              *)

\* Between the write of R_STATUS and the command the status stays 0.
StatusCleared == host \in {"value", "ctrl"} => regs.status = {}

DInv ==
  /\ IInv
  /\ host \in HostStates
  /\ job \in Jobs
  /\ OneCommand
  /\ StatusCleared

\* A job is one of the four commands, on words of the memory.
LEMMA JobType ==
  ASSUME NEW j \in Jobs
  PROVE  j.op \in Threads /\ j.addr \in Nat /\ j.len \in Nat /\ j.data \in Data
  BY JobsAssumption

LEMMA InitDInv == InitD => DInv
<1> SUFFICES ASSUME InitD PROVE DInv
  OBVIOUS
<1>1. IInv
  BY InitInv DEF InitD
<1>2. OneCommand /\ StatusCleared
  BY DEF InitD, Init, OneCommand, StatusCleared
<1> QED BY <1>1, <1>2 DEF DInv, InitD, HostStates

\* The steps of the host while every thread waits
LEMMA HostMapInv ==
  ASSUME DInv, HostMap \/ HostUnmap
  PROVE  DInv'
<1>1. PICK m \in Mappings : MapDma(m) \/ UnmapDma(m)
  BY DEF HostMap, HostUnmap
<1>2. IInv'
  BY <1>1, MapInv DEF DInv
<1>3. UNCHANGED <<regs, pc, host, job>>
  BY DEF HostMap, HostUnmap, MapDma, UnmapDma, devVars
<1> QED BY <1>2, <1>3 DEF DInv, OneCommand, StatusCleared

LEMMA HostBeginInv ==
  ASSUME DInv, NEW j \in Jobs, HostBegin(j)
  PROVE  DInv'
<1>1. mem' \in [PhysAddrs -> Data]
  BY JobType DEF HostBegin, DInv, IInv, TypeOK
<1>2. UNCHANGED <<devVars, iommu, inv, granted>> /\ host = "idle"
      /\ host' = "addr" /\ job' = j
  BY DEF HostBegin
<1>3. IInv'
  BY <1>1, <1>2 DEF DInv, IInv, TypeOK, AtcGranted, AnswerGranted,
                    DmaGranted, Underflows, GrantsOnPages, devVars
<1>4. OneCommand' /\ StatusCleared'
  BY <1>2 DEF DInv, OneCommand, StatusCleared, devVars
<1> QED BY <1>2, <1>3, <1>4 DEF DInv, HostStates

LEMMA HostProgramInv ==
  ASSUME DInv, HostProgram
  PROVE  DInv'
<1> USE DEF DInv
<1>1. /\ job.op \in Threads /\ job.addr \in Nat /\ job.len \in Nat
      /\ job.data \in Data /\ regs \in Regs
  BY JobType DEF IInv, TypeOK, Regs
<1>2. ASSUME NEW at \in HostStates \ {"poll"}, NEW reg, NEW v,
             NEW next \in HostStates \ {"poll"},
             [regs EXCEPT ![reg] = v] \in Regs,
             next \in {"value", "ctrl"} => [regs EXCEPT ![reg] = v].status = {},
             HostWrite(at, reg, v, next)
      PROVE  DInv'
  <2>1. BarWrite(reg, v) /\ host = at /\ host' = next /\ job' = job
    BY <1>2 DEF HostWrite
  <2>2. IInv'
    BY <1>2, <2>1, BarWriteEffect, BarEffectInv
  <2>3. pc' = pc /\ regs' = [regs EXCEPT ![reg] = v]
    BY <2>1 DEF BarWrite
  <2>4. OneCommand' /\ StatusCleared'
    BY <1>2, <2>1, <2>3 DEF OneCommand, StatusCleared
  <2> QED BY <2>1, <2>2, <2>4 DEF DInv
<1>3. CASE HostWrite("addr", "addr", job.addr, "length")
  <2>1. [regs EXCEPT !.addr = job.addr] \in Regs
    BY <1>1 DEF Regs
  <2> QED BY <1>2, <1>3, <2>1 DEF HostStates
<1>4. CASE HostWrite("length", "length", job.len, "status")
  <2>1. [regs EXCEPT !.length = job.len] \in Regs
    BY <1>1 DEF Regs
  <2> QED BY <1>2, <1>4, <2>1 DEF HostStates
<1>5. CASE HostWrite("status", "status", {},
                     IF job.op = "write" THEN "value" ELSE "ctrl")
  <2>1. [regs EXCEPT !.status = {}] \in Regs /\ [regs EXCEPT !.status = {}].status = {}
    BY <1>1 DEF Regs
  <2> QED BY <1>2, <1>5, <2>1 DEF HostStates
<1>6. CASE HostWrite("value", "value", job.data, "ctrl")
  <2>1. /\ [regs EXCEPT !.value = job.data] \in Regs
        /\ [regs EXCEPT !.value = job.data].status = regs.status
    BY <1>1 DEF Regs
  <2>2. regs.status = {}
    BY <1>6 DEF StatusCleared, HostWrite
  <2> QED BY <1>2, <1>6, <2>1, <2>2 DEF HostStates
<1> QED BY <1>3, <1>4, <1>5, <1>6 DEF HostProgram

\* The command finds its thread in wait() and sets it to work.
LEMMA HostCtrlInv ==
  ASSUME DInv, HostCtrl
  PROVE  DInv' /\ pc[job.op] = "wait"
<1>1. job.op \in Threads
  BY JobType DEF DInv
<1>2. /\ host = "ctrl" /\ host' = "poll" /\ job' = job
      /\ BarWriteCtrl({job.op})
  BY DEF HostCtrl
<1>3. Notified({job.op}) = job.op
  <2>1. /\ Notified({"translate"}) = "translate"
        /\ Notified({"read"}) = "read"
        /\ Notified({"md5"}) = "md5"
    BY DEF Notified
  <2>2. {"write"} \cap {"translate", "read"} = {}
    OBVIOUS
  <2>3. Notified({"write"}) = "write"
    BY <2>2 DEF Notified
  <2>4. \A t \in {"translate", "read", "write", "md5"} : Notified({t}) = t
    BY <2>1, <2>3
  <2> QED BY <1>1, <2>4 DEF Threads
<1>4. IInv'
  BY <1>1, <1>2, BarCtrlEffect, BarEffectInv DEF DInv
<1>5. /\ regs' = regs /\ regs.status = {}
      /\ pc' = [pc EXCEPT ![job.op] = IF @ = "wait" THEN "ready" ELSE @]
  BY <1>2, <1>3 DEF BarWriteCtrl, DInv, StatusCleared
<1>6. \A t \in Threads : pc[t] = "wait"
  BY <1>2 DEF DInv, OneCommand
<1>7. OneCommand'
  BY <1>1, <1>2, <1>5, <1>6 DEF OneCommand, DInv, IInv, TypeOK
<1> QED BY <1>1, <1>2, <1>4, <1>6, <1>7 DEF DInv, HostStates, StatusCleared

LEMMA HostDoneInv ==
  ASSUME DInv, HostDone
  PROVE  DInv'
<1>1. UNCHANGED vars /\ host = "poll" /\ regs.status # {} /\ host' = "idle"
      /\ job' = job
  BY DEF HostDone
<1>2. IInv'
  BY <1>1 DEF vars, devVars, envVars, DInv, IInv, TypeOK, AtcGranted,
              AnswerGranted, DmaGranted, Underflows, GrantsOnPages
<1>3. OneCommand' /\ StatusCleared'
  BY <1>1 DEF vars, devVars, DInv, OneCommand, StatusCleared
<1> QED BY <1>1, <1>2, <1>3 DEF DInv, HostStates

\* The device moves only the thread of the command, and sets the status when
\* it brings that thread back to its wait().
LEMMA DeviceInv ==
  ASSUME DInv, DeviceStep
  PROVE  DInv'
<1>1. host' = host /\ job' = job /\ IInv /\ OneCommand
  BY DEF DeviceStep, DInv
<1>2. CASE ThreadStep
  <2>1. IInv' /\ \E t \in Threads : Moved(t)
    BY <1>1, <1>2, StartInv, ResumeInv, DmaDoneInv DEF ThreadStep
  <2>2. PICK t \in Threads : Moved(t)
    BY <2>1
  <2>3. t = job.op /\ host = "poll" /\ regs.status = {}
    BY <1>1, <2>2 DEF Moved, OneCommand
  <2>4. OneCommand'
    BY <1>1, <2>2, <2>3 DEF Moved, Yields, OneCommand
  <2> QED BY <1>1, <2>1, <2>3, <2>4 DEF DInv, StatusCleared
<1>3. CASE AtsInvalidate
  <2>1. regs' = regs /\ pc' = pc
    BY <1>3 DEF AtsInvalidate
  <2> QED BY <1>1, <1>3, <2>1, InvalidateInv DEF DInv, OneCommand, StatusCleared
<1>4. ASSUME NEW t \in Threads, AtsAnswer(t)
      PROVE  DInv'
  <2>1. pc[t] = "ats" /\ pc' = [pc EXCEPT ![t] = "answered"] /\ regs' = regs
    BY <1>4 DEF AtsAnswer
  <2>2. OneCommand' /\ StatusCleared'
    BY <1>1, <2>1 DEF DInv, IInv, TypeOK, OneCommand, StatusCleared
  <2> QED BY <1>1, <1>4, <2>2, AnswerInv DEF DInv
<1> QED BY <1>2, <1>3, <1>4 DEF DeviceStep

LEMMA NextDInv == DInv /\ [NextD]_driverVars => DInv'
<1> SUFFICES ASSUME DInv, [NextD]_driverVars PROVE DInv'
  OBVIOUS
<1>1. CASE HostStep
  BY <1>1, HostMapInv, HostBeginInv, HostProgramInv, HostCtrlInv, HostDoneInv
     DEF HostStep
<1>2. CASE DeviceStep
  BY <1>2, DeviceInv
<1>3. CASE UNCHANGED driverVars
  BY <1>3 DEF driverVars, vars, devVars, envVars, DInv, IInv, TypeOK, AtcGranted,
              AnswerGranted, DmaGranted, Underflows, GrantsOnPages, OneCommand,
              StatusCleared
<1> QED BY <1>1, <1>2, <1>3 DEF NextD

\* With the drivers of the repository a thread of pcie_acc is at work exactly
\* while the host polls a zero status for its command, for any set of buffers
\* and jobs: the status a driver reads is that of its own command.
THEOREM DriverOneCommand == SpecD => []OneCommand
<1>1. DInv => OneCommand
  BY DEF DInv
<1> QED BY <1>1, InitDInv, NextDInv, PTL DEF SpecD

\* No write of R_CTRL by the drivers is lost to a busy thread.
THEOREM DriverLosesNoCommand == SpecD => NoCommandLost
<1>1. DInv /\ [NextD]_driverVars => [HostCtrl => pc[job.op] = "wait"]_driverVars
  BY HostCtrlInv
<1> QED BY <1>1, InitDInv, NextDInv, PTL DEF SpecD, NoCommandLost

-----------------------------------------------------------------------------
(* The cache of a driver's device.  Every entry is what the IOMMU says, or  *)
(* an invalidation that will remove it is on its way; the buffers say why   *)
(* no entry can survive the unmapping of a page in the middle of it.        *)

\* Every mapped page belongs to a buffer.
Backed ==
  \A p \in Pages : iommu[p] # Unmapped =>
    \E m \in Mappings : Backs(m, p, iommu[p].phys, iommu[p].attr)

\* One of the invalidations q will remove entry r.
HitBy(q, r) == \E k \in DOMAIN q : Invalidated(r, q[k].virt, q[k].len)

AtcCurrentOrHit == \A i \in DOMAIN atc : Current(atc[i]) \/ HitBy(inv, atc[i])

AnswerCurrent ==
  \A t \in Threads : pc[t] = "answered" /\ answer[t].ok =>
    /\ Current(RegionOf(want[t].virt, answer[t]))
    /\ Contains(RegionOf(want[t].virt, answer[t]), want[t].virt)

Drained == host \in {"length", "status", "value", "ctrl", "poll"} => inv = <<>>

CInv == Backed /\ AtcCurrentOrHit /\ AnswerCurrent /\ Drained


\* A translation stays current while the pages that are mapped stay as they are.
LEMMA CurrentKept ==
  ASSUME NEW r, Current(r),
         \A p \in Pages : iommu[p] # Unmapped => iommu'[p] = iommu[p]
  PROVE  Current(r)'
<1>1. PICK f \in Nat, p \in Nat, c \in Nat \ {0} : CurrentAt(r, f, c, p)
  BY DEF Current
<1>2. ASSUME NEW k \in 0 .. c - 1
      PROVE  f + k \in Pages /\ iommu'[f + k] = [phys |-> p + k, attr |-> r.attr]
  <2>1. f + k \in Pages /\ iommu[f + k] = [phys |-> p + k, attr |-> r.attr]
    BY <1>1, <1>2, Zenon DEF CurrentAt
  <2>2. iommu[f + k] # Unmapped
    BY <2>1 DEF Unmapped
  <2> QED BY <2>1, <2>2
<1>3. CurrentAt(r, f, c, p)'
  BY <1>1, <1>2, Zenon DEF CurrentAt
<1> QED BY <1>3, Zenon DEF Current

\* The invalidation of a buffer hits every entry that starts or ends in it.
LEMMA EndsHit ==
  ASSUME NEW r, NEW f \in Nat, NEW c \in Nat \ {0}, NEW p \in Nat,
         CurrentAt(r, f, c, p), NEW m \in Mappings,
         f \in PagesOf(m) \/ f + c - 1 \in PagesOf(m)
  PROVE  Invalidated(r, m.page * PageSize, m.n * PageSize)
<1>1. PageSize \in Nat \ {0} /\ m.page \in Nat /\ m.n \in Nat
  BY PageSizeAssumption, MappingsAssumption
<1>2. PICK b \in Nat, n \in Nat : b = m.page /\ n = m.n
  BY <1>1
<1>3. (b + n) * PageSize = b * PageSize + n * PageSize
      /\ (f + c) * PageSize = f * PageSize + c * PageSize
      /\ b * PageSize \in Nat /\ n * PageSize \in Nat
      /\ f * PageSize \in Nat /\ c * PageSize \in Nat
  BY <1>1, TimesDist, TimesNat
<1>4. r.virt = f * PageSize /\ r.len = c * PageSize
  BY DEF CurrentAt
<1>5. CASE f \in b .. b + n - 1
  <2>1. (f + 1) * PageSize = f * PageSize + PageSize
    <3>1. (f + 1) * PageSize = f * PageSize + 1 * PageSize
      BY <1>1, TimesDist
    <3> QED BY <1>1, <3>1
  <2>2. b * PageSize <= f * PageSize /\ (f + 1) * PageSize <= (b + n) * PageSize
    BY <1>1, <1>5, TimesOrder
  <2>3. InRange(f * PageSize, b * PageSize, n * PageSize)
    BY <1>1, <1>3, <2>1, <2>2 DEF InRange
  <2> QED BY <1>2, <1>4, <2>3 DEF Invalidated
<1>6. CASE f + c - 1 \in b .. b + n - 1
  <2>1. ((f + c) - 1) * PageSize = (f + c) * PageSize - PageSize
    <3>1. ((f + c) - 1) * PageSize = (f + c) * PageSize - 1 * PageSize
      BY <1>1, TimesDist
    <3> QED BY <1>1, <3>1
  <2>2. b * PageSize <= ((f + c) - 1) * PageSize
        /\ (f + c) * PageSize <= (b + n) * PageSize
    BY <1>1, <1>6, TimesOrder
  <2>3. InRange(f * PageSize + c * PageSize - 1, b * PageSize, n * PageSize)
    BY <1>1, <1>3, <2>1, <2>2 DEF InRange
  <2> QED BY <1>2, <1>4, <2>3 DEF Invalidated
<1> QED BY <1>2, <1>5, <1>6 DEF PagesOf

\* A translation that is not hit has no page in the buffer that is unmapped:
\* it would reach over the buffer, and the buffers of the pages in front of it
\* and behind it would continue it on both sides.
LEMMA UnmapHits ==
  ASSUME TypeOK, Backed, NEW m \in Mappings, NEW r, Current(r),
         \A p \in PagesOf(m) : p \in Pages /\ iommu[p] =
            [phys |-> m.phys + (p - m.page), attr |-> m.attr],
         iommu' = [p \in Pages |-> IF p \in PagesOf(m) THEN Unmapped ELSE iommu[p]]
  PROVE  Current(r)' \/ Invalidated(r, m.page * PageSize, m.n * PageSize)
<1>1. PICK f \in Nat, p \in Nat, c \in Nat \ {0} : CurrentAt(r, f, c, p)
  BY DEF Current
<1>2. PICK b \in Nat, n \in Nat : b = m.page /\ n = m.n
  BY MappingsAssumption
<1>3. PagesOf(m) = b .. b + n - 1
  BY <1>2 DEF PagesOf
<1>4. CASE f \in PagesOf(m) \/ f + c - 1 \in PagesOf(m)
  BY <1>1, <1>4, EndsHit
<1>5. CASE \A k \in 0 .. c - 1 : f + k \notin PagesOf(m)
  <2>1. ASSUME NEW k \in 0 .. c - 1
        PROVE  f + k \in Pages /\ iommu'[f + k] = [phys |-> p + k, attr |-> r.attr]
    <3>1. f + k \in Pages /\ iommu[f + k] = [phys |-> p + k, attr |-> r.attr]
      BY <1>1, <2>1, Zenon DEF CurrentAt
    <3> QED BY <1>5, <3>1
  <2>2. CurrentAt(r, f, c, p)'
    BY <1>1, <2>1, Zenon DEF CurrentAt
  <2> QED BY <2>2, Zenon DEF Current
<1>6. ASSUME f \notin PagesOf(m), f + c - 1 \notin PagesOf(m),
             NEW k \in 0 .. c - 1, f + k \in PagesOf(m)
      PROVE  FALSE
  <2>1. f < b /\ b + n <= f + c - 1 /\ n > 0
    BY <1>3, <1>6
  <2>2. PICK i \in 0 .. c - 1, j \in 0 .. c - 1, g \in 0 .. c - 1 :
           i = b - 1 - f /\ j = b + n - f /\ g = b - f
    BY <2>1
  <2>3. /\ b - 1 \in Pages /\ iommu[b - 1] = [phys |-> p + i, attr |-> r.attr]
        /\ b + n \in Pages /\ iommu[b + n] = [phys |-> p + j, attr |-> r.attr]
        /\ b \in Pages /\ iommu[b] = [phys |-> p + g, attr |-> r.attr]
    <3>1. f + i = b - 1 /\ f + j = b + n /\ f + g = b
      BY <2>2
    <3>2. /\ f + i \in Pages /\ iommu[f + i] = [phys |-> p + i, attr |-> r.attr]
          /\ f + j \in Pages /\ iommu[f + j] = [phys |-> p + j, attr |-> r.attr]
          /\ f + g \in Pages /\ iommu[f + g] = [phys |-> p + g, attr |-> r.attr]
      BY <1>1, Zenon DEF CurrentAt
    <3> QED BY <3>1, <3>2
  <2>4. iommu[b] = [phys |-> m.phys + (b - m.page), attr |-> m.attr]
    <3>1. b \in PagesOf(m)
      BY <1>3, <2>1
    <3> QED BY <3>1, Zenon
  <2>5. p + g = m.phys /\ r.attr = m.attr
    <3>1. p + g = m.phys + (b - m.page) /\ r.attr = m.attr
      BY <2>3, <2>4
    <3>2. m.phys \in Nat
      BY MappingsAssumption
    <3> QED BY <1>2, <3>1, <3>2
  <2>6. p + i = m.phys - 1 /\ p + j = m.phys + n
    BY <2>2, <2>5
  <2>7. iommu[b - 1] # Unmapped /\ iommu[b + n] # Unmapped
    BY <2>3 DEF Unmapped
  <2>8. PICK d \in Mappings : Backs(d, b - 1, iommu[b - 1].phys, iommu[b - 1].attr)
    BY <2>3, <2>7, Zenon DEF Backed
  <2>9. PICK e \in Mappings : Backs(e, b + n, iommu[b + n].phys, iommu[b + n].attr)
    BY <2>3, <2>7, Zenon DEF Backed
  <2>10. /\ iommu[b - 1].phys = m.phys - 1 /\ iommu[b - 1].attr = m.attr
         /\ iommu[b + n].phys = m.phys + n /\ iommu[b + n].attr = m.attr
    BY <2>3, <2>5, <2>6
  <2>11. /\ Backs(d, m.page - 1, m.phys - 1, m.attr)
         /\ Backs(e, m.page + m.n, m.phys + m.n, m.attr)
    BY <1>2, <2>8, <2>9, <2>10
  <2> QED BY <2>11, BuffersAssumption, Zenon
<1> QED BY <1>4, <1>5, <1>6

\* While the host is idle every thread waits.
LEMMA AllWait ==
  ASSUME DInv, host # "poll"
  PROVE  \A t \in Threads : pc[t] = "wait"
  BY DEF DInv, OneCommand

\* What has to be shown of a step that keeps the IOMMU as it is.
LEMMA SteadyCache ==
  ASSUME CInv, UNCHANGED iommu, Drained',
         \A i \in DOMAIN atc' : Current(atc'[i]) \/ HitBy(inv', atc'[i]),
         \A t \in Threads : pc'[t] = "answered" /\ answer'[t].ok =>
           /\ Current(RegionOf(want'[t].virt, answer'[t]))
           /\ Contains(RegionOf(want'[t].virt, answer'[t]), want'[t].virt)
  PROVE  CInv'
<1>1. \A r : Current(r) => Current(r)'
  BY CurrentKept
<1>2. AtcCurrentOrHit'
  BY <1>1, Zenon DEF AtcCurrentOrHit
<1>3. AnswerCurrent'
  BY <1>1, Zenon DEF AnswerCurrent
<1>4. Backed'
  BY DEF CInv, Backed
<1> QED BY <1>2, <1>3, <1>4 DEF CInv

LEMMA HostMapCache ==
  ASSUME DInv, CInv, HostMap
  PROVE  CInv'
<1>1. PICK m \in Mappings : MapDma(m)
  BY DEF HostMap
<1>2. /\ host = "idle" /\ host' = "idle"
      /\ UNCHANGED <<pc, atc, inv>>
  BY DEF HostMap, MapDma, devVars
<1>3. /\ iommu' = [p \in Pages |-> IF p \in PagesOf(m)
                                   THEN [phys |-> m.phys + (p - m.page), attr |-> m.attr]
                                   ELSE iommu[p]]
      /\ \A p \in PagesOf(m) : iommu[p] = Unmapped
  BY <1>1 DEF MapDma
<1>4. \A p \in Pages : iommu[p] # Unmapped => iommu'[p] = iommu[p]
  BY <1>3
<1>5. \A r : Current(r) => Current(r)'
  BY <1>4, CurrentKept
<1>6. \A r : HitBy(inv, r) => HitBy(inv', r)
  BY <1>2 DEF HitBy
<1>7. AtcCurrentOrHit'
  BY <1>2, <1>5, <1>6, Zenon DEF CInv, AtcCurrentOrHit
<1>8. Backed'
  <2>1. ASSUME NEW p \in Pages, iommu'[p] # Unmapped
        PROVE  \E d \in Mappings : Backs(d, p, iommu'[p].phys, iommu'[p].attr)
    <3>1. CASE p \in PagesOf(m)
      BY <1>3, <3>1 DEF Backs
    <3>2. CASE p \notin PagesOf(m)
      BY <1>3, <2>1, <3>2 DEF CInv, Backed
    <3> QED BY <3>1, <3>2
  <2> QED BY <2>1, Zenon DEF Backed, Backs
<1>9. AnswerCurrent'
  <2>1. \A t \in Threads : pc'[t] = "wait"
    BY <1>2, AllWait
  <2> QED BY <2>1 DEF AnswerCurrent
<1> QED BY <1>2, <1>7, <1>8, <1>9 DEF CInv, Drained

LEMMA HostUnmapCache ==
  ASSUME DInv, CInv, HostUnmap
  PROVE  CInv'
<1>1. PICK m \in Mappings :
        /\ \A p \in PagesOf(m) : p \in Pages /\ iommu[p] =
             [phys |-> m.phys + (p - m.page), attr |-> m.attr]
        /\ UnmapDma(m)
  BY DEF HostUnmap
<1> DEFINE e == [virt |-> m.page * PageSize, len |-> m.n * PageSize]
<1>2. /\ host = "idle" /\ host' = "idle"
      /\ UNCHANGED <<pc, atc>>
      /\ inv' = Append(inv, e)
      /\ iommu' = [p \in Pages |-> IF p \in PagesOf(m) THEN Unmapped ELSE iommu[p]]
  BY <1>1 DEF HostUnmap, UnmapDma, devVars
<1>3. TypeOK
  BY DEF DInv, IInv
<1>4. /\ DOMAIN inv \subseteq DOMAIN inv' /\ \A k \in DOMAIN inv : inv'[k] = inv[k]
      /\ Len(inv) + 1 \in DOMAIN inv' /\ inv'[Len(inv) + 1] = e
  <2>1. inv \in Seq([virt : Nat, len : Nat])
    BY <1>3 DEF TypeOK
  <2> HIDE DEF e
  <2> QED BY <1>2, <2>1
<1>5. \A r : HitBy(inv, r) => HitBy(inv', r)
  BY <1>4, Zenon DEF HitBy
<1>6. \A r : Invalidated(r, m.page * PageSize, m.n * PageSize) => HitBy(inv', r)
  BY <1>4 DEF HitBy
<1>7. \A r : Current(r) => Current(r)' \/ HitBy(inv', r)
  <2>1. TAKE r
  <2>2. HAVE Current(r)
  <2>3. Current(r)' \/ Invalidated(r, m.page * PageSize, m.n * PageSize)
    BY <1>1, <1>2, <1>3, <2>2, UnmapHits DEF CInv
  <2> QED BY <1>6, <2>3, Zenon
<1>8. AtcCurrentOrHit'
  BY <1>2, <1>5, <1>7, Zenon DEF CInv, AtcCurrentOrHit
<1>9. Backed'
  BY <1>2 DEF CInv, Backed, Backs
<1>10. AnswerCurrent'
  <2>1. \A t \in Threads : pc'[t] = "wait"
    BY <1>2, AllWait
  <2> QED BY <2>1 DEF AnswerCurrent
<1> QED BY <1>2, <1>8, <1>9, <1>10 DEF CInv, Drained

\* The host's other steps touch neither the IOMMU nor the cache.
LEMMA HostRestCache ==
  ASSUME DInv, CInv, \/ \E j \in Jobs : HostBegin(j)
                     \/ HostProgram \/ HostCtrl \/ HostDone
  PROVE  CInv'
<1>1. /\ UNCHANGED <<answer, want, atc, iommu, inv>>
      /\ \A t \in Threads : pc'[t] = "answered" => pc[t] = "answered"
      /\ host' \in {"length", "status", "value", "ctrl", "poll"} => inv = <<>>
  <2>1. CASE \E j \in Jobs : HostBegin(j)
    BY <2>1 DEF HostBegin, devVars
  <2>2. CASE HostProgram
    BY <2>2 DEF HostProgram, HostWrite, BarWrite, envVars
  <2>3. CASE HostCtrl
    BY <2>3 DEF HostCtrl, BarWriteCtrl, envVars, DInv, IInv, TypeOK
  <2>4. CASE HostDone
    BY <2>4 DEF HostDone, vars, devVars, envVars
  <2> QED BY <2>1, <2>2, <2>3, <2>4
<1>2. \A r : HitBy(inv, r) => HitBy(inv', r)
  BY <1>1 DEF HitBy
<1>3. \A i \in DOMAIN atc' : Current(atc'[i]) \/ HitBy(inv', atc'[i])
  BY <1>1, <1>2, Zenon DEF CInv, AtcCurrentOrHit
<1>4. \A t \in Threads : pc'[t] = "answered" /\ answer'[t].ok =>
           /\ Current(RegionOf(want'[t].virt, answer'[t]))
           /\ Contains(RegionOf(want'[t].virt, answer'[t]), want'[t].virt)
  BY <1>1, Zenon DEF CInv, AnswerCurrent
<1>5. Drained'
  BY <1>1 DEF Drained
<1> QED BY <1>1, <1>3, <1>4, <1>5, SteadyCache

\* An answer is about the IOMMU as it is: no host step comes in between.
LEMMA AnswerCache ==
  ASSUME DInv, CInv, NEW t \in Threads, AtsAnswer(t), UNCHANGED host
  PROVE  CInv'
<1>1. PICK ans \in Answers(want[t].virt) : answer' = [answer EXCEPT ![t] = ans]
  BY DEF AtsAnswer
<1>2. /\ pc' = [pc EXCEPT ![t] = "answered"]
      /\ UNCHANGED <<want, atc, iommu, inv>>
  BY DEF AtsAnswer
<1>3. TypeOK /\ want[t].virt \in Nat
  BY DEF DInv, IInv, TypeOK
<1>4. ans.ok => /\ Current(RegionOf(want[t].virt, ans))
                /\ Contains(RegionOf(want[t].virt, ans), want[t].virt)
  BY <1>3, AnswersCurrent
<1>5. ASSUME NEW u \in Threads, pc'[u] = "answered", answer'[u].ok
      PROVE  /\ Current(RegionOf(want'[u].virt, answer'[u]))
             /\ Contains(RegionOf(want'[u].virt, answer'[u]), want'[u].virt)
  <2>1. CASE u = t
    <3>1. answer'[u] = ans
      BY <1>1, <1>3, <2>1 DEF TypeOK
    <3> QED BY <1>2, <1>4, <1>5, <2>1, <3>1
  <2>2. CASE u # t
    <3>1. pc[u] = "answered" /\ answer'[u] = answer[u] /\ want' = want
      BY <1>1, <1>2, <1>3, <1>5, <2>2 DEF TypeOK
    <3> QED BY <1>5, <3>1, Zenon DEF CInv, AnswerCurrent
  <2> QED BY <2>1, <2>2
<1>6. \A i \in DOMAIN atc' : Current(atc'[i]) \/ HitBy(inv', atc'[i])
  BY <1>2, Zenon DEF CInv, AtcCurrentOrHit
<1>7. Drained'
  BY <1>2 DEF CInv, Drained
<1> QED BY <1>2, <1>5, <1>6, <1>7, SteadyCache, Zenon

\* An invalidation removes what it hits; what another one will hit stays hit.
LEMMA InvalidateCache ==
  ASSUME DInv, CInv, AtsInvalidate, UNCHANGED host
  PROVE  CInv'
<1> DEFINE keep == {i \in DOMAIN atc : ~Invalidated(atc[i], Head(inv).virt,
                                                    Head(inv).len)}
           m == Cardinality(keep)
<1>1. /\ inv # <<>> /\ inv' = Tail(inv)
      /\ UNCHANGED <<pc, want, answer, iommu>>
  BY DEF AtsInvalidate
<1>2. PICK f \in [1 .. m -> keep] : atc' = [k \in 1 .. m |-> atc[f[k]]]
  BY DEF AtsInvalidate, InOrder
<1>3. inv \in Seq([virt : Nat, len : Nat])
  BY DEF DInv, IInv, TypeOK
<1>4. ASSUME NEW r, HitBy(inv, r), ~Invalidated(r, Head(inv).virt, Head(inv).len)
      PROVE  HitBy(inv', r)
  <2>1. PICK k \in DOMAIN inv : Invalidated(r, inv[k].virt, inv[k].len)
    BY <1>4 DEF HitBy
  <2>2. k \in 1 .. Len(inv) /\ Head(inv) = inv[1]
    BY <1>1, <1>3, HeadTailProperties, LenProperties
  <2>3. k # 1
    BY <1>4, <2>1, <2>2
  <2>4. k - 1 \in DOMAIN inv' /\ inv'[k - 1] = inv[k]
    <3>1. inv' \in Seq([virt : Nat, len : Nat]) /\ Len(inv') = Len(inv) - 1
          /\ \A j \in 1 .. Len(inv') : inv'[j] = inv[j + 1]
      BY <1>1, <1>3, HeadTailProperties
    <3>2. PICK n \in Nat : n = Len(inv)
      BY <1>3, LenProperties
    <3>3. k \in 2 .. n
      BY <2>2, <2>3, <3>2
    <3>4. k - 1 \in 1 .. n - 1 /\ (k - 1) + 1 = k
      BY <3>3
    <3> QED BY <3>1, <3>2, <3>4, LenProperties
  <2> QED BY <2>1, <2>4 DEF HitBy
<1>5. ASSUME NEW i \in DOMAIN atc' PROVE Current(atc'[i]) \/ HitBy(inv', atc'[i])
  <2> HIDE DEF m
  <2>1. PICK j \in keep : atc'[i] = atc[j]
    BY <1>2, <1>5
  <2>2. j \in DOMAIN atc /\ ~Invalidated(atc[j], Head(inv).virt, Head(inv).len)
    OBVIOUS
  <2> HIDE DEF keep
  <2>3. Current(atc[j]) \/ HitBy(inv, atc[j])
    BY <2>2, Zenon DEF CInv, AtcCurrentOrHit
  <2> QED BY <1>4, <2>1, <2>2, <2>3
<1>6. Drained'
  BY <1>1 DEF CInv, Drained
<1>7. \A t \in Threads : pc'[t] = "answered" /\ answer'[t].ok =>
           /\ Current(RegionOf(want'[t].virt, answer'[t]))
           /\ Contains(RegionOf(want'[t].virt, answer'[t]), want'[t].virt)
  BY <1>1, Zenon DEF CInv, AnswerCurrent
<1> QED BY <1>1, <1>5, <1>6, <1>7, SteadyCache, Zenon

\* A thread at work finds no invalidation on its way and a cache that is current.
LEMMA AtWork ==
  ASSUME DInv, CInv, NEW t \in Threads, pc[t] # "wait"
  PROVE  /\ host = "poll" /\ t = job.op /\ regs.status = {} /\ inv = <<>>
         /\ \A i \in DOMAIN atc : Current(atc[i])
<1>1. host = "poll" /\ t = job.op /\ regs.status = {}
  BY DEF DInv, OneCommand
<1>2. inv = <<>>
  BY <1>1 DEF CInv, Drained
<1>3. \A r : ~HitBy(inv, r)
  BY <1>2 DEF HitBy
<1> QED BY <1>1, <1>2, <1>3, Zenon DEF CInv, AtcCurrentOrHit

\* What a reply adds to the cache is current, and translates what was asked for.
LEMMA ResumeCurrent ==
  ASSUME DInv, CInv, NEW t \in Threads, Resume(t), answer[t].ok
  PROVE  LET r == RegionOf(want[t].virt, answer[t])
         IN /\ r \in Region /\ Current(r) /\ Contains(r, want[t].virt)
            /\ atc' = Append(atc, r)
            /\ Len(atc) + 1 \in DOMAIN atc' /\ atc'[Len(atc) + 1] = r
            /\ DOMAIN atc \subseteq DOMAIN atc'
            /\ \A i \in DOMAIN atc : atc'[i] = atc[i]
            /\ \A i \in DOMAIN atc' : Current(atc'[i])
<1> DEFINE r == RegionOf(want[t].virt, answer[t])
<1>1. pc[t] = "answered" /\ atc' = Append(atc, r)
  BY DEF Resume
<1>2. Current(r) /\ Contains(r, want[t].virt)
  BY <1>1 DEF CInv, AnswerCurrent
<1>3. r \in Region /\ atc \in Seq(Region)
  BY <1>1 DEF DInv, IInv, AnswerGranted, TypeOK
<1> HIDE DEF r
<1>4. /\ DOMAIN atc' = 1 .. Len(atc) + 1 /\ DOMAIN atc = 1 .. Len(atc) /\ Len(atc) \in Nat
      /\ atc'[Len(atc) + 1] = r /\ \A i \in DOMAIN atc : atc'[i] = atc[i]
  BY <1>1, <1>3, AppendProperties, LenProperties
<1>5. /\ Len(atc) + 1 \in DOMAIN atc' /\ DOMAIN atc \subseteq DOMAIN atc'
      /\ \A i \in DOMAIN atc' : i \in DOMAIN atc \/ i = Len(atc) + 1
  BY <1>4
<1>6. \A i \in DOMAIN atc : Current(atc[i])
  BY <1>1, AtWork
<1>7. \A i \in DOMAIN atc' : Current(atc'[i])
  BY <1>2, <1>4, <1>5, <1>6, Zenon
<1> QED BY <1>1, <1>2, <1>3, <1>4, <1>5, <1>7 DEF r

\* A thread adds only what is current.
LEMMA ThreadCache ==
  ASSUME DInv, CInv, ThreadStep, UNCHANGED host
  PROVE  CInv'
<1>1. IInv
  BY DEF DInv
<1>2. ASSUME NEW t \in Threads, Moved(t), UNCHANGED <<iommu, inv>>,
             \A u \in Threads : answer'[u] = answer[u] \/ ~answer'[u].ok,
             \A i \in DOMAIN atc' : Current(atc'[i])
      PROVE  CInv'
  <2>1. ASSUME NEW u \in Threads, pc'[u] = "answered", answer'[u].ok
        PROVE  /\ Current(RegionOf(want'[u].virt, answer'[u]))
               /\ Contains(RegionOf(want'[u].virt, answer'[u]), want'[u].virt)
    <3>1. pc[u] = "answered" /\ want'[u] = want[u] /\ answer'[u] = answer[u]
      BY <1>2, <2>1 DEF Moved, NoNewReply
    <3> QED BY <2>1, <3>1, Zenon DEF CInv, AnswerCurrent
  <2>2. Drained'
    BY <1>2 DEF CInv, Drained
  <2> QED BY <1>2, <2>1, <2>2, SteadyCache, Zenon
<1>3. ASSUME NEW t \in Threads, Moved(t), UNCHANGED <<iommu, inv, answer, atc>>
      PROVE  CInv'
  <2>1. \A i \in DOMAIN atc : Current(atc[i])
    BY <1>3, AtWork DEF Moved
  <2> QED BY <1>2, <1>3, <2>1, Zenon
<1>4. CASE \/ StartTranslate \/ StartMd5
           \/ \E t \in {"read", "write"} : StartTransfer(t)
           \/ ReadDone \/ WriteDone \/ Md5ReadDone
  <2>1. \E t \in Threads : Moved(t)
    BY <1>1, <1>4, StartInv, DmaDoneInv
  <2>2. UNCHANGED <<iommu, inv, answer, atc>>
    BY <1>4 DEF StartTranslate, StartMd5, StartTransfer, ReadDone, WriteDone,
                Md5ReadDone, envVars
  <2> QED BY <1>3, <2>1, <2>2, Zenon
<1>5. ASSUME NEW t \in Threads, Resume(t)
      PROVE  CInv'
  <2>1. Moved(t) /\ pc[t] # "wait"
    BY <1>1, <1>5, ResumeInv DEF Moved
  <2>2. answer' = [answer EXCEPT ![t] = NoAnswer] /\ UNCHANGED <<iommu, inv>>
    BY <1>5 DEF Resume, envVars
  <2>3. \A u \in Threads : answer'[u] = answer[u] \/ ~answer'[u].ok
    BY <1>1, <2>2 DEF IInv, TypeOK, NoAnswer
  <2>4. \A i \in DOMAIN atc' : Current(atc'[i])
    <3>1. CASE answer[t].ok
      BY <1>5, <3>1, ResumeCurrent
    <3>2. CASE ~answer[t].ok
      <4>1. atc' = atc
        BY <1>5, <3>2 DEF Resume
      <4> QED BY <2>1, <4>1, AtWork
    <3> QED BY <3>1, <3>2
  <2> QED BY <1>2, <2>1, <2>2, <2>3, <2>4, Zenon
<1> QED BY <1>4, <1>5 DEF ThreadStep

\* The cache is current at the start, and after every step.
LEMMA InitCInv == InitD => CInv
<1> SUFFICES ASSUME InitD PROVE CInv
  OBVIOUS
<1>1. Backed
  BY DEF InitD, Init, Backed
<1>2. AtcCurrentOrHit
  <2>1. DOMAIN atc = {}
    BY DEF InitD, Init
  <2> QED BY <2>1 DEF AtcCurrentOrHit
<1>3. AnswerCurrent /\ Drained
  BY DEF InitD, Init, AnswerCurrent, Drained
<1> QED BY <1>1, <1>2, <1>3 DEF CInv

LEMMA NextCInv == DInv /\ CInv /\ [NextD]_driverVars => CInv'
<1> SUFFICES ASSUME DInv, CInv, [NextD]_driverVars PROVE CInv'
  OBVIOUS
<1>1. CASE HostStep
  BY <1>1, HostMapCache, HostUnmapCache, HostRestCache DEF HostStep
<1>2. CASE DeviceStep
  BY <1>2, ThreadCache, InvalidateCache, AnswerCache DEF DeviceStep
<1>3. CASE UNCHANGED driverVars
  <2>1. UNCHANGED <<pc, want, answer, atc, iommu, inv, host>>
    BY <1>3 DEF driverVars, vars, devVars, envVars
  <2>2. \A i \in DOMAIN atc' : Current(atc'[i]) \/ HitBy(inv', atc'[i])
    BY <2>1, Zenon DEF CInv, AtcCurrentOrHit
  <2>3. \A t \in Threads : pc'[t] = "answered" /\ answer'[t].ok =>
           /\ Current(RegionOf(want'[t].virt, answer'[t]))
           /\ Contains(RegionOf(want'[t].virt, answer'[t]), want'[t].virt)
    BY <2>1, Zenon DEF CInv, AnswerCurrent
  <2>4. Drained'
    BY <2>1 DEF CInv, Drained
  <2> QED BY <2>1, <2>2, <2>3, <2>4, SteadyCache, Zenon
<1> QED BY <1>1, <1>2, <1>3 DEF NextD

\* Page by page is word by word.
LEMMA CacheCurrent == DInv /\ CInv => AtcCurrent
<1> SUFFICES ASSUME DInv, CInv, inv = <<>>, NEW i \in DOMAIN atc,
                    NEW a \in atc[i].virt .. (atc[i].virt + atc[i].len - 1)
             PROVE  /\ Mapped(a) /\ Place(a) = PhysOf(atc[i], a)
                    /\ atc[i].attr = iommu[a \div PageSize].attr
  BY Zenon DEF AtcCurrent
<1>1. PICK r \in Region : r = atc[i]
  <2>1. atc \in Seq(Region)
    BY DEF DInv, IInv, TypeOK
  <2>2. atc[i] \in Region
    BY <2>1
  <2> QED BY <2>2
<1>2. ~HitBy(inv, r)
  BY DEF HitBy
<1>3. Current(r)
  BY <1>1, <1>2, Zenon DEF CInv, AtcCurrentOrHit
<1>4. a \in Nat /\ Contains(r, a)
  BY <1>1 DEF Region, Contains
<1> QED BY <1>1, <1>3, <1>4, CurrentWords

\* With the drivers of the repository the cache of pcie_acc agrees with the
\* IOMMU, word by word, whenever no invalidation is on its way: for every page
\* size, every set of buffers and every length a reply may have.
THEOREM DriverAtcCurrent == SpecD => []AtcCurrent
<1>1. InitD => DInv /\ CInv
  BY InitDInv, InitCInv
<1>2. (DInv /\ CInv) /\ [NextD]_driverVars => (DInv /\ CInv)'
  BY NextDInv, NextCInv
<1> QED BY <1>1, <1>2, CacheCurrent, PTL DEF SpecD

-----------------------------------------------------------------------------
(* The commands.  What is kept of the command while its thread is blocked,  *)
(* for the registers, the memory, the cache and the hash.                   *)

\* The first n words of the range of the command
Words(n) == [k \in 1 .. n |-> Content(Place(job.addr + k - 1))]

\* Where the loop of the thread of the command may be: at address a, with n
\* words to go, the words c hashed, and s the cache.
Reached(s, a, n, c) ==
  /\ job.op \in {"read", "write"} => a = job.addr
  /\ job.op = "translate" =>
       /\ a % PageSize = 0 /\ a >= job.addr /\ a + n = job.addr + job.len
       /\ \A b \in job.addr .. (a - 1) : Cached(s, b)
  /\ job.op = "md5" =>
       /\ a >= job.addr /\ a + n = job.addr + job.len /\ n > 0
       /\ a % PageSize = 0 \/ n >= PageSize
       /\ c = Words(a - job.addr)

\* How many words the access at a moves
Chunk(a, n) ==
  IF job.op = "md5"
  THEN (IF n <= PageSize THEN n ELSE PageSize) - (a % PageSize)
  ELSE 1

Finished == host = "poll" /\ regs.status # {}

\* The registers hold the command while it is programmed and until it is done.
Programmed ==
  ~Finished =>
    /\ host \notin {"idle", "addr"} => regs.addr = job.addr
    /\ host \in {"status", "value", "ctrl", "poll"} => regs.length = job.len
    /\ host \in {"ctrl", "poll"} /\ job.op = "write" => regs.value = job.data

JobMapped == host # "idle" => \A a \in JobRange(job) : Mapped(a)

\* test_read stores what it will have read back.
ReadStored ==
  host # "idle" /\ job.op = "read" => Content(Place(job.addr)) = job.data

\* The context of the hash is fresh when a command starts.
HashFresh == pc["md5"] \in {"wait", "ready"} => ctx = <<>>

\* A thread in do_ats_req has not yet lost the translation it needs: it is in
\* the cache, or the request still starts at the page of the address.
Asking ==
  \A t \in Threads : pc[t] \in {"ats", "answered"} =>
    /\ Reached(atc, virt[t], left[t], ctx)
    /\ Cached(atc, virt[t]) \/ want[t].virt = Align(virt[t], PageSize)

Moving ==
  \A t \in Threads : pc[t] = "dma" =>
    /\ t # "translate"
    /\ Reached(atc, virt[t], left[t], ctx)
    /\ access[t].virt = virt[t]
    /\ access[t].len = Chunk(virt[t], left[t])
    /\ access[t].data = regs.value

RInv ==
  /\ Programmed /\ JobMapped /\ ReadStored /\ HashFresh /\ Asking /\ Moving
  /\ NoStaleAccess /\ ResultRight

-----------------------------------------------------------------------------
(* Lemmas on pages and the cache                                            *)

\* A set of indices has a smallest one.
LEMMA SmallestIndex ==
  ASSUME NEW S \in SUBSET Nat, S # {}
  PROVE  \E x \in S : \A y \in S : x <= y
<1>1. PICK x \in S : \A y \in S : ~(<<y, x>> \in OpToRel(<, Nat))
  BY NatLessThanWellFounded, WFMin
<1>2. ASSUME NEW y \in S PROVE x <= y
  <2>1. ~(y < x)
    BY <1>1 DEF OpToRel
  <2> QED BY <2>1
<1> QED BY <1>2

\* A look-up of an address in the cache stops somewhere.
LEMMA SomeFirstHit ==
  ASSUME NEW s \in Seq(Region), NEW a, Cached(s, a)
  PROVE  \E i \in DOMAIN s : FirstHit(s, a, i)
<1> DEFINE S == {i \in DOMAIN s : Contains(s[i], a)}
<1>1. S \in SUBSET Nat /\ S # {} /\ DOMAIN s \subseteq Nat
  BY DEF Cached
<1>2. \A i \in S : i \in DOMAIN s /\ Contains(s[i], a)
  OBVIOUS
<1>3. \A i \in DOMAIN s : Contains(s[i], a) => i \in S
  OBVIOUS
<1> HIDE DEF S
<1>4. PICK i \in S : \A j \in S : i <= j
  BY <1>1, SmallestIndex
<1>5. \A j \in DOMAIN s : j < i => j \notin S
  BY <1>1, <1>4
<1> QED BY <1>2, <1>3, <1>4, <1>5 DEF FirstHit

LEMMA SamePagePlace ==
  ASSUME TypeOK, NEW a \in Nat, NEW k \in Nat, (a % PageSize) + k < PageSize, Mapped(a)
  PROVE  /\ Mapped(a + k) /\ Place(a + k) = Place(a) + k
         /\ iommu[(a + k) \div PageSize] = iommu[a \div PageSize]
<1>1. (a + k) \div PageSize = a \div PageSize /\ (a + k) % PageSize = (a % PageSize) + k
  BY SamePage
<1>2. PICK q : q = a \div PageSize
  OBVIOUS
<1>3. PICK x \in Nat : x = iommu[q].phys * PageSize
  <2>1. iommu[q] \in [phys : Nat, attr : SUBSET Attrs]
    BY <1>2 DEF Mapped, TypeOK
  <2> QED BY <2>1, PageSizeAssumption, TimesNat
<1>4. PICK o \in Nat : o = a % PageSize
  BY AlignNat, PageSizeAssumption
<1>5. Place(a) = x + o /\ Place(a + k) = x + (o + k)
  BY <1>1, <1>2, <1>3, <1>4 DEF Place
<1>6. Mapped(a + k)
  BY <1>1 DEF Mapped
<1> QED BY <1>1, <1>5, <1>6

\* The offset in a page is the same in memory.
LEMMA PlaceOffset ==
  ASSUME TypeOK, NEW a \in Nat, Mapped(a)
  PROVE  Place(a) \in Nat /\ Place(a) % PageSize = a % PageSize
<1>1. PICK q \in Nat, o \in 0 .. PageSize - 1 :
         q = a \div PageSize /\ o = a % PageSize /\ a = q * PageSize + o
  BY PageOf
<1>2. iommu[q] \in [phys : Nat, attr : SUBSET Attrs]
  BY <1>1 DEF Mapped, TypeOK
<1>3. PICK f \in Nat : f = iommu[q].phys
  BY <1>2
<1>4. Place(a) = f * PageSize + o
  BY <1>1, <1>3 DEF Place
<1>5. (f * PageSize + o) % PageSize = o /\ f * PageSize + o \in Nat
  BY PageSizeAssumption, QuotientUnique, TimesNat
<1> QED BY <1>1, <1>4, <1>5

\* A mapped word is a word of memory, to be read and written.
LEMMA MappedMemory ==
  ASSUME TypeOK, Backed, NEW a \in Nat, Mapped(a)
  PROVE  Place(a) \in PhysAddrs /\ {"R", "W"} \subseteq iommu[a \div PageSize].attr
<1>1. PICK q \in Nat, o \in 0 .. PageSize - 1 :
         q = a \div PageSize /\ o = a % PageSize /\ a = q * PageSize + o
  BY PageOf
<1>2. q \in Pages /\ iommu[q] # Unmapped
  BY <1>1 DEF Mapped
<1>3. PICK m \in Mappings : Backs(m, q, iommu[q].phys, iommu[q].attr)
  BY <1>2, Zenon DEF Backed
<1>4. PICK b \in Nat, n \in Nat, p \in Nat : b = m.page /\ n = m.n /\ p = m.phys
  BY MappingsAssumption
<1>5. PICK i \in 0 .. n - 1 : i = q - b
  BY <1>3, <1>4 DEF Backs, PagesOf
<1>6. iommu[q].phys = p + i /\ iommu[q].attr = m.attr
  BY <1>3, <1>4, <1>5 DEF Backs
<1>7. PageSize \in Nat \ {0}
  BY PageSizeAssumption
<1>8. Place(a) = (p + i) * PageSize + o
  BY <1>1, <1>6 DEF Place
<1>9. (p + i) * PageSize + o \in p * PageSize .. (p + n) * PageSize - 1
  <2>1. ((p + i) + 1) * PageSize = (p + i) * PageSize + PageSize
    <3>1. ((p + i) + 1) * PageSize = (p + i) * PageSize + 1 * PageSize
      BY <1>7, TimesDist
    <3> QED BY <1>7, <3>1
  <2>2. p * PageSize <= (p + i) * PageSize
        /\ ((p + i) + 1) * PageSize <= (p + n) * PageSize
    BY <1>7, TimesOrder
  <2>3. (p + i) * PageSize \in Nat /\ p * PageSize \in Nat /\ (p + n) * PageSize \in Nat
    BY <1>7, TimesNat
  <2> QED BY <1>7, <2>1, <2>2, <2>3
<1>10. {"R", "W"} \subseteq m.attr /\ p * PageSize .. (p + n) * PageSize - 1 \subseteq PhysAddrs
  BY <1>4, BuffersAssumption
<1> QED BY <1>1, <1>6, <1>8, <1>9, <1>10

\* A cache whose entries are what the IOMMU says
GoodEntries(s) == s \in Seq(Region) /\ \A i \in DOMAIN s : Current(s[i])

\* An entry holds whole pages.
LEMMA PageCached ==
  ASSUME NEW s, GoodEntries(s), NEW a \in Nat, a % PageSize = 0, Cached(s, a),
         NEW b \in a .. a + PageSize - 1
  PROVE  Cached(s, b)
<1>1. PICK i \in DOMAIN s : Contains(s[i], a)
  BY DEF Cached
<1>2. PICK f \in Nat, p \in Nat, c \in Nat \ {0} : CurrentAt(s[i], f, c, p)
  BY DEF GoodEntries, Current
<1>3. PICK q \in Nat, o \in 0 .. PageSize - 1 :
         q = a \div PageSize /\ o = a % PageSize /\ a = q * PageSize + o
  BY PageOf
<1>4. PageSize \in Nat \ {0} /\ a = q * PageSize
  BY <1>3, PageSizeAssumption, TimesNat
<1>5. /\ (f + c) * PageSize = f * PageSize + c * PageSize
      /\ (q + 1) * PageSize = q * PageSize + PageSize
  <2>1. (q + 1) * PageSize = q * PageSize + 1 * PageSize
    BY <1>4, TimesDist
  <2> QED BY <1>4, <2>1, TimesDist
<1>6. /\ f * PageSize \in Nat /\ c * PageSize \in Nat
  BY <1>4, TimesNat
<1>7. /\ s[i].virt = f * PageSize /\ s[i].len = c * PageSize
  BY <1>2 DEF CurrentAt
<1>8. a >= f * PageSize /\ a < (f + c) * PageSize
  BY <1>1, <1>5, <1>6, <1>7 DEF Contains
<1>9. q < f + c
  BY <1>4, <1>8, TimesOrder
<1>10. (q + 1) * PageSize <= (f + c) * PageSize
  BY <1>4, <1>9, TimesOrder
<1>11. Contains(s[i], b)
  BY <1>4, <1>5, <1>6, <1>7, <1>8, <1>10 DEF Contains
<1> QED BY <1>11 DEF Cached

\* Words whose pages are in the cache are.
LEMMA PagesCached ==
  ASSUME NEW s, GoodEntries(s), NEW a \in Nat, a % PageSize = 0, NEW w \in Nat,
         \A k \in Nat : k * PageSize < w => Cached(s, a + k * PageSize)
  PROVE  \A b \in a .. a + w - 1 : Cached(s, b)
<1>1. TAKE b \in a .. a + w - 1
<1>2. PICK d \in Nat : d = b - a /\ d < w
  BY <1>1
<1>3. PICK k \in Nat, o \in 0 .. PageSize - 1 :
         k = d \div PageSize /\ o = d % PageSize /\ d = k * PageSize + o
  BY PageOf
<1>4. PICK x \in Nat : x = k * PageSize
  BY PageSizeAssumption, TimesNat
<1>5. Cached(s, a + x)
  <2>1. k * PageSize < w
    BY <1>2, <1>3, <1>4
  <2> QED BY <1>4, <2>1
<1>6. (a + x) % PageSize = 0
  <2>1. PICK q \in Nat, r \in 0 .. PageSize - 1 :
           q = a \div PageSize /\ r = a % PageSize /\ a = q * PageSize + r
    BY PageOf
  <2>2. ((q + k) * PageSize + 0) % PageSize = 0
    BY PageSizeAssumption, QuotientUnique
  <2>3. (q + k) * PageSize = q * PageSize + x /\ q * PageSize \in Nat
    BY <1>4, PageSizeAssumption, TimesDist, TimesNat
  <2>4. a + x = (q + k) * PageSize + 0
    BY <2>1, <2>3
  <2> QED BY <2>2, <2>4
<1>7. b \in (a + x) .. (a + x) + PageSize - 1
  BY <1>1, <1>2, <1>3, <1>4, PageSizeAssumption
<1>8. a + x \in Nat
  BY <1>4
<1> QED BY <1>5, <1>6, <1>7, <1>8, PageCached

\* A page behind a page boundary starts on one.
LEMMA NextPage ==
  ASSUME NEW a \in Nat, NEW k \in Nat
  PROVE  k * PageSize \in Nat /\ (a + k * PageSize) % PageSize = a % PageSize
<1>1. PICK q \in Nat, r \in 0 .. PageSize - 1 :
         q = a \div PageSize /\ r = a % PageSize /\ a = q * PageSize + r
  BY PageOf
<1>2. ((q + k) * PageSize + r) % PageSize = r
  BY PageSizeAssumption, QuotientUnique
<1>3. PICK x \in Nat, y \in Nat : x = k * PageSize /\ y = q * PageSize
  BY PageSizeAssumption, TimesNat
<1>4. (q + k) * PageSize = y + x
  BY <1>3, PageSizeAssumption, TimesDist
<1>5. PICK z \in Nat : z = (q + k) * PageSize /\ z = y + x
  BY <1>3, <1>4
<1>6. a = y + r
  BY <1>1, <1>3
<1>7. a + x = (q + k) * PageSize + r
  <2>1. a + x = z + r
    BY <1>5, <1>6
  <2> QED BY <1>5, <2>1
<1> QED BY <1>1, <1>2, <1>3, <1>7

\* The first words of a page lie behind its start.
LEMMA AlignPage ==
  ASSUME NEW a \in Nat
  PROVE  /\ Align(a, PageSize) \in Nat /\ Align(a, PageSize) % PageSize = 0
         /\ a \in Align(a, PageSize) .. Align(a, PageSize) + PageSize - 1
<1>1. PICK q \in Nat, r \in 0 .. PageSize - 1 :
         q = a \div PageSize /\ r = a % PageSize /\ a = q * PageSize + r
  BY PageOf
<1>2. PICK x \in Nat : x = q * PageSize
  BY PageSizeAssumption, TimesNat
<1>3. Align(a, PageSize) = x
  <2>1. Align(a, PageSize) = PageSize * q
    BY <1>1 DEF Align
  <2> QED BY <1>2, <2>1, PageSizeAssumption, TimesSwap
<1>4. (q * PageSize + 0) % PageSize = 0
  BY PageSizeAssumption, QuotientUnique
<1>5. x % PageSize = 0
  BY <1>2, <1>4
<1> QED BY <1>1, <1>2, <1>3, <1>5, PageSizeAssumption

-----------------------------------------------------------------------------
(* What the code of a thread does, from its look-up to where it gives up     *)
(* control, in terms of the command.                                         *)

\* The access x of thread t at a, with n words to go, is right.
RightAccess(t, x, a, n) ==
  /\ t # "translate"
  /\ x.virt = a /\ x.len = Chunk(a, n) /\ x.data = regs.value
  /\ \A k \in 0 .. x.len - 1 :
       /\ Mapped(a + k) /\ Place(a + k) = x.phys + k
       /\ x.kind \in iommu[(a + k) \div PageSize].attr

\* The registers r and the cache s show that the command has had its effect.
Result(r, s) ==
  /\ r.status # {}
  /\ job.op = "read" => r.value = job.data
  /\ job.op = "write" => Content(Place(job.addr)) = job.data
  /\ job.op = "translate" => \A b \in JobRange(job) : Cached(s, b)
  /\ job.op = "md5" => "ERR" \in r.status \/ r.digest = Words(job.len)

\* Thread t goes on with the cache s and the words c hashed: to an ATS
\* request, to a DMA access, or back to its wait().
Asks(t, s, c) ==
  /\ pc' = [pc EXCEPT ![t] = "ats"] /\ regs' = regs
  /\ Reached(s, virt'[t], left'[t], c)
  /\ want'[t].virt = Align(virt'[t], PageSize)

Moves(t, s, c) ==
  /\ pc' = [pc EXCEPT ![t] = "dma"] /\ regs' = regs
  /\ Reached(s, virt'[t], left'[t], c)
  /\ RightAccess(t, access'[t], virt'[t], left'[t])

Ends(t, s) == pc' = [pc EXCEPT ![t] = "wait"] /\ Result(regs', s)

Effect(t, s, c) == Asks(t, s, c) \/ Moves(t, s, c) \/ Ends(t, s)

\* The state in which a thread does it
Busy == TypeOK /\ Backed /\ JobMapped /\ host = "poll" /\ job \in Jobs

LEMMA SendAtsEffect ==
  ASSUME Busy, NEW t \in Threads, NEW s, NEW c, NEW a \in Nat, NEW n \in Nat,
         NEW size, SendAts(t, a, n, size), Reached(s, a, n, c)
  PROVE  Effect(t, s, c)
<1>1. virt'[t] = a /\ left'[t] = n /\ want'[t].virt = Align(a, PageSize)
  BY DEF SendAts, Busy, TypeOK
<1> QED BY <1>1 DEF SendAts, Effect, Asks

\* An access through an entry of the cache is right.
LEMMA IssueEffect ==
  ASSUME Busy, NEW t \in Threads, t # "translate", NEW s, NEW c, GoodEntries(s),
         NEW a \in Nat, NEW n \in Nat, Reached(s, a, n, c),
         NEW i \in DOMAIN s, Contains(s[i], a),
         NEW size \in Nat, size = Chunk(a, n), (a % PageSize) + size <= PageSize,
         NEW kind, kind \in s[i].attr, Issue(t, a, PhysOf(s[i], a), n, size, kind)
  PROVE  Effect(t, s, c)
<1>1. PICK r \in Region : r = s[i] /\ Current(r)
  BY DEF GoodEntries
<1>2. Mapped(a) /\ Place(a) = PhysOf(r, a) /\ r.attr = iommu[a \div PageSize].attr
  BY <1>1, CurrentWords
<1>3. PICK x : x = access'[t]
  OBVIOUS
<1>4. /\ x.virt = a /\ x.phys = Place(a) /\ x.len = size /\ x.kind = kind
      /\ x.data = regs.value /\ virt'[t] = a /\ left'[t] = n
      /\ pc' = [pc EXCEPT ![t] = "dma"] /\ regs' = regs
  BY <1>1, <1>2, <1>3 DEF Issue, Busy, TypeOK
<1>5. a % PageSize \in Nat
  BY AlignNat, PageSizeAssumption
<1>6. ASSUME NEW k \in 0 .. size - 1
      PROVE  /\ Mapped(a + k) /\ Place(a + k) = Place(a) + k
             /\ iommu[(a + k) \div PageSize] = iommu[a \div PageSize]
  <2>1. k \in Nat /\ (a % PageSize) + k < PageSize
    BY <1>5, PageSizeAssumption
  <2> QED BY <1>2, <2>1, SamePagePlace DEF Busy
<1>7. RightAccess(t, x, a, n)
  BY <1>1, <1>2, <1>4, <1>6 DEF RightAccess
<1> QED BY <1>3, <1>4, <1>7 DEF Effect, Moves

LEMMA TransferEffect ==
  ASSUME Busy, NEW t \in {"read", "write"}, t = job.op, NEW s, NEW c, GoodEntries(s),
         NEW a \in Nat, Reached(s, a, 1, c), Cached(s, a), Transfer(t, s, a)
  PROVE  Effect(t, s, c)
<1> DEFINE perm == IF t = "read" THEN "R" ELSE "W"
<1>1. a = job.addr /\ a % PageSize \in Nat /\ (a % PageSize) + 1 <= PageSize
  <2>1. a % PageSize \in 0 .. PageSize - 1
    BY PageSizeAssumption, Quotient
  <2> QED BY <2>1, PageSizeAssumption DEF Reached
<1>2. PICK i \in DOMAIN s : FirstHit(s, a, i)
  BY SomeFirstHit DEF GoodEntries
<1>3. PICK r \in Region : r = s[i] /\ Current(r) /\ Contains(r, a)
  BY <1>2 DEF GoodEntries, FirstHit
<1>4. Mapped(a) /\ r.attr = iommu[a \div PageSize].attr
  BY <1>3, CurrentWords
<1>5. perm \in s[i].attr
  BY <1>3, <1>4, MappedMemory DEF Busy
<1>6. TestAttr(s, a, perm)
  BY <1>2, <1>5 DEF TestAttr
<1>7. PICK j \in DOMAIN s : FirstHit(s, a, j) /\ Issue(t, a, PhysOf(s[j], a), 1, 1, perm)
  BY <1>6 DEF Transfer
<1>8. j = i /\ Contains(s[j], a)
  BY <1>2, <1>7, FirstHitUnique, HitContains DEF GoodEntries
<1>9. 1 = Chunk(a, 1)
  BY DEF Chunk
<1>10. t \in Threads /\ t # "translate" /\ 1 \in Nat
  OBVIOUS
<1>11. Issue(t, a, PhysOf(s[i], a), 1, 1, perm) /\ Contains(s[i], a)
  BY <1>7, <1>8
<1> HIDE DEF perm
<1> QED BY <1>1, <1>5, <1>9, <1>10, <1>11, IssueEffect, Zenon

\* A chunk of the hash ends at the end of the page, or of the range.
LEMMA ChunkSize ==
  ASSUME Busy, job.op = "md5", NEW s, NEW c, NEW a \in Nat, NEW n \in Nat,
         Reached(s, a, n, c)
  PROVE  /\ Chunk(a, n) \in Nat /\ Chunk(a, n) < WordMod /\ Chunk(a, n) <= n
         /\ (a % PageSize) + Chunk(a, n) <= PageSize
         /\ n < WordMod
         /\ n - Chunk(a, n) > 0 => (a + Chunk(a, n)) % PageSize = 0
<1>1. PICK q \in Nat, o \in 0 .. PageSize - 1 :
         q = a \div PageSize /\ o = a % PageSize /\ a = q * PageSize + o
  BY PageOf
<1>2. PageSize \in Nat \ {0} /\ WordMod \in Nat \ {0}
  BY PageSizeAssumption, WordModAssumption
<1>3. n > 0 /\ (o = 0 \/ n >= PageSize) /\ n < WordMod
  <2>1. job.addr \in Nat /\ job.len \in Nat /\ job.len < WordMod
    BY JobsAssumption, JobType DEF Busy
  <2>2. a >= job.addr /\ a + n = job.addr + job.len /\ n > 0
        /\ (a % PageSize = 0 \/ n >= PageSize)
    BY DEF Reached
  <2> QED BY <1>1, <1>2, <2>1, <2>2
<1>4. Chunk(a, n) = (IF n <= PageSize THEN n ELSE PageSize) - o
  BY <1>1 DEF Chunk
<1>5. CASE n >= PageSize
  <2>1. Chunk(a, n) = PageSize - o
    BY <1>2, <1>4, <1>5
  <2>2. a + Chunk(a, n) = q * PageSize + PageSize
    <3>1. q * PageSize \in Nat
      BY <1>2, TimesNat
    <3> QED BY <1>1, <1>2, <2>1, <3>1
  <2>3. ((q + 1) * PageSize + 0) % PageSize = 0
    BY <1>2, QuotientUnique
  <2>4. (q + 1) * PageSize = q * PageSize + PageSize
    <3>1. (q + 1) * PageSize = q * PageSize + 1 * PageSize
      BY <1>2, TimesDist
    <3> QED BY <1>2, <3>1
  <2>5. (a + Chunk(a, n)) % PageSize = 0
    <3>1. PICK x \in Nat : x = (q + 1) * PageSize
      BY <1>2, TimesNat
    <3>2. a + Chunk(a, n) = x + 0 /\ (x + 0) % PageSize = 0
      BY <2>2, <2>3, <2>4, <3>1
    <3> QED BY <3>2
  <2>6. PageSize - o \in Nat /\ PageSize - o < WordMod /\ PageSize - o <= n
        /\ o + (PageSize - o) <= PageSize
    BY <1>2, <1>3, <1>5
  <2> QED BY <1>1, <1>3, <2>1, <2>5, <2>6
<1>6. CASE ~(n >= PageSize)
  <2>1. o = 0 /\ Chunk(a, n) = n
    BY <1>2, <1>3, <1>4, <1>6
  <2> QED BY <1>1, <1>2, <1>3, <1>6, <2>1
<1> QED BY <1>5, <1>6

LEMMA Md5ReadEffect ==
  ASSUME Busy, "md5" = job.op, NEW s, NEW c, GoodEntries(s),
         NEW a \in Nat, NEW n \in Nat, Reached(s, a, n, c), Cached(s, a),
         Md5Read("md5", s, a, n)
  PROVE  Effect("md5", s, c)
<1>1. CASE TestAttr(s, a, "R")
  <2>1. PICK j \in DOMAIN s : FirstHit(s, a, j) /\ "R" \in s[j].attr
    BY <1>1 DEF TestAttr
  <2>2. PICK i \in DOMAIN s :
           /\ FirstHit(s, a, i)
           /\ Issue("md5", a, PhysOf(s[i], a), n, Md5Len(PhysOf(s[i], a), n), "R")
    BY <1>1 DEF Md5Read
  <2>3. i = j /\ Contains(s[i], a)
    BY <2>1, <2>2, FirstHitUnique, HitContains DEF GoodEntries
  <2>4. PICK r \in Region : r = s[i] /\ Current(r)
    BY DEF GoodEntries
  <2>5. Mapped(a) /\ Place(a) = PhysOf(r, a)
    BY <2>3, <2>4, CurrentWords
  <2>6. PhysOf(r, a) % PageSize = a % PageSize
    BY <2>5, PlaceOffset DEF Busy
  <2>7. Md5Len(PhysOf(r, a), n) = Chunk(a, n)
    <3>1. Md5Len(PhysOf(r, a), n) = Chunk(a, n) % WordMod
      BY <2>6 DEF Chunk, Md5Len
    <3>2. WordMod \in Nat \ {0}
      BY PageSizeAssumption, WordModAssumption
    <3>3. Chunk(a, n) % WordMod = Chunk(a, n)
      BY <3>2, ChunkSize, SmallMod
    <3> QED BY <3>1, <3>3
  <2>8. Chunk(a, n) \in Nat /\ (a % PageSize) + Chunk(a, n) <= PageSize
    BY ChunkSize
  <2>9. Issue("md5", a, PhysOf(s[i], a), n, Chunk(a, n), "R") /\ "R" \in s[i].attr
    BY <2>1, <2>2, <2>3, <2>4, <2>7
  <2>10. "md5" \in Threads /\ "md5" # "translate" /\ i \in DOMAIN s
    OBVIOUS
  <2> QED BY <2>3, <2>8, <2>9, <2>10, IssueEffect, Zenon
<1>2. CASE ~TestAttr(s, a, "R")
  <2>1. Complete("md5", Status({"DONE", "ERR"}))
    BY <1>2 DEF Md5Read
  <2>2. pc' = [pc EXCEPT !["md5"] = "wait"] /\ regs' = Status({"DONE", "ERR"})
    BY <2>1 DEF Complete
  <2>3. regs'.status = {"DONE", "ERR"}
    BY <2>2, StatusType DEF Busy
  <2> QED BY <2>2, <2>3 DEF Effect, Ends, Result
<1> QED BY <1>1, <1>2

\* The end of a translate command: all words are in the cache.
LEMMA TranslateEnds ==
  ASSUME Busy, "translate" = job.op, NEW s, NEW c,
         \A b \in JobRange(job) : Cached(s, b),
         Complete("translate", Status({"DONE"}))
  PROVE  Effect("translate", s, c)
<1>1. pc' = [pc EXCEPT !["translate"] = "wait"] /\ regs' = Status({"DONE"})
  BY DEF Complete
<1>2. regs'.status = {"DONE"}
  BY <1>1, StatusType DEF Busy
<1> QED BY <1>1, <1>2 DEF Effect, Ends, Result

LEMMA TranslateEffect ==
  ASSUME Busy, "translate" = job.op, NEW s, NEW c, GoodEntries(s),
         NEW a \in Nat, NEW n \in Nat, Reached(s, a, n, c),
         Translate("translate", s, a, n)
  PROVE  Effect("translate", s, c)
<1> DEFINE pending == {k \in 0 .. n : /\ k * PageSize < n
                                     /\ ~Cached(s, a + k * PageSize)}
<1>1. /\ a % PageSize = 0 /\ a >= job.addr /\ a + n = job.addr + job.len
      /\ \A b \in job.addr .. (a - 1) : Cached(s, b)
  BY DEF Reached
<1>2. job.addr \in Nat /\ job.len \in Nat
  BY JobType DEF Busy
<1>3. PageSize \in Nat \ {0}
  BY PageSizeAssumption
<1>4. ASSUME NEW k \in Nat, k * PageSize < n
      PROVE  k \in 0 .. n
  <2>1. k * 1 <= k * PageSize
    BY <1>3, Z3
  <2>2. k * PageSize \in Nat
    BY <1>3, TimesNat
  <2> QED BY <1>4, <2>1, <2>2
<1>5. CASE pending = {}
  <2>1. \A k \in Nat : k * PageSize < n => Cached(s, a + k * PageSize)
    BY <1>4, <1>5
  <2>2. \A b \in a .. a + n - 1 : Cached(s, b)
    BY <1>1, <2>1, PagesCached
  <2>3. \A b \in JobRange(job) : b \in job.addr .. (a - 1) \/ b \in a .. a + n - 1
    BY <1>1, <1>2 DEF JobRange
  <2>4. \A b \in JobRange(job) : Cached(s, b)
    BY <1>1, <2>2, <2>3, Zenon
  <2>5. Complete("translate", Status({"DONE"}))
    BY <1>5 DEF Translate
  <2> QED BY <2>4, <2>5, TranslateEnds
<1>6. CASE pending # {}
  <2>1. PICK k \in pending :
           /\ \A j \in pending : k <= j
           /\ SendAts("translate", a + k * PageSize, n - k * PageSize, PageSize)
    BY <1>6 DEF Translate
  <2>2. k \in Nat /\ k * PageSize < n
    OBVIOUS
  <2>3. \A j \in Nat : j < k /\ j * PageSize < n => Cached(s, a + j * PageSize)
    <3>1. TAKE j \in Nat
    <3>2. HAVE j < k /\ j * PageSize < n
    <3>3. j \notin pending
      BY <2>1, <2>2, <3>2
    <3>4. j \in 0 .. n
      BY <1>4, <3>2
    <3> QED BY <3>2, <3>3, <3>4
  <2> HIDE DEF pending
  <2>4. PICK x \in Nat : x = k * PageSize
    BY <1>3, <2>2, TimesNat
  <2>5. \A j \in Nat : j * PageSize < x => Cached(s, a + j * PageSize)
    <3>1. TAKE j \in Nat
    <3>2. HAVE j * PageSize < x
    <3>3. j * PageSize \in Nat
      BY <1>3, TimesNat
    <3>4. j < k
      <4>1. ~(k * PageSize <= j * PageSize)
        BY <2>4, <3>2, <3>3
      <4>2. ~(k <= j)
        BY <1>3, <2>2, <4>1, TimesOrder
      <4> QED BY <2>2, <4>2
    <3>5. j * PageSize < n
      BY <2>2, <2>4, <3>2, <3>3
    <3> QED BY <2>3, <3>4, <3>5
  <2>6. \A b \in a .. a + x - 1 : Cached(s, b)
    BY <1>1, <2>5, PagesCached
  <2>7. (a + x) % PageSize = 0
    BY <1>1, <2>2, <2>4, NextPage
  <2>8. a + x \in Nat /\ n - x \in Nat /\ a + x >= job.addr
        /\ (a + x) + (n - x) = job.addr + job.len
    BY <1>1, <1>2, <2>2, <2>4
  <2>9. \A b \in job.addr .. (a + x) - 1 : b \in job.addr .. (a - 1) \/ b \in a .. a + x - 1
    BY <1>1, <1>2, <2>4
  <2>10. \A b \in job.addr .. (a + x) - 1 : Cached(s, b)
    BY <1>1, <2>6, <2>9, Zenon
  <2>11. Reached(s, a + x, n - x, c)
    BY <2>7, <2>8, <2>10 DEF Reached
  <2>12. SendAts("translate", a + x, n - x, PageSize)
    BY <2>1, <2>4
  <2>13. "translate" \in Threads
    OBVIOUS
  <2> QED BY <2>8, <2>11, <2>12, <2>13, SendAtsEffect, Zenon
<1> QED BY <1>5, <1>6

LEMMA UseEffect ==
  ASSUME Busy, NEW t \in Threads, t = job.op, NEW s, NEW c, GoodEntries(s),
         NEW a \in Nat, NEW n \in Nat, Reached(s, a, n, c), Cached(s, a),
         Use(t, s, a, n)
  PROVE  Effect(t, s, c)
<1>1. CASE t \in {"read", "write"}
  <2>1. Reached(s, a, 1, c)
    BY <1>1 DEF Reached
  <2> QED BY <1>1, <2>1, TransferEffect DEF Use
<1>2. CASE t = "md5"
  BY <1>2, Md5ReadEffect DEF Use
<1>3. CASE t = "translate"
  <2>1. /\ a % PageSize = 0 /\ a >= job.addr /\ a + n = job.addr + job.len
        /\ \A b \in job.addr .. (a - 1) : Cached(s, b)
    BY <1>3 DEF Reached
  <2>2. job.addr \in Nat /\ job.len \in Nat /\ PageSize \in Nat \ {0}
    BY JobType, PageSizeAssumption DEF Busy
  <2>3. \A b \in a .. a + PageSize - 1 : Cached(s, b)
    BY <2>1, PageCached
  <2>4. CASE n <= PageSize
    <3>1. \A b \in JobRange(job) : b \in job.addr .. (a - 1) \/ b \in a .. a + PageSize - 1
      BY <2>1, <2>2, <2>4 DEF JobRange
    <3>2. \A b \in JobRange(job) : Cached(s, b)
      BY <2>1, <2>3, <3>1, Zenon
    <3>3. Complete("translate", Status({"DONE"}))
      BY <1>3, <2>4 DEF Use
    <3> QED BY <1>3, <3>2, <3>3, TranslateEnds
  <2>5. CASE ~(n <= PageSize)
    <3>1. Translate("translate", s, a + PageSize, n - PageSize)
      BY <1>3, <2>5 DEF Use
    <3>2. a + PageSize \in Nat /\ n - PageSize \in Nat /\ a + PageSize >= job.addr
          /\ (a + PageSize) + (n - PageSize) = job.addr + job.len
      BY <2>1, <2>2, <2>5
    <3>3. (a + PageSize) % PageSize = 0
      <4>1. (a + 1 * PageSize) % PageSize = 0
        BY <2>1, NextPage
      <4> QED BY <2>2, <4>1
    <3>4. \A b \in job.addr .. (a + PageSize) - 1 :
             b \in job.addr .. (a - 1) \/ b \in a .. a + PageSize - 1
      BY <2>1, <2>2
    <3>5. \A b \in job.addr .. (a + PageSize) - 1 : Cached(s, b)
      BY <2>1, <2>3, <3>4, Zenon
    <3>6. Reached(s, a + PageSize, n - PageSize, c)
      BY <1>3, <3>2, <3>3, <3>5 DEF Reached
    <3> QED BY <1>3, <3>1, <3>2, <3>6, TranslateEffect
  <2> QED BY <2>4, <2>5
<1>4. t \in {"read", "write"} \/ t = "md5" \/ t = "translate"
  OBVIOUS
<1> QED BY <1>1, <1>2, <1>3, <1>4, Zenon

LEMMA LookUpEffect ==
  ASSUME Busy, NEW t \in Threads, t = job.op, NEW s, NEW c, GoodEntries(s),
         NEW a \in Nat, NEW n \in Nat, Reached(s, a, n, c), LookUp(t, s, a, n)
  PROVE  Effect(t, s, c)
<1>1. CASE Cached(s, a)
  BY <1>1, UseEffect DEF LookUp
<1>2. CASE ~Cached(s, a)
  <2>1. SendAts(t, a, n, IF t = "md5" THEN n ELSE PageSize)
    BY <1>2 DEF LookUp
  <2> QED BY <2>1, SendAtsEffect
<1> QED BY <1>1, <1>2

\* A step that leaves the IOMMU, the memory and the command alone
LEMMA ReachedKept ==
  ASSUME UNCHANGED <<iommu, mem, job>>, NEW s, NEW a, NEW n, NEW c, NEW t \in Threads,
         s = atc', a = virt'[t], n = left'[t], c = ctx', Reached(s, a, n, c)
  PROVE  Reached(atc, virt[t], left[t], ctx)'
<1>1. \A d : Words(d)' = Words(d)
  BY DEF Words, Content, Place
<1> QED BY <1>1 DEF Reached

LEMMA SteadyPlaces ==
  ASSUME UNCHANGED iommu
  PROVE  \A a : (Mapped(a) <=> Mapped(a)') /\ Place(a)' = Place(a)
  BY DEF Mapped, Place

\* What a thread does keeps the invariant.
LEMMA EffectInv ==
  ASSUME DInv, RInv, DInv', NEW t \in Threads, pc[t] # "wait",
         NEW c, Effect(t, atc', c), UNCHANGED <<iommu, mem, host, job>>,
         pc'[t] # "wait" => ctx' = c, HashFresh'
  PROVE  RInv'
<1>1. t = job.op /\ host = "poll" /\ regs.status = {}
      /\ \A u \in Threads : u # t => pc[u] = "wait"
  BY DEF DInv, OneCommand
<1>2. pc \in [Threads -> {"wait", "ready", "ats", "answered", "dma"}]
  BY DEF DInv, IInv, TypeOK
<1>3. \A a : (Mapped(a) <=> Mapped(a)') /\ Place(a)' = Place(a)
  BY SteadyPlaces
<1>4. \A a : Content(a)' = Content(a)
  BY DEF Content
<1>5. \A d : Words(d)' = Words(d)
  BY DEF Words, Content, Place
<1>6. JobMapped'
  BY <1>3, Zenon DEF RInv, JobMapped, JobRange
<1>7. ReadStored'
  BY <1>3, <1>4 DEF RInv, ReadStored
<1>8. CASE Asks(t, atc', c)
  <2>1. pc'[t] = "ats" /\ \A u \in Threads : u # t => pc'[u] = "wait"
    BY <1>1, <1>2, <1>8 DEF Asks
  <2>2. regs' = regs /\ ctx' = c
    BY <1>8, <2>1 DEF Asks
  <2>3. Programmed' /\ ResultRight'
    BY <1>1, <2>2 DEF RInv, Programmed, Finished, ResultRight
  <2>4. Reached(atc, virt[t], left[t], ctx)'
    BY <1>8, <2>2, ReachedKept DEF Asks
  <2>5. want'[t].virt = Align(virt'[t], PageSize)
    BY <1>8 DEF Asks
  <2>6. Asking'
    BY <2>1, <2>4, <2>5 DEF Asking
  <2>7. Moving' /\ NoStaleAccess'
    BY <2>1 DEF Moving, NoStaleAccess
  <2> QED BY <1>6, <1>7, <2>3, <2>6, <2>7 DEF RInv
<1>9. CASE Moves(t, atc', c)
  <2>1. pc'[t] = "dma" /\ \A u \in Threads : u # t => pc'[u] = "wait"
    BY <1>1, <1>2, <1>9 DEF Moves
  <2>2. regs' = regs /\ ctx' = c /\ RightAccess(t, access'[t], virt'[t], left'[t])
    BY <1>9, <2>1 DEF Moves
  <2>3. Programmed' /\ ResultRight'
    BY <1>1, <2>2 DEF RInv, Programmed, Finished, ResultRight
  <2>4. Reached(atc, virt[t], left[t], ctx)'
    BY <1>9, <2>2, ReachedKept DEF Moves
  <2>5. Moving'
    <3>1. /\ t # "translate" /\ access'[t].virt = virt'[t]
          /\ access'[t].len = Chunk(virt'[t], left'[t]) /\ access'[t].data = regs'.value
      BY <2>2 DEF RightAccess
    <3>2. \A a, n : Chunk(a, n)' = Chunk(a, n)
      BY DEF Chunk
    <3> QED BY <2>1, <2>4, <3>1 DEF Moving, Chunk
  <2>6. Asking'
    BY <2>1 DEF Asking
  <2>7. NoStaleAccess'
    <3>1. PICK x : x = access'[t]
      OBVIOUS
    <3>2. \A k \in 0 .. x.len - 1 :
            /\ Mapped(x.virt + k) /\ Place(x.virt + k) = x.phys + k
            /\ x.kind \in iommu[(x.virt + k) \div PageSize].attr
      BY <2>2, <3>1 DEF RightAccess
    <3>3. \A k \in 0 .. x.len - 1 :
            /\ Mapped(x.virt + k)' /\ Place(x.virt + k)' = x.phys + k
            /\ x.kind \in iommu'[(x.virt + k) \div PageSize].attr
      BY <1>3, <3>2
    <3> QED BY <2>1, <3>1, <3>3 DEF NoStaleAccess, Mapped, Place
  <2> QED BY <1>6, <1>7, <2>3, <2>5, <2>6, <2>7 DEF RInv
<1>10. CASE Ends(t, atc')
  <2>1. \A u \in Threads : pc'[u] = "wait"
    BY <1>1, <1>2, <1>10 DEF Ends
  <2>2. Result(regs', atc')
    BY <1>10 DEF Ends
  <2>3. Asking' /\ Moving' /\ NoStaleAccess'
    BY <2>1 DEF Asking, Moving, NoStaleAccess
  <2>4. Programmed'
    BY <1>1, <2>2 DEF Result, Programmed, Finished
  <2>5. ResultRight'
    <3>1. PICK r, s : r = regs' /\ s = atc' /\ Result(r, s)
      BY <2>2
    <3>2. JobRange(job)' = JobRange(job)
      BY DEF JobRange
    <3>3. /\ job.op = "read" => r.value = job.data
          /\ job.op = "write" => Content(Place(job.addr)) = job.data
          /\ job.op = "translate" => \A b \in JobRange(job) : Cached(s, b)
          /\ job.op = "md5" => "ERR" \in r.status \/ r.digest = Words(job.len)
      BY <3>1 DEF Result
    <3>4. job.op = "write" => Content(Place(job.addr))' = job'.data
      BY <1>3, <1>4, <3>3
    <3>5. job.op = "translate" => TranslateCovers'
      BY <3>1, <3>3 DEF TranslateCovers, JobRange
    <3>6. job.op = "md5" =>
             "ERR" \in regs'.status \/
             regs'.digest = [k \in 1 .. job'.len |-> Content(Place(job.addr + k - 1))']
      BY <3>1, <3>3 DEF Words, Content, Place
    <3>7. job.op \in Threads
      BY <1>1
    <3> QED BY <3>1, <3>3, <3>4, <3>5, <3>6, <3>7 DEF ResultRight
  <2> QED BY <1>6, <1>7, <2>3, <2>4, <2>5 DEF RInv
<1> QED BY <1>8, <1>9, <1>10 DEF Effect

-----------------------------------------------------------------------------
(* The steps of the threads, and then those of the host                     *)

\* What a thread at work may rely on
LEMMA WorkBusy ==
  ASSUME DInv, CInv, RInv, NEW t \in Threads, pc[t] # "wait"
  PROVE  /\ Busy /\ t = job.op /\ GoodEntries(atc)
         /\ regs.addr = job.addr /\ regs.length = job.len
         /\ job.op = "write" => regs.value = job.data
<1>1. /\ host = "poll" /\ t = job.op /\ regs.status = {}
      /\ \A i \in DOMAIN atc : Current(atc[i])
  BY AtWork
<1>2. Busy
  BY <1>1 DEF Busy, DInv, IInv, CInv, RInv
<1>3. GoodEntries(atc)
  BY <1>1 DEF GoodEntries, DInv, IInv, TypeOK
<1>4. ~Finished
  BY <1>1 DEF Finished
<1>5. /\ regs.addr = job.addr /\ regs.length = job.len
      /\ job.op = "write" => regs.value = job.data
  BY <1>1, <1>4 DEF RInv, Programmed
<1> QED BY <1>1, <1>2, <1>3, <1>5

LEMMA WordsNone == Words(0) = <<>>
  BY DEF Words

\* The context is fresh again when the hash is done.
LEMMA EffectFresh ==
  ASSUME DInv, RInv, NEW t \in Threads, pc[t] # "wait", NEW s, NEW c, Effect(t, s, c),
         t # "md5" => ctx' = ctx, t = "md5" /\ pc'[t] = "wait" => ctx' = <<>>
  PROVE  HashFresh'
<1>1. /\ pc \in [Threads -> {"wait", "ready", "ats", "answered", "dma"}]
      /\ \A u \in Threads : u # t => pc[u] = "wait"
  BY DEF DInv, IInv, TypeOK, OneCommand
<1>2. \E x \in {"wait", "ats", "dma"} : pc' = [pc EXCEPT ![t] = x]
  BY DEF Effect, Asks, Moves, Ends
<1>3. CASE t = "md5"
  BY <1>1, <1>2, <1>3 DEF HashFresh
<1>4. CASE t # "md5"
  <2>1. pc["md5"] = "wait"
    BY <1>1, <1>4
  <2> QED BY <1>4, <2>1 DEF RInv, HashFresh
<1> QED BY <1>3, <1>4

LEMMA StartEffect ==
  ASSUME DInv, CInv, RInv, DInv', UNCHANGED <<host, job>>,
         \/ StartTranslate
         \/ \E t \in {"read", "write"} : StartTransfer(t)
         \/ StartMd5
  PROVE  RInv'
<1>1. job \in Jobs /\ job.addr \in Nat /\ job.len \in Nat
  BY JobType DEF DInv
<1>2. ASSUME NEW t \in Threads, pc[t] = "ready", Effect(t, atc, ctx),
             UNCHANGED <<ctx, atc, iommu, mem>>
      PROVE  RInv'
  <2>1. Effect(t, atc', ctx) /\ ctx' = ctx /\ pc[t] # "wait"
    BY <1>2
  <2>2. t = "md5" => ctx = <<>>
    BY <1>2 DEF RInv, HashFresh
  <2>3. HashFresh'
    BY <2>1, <2>2, EffectFresh
  <2> QED BY <1>2, <2>1, <2>3, EffectInv
<1>3. CASE StartTranslate
  <2>1. /\ pc["translate"] = "ready" /\ UNCHANGED <<ctx, atc, iommu, mem>>
        /\ Translate("translate", atc, regs.addr, regs.length)
    BY <1>3 DEF StartTranslate, envVars
  <2>2. /\ Busy /\ "translate" = job.op /\ GoodEntries(atc)
        /\ regs.addr = job.addr /\ regs.length = job.len
    BY <2>1, WorkBusy
  <2>3. Reached(atc, job.addr, job.len, ctx)
    <3>1. job.addr % PageSize = 0
      BY <1>1, <2>2, JobsAssumption
    <3>2. job.addr .. (job.addr - 1) = {}
      BY <1>1
    <3> QED BY <1>1, <2>2, <3>1, <3>2 DEF Reached
  <2>4. Effect("translate", atc, ctx)
    BY <1>1, <2>1, <2>2, <2>3, TranslateEffect
  <2> QED BY <1>2, <2>1, <2>4
<1>4. ASSUME NEW t \in {"read", "write"}, StartTransfer(t)
      PROVE  RInv'
  <2>1. /\ pc[t] = "ready" /\ UNCHANGED <<ctx, atc, iommu, mem>>
        /\ LookUp(t, atc, regs.addr, 1)
    BY <1>4 DEF StartTransfer, envVars
  <2>2. /\ Busy /\ t = job.op /\ GoodEntries(atc) /\ regs.addr = job.addr
    BY <2>1, WorkBusy
  <2>3. Reached(atc, job.addr, 1, ctx)
    BY <2>2 DEF Reached
  <2>4. Effect(t, atc, ctx)
    BY <1>1, <2>1, <2>2, <2>3, LookUpEffect
  <2> QED BY <1>2, <2>1, <2>4
<1>5. CASE StartMd5
  <2>1. pc["md5"] = "ready" /\ UNCHANGED <<ctx, atc, iommu, mem>>
    BY <1>5 DEF StartMd5, envVars
  <2>2. /\ Busy /\ "md5" = job.op /\ GoodEntries(atc)
        /\ regs.addr = job.addr /\ regs.length = job.len
    BY <2>1, WorkBusy
  <2>3. ctx = Words(0)
    BY <2>1, WordsNone DEF RInv, HashFresh
  <2>4. CASE regs.length # 0 /\ LookUp("md5", atc, regs.addr, regs.length)
    <3>1. Reached(atc, job.addr, job.len, ctx)
      <4>1. job.addr % PageSize = 0 \/ job.len >= PageSize
        BY <1>1, <2>2, JobsAssumption
      <4>2. job.addr - job.addr = 0
        BY <1>1
      <4> QED BY <1>1, <2>2, <2>3, <2>4, <4>1, <4>2 DEF Reached
    <3>2. Effect("md5", atc, ctx)
      BY <1>1, <2>2, <2>4, <3>1, LookUpEffect
    <3> QED BY <1>2, <2>1, <3>2
  <2>5. ASSUME Complete("md5", regs'), Result(regs', atc) PROVE RInv'
    <3>1. pc' = [pc EXCEPT !["md5"] = "wait"]
      BY <2>5 DEF Complete
    <3>2. Effect("md5", atc, ctx)
      BY <2>5, <3>1 DEF Effect, Ends
    <3> QED BY <1>2, <2>1, <3>2
  <2>6. CASE /\ regs.length = 0
             /\ Complete("md5", [regs EXCEPT !.status = {"DONE"}, !.digest = <<>>])
    <3>1. regs' = [regs EXCEPT !.status = {"DONE"}, !.digest = <<>>]
      BY <2>6 DEF Complete
    <3>2. regs'.status = {"DONE"} /\ regs'.digest = Words(job.len)
      BY <2>2, <2>6, <3>1, WordsNone DEF Busy, TypeOK
    <3> QED BY <2>2, <2>5, <2>6, <3>1, <3>2 DEF Result
  <2>7. CASE Complete("md5", Status({"DONE", "ERR"}))
    <3>1. regs' = Status({"DONE", "ERR"})
      BY <2>7 DEF Complete
    <3>2. regs'.status = {"DONE", "ERR"}
      BY <2>2, <3>1, StatusType DEF Busy
    <3> QED BY <2>2, <2>5, <2>7, <3>1, <3>2 DEF Result
  <2> QED BY <1>5, <2>4, <2>6, <2>7 DEF StartMd5
<1> QED BY <1>3, <1>4, <1>5

\* A cache that grows keeps what it has.
LEMMA ReachedGrows ==
  ASSUME NEW s, NEW q, \A b : Cached(s, b) => Cached(q, b),
         NEW a, NEW n, NEW c, Reached(s, a, n, c)
  PROVE  Reached(q, a, n, c)
  BY DEF Reached

\* The reply that do_ats_req needs for its address has it in the cache.
LEMMA ResumeEffect ==
  ASSUME DInv, CInv, RInv, DInv', UNCHANGED <<host, job>>,
         NEW t \in Threads, Resume(t)
  PROVE  RInv'
<1>1. /\ pc[t] = "answered" /\ UNCHANGED <<iommu, mem>>
      /\ virt[t] \in Nat /\ left[t] \in Nat /\ want[t].virt \in Nat
      /\ pc \in [Threads -> {"wait", "ready", "ats", "answered", "dma"}]
  BY DEF Resume, envVars, DInv, IInv, TypeOK
<1>2. /\ Busy /\ t = job.op /\ GoodEntries(atc)
  BY <1>1, WorkBusy
<1>3. /\ Reached(atc, virt[t], left[t], ctx)
      /\ Cached(atc, virt[t]) \/ want[t].virt = Align(virt[t], PageSize)
  BY <1>1 DEF RInv, Asking
<1>4. host = "poll" /\ regs.status = {} /\ \A u \in Threads : u # t => pc[u] = "wait"
  BY <1>1 DEF DInv, OneCommand
\* It asks again, for the same or for the rest of the range.
<1>5. ASSUME /\ pc' = [pc EXCEPT ![t] = "ats"] /\ ctx' = ctx
             /\ UNCHANGED <<regs, virt, left, access>>,
             Reached(atc', virt[t], left[t], ctx),
             Cached(atc', virt[t]) \/ want'[t].virt = Align(virt[t], PageSize)
      PROVE  RInv'
  <2>1. pc'[t] = "ats" /\ \A u \in Threads : u # t => pc'[u] = "wait"
    BY <1>1, <1>4, <1>5
  <2>2. HashFresh'
    <3>1. pc'["md5"] \in {"wait", "ready"} => pc["md5"] \in {"wait", "ready"}
      BY <1>1, <1>4, <2>1
    <3> QED BY <1>5, <3>1 DEF RInv, HashFresh
  <2>3. Reached(atc, virt[t], left[t], ctx)'
    BY <1>1, <1>5, ReachedKept
  <2>4. Asking'
    <3>1. Cached(atc, virt[t])' \/ want'[t].virt = Align(virt'[t], PageSize)
      BY <1>5 DEF Cached
    <3> QED BY <2>1, <2>3, <3>1 DEF Asking
  <2>5. Moving' /\ NoStaleAccess'
    BY <2>1 DEF Moving, NoStaleAccess
  <2>6. Programmed' /\ ResultRight'
    BY <1>4, <1>5 DEF RInv, Programmed, Finished, ResultRight
  <2>7. JobMapped' /\ ReadStored'
    <3>1. \A a : (Mapped(a) <=> Mapped(a)') /\ Place(a)' = Place(a)
      BY <1>1, SteadyPlaces
    <3>2. \A a : Content(a)' = Content(a)
      BY <1>1 DEF Content
    <3>3. JobMapped'
      BY <3>1, Zenon DEF RInv, JobMapped, JobRange
    <3> QED BY <3>1, <3>2, <3>3 DEF RInv, ReadStored
  <2> QED BY <2>2, <2>4, <2>5, <2>6, <2>7 DEF RInv
<1>6. CASE ~answer[t].ok
  <2>1. pc' = [pc EXCEPT ![t] = "ats"]
        /\ UNCHANGED <<regs, virt, left, want, access, ctx, atc>>
    BY <1>6 DEF Resume
  <2>2. Reached(atc', virt[t], left[t], ctx)
        /\ (Cached(atc', virt[t]) \/ want'[t].virt = Align(virt[t], PageSize))
    BY <1>3, <2>1
  <2> QED BY <1>5, <2>1, <2>2
<1>7. CASE answer[t].ok
  <2> DEFINE r == RegionOf(want[t].virt, answer[t])
  <2>1. /\ Contains(r, want[t].virt)
        /\ Len(atc) + 1 \in DOMAIN atc' /\ atc'[Len(atc) + 1] = r
        /\ DOMAIN atc \subseteq DOMAIN atc'
        /\ \A i \in DOMAIN atc : atc'[i] = atc[i]
        /\ \A i \in DOMAIN atc' : Current(atc'[i])
    BY <1>7, ResumeCurrent
  <2>2. GoodEntries(atc')
    BY <2>1 DEF GoodEntries, DInv, IInv, TypeOK
  <2>3. PICK s : s = atc'
    OBVIOUS
  <2>4. \A b : Cached(atc, b) => Cached(s, b)
    BY <2>1, <2>3 DEF Cached
  <2>5. Cached(s, want[t].virt)
    BY <2>1, <2>3 DEF Cached
  <2>6. Cached(s, virt[t])
    <3>1. CASE Cached(atc, virt[t])
      BY <2>4, <3>1
    <3>2. CASE want[t].virt = Align(virt[t], PageSize)
      <4>1. want[t].virt % PageSize = 0
            /\ virt[t] \in want[t].virt .. want[t].virt + PageSize - 1
        BY <1>1, <3>2, AlignPage
      <4> QED BY <1>1, <2>2, <2>3, <2>5, <4>1, PageCached
    <3> QED BY <1>3, <3>1, <3>2
  <2>7. Reached(s, virt[t], left[t], ctx)
    BY <1>3, <2>4, ReachedGrows
  <2> HIDE DEF r
  <2>8. CASE CoversRest(r, want[t].len)
    <3>1. Use(t, s, virt[t], left[t])
      BY <1>7, <2>3, <2>8 DEF Resume, r
    <3>2. ctx' = IF t = "md5" /\ pc'[t] = "wait" THEN <<>> ELSE ctx
      BY <1>7 DEF Resume
    <3>3. Effect(t, s, ctx)
      BY <1>1, <1>2, <2>2, <2>3, <2>6, <2>7, <3>1, UseEffect
    <3>4. HashFresh'
      BY <1>1, <3>2, <3>3, EffectFresh
    <3>5. pc'[t] # "wait" => ctx' = ctx
      BY <3>2
    <3>6. Effect(t, atc', ctx) /\ pc[t] # "wait"
      BY <1>1, <2>3, <3>3
    <3> QED BY <1>1, <3>4, <3>5, <3>6, EffectInv
  <2>9. CASE ~CoversRest(r, want[t].len)
    <3>1. /\ pc' = [pc EXCEPT ![t] = "ats"]
          /\ UNCHANGED <<regs, virt, left, access>>
      BY <1>7, <2>9 DEF Resume, r
    <3>2. ctx' = ctx
      <4>1. pc'[t] = "ats"
        BY <1>1, <3>1
      <4> QED BY <1>7, <4>1 DEF Resume
    <3> QED BY <1>5, <2>3, <2>6, <2>7, <3>1, <3>2
  <2> QED BY <2>8, <2>9
<1> QED BY <1>6, <1>7

LEMMA WordsType ==
  ASSUME TypeOK, NEW n \in Nat
  PROVE  /\ Words(n) \in Seq(Data) /\ Len(Words(n)) = n
         /\ \A k \in 1 .. n : Words(n)[k] = Content(Place(job.addr + k - 1))
<1>1. \A k \in 1 .. n : Content(Place(job.addr + k - 1)) \in Data
  BY ContentType
<1>2. Words(n) \in Seq(Data)
  BY <1>1, IsASeq DEF Words
<1>3. DOMAIN Words(n) = 1 .. n
  BY DEF Words
<1>4. Len(Words(n)) = n
  BY <1>2, <1>3, LenProperties
<1> QED BY <1>2, <1>4 DEF Words

\* A chunk behind the first words makes more words.
LEMMA WordsMore ==
  ASSUME TypeOK, NEW m \in Nat, NEW n \in Nat, NEW p, job.addr \in Nat,
         \A i \in 1 .. n : Content(p + i - 1) = Content(Place(job.addr + (m + i) - 1))
  PROVE  Words(m) \o [i \in 1 .. n |-> Content(p + i - 1)] = Words(m + n)
<1> DEFINE w == [i \in 1 .. n |-> Content(p + i - 1)]
<1>1. \A i \in 1 .. n : Content(p + i - 1) \in Data
  BY ContentType
<1>2. w \in Seq(Data)
  BY <1>1, IsASeq
<1>3. Len(w) = n
  <2>1. DOMAIN w = 1 .. n
    OBVIOUS
  <2> HIDE DEF w
  <2> QED BY <1>2, <2>1, LenProperties
<1>4. \A i \in 1 .. n : w[i] = Content(Place(job.addr + (m + i) - 1))
  OBVIOUS
<1> HIDE DEF w
<1>5. /\ Words(m) \in Seq(Data) /\ Len(Words(m)) = m
      /\ \A k \in 1 .. m : Words(m)[k] = Content(Place(job.addr + k - 1))
  BY WordsType
<1>6. m + n \in Nat
  OBVIOUS
<1>7. /\ Words(m + n) \in Seq(Data) /\ Len(Words(m + n)) = m + n
      /\ \A k \in 1 .. m + n : Words(m + n)[k] = Content(Place(job.addr + k - 1))
  BY <1>6, WordsType
<1>8. /\ Words(m) \o w \in Seq(Data) /\ Len(Words(m) \o w) = m + n
      /\ \A k \in 1 .. m + n : (Words(m) \o w)[k] =
           IF k <= m THEN Words(m)[k] ELSE w[k - m]
  <2>1. PICK v \in Seq(Data) : v = Words(m) /\ Len(v) = m
    BY <1>5
  <2>2. /\ v \o w \in Seq(Data) /\ Len(v \o w) = Len(v) + Len(w)
        /\ \A k \in 1 .. Len(v) + Len(w) : (v \o w)[k] =
             IF k <= Len(v) THEN v[k] ELSE w[k - Len(v)]
    BY <1>2, <2>1, ConcatProperties, Zenon
  <2> QED BY <1>3, <2>1, <2>2
<1>9. ASSUME NEW k \in 1 .. m + n
      PROVE  (Words(m) \o w)[k] = Words(m + n)[k]
  <2>1. CASE k <= m
    BY <1>5, <1>7, <1>8, <2>1
  <2>2. CASE ~(k <= m)
    <3>1. PICK i \in 1 .. n : i = k - m /\ m + i = k
      BY <2>2
    <3>2. w[i] = Content(Place(job.addr + k - 1))
      BY <1>4, <3>1
    <3>3. (Words(m) \o w)[k] = w[i]
      BY <1>8, <2>2, <3>1
    <3> QED BY <1>7, <3>2, <3>3
  <2> QED BY <2>1, <2>2
<1> QED BY <1>7, <1>8, <1>9, SeqEqual DEF w

\* What a thread that is blocked in its access relies on
LEMMA AccessRight ==
  ASSUME DInv, CInv, RInv, NEW t \in Threads, pc[t] = "dma"
  PROVE  /\ Reached(atc, virt[t], left[t], ctx)
         /\ access[t].virt = virt[t] /\ access[t].len = Chunk(virt[t], left[t])
         /\ access[t].data = regs.value /\ access[t].phys \in Nat
         /\ \A k \in 0 .. access[t].len - 1 : Place(virt[t] + k) = access[t].phys + k
<1>1. access[t].phys \in Nat
  BY DEF DInv, IInv, TypeOK, Access
<1> QED BY <1>1 DEF RInv, Moving, NoStaleAccess

\* A transfer is of the word of the command.
LEMMA TransferRight ==
  ASSUME DInv, CInv, RInv, NEW t \in {"read", "write"}, pc[t] = "dma"
  PROVE  access[t].phys = Place(job.addr) /\ Mapped(job.addr)
<1>1. t = job.op /\ host = "poll"
  BY DEF DInv, OneCommand
<1>2. virt[t] = job.addr /\ access[t].len = 1
  BY <1>1, AccessRight DEF Reached, Chunk
<1>3. PICK a \in Nat : a = job.addr
  BY JobType DEF DInv
<1>4. 0 \in 0 .. access[t].len - 1
  BY <1>2
<1>5. Place(a + 0) = access[t].phys + 0 /\ access[t].phys \in Nat
  BY <1>2, <1>3, <1>4, AccessRight, Zenon
<1>6. job.len > 0 /\ job.len \in Nat
  BY <1>1, JobsAssumption DEF DInv
<1>7. Mapped(job.addr)
  BY <1>1, <1>3, <1>6 DEF RInv, JobMapped, JobRange
<1>8. a + 0 = a
  OBVIOUS
<1> QED BY <1>3, <1>5, <1>7, <1>8

LEMMA ReadEffect ==
  ASSUME DInv, CInv, RInv, DInv', UNCHANGED <<host, job>>, ReadDone
  PROVE  RInv'
<1>1. /\ pc["read"] = "dma" /\ UNCHANGED <<ctx, atc, iommu, mem>>
      /\ pc' = [pc EXCEPT !["read"] = "wait"]
      /\ regs' = [regs EXCEPT !.value = Content(access["read"].phys),
                              !.status = {"DONE"}]
  BY DEF ReadDone, Complete, envVars
<1>2. "read" = job.op /\ host = "poll" /\ TypeOK
  BY <1>1 DEF DInv, OneCommand, IInv
<1>3. regs'.status = {"DONE"} /\ regs'.value = Content(access["read"].phys)
  BY <1>1, <1>2 DEF TypeOK
<1>4. regs'.value = job.data
  BY <1>1, <1>2, <1>3, TransferRight DEF RInv, ReadStored
<1>5. Effect("read", atc', ctx)
  BY <1>1, <1>2, <1>3, <1>4 DEF Effect, Ends, Result
<1>6. HashFresh'
  BY <1>1, <1>5, EffectFresh
<1> QED BY <1>1, <1>5, <1>6, EffectInv

LEMMA WriteEffect ==
  ASSUME DInv, CInv, RInv, DInv', UNCHANGED <<host, job>>, WriteDone
  PROVE  RInv'
<1>1. /\ pc["write"] = "dma" /\ UNCHANGED <<ctx, atc, iommu>>
      /\ pc' = [pc EXCEPT !["write"] = "wait"]
      /\ regs' = Status({"DONE"})
      /\ mem' = [a \in PhysAddrs |-> IF a = access["write"].phys
                                     THEN access["write"].data ELSE mem[a]]
  BY DEF WriteDone, Complete
<1>2. /\ "write" = job.op /\ host = "poll" /\ TypeOK
      /\ \A u \in Threads : u # "write" => pc[u] = "wait"
  BY <1>1 DEF DInv, OneCommand, IInv
<1>3. \A u \in Threads : pc'[u] = "wait"
  BY <1>1, <1>2 DEF TypeOK
<1>4. regs'.status = {"DONE"}
  BY <1>1, <1>2, StatusType
<1>5. access["write"].phys = Place(job.addr) /\ access["write"].data = job.data
      /\ Place(job.addr) \in PhysAddrs
  <2>1. job.addr \in Nat
    BY JobType DEF DInv
  <2>2. Mapped(job.addr) /\ access["write"].phys = Place(job.addr)
    BY <1>1, TransferRight
  <2>3. Place(job.addr) \in PhysAddrs
    BY <1>2, <2>1, <2>2, MappedMemory DEF CInv
  <2>4. access["write"].data = regs.value
    BY <1>1, AccessRight
  <2>5. regs.value = job.data
    BY <1>1, <1>2, WorkBusy
  <2> QED BY <2>2, <2>3, <2>4, <2>5
<1>6. \A a : (Mapped(a) <=> Mapped(a)') /\ Place(a)' = Place(a)
  BY <1>1, SteadyPlaces
<1>7. Content(Place(job.addr))' = job'.data
  <2>1. PICK a \in PhysAddrs : a = Place(job.addr)
    BY <1>5
  <2>2. mem'[a] = job.data
    BY <1>1, <1>5, <2>1
  <2>3. Place(job.addr)' = a
    BY <1>6, <2>1
  <2> QED BY <2>2, <2>3 DEF Content
<1>8. ResultRight'
  BY <1>2, <1>7 DEF ResultRight
<1>9. Programmed'
  BY <1>2, <1>4 DEF Programmed, Finished
<1>10. JobMapped'
  BY <1>6, Zenon DEF RInv, JobMapped, JobRange
<1>11. ReadStored' /\ Asking' /\ Moving' /\ NoStaleAccess'
  BY <1>2, <1>3 DEF ReadStored, Asking, Moving, NoStaleAccess
<1>12. HashFresh'
  BY <1>1, <1>2 DEF RInv, HashFresh
<1> QED BY <1>8, <1>9, <1>10, <1>11, <1>12 DEF RInv

LEMMA Md5DoneEffect ==
  ASSUME DInv, CInv, RInv, DInv', UNCHANGED <<host, job>>, Md5ReadDone
  PROVE  RInv'
<1> DEFINE x == access["md5"]
           hashed == ctx \o [i \in 1 .. x.len |-> Content(x.phys + i - 1)]
<1>1. /\ pc["md5"] = "dma" /\ UNCHANGED <<answer, atc, iommu, mem>>
      /\ ctx' = IF pc'["md5"] = "wait" THEN <<>> ELSE hashed
  BY DEF Md5ReadDone, envVars
<1>2. /\ Busy /\ "md5" = job.op /\ GoodEntries(atc) /\ TypeOK
      /\ job.addr \in Nat /\ job.len \in Nat
  BY <1>1, WorkBusy, JobType DEF Busy
<1>3. PICK a \in Nat, n \in Nat : a = virt["md5"] /\ n = left["md5"]
  BY <1>2 DEF TypeOK
<1>4. PICK z \in Nat : z = Chunk(a, n)
  BY <1>1, <1>2, <1>3, AccessRight, ChunkSize
<1>5. Reached(atc, a, n, ctx) /\ x.len = z
  BY <1>1, <1>3, <1>4, AccessRight
<1>6. /\ z < WordMod /\ z <= n /\ n < WordMod
      /\ n - z > 0 => (a + z) % PageSize = 0
  BY <1>2, <1>4, <1>5, ChunkSize
<1>7. /\ a >= job.addr /\ a + n = job.addr + job.len /\ n > 0
      /\ ctx = Words(a - job.addr)
  BY <1>2, <1>5 DEF Reached
<1>8. PICK m \in Nat : m = a - job.addr
  BY <1>2, <1>7
<1>9. hashed = Words(m + z)
  <2>1. ASSUME NEW i \in 1 .. z
        PROVE  Content(x.phys + i - 1) = Content(Place(job.addr + (m + i) - 1))
    <3>1. i - 1 \in 0 .. x.len - 1
      BY <1>5
    <3>2. Place(a + (i - 1)) = x.phys + (i - 1) /\ x.phys \in Nat
      BY <1>1, <1>3, <3>1, AccessRight
    <3>3. a + (i - 1) = job.addr + (m + i) - 1
      BY <1>2, <1>8
    <3>4. x.phys + (i - 1) = x.phys + i - 1
      BY <3>2
    <3> QED BY <3>2, <3>3, <3>4
  <2>2. ctx = Words(m)
    BY <1>7, <1>8
  <2> HIDE DEF x
  <2>3. Words(m) \o [i \in 1 .. z |-> Content(x.phys + i - 1)] = Words(m + z)
    BY <1>2, <2>1, WordsMore
  <2> QED BY <1>5, <2>2, <2>3
<1>10. (n - z) % WordMod = n - z
  BY <1>6, SmallMod, WordModAssumption
<1>11. IF n - z = 0
       THEN Complete("md5", [regs EXCEPT !.status = {"DONE"}, !.digest = hashed])
       ELSE LookUp("md5", atc, a + z, n - z)
  <2> HIDE DEF hashed
  <2>1. IF (n - z) % WordMod = 0
        THEN Complete("md5", [regs EXCEPT !.status = {"DONE"}, !.digest = hashed])
        ELSE LookUp("md5", atc, a + z, (n - z) % WordMod)
    BY <1>3, <1>5 DEF Md5ReadDone, hashed
  <2> QED BY <1>10, <2>1
<1> HIDE DEF hashed, x
<1>12. Effect("md5", atc, hashed)
  <2>1. CASE n - z = 0
    <3>1. /\ pc' = [pc EXCEPT !["md5"] = "wait"]
          /\ regs' = [regs EXCEPT !.status = {"DONE"}, !.digest = hashed]
      BY <1>11, <2>1 DEF Complete
    <3>2. regs'.status = {"DONE"} /\ regs'.digest = hashed
      BY <1>2, <3>1 DEF TypeOK
    <3>3. m + z = job.len
      BY <1>2, <1>7, <1>8, <2>1
    <3> QED BY <1>2, <1>9, <3>1, <3>2, <3>3 DEF Effect, Ends, Result
  <2>2. CASE n - z # 0
    <3>1. LookUp("md5", atc, a + z, n - z)
      BY <1>11, <2>2
    <3>2. n - z \in Nat /\ n - z > 0 /\ a + z \in Nat /\ a + z >= job.addr
          /\ (a + z) + (n - z) = job.addr + job.len /\ (a + z) - job.addr = m + z
      BY <1>2, <1>6, <1>7, <1>8, <2>2
    <3>3. (a + z) % PageSize = 0
      BY <1>6, <3>2
    <3>4. Reached(atc, a + z, n - z, hashed)
      BY <1>2, <1>9, <3>2, <3>3 DEF Reached
    <3>5. "md5" \in Threads
      OBVIOUS
    <3> QED BY <1>2, <3>1, <3>2, <3>4, <3>5, LookUpEffect, Zenon
  <2> QED BY <2>1, <2>2
<1>13. /\ Effect("md5", atc', hashed) /\ pc["md5"] # "wait"
       /\ pc'["md5"] # "wait" => ctx' = hashed
       /\ pc'["md5"] = "wait" => ctx' = <<>>
  BY <1>1, <1>12
<1>14. HashFresh'
  BY <1>13, EffectFresh
<1> QED BY <1>1, <1>13, <1>14, EffectInv

\* While every thread waits only the host's part of the invariant says anything.
LEMMA QuietResult ==
  ASSUME Programmed', JobMapped', ReadStored', HashFresh', ResultRight',
         \A t \in Threads : pc'[t] \in {"wait", "ready"}
  PROVE  RInv'
  BY DEF RInv, Asking, Moving, NoStaleAccess

LEMMA IdleResult ==
  ASSUME DInv, RInv, host' = "idle", UNCHANGED <<pc, ctx>>,
         \A t \in Threads : pc[t] = "wait"
  PROVE  RInv'
<1>1. Programmed' /\ JobMapped' /\ ReadStored' /\ ResultRight'
  BY DEF Programmed, JobMapped, ReadStored, ResultRight, Finished
<1>2. HashFresh'
  BY DEF RInv, HashFresh
<1> QED BY <1>1, <1>2, QuietResult

\* Steps that leave the command and what it works on alone
LEMMA CommandKept ==
  ASSUME RInv, UNCHANGED <<iommu, mem, job>>, host # "idle"
  PROVE  JobMapped' /\ ReadStored'
<1>1. \A a : (Mapped(a) <=> Mapped(a)') /\ Place(a)' = Place(a)
  BY SteadyPlaces
<1>2. \A a : Content(a)' = Content(a)
  BY DEF Content
<1>3. JobMapped'
  BY <1>1, Zenon DEF RInv, JobMapped, JobRange
<1> QED BY <1>1, <1>2, <1>3 DEF RInv, ReadStored

LEMMA HostBeginResult ==
  ASSUME DInv, CInv, RInv, NEW j \in Jobs, HostBegin(j)
  PROVE  RInv'
<1>1. /\ host = "idle" /\ host' = "addr" /\ job' = j
      /\ UNCHANGED <<pc, ctx, iommu>>
      /\ \A a \in JobRange(j) : Mapped(a)
      /\ mem' = IF j.op # "read" THEN mem
                ELSE [a \in PhysAddrs |-> IF a = Place(j.addr) THEN j.data ELSE mem[a]]
  BY DEF HostBegin, devVars
<1>2. \A t \in Threads : pc[t] = "wait"
  BY <1>1, AllWait
<1>3. \A a : (Mapped(a) <=> Mapped(a)') /\ Place(a)' = Place(a)
  BY <1>1, SteadyPlaces
<1>4. JobMapped'
  BY <1>1, <1>3 DEF JobMapped, JobRange
<1>5. ReadStored'
  <2>1. ASSUME j.op = "read" PROVE Content(Place(job.addr))' = j.data
    <3>1. j.addr \in Nat /\ j.len \in Nat /\ j.len > 0
      BY <2>1, JobType, JobsAssumption
    <3>2. Mapped(j.addr)
      BY <1>1, <3>1 DEF JobRange
    <3>3. PICK a \in PhysAddrs : a = Place(j.addr)
      BY <3>1, <3>2, MappedMemory DEF DInv, IInv, CInv
    <3>4. mem'[a] = j.data
      BY <1>1, <2>1, <3>3
    <3>5. Place(j.addr)' = a
      BY <1>3, <3>3
    <3>6. Place(job.addr)' = a
      BY <1>1, <3>5 DEF Place
    <3> QED BY <3>4, <3>6 DEF Content
  <2> QED BY <1>1, <2>1 DEF ReadStored
<1>6. Programmed' /\ ResultRight' /\ HashFresh'
  BY <1>1 DEF RInv, Programmed, ResultRight, HashFresh
<1> QED BY <1>1, <1>2, <1>4, <1>5, <1>6, QuietResult

LEMMA HostProgramResult ==
  ASSUME DInv, RInv, HostProgram
  PROVE  RInv'
<1>1. /\ host \in {"addr", "length", "status", "value"} /\ host' # "idle" /\ host' # "poll"
      /\ UNCHANGED <<pc, ctx, iommu, mem, job>>
  BY DEF HostProgram, HostWrite, BarWrite, envVars
<1>2. \A t \in Threads : pc[t] = "wait"
  BY <1>1, AllWait
<1>3. JobMapped' /\ ReadStored'
  BY <1>1, CommandKept
<1>4. ResultRight' /\ HashFresh'
  BY <1>1 DEF RInv, ResultRight, HashFresh
<1>5. Programmed'
  <2>1. /\ host \notin {"idle", "addr"} => regs.addr = job.addr
        /\ host \in {"status", "value", "ctrl", "poll"} => regs.length = job.len
        /\ regs \in Regs
    BY <1>1 DEF RInv, Programmed, Finished, DInv, IInv, TypeOK, Regs
  <2>2. CASE HostWrite("addr", "addr", job.addr, "length")
    BY <2>1, <2>2 DEF HostWrite, BarWrite, Programmed, Regs
  <2>3. CASE HostWrite("length", "length", job.len, "status")
    BY <2>1, <2>3 DEF HostWrite, BarWrite, Programmed, Regs
  <2>4. CASE HostWrite("status", "status", {},
                       IF job.op = "write" THEN "value" ELSE "ctrl")
    BY <2>1, <2>4 DEF HostWrite, BarWrite, Programmed, Regs
  <2>5. CASE HostWrite("value", "value", job.data, "ctrl")
    BY <2>1, <2>5 DEF HostWrite, BarWrite, Programmed, Regs
  <2> QED BY <2>2, <2>3, <2>4, <2>5 DEF HostProgram
<1> QED BY <1>1, <1>2, <1>3, <1>4, <1>5, QuietResult

LEMMA HostCtrlResult ==
  ASSUME DInv, RInv, HostCtrl
  PROVE  RInv'
<1>1. /\ host = "ctrl" /\ host' = "poll"
      /\ UNCHANGED <<regs, ctx, iommu, mem, job>>
      /\ pc' = [pc EXCEPT ![Notified({job.op})] = IF @ = "wait" THEN "ready" ELSE @]
  BY DEF HostCtrl, BarWriteCtrl, envVars
<1>2. \A t \in Threads : pc[t] = "wait"
  BY <1>1, AllWait
<1>3. \A t \in Threads : pc'[t] \in {"wait", "ready"}
  BY <1>1, <1>2 DEF DInv, IInv, TypeOK
<1>4. JobMapped' /\ ReadStored'
  BY <1>1, CommandKept
<1>5. regs.status = {}
  BY <1>1 DEF DInv, StatusCleared
<1>6. Programmed' /\ ResultRight'
  BY <1>1, <1>5 DEF RInv, Programmed, ResultRight, Finished
<1>7. HashFresh'
  BY <1>1, <1>2 DEF RInv, HashFresh
<1> QED BY <1>3, <1>4, <1>6, <1>7, QuietResult

\* A reply changes neither where the thread is nor what it wants.
LEMMA AnswerResult ==
  ASSUME DInv, CInv, RInv, NEW t \in Threads, AtsAnswer(t), UNCHANGED <<host, job>>
  PROVE  RInv'
<1>1. /\ pc[t] = "ats" /\ pc' = [pc EXCEPT ![t] = "answered"]
      /\ UNCHANGED <<regs, virt, left, want, access, ctx, atc, iommu, mem>>
  BY DEF AtsAnswer
<1>2. /\ pc \in [Threads -> {"wait", "ready", "ats", "answered", "dma"}]
      /\ host = "poll" /\ regs.status = {}
      /\ \A u \in Threads : u # t => pc[u] = "wait"
  BY <1>1 DEF DInv, IInv, TypeOK, OneCommand
<1>3. pc'[t] = "answered" /\ \A u \in Threads : u # t => pc'[u] = "wait"
  BY <1>1, <1>2
<1>4. JobMapped' /\ ReadStored'
  BY <1>1, <1>2, CommandKept
<1>5. Programmed' /\ ResultRight'
  BY <1>1, <1>2 DEF RInv, Programmed, ResultRight, Finished
<1>6. HashFresh'
  <2>1. pc'["md5"] \in {"wait", "ready"} => pc["md5"] \in {"wait", "ready"}
    BY <1>2, <1>3
  <2> QED BY <1>1, <2>1 DEF RInv, HashFresh
<1>7. Asking'
  <2>1. /\ Reached(atc, virt[t], left[t], ctx)
        /\ Cached(atc, virt[t]) \/ want[t].virt = Align(virt[t], PageSize)
    BY <1>1 DEF RInv, Asking
  <2>2. Reached(atc, virt[t], left[t], ctx)'
    BY <1>1, <2>1, ReachedKept
  <2>3. Cached(atc, virt[t])' \/ want'[t].virt = Align(virt'[t], PageSize)
    BY <1>1, <2>1 DEF Cached
  <2> QED BY <1>3, <2>2, <2>3 DEF Asking
<1>8. Moving' /\ NoStaleAccess'
  BY <1>3 DEF Moving, NoStaleAccess
<1> QED BY <1>4, <1>5, <1>6, <1>7, <1>8 DEF RInv

\* An invalidation arrives only while no command is under way.
LEMMA InvalidateResult ==
  ASSUME DInv, CInv, RInv, AtsInvalidate, UNCHANGED <<host, job>>
  PROVE  RInv'
<1>1. /\ inv # <<>> /\ UNCHANGED <<regs, pc, ctx, iommu, mem>>
  BY DEF AtsInvalidate
<1>2. host \in {"idle", "addr"}
  BY <1>1 DEF CInv, Drained, DInv, HostStates
<1>3. \A t \in Threads : pc[t] = "wait"
  BY <1>2, AllWait
<1>4. JobMapped' /\ ReadStored'
  <2>1. CASE host = "idle"
    BY <2>1 DEF JobMapped, ReadStored
  <2>2. CASE host # "idle"
    BY <1>1, <2>2, CommandKept
  <2> QED BY <2>1, <2>2
<1>5. Programmed' /\ ResultRight' /\ HashFresh'
  BY <1>1, <1>2 DEF RInv, Programmed, ResultRight, HashFresh
<1> QED BY <1>1, <1>3, <1>4, <1>5, QuietResult

\* The invariant of the commands holds at the start, and after every step.
LEMMA InitRInv == InitD => RInv
  BY DEF InitD, Init, RInv, Programmed, JobMapped, ReadStored, HashFresh, Asking,
         Moving, NoStaleAccess, ResultRight, Finished

LEMMA NextRInv ==
  ASSUME DInv, CInv, RInv, [NextD]_driverVars
  PROVE  RInv'
<1>1. CASE HostStep
  <2>1. CASE HostMap \/ HostUnmap
    <3>1. host = "idle" /\ host' = "idle" /\ UNCHANGED <<pc, ctx>>
      BY <2>1 DEF HostMap, HostUnmap, MapDma, UnmapDma, devVars
    <3>2. \A t \in Threads : pc[t] = "wait"
      BY <3>1, AllWait
    <3> QED BY <3>1, <3>2, IdleResult
  <2>2. CASE HostDone
    <3>1. /\ host = "poll" /\ regs.status # {} /\ host' = "idle"
          /\ UNCHANGED <<pc, ctx>>
      BY <2>2 DEF HostDone, vars, devVars
    <3>2. \A t \in Threads : pc[t] = "wait"
      BY <3>1 DEF DInv, OneCommand
    <3> QED BY <3>1, <3>2, IdleResult
  <2> QED BY <1>1, <2>1, <2>2, HostBeginResult, HostProgramResult, HostCtrlResult
          DEF HostStep
<1>2. CASE DeviceStep
  <2>1. DInv' /\ UNCHANGED <<host, job>>
    BY <1>2, DeviceInv DEF DeviceStep
  <2>2. CASE ThreadStep
    BY <2>1, <2>2, StartEffect, ResumeEffect, ReadEffect, WriteEffect, Md5DoneEffect
       DEF ThreadStep
  <2> QED BY <1>2, <2>1, <2>2, AnswerResult, InvalidateResult DEF DeviceStep
<1>3. CASE UNCHANGED driverVars
  <2>1. UNCHANGED <<regs, pc, virt, left, want, access, ctx, atc, iommu, mem, host, job>>
    BY <1>3 DEF driverVars, vars, devVars, envVars
  <2>2. Programmed' /\ HashFresh'
    BY <2>1 DEF RInv, Programmed, Finished, HashFresh
  <2>3. JobMapped' /\ ReadStored'
    BY <2>1, CommandKept DEF JobMapped, ReadStored
  <2>4. Asking' /\ Moving'
    <3>1. ASSUME NEW t \in Threads, Reached(atc, virt[t], left[t], ctx)
          PROVE  Reached(atc, virt[t], left[t], ctx)'
      BY <2>1, <3>1, ReachedKept
    <3> QED BY <2>1, <3>1 DEF RInv, Asking, Moving, Cached, Chunk
  <2>5. NoStaleAccess'
    BY <2>1 DEF RInv, NoStaleAccess, Mapped, Place
  <2>6. ResultRight'
    BY <2>1 DEF RInv, ResultRight, TranslateCovers, Cached, JobRange, Content, Place
  <2> QED BY <2>2, <2>3, <2>4, <2>5, <2>6 DEF RInv
<1> QED BY <1>1, <1>2, <1>3 DEF NextD

\* No access of a command of the drivers goes through a translation that the
\* host has taken back, although the cache outlives the mappings: the words of
\* a DMA in flight are mapped now, to where it goes, with its permission.
THEOREM DriverNoStaleAccess == SpecD => []NoStaleAccess
<1>1. InitD => DInv /\ CInv /\ RInv
  BY InitDInv, InitCInv, InitRInv
<1>2. (DInv /\ CInv /\ RInv) /\ [NextD]_driverVars => (DInv /\ CInv /\ RInv)'
  BY NextDInv, NextCInv, NextRInv
<1>3. RInv => NoStaleAccess
  BY DEF RInv
<1> QED BY <1>1, <1>2, <1>3, PTL DEF SpecD

\* When a driver sees its command done, the word it meant has been read or
\* written, every word of its range is in the cache, or the digest is of
\* exactly the words of its range: for every page size, every set of buffers
\* and jobs, and every length that the replies to its requests have.
THEOREM DriverResultRight == SpecD => []ResultRight
<1>1. InitD => DInv /\ CInv /\ RInv
  BY InitDInv, InitCInv, InitRInv
<1>2. (DInv /\ CInv /\ RInv) /\ [NextD]_driverVars => (DInv /\ CInv /\ RInv)'
  BY NextDInv, NextCInv, NextRInv
<1>3. RInv => ResultRight
  BY DEF RInv
<1> QED BY <1>1, <1>2, <1>3, PTL DEF SpecD

=============================================================================
