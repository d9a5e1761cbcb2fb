# TLA+ models of the SystemC/TLM co-simulation demos

The repository holds device models in SystemC that run beside QEMU: a PCIe
accelerator with an address translation cache, DMA controllers, an
interconnect, the models of a Catapult card, bus bridges, and the tops that
wire them into machines. This directory holds TLA+ specifications of the parts
that have behaviour of their own, the configurations that TLC checks them with,
and proofs that TLAPS checks.

    tlc -config PcieDriver.cfg MCPcieDriver      # a run (PROJECT.json lists them)
    tlapm PcieDriver_proofs.tla                  # a module of proofs

`PROJECT.json` lists the components, the runs, the mutants, the source lines
each definition stands for, the findings, the hazards and the theorems.

## How SystemC code becomes actions

SystemC schedules processes cooperatively. A process keeps control until it
calls `wait()`, and a `b_transport` call may do so in the module it calls. So
**one action is the code that runs between two points where control may be
given up**: a `wait()`, a notified or timed event, or a blocking transaction
into another module. A handler that calls neither is one action. Between two
actions of a process anything else may happen, and what the process kept in
locals over the gap is a variable of the model.

- An immediate notification (`event.notify()`) wakes the processes that wait on
  the event at that moment and is lost for all others. A timed notification
  stays pending; while one is, a later one is dropped.
- Simulated time is abstracted to order: a timed wait or notification ends at
  some later step.
- Events, registers and memory are as in the code; payloads are numbers that
  serve to tell one from another.
- What lies outside `src/` (QEMU with its IOMMU, libsystemctlm-soc,
  remote-port, memory, the drivers of the guests) is modelled from the way the
  code uses it and marked external in the map.

## Inventory

| Component | State | Operations | Interaction | Hard part |
|---|---|---|---|---|
| **pcie-acc** (`pcie-ats-demo/pcie-acc.h`) | registers, `m_regions` of the ATC, the locals of four threads | BAR accesses, translate / read / write / md5 commands, ATS invalidation | immediate notifications; ATS requests and DMA over remote-port; invalidations from the IOMMU | the cache changes while a thread is blocked; one status register for four threads; retries; mixes of region sizes |
| **its programs** (`test-pcie-ats-demo-vfio.cc`, `pcie-acc-md5sum-vfio.cc`) | the command in progress, mappings | map, program, poll, unmap | register accesses over VFIO | nothing but the polled status says that a mapping may be taken back |
| **demodma** (`demo-dma.cc`) | registers, the locals of one thread, pending event, irq | register accesses, start, pause, bursts, speculative read | called from CPUs and PCI through the interconnect, calls it in turn | registers change under a burst; notifications come due at the wrong moment; the interrupt is written late |
| **axidma** (`xilinx-axidma.cc`) | registers, `length_copied`, irq, locals of the thread or of the senders | register accesses, memory to stream, stream to memory | stream to and from the MAC, memory, irq method | LENGTH rewritten while blocked; back-pressure of several senders |
| **iconnect** (`iconnect.h`) | address map, offsets | map, route, debug access, DMI | every transaction passes through it; targets block | ranges overlap and include their ends; an offset per initiator |
| **machine tops** (`zynqmp_demo.cc` and nine others, `cpm-qdma-demo.cc`) | the wiring | the constructors' memmap calls | they make the map that the interconnect routes by | sizes, order and numbers of initiators and targets that must fit each other |
| **Catapult width adapter** (`register_adapter.hpp`) | the low half of a write | 64-bit accesses in halves | between the BAR and the role's registers | two hosts in halves at once; a half that does not come |
| **Catapult slots engine** (`slots_dma.cc`) | DMA registers, doorbells, the locals of one thread | register accesses, ring, scan, read from the host, reset | called through the role, calls the device to read host memory | doorbells rung while the thread is blocked; no slot may starve |
| **Catapult device** (`catapult_device.cc`, `register_map.hpp`, `hello_world.cc`, `bedrock_cdx.cc`) | shell registers, cycle counter, where each register lies | decode, read, write, reset | encloses the two above; reset by its machine | lengths and widths that differ between caller, adapter and register; a reset between two halves; indices made of shifted parts |
| **tlm2apb bridge, apb_timer** (`tlm2apb-bridge.h`, `apb_timer.v`) | APB signals; counter, divisor, irq | a transaction; counting | clock edges | the handshake takes effect over several edges, in which the timer counts |
| **debugdev, CDX stubs, PHY, trace** | single registers | one handler each | | none that relates two pieces of state |

What makes each of them correct:

- *pcie-acc*: every word of an access goes where the IOMMU allowed the command's
  address to go (`DmaGranted`), never through a translation that was taken back
  (`NoStaleAccess`, `AtcCurrent`), no command is lost or confused with another
  (`NoCommandLost`, `OneCommand`), each does what was asked (`ResultRight`) and
  ends (`CommandEnds`).
- *demodma*: it copies each job exactly and signals its end (`ImplementsCopy`,
  `DoneMeansCopied`, `JobEnds`); no start is lost (`NoLostStart`); the
  interrupt follows DONE (`IrqNotStale`).
- *axidma*: a channel works only when it is not idle and is at rest when it is
  (`AssertNotIdle`, `IdleAtRest`, `HeldOnlyIdle`); the interrupt follows the
  registers (`IrqFollows`); packets pass both channels whole, in order
  (`PacketWhole`) and in the end (`PacketArrives`).
- *iconnect, tops*: to its initiators the bus is one memory, although each
  target has offsets of its own and ranges overlap (`FlatMemory`); no mapped
  address is sent to an offset that its target does not have (`Inside`); a range that a target grants
  has addresses (`RangesValid`, which is false).
- *width adapter*: no value is composed of halves of different writes
  (`NeverTorn`), and the adapter does not remain in the middle of a write, in
  which it drops everybody else's (`StashFrees`).
- *slots engine*: it never sleeps on a doorbell (`NoneAsleep`), reads what the
  slot's driver asked for (`ReadsAsAsked`), in turn (`InTurn`); a driver that
  sees its doorbell cleared has been served (`DoneMeansServed`), and each job
  ends (`JobEnds`).
- *Catapult device*: an access does not overrun the caller's buffer
  (`CopiesLength`), registers keep their width, and each has addresses of its
  own at which it is reached (`Located`).
- *tlm2apb, timer*: a transaction ends (`TransactionEnds`), reads are of the
  last edge (`ReadsFresh`), enabling the timer reloads it although the write is
  carried out at two edges (`EnableReloads`), and it interrupts
  (`HitsInterrupt`).

The hazards of the code, at the lines where they bite, are in `PROJECT.json`
with the properties that would catch them, or the reason why none does.

## Modules

| Module | Stands for |
|---|---|
| `PcieAcc` | the accelerator, with a host that writes any register at any time |
| `PcieDriver` | EXTENDS it with the host of the repository's programs |
| `PcieDriver_proofs` | the theorems about both |
| `MemCopy` | abstract: what a DMA controller promises |
| `DemoDma` | the DMA controller, with masters that write any register at any time |
| `DemoDmaCopy` | EXTENDS it with a master that runs, pauses and resumes jobs; implements `MemCopy` |
| `AxiDma` | the registers and interrupt common to the two AXI DMA channels |
| `AxiDmaMm2s`, `AxiDmaS2mm` | EXTEND it with the data movers |
| `AxiDmaLoop` | EXTENDS `AxiDmaS2mm` and has an instance of `AxiDmaMm2s`: both channels, a link between them and a driver at each end |
| `DemoDma_proofs`, `AxiDmaMm2s_proofs`, `AxiDmaLoop_proofs` | the lemmas and theorems about the DMA controllers |
| `WidthAdapter` | the adapter: what a write to a half stashes and passes on |
| `AdapterHosts` | EXTENDS it with programs that write 64-bit registers |
| `CatapultDevice` | EXTENDS `AdapterHosts`: decoding, the shell registers, the adapter's reads and the reset |
| `RegisterLayout` | EXTENDS `CatapultDevice`: where the registers lie |
| `CatapultDevice_proofs` | the theorems about these |
| `SlotsEngine` | the engine's registers, thread and reset |
| `SlotsAny` | EXTENDS it with a host that does anything at any time |
| `Catapult` | EXTENDS `WidthAdapter` and `SlotsEngine`: drivers, device, engine; implements `SlotsAny` |
| `Catapult_proofs` | the theorems about `Catapult` and, by an instance of it, `SlotsAny` |
| `Iconnect` | the interconnect, with memories for targets |
| `Tops` | the address maps of the machines |
| `IconnectDmi` | EXTENDS `Iconnect` with direct memory access |
| `Iconnect_proofs` | the theorems |
| `ApbTimer` | the bridge and the timer |
| `ApbTimer_proofs` | the theorems |
| `MC...` | values of the constants for TLC |

### PcieAcc

`pc[t]` says where thread `t` of `ats_req_thread`, `read_thread`,
`write_thread`, `md5_thread` is: in its `wait()`, notified (`ready`), blocked
in an ATS request (`ats`), its reply on the way (`answered`), or blocked in a
DMA access (`dma`). `virt` and `left` are the locals `virt_addr` and `len`,
`want` those of `do_ats_req`, `access` the DMA access, `ctx` the MD5 context as
the sequence of words it was given, `atc` is `m_regions` in its order.
`SendAts`, `Issue` and `Complete` are the three ways a thread gives up control;
`Translate`, `Transfer`, `Md5Read` are the code of the threads between them,
`LookUp` and `Use` the common test of the cache. `Resume` is the rest of
`do_ats_req` *together with* all the thread does up to its next blocking call,
because nothing can come between. `AtsInvalidate` is `b_transport_ats_inv`.

Addresses count 4-byte words, the unit of the read and write commands; the two
address registers are one number (the programs write both before a command);
MD5 is a digest one can compare, the words themselves. The IOMMU answers a
request with any power-of-two range that its tables allow around the address
(`Answers`), or with a failure. A chunk longer than the stack buffer of
`md5_thread` ends the model there: the program overruns its stack. `granted`
is a history variable: all translations that were ever given.

`DmaGranted` is of every word of an access. A chunk of the md5 command is cut at
the end of its page (`Md5Len`), and the entries of the cache are whole pages;
but when the command's length is smaller than the offset in the page the
subtraction wraps around (`Underflows`), and the access is longer than any
translation. Of such an access the property only says where it starts: that the
rest stays within the page, as the comment at `pcie-acc.h:657` has it, is false.

### PcieDriver

The host of both programs. It maps buffers, begins a job in any order and as
often as it likes, writes the registers in the order of the tests (address,
length, status, value, ctrl), polls, and unmaps only when idle. The link
delivers in order, so a register access waits until the invalidations sent
before it have arrived (`inv = <<>>` in `HostWrite` and `HostCtrl`).

### DemoDma, DemoDmaCopy, MemCopy

`pc` is `unborn` until the first notification (`dont_initialize`), then `wait`,
`ready`, `read` and `write` in the two transactions of a burst, `delay` in the
microsecond between bursts. `from` and `to` are the addresses of the two
transactions, read from the registers at *different* moments. `ev` is the timed
notification. `master[m]` remembers a `b_transport` that is blocked in the
speculative read of a ctrl write. A transaction decodes if all its bytes lie in
`Addrs`; a failed read leaves anything in `buf`, which is uninitialised.
`DemoDma` has masters that do anything at any time; `DemoDmaCopy` has one that
programs `dst`, `src`, `len`, sets RUN, may clear it and set it again at any
moment, waits for DONE and acknowledges it. The refinement mapping gives
`MemCopy` the bytes that are still to be copied: those from `src_addr` on, as
many as `len` says (`Todo`).

### AxiDma, AxiDmaMm2s, AxiDmaS2mm

`AxiDma` has what both classes inherit: register accesses, `update_irqs` as a
method that runs some time after its notification (`upd`), and `length_copied`,
which the constructor does not set (any value in `BaseInit`). The memory-to-
stream thread is blocked in `wait`, `read` or `stream`. The stream-to-memory
code runs in the sender's process: `at[s]` is `out`, held back (`wait`), woken
(`ready`) or writing to memory (`write`). `length` and `length_copied` wrap at
`WordMod`.

### AxiDmaLoop

What the `lmac` machines have: a sender's driver, the channel mm2s, a link, the
channel s2mm and a receiver's driver. The channel mm2s is an instance of its
module with variables of its own; the words of its burst are read from the
sender's buffer when the read transaction is, and its stream transaction blocks
until the link has room. The link (bridges, MAC, PHY and the network, all
outside `src/`) keeps the order, loses nothing, and brings any number of words
of one packet in a transaction; a sender that s2mm holds back holds back the
link. Each driver enables the interrupt, writes ADDR and LENGTH, waits for the
interrupt, reads SR, clears it, and begins anew; the receiver reads the length
of the packet from LENGTH. What is transferred is the number of the packet and
the place in it, so that a lost, repeated, swapped or stale word shows.

`early` says that a transaction came before the receiver had ever written
LENGTH. The channel is not idle then, although it has no buffer
(`xilinx-axidma.cc:232`): the words are dropped, and the end of a packet is
signalled to a receiver that has not begun. Both properties are of the packets
of an execution in which that has not happened. The specification has the
executions in which it has.

An initial state chooses between the loop and `AxiDmaS2mm` alone with any host
and any senders, so that the properties of that channel are checked with both.

### WidthAdapter, AdapterHosts

An access runs from the BAR to the register without a wait, so that each access
is one step. `stash` is `_addr` and `_data`; `Completes`, `Composed` and
`StashWrite` say of a write to the low half, the high half or the whole of a
register whether it goes through, with which value, and what remains. Reads
leave the adapter alone; they are in `CatapultDevice`. In `AdapterHosts` several
programs, each with registers of its own, write 64-bit values in one access or
in two; `Repeat` is a program that does not know what became of its low half
and writes the register again from the beginning, with the same value. `posted`
remembers the value that went to the role and the one its program meant.

### SlotsEngine, SlotsAny, Catapult

`pc` is where `dma_thread` is: about to scan (`ready`), blocked in the read from
the host (`read`), in the `wait(SC_ZERO_TIME)` before the doorbell is cleared
(`copied`), in `wait(_dma_doorbell_write)` (`sleep`), or stopped by its
assertion (`aborted`). `Scan` is all the code from the top of the loop to the
next of these, which takes a slot or clears the doorbells of slots without a
buffer and sleeps. `ev` is the notification at the next delta cycle; it is lost
unless the thread sleeps then. `slot` is where the last scan ended, `Dist` the
order of the next one.

In `Catapult` a driver owns a slot. `RoleWrite` and `Access` are the way of an
access through `CatapultDevice::b_transport`, the adapter and
`HelloWorldRole`, without a wait. Three drivers of 64-bit accesses work at
once, or one works alone, with accesses of either width: a 64-bit access between
the halves of somebody else's write makes the adapter drop them, so that drivers
of different widths do not work together. `served` and `passed` are history
variables.

The Catapult code is unfinished, and the models say what it would do when it is
completed in the obvious way: the constructor of `CatapultDevice` leaves `_role`
null; `set_slot_config` and `HelloWorldRole::reset` are declared and not
defined (`Configured` and `HasRole` are constants); lines 336 and 339 of
`slots_dma.cc` do not compile; `dma_write_to_host` is empty, so that nothing is
written back.

### CatapultDevice

One transaction is one step. An address is its bits above the 16 MB of the
device, its page, its register and its offset in the register; `ReadShell`,
`ReadRole` and `Unread` say for each kind of address how many bytes are read and
what, `WriteShell`, `WriteRole`, `WriteNowhere` what is changed. Lengths other
than 4 and 8 are refused; an unaligned access to the role stops the simulation.
`PullReset` is the reset by `bedrock_cdx.cc`, once, a microsecond after the
start: it sets the shell registers and leaves the adapter alone, whatever half
it holds. Each program may repeat a write once after it.

### RegisterLayout

The constructors' loops as sets of addresses: the four families of shell
registers in their columns (`Column`), the fixed DMA registers, and those of a
slot by the shifts of `get_address_regnum` and `get_doorbell_regnum`. `Split` is
the decoding of an address by `catapult_device.cc`, `RegIndex` what
`hello_world.cc` makes of it, and `ReachedBy` which addresses get to a DMA
register. `MCCatapultDevice` takes the registers and addresses of its run from
here, so that they are real ones.

### Iconnect, Tops, IconnectDmi

An initial state chooses a machine. `MemMap` makes the calls of its constructor
one by one, in an array whose elements beyond the targets are not initialised
(`stale` of a machine): an address that only such an element holds goes to
whatever target it names (`Socket`). `Issue` is `b_transport` up to the target and `Return` the rest;
several initiators can be in between. `Debug` is `transport_dbg`. `flat` is the
memory that the bus should be: the value last written at each bus address; a
target is a memory of words, in which what was written at an
offset is read there. An address that no element holds goes to target 0 at an
offset that is not initialised (`Leftover`). Both kinds stray (`Strays`), and
`disturbed` remembers the targets they went to. The constructor sets the offset
of the first initiator and no machine sets another: what the others hold
(`Garbage`) is added to their addresses (`Shift`), while their programs ask for
what they want on the bus (`Known`, `Asks`). The properties are of the address
that is then on the bus; that it is the one that was meant would be false.

`Tops` has one `Machine` per constructor under `src/`: its memmap calls in their
order, with addresses and sizes, how many words each device behind them has
(from the device's own constructor, register list or memory size), and how many
initiators and targets. An address counts words of 8 bytes and is below
2^30 + 2^12, so that the maps of the machines, which reach 0x200000000, fit into
TLC's integers; all mappings begin at such a word and end within one, and what
UINT64_MAX stands for is that bound.

In `IconnectDmi` a target grants its first word or all it has, or refuses, with
the range of all addresses, which the interconnect maps back like another; in a
target that is mapped relative this too is reported as invalid, and ends the
simulation (`invalid` says which it was). `Unmapped` is `unmap_offset`, and `granted` are the ranges each initiator holds.
`InvalidateDirectMemPtr` subtracts, as the code does, the offset of the
*initiator* that has the target's number.

### ApbTimer

`PosEdge` and `NegEdge` are the edges of the clock; at each the bridge and the
timer see the signals from before it. `BridgePosEdge` and `BridgeNegEdge` are
`b_transport` at the edges it waits for (`trans.at`), `TimerPosEdge` the
`always` block: the counting, then the writing, whose assignments win. The
registers, the free-running counter too, have any value at the start: the reset lasts a microsecond and the
clock of the timer may have no edge in it.

## Runs

| Run | Question | Result |
|---|---|---|
| `PcieAcc_any` | may racing commands, any register write at any time, and invalidations lead a word of an access astray? | no, unless the length of an md5 chunk wraps |
| `PcieDriver` | do the repository's programs get what they ask for, always, and do they end? | yes, for page-aligned MD5 ranges and for accesses whose next page is mapped |
| `PcieDriver_lastpage` | does a command end for any address that is mapped? | **no**: within the last page before an unmapped one the device asks for the unmapped page for ever |
| `DemoDma_any` | can notifications be lost to any effect? does the interrupt lag for ever? | no |
| `DemoDmaCopy` | does it implement the copy, safety and liveness, under pauses? | yes |
| `AxiDmaMm2s` | does the assertion hold whatever the host writes while the thread is blocked? | yes |
| `AxiDmaLoop` | do packets arrive whole, in order and in the end? can a sender be held back while the channel is not idle? | yes, unless one was early; no |
| `Catapult` | is every driver served what it asked for, in turn, and does it know when? | yes |
| `CatapultDevice` | can an access of any length, offset and kind overrun a buffer or a register? can two programs that write in halves, and a reset, produce a value that neither meant, or block each other for ever? do two registers meet? | no; writes can be lost |
| `Iconnect_bus` | is the bus of each machine one memory, whatever the offsets that are not set hold, and does every mapping fit its device? | yes |
| `Iconnect_dmi` | can a target grant direct access to what is mapped of it? | **no**: a grant of the whole is taken for an invalid range, which ends the simulation |
| `ApbTimer` | do transactions begun at any point of the clock end and take effect once the timer counts on? | yes |

Each property of a passing run has a mutant (PROJECT.json): a plausible mistake
in one definition, with which TLC finds the property violated. The mutated
forms stand before the definitions they replace, marked `Mutant`.

### Where the code and what is said of it differ

`PcieDriver_lastpage` and `Iconnect_dmi` are runs. The others were met while
modelling; the models have the behaviour of the code.

- `pcie-acc.h:103`: `do_ats_req` rounds the address down and adds the offset to
  a length that is already a page: an access within the last page of a buffer
  also asks for the page after it, and a request that fails is repeated for
  ever. The comments promise DONE or ERR (`pcie-acc.h:540`, `:617`).
- `pcie-acc.h:239`: an entry that covers an invalidated range and extends beyond
  it on both sides stays ("Invalidate a range in the ATC cache", `:223`).
- `pcie-acc.h:659`: the smaller of length and page, less the offset in the page,
  is not the part of the range up to the end of the page; it wraps around when
  the length is smaller than the offset, and the access crosses the page
  ("Adjust length to not cross SZ_4K boundaries", `:657`; the exception in
  `DmaGranted`).
- `pcie-acc.h:517`: TRANSLATE steps by pages from the start of the range; when
  that is within a page that is cached, the end of the range is not translated,
  and DONE is set.
- `register_adapter.hpp:66`: a low half out of sequence is dropped and the old
  one stays, so that the low half of a program that was killed is composed with
  the next one's high half. The comment says "Drop the previous write, stash the
  new one" (`:68`), the message "dropping in-progress write, staging new write"
  (`:70`), and the header that a write to any other address "discards the
  previous 32b write" (`catapult_device.h:140`, `:141`). `bedrock_cdx.cc:113` resets the
  device, and the adapter keeps its stash: a program that begins anew after it,
  with another value, may be composed with its own older half.
- `slots_dma.cc:353`: the doorbell is cleared after the copy, with whatever was
  written to it meanwhile ("If this finds a set doorbell, it clears the stored
  value", `:270`).
- `catapult_device.cc:542`: the cycle counter counts microseconds, not at 100
  MHz (`catapult_device.h:171`).
- `iconnect.h:95`: `target_offset` is set for the first initiator only, and no
  machine calls `set_target_offset`; `iconnect.h:114`: `map[i].size` is set for
  the first N_TARGETS of 4 * N_TARGETS elements, all of which are searched.
- `iconnect.h:189`: the machines give sizes that are smaller by one, which
  `map_address` allows for and `unmap_offset` does not: a DMI range that ends at
  a target's last byte, or covers more than is mapped, is a fatal error. This is
  `Iconnect_dmi`.
- `iconnect.h:289`: an invalidation is "reversed" by the offset of the initiator
  that has the target's number; with more targets than initiators that is
  memory behind the array.
- `iconnect.h:274`: `transport_dbg` answers that no byte was transferred,
  whatever the target says.
- `iconnect.h:220`, `:272`: "Restore the addresss" sets the address on the bus,
  with the initiator's offset still added.
- `versal_demo.cc:324`, `zynqmp_vcs_demo.cc:183`: the window of the DMA
  controller is 16 bytes, its registers are 24: `byte_en` and `error_resp` are
  reached in `zynqmp_demo` only.
- `cpm-qdma-demo.cc:193`: the comment says "Table offset: 0", the offset is
  0x100; the pending bit array is at 0x140000 of a BAR of 256 KiB (`:194`,
  `:207`).
- `bedrock_cdx.cc:270`: the top is given the first argument for its socket, be
  it an option; with a socket path alone the program prints its usage and ends
  (`:272`), although a missing quantum has a default (`:262`). The table of the
  address map (`:132`) is that of `versal_net_cdx_stub.cc`, of which nothing is
  mapped.
- `versal_net_cdx_stub.cc:86`: the accesses that `CounterDev` carries out do not
  set a response status.
- `slots_dma.cc:75`: the register at 0x1c7f0 has no address: every access that
  gets to the DMA registers has bit 17 of the index set (`Located`).
- `slots_dma.cc:76` and on: the names count the registers in decimal while the
  indices are hexadecimal.
- `versal_demo.cc:359`: with DDR_IN_SYSTEMC QEMU's range is relative and does
  not begin at 0, although `iconnect.h:28` says that addresses to QEMU must be
  absolute.
- `tlm2apb-bridge.h:93`, `apb_timer.v:65`: the address is shifted twice, so that
  in the 16 bytes the machines map every access reaches the first register.
- `apb_timer.v:62`: "single cycle accesses" are carried out at two edges.

### Bounds, and why they are enough

- *PcieAcc_any*: pages of 4 words, two buffers that may be mapped one after the
  other at the same virtual page, with different permissions; commands on three
  words from the middle of a page on, so that an md5 command has a chunk that is
  cut within the page and one whose length wraps, and a request for the page
  after it; any two threads at work at once (`MaxBusy`), at most one entry
  (`MaxRegions`) when a command starts (threads already running add more), one
  invalidation in flight. The proofs cover four threads, any range and any number
  of entries.
- *PcieDriver*: three buffers, two of them at the same virtual page so that a
  page is mapped anew to another place while an old entry may be cached; ranges
  of one and two pages, so that an entry covers more than was asked; one job of
  each kind, the translate and md5 jobs over several pages that do not end on a
  page, and an md5 of length 0. Jobs repeat without limit.
- *DemoDma_any*: two masters, registers of 3 bits, bursts of 2: len 3 is a
  burst and a part of one, and wraps when a master rewrites it in the middle.
  Reads past address 2 do not decode.
- *DemoDmaCopy*: jobs of three bursts, one, less than one, and none; one pause
  per job, any number of jobs. `WordMod` is 10, where the longest job and the
  memory end: the registers that advance past its last byte wrap to 0.
- *Catapult*: three slots are the least in which one can be passed over twice
  while another is served; halves of 3 values, so that a value, its halves and
  swapped halves all differ. Jobs repeat without limit.
- *CatapultDevice*: two programs with a register each and halves of one bit
  (`HalfMod` 2): all orders of two writes, in which a half can be dropped,
  overtaken, repeated or composed, before and after the reset (`MaxTime` 2: it
  comes at 1). A shell register of every kind, an address in every kind of page,
  aligned and unaligned offsets. The proof covers any number of all of these.
  `Located` is of all registers of the device, for all the 128 slots that an
  index has room for (`MaxSlots`), at the device's own addresses; the place of
  the capability registers comes from a header outside `src/` (`Capability`).
- *Iconnect_bus*: each machine at its size. The programs access the first and
  the last word of each mapping, where an error of one in a size or an order
  shows, and the last address of all; the first and the last initiator are
  active. One write (`MaxWrites`), which any number of reads through either
  initiator may overtake; debug accesses come when no transaction is under way,
  which they cannot tell apart. An offset that is not set holds 0 or 1 (`Garbage`;
  0 for the initiators that are not active). Of three machines in miniature one
  has a second offset that is set and wraps around, one a second offset that is
  not set, and one elements of the map that are not set and overlap a mapping.
  `read` is kept until the next access. The proofs cover any map, any number of initiators
  and writes.
- *Iconnect_dmi*: the machine with one memory and the one with the widest range.
- *AxiDmaLoop*: two packets, of one word (less than a burst) and three (a burst
  and a half), a buffer that the longer fills, a link that holds one burst, so
  that it runs full; one or two words in a transaction. `length_copied`, which
  is not initialised, holds 0 or its highest value, the same in both channels.
- *ApbTimer*: registers of 2 bits, so that counters wrap and reload within a
  few edges; a transaction begins at any point.
- *AxiDma*: length of three, two or four bits; lengths above and below the
  burst, and 0; addresses up to a bound (a CONSTRAINT: they only grow and
  nothing depends on them).

### Fairness

`PcieDriver` assumes that the device's processes run when they can, that
requests are answered and messages delivered (SystemC's scheduler and
remote-port's blocking calls do that), and that the program does not stop
*between* the register accesses of a command. One weak fairness condition for
all steps of the device is enough: at most one thread is at work (`OneCommand`).
`DemoDmaCopy` assumes the same of the thread, of a due notification and of a
transaction; the master need not ever begin a job, but finishes one it has
begun; it need not pause. `AxiDmaLoop` assumes the same of the two channels, the
link and the receiver, and of a sender that has begun a packet; it need not
begin one. `Catapult` assumes it of the engine and of each driver,
`CatapultDevice` of a program between its two halves (a program that is killed
there is in the list above), and `ApbTimer` that the clock runs and a wait for a
time ends. No strong fairness is assumed anywhere.

Deadlock is checked in all runs except `PcieAcc_any`, `DemoDma_any`,
`CatapultDevice`, `AxiDmaLoop` and `Iconnect_dmi`: there the host is not obliged
to do anything, bounds on commands, packets, invalidations or time stop it, or
an assertion, a fatal report or the overrun stack stops the device.

## Proofs

`PcieDriver_proofs` proves `Spec => []TypeOK` and `Spec => []DmaGranted` of
`PcieAcc` for every page size, mapping, set of inputs and number of entries, and
any width of the registers that has room for a page (`WordModAssumption`).
`TypeOK` is not inductive, and the argument for `DmaGranted` goes through the cache: a thread
uses an entry it did not ask for. The inductive invariant `IInv` adds that
every entry of the cache was granted, that a positive reply on its way to a
thread, put at the address that thread asked for, was granted, and that grants
start and end on pages, in virtual and physical memory alike (`GrantsOnPages`):
a word in the page of a word that an entry holds is in the entry too, so that a
chunk that is cut at the end of its page stays in it (`Md5LenFits`). The cache
lemmas say that what a look-up finds is an entry of the cache; a step of a
thread has one of three outcomes (`Outcome`), for each of which the invariant
is shown once; the actions only have to be shown to have one.

Of `PcieDriver` it proves all the safety properties that its run checks, along
three invariants. TLC checked each conjunct of the last two on the run's
instance before they were proved.

- `DInv`, for `OneCommand` and `NoCommandLost`: `IInv` and a description of how
  a step of a thread moves `pc` and the status (`Moved`). `NoCommandLost`
  follows from `OneCommand`: at `ctrl` no thread is at work.
- `CInv`, for `AtcCurrent`. An entry of the cache is `Current` (its pages lie
  side by side in the IOMMU as the entry says) or an invalidation that will
  remove it is on its way (`HitBy`). The first half is preserved by an answer,
  because the range of an answer is aligned to its length (`AnswersCurrent`),
  and one that was given cannot become stale before it is stored, because
  buffers are unmapped only between commands (`AnswerCurrent`). The second half
  is `UnmapHits`: an invalidation removes the entries of which the first or the
  last word, or all, lies in its range, so an entry that reaches over the
  unmapped buffer on both sides would survive. `BuffersAssumption` excludes it.
- `RInv`, for `NoStaleAccess` and `ResultRight`. For a thread that waits for a
  translation or for a DMA access it says how far the loop has come (`Reached`):
  the words hashed are the first of the range, and the pages behind are cached.
  Every step of a thread asks, moves a chunk or ends (`Effect`), whatever the
  thread. `NoStaleAccess` is a conjunct because the chunk that `ResultRight`
  counts has to be the words the host sees there, and it is preserved because
  the entry that is used is the *first* that is hit, while invalidations have
  been delivered before the command starts (`Drained`).

The assumptions on the constants say what the two programs do.
`BuffersAssumption`: they map memory for reading and writing
(`test-pcie-ats-demo-vfio.cc:110`, `pcie-acc-md5sum-vfio.cc:138`), and no more
than two buffers at a time, at 0 and at 32K, so that none lies between two that
continue it. `JobsAssumption`: reads and writes have a length of 4 bytes,
translations start at 0 and md5 at 32K, which are the starts of pages. Without
the alignment `ResultRight` does not hold of a translation (see the findings).

`DemoDma_proofs` proves type correctness, `NoLostStart` and `IrqNotStale` for
any number of masters, any register width and any memory. `NoLostStart` says
that a thread that is in its `wait()` with RUN set has a notification on its
way, where a master that is blocked in the speculative read counts, since it
is still to make one (`Notice`); given the types it is inductive.
`IrqNotStale` needs the strengthening `Unborn`, that nothing is DONE before
the thread has run, and the assumption that no master writes DONE.
Of `DemoDmaCopy` it proves `DoneMeansCopied` and the safety part of
`ImplementsCopy` (`SpecC => Copying!Spec`), for jobs of any size that fit the
registers and do not overlap, and any number of pauses. The invariant
(`CopyInv`) says that the registers are at a byte of the job, as far from its
end in the source as in the destination (`AtJob`), that a burst in flight is the
next of the job, with the bytes of memory in the buffer (`BurstInv`), and what
the master's place in its program says of the registers and DONE (`HostInv`).
Every step of controller and master is a step of `MemCopy` or leaves its
variables alone; the one that copies is the end of a write, whose burst is taken
from `Todo` (`BurstSplits`) and gives each address of it one source (`Sources`).

`AxiDmaMm2s_proofs` proves that the assertion of the thread holds, that an
idle channel is at rest and that the interrupt follows; `AssertNotIdle` and
`IdleAtRest` are inductive only together (`ChannelInv`): the one says what
IDLE is when the thread goes on, the other where the thread is when IDLE is
set. `AxiDmaLoop_proofs` proves that a sender is held back only while the
channel is idle, for any number of senders, and `PacketWhole`, for packets,
bursts and buffers of any length and a link that cuts the packets into any
pieces. The invariant (`LoopInv`, checked with TLC first) cuts the way of a word
in three. `TxInv` says how far the channel mm2s has come in its packet, so that
`Sent` is the last word on the link; `Linked`, that the words on the link are
consecutive (each is `After` the one before it) with a mark on those that end a
packet; `TakeInv`, that what leaves the link continues what has been stored
(`Piece`, `FrontInv`), that LENGTH and ADDR are at that place of the buffer, and
that memory holds the packet up to it (`RxInv`). The end of a transaction ends
the transfer exactly where its packet ends (`DepositTake`): a packet is no longer
than the buffer, and a piece has words of one packet only (`LinkedHead`).
`LoopConstants` says so of the sizes. Nothing is claimed of what follows a
transaction that was `early`.

`CatapultDevice_proofs` proves `NeverTorn`, type correctness and `CopiesLength`.
The invariant for `NeverTorn` says that a stashed half belongs to the program
that owns the register, that this program is at work on it, and that the half is
that of the value it is writing, be it that the program has begun to repeat it
(`HeldHalf`): nobody else can complete it, because registers have one owner.
`Located` is proved for every number of slots up to 128 (the doorbells of a 129th
have no index of 18 bits) and every column that the header may give the
capability registers: the families of shell registers differ in their column
(`FamilyColumns`), the registers of two slots cannot coincide (`SlotsApart`), and
of the pages with DMA registers both are odd, so that bit 17 of an index is
always set (`DmaIndex`). That the table has the registers `init_shell_registers`
adds and no others is an assumption on the constant (`TableConstants`).

`Iconnect_proofs` proves type correctness, `FlatMemory` and `Inside` for every
address map, whatever the offsets and the elements of the map hold that are not
set. `FlatMemory` rests on an invariant that relates the words in the targets to `flat`: where an address is
mapped, the first entry that holds it and the offset determine the address again
(two addresses of one target have two offsets), so that a word is written
exactly when its bus address is; a target that an address has strayed to is left
out (`Agrees`). Transactions in flight carry the route that
their address has, since the map does not change once it is built. `Inside`
needs that each mapping fits its target (`Fits`), which TLC evaluates for the
machines, and that the calls are entered in their order.

`Catapult_proofs` proves that the engine never sleeps on a doorbell, whatever is
written and reset, and type correctness, which includes that `slot_number` is
always a slot. The scan chooses the nearest slot; that there is one for every
number of slots needs the well-foundedness of the order on distances. `Catapult`
implements `SlotsAny` (`CatapultImplementsSlots`), so that this holds of it too.
Its other safety properties follow from `CatapultInv`, checked with TLC first:
who is at work and that a narrow driver is alone (`AtWork`), which half the
adapter holds (`HeldHalf`), what the registers hold for a driver (`Written`) and
what the engine reads (`Reading`). For `InTurn`, `Ahead` says that a slot that
is rung lies before those that have passed it by, in the order of the next
scan: taking the nearest slot keeps the order of those behind it (`DistMoves`),
and the slot that was just read for is the last (`DistOrder`).

`ApbTimer_proofs` proves type correctness, `ReadsFresh` and `EnableReloads`, for
words of any width and any addresses. The signals are those of the place where
the bridge is (`Handshake`), and the bridge looks at the answer one edge after
the timer gave it. In between the timer counts once more, so that what was read
is the register of a timer that, counted, is the one that is there (`ReadOne`);
and a write is made twice: the first enables and reloads, the second, to a timer
that is on already, counts (`WrittenOne`).

The assumptions are those the modules name on their constants. Not proved, and
only model-checked: liveness (`CommandEnds`, `JobEnds`, `StashFrees`,
`PacketArrives`, `TransactionEnds`, `HitsInterrupt`, and the liveness part of
`ImplementsCopy`), which is out of TLAPS's reach. Every other property of the
passing runs is a theorem.

## What is left out

- byte enables of demodma: what the memory does with them is not in `src/`.
- simulated time and the delays added to transactions.
- the accesses through a pointer that direct memory access has granted.
- of the machines' tops: signals, clocks, tracing, the ports of the Verilog
  models, options of `sc_main`. The SMID of a CDX device is an attribute
  of its transactions that nothing under `src/` reads.
- the printing of the Catapult registers, their initial values (dates, versions,
  magic numbers) and `manipulators.hpp`, which formats.
- packets in flight at once in both directions: each channel of the `lmac`
  machines has its own registers and threads.
- two initiators in the APB bridge at once: two processes that drive one signal
  are an error of the SystemC kernel.
- a register number beyond the array of the AXI DMA's registers, which
  `b_transport` does not check (`xilinx-axidma.cc:187`): the machines map more
  than there are registers, and the programs do not use it.
- the number of bytes that the slots engine reads against the size of the slot's
  buffer, which it does not check ("TODO", `slots_dma.cc:338`), and the data.
  The engine does not look at the response of the read either
  (`catapult_device.cc:586`): that the read has come back is all that `served`
  and `DoneMeansServed` say.
- in the interconnect, an element of the map that is not set and names a target
  beyond the machine's: the access goes wherever the memory behind the array
  leads.
- the output half of the Catapult slots, which the code does not have yet.
- the growth of `m_regions` with duplicate entries is bounded (`MaxRegions`).
- the components with status `not_modelled` in PROJECT.json, with the reasons.
- register accesses that are rejected (byte enables, more than 4 bytes): they
  change nothing.

## Plan

1. *(done)* `PcieAcc`, `PcieDriver`, the DMA controllers, the Catapult adapter,
   engine and device, the interconnect, the timer; their proofs.
2. *(done)* the address maps of all machines and direct memory access in the
   interconnect, with its proofs; `AxiDmaLoop`; the reset of the Catapult device
   while programs are at work, and the layout of its registers.
3. *(done)* `DoneMeansCopied` and the safety of the refinement of `DemoDmaCopy`.
4. *(done)* `AtcCurrent`, `NoStaleAccess` and `ResultRight` of `PcieDriver`.
5. *(done)* the safety of `Catapult`, and that it implements `SlotsAny`.
6. *(done)* `PacketWhole` of `AxiDmaLoop`.
7. *(done)* the safety of `ApbTimer`.
8. *(done)* `Located`, for every number of slots that an index has room for.
9. Proofs: what the runs only sample of `IconnectDmi` (its variables leave those
   of `Iconnect` alone, so that `FlatMemory` and `Inside` hold of it too), and
   what the theorems assume of the machines' maps (`Fits`), for each of `Tops`.
