# Verification of the event-sampling BOOM core and its software

The repository is a modified BOOM (an out-of-order RISC-V core in Chisel) with hardware
support for *event sampling*, the changes to Linux that it needs, user programs that take
samples, and riscv-pk: a proxy kernel, the machine-mode firmware, an emulator of
floating-point instructions and the softfloat library it calls. These modules model the
parts whose correctness depends on order, timing or number ranges. TLC checks them on
small instances, and TLAPS proves the central results about `procTag`, the two sampling
tools, sampling in the core, renaming, the reorder buffer and the proxy kernel for every
instance.

Paths below are relative to the repository (`src/`).

## 1. Inventory

### The system

A user program asks the core, by `addi x0, rs1, n` instructions (written `UCSR` in the
code), to count events of the process that carries the tag `0x1234567`. When the number
of events exceeds `maxEventNum`, the core interrupts the program at an instruction
boundary. Either it jumps to a handler in the program itself (`exitFuncAddr`), or it makes
the kernel believe that the program executed an `ecall`, which a ptrace tracer then
recognises by the register `sampleHappen`. The program must not notice.

Below Linux, or below a single program, runs riscv-pk. Its machine mode boots the harts
from a device tree, serves the calls of the supervisor (interrupts between harts, remote
fences, the console) and emulates the floating-point instructions a core lacks. Its proxy
kernel loads one program and passes its system calls to a host.

| Component | Files | State | Operations | What makes it correct |
|---|---|---|---|---|
| Event sampling in the core | `boom_scala/exu/core.scala` | `procTag`, `exitFuncAddr`, `maxEventNum`, `nowEventNum`, `warmupInstNum`, `sampleHappen`, `userExitPC`, temporary registers | count, mark at decode, throw, redirect, UCSR read/write, URet | samples are transparent; the count is exact; lateness is bounded; the internal cause stays internal |
| Tag per thread | `linux_arch_riscv/kernel/entry.S`, `process.c` | `thread.threadtag`, one `procTag` per hart | save/restore in `__switch_to`, copy at fork | `procTag` is always the tag of the running thread |
| Self-handled sampling | `example/self_handle` | `tempStackMem`, temporary register 0 | `initStart`, `based_sample_func` | the program computes what it computes unsampled |
| ptrace tool | `example/ptrace` | loop variables of `start_run_and_trace` | two `waitpid`s per round, hide and repair the system call | the same; nobody waits for ever |
| Register renaming | `boom_scala/exu/rename/*`, branch tags of `decode.scala` | map table and snapshots, free list and allocation lists, busy table, `branch_mask` | rename, dispatch, write back, resolve, restore, commit, roll back | every operand is the last definition in program order; no register lost or used twice |
| Reorder buffer | `boom_scala/exu/rob.scala` | rows, head/tail/PNR pointers, `maybe_full`, partial row, `r_xcpt` | enqueue, write back, commit, throw, kill, roll back | a queue in program order; exceptions are precise |
| Load/store unit | `boom_scala/lsu/lsu.scala` | load and store queues, the pointers of the ring, registers of the pipeline | dispatch, issue, retry, search, forward, nack, wake up, commit, drain | one order of accesses per location; each store once; no deadlock |
| Data cache, MSHRs, prefetcher | `lsu/dcache.scala`, `lsu/mshrs.scala`, ... | pipeline stages, MSHR state machines | hit, miss, nack, refill, probe, write back | coherence |
| Core pipeline glue, decode | `core.scala`, `decode.scala` | pipeline registers, `brupdate` | redirect, hazards, branch resolution in two cycles | part of the modules above |
| Performance counters | `event_counter.scala` | counters in two levels | count, reset, delayed read | reads and resets do not lose events |
| Issue queues, register read, execution units | `exu/issue-units/*`, `exu/register-read/*`, `exu/execution-units/*` | slots, pipelines | wake up, issue, compact, kill | no uop is lost or issued early |
| Frontend, predictors | `ifu/*`, `ifu/bpd/*` | fetch buffer, fetch target queue, tables | fetch, redirect, update | every fetched instruction is delivered once |
| Proxy kernel: file table | `riscv-pk/pk/file.c` | files with reference counts, descriptors | open, dup, close, get, take over | a file lives exactly as long as something refers to it |
| Proxy kernel: virtual memory | `riscv-pk/pk/mmap.c` | page table, table of regions, page pool, break | map, unmap, protect, fault, populate | a page read late holds what it would have held at once; the kernel is out of reach |
| Proxy kernel: boot, traps, calls | `riscv-pk/pk/pk.c`, `elf.c`, `handlers.c`, `syscall.c` | the process, its buffers | load a program, serve a trap | the host sees what the program sees |
| Machine mode: boot, calls, interrupts | `riscv-pk/machine/mentry.S`, `minit.c`, `mtrap.c`, `bbl/bbl.c` | one word of the CLINT and `mipi_pending` per hart | wake, park, send, wait, take | a remote fence is done when the call returns; nobody waits for ever |
| Consoles and the host | `machine/htif.c`, `uart.c`, `uart16550.c`, `finisher.c` | `tohost`, `fromhost`, `console_buf`, the lock | put, get, poll, power off | nothing lost, doubled or taken by the wrong reader |
| Device tree | `machine/fdt.c` | the frames of the scan | one scan per query or filter | a query finds what the tree says, whatever its layout |
| Instruction emulation | `machine/emulation.c`, `fp_emulation.c`, `fp_ldst.c` | the save slot of `x0` (fcsr) | decode, compute, write, accrue flags | an emulated instruction does what the instruction does |
| softfloat | `riscv-pk/softfloat/*` | rounding mode, flags | every function | the exact result, rounded once; the right flags |
| Checkpoint restore, log scripts, tests | | | | |

Components meet in five ways: wires inside one clock cycle (decode, rename, ROB, LSU, CSR
file); the sampling registers, which the core and software on the same hart both write;
the kernel's trap path, which saves and restores what the hart holds for a thread; stops
between tracer and child; and memory shared between harts, and with the host, in machine
mode. `PROJECT.json` lists every component with its status.

### What is hard

* *Stale decisions.* The core decides to sample at decode and acts many cycles later,
  with registers that may have changed (`core.scala` 793-797 against 661-675 and 1293).
* *Effects before commit.* A sampling register is written at register read (1392-1422).
* *Overlap.* Mispredictions are repaired in two cycles (`b1` kills, `b2` restores), and a
  second one may come in between; exceptions roll back row by row while others resolve.
* *No ages.* ROB and LSU derive age from pointers into a ring and a hint.
* *Loads ahead of stores.* A load runs before older stores know their addresses; three
  searches and two bits must find it afterwards (`lsu.scala` 1087-1152).
* *One register, many threads.* `procTag` is per hart, threads are not.
* *Protocols of stops.* The tracer assumes that stops come in pairs.
* *Waiting on each other.* Harts fence each other with interrupts disabled and wait for
  words that only the other clears (`mtrap.c` 61-136).
* *One mailbox.* Console and system calls of all harts share `tohost` and `fromhost`; a
  reply may be found by a hart that did not ask for it (`htif.c` 50-100).
* *Late filling.* A page gets its content at the first access, from a region that may have
  been cut, protected or replaced since; translations stay cached meanwhile (`mmap.c`).
* *Rounding.* Cancellation, sticky bits, carries into the exponent and the order of
  rounding and flags (`softfloat`), in formats whose operands no test enumerates.

The list `hazards` of `PROJECT.json` gives these at their lines, with the properties
aimed at them. One more is known and not on a property's way: fork copies the tag that the
parent's last context switch saved (`process.c` 121), which is stale if the parent has set
`procTag` since; the documentation does not say which of the two a child should have.

## 2. Modules and how they correspond to the code

| Module | Models | A step is | Instance |
|---|---|---|---|
| `ThreadTag` | `__switch_to`, fork, the core's writes of `procTag`; the scheduler by its contract | an instruction or half of a context switch | `MCThreadTag` |
| `SampleCore` | sampling registers, decode marks, commit, exception, redirect, UCSR, URet | a clock cycle | `MCSampleCore` |
| `Program` | the abstract specification: a program that runs untraced and unsampled | an instruction | |
| `SelfHandler` | `initStart`, `based_sample_func`; implements `Program` | an instruction or an asm block | `MCSelfHandler` |
| `PtraceSampler` | `start_run_and_trace`, the kernel's system call path; implements `Program` | an instruction, a stop, a tracer call | `MCPtraceSampler` |
| `Rename` | rename stage, map table, free list, busy table, branch tags | a clock cycle | `MCRename` |
| `Rob` | the reorder buffer with dispatch and LSU faults at its ports | a clock cycle | `MCRob` |
| `Lsu` | load and store queues, with ROB, TLB and data cache by their contracts | a clock cycle | `MCLsu` |
| `PkFile`, `PkMmap`, `Pk` | file table; virtual memory; boot, traps and system calls of the proxy kernel | a memory access or a trap of the user | `MCPk` |
| `DeviceTree` | what a tree says (declarative), and its tokens | | |
| `Fdt` | the scanner with the callbacks of all queries and filters | a token | |
| `Sbi` | boot, calls, interrupts between harts, consoles, the host; extends `Fdt` | one shared access of a hart | `MCMachine` |
| `SoftFloat`, `SoftFloatConv`, `SoftFloatWide`, `SoftFloatExt` | arithmetic; conversions, comparisons, fused multiply-add; the 128-bit variants; the 80-bit format | | |
| `SoftFloatOps` | the functions of the library by name, as uses of the algorithms | | |
| `SoftFloatMem` | the functions that take 80- and 128-bit operands in memory | | |
| `SoftFloatRef` | the reference: exact rational arithmetic, rounded once | | |
| `FpLibrary` | a client that calls any function with any operand | a call | |
| `FpEmulation` | the emulator beside that client | a call or a trap | `MCFp` |
| `ThreadTagProofs`, `SelfHandlerProofs`, `PtraceProofs`, `SampleCoreProofs`, `RenameProofs`, `RobProofs`, `PkProofs` | proofs about the module they extend | | |
| `FoldRule` | induction over a fold, which `PkProofs` instantiates for each loop | | |

A clock-cycle module has one action, `Cycle`, whose parameters are the nondeterministic
inputs of the cycle: what fetch delivers, which units finish, which branch mispredicts.
Every register has an operator for its next value, computed from this cycle's values as in
the hardware. Where Chisel connects a register more than once in a cycle the last
connection wins, and the operator applies the connections in that order. Names are those
of the source.

`ThreadTag`. `hwTag[h]` is `procTag` of hart `h`; `threadtag[t]` the field of
`task_struct`. `__switch_to` is two actions, because a sample cannot come between them
but another hart can act. A sample with a handler clears `procTag`. `own` is a history
variable: the tag the thread itself gave, inherited, or was left with.

`SampleCore`. Uops carry their pc, the instruction, a progress state, the exception and
whether they are on a wrong path. A program is a sequence of abstract instructions (`alu`,
`br`, `ld`, `ecall`, `set` of a sampling register, `exitpc`, `uret`), chosen from
`Programs` in the initial state together with the selected event, what the tracer writes
after a sample, and how many interrupts and page faults may come. The program has only
`UserInsts`; what the kernel executes is `kern` and `sret`. Address 0 is the kernel's, and a
`uret` whose temporary register holds no address of the program goes to `Nowhere`, behind
its end. Renaming and the ROB's
pointers are left to `Rename` and `Rob`. In the ecall case the kernel and the tracer are
one step at the `sret`: `sampleHappen` is cleared and `maxEventNum` is written again.

`SelfHandler`. Of the integer registers `a0`, which addresses the save area, and `a7`,
which stands for all the others, are told apart. The save is in the order of
`Save_ALLIntRegs`: `a0` goes to temporary register 0, the others to memory, then `a0`
by way of `a1`; temporary register 0 is then used again for the exit pc.

`PtraceSampler`. The child, the kernel and the tracer interleave. The tracer's loop is
`cont1`, `wait1`, `cont2`, `wait2`. ptrace itself is external and modelled by its
contract. pc counts instructions, so `+4` is `+1`.

`Rename`. ROB and dispatch are sequences. `arch_map` is a history variable, the map at
the commit point, against which the speculative map is compared. The chains of priority
selections that Chisel elaborates over the slots are written without recursion: the tags
and registers that a bundle gets are the `Nth` free ones, and in a map table the youngest
writer of a register wins (`Remapped`). A misprediction cuts the ROB behind
`Survivors`, where everything carries a killed tag; that nothing in front of it does, so
that killing by mask and cutting are the same, is proved (`SurvivorsAre`).

`Rob`. Entries are addressed by row and bank. `order` is a history variable, the program
order of the uops in flight as a relation: `<<p, q>>` when `q` is not before `p`. Dispatch
appends a packet to it; commit, rollback and a misprediction (`Squashed`: everything behind a
mispredicted branch, found in `order` and not by mask) remove from it, so that it is
independent of the pointers and masks it is compared with. Dispatch offers any packet; its
branches get the lowest free tags by rank, which is what the chain of priority selections in
`decode.scala` gives. The LSU may fault any load or store it has not done, and may report an
ordering failure of a load only while an older access is busy.
Configuration as in the repository: `enableCommitMapTable` and `enableFastPNR` off.

`Lsu`. One pipeline (`coreWidth` and `memWidth` 1). An address is a set of locations, the
bytes of `GenByteMask`; a value is the program position of the store that wrote it, so
that forwarding the wrong store is visible. `ldq` and `stq` keep the bits of the source;
`pipe` holds the registers between the stages (`dtlb`, `fired`, `mem`, `wb` and the
delayed releases and commits). The fields of ROB, front end, TLB and data cache that the
LSU reads are modelled by their contracts: a cache request hits, misses into an MSHR, or
is nacked a stage later; a line may be released to another hart, which may write it. The
release search (1137-1152) compares the line with addresses still virtual as well; here
virtual and physical addresses are equal. `memory[l]` is the sequence of the writers of
`l`, `done` what committed and what it read, `broken` the assertions that failed.

`PkFile`, `PkMmap`, `Pk`. The kernel is one thread and cannot be interrupted, so its whole
state is one record `k`, each C function is an operator from states to states, with the
result in a field, and `Pk` composes them to one action per trap or access of the user.
`pte` and `vmrs` are as in the code; one level of page table stands for three; addresses
count units of which a page has two, so that a buffer can begin inside a page and end on
another. `disk` is the host's files, which
`write`, `writev`, `ftruncate` and an open with `O_TRUNC` change. A panic is the phase `panic`.
No handler tests whether a buffer is the user's, and the kernel's memory is mapped at its own
addresses: a store there, by the kernel or the host, may hit the page table or the
kernel itself, so after it nothing is known; the field `lost` records it and the behaviour ends in
the phase `lost`. Three fields are history. `want` has for each page the part of a host file last
mapped there and for each unit the set of values it may show: what was stored last, or else
every content that its part of the file had since the mapping and before the page was there.
`used` counts how often a page of the pool was handed out. `stale` remembers
that the host was given memory that does not show what the user sees there: `"seen"`
after the call or the user has touched the page, `"unseen"` before. Host calls are synchronous and
modelled by their effect; where a `write` lands in the file is the host's business and
nondeterministic.

`DeviceTree`, `Fdt`, `Sbi`. A board is a tree; `Flatten` gives its tokens, the scan reads
them one by one with a stack of frames (a frame serves all children of a node in turn, as
on the C stack), and each query's callbacks are `Open`, `Prop`, `Done` and `Close`
operators with the query's name as parameter. The queries are `board`'s fields. `TreeRight`
compares them with definitions over the tree. `Sbi` continues on the board found: a hart
executes one shared access per step (a word of the CLINT, `mipi_pending`, the lock, a
mailbox word), and a store to another hart's CLINT word reaches its `mip` later
(`Deliver`). On a 16550 the status is read in one step (`AwaitReady`, `AskReady`) and the
data register accessed in another, without a lock, so that another hart can come between; its two
queues are `host.tx` and `host.rx`, and a character stored to a full one is dropped. The SiFive
UART returns data and status by one access (`amoor` and load), which is one step. `owed` and `con` are history variables: the harts with a fence still to do
for a finished call, and the characters sent, printed, typed and read.

`SoftFloat` and the modules after it. The library repeats each algorithm once per format.
Here an algorithm is one operator over a format `[e, f, w]` (bits of exponent, of fraction
and of the word that holds a significand), `SoftFloatOps` names the functions, and `map`
gives all their files. A float is the natural number its bits encode. Abstracted are the
words into which a wide significand is cut, and the reciprocal approximations whose error
the code removes with the remainder before it rounds: a significand is one natural, a
quotient or root is exact with a sticky last bit. The 80-bit format is restricted to
canonical operands (the explicit leading bit agrees with the exponent); `Explicit` puts
the bit back where the code computes with it, at the rounding precisions 80, 64 and 32.
`SoftFloatMem` keeps the operands of 80 and 128 bits in places of a memory, where the result
may overwrite an operand; both it and the functions on 128-bit values are the library as
built with `SOFTFLOAT_FAST_INT64`.

`FpLibrary` keeps `softfloat_roundingMode`, `softfloat_exceptionFlags` and the last call.
`FpEmulation` adds the trap path: the save slot of `x0`, which holds fcsr while the
emulator runs, the mode an instruction names or takes from `frm`, the calls into the
library, the accrual of flags, and the loads, stores and CSR accesses that trap.

## 3. Runs

All bounds are constants of the `.cfg` files or of the MC modules. A passing run ends with
the whole state space explored; the number is that of its distinct states.

| Run | Properties | Instance, and why it is enough |
|---|---|---|
| `thread_tag` (12,856) | `TagIsolation` | 2 harts, 5 tasks (2 idle), 3 tags: a task can migrate while two others compete, and a `task_struct` can be reused. The proof removes the bound. |
| `sample_core` (59,792) | `Transparent`, `NotSpeculative`, `CountExact`, `OvershootBound`, `OverflowHidden`, `Terminates` | width 2, ROB of 3; five programs: own handler, disguised system calls, events in any cycle, warm-up, and 13 counted instructions in a row, which is more than the bound of `OvershootBound`; up to 2 interrupts or faults |
| `sample_rearm` | `OverflowHidden` (violated) | a program that writes `maxEventNum` while it is sampled |
| `self_handler` (250) | `HandlerAlone`, `Invisible`, `ProgramEnds` | 14 instructions, the shortest period that the handler admits, up to 3 uops late, so that samples hit the program at every kind of instruction |
| `ptrace_tool` (105,675) | `SamplingGoesOn`, `Invisible`, `ToolEnds` | 13 instructions with three system calls before exit, 4 periods, up to 2 signals |
| `rename` (132,748) | `MapTableRight`, `OperandsRight`, `FreeListRight`, `BusyRight`, `TagsRight` | width 2, ROB of 2, 2 branch tags, 5 physical registers: dependences and branches inside a bundle, partial dispatch; registers and tags run out, mispredictions nest and overlap |
| `rob` (57,535) | `RingRight`, `CommitRight`, `RollbackRight`, `XcptRight`, `RollbackEnds` | 2 rows of 2, 1 branch tag, 1 port: partial rows, holes in a row, a full ring; three mixes of uops, since all kinds at once are too many states |
| `lsu` (157,293) | `AssertionsHold`, `WritesRight`, `Coherent`, `DrainsInTime` | 2 usable entries in each queue, started one before the wrap, eight programs of three operations; see below |
| `pk` (156,627) | `RefcntExact`, `FilesOpen`, `KernelIntact`, `ContentRight`, `TlbFresh`, `HostSeesUser` | 2 program images, 3 system calls, 2 units to a page; see below |
| `pk_pages` | `PageOwnedOnce` (violated) | the table of regions takes 2 pages instead of 100 |
| `machine` (285,601) | `TreeRight`, `FenceFirst`, `ConsoleRight`, `CallsEnd` | three boards, two harts, queues of 2 characters; see below |
| `fp` (729,215) | `ArithmeticRight`, `DecisionsRight`, `EmulatedRight` | formats of a few bits; see below |

What they say:

* `TagIsolation`: `procTag` is the tag of the thread that runs, and the saved tag of a
  waiting thread is the one it left with.
* `Transparent`: whatever samples, interrupts, faults and mispredictions happen, the
  program commits its instructions in order, each exactly once. `CountExact`: the counter
  holds exactly the committed user instructions. `NotSpeculative`: what acts before it
  commits is alone in the machine and on the right path. `OvershootBound`: a sample is
  late by at most a ROB and two bundles. `OverflowHidden`: the kernel never sees the
  internal cause. `Terminates`: sampling does not starve the program.
* `Invisible`: the sampled program implements `Program`, by a refinement mapping that
  takes the program's registers from where the tool has put them.
* `SamplingGoesOn`, `HandlerAlone`, `ToolEnds`, `ProgramEnds`: sampling does not stop by
  itself, does not sample its own handler, and ends. After a signal-delivery stop the loop
  of `trace.cpp` takes entry stops for exit stops, and the system call of a sample is then
  executed with whatever is in `a7`. `Invisible` and `SamplingGoesOn` are therefore claimed
  up to the first signal; that nobody waits for ever (`ToolEnds`) is claimed with signals.
* `MapTableRight`, `OperandsRight`, `FreeListRight`, `BusyRight`: renaming agrees with
  program order, and physical registers are neither shared nor lost; the last assertions
  of `rename-freelist.scala` are among them. `TagsRight`: the same for branch tags.
* `RingRight`, `CommitRight`, `RollbackRight`, `XcptRight`, `RollbackEnds`: the ring is a
  queue in program order that dispatch never overwrites, commit is in order and a flushing
  uop alone, rollback undoes the youngest first and ends, the exception thrown is the
  oldest. The assertions of `rob.scala` are among them.
* `Coherent`: the committed accesses of this core to a location see the writes of all
  harts in one order that agrees with program order. `WritesRight`: no store is written
  before it commits or lost after it, the writes of a location are in program order, and
  device loads go out only when nothing older can fail. `AssertionsHold`: the assertions of
  `lsu.scala` and those of the ROB on late reports. `DrainsInTime`: with nothing left to do
  outside, the LSU drains within `Patience` cycles.
* `RefcntExact`: the count of a region is the number of pages that wait for a first
  access. `FilesOpen`: a file that a descriptor or a region uses is counted above its uses,
  and its host descriptor is open and nobody else's. `KernelIntact`: whatever addresses the
  mapping calls are given, the user never gets a translation at or above `mmap_max`, and the
  kernel's identity map stays. It is not claimed that the kernel survives a `read`, `fstat`,
  `getcwd`, ... whose buffer reaches into it: it does not. `ContentRight`: a unit of a page shows
  what was stored there or, where nothing was, what its part of the host file held at
  some time between the mapping and the first access. Demand paging can therefore be observed,
  but only through a host file changed under a page that waits; one whose part of the
  file was cut off never shows anything, its first access panics (`mmap.c` 196-197). `TlbFresh`: the
  hart uses no translation that the table no longer holds. `HostSeesUser`: each page of a
  buffer or path handed to the host holds what the user sees there; excepted is `sys_chdir`
  alone, which passes its path without touching it (`syscall.c` 405-408), for pages of
  the path that nobody has touched either.
* `TreeRight`: every query of the device tree - the UARTs with registers, offset and shift, the
  finisher, the host's mailbox, memory, harts, CLINT, PLIC with its contexts and number of
  devices, the kernel of the chosen node - finds what a declarative reading of the tree finds.
  (That reading follows the code in one choice: the SiFive UART, the finisher and the mailbox
  are recognised by the first of the names a node gives, `FirstNamed`, the others by any of
  them.) And the payload's tree hides the CLINT, the debug unit, the unfit harts and the
  machine contexts of the PLIC, and nothing else. `FenceFirst`: when a remote fence has
  returned, its targets execute no supervisor instruction before the fence. `ConsoleRight`:
  no character is lost, doubled or reordered, on any of the three consoles. On a 16550 two
  harts can find the last free place of the queue, or its last character, at the same time: since
  each hart has at most one character between check and store, a queue with a place per hart loses
  none (with `FifoDepth` 1 TLC finds one lost; the device has 16), but a reader may get a
  character nobody typed, and does so only after such a race. `CallsEnd`: a hart that waits for its targets
  stops waiting, unless one of them was shut down or parked with its word set.
* `ArithmeticRight`: add, subtract, multiply, divide, square root, remainder, fused
  multiply-add and the rounding functions give the exact result rounded once, with the
  flags that belong to it. `DecisionsRight`: comparisons, classes and conversions.
  `EmulatedRight`: an emulated instruction writes what the instruction set asks for, in
  the mode it names, and accrues the flags; a load or store is made at the address it names.
  The departures are listed below.

Each property has a mutant, an operator `<definition>_<change>` next to the definition,
with which TLC finds the property violated.

### Load/store unit

Five kinds of operation (load, store, fence, branch; `a1` and `a2` share a line and one
access may cover both, `b` is a device) in eight programs of three operations, each built
around one way in which two accesses meet: forwarding past a nearer store, loads that pass
each other, device accesses around a store, a store on a wrong path, a fence, a device
load on a wrong path, full queues, three loads of which the outer two share a location.
Issue order is free. `MaxTrouble` = 2 bounds the TLB misses, page faults, stalls, cache
misses, nacks and releases of one behaviour; two are needed for a nack that meets a release, or two
nacks of one store. `Refetch` = 3 cycles pass from a redirect to the next dispatch, fewer
than in the core. The longest quiet time found is 23 cycles, `Patience` is 24: a
deadlock of the LSU, which the comments at 1210-1231 speak of, would exceed any bound, so
`DrainsInTime` states progress without a fairness assumption.

### Proxy kernel

The images have text that begins inside a page, data with a bss that needs a page of its
own, and a position-independent variant. The calls' arguments are anonymous and file
mappings, fixed ones that overlay others or reach over the kernel's break, one as long as
the program's memory and one longer than it, which the search of `__vm_alloc` places above the
kernel, unmappings and protections of parts and three breaks. One buffer lies in a
mapping and crosses a page, one begins on the stack and ends in the kernel. A file is written
at one place, cut to one length and emptied by an open. Three calls suffice for map, change,
use; after each the user may touch two pages.
The pool has 8 pages, so that it may run out, and `MAX_VMR` = 4, `MAX_FILES` = 6 and
`MAX_FDS` = 5, so that tables fill up.

### Machine mode

The first board has the console behind the host and wires the harts to the CLINT in the
other order; the second has two cells to an address, a UART, a PLIC, a finisher, a hart
without an MMU and the CLINT before the harts; the third a 16550 UART. The third is run twice, once for the
calls between harts and once for the console. The supervisor makes up to two IPI calls (remote
fences or interrupts), and up to three console calls, with two characters typed. `FifoDepth` is 2,
one place for each hart. Every bus of the boards declares its cell counts: where it does not, the
code uses what an elder sibling declared for its own children, and `TreeRight` is not
claimed there. `Machine.cfg` switches deadlock checking off because a machine that has
powered off stops; in all other runs ended behaviours stutter explicitly.

### Floating point

The five formats have 3+2, 4+5, 5+8, 6+12 and 6+10 bits of exponent and fraction, and the
integer types 7 and 10 bits. The narrowest is large enough for subnormals, overflow and
every rounding case, and every operand of it is tried, in the five modes, with half of them as the second one;
of the others the boundary values (least and greatest of every class, neighbours of powers
of two, halves). The formats keep the relations that the code
relies on: words have the guard bits that the algorithms shift into, a wider fraction has
room for a narrower format's guard bits, and `FormatsNarrowToWide`, `IntTypes` and
`ExtendedFormat` state them. What cannot be seen here is a wrong constant of one width
only, since the code's literal masks become functions of the format.

`EmulatedRight` leaves out where the emulator is known to depart from the instruction set
(`Departs`): a `frm` that names no mode; `fmin` and `fmax` of two NaNs, or of zeros of both
signs (`fp_emulation.c` 157-180); conversions from 64-bit integers, which go through double
also for a single result and negate after rounding (206-241); conversions to integers,
which negate and round in the same mode (243-318), in the modes that look at the sign, and
those of operands that are out of range. `DepartsMem` leaves out the misaligned compressed loads and
stores (`emulation.c` 21-40), which are passed on with the instruction's bits in the place of the
address. And nothing is claimed of a trap that is redirected to the supervisor:
`__redirect_trap` restores the registers of the trap's entry, so that what the emulator kept in
the slot of `x0` is dropped (`mentry.S` 146-155 and 210-217).

### Fairness

* `sample_core`: weak fairness of `Busy`, a cycle in which the units finish what they hold
  and the frontend delivers if decode can take it: every unit has a bounded latency. Strong
  fairness of `KernelReturns`: the kernel returns from a trap. Both only for the program
  with its own handler, of which `Terminates` speaks.
* `self_handler`, `rob`: the clock does not stop (`WF` of `Next`, in `rob` while it rolls
  back).
* `ptrace_tool`: child and tracer are each scheduled. No fairness is assumed of signals
  or of samples.
* `machine`: a hart in machine mode goes on, a store reaches its word, the host serves
  the mailbox; none of the supervisor, whose calls are free.

### Findings

* `sample_rearm`: `isOverFlowExcpt` (`core.scala` 1293) is evaluated anew when the exception
  reaches the CSR file. If an older instruction of the program has written `maxEventNum`
  meanwhile, the uop traps into the kernel with the internal cause, which the comment above
  excludes.
* `pk_pages`: `__page_alloc1` (`mmap.c` 32-46) multiplies the index of the next free page by
  100 before it adds it to the pool's base, and then advances the index by 100. The pages
  it takes for the table of regions are not those it marks as taken; `__page_alloc` hands
  them out later. In the run the table has 2 pages.

Seen on the way, and modelled as the code has it: the arms of the Mux of
`store_blocked_counter` (`lsu.scala` 1226) are swapped, so that wakeups are held back from
the first blocked cycle on, a matter of timing only.

## 4. Proofs

All theorems hold for every value of the constants that the named assumptions admit.

`ThreadTagProofs`, for any set of harts, tasks and tags:

    THEOREM Invariance        == Spec => []IInv
    THEOREM TagIsolationHolds == Spec => []TagIsolation

from `TagAssumption` (0 and the target tag are different tags) and `IdleAssumption` (every
hart boots with an idle task of its own). `TagIsolation` alone is not inductive: between the
two halves of `__switch_to` the next task is on a hart and no longer `ready`, so nothing in
`TagIsolation` speaks of its saved tag; and a write on one hart could change the tag of a
task on another one if a task could be on two. Hence `IInv == TypeOK /\ Placement /\
TagIsolation`, where `Placement` says that the tasks of a hart are on it (`oncpu` or
`dying`), that in the middle of a switch both tasks have their own tag saved, and that no
task is on two harts. `InitIInv` proves the initial step; `Elsewhere` (what a step of one
hart leaves alone on another), `WriteStep` (the two actions that write `procTag`) and
`NextIInv` (one step per action, one per conjunct below it) the inductive step.

`SelfHandlerProofs`, for any program, period and lateness that `SelfAssumption` admits:

    THEOREM Invariance        == Spec => []IInv
    THEOREM HandlerAloneHolds == Spec => []HandlerAlone
    THEOREM Refinement        == Spec => Invisible

`HandlerAlone` is not inductive: the last blocks of the handler run with the counter armed,
and stay below the period only because of what has been counted there. `IInv` adds where
the counter is disarmed, the number counted in each block behind the one that arms it
(`CountedAt`), and that from the block that moves it on, temporary register 0 holds the
exit pc. The one arithmetical fact needed of the period is that it is not below the number of
blocks in `AfterArm`, four. There is one lemma per action. For the refinement, `BlocksInvisible` and
`SampleInvisible` show that handler blocks and samples leave the mapped registers alone,
`ProgramMapped` that a step of the program is a step of `Program`.

`PtraceProofs`, for any program, number of periods and signals that `ToolAssumption` admits:

    THEOREM Invariance           == Spec => []IInv
    THEOREM SamplingGoesOnHolds  == Spec => []SamplingGoesOn
    THEOREM Refinement           == Spec => Invisible

`SamplingGoesOn` speaks of user mode only; that it holds again after a sample depends on
the whole round of stops. `IInv` therefore lists the phases in which tracer, kernel and
child can be together (`Between`, `Runs`, `Calling`, `Called`, `Sampled`, `Hidden`,
`Skipped`) and for each where the program's registers are: in the child, in the tracer's
copy, or spread over both. It is claimed while no signal has come, as the properties are.
`ChildInStep` and `TracerInStep` prove the inductive step by phase, `ChildMapped` and
`TracerMapped` the steps of the refinement.

`SampleCoreProofs`, for any programs, width and ROB size that `CoreAssumption` admits:

    THEOREM Invariance          == Spec => []IInv
    THEOREM NotSpeculativeHolds == Spec => []NotSpeculative

`NotSpeculative` speaks of a unique uop that has begun; nothing in it keeps one that waits
from being on a wrong path, or behind another uop, when it begins. `IInv == TypeOK /\
WrongPath /\ Squashed /\ Fresh /\ Alone` adds that every wrong-path uop in flight is behind
an unresolved mispredicted branch (`WrongPath`), that in a rollback `ren2` is empty and
fetch on the right path, or the flush that makes them so is due (`Squashed`), that no uop of
`ren2` has begun (`Fresh`), and that a unique uop is the only one in a ROB that takes no
other (`Alone`). `WrongPathStep` is the largest part: `RobAfterIs` and `Follows` say what
becomes of each entry of the ROB in a cycle, `StaysUnresolved` that a branch which is not
the resolved one stays as it was, and the step is then split into the rollback
(`RollbackIs`), a cycle with a misprediction, and the others (`ForwardIs`). That the
`CHOOSE` of the oldest mispredicted branch and of the first uop not dispatched has a value
comes from the well-foundedness of `<` on `Nat` (`LeastNat`).

Its second half, from the same assumption, is about the counter:

    THEOREM CountInvariance     == Spec => []CInv
    THEOREM CountExactHolds     == Spec => []CountExact
    THEOREM OverflowHiddenHolds == Spec /\ []~SetsWhileDue => []OverflowHidden
    THEOREM OvershootBoundHolds == Spec /\ []~SetsWhileDue => []OvershootBound

* The counter is added to a cycle after the commit, only in user mode and with the program's
  own tag, so that it counts neither too few nor too many depends on what else the machine
  does in the cycle of a trap or return. `CInv` is `IInv` with `Phases`: the core runs the
  program (`UserPhase`) or the kernel (`KernelPhase`), or is in one of the two cycles of a
  disguised call (`Calling`, `Called`) or of its return (`Returning`, `Returned`), in which
  exactly one uop, or none, is in flight; and with `Counter`, which relates the counter and
  the number of uops on their way to it to the committed instructions. `PhaseStep` shows
  that the phases follow each other, with one lemma per phase, `CounterStep` that each
  changes the two sides alike.
* `HInv == CInv /\ Due /\ OverflowHidden`. `Due` says that while a uop is marked in user
  mode the sample is still due. `MarksFrom` traces every mark of the next cycle to one of
  this cycle or to decode, `DueStays` shows that a due sample stays due unless the program
  writes a sampling register, and `HiddenStep` that what reaches the CSR file is then
  turned into the tracer's cause.
* `LInv == CInv /\ Sizes /\ Late`. From the cycle in which the counter passes the
  threshold, whatever decode sends is marked. `Exceeds` bounds the counter by the threshold,
  the uops before the first marked one, and what can still be counted of the cycle;
  `LiveStep` and `DeadStep` prove it with and without a redirect.

`SetsWhileDue` says that a sample is due and a write of `procTag`, `maxEventNum` or the warm-up
count is in flight and has not begun. Its absence is a hypothesis about the program, not the core:
the finding of `sample_rearm` shows that without it `OverflowHidden` fails. The five
programs of `sample_core` meet it in every state, and there the two properties are checked
without it. `CountExact` needs no such hypothesis.

Its last part, for any programs, width and ROB size that `CoreAssumption` and
`HandlerAssumption` admit:

    THEOREM TransparentHolds == Spec => []Transparent

`Transparent` only speaks of what has committed; where the program goes on is spread over
fetch, `ren2`, the ROB, the redirect and exception registers, `sepc`, the exit pc, the
temporary register and the handler's address, depending on the phase. `Resumable(q)` says
that going on at `q` is right: `q` is the next instruction of the program, or one of the
handler, and then the exit pc is harmless and an `exitpc` is still to come before the next
`uret`, unless the temporary register is harmless already. An exit pc is harmless when it is
0, the program's next instruction, or one of the handler's own: a handler that is sampled
itself never comes back, but the program does not go wrong. `FlowInv` adds to `CInv`:

* `UserFlow`, `KernelFlow`, `CallFlow`: for each phase of `CInv`, which register holds a
  resumable pc. In `UserPhase` it is that of the oldest uop on the right path, the uops on
  the right path follow each other without a gap, and fetch follows the youngest (`Path`); in
  `KernelPhase` it is `ResumePC`, which depends on whether the trap was a real system call or
  a disguised sample, so `sampleHappen` is 1 only with the cause of a system call.
* `UopsRight`: a uop carries the instruction at its pc, and one that mispredicts is not
  itself on a wrong path. `ExitRead`: an `exitpc` of the handler that has begun has read a
  harmless pc. `Handlers`: the handler's address is 0 or that of a handler. `History`: what
  has committed, and that it is not past the program's end.

`PathStep` shows that the path moves on by what commits, `AdvanceStep` that committing from a
resumable pc leads to one, `ExitStep` what the handler reads; there is one lemma for each way
the phases go on (`FlowRollback`, `FlowCalls`, `FlowThrows`, `FlowReturns`, `FlowLands`,
`FlowRuns`, `FlowKernel`, `FlowCompletes`, `FlowRedirects`).

`HandlerAssumption` is about the sampled program, not the core: only handlers, which are
behind the program, return with `uret`, and every address a program gives to the core as a
handler's is that of code that reads the exit pc before it returns, as
`based_sample_func` does. Without it `Transparent` is false: a handler that does not would return
to what an earlier sample has left in the temporary register, and the program would execute
what it has already executed. TLC evaluates it for the programs of the runs.

`RenameProofs`, for every width and number of registers, tags and ROB entries that
`RenameAssumption` admits:

    THEOREM TagInvariance   == Spec => []TInv
    THEOREM TagsRightHolds  == Spec => []TagsRight

`TagsRight` compares the tags in flight with decode's `branch_mask`, and says nothing of the
masks the uops carry; but it is those masks that decide who dies in a misprediction, and
from them that decode takes its own mask back afterwards. `TInv == TypeOK /\ Control /\ Masks
/\ Resolved /\ MaskKnown` adds what a redirect leaves behind (`Control`), that the mask of a uop
is exactly the set of tags held by the branches in front of it (`Masks`), that what is
being resolved is in the ROB (`Resolved`), and what decode knows in each phase of a
redirect (`MaskKnown`). A step is split into what becomes of each register of the design:
`RobIs` and `RobEntry` trace every entry of the next ROB to an entry of this one or to a
slot of the bundle that is dispatched, `Ren2Is` and `RowNext` do the same for the rename
stage; `SurvivorsAre` shows that a misprediction keeps a prefix of the ROB, because the mask of an
entry contains the tags of all open branches in front of it; `OpenTagsKept`,
`OpenTagsFired` and `NewTagsAre` follow the set of held tags, and `NthIs`, `NthOrder`
and `NthOnto` are the lemmas about the priority selection.

From the same assumption, in the second half of `RenameProofs`:

    THEOREM MapTableRightHolds == Spec => []MapTableRight
    THEOREM OperandsRightHolds == Spec => []OperandsRight
    THEOREM FreeListRightHolds == Spec => []FreeListRight
    THEOREM BusyRightHolds     == Spec => []BusyRight

* `MInv == TInv /\ MapTableRight /\ Snapshots /\ OperandsRight /\ Ren2Right`. The map table
  alone is not inductive, since a misprediction replaces it by the snapshot of the branch's
  tag: `Snapshots` says that an open branch, and the misprediction being repaired, has
  there the map in front of the uop behind it. `Ren2Right` extends `OperandsRight`
  to the uops that wait in rename while the map table moves under them. `RemappedShift`
  (the map does not depend on how much has been committed to it) and `RemappedAlong` (nor on
  whether the writers are counted in slots or ROB entries) carry the commit, the
  dispatch and the snapshot; `RollbackMap` shows that writing back
  the stale registers of a row, the youngest first, undoes it; `BypassRemap` that the
  bypasses in a bundle give what the map table would.
* `FInv == MInv /\ FreeListRight /\ Distinct /\ Lists /\ BusyRight`. `Distinct`: no register is
  the destination of two uops, or of one and of the committed map. `Lists`: outside of a
  rollback the allocation list of an open branch holds exactly the registers given out behind
  it, and possibly those that a misprediction is returning in this cycle, which nobody uses
  any more. `StaleDead` and `StaleCovers` show that a commit frees exactly the
  register whose value no one can name again, `BrDeallocsNext` that a misprediction
  frees those of the uops it kills and no other; `Moves` and `Algebra` put together what a
  cycle takes from the free list and gives back, and `ListKept` and `ListFired` follow the lists,
  also where a tag is reused in the cycle after it was returned.

`RobProofs`, for every width, number of rows (at least 2), of branch tags and of ports, and
any mixes of uops that `RobAssumption` admits:

    THEOREM RInvHolds           == Spec => []RInv
    THEOREM RingRightHolds      == Spec => []RingRight
    THEOREM CommitRightHolds    == Spec => []CommitRight
    THEOREM RollbackRightHolds  == Spec => []RollbackRight
    THEOREM XcptRightHolds      == Spec => []XcptRight

* None of the four is inductive. `QueueOrder` says that order by rows from the head is program
  order, but a rollback or a misprediction moves the tail without looking at what is valid,
  and `maybe_full` can be set with the pointers equal although the ring is not full. `RInv ==
  TypeOK /\ QueueOrder /\ Shape /\ Partial /\ Control /\ Progress /\ Alone /\ Masks /\ Excepted`
  adds that the rows in use have no gap and that in the cycle in which a misprediction moves
  the tail they end with the row of the branch (`Shape`); that a row dispatched in parts waits
  for the rest of its packet, which fits behind it, or for a redirect that removes both
  (`Partial`); what states and redirects exclude (`Control`); what the units may still do
  with an entry (`Progress`); that a unique uop is alone (`Alone`); that the mask of an entry
  is the set of tags held in front of it (`Masks`), which makes killing by mask and
  cutting the program order the same; and that the remembered exception is the oldest
  (`Excepted`). `RInv` gives `NoOverwrite`: a ring that is not full has a free row at the
  tail, or the partial row with the banks that the packet needs.
* A cycle is taken apart into its arguments (`Clocked`). `EntNext` says what becomes of each
  entry, `TailIs` in which of five ways the tail moves, `DistWrap` and `HeadNext` how the
  distance of a row from the head changes when the head moves; then there is one lemma per
  part of `RInv` (`QueueNext`, `ShapeNext`, `PartialNext`, ...). `OlderIs` proves that `IsOlder`,
  three comparisons and two exclusive ors in `util.scala`, orders entries by age when the
  head is its reference, and `XcptNextIs` that the exception logic then picks the oldest of
  the remembered, the LSU's and the dispatched one.
* The two assertions on the point of no return need `PnrInv == PnrRow /\ PnrSlot /\ HeadSlot
  /\ TailSlot` in addition. `Passed` is the number of rows it has passed; at the head it is 0
  or all of them, told apart by `pnr_maybe_at_tail`. `PnrRow` says that it is at most the rows
  in use and that nothing in a passed row can still fault, so that a misprediction or an
  exception never moves the tail or starts a rollback behind it; `PnrSlot`, `HeadSlot` and
  `TailSlot` compare the banks when the rows are equal. `PnrStep` shows that `Passed`
  counts up when the pointer moves and down when the head does, `SafeNext` that what has
  been passed stays safe.

`RollbackEnds`, a liveness property, stays with TLC.

`PkProofs`, for every program and call, every number of files, descriptors and regions and
every layout of the memory that `FileAssumption`, `MmapAssumption` and `CallAssumption` admit:

    THEOREM RegionCounts      == Spec => []RefcntExact
    THEOREM FilesStayOpen     == Spec => []FilesOpen
    THEOREM KernelStaysIntact == Spec => []KernelIntact
    THEOREM PagesRight        == Spec => []ContentRight
    THEOREM TlbStaysFresh     == Spec => []TlbFresh
    THEOREM HostSeesRight     == Spec => []HostSeesUser

* The assumptions are that there are descriptors for the three standard files, that the
  sizes are natural numbers, that the kernel and its pool lie inside the address space and
  behind the stack, that calls pass machine words, and that a buffer ends inside the address space.
* The six properties need each other: a page has the right content only if its region's
  entry was not reused under it, which depends on the counts; a region's file is open only
  as long as its count says that the region is in use; and the kernel's pages are safe from
  a mapping only if the pages the table calls mapped are below `mmap_max`. All follow
  from one invariant of the kernel's state, `J(s, hold, b, due)`: `FileOK` (a file in use is counted
  above its descriptors, regions and holders, and its host descriptor is open and has its
  number), `MapOK` (a region's count is the pages that wait for it and `due`; an
  entry of the page table is empty, waiting, or a translation), `KernelOK`, `ContentOK` (a page that is
  there shows one of the values it may show, one that waits will), `BrkOK` and `TlbOK`.
* `KernelStaysIntact` is about states in which a program runs, so it ends where a storing call is
  given kernel memory (phase `lost`). `PagesRight` and `HostSeesRight` are proved
  with host files that change, without a guard on the pages a path lies on, and with the
  exceptions stated in section 3. The first needs `Promise`, what the region of a waiting page
  would fill it with, to be among what `want` admits for the file as it is now;
  `HostChanges` keeps that because it adds the new content for every such page.
* Inside a call the properties do not hold: `open` has a file that no descriptor names yet,
  `mmap` a region that counts pages it has not entered. `hold` and `due` are those debts.
  `KernelInv` says that between calls there are none, `KernelAlways` that it is an invariant.
  For each function of the code there is a lemma `...OK` (what it makes of `J`, and of `hold`
  and `due`) and, where it may start from a panic, a lemma `...Stay`; `KernelStep` has one step per
  action, each the lemma of its handler.
* The functions are loops over pages, descriptors, regions or segments, and folds in the
  model. Induction over data is not available to the provers as a rule with an operator as
  parameter, but a module may have operators as CONSTANTS: `FoldRule` proves, for a step `Op` and a
  property `P`, that what holds of the start and is kept by each step holds of the
  fold (`FoldInv`), and `PkProofs` instantiates it for every kind of loop (`U`, `MapLoop`,
  `FillLoop`, `ProtLoop`, `PopLoop`, `StdLoop`, `KernLoop`, `SegLoop`). `FoldInv` itself comes from
  the well-foundedness of `<` on `Nat`.
* The theorems are about the model with its bound `Choosable`: for a mapping that leaves its
  address to the kernel and is longer than the program's memory there is a hole above the
  kernel (see section 5). Fixed mappings, `munmap` and `mprotect` take any machine word
  as address and length.

Only model-checked, and why:

* `Terminates`, `ProgramEnds`, `ToolEnds`, `RollbackEnds` and `CallsEnd`: liveness under
  fairness, and `ENABLED`, are out of this prover's reach.
* `TreeRight`, `FenceFirst` and `ConsoleRight` of `Sbi`: its modules reach `DeviceTree` and `Fdt`,
  which define the tokens of a tree by RECURSIVE operators, and a module that reaches one
  loses the SMT backend.
* `ArithmeticRight`, `DecisionsRight`, `EmulatedRight`: non-linear integer arithmetic
  (products, quotients and roots of significands of symbolic width), which the provers do
  not decide, and recursive definitions.
* `AssertionsHold`, `WritesRight`, `Coherent` and `DrainsInTime` of `Lsu`: the inductive
  invariant has to relate both queues, the forwarding pipeline and the contract of the cache,
  and has not been written.

## 5. Not modelled, and why

* Branch predictors: a wrong prediction costs time only; every module lets a branch
  mispredict at will. Decode tables, arithmetic of the execution units and elaboration
  parameters: combinational data without control.
* TLB: mostly code of Rocket, outside of the repository; its answers are inputs.
* `PredRenameStage` and the short-forward-branch shadows: `enableSFBOpt` is off in every
  configuration of the repository.
* In the LSU: AMOs, LR/SC, SFENCE, floating-point store data, and the HellaCache port of
  the page-table walker; more than one pipeline. Behind the data cache's pipeline: the MSHR,
  write-back and probe state machines and the TileLink protocol.
* Issue queues, register read, `BranchKillableQueue`, the performance counters and the
  frontend: see the plan.
* Proxy kernel: the saved register frame and the values that calls return to the user;
  `do_mremap`, which only fails, is one line.
  For a mapping longer than `mmap_max` whose address the kernel chooses,
  `mmap_max - npage * RISCV_PGSIZE` wraps in `__vm_alloc` (`mmap.c` 144), and the search runs over
  addresses that are not the user's; the model follows it to the end of the address space.
  When there is no hole either (`Choosable`), the last page wraps as well, the inner loop (150)
  ends at once, its address is returned (154), and `__do_mmap` may enter no page at all for a region
  that counts some. Such addresses alias in the three-level table (39 bits of 64), which the
  model's one level does not show.
* Proxy kernel, modelled but not claimed to be right: a call that stores to a buffer in the
  kernel's memory (`lost`); a host file cut off under a page that waits (a panic); `chdir`
  with a path nobody has touched; `brk(0)`, with which a program asks for its break and which
  here takes the whole heap away: claimed is only that counts, contents and translations
  then agree with what is still mapped.
* Machine mode: the timer call, the PMP setup, the delegation registers, the text printed
  by `die()`, a fault in the read of the caller's hart mask; `fdt_print` (compiled only on
  request); `muldiv_emulation.c` (not compiled for a core that has M).
* softfloat: the forms of the functions for a build without `SOFTFLOAT_FAST_INT64`, which
  compute word by word in memory, the multi-word primitives they use, and 80-bit operands
  that are not canonical. The makefile compiles 54 of the library's
  files; the others modelled here are the library as it stands in the repository.
* Log scripts, the checkpoint loader and tests: offline, sequential.
* Several threads inside one self-handled process, and a tracer on another hart than its
  child: hazards with a note; a composition with `ThreadTag` is planned.

## 6. Plan

Done: the modules of section 2. Next, in this order:

1. `BranchKillableQueue` (`util.scala`): the queue that most units use, as an
   implementation of an abstract queue that loses its killed entries; model-checked and
   proved.
2. `IssueSlots` (`issue-units/*`): wake-up, compaction, kill; composed with the busy table
   of `Rename`: nothing is issued before its operands are ready or left behind.
3. `EventCounter` (`event_counter.scala`): updates and reads through pipeline registers
   against resets.
4. AMOs and SFENCE in `Lsu`; `Mshr` and the write-back and probe units of the data cache, in
   the place of the contract that `Lsu` has now.
5. `FetchBuffer` and `FetchTargetQueue` (`ifu/*`).
6. `MultiHartSampling`: `PtraceSampler` and `SelfHandler` over the harts of `ThreadTag`.
7. The replay of system calls of checkpoints.

Theorems to add: the queue pointers of `Lsu`, for
which the lemmas of `RobProofs` on rings (`DistWrap`, `AgeIs`, `OlderIs`) are the pattern; the
queue refinement of item 1.
