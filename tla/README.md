# A verification of epiphany-libs

epiphany-libs is the software around the Epiphany coprocessor: a library for
programs on the ARM host (e-hal), one for programs on the Epiphany cores
(e-lib), tracing (e-trace), a GDB server (e-server) and tools. What is hard in
it is what several actors do to state they share: cores of a work group, host
processes, the host and cores that run already, the server and a client.
This directory holds TLA+ models of those parts, their TLC runs, and proofs.

## The system

| Component | State | Operations | Interacts with |
|---|---|---|---|
| e-hal, memory manager (`epiphany-memman.c`) | control blocks in the shared heap | `memman_init`, `memman_alloc`, `memman_free` | called by the shared memory manager; users write into the chunks |
| e-hal, shared memory manager (`epiphany-shm-manager.c`) | table of regions in shared memory, mapping of each process, lock on the device file | `e_shm_init`, `e_shm_alloc`, `e_shm_attach`, `e_shm_release`, `e_shm_finalize` | host processes through the table; cores read the table |
| e-hal, core control and loader (`epiphany-hal.c`, `e-loader.c`) | registers and memories of the cores | soft reset, `e_load_group`, `e_start_group`, `e_halt`, `e_signal` | programs that run on the cores |
| e-hal, platform and access (`epiphany-hal.c`, `esim-target.c`, `pal-target.c`, `e-process-SREC.c`, legacy names) | tables of chips and memories, mappings of cores and buffers | `e_init`, `e_open`, `e_alloc`, `e_read`, `e_write`, `ee_read_abs`, SREC files | everything on the host; a kernel driver, a simulator or the PAL library below |
| e-lib, barrier and mutex (`e_mutex_*.c`) | slots and flags, mutex words in the cores' memories | `e_barrier_init`, `e_barrier`, `e_mutex_lock`, `_trylock`, `_unlock` | cores, through the mesh |
| e-lib, shared memory (`e_shm.c`) | none | `e_shm_attach` | reads the host's table without the lock |
| e-lib, DMA, interrupts, timers, core ids | registers of the core, descriptors, interrupt vectors | start, copy, wait, attach, mask, ... | the engines of the core, interrupt routines |
| e-trace, library (`e_trace.c` on both sides) | a ring of events per core in shared memory, read and write pointers | `trace_init`, `trace_write`, `trace_read`, `trace_read_n`, `trace_read_coreNo_n` | cores write, the host reads and clears |
| e-trace, DMA variant (`e_trace_dma.c`, `e-trace-dma.c`) | WAND flags, one short ring | common start, `trace_write`, `trace_stop`, reads | the DMA engine of a master core |
| e-trace, daemon (`e-trace-server.c`) | the open file, the count of events | `run_log_daemon`, `trace_file_open`, `_write_n`, `_close` | reads the buffers, writes the file, waits for return to begin and to end the capture |
| e-server, threads and processes (`GdbServer.cpp`, `Thread.cpp`, `ProcessInfo.cpp`) | last action and pending signal of each thread, current thread, attached processes, mode, tables of threads | RSP packets: `vCont`, `?`, ctrl-C, `F`, `vStopped`, `H`, attach, detach, `monitor workgroup`, lists | a GDB client; cores that stop at any time |
| e-server, breakpoints (`MpHash.cpp`) | table of replaced instructions | `Z0`, `z0`, reads and writes of memory | memories of the cores |
| e-server, target access (`TargetControlHardware.cpp`) | maps of cores and threads | address conversion, bursts | e-hal |
| e-server, connection (`RspConnection.cpp`, `RspPacket.cpp`, `Utils.cpp`) | socket, pending break, cached replies | `getPkt`, `putPkt`, `getBreakCommand`, packing | the client |
| e-utils, e-xml, bsps | none that is shared | command line tools, parser, linker scripts | call e-hal |

Hard behaviours: stores of the mesh that take effect late (barrier, mutex);
64-bit events read as two words, with no lock at all between cores and host
(trace); host processes that crash inside and outside critical sections (shared
memory); a heap whose control blocks lie among the data of its users
(memman); cores that run, write, interrupt and hang while the host resets and
loads others (load); interrupt routines that use the registers and descriptors
their program uses (e-lib); short and failing writes (daemon); threads that
stop between a poll and a halt, and a connection on which acknowledgements,
notifications, ctrl-C and repeated packets cross (server).

What makes each component correct:

- memman: chunks in use are disjoint and inside the heap, control blocks stay
  intact, a request fails only when there is no room, calls end.
- shared memory manager: a name is given once, a region lives exactly as long
  as it has references, regions share no memory, a failed call leaves no trace.
- barrier: no core leaves before all have arrived, no signal is lost, rounds do
  not mix, everyone leaves.
- mutex: exclusion although unlocks take effect late; someone gets in.
- load: no core starts before the whole group is loaded and unspoilt, none
  executes cleared memory, none is reset while a read is under way, the load ends.
- host library: what one call writes every other call reads, on each target; a
  session gives back what it took; a core has one place whatever names it.
- e-lib: a transfer moves what was asked, a register keeps what two contexts
  put into it, all names of a cell mean the cell, a core that looks up a region
  gets one region as a whole.
- trace: per core events come out whole, in order, without a gap and once;
  cores stay in their rings and the host in the segment; every core is served.
- daemon: the file holds each core's events in order and once, the trailer
  counts them, one return begins the capture and the next one ends the daemon.
- server: a stop of a thread is told once and never run over, each request is
  answered, and with the answer to that request; memory reads and writes behave
  as if there were no breakpoints; each thread is in one process.

## The modules

| Module | Models | Uses |
|---|---|---|
| `EBarrier`, `AbsBarrier` | `e_barrier_init`, `e_barrier`; what a barrier promises | the first refines the second |
| `EMutex` | `e_mutex_*` | |
| `Memman`, `MemmanUniform` | `epiphany-memman.c`; the same with requests of one size, with its inductive invariant | |
| `ShmManager`, `AbsRegistry` | `epiphany-shm-manager.c`; the table of names the API describes | instantiates `Memman`; the first refines the second |
| `GroupLoad` | `e_load_group`, `ee_soft_reset_core`, `e_start_group` | |
| `Platform` | the hardware description, the box around the chips, the numbering of cores | |
| `HalTargets` | a session of e-hal on the native target, esim and PAL: open, alloc, read, write, reset, SREC | `Platform` |
| `AlignedCopy`, `MeshDump` | `aligned_memcpy`; `e-meshdump` | |
| `CoreIds` | names of cores and addresses in e-lib | `Platform` (what the loader stores) |
| `ECore` | DMA, interrupts, timers of one core | |
| `ShmView` | `e_shm_attach` of a core beside the host | |
| `TraceBuffer`, `TraceServer` | `e_trace.c` of e-lib and the reading half of `e_trace.c` of e-trace; `e-trace-server.c` and the file half | the second extends the first |
| `TraceDma`, `TraceEvent` | the DMA variant and the common start; the fields of an event | |
| `GdbServer` | run control: attach, resume, stop, ctrl-C, file I/O, notifications, resets, death of the client | |
| `Processes` | threads, workgroups, the lists the client is told | |
| `CoreRun` | one core under the server: why it stopped, which call it waits for | |
| `TargetAccess`, `Breakpoints` | addresses and bursts; `Z0`, `z0`, `m`, `X` over them | the second extends the first |
| `ThreadRegs`, `Transfers`, `RspConnection` | register numbers; packing and long replies; packets, acknowledgements, ctrl-C, reconnects | |
| `*_proofs` | theorems and proofs | the module they name |
| `MC*` | the instances TLC checks, and properties put together from those of the modules | the modules they name |

How the models correspond to the code, where a name does not say it:

**EBarrier, EMutex.** One action per load or store of the C code. A store to
another core is posted on the mesh and takes effect in a later `Deliver` step,
so `e_mutex_unlock` returns before the mutex is free and a signal of `e_barrier`
may be under way while its sender is in the next round. `TESTSET` is one step at
the mutex word.

**Memman, ShmManager.** The heap is a sequence of cells, each a control block or
a word of user data; users write any value of `Junk` into their chunks, so that
the walk may read user data as a control block. One step of the walk, or of
`coalesce`, is one step of the model. `ShmManager` runs those calls inside the
critical sections of several processes; `Crash` may take a process away at any
step, and the lock with it. `op` holds the locals of a call, `refs` is a history
of the references a process was given.

**GroupLoad.** A core is a record of the registers the loader reads and writes
and of what its memory holds (`low`: interrupt table and reset payload, `rest`:
everything else). The host's actions are the loops of `e_load_group`,
`ee_soft_reset_core` and `e_start_group` in order. Old programs run on the cores
that were not reached yet: they read memory elsewhere (and hang), write into
other cores, raise interrupts, have DMA under way. After `TakeIrq` a core
executes whatever its memory holds.

**Platform, HalTargets.** A description file is a sequence of tags and numbers.
`mem` is what the device holds, `ideal` what the client has meant to be there:
each call computes the words it touches as its target does (`MapWords`,
`GroupWords`, ...), and `Meant` says which words the caller named. Each open and
each mapping may fail; `res` counts what is held: `Opened` and `Allocated` follow
the calls that take, `Closes` and `Freed` those that give back. A SREC file is read
line by line as `ee_process_SREC` does: a last line without a newline is not looked
at, a line that is no S record ends the load. What two of the targets cannot
do is named in `Avoided`.

**CoreIds, ECore, ShmView.** `CoreIds` starts from the configuration
`_ee_set_core_config` stores and passes a token round by `e_neighbor_id`. In
`ECore` a call is the sequence of accesses to registers, vectors and descriptors
that it makes, one per step, by the program or by an interrupt routine; the DMA
engine fetches a descriptor in a step of its own. `lost` is a history of the bits
of a register that a routine changed between a read and the write of the program.
`e_neighbor_id` masks with the size of the group less one, which `%` stands for:
groups have numbers of rows and columns that are powers of two (`PowersOfTwo`), as
its comment asks for. In `ShmView` the core and the
host make one access per step.

**TraceBuffer, TraceServer.** An event is a pair of words, since the host is a
32-bit ARM and loads and clears events in two steps (`LoadLow`, `LoadHigh`,
`ClearLow`, `ClearHigh`); the core's 64-bit store (`Write`) is one. `Check` is
the test of a slot, `Advance` the move of the read pointer; `Sleep` and `Timeout`
belong to `trace_read`. `got` is a history of what the host has read. The C
code computes the end of a ring with a size in bytes, and so does `BufEnd`.
The daemon (`Daemon`) opens the file, waits for the return that begins the capture
(`StartCapture`) and reads and writes until it finds another one (`Key`); a write
may be whole, short or fail.

**GdbServer.** A handler is one step, except that a scan for stopped threads
looks at one thread per step: a core may stop behind the scan. `owed` is a
history of the stops that have not been told, `missed` of the threads the
server overlooked. A core that is told to run gets past the instruction it
stopped at before it can be halted again, and the target answers every access.

**Processes, CoreRun, Breakpoints.** What the code does with a null pointer or an
iterator that is no longer valid is a choice between ending the server and
going on. A program is a small sequence of instructions, in 16-bit words, in
which a 32-bit instruction may contain anything. In `Breakpoints` `truth` is the
memory as the client knows it, `planted` the breakpoints it has, `spoilt` the
bytes whose original the server has lost.

**RspConnection, Transfers.** A packet is a token of a stream, good or damaged.
The client sends again on `-` and when no answer comes, acknowledges all it
gets, and takes what comes before its `+` for an old reply. `Transfers` counts
bytes: what a packet has room for, and which part of a document the client has.

## The runs

A run that shows several parts which do not act on each other has a variable
`part`, chosen at the start, so that each part keeps its own bounds; a property
of such a run speaks about one part and is true in the others.

| Run | Parts, and what it shows |
|---|---|
| `work_group` | **barrier**: `NoEarlyReturn`, the refinement of `AbsBarrier`, everyone returns. **load**: `StartsComplete`, `NeverWild` (with: no reset during a read), the load ends |
| `heap` | **memman**: chunks disjoint, no false failure, calls return. **manager**: regions disjoint and backed by chunks, `memman` called as it should be, calls return |
| `shm_processes` | `TableRight` (names unique, counts exact until someone exits, nothing given up while referenced), the refinement of `AbsRegistry`, with a crash anywhere |
| `trace` | **calls**: events whole, in order, without a gap, every core served, calls return. **laps**: no word handed out twice, writers stay home. **server**: file in order and once, trailer counts, the first return begins the capture and the next one ends the daemon |
| `gdb_server` | `StopsRight` (no stop invented, what was told as halted is halted, the assertions of the code hold but for two cases), `NoStopLost`, a waiting client is answered, in non-stop mode every stop is told |
| `server` | **memory**: breakpoints are never shown, stay armed and leave nothing behind. **tables**: each thread in one process, lists true. **run**: the reason of a stop, calls answerable. **wire**: replies whole. **line**: answers match requests, each request carried out once and answered, ctrl-C too |
| `hal` | a **session**: `ReadsBack`, `NothingHeld`, `CoresNamed`. **aligned_memcpy** and **e-meshdump**: `CopiesRight` |
| `e_lib` | **mutex**: exclusion, someone enters. **core**: `CopiesRight`, `RegistersRight`, calls return. **ids**: `SameCells`. **shm**: `AttachWhole`. **dma** and **coding**: `TracingRight` |
| `memman_reuse` | **fails**: with requests of two sizes chunks overlap |
| `shm_second_init` | **fails**: a second process zeroes the heap of the first |
| `trace_segment` | **fails**: the host leaves the trace segment |
| `registers` | **fails**: registers 50 to 62 are those of 25 to 37 |

Bounds, and why they are enough:

- barrier: 4 cores, 3 calls each: a signal can meet the round before and the one
  after. load: 3 cores (one done, one at hand, one not reached) in every mixture
  of running, idle and halted, one interrupt from an old program.
- memman: 4 chunks of 2 cells, user data that reads as a free end of the heap, as
  a chunk in use of size 0, and as a small chunk. manager: 3 names and 3 regions
  over a heap of two chunks, 2 references per name. `shm_processes`: 2 processes
  at equal or different addresses, 2 names, user data of zeros, one exit; symmetric in names,
  processes and addresses (the refinement is a safety property).
- trace: 2 cores. calls: 3 events in 4 slots, no lap. laps: 3 events in 2 slots,
  so that each ring goes round; `WordBytes` 2 instead of 8 makes the rings of the
  host twice as long as they are, which keeps the wrong end within the segment.
  server: 2 events per core, a buffer of 2, 5 retries as in the code.
- gdb_server: 2 cores (one reported, one overlooked), stops by breakpoints and
  calls, one workgroup besides the idle process, two sessions (so that the second
  client meets what the first has left; one when the server prints for the cores).
- server: memory: 2 cores with one instruction each, two more in external
  memory, bursts of 4 and 2 bytes. tables: chips of 2 by 2, 1 by 2, 2 by 1, five
  workgroups of which two must be refused, numbers that wrap at 16. run: three
  programs with every stop, NOPs, a 32-bit instruction and an exception. wire:
  packets of 6 bytes, documents of 0 to 9 bytes that change twice. line: 3
  requests, 2 parts, one damaged packet or timeout, one ctrl-C, two sessions.
- hal: two chips of two cores; two buffers, one of which does not begin on a
  page; 2 writes (one can hide the other), 1 fault, 3 opens. Copies of up to 11
  bytes from and to every alignment; segments of 0 to 19 bytes at all alignments
  around the boundaries of words and packets.
- e_lib: mutex of 3 cores, unbounded calls. core: 2 interrupts, 2 calls, 1
  interrupt of a neighbour, counts modulo 4 (2^16 in the code, so that the
  requests stay below it in both). ids: groups of 1, 2 and 4 rows and columns in
  an address space of 8 columns. shm: 2 slots, 2 names, 4 allocations: each slot
  is used again. dma: 3 cores of which one traces, 5 events in a ring of 3.
  coding: fields at and beyond their width.

`CHECK_DEADLOCK FALSE` stands where the bound on events, calls or references
lets the model stop, and in `gdb_server` because the server may wait for a
client that says nothing.

### What the failing runs say

- `memman_reuse`: `memman_alloc` cuts a larger free chunk to the request
  (`epiphany-memman.c:95`) and loses the rest; the next walk lands inside old
  user data. The regime in which this cannot happen, requests of one size that
  divides the heap, is what `MemmanUniform` proves correct.
- `shm_second_init`: every process calls `memman_init`
  (`epiphany-shm-manager.c:185`), which zeroes the heap below regions that others
  hold.
- `trace_segment`: `traceBufEnd` (`e_trace.c:100`) is off by a factor of eight.
- `registers`: the table of `Thread::regAddr` (`Thread.cpp:939`) has the lines of
  r25 to r37 in the place of those of r50 to r62.

### What else disagrees with the code's own words

Met while modelling. The models do what the code does; the properties leave
these cases out by a condition of theirs or of the run, as noted.

Host library
- A chunk may end behind the heap (`epiphany-memman.c:90`); `e_shm_` calls after
  `e_finalize` use the unmapped table (`epiphany-shm-manager.c:198`).
- `populate_platform_native` has no return statement: `e_init` may fail for no
  reason (modelled as a choice). A `CHIP_ROW` before the first `CHIP` dereferences
  a null pointer; the last line of a file that ends with a newline is read twice,
  so that a file whose last line is `CHIP` announces one chip more.
- esim and PAL add the offset within the page to an address that has it already
  (`esim-target.c:173`); `mwrite_word` of esim leaves it out, that of PAL writes an
  uninitialised variable. They agree for buffers that begin on a page; `Avoided`
  names the rest. A buffer's bound includes that offset as well, so an access may
  pass its end.
- `e_open` and `e_alloc` give nothing back when they fail half way, `pal` never
  unmaps, and `e_reset_system` of esim leaves its group open: `NothingHeld` is about
  sessions without a failure, and says nothing of esim's arrays of cores and of PAL.
- A burst of `ee_write_abs` to registers writes every word to the first; SREC
  write failures are ignored, and a record for a core outside the group indexes
  beyond the array of cores.
- `e-meshdump` adds 8 to `size` where it should subtract (`mesh_memclear`): a
  segment with more than eight bytes to clear does not end. A half word at the
  head of a segment is stored to the target's address in the tool's own memory.

e-lib and e-trace
- `e_dma_copy` has one global descriptor: a routine that copies while the
  program's copy is under way overwrites it (the TODO at `e_dma_copy.c:66` knows).
  `CopiesRight` is about programs that keep such routines off (`Protected("copy")`).
  Counts of 2^16 and more wrap (`e_dma_copy.c:69`).
- `e_irq_mask` and `e_ctimer_*` read, change and write a register, and so may a
  routine in between, whose change is undone then. Programs in the model call them
  with and without protection, as the library itself does (`trace_stop` against
  `timer1_trace_isr`). The bits concerned are in `lost`; `RegistersRight` says
  that no other bit is wrong, and that no update of the program is undone.
- The WAND interrupt may come between `wand` and `idle` (`e_trace.c:119` of e-lib, and the
  DMA variant): the core then sleeps until something else wakes it. `StartTogether`
  holds; `TraceDma!EveryoneStarts`, which says that all cores start as the comment at
  `e_trace.c:110` has it, does not.
- `e_shm_attach` of a core may return the address of one region and the size of
  another when a region is retired and its slot given away during the call.
  `e_shm_release` of a core returns `E_OK` only when the table is not initialised.
- `trace_file_write_n` begins its buffer again after a short write and counts the last
  write only (`e_trace.c:445`, `:460`): the file then has events twice, and the trailer
  (`TraceServer!TrailerExact`) counts fewer than there are. `FileRight` claims order and
  the exact count for files without a short write.
- With DMA tracing two cores interleave the halves of their events at the
  master; the ring of the cores is shorter than the buffer the host reads.

Server
- A thread that stops by itself after the poll and before a ctrl-C (and is the one that
  is reported, `GdbServer.cpp:846`), during the system call of another, or before `?`,
  is halted but not marked, and runs on untold at the next `vCont`: `missed` collects
  these threads, `NoStopLost` is about the others, and `MCGdbServer!StopsReported`,
  which is about all, fails.
- In non-stop mode a breakpoint removed before the server looks leaves the pc
  behind the instruction it replaced.
- A core halted from outside behind a BKPT it jumped over, behind a 32-bit
  instruction whose second half reads as BKPT or TRAP, or again before it left a
  TRAP, is taken for one that stopped by itself (the pc is moved back, or the call
  served twice). `SelfStopNamed` is about cores that did stop by themselves;
  `CoreRun!ExternalStopTold`, about the others, fails. `Thread::isIdle` never looks
  again once it has seen a core idle.
- A pending signal survives its session: when the next client is in non-stop mode
  the scan meets a signal that `findStopReason` asserts not to be there, and the
  server ends (`ScanStale`; `StopsRight` allows this assertion to fail). BKPT instructions stay in memory when a client leaves without removing them.
- A duplicate `Z0` stores BKPT as the replaced instruction (`MpHash.cpp:99`, against the
  comments at `MpHash.cpp:79` and `GdbServer.cpp:3177`), which the removal writes back; a
  breakpoint in shared memory is filed under the current thread and not found under
  another; a global alias of a local address shows breakpoints. `spoilt` counts the
  bytes, no property is about them, and the run ends with the first.
- The reply of the client to a system call goes to the registers of the current
  thread, which need not be the one that asked; with a terminal for the output of
  the cores nothing is sent and the client waits; the end of the connection is
  not seen while threads run.
- `initMaps` adds rows to the columns, `addrToCoords` bounds rows by columns: on a
  chip that is not square workgroups are refused that exist, and others reach
  cores that do not. A refused workgroup is erased while it is iterated over (a choice
  between the end of the server and what was meant; `TablesRight` is about the second), and a
  look-up of an unknown core enters a thread 0. A workgroup with no rows makes an
  empty process, and the first of its threads is asked for; `Hg0` and `qC` with
  nothing attached dereference null pointers.
- The last byte of external memory cannot be reached.
- After a timeout a request is carried out twice and its second answer may be
  taken for the next one's; `AnswersMatch` is about sessions without timeouts, and
  `Answered` about sessions without ctrl-C (a stray character makes `putPkt` send
  again). When the client asks for `PacketSize` bytes and just one less are left,
  the last byte of a document is lost. A listening socket is left open when
  accepting fails.

## Fairness

- Cores and the mesh run: weak fairness of each core's step and of `Deliver`.
  `e_mutex_lock` spins without a queue, so only `SomeoneEnters` is claimed.
- Host calls run: weak fairness of the steps of a call (`CallStep`, `InCall`,
  `Daemon`, `Host`); the scheduler of the host gives this. Processes of
  `ShmManager` are fair one by one: `lockf` serves every waiter, although others
  take the lock meanwhile, hence strong fairness of `Lock` and `InitLock`.
- Time passes: strong fairness of `Timeout` in `TraceBuffer`, since `trace_read`
  counts its sleeps and cannot sleep for ever.
- `GroupLoad` has weak fairness of each core's step: a core that runs the reset
  payload gets to its end. That the host's thousand polls are enough for it is
  assumed (`PayloadIsShort` in the module). Nothing is assumed of old programs.
- `ECore`: engines, timers and the interrupt controller run; the program runs
  when it is not interrupted again and again (strong fairness of `Main`).
- `GdbServer`: the server polls, scans and waits; a client whose connection is
  open answers file I/O requests and goes on asking with `vStopped` as the
  protocol demands. `RspConnection`: both ends go on reading what has arrived.

No fairness is assumed of users: they need not call, trace, press a key, or
let a thread run.

In the runs with parts each fairness condition is about actions that are never
enabled in the initial state of a part that is not running, so it asks nothing
of the others.

## The proofs

TLAPS checks them for every value of the constants that the named assumptions
allow. Each inductive invariant stands in the module it is about (section "Why"),
so that TLC could check it on a run before it was proved; the `_proofs` modules
hold the lemmas and one step per action.

| Module | What is proved | TLC on the invariant |
|---|---|---|
| `MCELib_proofs` | mutex: `Exclusion`, `ClearIsOwn`; shared memory seen by a core: `AttachWhole`; one core: `RegistersRight`, `CopiesRight`; ids: `SameCells`; tracing by DMA: `TracingRight` | `VInv`: 3 slots, 3 segments, 5 allocations, 512,073 states; `CoreInv`: 404,198; `TokenInv`: 1,470; `StartInv`, `RingInv`: 120,291 |
| `MemmanUniform_proofs` | disjoint chunks inside the heap, headers intact, no false failure | |
| `ShmManager_proofs` | `CriticalSections`, `OneRegionPerName`, `TableRight`, the refinement of `AbsRegistry`; heap under the table: `SegmentsDisjoint`, `ChunksMatchRegions`, `MemmanUsedRight` | `RInv`: 1.6 million states, with a second exit and counts up to 5: 6.1 million; `HeapInv`, `AloneInv`: 169,226; `HeapInv` with two processes, crashes and no clearing of a heap in use: 296,523 |
| `MCWorkGroup_proofs` | barrier: `NoEarlyReturn`, `NoSignalLost`, `CleanBetweenRounds`, the refinement of `AbsBarrier`; load: `StartsComplete`, `NeverWild` | `LInv`: 158,000 states |
| `MCTrace_proofs` | `LapsHarmless`; without laps `EventsRead`; daemon: `FileRight` | `Laps!LapInv`, `BInv`, `SInv`: 522,267 states |
| `MCGdbServer_proofs` | `StopsRight`, `NoStopLost` | `GInv`: 863,602 states; three sessions: 4.2 million; three threads: 15.5 million |
| `MCHalTargets_proofs` | `ReadsBack`, `NothingHeld`, `CoresNamed`; `aligned_memcpy` and `e-meshdump`: `CopiesRight` | `HInv`: 227,662 states; `CopyInv`: 5,356; `DumpInv`: 4,828 |
| `MCServer_proofs` | memory: `NeverShown`, `BreakpointsKept`; tables: `TablesRight`; run: `SelfStopNamed`, `CallsAnswerable`; line: `AnswersMatch`; long replies and codings: `RepliesWhole` | `MInv`: 53,568 states, with bytes lost track of 613,000 (10 requests deep); `TablesInv`: 26,198; `RunInv`: 424,384; `LineInv` with a second fault and ctrl-C: 439,220; `DocInv`: 307 |

The arguments:

- **Barrier.** The invariant relates each core's place in the code to its slot, its
  flag and the stores under way: of the five places a signal can be in, exactly one
  holds it. `NoEarlyReturn` alone is not inductive: it does not say where the
  signals are.
- **Mutex.** The word names the core that is inside or has its unlock under way, and
  there is at most one of those.
- **memman.** Control blocks start at the multiples of the block length only, with
  the size of a block or 0, whatever users write. It fails with two sizes, as
  `memman_reuse` shows, and is therefore a theorem of the regime and not of `Memman`.
- **Shared memory manager.** Only the holder of the lock is in a critical section, and
  what its lookup found stays true until it has filled in the region (`Phases`). For
  the counts (`Counted`) the invariant counts, beside what programs hold, the call
  under way that already owns a reference or has already given it up (`Tokens`);
  processes that exit without releasing leave counts that are too high, never too
  low. A step implements a step of `AbsRegistry` where the table changes; the
  refinement is claimed up to the first crash, since a crash between two stores
  leaves a half-made region that no call of the registry makes. Nothing in the code
  keeps a 32-bit count from wrapping: `RefsFit` says that there are fewer references.
- **Heap under the table.** Requests of one size keep the heap sound whatever users write
  (`MM!IInv`, as for memman); each valid region, and each call between memman and the
  table, has a chunk of its own (`OwnChunks`), so two regions share no memory. Crashes
  only lose chunks. What breaks it is `memman_init` over a heap in use, which run
  `shm_second_init` shows: `SegmentsStayDisjoint` has as its hypothesis that this does not happen, and
  `OneProcessKeepsHeap` that there is one process, which does not exit. Of such a process
  it also holds that the chunks in use are those of the regions and that memman is
  called as it is specified, no chunk freed twice.
- **Load.** `LInv` says for each core how far the host has come with it: a core that the
  reset has not reached is as its old program left it; one that the reset has left
  runs nothing but the payload, has no transfer under way and gets none; the one at
  hand is between. All cores are reset before the first memory is cleared, and from
  then until the start nothing moves in the group: every core is idle with all its
  interrupts masked, so none runs cleared memory.
- **Trace, lapped.** A number is stored once, in one slot; a word the caller has got is in
  memory only until it is cleared, and then at the slot and the event at hand. So no
  word is handed out twice, however far a core is ahead and even where `BufEnd` is
  wrong. Whole events cannot be had then: the two words may be of two laps.
- **Trace, not lapped.** Slot n of a ring is event n of the core from its store until it
  is taken, and at the slot at hand what the call has not cleared yet (`Rings`); what
  was taken is what the callers have, in order (`AllTaken`, `InOrder`). A core that
  waits comes nearer with every call: calls that passed it, and cores before it, are
  never more than there are cores (`Nearer`), which needs that a call that returns has
  looked at all of them (`LookedAt`). `FairToCores` alone does not say where the
  next call begins.
- **Daemon.** What is in the file was read before what is still to be written (`Filed`),
  so that a core's events stay in order; `trace_read_n` never gets more than tb holds
  (`AtRead`).
- **Run control.** Every stop of a thread is in one place: not seen yet, marked, told
  to the client, or among those the server overlooks and the README names above. A
  thread that is marked or told is halted (`ReportedMeansHalted`, without the
  exception it had), and only the resuming of that thread removes the mark.
  `NoStopLost` is the action property that follows.
- **View of a core.** While the host fills a slot it is not valid, and its name is in no
  other slot; hence a region that is there during the whole call is never at a slot
  behind the one the core looks at without having been found, and the address and
  size a core reads are of one filling of the slot.
- **A core and its routines.** A routine runs from its beginning to its end between two
  accesses of the program's call. What the program has read of a register is still
  there when it writes it, but for the bits a routine has changed meanwhile, which are
  in `lost` from then until a write sets them right (`Current`, `Kept`); a routine is
  not interrupted and its value is current. When the program is protected no routine
  adds to `lost`: a routine that runs is one that interrupts let in (`Served`).
  `Guarded` says that while the program's call has still to fill the descriptor of
  `e_dma_copy` or to use channel 1, the routines that copy are kept off and none is under
  way; it needs to know of every call in which order it makes its accesses (`Formed`: a
  write follows its read, what lets interrupts in comes last). Hence the descriptor a start names is filled (`Fed`) and
  is not filled again before its channel is idle (`Waits`, `Busy`): that of the program
  because `e_dma_set_desc` waits, that of `e_dma_copy` because the call does not end before.
- **Ids and the token.** Host and core compute the same number for a place of the grid, and
  two cores of a group have two numbers, so their addresses agree. The cores of the
  token's way have places in a ring, of which `e_neighbor_id` takes the next or the
  previous one; those it has been at are the ones it has left the fewest steps behind
  (`TokenInv`).
- **Tracing by DMA.** A core wakes only when all cores are behind `wand` (`StartInv`), and
  the low register holds the time of what is written next. Until the ring goes round,
  place n of the buffer is event n from its store until the host reads it, and what the
  host has are the first events in order (`RingInv`), by whichever of its two calls.
- **Coding of events.** Fields are digits of a number with their sizes as bases, so each
  one is read back as it was put in, up to its width.
- **Session of e-hal.** The memory is what the caller meant; groups lie in the platform,
  buffers in the memory; every route of a word, through mapping, simulator or PAL,
  ends at the word meant. Resources held are exactly those of what is open.
- **`aligned_memcpy`.** Each loop finds the address as even as its accesses are wide,
  unless nothing is left (`CopyInv`); source and destination are so together.
- **`e-meshdump`.** A call of `mesh_memcpy` tiles its destination (`Tiles`): rows of
  packets of one width, each begun where the one before ends, so that every byte is
  in one packet and comes from its place in the file. Segments lie apart, so a segment
  more leaves what is laid as it is (`Laid`). The dump ends only if no segment had more
  than eight bytes to clear, and those are one call (`NeverEnds`).
- **Long replies.** The document is cut at the offset the client asks for; the client has
  exactly the first bytes of one version of it as long as the server keeps that
  version (`DocInv`), and the server makes a new one only for offset 0.
- **Codings.** Four divisions by 256 and four Horner steps are each other's inverse
  (`RegisterRight`). The server's loop over escaped bytes has, behind the bytes that
  the client sent for the first n, those n and no escape pending (`Back`).
- **Connection.** Without timeouts one request is at most in one of four states: on its
  way, refused, being answered, answered. The acknowledgement of a request lies
  before its answer and behind every older one, and the client takes only what is
  behind its `+`; nothing follows the `+` while the target runs. Hence it never takes
  an older answer, and a refused request has not been carried out.
- **One core.** From a stop until the client is told, or has answered the call, memory
  around the core stays as it was when the core stopped; behind a TRAP there are only
  NOPs, so that going back over them finds this TRAP and no other; a core gets to a
  breakpoint only at the start of an instruction.
- **Breakpoints.** `Armed`, `NothingLeft` and `Transparent` each look at one side. The
  invariant says of every byte which of three things it is: under one entry of the
  table (a BKPT in memory, the byte itself in the entry), bare (as the client wrote
  it), or lost track of. `unhideBreakpoints` copies an entry to the other threads of
  the process; that it makes no entry anew needs `AllCores`: a local breakpoint is in
  all cores of a process or in none.
- **Tables.** A workgroup that is refused half way has changed the maps by one core that
  does not exist and the null thread, which is in no process; the list told to the
  client is that of the tables until they change.

Assumptions, and what justifies them:

- a positive number of cores, chunks and slots; core ids different from each other and
  from 0; sizes that are natural numbers; `NoProc`, `NoName` and the like not among
  processes and names: no state of the code is excluded.
- the bounds of the runs (`BoundsAssumption` and the like) are in guards: any natural
  number will do, and the theorems hold for each of them.
- `UniformSizes` (`ShmManager`), of the two theorems about the heap: requests of one size, in a
  heap of whole blocks. With several sizes memman itself fails (run `memman_reuse`).
- `RefsFit` (`ShmManager`): fewer references than a 32-bit count holds. No code checks it.
- `LayoutAssumption`, `DeviceAssumption` (`HalTargets`): memory and registers of a core
  lie in its window, external memory begins on a page and shares no window with a
  core, chips lie in the address space, and the box around them has no core of the
  device that is on none of them. The hardware description files of the repository
  and the address map of the hardware are of this kind; with an external memory that
  overlaps a core two names would mean one word.
- `ClientAssumption` (`HalTargets`): buffers lie in the external memory and a record of a
  file in the memory of a core or in it. It is what correct callers do, the library
  tests neither: a buffer beyond the memory maps what lies behind it, a record beyond
  a core's memory goes to another word than it names (`Avoided` names the other
  cases, buffers that begin within a page among them).
- `AddressesAssumption` (`Breakpoints`): the client names the memory of a core by local
  addresses, and a request lies in the core's memory or in the external memory. A
  client that uses the global address of a core's memory does see breakpoints (above).
  `PlatformAssumption`: columns of cores have ids of six bits, a core's window is even.
- `ChipsAssumption` (`MCServer`): ids of rows and columns have six bits, as the
  hardware's.
- `ProgramsAssumption` (`MCServer`): a program does not begin with a NOP and has no BKPT of
  its own where an instruction starts. With one of either, `getStopReason` looks in
  front of the program, or takes the program's BKPT for one the client has set.
- `OneConstants` (`MCELib`): routines make calls of three kinds (they copy, mask, or set
  timer 1), interrupts are numbers, and the counts of a descriptor hold every request
  (`IsRequest`): fewer than 2^16 elements. A copy from or to the 32 KB of a core's memory
  is of this kind, one between two places of the external memory need not be (above).
- `DigitAssumption` (`MCServer`): an even number of values for a digit, so that an escape
  turns a bit. `PacketAssumption`: a packet has room for its letter and one byte more; what
  clients ask for, and documents' lengths, are numbers. `CopyAssumption`
  (`MCHalTargets`): addresses and sizes are numbers. `DumpAssumption`: an executable has
  segments, no part in the file is longer than that in memory, and they lie apart for
  the core they are dumped for, as a linker lays them out.
- `IdConstants` (`MCELib`): groups have powers of two of rows and columns
  (`e_coreid_neighbor_id.c:48`: "only works for Power-Of-Two group dimensions"), lie in the address space, none begins at core id 0,
  whose global addresses cannot be told from local ones. `DmaConstants`: one core traces, and the ring is
  not longer than the buffer. `CodingConstants`: a field has at least one value.
- `LoadConstants` (`MCWorkGroup`): at least one core to load.
- `NoLapAssumption` (`MCTrace`): cores write fewer events than a ring has slots. The code
  has no other synchronisation: a core that goes round its ring overwrites what is
  unread, and a host at the end of its ring leaves it. `LapsHarmless` is what holds then.

Only model-checked:

- all liveness, and the fairness it rests on: the prover has no reasoning about
  ENABLED.

Theorems of the library with an operator as a parameter, its inductions and
recursions among them, cannot be instantiated here. Where an induction is needed the
proofs take the least element of the set of counterexamples (`WFMin`), and a recursive
function is shown to exist in the same way before its value is used (`UnescapeIs`).

## Not modelled

- `ShmManager`: size 0 (`EINVAL` before anything else), a failing `lockf`, names of
  256 characters and more (`strncpy` leaves them without end), ESIM and PAL (which
  lock nothing). A `memman_free` with a pointer of another address space is
  modelled by the cell it hits in the same mapping.
- `TraceBuffer`: the event of the timer wrap, work groups smaller than the
  platform. `TraceServer`: errors of the header and the trailer, `e-trace-dump`.
- `GroupLoad`: `e_reset_group`, `EHAL_GDBSERVER`, failing writes, `.bss` in external
  memory.
- Host library: `e_get_platform_info`, verbosity, the characters of description
  and SREC files, starting and running a group on the simulator and on PAL (calls
  that are handed on).
- Server: options (`main.cpp`, `ServerInfo.cpp`), packets that are refused or do
  nothing, monitor commands that print, target tracing, and code nothing calls
  (`Thread::idle`, `saveIVT`, `restoreIVT`, most opcode helpers at the end of
  `GdbServer.cpp`).
- e-utils other than `e-meshdump` are sequences of e-hal calls with output. e-xml is
  a vendored parser and its client, sequential and without shared state; bsps are
  linker scripts and data.

## Plan

1. Memory manager, shared memory manager, barrier, mutex, with proofs (done).
2. Trace buffers, daemon, group load (done).
3. Server: run control, tables, stop reasons, breakpoints, connection (done).
4. Host library on its three targets, e-lib, DMA tracing, tools (done).
5. Proofs of the shared memory manager's table and its refinement, the load, run
   control, the view of a core, sessions of e-hal, the connection, one core under the
   server, its breakpoints and its tables, the trace buffers and the daemon, a core and
   its interrupt routines (done).
6. Proofs of long replies, the server's codings, `aligned_memcpy`, `e-meshdump`, ids, the DMA tracing and the heap under the table (done). What is left
   is listed under "Only model-checked".
