# Verification of the RT debug library

TLA+ models of `src/rt_debug`, a library that collects traces, logs, event
counters and profiler results in a memory-mapped file, from which another
process (or the same one) extracts them at run time, after a stop, or after the
application crashed. The models are checked with TLC on small instances; the
theorems are proved with TLAPS for every value of the constants.

Paths below are relative to `src/rt_debug`; `types.h`, `types.cc`, `main.h`,
`main.cc` and `i_cpp_sys_api.h` are in `rt_debug_cpp/src`, `rt_adapt.c` in
`rt_debug_c`.

## 1. The system

    application threads                    extracting process
      rt_adapt.c, C++ API                    rt_adapt.c
        | RTDBG_AddTrace / AddLog / ...        | RTDBG_Stop, GetTraceEntry, GetLog
      CDebugHandler (one per process)        CDebugHandler (tables of the merge)
        |                                      |
        +------------- shared file ------------+
          CDebugRT: active_, groups
            CGroupDebugRT: CTraceGroup | CLog_group | CProfilerGroup | CRT_counter_grp
              StaticMemArea (ring, FIFO) + two spinlocks shared by processes

| Component | State | Operations | Hard behaviour | Correct when |
|---|---|---|---|---|
| multi-threaded FIFO (`CMemArea`, `StaticMemArea`) | `wr_ind_`, `rd_ind_`, `in_lock_`, `out_lock_`, chunks | `PushFIFO_MT`, `PopFIFO_MT` | a push and a pop hold different locks and read each other's index | it is a bounded queue; no chunk is read while it is written |
| log group (`CLog_group`) | a FIFO | `AddLog`, `GetLogEntry` | drop-and-retry of several threads, crash in a critical section | a log is delivered once or dropped because it was the oldest |
| trace group (`CTraceGroup`) | ring of slots with a status, formats | `AddTrace`, `GetTraceEntry`, `AddTraceFormat` | slot taken under the lock and filled outside it; unlocked scan; wrap-around; stop while a writer is inside | the latest traces come out, the earliest first, and once if nobody else held their slot |
| profiler (`CProfileCnt`, `CProfilerGroup`) | a stop watch in each thread, a FIFO for each point | `Start`, `StopContinue`, `Stop`, `Update`, `GetProfInfo`, `RegistryProfileEntry` | results of several threads in one FIFO that is full or being emptied | every report is true of the measurements it counts |
| event counters (`CRT_counter_grp`) | names and values | `AllocCnt`, `Get_counter` | registration by several processes, values that survive | a counter keeps its place and its value |
| extraction (`CDebugHandler`) | `grp_logs_last`, `grp_trace_res_` of the process, `active_` | `RTDBG_Stop`, `RTDBG_Start`, `RTDBG_GetLog`, `RTDBG_GetTraceEntry`, `RT_debug_ExtractDebugData` | merge by time while entries arrive; tables that outlive a call | everything is returned, once, in time order |
| start and registry (`RT_debug_init`, `CDebugRT`) | the file, `num_alloc_groups_`, names | create or attach, `Init`, `AllocDbgGrp`, `AddTraceFormat`, `RegistryProfileEntry` | processes that start together, crash and start again; nothing is locked; lists with limits; addresses kept in the file | a handle names the group, format or point it was given for |
| life cycle of the mapping | `mem_attached_`, `status_`, `mmapFd_`, `rt_debugp_` | the system calls of `RT_debug_init`, `RTDBG_Close`, `RTDBG_GetStatus` | each system call may fail; close beside running calls; pointers handed to the application | no access without a mapping, no leak, only the library's own descriptor is closed and its own memory unmapped |
| other services of `CMemArea` | the two indices of the FIFO | `AllocFIFO`, `PushFIFO`, `PopFIFO`; `DualBufSwap`; `AllocPoolChunk` | chunks are filled and read in place, two of the three uses without a lock | whoever works on a chunk has it to himself, or knows when not |
| C and C++ interface, OS layer, examples, build | none of their own | wrappers, macros, spinlocks; `WorkThread` of `example_c` | counters incremented without synchronisation | |

`PROJECT.json` lists each component with its status, and every hazard of the
code at its line with the properties that watch it.

## 2. Modules

| Module | Models | Uses |
|---|---|---|
| `BoundedQueue` | what the FIFO promises: a queue whose operations take effect at one instant between call and return | |
| `MemFifo` | `PushFIFO_MT` / `PopFIFO_MT` step by step | refinement of `BoundedQueue` |
| `MemFifoProofs` | theorems about `MemFifo`, the refinement among them | `MemFifo`, TLAPS |
| `LogBuffer` | what a log group promises: the latest logs, additions and reads at one instant, room made by whoever found it full | |
| `LogGroup` | `CLog_group`, on top of `MemFifo` (INSTANCE), with crashes | `MemFifo`, refinement of `LogBuffer` |
| `LogGroupProofs` | theorems about `LogGroup` | `LogGroup`, `MemFifoProofs` (INSTANCE), TLAPS |
| `TraceGroup` | `CTraceGroup` with the stop and the loop that extracts | |
| `TraceGroupProofs` | theorems about `TraceGroup` | `TraceGroup`, TLAPS |
| `Profiler` | `CProfileCnt`, `Update`, `GetProfInfo` | |
| `ProfilerProofs` | theorems about `Profiler` | `Profiler`, TLAPS |
| `DebugHandler` | merge of the groups' logs and traces, tables of the extracting process | |
| `DebugHandlerProofs` | theorems about `DebugHandler` | `DebugHandler`, TLAPS |
| `Startup` | `RT_debug_init` of several processes, registration of groups and counters | |
| `StartupProofs` | theorems about `Startup` | `Startup`, TLAPS |
| `Registry` | registration of trace formats and profiler points, and the use of their handles, by processes that have the file at different addresses | |
| `RegistryProofs` | theorems about `Registry` | `Registry`, TLAPS |
| `Lifecycle` | one process and its mapping: failing system calls, start, stop, extraction, close, calls before anything is registered, threads inside a call or with a pointer into the mapping, the next run | |
| `MemArea` | the other services of `CMemArea`: single-threaded FIFO, dual buffer, pool | |
| `MappingProofs` | theorems about `Lifecycle` and about `MemArea`: the memory a process maps and the areas in it | `Lifecycle`, `MemArea`, TLAPS |

`MC*` modules give the symmetry sets and structured constants of the runs
(`Scenarios` of `DebugHandler`: what is added, which masks are asked for, how
often what may happen; a behaviour picks one).
An invariant that a run checks may be a conjunction of named parts, each with its
own comment in the module (`LogsAccounted`, `OrderKept`, `TracesAccounted`, `MeasurementsAccounted`, `ReportHonest`,
`EarliestFirst`, `HandlesSound`, `DeathsExplained`, `ResourcesKept`); types are
among the parts. In every module a section "Variants of definitions" holds slips a programmer
might make; they are used by no specification and serve to show that each
property notices one of them (`mutants` in `PROJECT.json`).

### How state and actions correspond to the code

* **MemFifo.** Variables have the names of the members. A thread has a program
  counter; `push_lock`, `push_check`, `push_copy1/2`, `push_commit`,
  `push_unlock` are the statements of `PushFIFO_MT`, and likewise for a pop,
  which stores `rd_ind_` before it copies. `memcpy` takes two steps, so that a
  read that overlaps a write is seen as a chunk with parts of two entries. A
  spinlock is its owner. Stores are seen in program order (x86): on a weaker
  memory the plain store of `wr_ind_` after the `memcpy` would need a barrier.
* **LogGroup.** `AddLogCall` is the entry up to the first push, `AddLogDrop` and
  `AddLogRetry` are the body of the loop, `AddLogReturn` its end; in between the
  steps are those of `MemFifo`. The text of a log is who added it and when.
  `Crash` stops the threads of the application at any step; the group and its
  locks stay.
* **TraceGroup.** `AddTraceCall` is the check of `active_` in `RTDBG_AddTrace`.
  `AllocPoolChunk` is one step: its critical section touches `wr_ind_` alone.
  The `memcpy` that fills a slot is three steps, `linux_time`, `status` and the rest (`CopyHead`,
  `CopyStatus`, `CopyTail`). In `GetTraceEntry` the load of `status`, the comparison of
  `linux_time`, its load as the minimum, the values, the time that is returned and the store of
  `status` are each a step (`GetTraceEntryScan`, `Compare`, `Min`, `Vals`, `Time`, `Clear`). The
  check of `active_` by
  `RTDBG_GetTraceEntry` and the clock reading that follows it are one step.
* **DebugHandler.** A FIFO is a sequence of stamps and taking its head is one
  step, as the refinement of `MemFifo` allows; a ring is a set of stamps, whose
  earliest is taken, as `TraceGroup` shows for slots that are not raced for.
  Each group a call looks at is a step. The handler of a process starts
  as zero bytes, which is what `DATA_IND` is.
* **Profiler.** `meas_num_` has beside it the set of the measurements it counts,
  a history that the code does not read. A push and a pop are one step each.
  The clock advances with each reading, the point of a thread is used by that
  thread alone, and a thread stops a measurement only after it started one.
  `max_cnt_time_` is left out.
* **Startup.** The file is absent, empty or full. `GroupCount` and `GroupInit`
  are the increment of `num_alloc_groups_` and the initialisation after it;
  `EventName` and `EventCount` likewise for a counter. A comparison of
  one name is a step. An ASSERT that fails makes the process `aborted`; one that would
  read or write past `debug_groups_` or the counters of a group is `overrun`.
  A name is written, and `CDebugRT::Init` resets its groups, in one step.
  `groups.inc` numbers the groups, so `RT_debug_save_log` finds a group by its place
  in the list; `LogsReachGroup` is about that number.
* **Registry.** One group that is set up. The count of formats and that of points are
  incremented by a load and a store; what `RegistryProfileEntry` does after it is
  three steps, `Setup`, the name, and `MemAlloc`, which stores an address of the
  process that registers. A process that finds its point registered skips `MemAlloc`.
  An access past a table or through an address of another process ends the process
  (`overrun`, `strayed`, `divided`): what it does from there is undefined. Left out are the locks of
  a point, which `Setup` creates after it copied the name (`i_cpp_sys_api.h:167`), and which a push or a pop
  takes before it divides. On x86-64 a lock that is zero counts as taken, so that a process that
  is `divided` or `strayed` at a point that was cut off waits for ever in place of dying; in both cases it
  does not return. The results of a point are the names under which they were saved: that a full FIFO discards
  some of them is in `Profiler`, and `RegistryKept` says that a point with results has some until a report.
* **Lifecycle.** `main` is where the main thread is; `Open`, `SetSize`, `CheckSize`,
  `Map` have a disjunct for each system call that can fail. The registry is one
  group with one counter. `Activate` is `RTDBG_Start` before the registration, for a new file, and
  after it; in between is `Register`. A call of another thread tests `mem_attached_` (`Call`), and `active_` if it saves
  data (`IsDataCollected`), and then gets its group, whose ASSERT aborts the process
  if it is not registered yet (`GetDebugGrp`). `RTDBG_Close` and `Unmap`
  are the two halves of `RTDBG_Close`, with its sleep between them. `munmap` takes away whatever is at
  the address, also what the application has mapped there since (`AppMap`); an access that finds memory of the
  application counts as a death, as what follows it is undefined. `Load` and `Store`
  are the increment in `WorkThread`.
* **MemArea.** `use` is the service an area is put to. `FillHead`, `FillTail`, `ReadHead`,
  `ReadTail` are the two halves of a value written or read in place. The checks of `PushFIFO`
  and `PopFIFO` are steps of their own, before the index is stored. `DualBufSwap` is a push
  and a pop, whose results it ignores. Its definitions are named `AreaInit`, `AreaSpec` and so on, as
  `MappingProofs` extends it beside `Lifecycle`.

### Atomicity

A step reads or writes what the code touches between two points at which another
thread could tell a difference: one index, one half of a copy, one lock, one
status. Where a module merges more it is one of the cases named above.

## 3. Runs

Passing runs:

| Run | Instance | What it shows |
|---|---|---|
| `memfifo_safety` | 3 threads, 4 chunks, 2 entries | locks, decisions on the unlocked index, copies, the inductive invariant, and the refinement of `BoundedQueue` |
| `loggroup` | 2 loggers of 2 logs, 1 reader, 4 chunks (2 entries fit), crash | nothing vanishes, delivered once, order of each thread, only the oldest dropped, and only when the FIFO was full; the refinement of `LogBuffer`; `AddLog` and `GetLogEntry` return unless the application crashes |
| `tracegroup` | 2 writers, 2 slots, 3 traces, 1 start | tearing needs a race for the slot, and so does extracting a trace twice; latest traces kept; earliest first; the ring is emptied; the extraction loop ends |
| `debughandler` | 2 threads, 2 groups, 3 entries; logs read by a monitor for all groups, with `RT_debug_get_grp_log` and a restart, or for one group; or traces with 1 start and a restart | no log lost or returned twice; time order but for late entries; the first extraction is complete |
| `profiler_safety` | 2 threads, FIFO of 1, results of 2, 4 measurements, 7 clock readings | measured once, reports honest, values are running time |
| `startup_safety` | 2 processes, 2 groups of 3, 2 counters of 3, 3 exits | after one start without another beside it handles are valid, processes agree, no start fails, aborts or leaves a table, the registry is not touched again; after a whole first start that was alone a log reaches its group |
| `registry` | 2 processes at 2 addresses, 2 formats of 3, 2 points of 2, 3 ends | traces keep their format and results their point after one registration without another beside it; every death has a race, a registration that was cut off, or a foreign address behind it |
| `lifecycle` | 2 workers, 2 addresses, 3 descriptors, 3 starts, 1 more run, 1 failure, 2 increments | a failed start leaks nothing; accesses go wrong only for want of a mapping, beside `RTDBG_Close` or before the groups are registered; counters lose increments only to overlapping ones |
| `memarea` | areas of 2, 3 and 4 chunks, 5 values, 2 readers | the producer and the consumer stay apart and in order without a lock; a reader of a dual buffer is safe unless it is lapped; chunks are handed out in turn; everything written is read |

Runs that find a disagreement between the code and its documentation
(`findings` in `PROJECT.json` quotes both sides):

| Run | What TLC finds |
|---|---|
| `loggroup_crash` | after a crash in `PopFIFO_MT` a reader spins for ever |
| `debughandler_second` | a second extraction of the same process prints no traces |
| `profiler_saved` | on a full FIFO the new result is lost instead of the oldest |

The models have further behaviours of the code that a reader might not expect;
the properties above are stated so that they are true beside them:

* the clock is read before a log is pushed, so logs of several threads leave a
  group in another order than their stamps (`AddLogCall`; hence `OrderKept` is about one
  thread, and `LogsEarliestFirst` exempts stamps that were overtaken);
* the first extraction of a process prints an empty trace for each group
  (`NoTraces`; `TracesEarliestFirst` leaves these out);
* a stop forgets logs that `RTDBG_GetLog` fetched and did not return yet
  (`InitExtractTables`; they are in `forgotten`);
* `RTDBG_GetLog` for one group considers entries of the others that an earlier call
  fetched (`GetLogCached`), and `RT_debug_get_grp_log` makes it store through
  NULL when there is a log (`GetLogDies`); `NothingLost` counts both;
* a writer that is inside `AddTrace` when the collection stops fills a slot that the
  extraction may be reading (`TornOnlyIfRaced`: tearing needs that, or two writers a
  whole ring apart). It stores `linux_time` and `status` apart: over an old entry it may store the new time, the
  extraction returns the trace and clears `status`, and the writer then sets `status`, so that the same trace is
  returned again (`ExtractedOnce` leaves slots in `raced` out);
* processes that start together may get handles of other groups or counters,
  and a crash between `open` and `ftruncate` blocks every later start (`Attach`);
  hence `HandlesValid` is about what follows one start that was alone;
* a start that crashes while it registers leaves a group that is counted and not set
  up, whose handle divides by its `number_chunks_` of 0, and whose place a later start
  does not take: groups are then in another order than in `groups.inc`, and
  `RT_debug_save_log` reaches the wrong one (`LogsReachGroup` asks for a whole first start);
* the address of a profiler point is that of the process which registered it. A
  process that has the file elsewhere accesses memory of its own that has nothing to do
  with it when a result is saved (`SaveResult`, `SavesAtHome`);
* `RegistryProfileEntry` tests its count with one place too many; with lists that fit
  this is met only after registrations raced or were cut off (`OverrunOnlyIfRaced`).
  `Get_counter` has the same test, on a table that always has that place;
* `RTDBG_Close` does not ask whether anything is mapped: called twice, or after a
  failed open, it closes a descriptor that is not the library's: 0 before any
  start, later a number that the application may have been given since, and it unmaps what the application
  may have mapped at the old address (`DescriptorsKept`); and calls that passed their test of
  `mem_attached_`, like pointers to counters, outlive the mapping (`FaultsExplained`);
* `RT_debug_init` sets `mem_attached_`, and `active_` of a new file, before it registers the groups. A
  thread that adds a trace or a log, or asks for a counter, in between fails the ASSERT of `GetDebugGrp` and
  the process aborts (`DieInGroup`; `FaultsExplained` says that this is the only time it does);
* `RTDBG_Start` leaves `status_` as it is, so a process that created the file and
  never stopped dies of an ASSERT when it extracts by the C++ interface (`ExtractionAllowed`);
* `DualBufSwap` pushes and pops by way of the FIFO, which keeps one chunk free: of two chunks, the size
  of a double buffer, none is ever swapped and readers see nothing of what was written
  (`SwapPublishes` is about three or more);
* `*watch_dog += 1` is a load and a store, so threads lose increments (`CounterExact`); the
  sample output in the repository's `README.md` has 99618 for a counter to which ten
  threads added 10000 each.

### Bounds

* `number_chunks_` 4 gives a FIFO of two entries, so that full, empty,
  wrap-around and both at once occur; the proofs cover every size.
* `TRACE_ENTRIES_NUM` 2 with 3 traces: the ring wraps while a writer still
  holds its slot; 2 writers are enough for two of them to hold one slot.
* `MaxLogs`, `MaxClock`, `MaxTraces`, `MaxMeas`, `MaxTime`, `MaxIncrements`, `MaxValues` bound what the
  environment does (calls and clock readings), `MaxStarts`, `MaxRuns`, `MaxFailures`,
  `MaxCrashes`, `MaxEnds` how often things begin, fail and end; the fields `entries`,
  `starts`, `extracts` and `restarts` of a scenario do both for `DebugHandler`. Each stands in the guard of the
  action it bounds. Overflowing the FIFO or the ring needs one entry more than
  fits, which every bound allows.
* `startup_safety` has one group more than the list needs and no counter to spare (the
  last of a group is never given out). A start that is cut off or races takes the spare
  place, a second one fills the table, so that the ASSERTs of `AllocDbgGrp`, `AllocCnt` and
  `GetDebugGrp` fail and a scan by a count that is too large leaves the table (`Overrun`). Only
  starts that are not `sound` meet these.
* `registry` has one format more than the list needs, so that a lost place fits and a
  second one does not, and no point to spare, so that the ASSERT that
  lets `PROF_GROUP_MAX` pass is met. Two lists of two suffice for a duplicate, a gap and a
  name in the wrong place; three ends allow both processes to be cut off and one to be run again.
* `lifecycle`: three starts allow a close and a new mapping elsewhere after a
  failure; two addresses allow one for the library and one for the application, at the place of an earlier
  mapping; descriptors 0 to 2 allow one of the application, one of the library and one
  that leaked.
* `memarea`: 5 values go round an area of 4 chunks, and two readers can be lapped.
  The proofs cover every number of chunks, readers and values.
* `CHECK_DEADLOCK FALSE` in all runs but `memfifo_safety`: with bounded calls and
  clock the application runs out of things to do. `MemFifo` alone is unbounded
  and is checked for deadlock.

### Fairness

Only threads that are inside a call are weakly fair (`FairSpec` of `LogGroup` and
`TraceGroup`): the kernel schedules them, and a thread that crashed is exempt. In `TraceGroup`
only the extractor is: nothing obliges a writer to go on, which is how an application that
crashes looks to it. No call has to be made. Acquiring a spinlock is part of such a step and gets no
strong fairness, because `pthread_spin_lock` promises none. That is why
`AddLogReturns` assumes that the readers pause: a reader that polls without end
can keep a logger out of `out_lock_`. It assumes nothing of the other
loggers: each time one takes the room another made, it completes a call, and calls
are bounded by `MaxLogs`.

`FairAreaSpec` of `MemArea` is about callers, since the services without locks return at
once: the producer tries a refused push again and the consumer polls. A consumer that
is in a loop and is scheduled does so; `FifoDrains` promises nothing without it.
`Profiler`, `DebugHandler`, `Startup`, `Registry` and `Lifecycle` assume no fairness and claim no liveness.

## 4. Proofs

All theorems hold for every number of threads or processes, of chunks, slots, formats,
points, and for every bound. What is assumed of the constants is in the
assumptions of the modules:

* `MemFifo`: `NoThread` is not a thread, and `number_chunks_` is at least 2
  (`ThreadsAssumption`, `ChunksAssumption`); `LogGroup` repeats both for the threads of a group
  (`FifoAssumption`), keeps loggers and readers apart (`RolesAssumption`) and the value of
  an empty hand out of the logs (`EntriesAssumption`).
* `MemArea`: the same of the sizes it considers; the consumer is a reader.
* `TraceGroup`: `TRACE_ENTRIES_NUM` is at least 2 (the code has 1000). With one slot the index
  never moves and all traces share it.
* `Profiler`: the FIFO of a point holds one result at least, and the clock can be read once.
* `Lifecycle`: `NULL` is no address.
* `DebugHandler`: a scenario gives what is added, the masks and the bounds as sets and numbers
  of their types (`SizesAssumption`); nothing else is assumed of it.
* `Startup`: tables and lists are not empty, an event names a group of the list
  (`StartupAssumption`), and the names of `groups.inc` are different (`GroupNamesAssumption`), as the
  same names are the constants of an enum. Nothing is assumed of the names of counters, which
  may be registered twice, nor that the lists fit the tables.
* `Registry`: `NULL` is no address, tables and lists are not empty, names are strings, and a
  point is not named by the empty string, which is what an unused place holds.

A theorem whose name ends in `Always` states the property before it, which a run of section 3
checks on a small instance, or an inductive invariant.

### The FIFO

`MemFifoProofs` builds the inductive invariant `IInv` in layers, each theorem using
the ones before it:

1. `TypeCorrect` - types; indices stay in the ring.
2. `LocksHeldAlways` - a thread between lock and unlock of a side owns its lock.
   Hence at most one thread is in each critical section.
3. `ChecksStayValidAlways` - `IndicesApart /\ ChecksStayValid`. `ChecksStayValid` is not
   inductive alone: a pop that stores `rd_ind_` must not make `wr_ind_` equal to
   it, and that needs the pop's own check to be valid still. The argument is that the other
   side can only make room (or fill), and never takes the last free chunk.
4. `PoppedWholeAlways` - `PoppedWhole /\ CopiesAgree`. `CopiesAgree` says what the copies leave behind:
   every chunk but the one at `wr_ind_` is whole, and a copy agrees with its source so far.
5. `NoRacingCopiesAlways` and `InvariantHolds` follow.

Its second half proves `FifoImplementsQueue`: `Spec => ImplementsQueue`. The
mapping takes the chunks strictly between the indices as the queue; a push takes
effect when it stores `wr_ind_`, a pop when it stores `rd_ind_`, a refusal when it
reads the index of the other side, and while a pop copies, its result is the chunk
it took. Lemmas state how advancing an index changes that sequence
(`WriterAppends`, `ReaderRemovesHead`, `FreeChunkUnseen`), and `PushCallRefines`,
`PopCallRefines`, `ThreadStepRefines` have one case for each action.

### The log group

`LogGroupProofs` never looks at a lock or a copy: it uses `MemFifoProofs` by INSTANCE.

1. `SameFifo`: the steps of the FIFO inside `LogGroup` are those of `MemFifo`, so that they
   refine the queue, also with threads that a crash stopped.
2. On top of the queue, `LogBufferImplemented`: `Spec => ImplementsLogBuffer`. `Calling` links the
   two levels: which call of the group a thread is in tells which operation
   of the queue it may be in and with what value.
3. The other invariants are proved of the steps of `LogBuffer` (`GroupStep`), plus the clock and the
   histories of `LogGroup`. The lemma `Kinds` sorts them by what they do to the logs: one begins, is put, is
   discarded, is taken, is given, or nothing moves. The inductive invariant of this level is
   `Typed`, `Stamps` (a log that is being added is later than all of its thread), `InOrder`, `OneWay`
   (nothing left twice), `Accounted` and `Filled`. From it follow `LogsAccountedAlways` and
   `OldestGoFirst`: nothing is gone while an older log of the same thread stays.
4. `OrderKeptByOneReader` has the hypothesis that `Readers` has at most one member. It is
   needed: two readers can return in the other order than they popped, which is why the
   run has one reader. For any number `OldestGoFirst` is what remains.
5. `DropsOnlyWhenFullAlways` comes from `Filled`: once anything was discarded or found the FIFO full,
   the logs kept, those that readers took and the additions under way make up its
   capacity. A logger that discards becomes an addition under way, so that the sum stays.

### The trace group

`TraceGroupProofs` has one inductive invariant `IInv`; its parts, each with its
step lemma:

* `TypeInv` bounds the slots that were taken and those being taken by `MaxTraces`.
* `Turns`: a trace has the slot that its number gives modulo `TRACE_ENTRIES_NUM`; no two
  writers have the same number.
* `Stamps` orders the clock readings of traces, of the stop and of the extraction.
* `Fresh`, `Apart`: what a slot that nobody raced for (not in `raced`) holds was not extracted, nor what its
  writer is about to mark as there, and that writer has the slot to himself. Of a slot that was raced for
  nothing is claimed: there a trace may be extracted twice. `Whole`: of such a slot the time, the values and the time again
  that an extraction loads one after the other are of one trace.
* `Scanning`, `Order`: the slot the scan chose is still full; while nothing was raced for it is the earliest of
  those it passed, and nothing that remains is earlier than what was extracted.
* `Emptied`: after an extraction that ended by itself only traces that are in `late` are in the ring or on
  their way to it.

`TornOnlyIfRacedAlways`, `TracesAccountedAlways`, `EarliestFirstAlways`,
`ExtractionCompleteAlways` are consequences.

### The profiler

* `WatchesAlways`, `RecordedAlways`: at every reading of the clock `acc_cnt_` and
  `start_val_` give the time the point ran; hence `MeasuresRunningTimeAlways` about the unsigned
  arithmetic when it stops.
* `ResultsAlways` keeps results apart: a measurement is in at most one of the FIFO, the hand of a
  thread, the report and what was lost; hence `MeasurementsAccountedAlways`.
* `MaxHonestAlways` is one half of `ReportHonest`: the largest value of a result is followed through
  averages, folds and lost results (`Maxed`).
* `ReportHonestAlways` adds the average. `SumOf` is the sum of a set of measurements, defined as the
  number of their units: the cardinality of the pairs of a measurement and a number up to its
  value. So it needs no induction: sums of disjoint sets add up (`SumOfBoth`), and a
  further measurement adds its value and leaves other sums alone (`SumGrows`), by the facts about
  cardinality of the library. The invariant `Averages` says what `average_cnt_` is at each
  place: the exact sum while a point measures (`Exactly`), the quotient rounded down from
  `Update` on (`Rounded`), also in a result that was popped back into a point, and in the report a
  sum that is short of the true one by no more than the number of measurements (`Gathered`). The last
  division loses less than one more, hence "less than two too small".

### The extraction

The inductive invariant of `DebugHandlerProofs` has a part for each thing that can go wrong in the merge:

* `Clocked`: stamps are unique, and a stamp that was taken and is still to be put, other than
  the last one, is in `slow`: a later reading overtook it.
* `Placed`: a log is in one FIFO, or in one place of the table, or out, never in two of these; with the
  steps that move one it gives `LogsAccountedAlways`.
* `FifoOrder`: within a FIFO what stands behind a later log is slow.
* `LogScan`, `LogsLeft`: while a call for all groups looks for the earliest, whatever is earlier
  than its choice is in a group it has not reached, or slow; what is left is later than what was returned, or slow.
  `TraceScan`, `TracesLeft` say the same of traces, with the groups that were found empty left out.
  From these follows `EarliestFirstAlways`.
* `PresentLogs`, `PresentTraces`: what an extraction found when it began is on its way. The logs among them are a
  prefix of each FIFO, with the entry of the table in front of it. The traces of a first extraction are
  in a ring that is not marked as empty, in the table, or printed. A scan that chose nothing found none of
  them where it looked, so the loop does not end while one is left: `FirstExtractionCompleteAlways`. A
  second extraction begins with rings marked as empty (`debughandler_second`).

### The life cycle

The first part of `MappingProofs`. `IInv`: `Held` (at each place of the main thread, which descriptor is the
library's and what is mapped), `Paged` (what is mapped has pages unless `ftruncate` failed, and has its group
but between the mapping and the registration: `Registering`),
`Trusting` (a call past its test, and a pointer the application holds, have a mapping behind them
until `RTDBG_Close`), `Counted` (what a worker loaded is no more than what was stored, and exact if
no increments overlapped) and `Begun` (increments stored and under way are within those that
were begun).
`DeathsExplainedAlways`, `ResourcesKeptAlways` and `CounterExactAlways` follow.

### The start of processes

`StartupProofs` has one invariant `IInv`:

1. `AllPlaced`: where each process is in its lists and tables, and that it has the indices it passed.
2. `Mine`: a start that is alone has only passed names other than its own (`NotBefore`), and the place it
   is about to fill or count is the one at the count (`Exact`).
3. `HandlesRight`: so what it got is the first place at which that name is found (`FirstGroup`,
   `FirstCounter`). The first place is unique, whatever duplicates and half-registered places
   earlier crashes and races have left, so processes that go by it agree.
4. `Settled`: when such a start is done every name has a first place (`Complete`), and whoever registers after
   that has it still before him (`Finds`), so he stops there: no start fails, aborts, leaves a table or
   writes one. With it a step changes no name and no count (`RegistrySettlesAlways`, an action
   property), and the handles stay right (`HandlesSoundAlways`).
5. `Orderly`: as long as no start was cut off, met another, or left a table, groups stand in the order of
   `groups.inc` and are set up. It gives `LogsReachGroupAlways`.

### The registry

`RegistryProofs` goes from what one process sees to what holds for all:

1. `Mine`: while a process registers and no other does, the place it is about to
   fill is its own, and it has not passed a place that counts.
2. `HandlesRight`: so the handles it got name what they were given for.
3. `Settled`: when such a process ends its lists, every name is found by whoever looks for it.
   From then on no step writes the tables, whoever starts (`RegistryKeptAlways`, an action property),
   so the handles of sound processes stay right (`FormatsRightAlways`, `ReportsRightAlways`).
4. `SoundLives`: a sound process neither aborts nor leaves a table. `Undisturbed`: if no
   registrations raced and none was cut off, the tables hold the lists as far as they were
   registered. Both give `DeathsExplainedAlways`.
5. `Homes`: a point that is counted has the address of the one who registered it, or is being set
   up (`SavesAtHomeAlways`).

### The services of CMemArea

The second part of `MappingProofs`, over `AreaSpec`. The inductive invariant is
`AreaIInv == TypeInv /\ Roles /\ Apart /\ FifoInv /\ DualInv /\ PoolInv`:

* `Roles` says which steps belong to which use, so that a step of one use leaves the
  other conjuncts alone.
* `Apart` keeps the unlocked decisions of producer and consumer right until they are
  used, as `ChecksStayValid` does for `MemFifo`; `ChunksApartAlways` is a part of it.
* `FifoInv` ties the chunks to the history: chunk `k` places after `rd_ind_` holds value
  `pops + k`. From it follows `ReadsInOrderAlways`.
* `DualInv` ties a reader's chunk to how often the writer swapped since it began: fewer than
  `number_chunks_ - 1` swaps later the writer has not come back to it. From it follow
  `ReadsPublishedAlways` and `SwapPublishesAlways`.
* `PoolInv` gives the chunk handed out `k` calls ago by its distance from `wr_ind_`, hence
  `HandedInTurnAlways`.

The remainders of ring indices are dealt with in lemmas of their own, as the solver does
not reason about `%` by a variable.

### Only model-checked

* Liveness, as fairness and ENABLED are beyond the prover: `AddLogReturns`, `GetLogEntryReturns`,
  `ExtractionEnds`, `FifoDrains`.
* `OrderKept` of `LogGroup` with more than one reader is neither true nor checked.
* The counterexamples of section 3: the three properties that the code violates.

Every invariant and every safety action property of the passing runs is stated by a theorem.

## 5. Not modelled

* Text: formatting of entries, the report that `RTDBG_ExtractDebugData` writes, printing.
* The macros of the C interface, and `CProfilePoint` of the C++ interface, which no program of
  the repository uses (its `Stop` takes a value and does not pass it on).
* `CYCLE_EVAL`, `AddProfData`, `AddProfileEntry`, `ForceStop` and `CDebugRT::Attach`, which nothing
  calls or selects; `ReleaseChunk`, which is empty.
* `GetPrevChunk`, which changes nothing and which nothing calls. It takes the remainder by
  `single_chunk_size_` where `number_chunks_` is meant (`i_cpp_sys_api.h:347`): in the only pool, the
  trace ring of 1000 chunks of 64 bytes, it would find neither the latest chunk, as 1000 is no
  multiple of 64, nor any from the 65th on.
* Threads, semaphores and queues of the OS layer: declarations without code.
* Parsing of options in the examples, and the build files.
* Reordering of stores by the processor or the compiler.

## 6. Plan

Done: all modules of section 2, and the proofs of section 4.

What is left to do:

1. An abstract specification of the extraction that `DebugHandler` implements, as `LogBuffer` is for one group.
2. `DebugHandler` on top of `LogGroup` and `TraceGroup`, in place of FIFOs and rings whose operations are
   one step each. TLC does not reach that composition; the refinements proved above are its ground.
3. A model of stores that are seen out of order, for processors other than x86.
