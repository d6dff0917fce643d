----------------------------- MODULE Lifecycle -----------------------------
(***************************************************************************)
(* The mapping of the shared file into one process (rt_debug_main.h and    *)
(* .cc): RT_debug_init, in which every system call may fail, start, stop,  *)
(* extraction and RTDBG_Close, called by the main thread in any order,     *)
(* beside workers that call the library and that increment an event        *)
(* counter through a pointer, as WorkThread of example_c does.  The        *)
(* process may end at any time and be run again on the file it left.       *)
(*                                                                         *)
(* The registry (module Startup) is one group with one counter, registered *)
(* in one step, and a call of the library one access to that group, by way *)
(* of GetDebugGrp.                                                         *)
(***************************************************************************)
EXTENDS Integers

CONSTANTS
  Workers,
  Addresses,      \* where mmap may put the mapping
  NULL,
  MaxStarts,      \* bound: calls of RT_debug_init
  MaxRuns,        \* bound: runs of the process after the first
  MaxFailures,    \* bound: system calls that fail
  MaxIncrements   \* bound: increments that are begun

ASSUME LifecycleAssumption ==
  /\ NULL \notin Addresses
  /\ MaxStarts \in Nat /\ MaxRuns \in Nat /\ MaxFailures \in Nat
  /\ MaxIncrements \in Nat

Descriptors == 0 .. 2

VARIABLES
  file,       \* its size, active_, and the counter: registered, val
  mapped,     \* addresses at which the process has the file mapped
  appMapped,  \* addresses at which it has mapped something of its own
  fds,        \* fds[n]: "free", or opened by the "app" or the "lib"
  handler,    \* members of CDebugHandler, and event_cnt of rt_adapt.c
  main,       \* where the main thread is
  create,     \* does RT_debug_init create the file
  worker,     \* worker[t]: where t is, its watch_dog, what it loaded
  death,      \* why the process died, or "none"
  victim,     \* the worker that died of an access
  used,       \* what was used up of each bound
  hist        \* history

vars == <<file, mapped, appMapped, fds, handler, main, create, worker, death,
          victim, used, hist>>
process == <<mapped, appMapped, fds, handler, main, create, worker, death, victim>>

(* A process that has just begun.  Descriptor 0 is its standard input.     *)
NoHandler ==
  [status_ |-> "INIT", mem_attached_ |-> FALSE, rt_debugp_ |-> NULL,
   mmapFd_ |-> 0, event_cnt |-> NULL]
NoFds == [n \in Descriptors |-> IF n = 0 THEN "app" ELSE "free"]
NoWork == [t \in Workers |-> [pc |-> "idle", watch_dog |-> NULL, tmp |-> 0]]
NoHistory ==
  [checked |-> {},        \* workers past a check, RTDBG_Close not called since
   pointed |-> {},        \* workers that took their pointer from a start that
                          \* was complete, RTDBG_Close not called since
   misused |-> FALSE,     \* was RTDBG_Close called without a mapping
   foreign |-> FALSE,     \* did it close a descriptor of the application,
                          \* or unmap its memory
   short |-> FALSE,       \* did ftruncate fail
   stopped |-> FALSE,     \* was RTDBG_Stop called since the file was mapped
   stored |-> 0,          \* increments stored
   overlapped |-> FALSE]  \* did one begin while another was under way

Init ==
  /\ file = [size |-> "none", active_ |-> FALSE, registered |-> FALSE, val |-> 0]
  /\ mapped = {} /\ appMapped = {} /\ fds = NoFds
  /\ handler = NoHandler
  /\ main = "idle" /\ create = FALSE
  /\ worker = NoWork
  /\ death = "none" /\ victim = NULL
  /\ used = [starts |-> 0, runs |-> 0, failures |-> 0, increments |-> 0]
  /\ hist = NoHistory

(***************************************************************************)
(* Variants of definitions below that a plausible slip would give.         *)
(***************************************************************************)
GiveUpLeaking ==
  /\ used.failures < MaxFailures
  /\ used' = [used EXCEPT !.failures = @ + 1]
  /\ main' = IF create THEN "start" ELSE "idle"
  /\ UNCHANGED <<fds, handler>>
MappedAtOnce(a) ==
  [handler EXCEPT !.status_ = IF create THEN "PRODUCER" ELSE "CONSUMER",
                  !.mem_attached_ = TRUE]
NewCounterAlways == [file EXCEPT !.registered = TRUE, !.val = -1]

-----------------------------------------------------------------------------
Alive == death = "none"
Readable(p) == p \in mapped /\ file.size = "full"

Die(cause, t) == death' = cause /\ victim' = t
(* An access through pointer p, by t, that finds no page of the file.  One *)
(* that finds memory of the application ends the run as well: what follows *)
(* it is undefined.                                                        *)
DieOfAccess(p, cause, t) == Die(IF p \in mapped THEN "bus" ELSE cause, t)

(* One of GetDebugGrp, that has no page or finds no group: its ASSERT.     *)
DieInGroup(cause, t) ==
  IF Readable(handler.rt_debugp_) THEN Die("group", t)
  ELSE DieOfAccess(handler.rt_debugp_, cause, t)

(* A start has mapped the file and has not registered the group.           *)
Registering == main \in {"init", "start", "register"}

Fail ==
  /\ used.failures < MaxFailures
  /\ used' = [used EXCEPT !.failures = @ + 1]

(* RT_debug_init returns 0 if it fails to attach, and ignores that it      *)
(* failed to create the file.                                              *)
Onward == IF create THEN "start" ELSE "idle"

CloseFd(n) == [m \in Descriptors |-> IF m = n THEN "free" ELSE fds[m]]

(* A failure after open: the descriptor is closed.                         *)
GiveUp ==
  /\ Fail
  /\ main' = Onward
  /\ fds' = CloseFd(handler.mmapFd_)
  /\ UNCHANGED handler

-----------------------------------------------------------------------------
(***************************************************************************)
(* RT_debug_init                                                           *)
(***************************************************************************)
RT_debug_init ==
  /\ main = "idle"
  /\ used.starts < MaxStarts
  /\ used' = [used EXCEPT !.starts = @ + 1]
  /\ create' = (file.size = "none")
  /\ IF handler.mem_attached_ THEN Die("assert", NULL) /\ UNCHANGED main
     ELSE main' = "open" /\ UNCHANGED <<death, victim>>
  /\ UNCHANGED <<file, mapped, appMapped, fds, handler, worker, hist>>

FreeFd(n) == fds[n] = "free" /\ \A m \in 0 .. n - 1 : fds[m] # "free"

Open ==
  /\ main = "open"
  /\ \/ \E n \in Descriptors :
          /\ FreeFd(n)
          /\ fds' = [fds EXCEPT ![n] = "lib"]
          /\ handler' = [handler EXCEPT !.mmapFd_ = n]
          /\ file' = IF create THEN [file EXCEPT !.size = "empty"] ELSE file
          /\ main' = "size"
          /\ UNCHANGED used
     \/ /\ Fail
        /\ handler' = [handler EXCEPT !.mmapFd_ = -1]
        /\ main' = Onward
        /\ UNCHANGED <<fds, file>>
  /\ UNCHANGED <<mapped, appMapped, create, worker, death, victim, hist>>

(* A new file gets its size: if ftruncate fails it is mapped as it is, if  *)
(* lseek or write fails it is given up.                                    *)
SetSize ==
  /\ main = "size" /\ create
  /\ \/ /\ main' = "map"
        /\ file' = [file EXCEPT !.size = "full"]
        /\ UNCHANGED <<fds, handler, used, hist>>
     \/ /\ Fail
        /\ main' = "map"
        /\ hist' = [hist EXCEPT !.short = TRUE]
        /\ UNCHANGED <<file, fds, handler>>
     \/ /\ GiveUp
        /\ file' = [file EXCEPT !.size = "full"]
        /\ UNCHANGED hist
  /\ UNCHANGED <<mapped, appMapped, create, worker, death, victim>>

(* An old one must not be empty.                                           *)
CheckSize ==
  /\ main = "size" /\ ~create
  /\ \/ /\ file.size = "full"
        /\ main' = "map"
        /\ UNCHANGED <<fds, handler, used>>
     \/ /\ file.size # "full"
        /\ main' = "idle"
        /\ fds' = CloseFd(handler.mmapFd_)
        /\ UNCHANGED <<handler, used>>
     \/ GiveUp
  /\ UNCHANGED <<file, mapped, appMapped, create, worker, death, victim, hist>>

Mapped(a) ==
  [handler EXCEPT !.status_ = IF create THEN "PRODUCER" ELSE "CONSUMER",
                  !.rt_debugp_ = a, !.mem_attached_ = TRUE]

Map ==
  /\ main = "map"
  /\ \/ \E a \in Addresses \ (mapped \cup appMapped) :
          /\ mapped' = mapped \cup {a}
          /\ handler' = Mapped(a)
          /\ main' = IF create THEN "init" ELSE "register"
          /\ hist' = [hist EXCEPT !.stopped = FALSE]
          /\ UNCHANGED <<fds, used>>
     \/ GiveUp /\ UNCHANGED <<mapped, hist>>
  /\ UNCHANGED <<file, appMapped, create, worker, death, victim>>

(* The file of a failed ftruncate has no pages to write to.                *)
RTDBG_Init ==
  /\ main = "init"
  /\ IF Readable(handler.rt_debugp_)
     THEN /\ file' = [file EXCEPT !.active_ = FALSE, !.registered = FALSE, !.val = -1]
          /\ main' = "start"
          /\ UNCHANGED <<death, victim>>
     ELSE DieOfAccess(handler.rt_debugp_, "init", NULL) /\ UNCHANGED <<file, main>>
  /\ UNCHANGED <<mapped, appMapped, fds, handler, create, worker, used, hist>>

(* The collection is started before the registration, of a new file only,  *)
(* and after it.                                                           *)
Activate ==
  /\ main \in {"start", "started"}
  /\ file' = [file EXCEPT !.active_ = @ \/ handler.mem_attached_]
  /\ main' = IF main = "start" THEN "register" ELSE "idle"
  /\ UNCHANGED <<mapped, appMapped, fds, handler, create, worker, death, victim,
                 used, hist>>

(* A counter that is there already keeps its value.                        *)
WithCounter ==
  [file EXCEPT !.registered = TRUE, !.val = IF file.registered THEN @ ELSE -1]

(* Without a mapping the calls that register return, and the pointer to    *)
(* the counter is NULL.                                                    *)
Register ==
  /\ main = "register"
  /\ IF handler.mem_attached_
     THEN /\ file' = WithCounter
          /\ handler' = [handler EXCEPT !.event_cnt = handler.rt_debugp_]
     ELSE /\ handler' = [handler EXCEPT !.event_cnt = NULL]
          /\ UNCHANGED file
  /\ main' = "started"
  /\ UNCHANGED <<mapped, appMapped, fds, create, worker, death, victim, used, hist>>

-----------------------------------------------------------------------------
(***************************************************************************)
(* Other calls of the main thread.  Those that find no mapping return.     *)
(***************************************************************************)
RTDBG_Start ==
  /\ main = "idle"
  /\ handler.mem_attached_
  /\ file' = [file EXCEPT !.active_ = TRUE]
  /\ UNCHANGED <<process, used, hist>>

Stop ==
  /\ file' = [file EXCEPT !.active_ = FALSE]
  /\ handler' = [handler EXCEPT !.status_ = "STOPPED"]
  /\ hist' = [hist EXCEPT !.stopped = TRUE]

RTDBG_Stop ==
  /\ main = "idle"
  /\ handler.mem_attached_
  /\ Stop
  /\ UNCHANGED <<mapped, appMapped, fds, main, create, worker, death, victim, used>>

(* By way of rt_adapt.c, which stops the collection first, or directly.    *)
ExtractDebugData ==
  /\ main = "idle"
  /\ handler.mem_attached_
  /\ main' = "extract"
  /\ Stop \/ UNCHANGED <<file, handler, hist>>
  /\ UNCHANGED <<mapped, appMapped, fds, create, worker, death, victim, used>>

(* fopen may fail; then the two ASSERTs.                                   *)
Extract ==
  /\ main = "extract"
  /\ \/ Fail /\ Die("fopen", NULL) /\ UNCHANGED main
     \/ /\ handler.status_ = "PRODUCER"
        /\ Die("status", NULL)
        /\ UNCHANGED <<main, used>>
     \/ /\ handler.status_ # "PRODUCER"
        /\ main' = "idle"
        /\ UNCHANGED <<death, victim, used>>
  /\ UNCHANGED <<file, mapped, appMapped, fds, handler, create, worker, hist>>

(* RTDBG_Close does not ask whether there is a mapping.                    *)
RTDBG_Close ==
  /\ main = "idle"
  /\ handler' = [handler EXCEPT !.mem_attached_ = FALSE]
  /\ main' = "unmap"
  /\ hist' = [hist EXCEPT !.checked = {}, !.pointed = {},
                          !.misused = @ \/ ~handler.mem_attached_]
  /\ UNCHANGED <<file, mapped, appMapped, fds, create, worker, death, victim, used>>

(* munmap takes away whatever is at the address.                           *)
Unmap ==
  /\ main = "unmap"
  /\ mapped' = mapped \ {handler.rt_debugp_}
  /\ appMapped' = appMapped \ {handler.rt_debugp_}
  /\ fds' = CloseFd(handler.mmapFd_)
  /\ hist' = [hist EXCEPT !.foreign =
                \/ @ \/ handler.rt_debugp_ \in appMapped
                \/ handler.mmapFd_ \in Descriptors /\ fds[handler.mmapFd_] = "app"]
  /\ main' = "idle"
  /\ UNCHANGED <<file, handler, create, worker, death, victim, used>>

-----------------------------------------------------------------------------
(***************************************************************************)
(* Workers                                                                 *)
(***************************************************************************)
Move(t, to) == worker' = [worker EXCEPT ![t].pc = to]

(* A call that tests mem_attached_ first; what it does comes later.        *)
Call(t) ==
  /\ worker[t].pc = "idle"
  /\ handler.mem_attached_
  /\ Move(t, "inside")
  /\ hist' = [hist EXCEPT !.checked = @ \cup {t}]
  /\ UNCHANGED <<file, mapped, appMapped, fds, handler, main, create, death, victim,
                 used>>

(* A call that saves data, RTDBG_AddTrace or RTDBG_AddLog, returns if the  *)
(* collection is not active.                                               *)
IsDataCollected(t) ==
  /\ worker[t].pc = "inside"
  /\ Readable(handler.rt_debugp_) /\ ~file.active_
  /\ Move(t, "idle")
  /\ hist' = [hist EXCEPT !.checked = @ \ {t}]
  /\ UNCHANGED <<file, mapped, appMapped, fds, handler, main, create, death, victim,
                 used>>

(* One that finds it active, and those that do not ask, go on to a group.  *)
GetDebugGrp(t) ==
  /\ worker[t].pc = "inside"
  /\ IF Readable(handler.rt_debugp_) /\ file.registered
     THEN /\ Move(t, "idle")
          /\ hist' = [hist EXCEPT !.checked = @ \ {t}]
          /\ UNCHANGED <<death, victim>>
     ELSE DieInGroup("call", t) /\ UNCHANGED <<worker, hist>>
  /\ UNCHANGED <<file, mapped, appMapped, fds, handler, main, create, used>>

(* RTDBG_ProfInit has no test, RTDBG_GetTraceEntry has it too late: it     *)
(* reads the number of groups first.  Only where that goes wrong does the  *)
(* step show.                                                              *)
CallUntested(t) ==
  /\ worker[t].pc = "idle"
  /\ ~(Readable(handler.rt_debugp_) /\ file.registered)
  /\ DieInGroup("untested", t)
  /\ UNCHANGED <<file, mapped, appMapped, fds, handler, main, create, worker, used,
                 hist>>

(* RTDBG_GET_EVENT_CNTR_PTR                                                *)
TakePointer(t) ==
  /\ worker[t].pc = "idle"
  /\ worker' = [worker EXCEPT ![t].watch_dog = handler.event_cnt]
  /\ hist' = [hist EXCEPT !.pointed =
       IF handler.mem_attached_ /\ ~Registering
       THEN @ \cup {t} ELSE @ \ {t}]
  /\ UNCHANGED <<file, mapped, appMapped, fds, handler, main, create, death, victim,
                 used>>

(* *watch_dog += 1, a load and a store.                                    *)
Load(t) ==
  /\ worker[t].pc = "idle"
  /\ used.increments < MaxIncrements
  /\ used' = [used EXCEPT !.increments = @ + 1]
  /\ IF Readable(worker[t].watch_dog)
     THEN /\ worker' = [worker EXCEPT ![t].pc = "loaded", ![t].tmp = file.val]
          /\ hist' = [hist EXCEPT !.overlapped =
                        @ \/ \E u \in Workers : worker[u].pc = "loaded"]
          /\ UNCHANGED <<death, victim>>
     ELSE DieOfAccess(worker[t].watch_dog, "counter", t) /\ UNCHANGED <<worker, hist>>
  /\ UNCHANGED <<file, mapped, appMapped, fds, handler, main, create>>

Store(t) ==
  /\ worker[t].pc = "loaded"
  /\ IF Readable(worker[t].watch_dog)
     THEN /\ file' = [file EXCEPT !.val = worker[t].tmp + 1]
          /\ worker' = [worker EXCEPT ![t].pc = "idle", ![t].tmp = 0]
          /\ hist' = [hist EXCEPT !.stored = @ + 1]
          /\ UNCHANGED <<death, victim>>
     ELSE /\ DieOfAccess(worker[t].watch_dog, "counter", t)
          /\ UNCHANGED <<file, worker, hist>>
  /\ UNCHANGED <<mapped, appMapped, fds, handler, main, create, used>>

(* The application opens a file of its own, or maps one.                   *)
AppOpen ==
  /\ \E n \in Descriptors : FreeFd(n) /\ fds' = [fds EXCEPT ![n] = "app"]
  /\ UNCHANGED <<file, mapped, appMapped, handler, main, create, worker, death,
                 victim, used, hist>>
AppMap ==
  /\ \E a \in Addresses \ (mapped \cup appMapped) :
       appMapped' = appMapped \cup {a}
  /\ UNCHANGED <<file, mapped, fds, handler, main, create, worker, death, victim,
                 used, hist>>

(* The process ends, wherever it is, and is run again.                     *)
RunAgain ==
  /\ used.runs < MaxRuns
  /\ used' = [used EXCEPT !.runs = @ + 1]
  /\ mapped' = {} /\ appMapped' = {} /\ fds' = NoFds
  /\ handler' = NoHandler
  /\ main' = "idle" /\ create' = FALSE
  /\ worker' = NoWork
  /\ death' = "none" /\ victim' = NULL
  /\ hist' = [NoHistory EXCEPT !.stored = hist.stored, !.overlapped = hist.overlapped]
  /\ UNCHANGED file

Starting ==
  \/ RT_debug_init \/ Open \/ SetSize \/ CheckSize \/ Map \/ RTDBG_Init
  \/ Activate \/ Register
MainCall ==
  RTDBG_Start \/ RTDBG_Stop \/ ExtractDebugData \/ Extract \/ RTDBG_Close \/ Unmap
WorkThread(t) ==
  \/ Call(t) \/ IsDataCollected(t) \/ GetDebugGrp(t) \/ CallUntested(t)
  \/ TakePointer(t) \/ Load(t) \/ Store(t)

Next ==
  \/ Alive /\ (Starting \/ MainCall \/ AppOpen \/ AppMap)
  \/ Alive /\ \E t \in Workers : WorkThread(t)
  \/ RunAgain

Spec == Init /\ [][Next]_vars

-----------------------------------------------------------------------------
(* Types of the variables.                                                 *)
TypeOK ==
  /\ file \in [size : {"none", "empty", "full"}, active_ : BOOLEAN,
               registered : BOOLEAN, val : -1 .. MaxIncrements]
  /\ mapped \subseteq Addresses /\ appMapped \subseteq Addresses
  /\ fds \in [Descriptors -> {"free", "app", "lib"}]
  /\ handler \in [status_ : {"INIT", "PRODUCER", "CONSUMER", "STOPPED"},
                  mem_attached_ : BOOLEAN, rt_debugp_ : Addresses \cup {NULL},
                  mmapFd_ : Descriptors \cup {-1}, event_cnt : Addresses \cup {NULL}]
  /\ main \in {"idle", "open", "size", "map", "init", "start", "register",
               "started", "extract", "unmap"}
  /\ create \in BOOLEAN
  /\ worker \in [Workers -> [pc : {"idle", "inside", "loaded"},
                             watch_dog : Addresses \cup {NULL},
                             tmp : -1 .. MaxIncrements]]
  /\ death \in {"none", "assert", "bus", "init", "call", "untested", "group",
                "counter", "fopen", "status"}
  /\ victim \in Workers \cup {NULL}
  /\ hist.checked \subseteq Workers /\ hist.pointed \subseteq Workers
  /\ hist.stored \in 0 .. MaxIncrements

(* Whatever fails while the file is mapped, closed and mapped again, no    *)
(* access of the library goes wrong but those RTDBG_Close leaves in the    *)
(* lurch and those that come too early: a call dies for want of a mapping  *)
(* only if RTDBG_Close began after its test of mem_attached_, a worker     *)
(* only of a pointer it took before, or when there was none, untested      *)
(* calls only without a mapping; a mapped file without pages means that    *)
(* ftruncate failed; and the ASSERT of GetDebugGrp fails only while a      *)
(* start of the process has mapped the file and not yet registered its     *)
(* groups, whatever file an earlier run or a failed start left.            *)
FaultsExplained ==
  /\ death = "call" => victim \notin hist.checked
  /\ death = "counter" => victim \notin hist.pointed
  /\ death = "untested" => ~handler.mem_attached_
  /\ death = "bus" => hist.short
  /\ death = "group" => Registering
  /\ death # "init"

(* The ASSERT on status_ stops an extraction only if the process created   *)
(* the file and never stopped the collection since: a start after a stop   *)
(* leaves status_ as it is.                                                *)
ExtractionAllowed == death = "status" => ~hist.stopped

(* Every death of the process is one of these.                             *)
DeathsExplained == TypeOK /\ FaultsExplained /\ ExtractionAllowed

(* Between calls of the main thread the library has one mapping and one    *)
(* descriptor if mem_attached_, and none if not, whichever system calls    *)
(* failed: no path of a failed start leaks.                                *)
LibFds == {n \in Descriptors : fds[n] = "lib"}
NothingLeaked ==
  Alive /\ main = "idle" =>
    /\ mapped = IF handler.mem_attached_ THEN {handler.rt_debugp_} ELSE {}
    /\ LibFds = IF handler.mem_attached_ THEN {handler.mmapFd_} ELSE {}

(* RTDBG_Close closes a descriptor of the application, or takes away its   *)
(* memory, only if it was once called without a mapping.                   *)
DescriptorsKept == hist.foreign => hist.misused

(* The library keeps hold of what it opened, and off what it did not open. *)
ResourcesKept == NothingLeaked /\ DescriptorsKept

(* The counter has what was added to it unless two increments overlapped,  *)
(* and never more, across failed starts and new runs of the process.       *)
CounterExact ==
  file.registered =>
    /\ file.val <= hist.stored - 1
    /\ ~hist.overlapped => file.val = hist.stored - 1
=============================================================================
