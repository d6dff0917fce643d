------------------------------ MODULE LogGroup ------------------------------
(***************************************************************************)
(* CLog_group (rt_debug_cpp/src/rt_debug_types.h): AddLog and GetLogEntry  *)
(* as clients of the multi-threaded FIFO of module MemFifo.  Loggers are   *)
(* threads of the application, Readers are threads of the process that     *)
(* extracts logs, at run time or after the application crashed.  The group *)
(* and its locks live in shared memory and survive the crash.              *)
(***************************************************************************)
EXTENDS Integers, Sequences, FiniteSets

CONSTANTS
  Loggers, Readers,
  NoThread, NoEntry,
  number_chunks_,    \* LOG_GROUP_BUFSIZE
  MaxLogs,           \* bound: AddLog calls of each logger
  MaxClock,          \* bound: AddLog calls of all of them
  MayCrash           \* may the application crash

ASSUME RolesAssumption == Loggers \cap Readers = {}
ASSUME FifoAssumption ==
  /\ NoThread \notin Loggers \cup Readers
  /\ number_chunks_ \in Nat /\ number_chunks_ >= 2
ASSUME BoundsAssumption ==
  MaxLogs \in Nat /\ MaxClock \in Nat /\ MayCrash \in BOOLEAN

VARIABLES
  wr_ind_, rd_ind_, in_lock_, out_lock_, chunks, pc, data, ok,
  call,        \* call[t]: which call of the log group t is in
  tmp_entry,   \* tmp_entry[t]: the entry logger t is adding
  clock,       \* CLOCK_MONOTONIC
  crashed,     \* the application is gone
  added,       \* entries whose AddLog returned
  dropped,     \* entries AddLog discarded to make room
  delivered    \* entries GetLogEntry returned, in the order it did

fifoVars == <<wr_ind_, rd_ind_, in_lock_, out_lock_, chunks, pc, data, ok>>
history == <<added, dropped, delivered>>
vars == <<fifoVars, call, tmp_entry, clock, crashed, history>>

Threads == Loggers \cup Readers

(* LogEntry: its text is told apart by who logged it and when. *)
LogEntries == [thread : Loggers, linux_time : 1 .. MaxClock]

(* Zeroed memory is no entry: the clock has run since the system booted.   *)
ASSUME EntriesAssumption == NoEntry \notin LogEntries

Fifo == INSTANCE MemFifo WITH Entries <- LogEntries

Init ==
  /\ Fifo!Init
  /\ call = [t \in Threads |-> "none"]
  /\ tmp_entry = [t \in Loggers |-> NoEntry]
  /\ clock = 0
  /\ crashed = FALSE
  /\ added = {}
  /\ dropped = {}
  /\ delivered = << >>

(***************************************************************************)
(* Variants of definitions below that a plausible slip would give.         *)
(***************************************************************************)
AddLogGivesUp(t) ==
  /\ call[t] = "adding" /\ pc[t] = "idle" /\ ~ok[t]
  /\ call' = [call EXCEPT ![t] = "none"]
  /\ added' = added \cup {tmp_entry[t]}
  /\ UNCHANGED <<fifoVars, tmp_entry, clock, crashed, dropped, delivered>>
AddLogDropsAgain(t) ==
  /\ call[t] = "dropping" /\ pc[t] = "idle"
  /\ dropped' = IF ok[t] THEN dropped \cup {data[t][1]} ELSE dropped
  /\ IF ok[t] THEN Fifo!PopCall(t) /\ UNCHANGED call
     ELSE /\ Fifo!PushCall(t, tmp_entry[t])
          /\ call' = [call EXCEPT ![t] = "adding"]
  /\ UNCHANGED <<tmp_entry, clock, crashed, added, delivered>>
AddLogPushesPopped(t) ==
  /\ call[t] = "dropping" /\ pc[t] = "idle"
  /\ Fifo!PushCall(t, IF ok[t] THEN data[t][1] ELSE tmp_entry[t])
  /\ call' = [call EXCEPT ![t] = "adding"]
  /\ UNCHANGED <<tmp_entry, clock, crashed, history>>
AddLogNeverDrops(t) ==
  /\ call[t] = "adding" /\ pc[t] = "idle" /\ ~ok[t]
  /\ Fifo!PushCall(t, tmp_entry[t])
  /\ UNCHANGED <<call, tmp_entry, clock, crashed, history>>

-----------------------------------------------------------------------------
Running(t) == t \in Loggers => ~crashed

(***************************************************************************)
(* AddLog: stamp the entry, then push it; while the FIFO refuses it, pop   *)
(* the oldest entry into a dummy and push again.                           *)
(***************************************************************************)
AddLogCall(t) ==
  /\ call[t] = "none"
  /\ Cardinality({e \in added : e.thread = t}) < MaxLogs
  /\ clock < MaxClock
  /\ clock' = clock + 1
  /\ LET e == [thread |-> t, linux_time |-> clock + 1] IN
       /\ tmp_entry' = [tmp_entry EXCEPT ![t] = e]
       /\ Fifo!PushCall(t, e)
  /\ call' = [call EXCEPT ![t] = "adding"]
  /\ UNCHANGED <<crashed, history>>

AddLogDrop(t) ==
  /\ call[t] = "adding"
  /\ ~ok[t]
  /\ Fifo!PopCall(t)
  /\ call' = [call EXCEPT ![t] = "dropping"]
  /\ UNCHANGED <<tmp_entry, clock, crashed, history>>

AddLogRetry(t) ==
  /\ call[t] = "dropping"
  /\ Fifo!PushCall(t, tmp_entry[t])
  /\ call' = [call EXCEPT ![t] = "adding"]
  /\ dropped' = IF ok[t] THEN dropped \cup {data[t][1]} ELSE dropped
  /\ UNCHANGED <<tmp_entry, clock, crashed, added, delivered>>

AddLogReturn(t) ==
  /\ call[t] = "adding"
  /\ pc[t] = "idle"
  /\ ok[t]
  /\ call' = [call EXCEPT ![t] = "none"]
  /\ added' = added \cup {tmp_entry[t]}
  /\ UNCHANGED <<fifoVars, tmp_entry, clock, crashed, dropped, delivered>>

(***************************************************************************)
(* GetLogEntry: pop the oldest entry, report whether there was one.        *)
(***************************************************************************)
GetLogEntryCall(t) ==
  /\ call[t] = "none"
  /\ Fifo!PopCall(t)
  /\ call' = [call EXCEPT ![t] = "reading"]
  /\ UNCHANGED <<tmp_entry, clock, crashed, history>>

GetLogEntryReturn(t) ==
  /\ call[t] = "reading"
  /\ pc[t] = "idle"
  /\ call' = [call EXCEPT ![t] = "none"]
  /\ delivered' = IF ok[t] THEN Append(delivered, data[t][1]) ELSE delivered
  /\ UNCHANGED <<fifoVars, tmp_entry, clock, crashed, added, dropped>>

FifoStep(t) ==
  /\ Fifo!Step(t)
  /\ UNCHANGED <<call, tmp_entry, clock, crashed, history>>

(* The threads of the application stop where they are. *)
Crash ==
  /\ MayCrash
  /\ ~crashed
  /\ crashed' = TRUE
  /\ UNCHANGED <<fifoVars, call, tmp_entry, clock, history>>

-----------------------------------------------------------------------------
LoggerStep(t) ==
  /\ Running(t)
  /\ AddLogDrop(t) \/ AddLogRetry(t) \/ AddLogReturn(t) \/ FifoStep(t)

ReaderStep(t) == GetLogEntryReturn(t) \/ FifoStep(t)

Next ==
  \/ \E t \in Loggers : LoggerStep(t) \/ (Running(t) /\ AddLogCall(t))
  \/ \E t \in Readers : ReaderStep(t) \/ GetLogEntryCall(t)
  \/ Crash

Spec == Init /\ [][Next]_vars

(* A thread that entered a call keeps running until it returns or its      *)
(* process crashes; no thread has to make a call.                          *)
FairSpec ==
  /\ Spec
  /\ \A t \in Loggers : WF_vars(LoggerStep(t))
  /\ \A t \in Readers : WF_vars(ReaderStep(t))

-----------------------------------------------------------------------------
Capacity == number_chunks_ - 2
InFifo == {Fifo!Contents[i][1] : i \in DOMAIN Fifo!Contents}

(* The entry a pop of t has taken out of the FIFO and its caller has not   *)
(* yet dealt with.                                                         *)
InHand(t) ==
  IF /\ call[t] \in {"dropping", "reading"}
     /\ Fifo!AbstractOp(t) \in {"return", "idle"}
     /\ ok[t]
  THEN {Fifo!AbstractVal(t)[1]}
  ELSE {}

Quiet == \A t \in Threads : call[t] = "none"
DeliveredSet == {delivered[i] : i \in DOMAIN delivered}

(* Every variable stays within its type.                                   *)
TypeOK ==
  /\ Fifo!TypeOK
  /\ call \in [Threads -> {"none", "adding", "dropping", "reading"}]
  /\ tmp_entry \in [Loggers -> LogEntries \cup {NoEntry}]
  /\ clock \in 0 .. MaxClock
  /\ crashed \in BOOLEAN
  /\ added \subseteq LogEntries
  /\ dropped \subseteq LogEntries
  /\ delivered \in Seq(LogEntries)

(* A log that was added is in the FIFO, delivered, or discarded by an      *)
(* AddLog; one being popped is in a single pair of hands.  A crash between *)
(* any two steps of any logger takes nothing out of the FIFO.              *)
NothingVanishes ==
  added \subseteq InFifo \cup DeliveredSet \cup dropped
                 \cup UNION {InHand(t) : t \in Threads}

(* No log is delivered twice, or delivered and discarded too.              *)
DeliveredOnce ==
  /\ Cardinality(DeliveredSet) = Len(delivered)
  /\ DeliveredSet \cap dropped = {}
  /\ (DeliveredSet \cup dropped) \cap InFifo = {}

(* Every log is accounted for at every step: it is in one place at a time, *)
(* however drops, pushes, reads and a crash interleave.                    *)
LogsAccounted == TypeOK /\ NothingVanishes /\ DeliveredOnce

(* The logs of one thread are delivered in the order it added them, however *)
(* its pushes interleave with pushes and drops of the others.               *)
ThreadOrderKept ==
  \A i, j \in DOMAIN delivered :
    i < j /\ delivered[i].thread = delivered[j].thread
    => delivered[i].linux_time < delivered[j].linux_time

(* Only the oldest are discarded: no log of a thread is gone while an older *)
(* one of the same thread stays in the FIFO.                                *)
DropsOldestFirst ==
  \A d \in (added \cup dropped) \ InFifo, e \in InFifo :
    d.thread = e.thread => d.linux_time < e.linux_time

(* What readers and AddLog take out of the FIFO leaves it in the order of  *)
(* each thread.                                                            *)
OrderKept == ThreadOrderKept /\ DropsOldestFirst

(* Room is made only when there is none: after logs were discarded and the *)
(* calls have returned, the FIFO is full but for what readers took out.    *)
(* Loggers that found it full together do not empty it between them.       *)
DropsOnlyWhenFull ==
  Quiet /\ ~crashed /\ dropped # {} => Fifo!Count + Len(delivered) >= Capacity

(***************************************************************************)
(* Refinement of the log buffer: an addition takes effect when its push    *)
(* does, a discard and a read when their pop does.                         *)
(***************************************************************************)
PopDone(t) == Fifo!AbstractOp(t) # "pop"

Doing(t) ==
  CASE call[t] = "none" -> "idle"
    [] call[t] = "adding" -> IF Fifo!AbstractOp(t) = "push" THEN "adding"
                             ELSE IF ok[t] THEN "added" ELSE "full"
    [] call[t] = "dropping" -> IF PopDone(t) THEN "adding" ELSE "full"
    [] call[t] = "reading" -> IF PopDone(t) THEN "read" ELSE "reading"

Item(t) ==
  IF t \in Loggers THEN tmp_entry[t]
  ELSE IF InHand(t) = {} THEN NoEntry ELSE Fifo!AbstractVal(t)[1]

kept == [i \in DOMAIN Fifo!Contents |-> Fifo!Contents[i][1]]
doing == [t \in Threads |-> Doing(t)]
item == [t \in Threads |-> Item(t)]
discarded == dropped \cup UNION {InHand(t) : t \in Loggers}

Buffer == INSTANCE LogBuffer WITH Logs <- LogEntries, NoLog <- NoEntry

(* AddLog and GetLogEntry, with their loops, locks, copies and crashes,    *)
(* implement a buffer of the latest logs whose operations take effect at   *)
(* one instant; each log that is discarded was the oldest, and whoever     *)
(* discards it found the group full and has not discarded one since.       *)
ImplementsLogBuffer == Buffer!Spec

(* AddLog returns: the loop that drops and retries ends, because another   *)
(* logger must complete an AddLog each time the room made is taken.  The   *)
(* readers must pause now and then: the spinlock is not fair, and a reader *)
(* that polls without end can keep a logger from popping.                  *)
AddLogReturns ==
  <>[](\A t \in Readers : call[t] = "none")
    => \A t \in Loggers : call[t] = "adding" ~> (call[t] = "none" \/ crashed)

(* GetLogEntry returns, whatever the loggers do, unless they crash.        *)
GetLogEntryReturns ==
  \A t \in Readers : call[t] = "reading" ~> (call[t] = "none" \/ crashed)

(* README.md: the collected data "survise the application crush and may be *)
(* restored and checked after it".  After the crash a reader still gets    *)
(* its answer.                                                             *)
LogsReadableAfterCrash ==
  \A t \in Readers :
    crashed /\ call[t] = "reading" ~> call[t] = "none"
=============================================================================
