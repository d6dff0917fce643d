---------------------------- MODULE DebugHandler ----------------------------
(***************************************************************************)
(* The extracting side of CDebugHandler (rt_debug_cpp/src/rt_debug_main.h  *)
(* and .cc): RTDBG_GetLog and RTDBG_GetTraceEntry merge the logs and the   *)
(* traces of all groups in the order of time, keeping one entry of each    *)
(* group in tables of the extracting process, while the application goes   *)
(* on adding.  An entry gets its time stamp in one step and appears in the *)
(* FIFO or the ring of its group in another.  Taking it out is one step    *)
(* here: module MemFifo refines a queue where it is, and module TraceGroup *)
(* shows when a ring returns the earliest of its traces.  A full FIFO, a   *)
(* torn slot and a crash of the application belong to those modules and to *)
(* LogGroup.                                                               *)
(***************************************************************************)
EXTENDS Integers, Sequences, FiniteSets, SequencesExt

CONSTANTS
  Adders,       \* threads of the application
  num_groups,   \* groups allocated
  Scenarios     \* bounds; one of them holds of a behaviour:
                \*   kinds     what the threads add: "log", "trace"
                \*   masks     sets of groups a monitor calls RTDBG_GetLog for
                \*   grp_log   is RT_debug_get_grp_log called
                \*   entries   time stamps all threads take
                \*   starts    calls of RTDBG_Start
                \*   extracts  extractions of one extracting process
                \*   restarts  restarts of the extracting process

Groups == 0 .. num_groups - 1

ASSUME SizesAssumption ==
  /\ num_groups \in Nat
  /\ Scenarios \subseteq
       [kinds : SUBSET {"log", "trace"}, masks : SUBSET SUBSET Groups,
        grp_log : BOOLEAN, entries : Nat, starts : Nat, extracts : Nat, restarts : Nat]

VARIABLES
  limit,          \* the scenario; it never changes
  (* shared memory *)
  active_,
  logs,           \* logs[g]: FIFO of group g, the time stamps
  traces,         \* traces[g]: ring of group g, the time stamps
  (* application *)
  pc,             \* pc[t]: "idle", or the call of t that is past its check
  linux_time,     \* linux_time[t]: stamp of the entry t adds, 0 before it has one
  clock,          \* CLOCK_MONOTONIC, advanced by each time stamp
  (* extracting process *)
  grp_logs_last,  \* grp_logs_last[g]: valid and linux_time
  grp_trace_res_, \* grp_trace_res_[g]: status and lin_time
  job,            \* what the process is doing
  mask, null_time,\* arguments of the RTDBG_GetLog under way
  ind, min_index, min_time,
  up,             \* the process has not been killed by its own call
  starts, extracts, restarts,
  (* history *)
  logged,         \* logs that were put in a FIFO
  returned,       \* results of RTDBG_GetLog of groups in the mask, in order
  strays,         \* results of groups outside the mask
  printed,        \* traces the current extraction printed, in order
  present,        \* [logs, traces]: what was in shared memory when it began
  forgotten,      \* logs that were in the table when it was cleared
  slow            \* stamps overtaken by a later reading of the clock

queues == <<logs, traces>>
appVars == <<pc, linux_time>>
callVars == <<mask, null_time, ind, min_index, min_time>>
tables == <<grp_logs_last, grp_trace_res_>>
bounds == <<starts, extracts, restarts>>
history == <<logged, returned, strays, printed, present, forgotten, slow>>
vars == <<limit, active_, queues, appVars, clock, tables, job, callVars, up,
          bounds, history>>

(* The handler is a global object: its memory is zero when it starts, and  *)
(* DATA_IND is 0.  A trace with time stamp 0 stands for the empty string.  *)
NoLogs == [g \in Groups |-> [valid |-> FALSE, linux_time |-> 0]]
NoTraces == [g \in Groups |-> [status |-> "DATA_IND", lin_time |-> 0]]

Init ==
  /\ limit \in Scenarios
  /\ active_ = TRUE
  /\ logs = [g \in Groups |-> << >>]
  /\ traces = [g \in Groups |-> {}]
  /\ pc = [t \in Adders |-> "idle"]
  /\ linux_time = [t \in Adders |-> 0]
  /\ clock = 1
  /\ grp_logs_last = NoLogs
  /\ grp_trace_res_ = NoTraces
  /\ job = "idle"
  /\ mask = {} /\ null_time = FALSE
  /\ ind = 0 /\ min_index = -1 /\ min_time = 0
  /\ up = TRUE
  /\ starts = 0 /\ extracts = 0 /\ restarts = 0
  /\ logged = {} /\ returned = << >> /\ strays = {} /\ printed = << >>
  /\ present = [logs |-> {}, traces |-> {}]
  /\ forgotten = {} /\ slow = {}

-----------------------------------------------------------------------------
(***************************************************************************)
(* The application.  RTDBG_AddLog and RTDBG_AddTrace check active_ once,   *)
(* read the clock later and put the entry where it belongs after that.     *)
(***************************************************************************)
Pending == {linux_time[t] : t \in Adders} \ {0}

AddCall(t, what) ==
  /\ pc[t] = "idle"
  /\ active_
  /\ pc' = [pc EXCEPT ![t] = what]
  /\ UNCHANGED <<limit, active_, queues, linux_time, clock, tables, job, callVars, up,
                 bounds, history>>

Stamp(t) ==
  /\ pc[t] # "idle" /\ linux_time[t] = 0
  /\ clock <= limit.entries
  /\ linux_time' = [linux_time EXCEPT ![t] = clock]
  /\ clock' = clock + 1
  /\ slow' = slow \cup Pending
  /\ UNCHANGED <<limit, active_, queues, pc, tables, job, callVars, up, bounds,
                 logged, returned, strays, printed, present, forgotten>>

Put(t, g) ==
  /\ linux_time[t] # 0
  /\ \/ /\ pc[t] = "log"
        /\ logs' = [logs EXCEPT ![g] = Append(@, linux_time[t])]
        /\ logged' = logged \cup {linux_time[t]}
        /\ UNCHANGED traces
     \/ /\ pc[t] = "trace"
        /\ traces' = [traces EXCEPT ![g] = @ \cup {linux_time[t]}]
        /\ UNCHANGED <<logs, logged>>
  /\ pc' = [pc EXCEPT ![t] = "idle"]
  /\ linux_time' = [linux_time EXCEPT ![t] = 0]
  /\ UNCHANGED <<limit, active_, clock, tables, job, callVars, up, bounds, returned,
                 strays, printed, present, forgotten, slow>>

(* RTDBG_Start, by any process.                                            *)
RTDBG_Start ==
  /\ starts < limit.starts
  /\ starts' = starts + 1
  /\ active_' = TRUE
  /\ UNCHANGED <<limit, queues, appVars, clock, tables, job, callVars, up, extracts,
                 restarts, history>>

(***************************************************************************)
(* Variants of definitions below that a plausible slip would give.         *)
(***************************************************************************)
EarlierOrFirst(time) == min_index = -1
ScanStopsEarly == ind = num_groups - 1
RefillAlways(g) == g \in mask

-----------------------------------------------------------------------------
(* Both merges look at the groups in turn for the earliest entry, against  *)
(* the time at which the call began.                                       *)
BeginScan ==
  /\ ind' = 0 /\ min_index' = -1 /\ min_time' = clock
  /\ slow' = slow \cup Pending
Earlier(time) == time < min_time
(* Arguments and local variables are gone when a call returns.             *)
EndCall ==
  /\ mask' = {} /\ null_time' = FALSE
  /\ ind' = 0 /\ min_index' = -1 /\ min_time' = 0
ScanEnds == ind = num_groups
Consider(g, time) ==
  IF Earlier(time) THEN min_time' = time /\ min_index' = g
                   ELSE UNCHANGED <<min_time, min_index>>

Resting == up /\ job \in {"idle", "extracted"}

(***************************************************************************)
(* RTDBG_Stop                                                              *)
(***************************************************************************)
Cached == {grp_logs_last[g].linux_time : g \in {h \in Groups : grp_logs_last[h].valid}}

InitExtractTables ==
  /\ grp_logs_last' = [g \in Groups |-> [grp_logs_last[g] EXCEPT !.valid = FALSE]]
  /\ forgotten' = forgotten \cup Cached

RTDBG_Stop ==
  /\ Resting
  /\ InitExtractTables
  /\ active_' = FALSE
  /\ job' = "idle"
  /\ UNCHANGED <<limit, queues, appVars, clock, grp_trace_res_, callVars, up, bounds,
                 logged, returned, strays, printed, present, slow>>

(***************************************************************************)
(* RTDBG_GetLog                                                            *)
(***************************************************************************)
GetLogCall(m, null) ==
  /\ BeginScan
  /\ mask' = m
  /\ null_time' = null

(* Called by a monitor at any time.                                        *)
Monitor(m, null) ==
  /\ Resting
  /\ GetLogCall(m, null)
  /\ job' = "monitor"
  /\ UNCHANGED <<limit, active_, queues, appVars, clock, tables, up, bounds, logged,
                 returned, strays, printed, present, forgotten>>

Refill(g) == g \in mask /\ ~grp_logs_last[g].valid

(* The table gets the oldest log of the group, if there is one.            *)
GetLogRefill ==
  /\ job \in {"monitor", "logs"}
  /\ ~ScanEnds
  /\ Refill(ind)
  /\ ind' = ind + 1
  /\ IF logs[ind] # << >>
     THEN /\ grp_logs_last' = [grp_logs_last EXCEPT ![ind] =
                                 [valid |-> TRUE, linux_time |-> Head(logs[ind])]]
          /\ logs' = [logs EXCEPT ![ind] = Tail(@)]
          /\ Consider(ind, Head(logs[ind]))
     ELSE UNCHANGED <<grp_logs_last, logs, min_time, min_index>>
  /\ UNCHANGED <<limit, active_, traces, appVars, clock, grp_trace_res_, job, mask,
                 null_time, up, bounds, history>>

(* Otherwise the entry of the table is considered as it is.                *)
GetLogCached ==
  /\ job \in {"monitor", "logs"}
  /\ ~ScanEnds
  /\ ~Refill(ind)
  /\ ind' = ind + 1
  /\ Consider(ind, grp_logs_last[ind].linux_time)
  /\ UNCHANGED <<limit, active_, queues, appVars, clock, tables, job, mask, null_time,
                 up, bounds, history>>

Release(g) == grp_logs_last' = [grp_logs_last EXCEPT ![g].valid = FALSE]

(* The result is copied out; the extraction then asks for the next one.    *)
GetLogReturn ==
  /\ job \in {"monitor", "logs"}
  /\ ScanEnds
  /\ min_index # -1
  /\ ~null_time
  /\ Release(min_index)
  /\ LET time == grp_logs_last[min_index].linux_time IN
     IF min_index \in mask
     THEN /\ returned' = Append(returned, [mask |-> mask, linux_time |-> time])
          /\ UNCHANGED strays
     ELSE strays' = strays \cup {time} /\ UNCHANGED returned
  /\ IF job = "logs"
     THEN GetLogCall(Groups, FALSE) /\ UNCHANGED job
     ELSE job' = "idle" /\ EndCall /\ UNCHANGED slow
  /\ UNCHANGED <<limit, active_, queues, appVars, clock, grp_trace_res_, up, bounds,
                 logged, printed, present, forgotten>>

(* RT_debug_get_grp_log passes NULL for linux_time, which is written to.   *)
GetLogDies ==
  /\ job = "monitor"
  /\ ScanEnds
  /\ min_index # -1
  /\ null_time
  /\ up' = FALSE
  /\ UNCHANGED <<limit, active_, queues, appVars, clock, tables, job, callVars, bounds,
                 history>>

GetLogNone ==
  /\ job \in {"monitor", "logs"}
  /\ ScanEnds
  /\ min_index = -1
  /\ job' = IF job = "logs" THEN "extracted" ELSE "idle"
  /\ EndCall
  /\ UNCHANGED <<limit, active_, queues, appVars, clock, tables, up, bounds, history>>

(***************************************************************************)
(* RT_debug_ExtractDebugData: stop, print the traces, then the logs.       *)
(***************************************************************************)
ExtractDebugData ==
  /\ Resting
  /\ extracts < limit.extracts
  /\ extracts' = extracts + 1
  /\ InitExtractTables
  /\ active_' = FALSE
  /\ job' = "traces"
  /\ printed' = << >>
  /\ present' = [logs |-> UNION {Range(logs[g]) : g \in Groups},
                 traces |-> UNION {traces[g] : g \in Groups}]
  /\ UNCHANGED <<limit, queues, appVars, clock, grp_trace_res_, callVars, up, starts,
                 restarts, logged, returned, strays, slow>>

(* RTDBG_GetTraceEntry refuses while data is collected.                    *)
GetTraceEntryCall ==
  /\ job = "traces"
  /\ IF active_ THEN job' = "logs" /\ GetLogCall(Groups, FALSE)
                ELSE job' = "scan" /\ BeginScan /\ UNCHANGED <<mask, null_time>>
  /\ UNCHANGED <<limit, active_, queues, appVars, clock, tables, up, bounds, logged,
                 returned, strays, printed, present, forgotten>>

Earliest(S) == CHOOSE x \in S : \A y \in S : x <= y

(* A group's table entry is refilled when the last one was handed out, and *)
(* the group is given up for good when its ring has none.                  *)
GetTraceEntryGroup ==
  /\ job = "scan"
  /\ ~ScanEnds
  /\ ind' = ind + 1
  /\ CASE grp_trace_res_[ind].status = "TRACE_EMPTY_DATA" ->
            UNCHANGED <<traces, grp_trace_res_, min_time, min_index>>
       [] grp_trace_res_[ind].status = "DATA_IND" ->
            /\ Consider(ind, grp_trace_res_[ind].lin_time)
            /\ UNCHANGED <<traces, grp_trace_res_>>
       [] grp_trace_res_[ind].status = "NO_DATA_IND" /\ traces[ind] = {} ->
            /\ grp_trace_res_' =
                 [grp_trace_res_ EXCEPT ![ind].status = "TRACE_EMPTY_DATA"]
            /\ UNCHANGED <<traces, min_time, min_index>>
       [] OTHER ->
            LET x == Earliest(traces[ind]) IN
            /\ grp_trace_res_' = [grp_trace_res_ EXCEPT ![ind] =
                                    [status |-> "DATA_IND", lin_time |-> x]]
            /\ traces' = [traces EXCEPT ![ind] = @ \ {x}]
            /\ Consider(ind, x)
  /\ UNCHANGED <<limit, active_, logs, appVars, clock, grp_logs_last, job, mask,
                 null_time, up, bounds, history>>

GetTraceEntryReturn ==
  /\ job = "scan"
  /\ ScanEnds
  /\ min_index # -1
  /\ job' = "traces"
  /\ printed' = Append(printed, grp_trace_res_[min_index].lin_time)
  /\ grp_trace_res_' = [grp_trace_res_ EXCEPT ![min_index].status = "NO_DATA_IND"]
  /\ EndCall
  /\ UNCHANGED <<limit, active_, queues, appVars, clock, grp_logs_last, up, bounds,
                 logged, returned, strays, present, forgotten, slow>>

(* No trace is left: the logs follow.                                      *)
GetTraceEntryNone ==
  /\ job = "scan"
  /\ ScanEnds
  /\ min_index = -1
  /\ job' = "logs"
  /\ GetLogCall(Groups, FALSE)
  /\ UNCHANGED <<limit, active_, queues, appVars, clock, tables, up, bounds, logged,
                 returned, strays, printed, present, forgotten>>

(* A new extracting process, its tables zero; the old one had exited or    *)
(* was killed wherever it was.                                             *)
Restart ==
  /\ restarts < limit.restarts
  /\ restarts' = restarts + 1
  /\ grp_logs_last' = NoLogs
  /\ grp_trace_res_' = NoTraces
  /\ forgotten' = forgotten \cup Cached
  /\ job' = "idle"
  /\ up' = TRUE
  /\ extracts' = 0
  /\ EndCall
  /\ printed' = << >>
  /\ present' = [logs |-> {}, traces |-> {}]
  /\ UNCHANGED <<limit, active_, queues, appVars, clock, starts, logged, returned,
                 strays, slow>>

-----------------------------------------------------------------------------
AppNext == \E t \in Adders :
  \/ \E what \in limit.kinds : AddCall(t, what)
  \/ Stamp(t)
  \/ \E g \in Groups : Put(t, g)

ExtractorStep ==
  /\ up
  /\ \/ GetLogRefill \/ GetLogCached \/ GetLogReturn \/ GetLogDies \/ GetLogNone
     \/ GetTraceEntryCall \/ GetTraceEntryGroup
     \/ GetTraceEntryReturn \/ GetTraceEntryNone

ExtractorCall ==
  \/ RTDBG_Stop \/ ExtractDebugData
  \/ \E m \in limit.masks : Monitor(m, FALSE)
  \/ limit.grp_log /\ \E g \in Groups : Monitor({g}, TRUE)

Next == AppNext \/ RTDBG_Start \/ ExtractorStep \/ ExtractorCall \/ Restart

Spec == Init /\ [][Next]_vars

-----------------------------------------------------------------------------
Stamps == 1 .. limit.entries
InFifos == UNION {Range(logs[g]) : g \in Groups}
InRings == UNION {traces[g] : g \in Groups}
Returned == {returned[i].linux_time : i \in DOMAIN returned}

(* Types of the variables.                                                 *)
TypeOK ==
  /\ active_ \in BOOLEAN /\ up \in BOOLEAN /\ null_time \in BOOLEAN
  /\ logs \in [Groups -> Seq(Stamps)]
  /\ traces \in [Groups -> SUBSET Stamps]
  /\ limit \in Scenarios /\ pc \in [Adders -> {"idle"} \cup limit.kinds]
  /\ linux_time \in [Adders -> Stamps \cup {0}]
  /\ clock \in 1 .. limit.entries + 1
  /\ grp_logs_last \in [Groups -> [valid : BOOLEAN, linux_time : Stamps \cup {0}]]
  /\ grp_trace_res_ \in
       [Groups -> [status : {"DATA_IND", "NO_DATA_IND", "TRACE_EMPTY_DATA"},
                   lin_time : Stamps \cup {0}]]
  /\ job \in {"idle", "monitor", "traces", "scan", "logs", "extracted"}
  /\ mask \in SUBSET Groups
  /\ ind \in 0 .. num_groups /\ min_index \in Groups \cup {-1}
  /\ min_time \in 0 .. limit.entries + 1
  /\ present \in [logs : SUBSET Stamps, traces : SUBSET Stamps]
  /\ logged \subseteq Stamps /\ strays \subseteq Stamps \cup {0}
  /\ forgotten \subseteq Stamps /\ slow \subseteq Stamps

(* A log is in one place at a time: never returned twice to calls that ask *)
(* for its group, and never returned or forgotten while it is in a FIFO or *)
(* in the table.  A call for other groups may return it too, or an entry   *)
(* that was never filled; one that asks for the group gets a log that was  *)
(* put there.                                                              *)
LogsReturnedOnce ==
  /\ IsInjective([i \in DOMAIN returned |-> returned[i].linux_time])
  /\ Returned \subseteq logged
  /\ Cached \cap InFifos = {}
  /\ (Returned \cup forgotten \cup strays) \cap (Cached \cup InFifos) = {}
  /\ Returned \cap forgotten = {}

(* Whatever groups the calls ask for, a log leaves its FIFO and the table  *)
(* only as a result or when the table is cleared: a call for some groups   *)
(* takes nothing from the others.                                          *)
NothingLost == logged \subseteq InFifos \cup Cached \cup Returned \cup strays \cup forgotten

(* Every log is accounted for: in one place at a time, and in some place.  *)
LogsAccounted == TypeOK /\ LogsReturnedOnce /\ NothingLost

(* However its calls interleave with the application, and with calls for   *)
(* single groups, RTDBG_GetLog over all groups returns a log after one     *)
(* with a later stamp only when a later reading of the clock overtook it   *)
(* before it reached its FIFO.                                             *)
LogsEarliestFirst ==
  \A i, j \in DOMAIN returned :
    /\ i < j /\ returned[i].mask = Groups
    /\ returned[j].linux_time < returned[i].linux_time
    => returned[j].linux_time \in slow

(* The same of the traces an extraction prints.  Empty entries (0) are     *)
(* left out.                                                               *)
TracesEarliestFirst ==
  \A i, j \in DOMAIN printed :
    i < j /\ 0 # printed[j] /\ printed[j] < printed[i] => printed[j] \in slow

(* The two merges keep the order of time but for what came late.           *)
EarliestFirst == LogsEarliestFirst /\ TracesEarliestFirst

(* When the first extraction of a process is done, it has returned every   *)
(* log and, unless the collection was started again meanwhile, printed     *)
(* every trace that was in shared memory when it began.                    *)
ExtractedAll(n) ==
  job = "extracted" /\ extracts <= n =>
    /\ present.logs \subseteq Returned
    /\ ~active_ => present.traces \subseteq Range(printed)

FirstExtractionComplete == ExtractedAll(1)

(* rt_debug_api.h:113 "Extract collected trace data (traces, logs, event    *)
(* counters, profiler measurements": the same of every extraction, not     *)
(* only the first of its process.                                          *)
ExtractionComplete == ExtractedAll(limit.extracts)
=============================================================================
