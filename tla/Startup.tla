------------------------------ MODULE Startup ------------------------------
(***************************************************************************)
(* RT_debug_init (rt_debug_c/rt_adapt.c) and what it calls: the first      *)
(* process creates and initialises the file that is the shared memory, the *)
(* others attach to it, and each registers the groups and the event        *)
(* counters of groups.inc and events.inc by name.  Nothing of this is      *)
(* under a lock, and a process may crash between any two steps.  The file  *)
(* and what processes wrote to it outlive them.                            *)
(*                                                                         *)
(* Trace formats are registered as counters are (name, then number), and   *)
(* profiler points as groups are (number, then name): module Registry has  *)
(* these, system calls that fail are in module Lifecycle.  A               *)
(* read-modify-write of a number is one step.  A process that would read   *)
(* or write past a table stops there: what it does then is undefined.      *)
(***************************************************************************)
EXTENDS Integers, Sequences, FiniteSets

CONSTANTS
  Processes,
  GroupList,      \* names of groups.inc, in order
  EventList,      \* [group, name] of events.inc; group is a place in GroupList
  MAX_GROUP_NUM,
  NUM_COUNTERS,
  MaxCrashes      \* bound: processes that end

ASSUME StartupAssumption ==
  /\ MAX_GROUP_NUM \in Nat \ {0} /\ NUM_COUNTERS \in Nat \ {0}
  /\ MaxCrashes \in Nat
  /\ GroupList # << >> /\ GroupList \in Seq(STRING)
  /\ EventList # << >>
  /\ EventList \in Seq([group : DOMAIN GroupList, name : STRING])

(* The names of groups.inc are also the constants of one enum.             *)
ASSUME GroupNamesAssumption ==
  \A m, n \in DOMAIN GroupList : GroupList[m] = GroupList[n] => m = n

Indices == 0 .. MAX_GROUP_NUM - 1
Places == 0 .. NUM_COUNTERS - 1

VARIABLES
  (* the file *)
  size,                 \* "none", "empty" or "full"
  active_,
  num_alloc_groups_,
  group_name_,          \* group_name_[g]: "" before group g has a name
  setup,                \* setup[g]: were the FIFOs of group g set up
  num_alloc_counters_,  \* num_alloc_counters_[g]
  rt_counters_,         \* rt_counters_[g][c]: cnt_name and val
  (* of each process *)
  pc,
  k, i,                 \* what is registered, what it is compared with
  group_indexes,        \* group_indexes[p][n]: index for GroupList[n], or -1
  event_cnt,            \* event_cnt[p][e]: place of the counter EventList[e]
  (* history *)
  crashes,
  alone,                \* alone[p]: no other process started while p did
  settled,              \* has a process started alone from begin to end
  sound,                \* sound[p]: p is the one that did, or started later
  clean                 \* until then no start crashed or met another

file == <<active_, num_alloc_groups_, group_name_, setup, num_alloc_counters_,
          rt_counters_>>
locals == <<k, i, group_indexes, event_cnt>>
history == <<crashes, alone, settled, sound, clean>>
vars == <<size, file, pc, locals, history>>

NoCounter == [cnt_name |-> "", val |-> 0]
FreeCounter == [cnt_name |-> "", val |-> -1]
NoGroups == [n \in DOMAIN GroupList |-> -1]
NoEvents == [e \in DOMAIN EventList |-> -1]

Init ==
  /\ size = "none"
  /\ active_ = FALSE
  /\ num_alloc_groups_ = 0
  /\ group_name_ = [g \in Indices |-> ""]
  /\ setup = [g \in Indices |-> FALSE]
  /\ num_alloc_counters_ = [g \in Indices |-> 0]
  /\ rt_counters_ = [g \in Indices |-> [c \in Places |-> NoCounter]]
  /\ pc = [p \in Processes |-> "down"]
  /\ k = [p \in Processes |-> 1] /\ i = [p \in Processes |-> 0]
  /\ group_indexes = [p \in Processes |-> NoGroups]
  /\ event_cnt = [p \in Processes |-> NoEvents]
  /\ crashes = 0
  /\ alone = [p \in Processes |-> FALSE]
  /\ settled = FALSE
  /\ sound = [p \in Processes |-> FALSE]
  /\ clean = TRUE

Goto(p, next) == pc' = [pc EXCEPT ![p] = next]

(***************************************************************************)
(* Variants of definitions below that a plausible slip would give.         *)
(***************************************************************************)
AlwaysMissing == FALSE
FoundNever(p) == FALSE
LogGroupNext(n) == n

-----------------------------------------------------------------------------
(***************************************************************************)
(* Creating the file or attaching to it                                    *)
(***************************************************************************)
file_exists == size # "none"

Resting == {"down", "ready", "failed", "aborted", "overrun"}

RT_debug_init(p) ==
  /\ pc[p] = "down"
  /\ Goto(p, IF file_exists THEN "attach" ELSE "create")
  /\ alone' = [q \in Processes |->
                 IF q = p THEN \A r \in Processes : pc[r] \in Resting
                          ELSE alone[q] /\ pc[q] \in Resting]
  /\ sound' = [sound EXCEPT ![p] = settled]
  /\ clean' = (clean /\ (settled \/ \A r \in Processes : pc[r] \in Resting))
  /\ UNCHANGED <<size, file, locals, crashes, settled>>

(* RTDBG_AttachDebugData refuses a file of 0 bytes.                        *)
Attach(p) ==
  /\ pc[p] = "attach"
  /\ Goto(p, IF size = "full" THEN "groups" ELSE "failed")
  /\ UNCHANGED <<size, file, locals, history>>

(* RTDBG_ActivateDebugDataCollection: open, then ftruncate, lseek, write;  *)
(* mmap; RTDBG_Init.  A new file is zero.                                  *)
Create(p) ==
  /\ pc[p] = "create"
  /\ size' = IF size = "none" THEN "empty" ELSE size
  /\ Goto(p, "truncate")
  /\ UNCHANGED <<file, locals, history>>

Truncate(p) ==
  /\ pc[p] = "truncate"
  /\ size' = "full"
  /\ Goto(p, "wipe")
  /\ UNCHANGED <<file, locals, history>>

(* CDebugRT::Init                                                          *)
Wipe(p) ==
  /\ pc[p] = "wipe"
  /\ num_alloc_groups_' = 0
  /\ active_' = FALSE
  /\ Goto(p, "reset")
  /\ UNCHANGED <<size, group_name_, setup, num_alloc_counters_, rt_counters_,
                 locals, history>>

ResetGroups(p) ==
  /\ pc[p] = "reset"
  /\ setup' = [g \in Indices |-> TRUE]
  /\ num_alloc_counters_' = [g \in Indices |-> 0]
  /\ rt_counters_' = [g \in Indices |-> [c \in Places |-> FreeCounter]]
  /\ Goto(p, "start")
  /\ UNCHANGED <<size, active_, num_alloc_groups_, group_name_, locals, history>>

RTDBG_Start(p) ==
  /\ pc[p] = "start"
  /\ active_' = TRUE
  /\ Goto(p, "groups")
  /\ UNCHANGED <<size, num_alloc_groups_, group_name_, setup, num_alloc_counters_,
                 rt_counters_, locals, history>>

-----------------------------------------------------------------------------
(***************************************************************************)
(* AllocDbgGrp for each name: look for it, else count it and initialise it *)
(***************************************************************************)
GroupFound(p) == group_name_[i[p]] = GroupList[k[p]]

(* The next name, or the next list.                                        *)
Advance(p, list, here, next) ==
  /\ i' = [i EXCEPT ![p] = 0]
  /\ IF k[p] < Len(list) THEN k' = [k EXCEPT ![p] = @ + 1] /\ Goto(p, here)
                         ELSE k' = [k EXCEPT ![p] = 1] /\ Goto(p, next)

GroupKnown(p) ==
  /\ pc[p] = "groups"
  /\ i[p] < num_alloc_groups_ /\ i[p] \in Indices
  /\ GroupFound(p)
  /\ group_indexes' = [group_indexes EXCEPT ![p][k[p]] = i[p]]
  /\ Advance(p, GroupList, "groups", "events")
  /\ UNCHANGED <<size, file, event_cnt, history>>

GroupOther(p) ==
  /\ pc[p] = "groups"
  /\ i[p] < num_alloc_groups_ /\ i[p] \in Indices
  /\ ~GroupFound(p)
  /\ i' = [i EXCEPT ![p] = @ + 1]
  /\ UNCHANGED <<size, file, pc, k, group_indexes, event_cnt, history>>

GroupCount(p) ==
  /\ pc[p] = "groups"
  /\ i[p] >= num_alloc_groups_
  /\ num_alloc_groups_' = num_alloc_groups_ + 1
  /\ Goto(p, IF num_alloc_groups_ + 1 <= MAX_GROUP_NUM THEN "group_init"
                                                       ELSE "aborted")
  /\ UNCHANGED <<size, active_, group_name_, setup, num_alloc_counters_,
                 rt_counters_, locals, history>>

(* CGroupDebugRT::Init                                                     *)
GroupInit(p) ==
  /\ pc[p] = "group_init" /\ i[p] \in Indices
  /\ setup' = [setup EXCEPT ![i[p]] = TRUE]
  /\ num_alloc_counters_' = [num_alloc_counters_ EXCEPT ![i[p]] = 0]
  /\ rt_counters_' = [rt_counters_ EXCEPT ![i[p]] = [c \in Places |-> FreeCounter]]
  /\ group_name_' = [group_name_ EXCEPT ![i[p]] = GroupList[k[p]]]
  /\ group_indexes' = [group_indexes EXCEPT ![p][k[p]] = i[p]]
  /\ Advance(p, GroupList, "groups", "events")
  /\ UNCHANGED <<size, active_, num_alloc_groups_, event_cnt, history>>

-----------------------------------------------------------------------------
(***************************************************************************)
(* RTDBG_AllocCounter for each event: GetDebugGrp, AllocCnt                *)
(***************************************************************************)
Group(p, e) == group_indexes[p][EventList[e].group]
InGroup(p) == Group(p, k[p])
EventFound(p) == rt_counters_[InGroup(p)][i[p]].cnt_name = EventList[k[p]].name

GetDebugGrpAsserts(p) ==
  /\ pc[p] = "events" /\ i[p] = 0
  /\ InGroup(p) >= num_alloc_groups_
  /\ Goto(p, "aborted")
  /\ UNCHANGED <<size, file, locals, history>>

MayScan(p) ==
  /\ pc[p] = "events"
  /\ i[p] = 0 => InGroup(p) < num_alloc_groups_

EventKnown(p) ==
  /\ MayScan(p)
  /\ i[p] < num_alloc_counters_[InGroup(p)] /\ i[p] \in Places
  /\ EventFound(p)
  /\ event_cnt' = [event_cnt EXCEPT ![p][k[p]] = i[p]]
  /\ Advance(p, EventList, "events", "finish")
  /\ UNCHANGED <<size, file, group_indexes, history>>

EventOther(p) ==
  /\ MayScan(p)
  /\ i[p] < num_alloc_counters_[InGroup(p)] /\ i[p] \in Places
  /\ ~EventFound(p)
  /\ i' = [i EXCEPT ![p] = @ + 1]
  /\ UNCHANGED <<size, file, pc, k, group_indexes, event_cnt, history>>

(* The last counter of a group is never given out.                         *)
EventName(p) ==
  /\ MayScan(p)
  /\ i[p] >= num_alloc_counters_[InGroup(p)]
  /\ i[p] \in Places \/ num_alloc_counters_[InGroup(p)] >= NUM_COUNTERS - 1
  /\ IF num_alloc_counters_[InGroup(p)] < NUM_COUNTERS - 1
     THEN /\ rt_counters_' = [rt_counters_ EXCEPT
               ![InGroup(p)][i[p]].cnt_name = EventList[k[p]].name]
          /\ Goto(p, "event_count")
     ELSE /\ Goto(p, "aborted")
          /\ UNCHANGED rt_counters_
  /\ UNCHANGED <<size, active_, num_alloc_groups_, group_name_, setup,
                 num_alloc_counters_, locals, history>>

EventCount(p) ==
  /\ pc[p] = "event_count"
  /\ num_alloc_counters_' = [num_alloc_counters_ EXCEPT ![InGroup(p)] = @ + 1]
  /\ event_cnt' = [event_cnt EXCEPT ![p][k[p]] = i[p]]
  /\ Advance(p, EventList, "events", "finish")
  /\ UNCHANGED <<size, active_, num_alloc_groups_, group_name_, setup,
                 rt_counters_, group_indexes, history>>

(* Past the end of debug_groups_ or of the counters of a group.            *)
PastGroups(p) ==
  /\ i[p] \notin Indices
  /\ pc[p] = "group_init" \/ (pc[p] = "groups" /\ i[p] < num_alloc_groups_)
PastCounters(p) ==
  /\ MayScan(p) /\ i[p] \notin Places
  /\ \/ i[p] < num_alloc_counters_[InGroup(p)]
     \/ num_alloc_counters_[InGroup(p)] < NUM_COUNTERS - 1

Overrun(p) ==
  /\ PastGroups(p) \/ PastCounters(p)
  /\ Goto(p, "overrun")
  /\ clean' = FALSE
  /\ UNCHANGED <<size, file, locals, crashes, alone, settled, sound>>

Finish(p) ==
  /\ pc[p] = "finish"
  /\ active_' = TRUE
  /\ Goto(p, "ready")
  /\ settled' = (settled \/ alone[p])
  /\ sound' = [sound EXCEPT ![p] = @ \/ alone[p]]
  /\ UNCHANGED <<size, num_alloc_groups_, group_name_, setup, num_alloc_counters_,
                 rt_counters_, locals, crashes, alone, clean>>

-----------------------------------------------------------------------------
(* The application writes to a counter through its pointer.                *)
SetCounter(p, e) ==
  /\ pc[p] = "ready"
  /\ rt_counters_' = [rt_counters_ EXCEPT ![Group(p, e)][event_cnt[p][e]].val = 1]
  /\ UNCHANGED <<size, active_, num_alloc_groups_, group_name_, setup,
                 num_alloc_counters_, pc, locals, history>>

(* The group RT_debug_save_log adds a log of group GroupList[n] to.        *)
LogGroupOf(n) == n - 1

(* A process crashes or exits and may be run again.                        *)
Crash(p) ==
  /\ pc[p] # "down"
  /\ crashes < MaxCrashes
  /\ crashes' = crashes + 1
  /\ Goto(p, "down")
  /\ k' = [k EXCEPT ![p] = 1] /\ i' = [i EXCEPT ![p] = 0]
  /\ group_indexes' = [group_indexes EXCEPT ![p] = NoGroups]
  /\ event_cnt' = [event_cnt EXCEPT ![p] = NoEvents]
  /\ clean' = (clean /\ (settled \/ pc[p] \in Resting))
  /\ UNCHANGED <<size, file, alone, settled, sound>>

Step(p) ==
  \/ RT_debug_init(p) \/ Attach(p)
  \/ Create(p) \/ Truncate(p) \/ Wipe(p) \/ ResetGroups(p) \/ RTDBG_Start(p)
  \/ GroupKnown(p) \/ GroupOther(p) \/ GroupCount(p) \/ GroupInit(p)
  \/ GetDebugGrpAsserts(p) \/ EventKnown(p) \/ EventOther(p) \/ EventName(p)
  \/ EventCount(p) \/ Overrun(p) \/ Finish(p)
  \/ \E e \in DOMAIN EventList : SetCounter(p, e)
  \/ Crash(p)

Next == \E p \in Processes : Step(p)

Spec == Init /\ [][Next]_vars

-----------------------------------------------------------------------------
NamesOf(list) == {list[n] : n \in DOMAIN list} \cup {""}
EventNames == {EventList[e].name : e \in DOMAIN EventList} \cup {""}

(* Types of the variables.  The counts have no bound of their own: every   *)
(* process that aborts for want of a group has counted one too many.       *)
TypeOK ==
  /\ size \in {"none", "empty", "full"}
  /\ active_ \in BOOLEAN /\ settled \in BOOLEAN /\ clean \in BOOLEAN
  /\ num_alloc_groups_ \in Nat
  /\ group_name_ \in [Indices -> NamesOf(GroupList)]
  /\ setup \in [Indices -> BOOLEAN]
  /\ num_alloc_counters_ \in [Indices -> Nat]
  /\ rt_counters_ \in [Indices -> [Places -> [cnt_name : EventNames, val : {-1, 0, 1}]]]
  /\ pc \in [Processes -> Resting \cup
       {"attach", "create", "truncate", "wipe", "reset", "start", "groups",
        "group_init", "events", "event_count", "finish"}]
  /\ k \in [Processes -> DOMAIN GroupList \cup DOMAIN EventList]
  /\ i \in [Processes -> 0 .. MAX_GROUP_NUM \cup 0 .. NUM_COUNTERS]
  /\ group_indexes \in [Processes -> [DOMAIN GroupList -> Indices \cup {-1}]]
  /\ event_cnt \in [Processes -> [DOMAIN EventList -> Places \cup {-1}]]
  /\ alone \in [Processes -> BOOLEAN] /\ sound \in [Processes -> BOOLEAN]

HandlesOf(p) ==
  /\ \A n \in DOMAIN GroupList :
       LET g == group_indexes[p][n]
       IN g \in 0 .. num_alloc_groups_ - 1 /\ group_name_[g] = GroupList[n]
  /\ \A e \in DOMAIN EventList :
       LET g == Group(p, e) IN
       /\ event_cnt[p][e] \in 0 .. num_alloc_counters_[g] - 1
       /\ rt_counters_[g][event_cnt[p][e]].cnt_name = EventList[e].name

(* Although nothing is locked, one start without another beside it is      *)
(* enough: from then on every process that starts, however many at once    *)
(* and whatever crashed or raced before, gets the handles of its groups    *)
(* and counters and keeps them as long as it runs.                         *)
HandlesValid ==
  \A p \in Processes : sound[p] /\ pc[p] = "ready" => HandlesOf(p)

(* Two such processes use the same memory for the same group and counter.  *)
ProcessesAgree ==
  \A p, q \in Processes :
    sound[p] /\ sound[q] /\ pc[p] = "ready" /\ pc[q] = "ready" =>
      group_indexes[p] = group_indexes[q] /\ event_cnt[p] = event_cnt[q]

(* None of them is refused the file, aborts or leaves a table.             *)
StartsSucceed ==
  \A p \in Processes : sound[p] => pc[p] \notin {"failed", "aborted", "overrun"}

(* Handles are valid in every such process and mean the same in all.       *)
HandlesSound == TypeOK /\ HandlesValid /\ ProcessesAgree /\ StartsSucceed

(* After that start nothing is registered or cleared again, so what the    *)
(* application saves in a counter survives crashes and later starts.       *)
RegistrySettles ==
  [][settled =>
       /\ UNCHANGED <<size, num_alloc_groups_, group_name_, num_alloc_counters_>>
       /\ \A g \in Indices, c \in Places :
            rt_counters_[g][c].val = 1 => rt_counters_'[g][c] = rt_counters_[g][c]]_vars

(* RT_debug_save_log numbers a group by its place in groups.inc, not by    *)
(* group_indexes.  If the first start had the file for itself and did not  *)
(* crash, the logs of every later process reach their group all the same,  *)
(* and one whose FIFO was set up, whatever races or crashes then.          *)
LogsReachGroup ==
  \A p \in Processes :
    clean /\ sound[p] /\ pc[p] = "ready" =>
      \A n \in DOMAIN GroupList :
        LogGroupOf(n) = group_indexes[p][n] /\ setup[LogGroupOf(n)]
=============================================================================
