------------------------------ MODULE Registry ------------------------------
(***************************************************************************)
(* The trace formats and the profiler points of one group that is set up   *)
(* (CTraceGroup::AddTraceFormat, CProfilerGroup::RegistryProfileEntry),    *)
(* as several processes register them from traces.inc and profiles.inc     *)
(* without a lock, end or crash anywhere and start again, and what is done *)
(* with the handles: traces, results that are saved, reports.  Each        *)
(* process has the file mapped at an address of its own.                   *)
(*                                                                         *)
(* Groups and counters are in module Startup.  A process that would read   *)
(* or write past prof_fifo_ stops there: what it does then is undefined.   *)
(* Left out are the spinlocks, which Setup creates after it copied the     *)
(* name: a lock that was not created may count as taken, and a process     *)
(* that here divides by zero or strays then waits for it for ever.         *)
(***************************************************************************)
EXTENDS Integers, Sequences, FiniteSets

CONSTANTS
  Processes,
  Addresses,          \* where a process may have the file mapped
  NULL,
  FormatList,         \* formats of traces.inc, in order
  PointList,          \* names of profiles.inc, in order
  MAX_TRACE_FORMATS,
  PROF_GROUP_MAX,
  MaxEnds             \* bound: processes that end

ASSUME RegistryAssumption ==
  /\ MAX_TRACE_FORMATS \in Nat \ {0} /\ PROF_GROUP_MAX \in Nat \ {0}
  /\ MaxEnds \in Nat /\ NULL \notin Addresses
  /\ FormatList # << >> /\ PointList # << >>
  /\ FormatList \in Seq(STRING) /\ PointList \in Seq(STRING \ {""})

Formats == 0 .. MAX_TRACE_FORMATS - 1
Points == 0 .. PROF_GROUP_MAX - 1

VARIABLES
  (* the group *)
  num_alloc_formats_, trace_formats_,
  traces,             \* [id, format] of traces that sound processes added
  num_alloc_prof_,
  prof_fifo_,         \* name_, number_chunks_ (0 or set), ptr_producer_, and
                      \* the results that sound processes saved, by their point
  (* processes *)
  proc,               \* proc[p]: where it is, its locals and its handles
  (* history *)
  ends,
  alone,              \* alone[p]: no other process registered while p did
  creator,            \* creator[p]: p registered alone, on a new group
  settled,            \* has a process registered alone from begin to end
  sound,              \* sound[p]: p is the one that did, or started later
  cut,                \* did a process end or abort while it registered
  raced               \* did two register at the same time

formats == <<num_alloc_formats_, trace_formats_>>
points == <<num_alloc_prof_, prof_fifo_>>
history == <<ends, alone, creator, settled, sound, cut, raced>>
vars == <<formats, traces, points, proc, history>>

Default == "default"   \* the format of index 0
NoPoint == [name_ |-> "", chunks |-> 0, ptr |-> NULL, results |-> {}]
Down ==
  [pc |-> "down", addr |-> NULL, k |-> 1, i |-> 0, tmp |-> 0,
   trace_id |-> [n \in DOMAIN FormatList |-> -1],
   profile_id |-> [n \in DOMAIN PointList |-> -1]]

(* After CGroupDebugRT::Init in a new file, which is zero.                 *)
Init ==
  /\ num_alloc_formats_ = 1
  /\ trace_formats_ = [f \in Formats |-> IF f = 0 THEN Default ELSE ""]
  /\ traces = {}
  /\ num_alloc_prof_ = 0
  /\ prof_fifo_ = [n \in Points |-> NoPoint]
  /\ proc = [p \in Processes |-> Down]
  /\ ends = 0
  /\ alone = [p \in Processes |-> FALSE] /\ creator = alone /\ sound = alone
  /\ settled = FALSE /\ cut = FALSE /\ raced = FALSE

(***************************************************************************)
(* Variants of definitions below that a plausible slip would give.         *)
(***************************************************************************)
DifferentFormat(f, p) == trace_formats_[f] # FormatList[proc[p].k]
DifferentPoint(n, p) == prof_fifo_[n].name_ # PointList[proc[p].k]
NeverNamed(n, p) == FALSE
SetUpFirst(p) == [prof_fifo_ EXCEPT ![0].chunks = 1, ![0].results = {}]

-----------------------------------------------------------------------------
(* "divided" or "strayed" is also one that waits for a lock of the point.  *)
Dead == {"aborted", "overrun", "divided", "strayed"}
Resting == {"down", "ready"} \cup Dead
Goto(p, to) == proc' = [proc EXCEPT ![p].pc = to]
Registering(q) == proc[q].pc \notin Resting

(* p dies: in the middle of a registration it leaves it cut off.           *)
Dies(p, how) ==
  /\ Goto(p, how)
  /\ cut' = (cut \/ Registering(p))
  /\ UNCHANGED <<ends, alone, creator, settled, sound, raced>>

(* The list of formats, and of points, from its begin or its next name.    *)
GotHandle(p, list, handles, here, next) ==
  LET last == proc[p].k = Len(list) IN
  proc' = [proc EXCEPT ![p] =
             [handles EXCEPT !.pc = IF last THEN next ELSE here, !.i = 0, !.tmp = 0,
                             !.k = IF last THEN 1 ELSE @ + 1]]
GotFormat(p) ==
  GotHandle(p, FormatList, [proc[p] EXCEPT !.trace_id[proc[p].k] = proc[p].i],
            "format", "point")
GotPoint(p) ==
  GotHandle(p, PointList, [proc[p] EXCEPT !.profile_id[proc[p].k] = proc[p].i],
            "point", "finish")
Other(p) == proc' = [proc EXCEPT ![p].i = @ + 1]

Start(p) ==
  /\ proc[p].pc = "down"
  /\ \E a \in Addresses :
       proc' = [proc EXCEPT ![p].pc = "format", ![p].addr = a]
  /\ alone' = [q \in Processes |->
                 IF q = p THEN \A r \in Processes : ~Registering(r)
                          ELSE alone[q] /\ ~Registering(q)]
  /\ creator' = [q \in Processes |->
                   IF q = p THEN alone'[p] /\ num_alloc_formats_ = 1 /\ num_alloc_prof_ = 0
                            ELSE creator[q] /\ ~Registering(q)]
  /\ sound' = [sound EXCEPT ![p] = settled]
  /\ raced' = (raced \/ \E r \in Processes : Registering(r))
  /\ UNCHANGED <<formats, traces, points, ends, settled, cut>>

-----------------------------------------------------------------------------
(***************************************************************************)
(* AddTraceFormat                                                          *)
(***************************************************************************)
SameFormat(f, p) == trace_formats_[f] = FormatList[proc[p].k]

FormatKnown(p) ==
  /\ proc[p].pc = "format"
  /\ proc[p].i < num_alloc_formats_ /\ proc[p].i \in Formats
  /\ SameFormat(proc[p].i, p)
  /\ GotFormat(p)
  /\ UNCHANGED <<formats, traces, points, history>>

FormatOther(p) ==
  /\ proc[p].pc = "format"
  /\ proc[p].i < num_alloc_formats_ /\ proc[p].i \in Formats
  /\ ~SameFormat(proc[p].i, p)
  /\ Other(p)
  /\ UNCHANGED <<formats, traces, points, history>>

(* ASSERT, strcpy, and num_alloc_formats_++, a load and a store.           *)
FormatWrite(p) ==
  /\ proc[p].pc = "format"
  /\ proc[p].i >= num_alloc_formats_
  /\ proc[p].i \in Formats \/ num_alloc_formats_ >= MAX_TRACE_FORMATS
  /\ IF num_alloc_formats_ < MAX_TRACE_FORMATS
     THEN /\ trace_formats_' = [trace_formats_ EXCEPT ![proc[p].i] = FormatList[proc[p].k]]
          /\ Goto(p, "format_load")
          /\ UNCHANGED history
     ELSE Dies(p, "aborted") /\ UNCHANGED trace_formats_
  /\ UNCHANGED <<num_alloc_formats_, traces, points>>

FormatLoad(p) ==
  /\ proc[p].pc = "format_load"
  /\ proc' = [proc EXCEPT ![p].pc = "format_store", ![p].tmp = num_alloc_formats_]
  /\ UNCHANGED <<formats, traces, points, history>>

FormatStore(p) ==
  /\ proc[p].pc = "format_store"
  /\ num_alloc_formats_' = proc[p].tmp + 1
  /\ GotFormat(p)
  /\ UNCHANGED <<trace_formats_, traces, points, history>>

-----------------------------------------------------------------------------
(***************************************************************************)
(* RegistryProfileEntry: ASSERT, scan, num_alloc_prof_++, Setup, MemAlloc. *)
(* The ASSERT lets num_alloc_prof_ = PROF_GROUP_MAX pass.                  *)
(***************************************************************************)
SamePoint(n, p) == prof_fifo_[n].name_ = PointList[proc[p].k]

PointAsserts(p) ==
  /\ proc[p].pc = "point" /\ proc[p].i = 0
  /\ num_alloc_prof_ > PROF_GROUP_MAX
  /\ Dies(p, "aborted")
  /\ UNCHANGED <<formats, traces, points>>

MayScan(p) ==
  /\ proc[p].pc = "point"
  /\ proc[p].i = 0 => num_alloc_prof_ <= PROF_GROUP_MAX

(* A variant of PointKnown: it moves a known point to its own address.     *)
PointKnownMoves(p) ==
  /\ MayScan(p)
  /\ proc[p].i < num_alloc_prof_
  /\ proc[p].i \in Points /\ SamePoint(proc[p].i, p)
  /\ prof_fifo_' = [prof_fifo_ EXCEPT ![proc[p].i].ptr = proc[p].addr]
  /\ GotPoint(p)
  /\ UNCHANGED <<formats, traces, num_alloc_prof_, history>>

PointKnown(p) ==
  /\ MayScan(p)
  /\ proc[p].i < num_alloc_prof_
  /\ proc[p].i \in Points /\ SamePoint(proc[p].i, p)
  /\ GotPoint(p)
  /\ UNCHANGED <<formats, traces, points, history>>

PointOther(p) ==
  /\ MayScan(p)
  /\ proc[p].i < num_alloc_prof_
  /\ proc[p].i \in Points /\ ~SamePoint(proc[p].i, p)
  /\ Other(p)
  /\ UNCHANGED <<formats, traces, points, history>>

PointLoad(p) ==
  /\ MayScan(p)
  /\ proc[p].i >= num_alloc_prof_
  /\ proc' = [proc EXCEPT ![p].pc = "point_store", ![p].tmp = num_alloc_prof_]
  /\ UNCHANGED <<formats, traces, points, history>>

PointStore(p) ==
  /\ proc[p].pc = "point_store"
  /\ num_alloc_prof_' = proc[p].tmp + 1
  /\ Goto(p, "point_setup")
  /\ UNCHANGED <<formats, traces, prof_fifo_, history>>

(* The indices, the number of chunks; the name; the address.               *)
SetUp(p) ==
  [prof_fifo_ EXCEPT ![proc[p].i].chunks = 1, ![proc[p].i].results = {}]

PointSetup(p) ==
  /\ proc[p].pc = "point_setup" /\ proc[p].i \in Points
  /\ prof_fifo_' = SetUp(p)
  /\ Goto(p, "point_name")
  /\ UNCHANGED <<formats, traces, num_alloc_prof_, history>>

PointName(p) ==
  /\ proc[p].pc = "point_name"
  /\ prof_fifo_' = [prof_fifo_ EXCEPT ![proc[p].i].name_ = PointList[proc[p].k]]
  /\ Goto(p, "point_alloc")
  /\ UNCHANGED <<formats, traces, num_alloc_prof_, history>>

MemAlloc(p) ==
  /\ proc[p].pc = "point_alloc"
  /\ prof_fifo_' = [prof_fifo_ EXCEPT ![proc[p].i].ptr = proc[p].addr]
  /\ GotPoint(p)
  /\ UNCHANGED <<formats, traces, num_alloc_prof_, history>>

(* Past the end of prof_fifo_ or trace_formats_, read or written.          *)
Overrun(p) ==
  /\ \/ MayScan(p) /\ proc[p].i < num_alloc_prof_ /\ proc[p].i \notin Points
     \/ proc[p].pc = "point_setup" /\ proc[p].i \notin Points
     \/ /\ proc[p].pc = "format" /\ proc[p].i \notin Formats
        /\ proc[p].i < num_alloc_formats_ \/ num_alloc_formats_ < MAX_TRACE_FORMATS
  /\ Dies(p, "overrun")
  /\ UNCHANGED <<formats, traces, points>>

Finish(p) ==
  /\ proc[p].pc = "finish"
  /\ Goto(p, "ready")
  /\ settled' = (settled \/ alone[p])
  /\ sound' = [sound EXCEPT ![p] = @ \/ alone[p]]
  /\ UNCHANGED <<formats, traces, points, ends, alone, creator, cut, raced>>

-----------------------------------------------------------------------------
(***************************************************************************)
(* What a process does with its handles                                    *)
(***************************************************************************)
(* AddTrace, whose ASSERT wants an index that is counted.                  *)
AddTrace(p, n) ==
  /\ proc[p].pc = "ready"
  /\ IF proc[p].trace_id[n] < num_alloc_formats_
     THEN /\ traces' = traces \cup
               (IF sound[p] THEN {[id |-> proc[p].trace_id[n], format |-> FormatList[n]]}
                            ELSE {})
          /\ UNCHANGED <<proc, history>>
     ELSE Dies(p, "aborted") /\ UNCHANGED traces
  /\ UNCHANGED <<formats, points>>

Saved(f, n) == prof_fifo_[f].results \cup {PointList[n]}

(* CProfileCnt::Update pushes by way of CMemArea, whose address is that of *)
(* the process that registered the point.  What a full FIFO discards is    *)
(* left to module Profiler: here the point has results, however many.      *)
SaveResult(p, n) ==
  /\ proc[p].pc = "ready"
  /\ LET f == proc[p].profile_id[n] IN
     CASE prof_fifo_[f].chunks = 0 ->
            Dies(p, "divided") /\ UNCHANGED prof_fifo_
       [] prof_fifo_[f].chunks # 0 /\ prof_fifo_[f].ptr # proc[p].addr ->
            Dies(p, "strayed") /\ UNCHANGED prof_fifo_
       [] OTHER ->
            /\ prof_fifo_' =
                 IF sound[p] THEN [prof_fifo_ EXCEPT ![f].results = Saved(f, n)]
                             ELSE prof_fifo_
            /\ UNCHANGED <<proc, history>>
  /\ UNCHANGED <<formats, traces, num_alloc_prof_>>

(* RT_debug_get_prof_data: GetProfInfo, whose ASSERT wants an index that   *)
(* is counted, empties one point.                                          *)
GetProfData(p, n) ==
  /\ proc[p].pc = "ready"
  /\ LET f == proc[p].profile_id[n] IN
     CASE f >= num_alloc_prof_ ->
            Dies(p, "aborted") /\ UNCHANGED prof_fifo_
       [] f < num_alloc_prof_ /\ prof_fifo_[f].chunks = 0 ->
            Dies(p, "divided") /\ UNCHANGED prof_fifo_
       [] OTHER ->
            /\ prof_fifo_' = [prof_fifo_ EXCEPT ![f].results = {}]
            /\ UNCHANGED <<proc, history>>
  /\ UNCHANGED <<formats, traces, num_alloc_prof_>>

(* The profilers of RTDBG_ExtractDebugData: each counted point is emptied. *)
Extract(p) ==
  /\ proc[p].pc = "ready"
  /\ IF num_alloc_prof_ > PROF_GROUP_MAX
     THEN Dies(p, "overrun") /\ UNCHANGED prof_fifo_
     ELSE IF \E f \in Points : f < num_alloc_prof_ /\ prof_fifo_[f].chunks = 0
     THEN Dies(p, "divided") /\ UNCHANGED prof_fifo_
     ELSE /\ prof_fifo_' = [f \in Points |->
               IF f < num_alloc_prof_ THEN [prof_fifo_[f] EXCEPT !.results = {}]
                                      ELSE prof_fifo_[f]]
          /\ UNCHANGED <<proc, history>>
  /\ UNCHANGED <<formats, traces, num_alloc_prof_>>

(* The process exits or crashes, and may be run again.                     *)
End(p) ==
  /\ proc[p].pc # "down"
  /\ ends < MaxEnds
  /\ ends' = ends + 1
  /\ proc' = [proc EXCEPT ![p] = Down]
  /\ cut' = (cut \/ Registering(p))
  /\ UNCHANGED <<formats, traces, points, alone, creator, settled, sound, raced>>

Register(p) ==
  \/ Start(p)
  \/ FormatKnown(p) \/ FormatOther(p) \/ FormatWrite(p) \/ FormatLoad(p) \/ FormatStore(p)
  \/ PointAsserts(p) \/ PointKnown(p) \/ PointOther(p) \/ PointLoad(p) \/ PointStore(p)
  \/ PointSetup(p) \/ PointName(p) \/ MemAlloc(p) \/ Overrun(p) \/ Finish(p)

Use(p) ==
  \/ \E n \in DOMAIN FormatList : AddTrace(p, n)
  \/ \E n \in DOMAIN PointList : SaveResult(p, n) \/ GetProfData(p, n)
  \/ Extract(p)

Next == \E p \in Processes : Register(p) \/ Use(p) \/ End(p)

Spec == Init /\ [][Next]_vars

-----------------------------------------------------------------------------
ValuesOf(list) == {list[n] : n \in DOMAIN list}

(* Types of the variables.  The counts have no bound of their own: while   *)
(* registrations race, each may add one to what another stored late.       *)
TypeOK ==
  /\ num_alloc_formats_ \in Nat \ {0}
  /\ trace_formats_ \in [Formats -> ValuesOf(FormatList) \cup {Default, ""}]
  /\ traces \subseteq [id : Formats, format : ValuesOf(FormatList)]
  /\ num_alloc_prof_ \in Nat
  /\ prof_fifo_ \in [Points -> [name_ : ValuesOf(PointList) \cup {""}, chunks : {0, 1},
                                ptr : Addresses \cup {NULL},
                                results : SUBSET ValuesOf(PointList)]]
  /\ \A p \in Processes :
       /\ proc[p].i \in 0 .. MAX_TRACE_FORMATS \cup 0 .. PROF_GROUP_MAX
       /\ \A n \in DOMAIN FormatList : proc[p].trace_id[n] \in Formats \cup {-1}
       /\ \A n \in DOMAIN PointList : proc[p].profile_id[n] \in Points \cup {-1}

(* A trace is printed in its own format, whatever process extracts it and  *)
(* whatever happened since: one registration without another beside it is  *)
(* enough, whatever raced or was cut off before.                           *)
FormatsRight ==
  \A t \in traces : t.id < num_alloc_formats_ /\ trace_formats_[t.id] = t.format

(* So is a result under the name of its point.                             *)
ReportsRight ==
  \A f \in Points : \A x \in prof_fifo_[f].results :
    f < num_alloc_prof_ /\ prof_fifo_[f].name_ = x

(* From that registration on nothing is registered again, and a point that *)
(* has results has some until a report takes them.                         *)
RegistryKept ==
  [][settled =>
       /\ UNCHANGED <<formats, num_alloc_prof_>>
       /\ \A f \in Points :
            /\ UNCHANGED <<prof_fifo_[f].name_, prof_fifo_[f].chunks, prof_fifo_[f].ptr>>
            /\ \/ prof_fifo_[f].results \subseteq prof_fifo_'[f].results
               \/ \E p \in Processes :
                    Extract(p) \/ \E n \in DOMAIN PointList : GetProfData(p, n)]_vars

(* The process that registered the points of a new group alone may always  *)
(* save its results; another that is sound may, unless the points were     *)
(* registered at another address than its own, or a registration was cut   *)
(* off before it stored an address.                                        *)
SavesAtHome ==
  \A p \in Processes : proc[p].pc = "strayed" =>
    /\ ~(creator[p] /\ sound[p])
    /\ sound[p] => \E f \in Points :
                     \/ prof_fifo_[f].ptr \notin {NULL, proc[p].addr}
                     \/ cut /\ prof_fifo_[f].ptr = NULL

(* Nobody divides by the number_chunks_ of a point that is counted and not *)
(* set up unless registrations raced or one was cut off.                   *)
DividesOnlyIfUnfinished ==
  (\E p \in Processes : proc[p].pc = "divided") => cut \/ raced

(* Lists that fit are registered once: a place too many, and with it the   *)
(* index that ASSERT lets pass the end of prof_fifo_, means that           *)
(* registrations raced or were cut off, and never meets a sound process.   *)
OverrunOnlyIfRaced ==
  /\ num_alloc_prof_ > Len(PointList) => cut \/ raced
  /\ num_alloc_formats_ > Len(FormatList) + 1 => cut \/ raced
  /\ \A p \in Processes : sound[p] => proc[p].pc \notin {"aborted", "overrun"}

(* A process that registers, reports or adds a trace dies of the registry  *)
(* only for one of these reasons.                                          *)
DeathsExplained == TypeOK /\ DividesOnlyIfUnfinished /\ OverrunOnlyIfRaced
=============================================================================
