----------------------------- MODULE TraceGroup -----------------------------
(***************************************************************************)
(* CTraceGroup (rt_debug_cpp/src/rt_debug_types.cc): threads of the        *)
(* application write traces into a ring of slots, an extractor stops the   *)
(* collection and takes the traces out, the earliest first.  A writer gets *)
(* its slot under a spinlock but fills it after releasing the lock, and    *)
(* checks active_ only once, before all that; the extractor scans the ring *)
(* without any lock.                                                       *)
(*                                                                         *)
(* A slot is filled by memcpy, in order: linux_time, then status, then     *)
(* vals.  The extractor loads status, linux_time to compare it, linux_time *)
(* to keep it, and of the slot it found linux_time, vals and linux_time    *)
(* again.  Each of these stores and loads is a step; trace_id, thread_id   *)
(* and line_num count as part of vals, and a timespec is stored and loaded *)
(* as one.                                                                 *)
(***************************************************************************)
EXTENDS Integers, Sequences, FiniteSets

CONSTANTS
  Writers,            \* threads that call RTDBG_AddTrace
  TRACE_ENTRIES_NUM,  \* slots of the ring
  MaxTraces,          \* bound: traces all writers allocate
  MaxStarts           \* bound: times the collection is started again

(* wr_ind_ starts at 1, which is a slot: the ring has more than one.       *)
ASSUME SizesAssumption ==
  /\ TRACE_ENTRIES_NUM \in Nat \ {0, 1}
  /\ MaxTraces \in Nat /\ MaxStarts \in Nat

VARIABLES
  active_,       \* is data collected
  wr_ind_,       \* slot given out last
  status,        \* status[k] of slot k: "DATA_IND" or "NO_DATA_IND"
  head, tail,    \* head[k], tail[k]: the trace linux_time and vals of slot k are from
  pc,            \* pc[t]: next step of the AddTrace of writer t
  slot,          \* slot[t]: trace_entry_ptr of writer t
  tmp_entry,     \* tmp_entry[t]: the trace writer t adds
  reader,        \* next step of the extractor
  ind,           \* slot the extractor looks at
  min_index, min_time,
  clock,         \* CLOCK_MONOTONIC, advanced by each time stamp
  starts,        \* calls of RTDBG_Start
  allocs,        \* calls of AllocPoolChunk
  written,       \* traces whose AddTrace returned
  extracted,     \* what the current extraction returned
  before,        \* traces earlier extractions returned
  late,          \* traces that took a slot after a stop
  raced          \* slots once held by two writers, or while extracting

writerVars == <<pc, slot, tmp_entry>>
ring == <<wr_ind_, status, head, tail>>
readerVars == <<reader, ind, min_index, min_time>>
history == <<allocs, written, extracted, before, late, raced>>
vars == <<active_, ring, writerVars, readerVars, clock, starts, history>>

Slots == 0 .. TRACE_ENTRIES_NUM - 1

(* A trace: its place in the order of allocation and its time stamp.       *)
Trace(n, time) == [seq |-> n, linux_time |-> time]
NoTrace == Trace(0, 0)

Init ==
  /\ active_ = TRUE
  /\ wr_ind_ = 1
  /\ status = [k \in Slots |-> "NO_DATA_IND"]
  /\ head = [k \in Slots |-> NoTrace]
  /\ tail = [k \in Slots |-> NoTrace]
  /\ pc = [t \in Writers |-> "idle"]
  /\ slot = [t \in Writers |-> 0]
  /\ tmp_entry = [t \in Writers |-> NoTrace]
  /\ reader = "idle"
  /\ ind = 0 /\ min_index = -1 /\ min_time = 0
  /\ clock = 1
  /\ starts = 0
  /\ allocs = 0
  /\ written = {}
  /\ extracted = << >>
  /\ before = {}
  /\ late = {}
  /\ raced = {}

Extracting == reader \notin {"idle", "done"}
Holders(k) ==
  {t \in Writers : pc[t] \in {"time", "copy1", "copy2", "copy3"} /\ slot[t] = k}

(***************************************************************************)
(* Variants of definitions below that a plausible slip would give.         *)
(***************************************************************************)
CopyTailSkipped(t) ==
  /\ pc[t] = "copy3"
  /\ pc' = [pc EXCEPT ![t] = "idle"]
  /\ written' = written \cup {tmp_entry[t]}
  /\ UNCHANGED <<active_, ring, slot, tmp_entry, readerVars, clock, starts,
                 allocs, extracted, before, late, raced>>
ClearScanned == status' = [status EXCEPT ![ind - 1] = "NO_DATA_IND"]
RefusedWaits == reader = "call" /\ active_ /\ UNCHANGED vars
EarlierAny(k) == min_index = -1 \/ head[k].linux_time > min_time
ScanEndsEarly == ind = TRACE_ENTRIES_NUM - 1

-----------------------------------------------------------------------------
(***************************************************************************)
(* RTDBG_AddTrace and CTraceGroup::AddTrace.  The locked section of        *)
(* AllocPoolChunk reads and writes wr_ind_ only, so it is one step.        *)
(***************************************************************************)
NextSlot(k) == (k + 1) % TRACE_ENTRIES_NUM

(* The call finds data collection on; when it is off the call just returns. *)
AddTraceCall(t) ==
  /\ pc[t] = "idle"
  /\ active_
  /\ allocs + Cardinality({u \in Writers : pc[u] = "alloc"}) < MaxTraces
  /\ pc' = [pc EXCEPT ![t] = "alloc"]
  /\ UNCHANGED <<active_, ring, slot, tmp_entry, readerVars, clock, starts,
                 history>>

AllocPoolChunk(t) ==
  /\ pc[t] = "alloc"
  /\ wr_ind_' = NextSlot(wr_ind_)
  /\ slot' = [slot EXCEPT ![t] = wr_ind_']
  /\ allocs' = allocs + 1
  /\ tmp_entry' = [tmp_entry EXCEPT ![t] = Trace(allocs', 0)]
  /\ pc' = [pc EXCEPT ![t] = "time"]
  /\ raced' = IF Extracting \/ Holders(wr_ind_') # {}
              THEN raced \cup {wr_ind_'} ELSE raced
  /\ late' = IF active_ THEN late ELSE late \cup {allocs'}
  /\ UNCHANGED <<active_, status, head, tail, readerVars, clock, starts,
                 written, extracted, before>>

TakeTime(t) ==
  /\ pc[t] = "time"
  /\ clock' = clock + 1
  /\ tmp_entry' = [tmp_entry EXCEPT ![t].linux_time = clock]
  /\ pc' = [pc EXCEPT ![t] = "copy1"]
  /\ UNCHANGED <<active_, ring, slot, readerVars, starts, history>>

CopyHead(t) ==
  /\ pc[t] = "copy1"
  /\ head' = [head EXCEPT ![slot[t]] = tmp_entry[t]]
  /\ pc' = [pc EXCEPT ![t] = "copy2"]
  /\ UNCHANGED <<active_, wr_ind_, status, tail, slot, tmp_entry, readerVars,
                 clock, starts, history>>

(* The slot may be full already, of the trace it held a turn before.       *)
CopyStatus(t) ==
  /\ pc[t] = "copy2"
  /\ status' = [status EXCEPT ![slot[t]] = "DATA_IND"]
  /\ pc' = [pc EXCEPT ![t] = "copy3"]
  /\ UNCHANGED <<active_, wr_ind_, head, tail, slot, tmp_entry, readerVars,
                 clock, starts, history>>

CopyTail(t) ==
  /\ pc[t] = "copy3"
  /\ tail' = [tail EXCEPT ![slot[t]] = tmp_entry[t]]
  /\ pc' = [pc EXCEPT ![t] = "idle"]
  /\ written' = written \cup {tmp_entry[t]}
  /\ UNCHANGED <<active_, wr_ind_, status, head, slot, tmp_entry, readerVars,
                 clock, starts, allocs, extracted, before, late, raced>>

WriterStep(t) ==
  \/ AllocPoolChunk(t) \/ TakeTime(t)
  \/ CopyHead(t) \/ CopyStatus(t) \/ CopyTail(t)

(***************************************************************************)
(* RTDBG_Stop, RTDBG_Start, and the loop of GetTraceEntry calls.           *)
(***************************************************************************)
Held == {k \in Slots : Holders(k) # {}}

RTDBG_Stop ==
  /\ ~Extracting
  /\ active_' = FALSE
  /\ reader' = "call"
  /\ extracted' = << >>
  /\ before' = before \cup {extracted[i].head : i \in DOMAIN extracted}
  /\ raced' = raced \cup Held
  /\ UNCHANGED <<ring, writerVars, ind, min_index, min_time, clock, starts,
                 allocs, written, late>>

(* By any process, RT_debug_init of a starting one included.               *)
RTDBG_Start ==
  /\ starts < MaxStarts
  /\ starts' = starts + 1
  /\ active_' = TRUE
  /\ UNCHANGED <<ring, writerVars, readerVars, clock, history>>

(* Data is collected again: the loop ends with what it has.                *)
GetTraceEntryRefused ==
  /\ reader = "call"
  /\ active_
  /\ reader' = "idle"
  /\ UNCHANGED <<active_, ring, writerVars, ind, min_index, min_time, clock,
                 starts, history>>

GetTraceEntryCall ==
  /\ reader = "call"
  /\ ~active_
  /\ min_time' = clock
  /\ min_index' = -1
  /\ ind' = 0
  /\ reader' = "scan"
  /\ UNCHANGED <<active_, ring, writerVars, clock, starts, history>>

Earlier(k) == head[k].linux_time < min_time
ScanEnds == ind = TRACE_ENTRIES_NUM

(* Is there a trace in the next slot?                                      *)
GetTraceEntryScan ==
  /\ reader = "scan"
  /\ ~ScanEnds
  /\ IF status[ind] = "DATA_IND"
     THEN reader' = "compare" /\ UNCHANGED ind
     ELSE ind' = ind + 1 /\ UNCHANGED reader
  /\ UNCHANGED <<active_, ring, writerVars, min_index, min_time, clock, starts,
                 history>>

(* Is it earlier than the earliest so far?                                 *)
GetTraceEntryCompare ==
  /\ reader = "compare"
  /\ IF Earlier(ind)
     THEN reader' = "min" /\ UNCHANGED ind
     ELSE reader' = "scan" /\ ind' = ind + 1
  /\ UNCHANGED <<active_, ring, writerVars, min_index, min_time, clock, starts,
                 history>>

GetTraceEntryMin ==
  /\ reader = "min"
  /\ min_time' = head[ind].linux_time
  /\ min_index' = ind
  /\ ind' = ind + 1
  /\ reader' = "scan"
  /\ UNCHANGED <<active_, ring, writerVars, clock, starts, history>>

(* The time that is printed, vals, and the time that is returned.          *)
GetTraceEntryRead ==
  /\ reader = "scan"
  /\ ScanEnds
  /\ min_index # -1
  /\ extracted' = Append(extracted, [slot |-> min_index, head |-> head[min_index],
                                     tail |-> NoTrace, linux_time |-> 0])
  /\ reader' = "vals"
  /\ UNCHANGED <<active_, ring, writerVars, ind, min_index, min_time, clock,
                 starts, allocs, written, before, late, raced>>

GetTraceEntryVals ==
  /\ reader = "vals"
  /\ extracted' = [extracted EXCEPT ![Len(extracted)].tail = tail[min_index]]
  /\ reader' = "time"
  /\ UNCHANGED <<active_, ring, writerVars, ind, min_index, min_time, clock,
                 starts, allocs, written, before, late, raced>>

GetTraceEntryTime ==
  /\ reader = "time"
  /\ extracted' = [extracted EXCEPT ![Len(extracted)].linux_time =
                                      head[min_index].linux_time]
  /\ reader' = "clear"
  /\ UNCHANGED <<active_, ring, writerVars, ind, min_index, min_time, clock,
                 starts, allocs, written, before, late, raced>>

Clear == status' = [status EXCEPT ![min_index] = "NO_DATA_IND"]

GetTraceEntryReturn ==
  /\ reader = "clear"
  /\ Clear
  /\ reader' = "call"
  /\ UNCHANGED <<active_, wr_ind_, head, tail, writerVars, ind, min_index,
                 min_time, clock, starts, history>>

GetTraceEntryNone ==
  /\ reader = "scan"
  /\ ScanEnds
  /\ min_index = -1
  /\ reader' = "done"
  /\ UNCHANGED <<active_, ring, writerVars, ind, min_index, min_time, clock,
                 starts, history>>

ReaderStep ==
  \/ GetTraceEntryRefused \/ GetTraceEntryCall
  \/ GetTraceEntryScan \/ GetTraceEntryCompare \/ GetTraceEntryMin
  \/ GetTraceEntryRead \/ GetTraceEntryVals \/ GetTraceEntryTime
  \/ GetTraceEntryReturn \/ GetTraceEntryNone

Next ==
  \/ \E t \in Writers : AddTraceCall(t) \/ WriterStep(t)
  \/ RTDBG_Stop \/ RTDBG_Start
  \/ ReaderStep

Spec == Init /\ [][Next]_vars

(* An extraction under way keeps running.  Nothing is asked of the writers: *)
(* an application that crashes is one whose threads stop where they are.   *)
FairSpec == Spec /\ WF_vars(ReaderStep)

-----------------------------------------------------------------------------
Traces == [seq : 0 .. MaxTraces, linux_time : 0 .. clock]
Extracted == before \cup {extracted[i].head : i \in DOMAIN extracted}
InRing == {head[k] : k \in {j \in Slots : status[j] = "DATA_IND"}}

(* Every variable stays within its type.                                   *)
TypeOK ==
  /\ active_ \in BOOLEAN
  /\ wr_ind_ \in Slots
  /\ status \in [Slots -> {"DATA_IND", "NO_DATA_IND"}]
  /\ head \in [Slots -> Traces]
  /\ tail \in [Slots -> Traces]
  /\ pc \in [Writers -> {"idle", "alloc", "time", "copy1", "copy2", "copy3"}]
  /\ slot \in [Writers -> Slots]
  /\ tmp_entry \in [Writers -> Traces]
  /\ reader \in {"idle", "call", "scan", "compare", "min", "vals", "time", "clear",
                 "done"}
  /\ ind \in 0 .. TRACE_ENTRIES_NUM
  /\ min_index \in Slots \cup {-1}
  /\ min_time \in 0 .. clock
  /\ extracted \in Seq([slot : Slots, head : Traces, tail : Traces,
                       linux_time : 0 .. clock])
  /\ written \subseteq Traces /\ before \subseteq Traces
  /\ late \subseteq 1 .. MaxTraces
  /\ raced \subseteq Slots

(* A trace comes out in parts of two only from a slot that two writers     *)
(* held at once (one stalled for a whole turn of the ring), or that one    *)
(* held while the extraction ran: taking a slot under the lock and filling *)
(* it outside mixes nothing else.                                          *)
Torn(e) == e.tail # e.head \/ e.linux_time # e.head.linux_time

TornOnlyIfRaced ==
  \A i \in DOMAIN extracted :
    Torn(extracted[i]) /\ ~(reader \in {"vals", "time"} /\ i = Len(extracted))
    => extracted[i].slot \in raced

(* A trace is extracted twice only from a slot that was raced for: its     *)
(* writer stalls in the copy over an older trace, the extractor returns    *)
(* the new time under the old status and clears it, and the writer then    *)
(* stores the status.  Without such a race clearing the slot is enough.    *)
ExtractedOnce ==
  \A i \in DOMAIN extracted :
    \/ extracted[i].slot \in raced
    \/ /\ extracted[i].head \notin before
       /\ \A j \in DOMAIN extracted :
            extracted[j].head = extracted[i].head => i = j

(* The latest TRACE_ENTRIES_NUM traces are there or have been extracted:   *)
(* wrapping around overwrites only older ones, and clearing a slot loses   *)
(* nothing that was not extracted, as long as no slot was raced for.       *)
LastTracesKept ==
  raced = {} => \A e \in written :
    e.seq + TRACE_ENTRIES_NUM > allocs => e \in Extracted \cup InRing

(* Every trace is accounted for: of the slots that were not raced for none *)
(* comes out twice, and if no slot was none of the latest is missing.      *)
TracesAccounted == TypeOK /\ ExtractedOnce /\ LastTracesKept

(* rt_debug_api.h:52 "Extract the earliest trace entry": what one          *)
(* extraction returns is in the order of the time stamps, although slots   *)
(* are taken in another order than the clock is read.  A race for any slot *)
(* undoes that: linux_time is loaded once to compare and again to keep, so *)
(* a slot filled in between raises min_time, and a later slot passes.      *)
EarliestFirst ==
  raced = {} => \A i, j \in DOMAIN extracted :
    i < j => extracted[i].head.linux_time < extracted[j].head.linux_time

(* When the loop ends by itself it has emptied the ring, but for traces    *)
(* whose AddTrace was past its check of active_ and took its slot later.   *)
ExtractionComplete ==
  reader = "done" /\ ~active_ /\ raced = {} => \A e \in InRing : e.seq \in late

(* The loop of GetTraceEntry calls ends, although AddTrace calls that were *)
(* past their check of active_ may still fill slots behind it.             *)
ExtractionEnds == Extracting ~> ~Extracting
=============================================================================
