------------------------------ MODULE Profiler ------------------------------
(***************************************************************************)
(* The profiler: a thread measures with a CProfileCnt of its own           *)
(* (rt_debug_cpp/src/rt_debug_types.h) and puts the result of every        *)
(* max_calls_ measurements into the FIFO of the profiler point, which all  *)
(* threads that measure this point share; GetProfInfo of CProfilerGroup    *)
(* empties the FIFO into one report.  A push or a pop of the FIFO is one   *)
(* step, as MemFifo justifies.                                             *)
(*                                                                         *)
(* max_cnt_time_ is left out.  The field average_cnt_ of a point holds the *)
(* sum until its result is saved, as in the code.                          *)
(***************************************************************************)
EXTENDS Integers, Sequences, FiniteSets

CONSTANTS
  Threads,      \* threads that measure the point
  capacity,     \* results the FIFO holds, PROF_FIFO_SIZE - 2
  max_calls_,   \* measurements of a result, 0 for no limit
  delta_,       \* time a measurement takes itself
  PutValues,    \* values given to RTDBG_PutProfVal
  MaxTime,      \* bound: readings of the clock
  MaxMeas       \* bound: measurements of all threads

ASSUME ProfilerAssumption ==
  /\ capacity \in Nat \ {0} /\ max_calls_ \in Nat /\ delta_ \in Nat
  /\ PutValues \subseteq Nat /\ MaxTime \in Nat \ {0} /\ MaxMeas \in Nat

VARIABLES
  fifo,         \* prof_fifo_ of the point, oldest result first
  prof_data_,   \* prof_data_[t]: what the point of t has measured so far
  start_val_,   \* start_val_[t]: time of the last Start, 0 when not running
  acc_cnt_,     \* acc_cnt_[t]: time before the last StopContinue
  pc,           \* pc[t]: "idle", or the next step of Update
  cnt_val,      \* report GetProfInfo is building
  prof_info,    \* last report GetProfInfo returned
  clock,
  running,      \* running[t]: did t call Start without a stop after it
  (* history *)
  ran,          \* ran[t]: time the point of t ran in this measurement
  measured,     \* measured[n]: value of measurement n and time it ran
  lost,         \* measurements that were dropped
  saving        \* saving[t]: measurements of the result t saved last

timer == <<start_val_, acc_cnt_, clock, running, ran>>
report == <<cnt_val, prof_info>>
vars == <<fifo, prof_data_, timer, pc, report, measured, lost, saving>>

(* meas stands for meas_num_: the set of the measurements counted in it.   *)
NoData == [max_cnt_ |-> 0, last_cnt_ |-> 0, average_cnt_ |-> 0, meas_num_ |-> 0,
           meas |-> {}]

Init ==
  /\ fifo = << >>
  /\ prof_data_ = [t \in Threads |-> NoData]
  /\ start_val_ = [t \in Threads |-> 0]
  /\ acc_cnt_ = [t \in Threads |-> 0]
  /\ pc = [t \in Threads |-> "idle"]
  /\ cnt_val = NoData /\ prof_info = NoData
  /\ clock = 1
  /\ running = [t \in Threads |-> FALSE]
  /\ ran = [t \in Threads |-> 0]
  /\ measured = << >>
  /\ lost = {}
  /\ saving = [t \in Threads |-> {}]

(* Time passes for every point that runs.                                  *)
ReadClock(t, runs) ==
  /\ clock < MaxTime
  /\ clock' = clock + 1
  /\ running' = [running EXCEPT ![t] = runs]
  /\ ran' = [u \in Threads |-> IF running'[u] THEN ran[u] + 1 ELSE ran[u]]

larger(x, y) == IF x > y THEN x ELSE y

(***************************************************************************)
(* Variants of definitions below that a plausible slip would give.         *)
(***************************************************************************)
ElapsedSinceStart(t) == clock - start_val_[t] - delta_
FoldPlain(c, d) ==
  [max_cnt_ |-> larger(c.max_cnt_, d.max_cnt_),
   last_cnt_ |-> d.last_cnt_,
   average_cnt_ |-> c.average_cnt_ + d.average_cnt_,
   meas_num_ |-> c.meas_num_ + d.meas_num_,
   meas |-> c.meas \cup d.meas]
UpdateForgetsReset(t) ==
  /\ pc[t] = "push"
  /\ Len(fifo) < capacity
  /\ fifo' = Append(fifo, prof_data_[t])
  /\ pc' = [pc EXCEPT ![t] = "idle"]
  /\ UNCHANGED <<prof_data_, timer, report, measured, lost, saving>>

-----------------------------------------------------------------------------
(***************************************************************************)
(* The stop watch of a point.  A thread stops it only while it runs.       *)
(***************************************************************************)
Start(t) ==
  /\ ~running[t] /\ pc[t] = "idle"
  /\ prof_data_' = [prof_data_ EXCEPT ![t].last_cnt_ = 1]
  /\ start_val_' = [start_val_ EXCEPT ![t] = clock]
  /\ ReadClock(t, TRUE)
  /\ UNCHANGED <<acc_cnt_, fifo, pc, report, measured, lost, saving>>

StopContinue(t) ==
  /\ running[t] /\ pc[t] = "idle"
  /\ acc_cnt_' = [acc_cnt_ EXCEPT ![t] = @ + clock - start_val_[t]]
  /\ start_val_' = [start_val_ EXCEPT ![t] = 0]
  /\ ReadClock(t, FALSE)
  /\ UNCHANGED <<fifo, prof_data_, pc, report, measured, lost, saving>>

(* Update begins with the average of what was measured.                    *)
Average(d) == [d EXCEPT !.average_cnt_ = @ \div d.meas_num_]

(* The end of Stop: the value is counted; a full result is saved.          *)
Count(t, value) ==
  LET d == prof_data_[t]
      n == Len(measured) + 1
      sum == [max_cnt_ |-> larger(d.max_cnt_, value), last_cnt_ |-> value,
              average_cnt_ |-> d.average_cnt_ + value,
              meas_num_ |-> d.meas_num_ + 1, meas |-> d.meas \cup {n}]
  IN
  /\ n <= MaxMeas
  /\ acc_cnt_' = [acc_cnt_ EXCEPT ![t] = 0]
  /\ start_val_' = [start_val_ EXCEPT ![t] = 0]
  /\ IF max_calls_ # 0 /\ max_calls_ <= sum.meas_num_
     THEN /\ prof_data_' = [prof_data_ EXCEPT ![t] = Average(sum)]
          /\ saving' = [saving EXCEPT ![t] = sum.meas]
          /\ pc' = [pc EXCEPT ![t] = "push"]
     ELSE /\ prof_data_' = [prof_data_ EXCEPT ![t] = sum]
          /\ UNCHANGED <<saving, pc>>

Elapsed(t) == clock - start_val_[t] + acc_cnt_[t] - delta_
Measurement(t) == IF Elapsed(t) < 0 THEN 20 ELSE Elapsed(t)

Stop(t) ==
  /\ running[t] /\ pc[t] = "idle"
  /\ Count(t, Measurement(t))
  /\ measured' = Append(measured, [value |-> Measurement(t), ran |-> ran[t]])
  /\ clock < MaxTime
  /\ clock' = clock + 1
  /\ running' = [running EXCEPT ![t] = FALSE]
  /\ ran' = [u \in Threads |-> IF u = t THEN 0
                               ELSE IF running[u] THEN ran[u] + 1 ELSE ran[u]]
  /\ UNCHANGED <<fifo, report, lost>>

(* RTDBG_PutProfVal: a value that is no time, on a point that is at rest.  *)
PutProfVal(t, value) ==
  /\ ~running[t] /\ acc_cnt_[t] = 0 /\ pc[t] = "idle"
  /\ Count(t, value)
  /\ measured' = Append(measured, [value |-> value, ran |-> -1])
  /\ UNCHANGED <<fifo, clock, running, ran, report, lost>>

-----------------------------------------------------------------------------
(***************************************************************************)
(* Update: push the result, and while there is no room, pop the oldest --  *)
(* into prof_data_ itself, which is what is pushed next.                   *)
(***************************************************************************)
(* RTDBG_ProfFlushMeas.                                                    *)
Flush(t) ==
  /\ pc[t] = "idle"
  /\ prof_data_[t].meas_num_ # 0
  /\ prof_data_' = [prof_data_ EXCEPT ![t] = Average(@)]
  /\ saving' = [saving EXCEPT ![t] = prof_data_[t].meas]
  /\ pc' = [pc EXCEPT ![t] = "push"]
  /\ UNCHANGED <<fifo, timer, report, measured, lost>>

ResetProfData(t) == prof_data_' = [prof_data_ EXCEPT ![t] = NoData]

UpdatePush(t) ==
  /\ pc[t] = "push"
  /\ Len(fifo) < capacity
  /\ fifo' = Append(fifo, prof_data_[t])
  /\ ResetProfData(t)
  /\ pc' = [pc EXCEPT ![t] = "idle"]
  /\ UNCHANGED <<timer, report, measured, lost, saving>>

UpdateFull(t) ==
  /\ pc[t] = "push"
  /\ Len(fifo) = capacity
  /\ pc' = [pc EXCEPT ![t] = "pop"]
  /\ UNCHANGED <<fifo, prof_data_, timer, report, measured, lost, saving>>

UpdatePop(t) ==
  /\ pc[t] = "pop"
  /\ pc' = [pc EXCEPT ![t] = "push"]
  /\ IF fifo # << >>
     THEN /\ prof_data_' = [prof_data_ EXCEPT ![t] = Head(fifo)]
          /\ lost' = lost \cup prof_data_[t].meas
          /\ fifo' = Tail(fifo)
     ELSE UNCHANGED <<prof_data_, lost, fifo>>
  /\ UNCHANGED <<timer, report, measured, saving>>

-----------------------------------------------------------------------------
(***************************************************************************)
(* GetProfInfo of the extracting process                                   *)
(***************************************************************************)
Fold(c, d) ==
  [max_cnt_ |-> larger(c.max_cnt_, d.max_cnt_),
   last_cnt_ |-> d.last_cnt_,
   average_cnt_ |-> c.average_cnt_ + d.average_cnt_ * d.meas_num_,
   meas_num_ |-> c.meas_num_ + d.meas_num_,
   meas |-> c.meas \cup d.meas]

GetProfInfoPop ==
  /\ fifo # << >>
  /\ fifo' = Tail(fifo)
  /\ cnt_val' = IF Head(fifo).meas_num_ = 0 THEN cnt_val ELSE Fold(cnt_val, Head(fifo))
  /\ UNCHANGED <<prof_data_, timer, pc, prof_info, measured, lost, saving>>

GetProfInfoReturn ==
  /\ fifo = << >>
  /\ cnt_val.meas_num_ # 0
  /\ prof_info' = Average(cnt_val)
  /\ cnt_val' = NoData
  /\ UNCHANGED <<fifo, prof_data_, timer, pc, measured, lost, saving>>

ThreadStep(t) ==
  \/ Start(t) \/ StopContinue(t) \/ Stop(t) \/ \E v \in PutValues : PutProfVal(t, v)
  \/ Flush(t) \/ UpdatePush(t) \/ UpdateFull(t) \/ UpdatePop(t)

Next == (\E t \in Threads : ThreadStep(t)) \/ GetProfInfoPop \/ GetProfInfoReturn

Spec == Init /\ [][Next]_vars

-----------------------------------------------------------------------------
Data == [max_cnt_ : Nat, last_cnt_ : Nat, average_cnt_ : Nat, meas_num_ : 0 .. MaxMeas,
         meas : SUBSET (1 .. MaxMeas)]

(* Types of the variables.                                                 *)
TypeOK ==
  /\ fifo \in Seq(Data) /\ Len(fifo) <= capacity
  /\ prof_data_ \in [Threads -> Data]
  /\ start_val_ \in [Threads -> 0 .. MaxTime]
  /\ acc_cnt_ \in [Threads -> Nat]
  /\ pc \in [Threads -> {"idle", "push", "pop"}]
  /\ cnt_val \in Data /\ prof_info \in Data
  /\ clock \in 1 .. MaxTime
  /\ running \in [Threads -> BOOLEAN]
  /\ ran \in [Threads -> Nat]
  /\ measured \in Seq([value : Nat, ran : Nat \cup {-1}]) /\ Len(measured) <= MaxMeas
  /\ lost \subseteq DOMAIN measured
  /\ saving \in [Threads -> SUBSET (1 .. MaxMeas)]

(* While threads save results and the extractor empties the FIFO, a        *)
(* measurement is counted in one result at most, and every result counts   *)
(* as many as it has.                                                      *)
CountedOnce ==
  /\ \A i \in DOMAIN fifo :
       /\ fifo[i].meas_num_ = Cardinality(fifo[i].meas)
       /\ fifo[i].meas_num_ # 0
       /\ fifo[i].meas \cap (lost \cup cnt_val.meas \cup prof_info.meas) = {}
       /\ \A j \in DOMAIN fifo : i # j => fifo[i].meas \cap fifo[j].meas = {}
       /\ \A t \in Threads : fifo[i].meas \cap prof_data_[t].meas = {}
  /\ \A t \in Threads :
       /\ prof_data_[t].meas_num_ = Cardinality(prof_data_[t].meas)
       /\ prof_data_[t].meas \cap (lost \cup cnt_val.meas \cup prof_info.meas) = {}
  /\ cnt_val.meas \cap (lost \cup prof_info.meas) = {}

(* Every measurement is accounted for, in the units of the clock.          *)
MeasurementsAccounted == TypeOK /\ CountedOnce

ValuesOf(S) == {measured[n].value : n \in S}
(* The sum of the values of S: how many units they have together.          *)
UnitsOf(S) == UNION {{n} \X (1 .. measured[n].value) : n \in S}
SumOf(S) == Cardinality(UnitsOf(S))

(* A report counts exactly the measurements folded into it and gives the   *)
(* largest of their values.                                                *)
MaxHonest ==
  LET r == prof_info
  IN r.meas_num_ # 0 =>
       /\ r.meas_num_ = Cardinality(r.meas)
       /\ r.max_cnt_ \in ValuesOf(r.meas)
       /\ \A v \in ValuesOf(r.meas) : v <= r.max_cnt_

(* Its average is less than two too small and never too large.             *)
AverageHonest ==
  LET r == prof_info
      sum == SumOf(r.meas)
  IN r.meas_num_ # 0 =>
       /\ r.average_cnt_ * r.meas_num_ <= sum
       /\ sum < (r.average_cnt_ + 2) * r.meas_num_

(* A report, folded from results of several threads, gives the largest     *)
(* value of exactly the measurements it counts, and an average that all    *)
(* the rounding has made less than two too small and never too large.      *)
ReportHonest == MaxHonest /\ AverageHonest

(* However often a measurement is interrupted and continued, and whatever  *)
(* is saved meanwhile, its value is the time its point ran, less delta_,   *)
(* and Start never finds a point started (its ASSERT).                     *)
MeasuresRunningTime ==
  /\ \A n \in DOMAIN measured : measured[n].ran # -1 =>
       measured[n].value = IF measured[n].ran < delta_ THEN 20
                           ELSE measured[n].ran - delta_
  /\ \A t \in Threads : ~running[t] => start_val_[t] = 0

(* "the result is saved in FIFO": when Update is done, the measurements it *)
(* saved are in the FIFO or were read from it (one thread).                *)
ResultSaved ==
  \A t \in Threads : pc[t] = "idle" => saving[t] \cap lost = {}
=============================================================================
