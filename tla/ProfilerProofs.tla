--------------------------- MODULE ProfilerProofs ---------------------------
(***************************************************************************)
(* Proofs about module Profiler, for any number of threads, any FIFO, any  *)
(* max_calls_ and any time a measurement takes itself.                     *)
(***************************************************************************)
EXTENDS Profiler, FiniteSetTheorems, TLAPS

(***************************************************************************)
(* The stop watch: what a thread would measure if it stopped now is the    *)
(* time its point ran, at every step and not only when it stops.           *)
(***************************************************************************)
Readings == [value : Nat, ran : Nat \cup {-1}]

Watches ==
  /\ clock \in 1 .. MaxTime
  /\ running \in [Threads -> BOOLEAN]
  /\ start_val_ \in [Threads -> 0 .. MaxTime]
  /\ acc_cnt_ \in [Threads -> Nat]
  /\ ran \in [Threads -> Nat]
  /\ \A t \in Threads :
       /\ running[t] => /\ start_val_[t] < clock
                        /\ ran[t] = acc_cnt_[t] + clock - start_val_[t]
       /\ ~running[t] => start_val_[t] = 0 /\ ran[t] = acc_cnt_[t]

Right(m) == m.ran # -1 => m.value = IF m.ran < delta_ THEN 20 ELSE m.ran - delta_

Recorded ==
  /\ measured \in Seq(Readings) /\ Len(measured) <= MaxMeas
  /\ \A n \in DOMAIN measured : Right(measured[n])

LEMMA Measures ==
  ASSUME Watches, NEW t \in Threads, running[t]
  PROVE  LET m == [value |-> Measurement(t), ran |-> ran[t]]
         IN  m \in Readings /\ Right(m)
<1>1. /\ clock \in Nat /\ start_val_[t] \in Nat /\ acc_cnt_[t] \in Nat
      /\ ran[t] \in Nat /\ delta_ \in Nat
      /\ ran[t] = acc_cnt_[t] + clock - start_val_[t]
  BY ProfilerAssumption DEF Watches
<1>2. /\ Measurement(t) \in Nat
      /\ Measurement(t) = IF ran[t] < delta_ THEN 20 ELSE ran[t] - delta_
  BY <1>1 DEF Measurement, Elapsed
<1>3. QED
  BY <1>1, <1>2 DEF Readings, Right

LEMMA WatchesAlways == Spec => []Watches
<1>1. Init => Watches
  BY ProfilerAssumption DEF Init, Watches
<1>2. Watches /\ [Next]_vars => Watches'
  <2> SUFFICES ASSUME Watches, [Next]_vars
               PROVE  Watches'
    OBVIOUS
  <2> USE DEF Watches
  <2>1. ASSUME NEW t \in Threads, Start(t) \/ StopContinue(t) \/ Stop(t)
        PROVE  Watches'
    <3>1. PICK runs \in BOOLEAN, s \in 0 .. MaxTime, a \in Nat :
            /\ clock < MaxTime /\ clock' = clock + 1
            /\ running' = [running EXCEPT ![t] = runs]
            /\ start_val_' = [start_val_ EXCEPT ![t] = s]
            /\ acc_cnt_' = [acc_cnt_ EXCEPT ![t] = a]
            /\ runs => s = clock /\ a = ran[t] /\ ran'[t] = ran[t] + 1
            /\ ~runs => s = 0 /\ a = ran'[t]
      <4>1. CASE Start(t)
        <5>1. /\ ~running[t] /\ start_val_' = [start_val_ EXCEPT ![t] = clock]
              /\ clock < MaxTime /\ clock' = clock + 1 /\ acc_cnt_' = acc_cnt_
              /\ running' = [running EXCEPT ![t] = TRUE]
              /\ ran' = [u \in Threads |-> IF running'[u] THEN ran[u] + 1 ELSE ran[u]]
          BY <4>1 DEF Start, ReadClock
        <5>2. ran'[t] = ran[t] + 1 /\ acc_cnt_[t] = ran[t] /\ acc_cnt_[t] \in Nat
          BY <5>1
        <5>3. acc_cnt_' = [acc_cnt_ EXCEPT ![t] = acc_cnt_[t]]
          BY <5>1
        <5>4. clock \in 0 .. MaxTime
          BY <5>1, ProfilerAssumption
        <5>5. QED
          BY <5>1, <5>2, <5>3, <5>4
      <4>2. CASE StopContinue(t)
        <5>1. /\ running[t] /\ start_val_' = [start_val_ EXCEPT ![t] = 0]
              /\ clock < MaxTime /\ clock' = clock + 1
              /\ acc_cnt_' = [acc_cnt_ EXCEPT ![t] = acc_cnt_[t] + clock - start_val_[t]]
              /\ running' = [running EXCEPT ![t] = FALSE]
              /\ ran' = [u \in Threads |-> IF running'[u] THEN ran[u] + 1 ELSE ran[u]]
          BY <4>2 DEF StopContinue, ReadClock
        <5>2. ran'[t] = ran[t] /\ ran[t] = acc_cnt_[t] + clock - start_val_[t]
              /\ ran[t] \in Nat
          BY <5>1
        <5>3. 0 \in 0 .. MaxTime
          BY ProfilerAssumption
        <5>4. QED
          BY <5>1, <5>2, <5>3
      <4>3. CASE Stop(t)
        <5>1. /\ start_val_' = [start_val_ EXCEPT ![t] = 0]
              /\ clock < MaxTime /\ clock' = clock + 1
              /\ acc_cnt_' = [acc_cnt_ EXCEPT ![t] = 0]
              /\ running' = [running EXCEPT ![t] = FALSE]
              /\ ran'[t] = 0
          BY <4>3 DEF Stop, Count
        <5>2. 0 \in 0 .. MaxTime
          BY ProfilerAssumption
        <5>3. 0 \in Nat /\ FALSE \in BOOLEAN
          OBVIOUS
        <5>4. QED
          BY <5>1, <5>2, <5>3, Zenon
      <4>4. QED
        BY <2>1, <4>1, <4>2, <4>3
    <3>2. /\ ran' \in [Threads -> Nat]
          /\ \A u \in Threads \ {t} :
               ran'[u] = IF running[u] THEN ran[u] + 1 ELSE ran[u]
      <4>1. CASE Stop(t)
        <5>1. ran' = [u \in Threads |-> IF u = t THEN 0
                                        ELSE IF running[u] THEN ran[u] + 1 ELSE ran[u]]
          BY <4>1 DEF Stop
        <5>2. QED
          BY <5>1
      <4>2. CASE Start(t) \/ StopContinue(t)
        <5>1. ran' = [u \in Threads |-> IF running'[u] THEN ran[u] + 1 ELSE ran[u]]
          BY <4>2 DEF Start, StopContinue, ReadClock
        <5>2. \A u \in Threads \ {t} : running'[u] = running[u]
          BY <3>1
        <5>3. QED
          BY <5>1, <5>2
      <4>3. QED
        BY <2>1, <4>1, <4>2
    <3>3. clock' \in 1 .. MaxTime
      BY <3>1, ProfilerAssumption
    <3>4. ASSUME NEW u \in Threads
          PROVE  /\ running'[u] => /\ start_val_'[u] < clock'
                                   /\ ran'[u] = acc_cnt_'[u] + clock' - start_val_'[u]
                 /\ ~running'[u] => start_val_'[u] = 0 /\ ran'[u] = acc_cnt_'[u]
      <4>1. CASE u = t
        BY <3>1, <4>1
      <4>2. CASE u # t
        <5>1. /\ running'[u] = running[u] /\ start_val_'[u] = start_val_[u]
              /\ acc_cnt_'[u] = acc_cnt_[u]
          BY <3>1, <4>2
        <5>2. CASE running[u]
          BY <3>1, <3>2, <4>2, <5>1, <5>2
        <5>3. CASE ~running[u]
          BY <3>1, <3>2, <4>2, <5>1, <5>3
        <5>4. QED
          BY <5>2, <5>3
      <4>3. QED
        BY <4>1, <4>2
    <3>5. /\ running' \in [Threads -> BOOLEAN]
          /\ start_val_' \in [Threads -> 0 .. MaxTime]
          /\ acc_cnt_' \in [Threads -> Nat]
      BY <3>1
    <3>6. QED
      BY <3>2, <3>3, <3>4, <3>5
  <2>2. ASSUME NEW t \in Threads, NEW v \in PutValues, PutProfVal(t, v)
        PROVE  Watches'
    <3>1. /\ ~running[t] /\ acc_cnt_[t] = 0
          /\ acc_cnt_' = [acc_cnt_ EXCEPT ![t] = 0]
          /\ start_val_' = [start_val_ EXCEPT ![t] = 0]
          /\ UNCHANGED <<clock, running, ran>>
      BY <2>2 DEF PutProfVal, Count
    <3>2. acc_cnt_' = acc_cnt_ /\ start_val_' = start_val_
      BY <3>1
    <3>3. QED
      BY <3>1, <3>2
  <2>3. CASE UNCHANGED timer
    BY <2>3 DEF timer
  <2>4. QED
    BY <2>1, <2>2, <2>3
    DEF Next, ThreadStep, Flush, UpdatePush, UpdateFull, UpdatePop,
        GetProfInfoPop, GetProfInfoReturn, vars
<1>3. QED
  BY <1>1, <1>2, PTL DEF Spec

LEMMA RecordedAlways == Spec => []Recorded
<1>1. Init => Recorded
  BY ProfilerAssumption DEF Init, Recorded
<1>2. Watches /\ Recorded /\ [Next]_vars => Recorded'
  <2> SUFFICES ASSUME Watches, Recorded, [Next]_vars
               PROVE  Recorded'
    OBVIOUS
  <2>1. ASSUME NEW m \in Readings, Right(m), measured' = Append(measured, m),
               Len(measured) + 1 <= MaxMeas
        PROVE  Recorded'
    <3>1. measured' \in Seq(Readings) /\ Len(measured') = Len(measured) + 1
      BY <2>1 DEF Recorded
    <3>2. \A n \in DOMAIN measured' : measured'[n] = m \/
            (n \in DOMAIN measured /\ measured'[n] = measured[n])
      BY <2>1 DEF Recorded
    <3>3. QED
      BY <2>1, <3>1, <3>2 DEF Recorded
  <2>2. ASSUME NEW t \in Threads, Stop(t)
        PROVE  Recorded'
    BY <2>1, <2>2, Measures DEF Stop, Count
  <2>3. ASSUME NEW t \in Threads, NEW v \in PutValues, PutProfVal(t, v)
        PROVE  Recorded'
    <3>1. [value |-> v, ran |-> -1] \in Readings /\ Right([value |-> v, ran |-> -1])
      BY ProfilerAssumption DEF Readings, Right
    <3>2. QED
      BY <2>1, <2>3, <3>1 DEF PutProfVal, Count
  <2>4. CASE UNCHANGED measured
    BY <2>4 DEF Recorded
  <2>5. QED
    BY <2>2, <2>3, <2>4
    DEF Next, ThreadStep, Start, StopContinue, Flush, UpdatePush, UpdateFull,
        UpdatePop, GetProfInfoPop, GetProfInfoReturn, vars
<1>3. QED
  BY <1>1, <1>2, WatchesAlways, PTL DEF Spec

(* A measurement is the time its point ran less what measuring takes, for  *)
(* any interruptions and however results are saved meanwhile.              *)
THEOREM MeasuresRunningTimeAlways == Spec => []MeasuresRunningTime
<1>1. Watches /\ Recorded => MeasuresRunningTime
  BY DEF Watches, Recorded, Right, MeasuresRunningTime
<1>2. QED
  BY <1>1, WatchesAlways, RecordedAlways, PTL

-----------------------------------------------------------------------------
(***************************************************************************)
(* Results count what they have, and no measurement is in two places.      *)
(***************************************************************************)
Counts(d) ==
  /\ d.meas \subseteq 1 .. Len(measured)
  /\ d.meas_num_ = Cardinality(d.meas)

Results ==
  /\ fifo \in Seq(Data) /\ Len(fifo) <= capacity
  /\ prof_data_ \in [Threads -> Data]
  /\ cnt_val \in Data /\ prof_info \in Data
  /\ pc \in [Threads -> {"idle", "push", "pop"}]
  /\ saving \in [Threads -> SUBSET (1 .. MaxMeas)]
  /\ lost \subseteq 1 .. Len(measured)
  /\ \A i \in DOMAIN fifo : Counts(fifo[i]) /\ fifo[i].meas_num_ # 0
  /\ \A t \in Threads :
       Counts(prof_data_[t]) /\ (pc[t] # "idle" => prof_data_[t].meas_num_ # 0)
  /\ Counts(cnt_val) /\ Counts(prof_info)

Reported == cnt_val.meas \cup prof_info.meas

Apart ==
  /\ \A i \in DOMAIN fifo :
       /\ fifo[i].meas \cap (lost \cup Reported) = {}
       /\ \A j \in DOMAIN fifo : i # j => fifo[i].meas \cap fifo[j].meas = {}
       /\ \A t \in Threads : fifo[i].meas \cap prof_data_[t].meas = {}
  /\ \A t \in Threads :
       /\ prof_data_[t].meas \cap (lost \cup Reported) = {}
       /\ \A u \in Threads : t # u => prof_data_[t].meas \cap prof_data_[u].meas = {}
  /\ cnt_val.meas \cap (lost \cup prof_info.meas) = {}

LEMMA FewMeasurements ==
  ASSUME Recorded, NEW S \in SUBSET (1 .. Len(measured))
  PROVE  /\ IsFiniteSet(S) /\ Cardinality(S) \in 0 .. MaxMeas
         /\ S \in SUBSET (1 .. MaxMeas)
<1>1. Len(measured) \in Nat /\ MaxMeas \in Nat /\ Len(measured) <= MaxMeas
  BY ProfilerAssumption DEF Recorded
<1>2. IsFiniteSet(1 .. Len(measured)) /\ Cardinality(1 .. Len(measured)) = Len(measured)
  <2>1. 1 \in Int /\ Len(measured) \in Int
    BY <1>1
  <2>2. /\ IsFiniteSet(1 .. Len(measured))
        /\ Cardinality(1 .. Len(measured))
             = IF 1 > Len(measured) THEN 0 ELSE Len(measured) - 1 + 1
    BY <2>1, FS_Interval, Zenon
  <2>3. QED
    BY <1>1, <2>2
<1>3. IsFiniteSet(S) /\ Cardinality(S) <= Len(measured) /\ Cardinality(S) \in Nat
  BY <1>2, FS_Subset, FS_CardinalityType
<1>4. QED
  BY <1>1, <1>3

LEMMA AverageIsData ==
  ASSUME NEW d \in Data, d.meas_num_ # 0
  PROVE  /\ Average(d) \in Data
         /\ Average(d).meas = d.meas /\ Average(d).meas_num_ = d.meas_num_
         /\ Average(d).max_cnt_ = d.max_cnt_
<1>1. d.average_cnt_ \in Nat /\ d.meas_num_ \in Nat \ {0}
  BY DEF Data
<1>2. d.average_cnt_ \div d.meas_num_ \in Nat
  BY <1>1
<1>3. QED
  BY <1>2 DEF Average, Data

LEMMA LargerOf ==
  ASSUME NEW x \in Nat, NEW y \in Nat
  PROVE  larger(x, y) \in {x, y} /\ larger(x, y) \in Nat
         /\ x <= larger(x, y) /\ y <= larger(x, y)
BY DEF larger

(* What Stop makes of the data of its point.                               *)
Sum(d, value) ==
  [max_cnt_ |-> larger(d.max_cnt_, value), last_cnt_ |-> value,
   average_cnt_ |-> d.average_cnt_ + value,
   meas_num_ |-> d.meas_num_ + 1, meas |-> d.meas \cup {Len(measured) + 1}]

LEMMA SumIsData ==
  ASSUME Recorded, NEW d \in Data, Counts(d), NEW value \in Nat,
         Len(measured) + 1 <= MaxMeas
  PROVE  /\ Sum(d, value) \in Data
         /\ Sum(d, value).meas = d.meas \cup {Len(measured) + 1}
         /\ Sum(d, value).meas_num_ = Cardinality(Sum(d, value).meas)
         /\ Sum(d, value).meas_num_ # 0
         /\ Sum(d, value).max_cnt_ = larger(d.max_cnt_, value)
<1> DEFINE n == Len(measured) + 1
<1>1. Len(measured) \in Nat /\ MaxMeas \in Nat
  BY ProfilerAssumption DEF Recorded
<1>2. IsFiniteSet(d.meas) /\ d.meas_num_ \in Nat /\ d.meas \subseteq 1 .. MaxMeas
      /\ n \notin d.meas
  BY <1>1, FewMeasurements DEF Counts, Data
<1>3. Cardinality(d.meas \cup {n}) = d.meas_num_ + 1
  BY <1>2, FS_AddElement DEF Counts
<1>4. n \in 1 .. MaxMeas /\ d.meas \cup {n} \in SUBSET (1 .. MaxMeas)
  BY <1>1, <1>2
<1>5. d.meas_num_ + 1 \in 0 .. MaxMeas
  <2>1. IsFiniteSet(1 .. MaxMeas) /\ Cardinality(1 .. MaxMeas) = MaxMeas
    BY <1>1, FS_Interval
  <2>2. Cardinality(d.meas \cup {n}) <= MaxMeas
    BY <1>4, <2>1, FS_Subset
  <2>3. QED
    BY <1>1, <1>2, <1>3, <2>2
<1>6. larger(d.max_cnt_, value) \in Nat /\ d.average_cnt_ + value \in Nat
  <2>1. d.max_cnt_ \in Nat /\ d.average_cnt_ \in Nat
    BY DEF Data
  <2>2. larger(d.max_cnt_, value) \in Nat
    BY <2>1, LargerOf, Zenon
  <2>3. QED
    BY <2>1, <2>2
<1>7. QED
  BY <1>2, <1>3, <1>4, <1>5, <1>6 DEF Sum, Data

LEMMA FoldIsData ==
  ASSUME Recorded, NEW c \in Data, NEW d \in Data, Counts(c), Counts(d),
         c.meas \cap d.meas = {}, d.meas_num_ # 0
  PROVE  /\ Fold(c, d) \in Data /\ Counts(Fold(c, d))
         /\ Fold(c, d).meas = c.meas \cup d.meas
<1>1. /\ c.meas \subseteq 1 .. Len(measured) /\ d.meas \subseteq 1 .. Len(measured)
      /\ c.meas_num_ = Cardinality(c.meas) /\ d.meas_num_ = Cardinality(d.meas)
  BY DEF Counts
<1>2. IsFiniteSet(c.meas) /\ IsFiniteSet(d.meas)
      /\ c.meas_num_ \in Nat /\ d.meas_num_ \in Nat
  BY <1>1, FewMeasurements
<1>3. c.meas \cup d.meas \in SUBSET (1 .. Len(measured))
  BY <1>1
<1>4. /\ Cardinality(c.meas \cup d.meas) \in 0 .. MaxMeas
      /\ c.meas \cup d.meas \in SUBSET (1 .. MaxMeas)
  BY <1>3, FewMeasurements
<1>5. Cardinality(c.meas \cup d.meas) = c.meas_num_ + d.meas_num_
  <2>1. Cardinality(c.meas \cap d.meas) = 0
    BY FS_EmptySet
  <2>2. Cardinality(c.meas \cup d.meas)
          = Cardinality(c.meas) + Cardinality(d.meas) - Cardinality(c.meas \cap d.meas)
    BY <1>2, FS_Union, Zenon
  <2>3. QED
    BY <1>1, <1>2, <2>1, <2>2
<1>6. /\ larger(c.max_cnt_, d.max_cnt_) \in Nat /\ d.last_cnt_ \in Nat
      /\ c.average_cnt_ + d.average_cnt_ * d.meas_num_ \in Nat
  <2>1. /\ c.max_cnt_ \in Nat /\ d.max_cnt_ \in Nat /\ d.last_cnt_ \in Nat
        /\ c.average_cnt_ \in Nat /\ d.average_cnt_ \in Nat
    BY DEF Data
  <2>2. \A x, y, z \in Nat : x + y * z \in Nat
    OBVIOUS
  <2>3. QED
    BY <1>2, <2>1, <2>2, LargerOf
<1>7. QED
  BY <1>3, <1>4, <1>5, <1>6 DEF Fold, Data, Counts

LEMMA NoDataIsData ==
  NoData \in Data /\ Counts(NoData) /\ NoData.meas = {} /\ NoData.meas_num_ = 0
BY ProfilerAssumption, FS_EmptySet DEF NoData, Data, Counts

(* A step of t that leaves what its point has measured where it is.        *)
Touches(t) ==
  /\ UNCHANGED <<fifo, report, measured, lost>>
  /\ \E d \in Data :
       /\ prof_data_' = [prof_data_ EXCEPT ![t] = d]
       /\ d.meas = prof_data_[t].meas /\ d.meas_num_ = prof_data_[t].meas_num_
       /\ d.max_cnt_ = prof_data_[t].max_cnt_
  /\ \E p \in {"idle", "push", "pop"} :
       pc' = [pc EXCEPT ![t] = p] /\ (p # "idle" => prof_data_[t].meas_num_ # 0)
  /\ saving' \in [Threads -> SUBSET (1 .. MaxMeas)]

(* A step of t that measures.                                              *)
Adds(t) ==
  /\ UNCHANGED <<fifo, report, lost>>
  /\ Len(measured') = Len(measured) + 1
  /\ \A n \in 1 .. Len(measured) : measured'[n] = measured[n]
  /\ measured'[Len(measured) + 1].value \in Nat
  /\ \E d \in Data :
       /\ prof_data_' = [prof_data_ EXCEPT ![t] = d]
       /\ d.meas = prof_data_[t].meas \cup {Len(measured) + 1}
       /\ d.meas_num_ = Cardinality(d.meas) /\ d.meas_num_ # 0
       /\ d.max_cnt_ = larger(prof_data_[t].max_cnt_,
                              measured'[Len(measured) + 1].value)
  /\ \E p \in {"idle", "push"} : pc' = [pc EXCEPT ![t] = p]
  /\ saving' \in [Threads -> SUBSET (1 .. MaxMeas)]

LEMMA TouchSteps ==
  ASSUME Recorded, Results, NEW t \in Threads,
         Start(t) \/ StopContinue(t) \/ Flush(t) \/ UpdateFull(t)
  PROVE  Touches(t)
<1>1. prof_data_[t] \in Data /\ pc[t] \in {"idle", "push", "pop"}
      /\ saving \in [Threads -> SUBSET (1 .. MaxMeas)]
      /\ prof_data_ = [prof_data_ EXCEPT ![t] = prof_data_[t]]
      /\ pc = [pc EXCEPT ![t] = pc[t]]
  BY DEF Results
<1>2. CASE Start(t)
  <2>1. [prof_data_[t] EXCEPT !.last_cnt_ = 1] \in Data
    BY <1>1 DEF Data
  <2>2. prof_data_' = [prof_data_ EXCEPT ![t] = [prof_data_[t] EXCEPT !.last_cnt_ = 1]]
    BY <1>2 DEF Start
  <2>3. /\ [prof_data_[t] EXCEPT !.last_cnt_ = 1].meas = prof_data_[t].meas
        /\ [prof_data_[t] EXCEPT !.last_cnt_ = 1].max_cnt_ = prof_data_[t].max_cnt_
        /\ [prof_data_[t] EXCEPT !.last_cnt_ = 1].meas_num_ = prof_data_[t].meas_num_
    BY <1>1 DEF Data
  <2>4. UNCHANGED <<fifo, report, measured, lost, pc, saving>> /\ pc[t] = "idle"
    BY <1>2 DEF Start
  <2>5. QED
    BY <1>1, <2>1, <2>2, <2>3, <2>4 DEF Touches
<1>3. CASE StopContinue(t) \/ UpdateFull(t)
  <2>1. UNCHANGED <<fifo, prof_data_, report, measured, lost, saving>>
    BY <1>3 DEF StopContinue, UpdateFull
  <2>2. \E p \in {"idle", "push", "pop"} :
          pc' = [pc EXCEPT ![t] = p] /\ (p # "idle" => prof_data_[t].meas_num_ # 0)
    <3>1. CASE StopContinue(t)
      BY <1>1, <3>1 DEF StopContinue
    <3>2. CASE UpdateFull(t)
      BY <3>2 DEF UpdateFull, Results
    <3>3. QED
      BY <1>3, <3>1, <3>2
  <2>3. QED
    BY <1>1, <2>1, <2>2 DEF Touches
<1>4. CASE Flush(t)
  <2>1. /\ prof_data_[t].meas_num_ # 0
        /\ prof_data_' = [prof_data_ EXCEPT ![t] = Average(prof_data_[t])]
        /\ saving' = [saving EXCEPT ![t] = prof_data_[t].meas]
        /\ pc' = [pc EXCEPT ![t] = "push"]
        /\ UNCHANGED <<fifo, report, measured, lost>>
    BY <1>4 DEF Flush
  <2>2. prof_data_[t].meas \in SUBSET (1 .. MaxMeas)
    BY FewMeasurements DEF Results, Counts
  <2>3. saving' \in [Threads -> SUBSET (1 .. MaxMeas)]
    BY <1>1, <2>1, <2>2
  <2>4. /\ Average(prof_data_[t]) \in Data
        /\ Average(prof_data_[t]).meas = prof_data_[t].meas
        /\ Average(prof_data_[t]).meas_num_ = prof_data_[t].meas_num_
        /\ Average(prof_data_[t]).max_cnt_ = prof_data_[t].max_cnt_
    BY <1>1, <2>1, AverageIsData
  <2>5. QED
    BY <2>1, <2>3, <2>4 DEF Touches
<1>5. QED
  BY <1>2, <1>3, <1>4

(* What Stop and PutProfVal count, and that it is recorded.                *)
LEMMA MeasuredValue ==
  ASSUME Watches, Recorded, Results, NEW t \in Threads,
         Stop(t) \/ \E v \in PutValues : PutProfVal(t, v)
  PROVE  \E value \in Nat, r \in Nat \cup {-1} :
           /\ Count(t, value) /\ UNCHANGED <<fifo, report, lost>> /\ pc[t] = "idle"
           /\ measured' = Append(measured, [value |-> value, ran |-> r])
<1>1. CASE Stop(t)
  <2>1. /\ Count(t, Measurement(t)) /\ UNCHANGED <<fifo, report, lost>>
        /\ measured' = Append(measured, [value |-> Measurement(t), ran |-> ran[t]])
        /\ running[t] /\ pc[t] = "idle"
    BY <1>1 DEF Stop
  <2>2. Measurement(t) \in Nat /\ ran[t] \in Nat
    <3>1. [value |-> Measurement(t), ran |-> ran[t]] \in Readings
      BY <2>1, Measures
    <3>2. Measurement(t) \in Nat
      BY <3>1 DEF Readings
    <3>3. QED
      BY <3>2 DEF Watches
  <2>3. QED
    BY <2>1, <2>2
<1>2. CASE \E v \in PutValues : PutProfVal(t, v)
  <2>1. PICK v \in PutValues : PutProfVal(t, v)
    BY <1>2
  <2>2. v \in Nat /\ -1 \in Nat \cup {-1}
    BY ProfilerAssumption
  <2>3. /\ Count(t, v) /\ UNCHANGED <<fifo, report, lost>> /\ pc[t] = "idle"
        /\ measured' = Append(measured, [value |-> v, ran |-> -1])
    BY <2>1 DEF PutProfVal
  <2>4. QED
    BY <2>2, <2>3
<1>3. QED
  BY <1>1, <1>2

LEMMA MeasureSteps ==
  ASSUME Watches, Recorded, Results, NEW t \in Threads,
         Stop(t) \/ \E v \in PutValues : PutProfVal(t, v)
  PROVE  Adds(t)
<1>1. PICK value \in Nat, r \in Nat \cup {-1} :
        /\ Count(t, value) /\ UNCHANGED <<fifo, report, lost>> /\ pc[t] = "idle"
        /\ measured' = Append(measured, [value |-> value, ran |-> r])
  BY MeasuredValue
<1> DEFINE sum == Sum(prof_data_[t], value)
<1>2. /\ Len(measured) + 1 <= MaxMeas
      /\ IF max_calls_ # 0 /\ max_calls_ <= sum.meas_num_
         THEN /\ prof_data_' = [prof_data_ EXCEPT ![t] = Average(sum)]
              /\ saving' = [saving EXCEPT ![t] = sum.meas]
              /\ pc' = [pc EXCEPT ![t] = "push"]
         ELSE /\ prof_data_' = [prof_data_ EXCEPT ![t] = sum]
              /\ UNCHANGED <<saving, pc>>
      /\ pc[t] = "idle"
  BY <1>1 DEF Count, Sum
<1>3. prof_data_[t] \in Data /\ Counts(prof_data_[t])
      /\ saving \in [Threads -> SUBSET (1 .. MaxMeas)]
      /\ pc = [pc EXCEPT ![t] = pc[t]]
  BY DEF Results
<1>4. /\ sum \in Data /\ sum.meas = prof_data_[t].meas \cup {Len(measured) + 1}
      /\ sum.meas_num_ = Cardinality(sum.meas) /\ sum.meas_num_ # 0
      /\ sum.max_cnt_ = larger(prof_data_[t].max_cnt_, value)
  BY <1>2, <1>3, SumIsData
<1>5. /\ Average(sum) \in Data /\ Average(sum).meas = sum.meas
      /\ Average(sum).meas_num_ = sum.meas_num_ /\ Average(sum).max_cnt_ = sum.max_cnt_
  BY <1>4, AverageIsData
<1>6. /\ Len(measured') = Len(measured) + 1
      /\ \A n \in 1 .. Len(measured) : measured'[n] = measured[n]
      /\ measured'[Len(measured) + 1].value = value
  BY <1>1 DEF Recorded
<1>7. sum.meas \in SUBSET (1 .. MaxMeas)
  BY <1>4 DEF Data
<1> HIDE DEF sum
<1>8. saving' \in [Threads -> SUBSET (1 .. MaxMeas)]
  BY <1>2, <1>3, <1>7
<1>9. CASE max_calls_ # 0 /\ max_calls_ <= sum.meas_num_
  BY <1>1, <1>2, <1>4, <1>5, <1>6, <1>8, <1>9 DEF Adds
<1>10. CASE ~(max_calls_ # 0 /\ max_calls_ <= sum.meas_num_)
  BY <1>1, <1>2, <1>3, <1>4, <1>6, <1>8, <1>10 DEF Adds
<1>11. QED
  BY <1>9, <1>10

LEMMA TouchesKeep ==
  ASSUME Recorded, Results, Apart, NEW t \in Threads, Touches(t)
  PROVE  Results' /\ Apart'
<1>1. PICK d \in Data, p \in {"idle", "push", "pop"} :
        /\ prof_data_' = [prof_data_ EXCEPT ![t] = d]
        /\ d.meas = prof_data_[t].meas /\ d.meas_num_ = prof_data_[t].meas_num_
        /\ pc' = [pc EXCEPT ![t] = p] /\ (p # "idle" => prof_data_[t].meas_num_ # 0)
  BY DEF Touches
<1>2. /\ UNCHANGED <<fifo, cnt_val, prof_info, measured, lost>>
      /\ saving' \in [Threads -> SUBSET (1 .. MaxMeas)]
  BY DEF Touches, report
<1>3. /\ prof_data_' \in [Threads -> Data] /\ pc' \in [Threads -> {"idle", "push", "pop"}]
      /\ \A u \in Threads :
           /\ prof_data_'[u].meas = prof_data_[u].meas
           /\ prof_data_'[u].meas_num_ = prof_data_[u].meas_num_
           /\ pc'[u] # "idle" => prof_data_'[u].meas_num_ # 0
  BY <1>1 DEF Results
<1>4. Results'
  BY <1>2, <1>3 DEF Results, Counts
<1>5. Apart'
  BY <1>2, <1>3 DEF Apart, Reported
<1>6. QED
  BY <1>4, <1>5

LEMMA AddsKeep ==
  ASSUME Recorded, Results, Apart, NEW t \in Threads, Adds(t)
  PROVE  Results' /\ Apart'
<1> DEFINE n == Len(measured) + 1
<1>1. PICK d \in Data, p \in {"idle", "push"} :
        /\ prof_data_' = [prof_data_ EXCEPT ![t] = d]
        /\ d.meas = prof_data_[t].meas \cup {n}
        /\ d.meas_num_ = Cardinality(d.meas) /\ d.meas_num_ # 0
        /\ pc' = [pc EXCEPT ![t] = p]
  BY DEF Adds
<1>2. /\ UNCHANGED <<fifo, cnt_val, prof_info, lost>>
      /\ saving' \in [Threads -> SUBSET (1 .. MaxMeas)]
      /\ Len(measured') = n /\ Len(measured) \in Nat
  BY DEF Adds, report, Recorded
<1>3. /\ \A S \in SUBSET (1 .. Len(measured)) : n \notin S /\ S \subseteq 1 .. Len(measured')
      /\ n \in 1 .. Len(measured')
  BY <1>2
<1> HIDE DEF n
<1>4. /\ prof_data_' \in [Threads -> Data] /\ pc' \in [Threads -> {"idle", "push", "pop"}]
      /\ prof_data_'[t].meas = prof_data_[t].meas \cup {n}
      /\ Counts(prof_data_[t])' /\ prof_data_'[t].meas_num_ # 0
      /\ \A u \in Threads \ {t} : prof_data_'[u] = prof_data_[u] /\ pc'[u] = pc[u]
  BY <1>1, <1>3 DEF Results, Counts
<1>5. \A c : Counts(c) => n \notin c.meas /\ Counts(c)'
  BY <1>3 DEF Counts
<1>6. Results'
  <2>1. \A u \in Threads :
          Counts(prof_data_[u])' /\ (pc'[u] # "idle" => prof_data_'[u].meas_num_ # 0)
    BY <1>3, <1>4 DEF Results, Counts
  <2>2. \A i \in DOMAIN fifo' : Counts(fifo[i])' /\ fifo'[i].meas_num_ # 0
    BY <1>2, <1>3 DEF Results, Counts
  <2>3. Counts(cnt_val)' /\ Counts(prof_info)'
    BY <1>2, <1>3 DEF Results, Counts
  <2>4. lost' \subseteq 1 .. Len(measured')
    BY <1>2, <1>3 DEF Results
  <2>5. QED
    BY <1>2, <1>4, <2>1, <2>2, <2>3, <2>4 DEF Results
<1>7. Apart'
  <2>1. /\ n \notin lost \cup Reported
        /\ \A i \in DOMAIN fifo : n \notin fifo[i].meas
        /\ \A u \in Threads : n \notin prof_data_[u].meas
    BY <1>3, <1>5 DEF Results, Reported
  <2>2. /\ \A u \in Threads \ {t} : prof_data_'[u].meas = prof_data_[u].meas
        /\ prof_data_'[t].meas = prof_data_[t].meas \cup {n}
    BY <1>4
  <2>3. /\ prof_data_[t].meas \cap (lost \cup Reported) = {}
        /\ \A i \in DOMAIN fifo : fifo[i].meas \cap prof_data_[t].meas = {}
        /\ \A u \in Threads \ {t} : prof_data_[t].meas \cap prof_data_[u].meas = {}
    BY DEF Apart
  <2>4. ASSUME NEW u \in Threads
        PROVE  /\ prof_data_'[u].meas \cap (lost \cup Reported) = {}
               /\ \A i \in DOMAIN fifo : fifo[i].meas \cap prof_data_'[u].meas = {}
               /\ \A w \in Threads \ {u} : prof_data_'[u].meas \cap prof_data_'[w].meas = {}
    <3>1. CASE u = t
      BY <2>1, <2>2, <2>3, <3>1
    <3>2. CASE u # t
      BY <2>1, <2>2, <3>2 DEF Apart
    <3>3. QED
      BY <3>1, <3>2
  <2>5. Reported' = Reported
    BY <1>2 DEF Reported
  <2>6. QED
    BY <1>2, <2>4, <2>5 DEF Apart
<1>8. QED
  BY <1>6, <1>7

LEMMA UpdatePushKeeps ==
  ASSUME Recorded, Results, Apart, NEW t \in Threads, UpdatePush(t)
  PROVE  Results' /\ Apart'
<1>1. /\ pc[t] = "push" /\ Len(fifo) < capacity
      /\ fifo' = Append(fifo, prof_data_[t])
      /\ prof_data_' = [prof_data_ EXCEPT ![t] = NoData]
      /\ pc' = [pc EXCEPT ![t] = "idle"]
      /\ UNCHANGED <<cnt_val, prof_info, measured, lost, saving>>
  BY DEF UpdatePush, ResetProfData, report
<1>2. prof_data_[t] \in Data /\ Counts(prof_data_[t]) /\ prof_data_[t].meas_num_ # 0
  BY <1>1 DEF Results
<1>3. /\ fifo' \in Seq(Data) /\ Len(fifo') <= capacity /\ Len(fifo) \in Nat
      /\ DOMAIN fifo = 1 .. Len(fifo) /\ DOMAIN fifo' = 1 .. Len(fifo) + 1
      /\ fifo'[Len(fifo) + 1] = prof_data_[t]
      /\ \A i \in DOMAIN fifo : fifo'[i] = fifo[i]
  BY <1>1, <1>2, ProfilerAssumption DEF Results
<1>4. \A i \in DOMAIN fifo' : i \in DOMAIN fifo \/ i = Len(fifo) + 1
  BY <1>3
<1>5. /\ prof_data_' \in [Threads -> Data]
      /\ prof_data_'[t] = NoData /\ prof_data_'[t].meas = {} /\ pc'[t] = "idle"
      /\ pc' \in [Threads -> {"idle", "push", "pop"}]
      /\ \A u \in Threads \ {t} : prof_data_'[u] = prof_data_[u] /\ pc'[u] = pc[u]
  BY <1>1, NoDataIsData DEF Results
<1>6. Results'
  <2>1. \A i \in DOMAIN fifo' : Counts(fifo'[i]) /\ fifo'[i].meas_num_ # 0
    BY <1>2, <1>3, <1>4 DEF Results
  <2>2. \A u \in Threads :
          Counts(prof_data_'[u]) /\ (pc'[u] # "idle" => prof_data_'[u].meas_num_ # 0)
    BY <1>5, NoDataIsData DEF Results
  <2>3. QED
    BY <1>1, <1>3, <1>5, <2>1, <2>2 DEF Results, Counts
<1>7. Apart'
  <2>1. \A u \in Threads : prof_data_'[u].meas \subseteq prof_data_[u].meas
                           /\ prof_data_'[u].meas \cap prof_data_[t].meas = {}
    BY <1>5 DEF Apart
  <2>2. ASSUME NEW i \in DOMAIN fifo'
        PROVE  /\ fifo'[i].meas \cap (lost \cup Reported) = {}
               /\ \A j \in DOMAIN fifo' : i # j => fifo'[i].meas \cap fifo'[j].meas = {}
               /\ \A u \in Threads : fifo'[i].meas \cap prof_data_'[u].meas = {}
    <3>1. CASE i = Len(fifo) + 1
      BY <1>3, <1>4, <2>1, <3>1 DEF Apart
    <3>2. CASE i # Len(fifo) + 1
      BY <1>3, <1>4, <2>1, <3>2 DEF Apart
    <3>3. QED
      BY <3>1, <3>2
  <2>3. Reported' = Reported /\ lost' = lost /\ UNCHANGED <<cnt_val, prof_info>>
    BY <1>1 DEF Reported
  <2>4. QED
    BY <2>1, <2>2, <2>3 DEF Apart
<1>8. QED
  BY <1>6, <1>7

(* What popping the oldest result leaves in the FIFO.                      *)
LEMMA OldestResult ==
  ASSUME Results, Apart, fifo # << >>, fifo' = Tail(fifo)
  PROVE  /\ fifo' \in Seq(Data) /\ Len(fifo') <= capacity
         /\ Head(fifo) \in Data /\ Counts(Head(fifo)) /\ Head(fifo).meas_num_ # 0
         /\ \A i \in DOMAIN fifo' :
              /\ i + 1 \in DOMAIN fifo /\ fifo'[i] = fifo[i + 1]
              /\ fifo'[i].meas \cap Head(fifo).meas = {}
              /\ \A j \in DOMAIN fifo' : i # j => fifo'[i].meas \cap fifo'[j].meas = {}
         /\ Head(fifo).meas \cap (lost \cup Reported) = {}
         /\ \A u \in Threads : Head(fifo).meas \cap prof_data_[u].meas = {}
<1>1. /\ fifo' \in Seq(Data) /\ Len(fifo') <= capacity
      /\ 1 \in DOMAIN fifo /\ Head(fifo) = fifo[1] /\ Head(fifo) \in Data
      /\ \A i \in DOMAIN fifo' : /\ i + 1 \in DOMAIN fifo /\ fifo'[i] = fifo[i + 1]
                                 /\ i \in Nat /\ i + 1 # 1
  BY ProfilerAssumption DEF Results
<1>2. ASSUME NEW i \in DOMAIN fifo'
      PROVE  /\ fifo'[i].meas \cap Head(fifo).meas = {}
             /\ \A j \in DOMAIN fifo' : i # j => fifo'[i].meas \cap fifo'[j].meas = {}
  BY <1>1 DEF Apart
<1>3. /\ Counts(Head(fifo)) /\ Head(fifo).meas_num_ # 0
      /\ Head(fifo).meas \cap (lost \cup Reported) = {}
      /\ \A u \in Threads : Head(fifo).meas \cap prof_data_[u].meas = {}
  BY <1>1 DEF Apart, Results
<1>4. QED
  BY <1>1, <1>2, <1>3

LEMMA UpdatePopKeeps ==
  ASSUME Recorded, Results, Apart, NEW t \in Threads, UpdatePop(t)
  PROVE  Results' /\ Apart'
<1>1. /\ pc[t] = "pop" /\ pc' = [pc EXCEPT ![t] = "push"]
      /\ UNCHANGED <<cnt_val, prof_info, measured, saving>>
  BY DEF UpdatePop, report
<1>2. CASE fifo = << >>
  <2>1. UNCHANGED <<prof_data_, lost, fifo>>
    BY <1>2 DEF UpdatePop
  <2>2. \A u \in Threads : pc'[u] # "idle" => pc[u] # "idle"
    BY <1>1 DEF Results
  <2>3. pc' \in [Threads -> {"idle", "push", "pop"}]
    BY <1>1 DEF Results
  <2>4. QED
    BY <1>1, <2>1, <2>2, <2>3 DEF Results, Apart, Counts, Reported
<1>3. CASE fifo # << >>
  <2>1. /\ prof_data_' = [prof_data_ EXCEPT ![t] = Head(fifo)]
        /\ lost' = lost \cup prof_data_[t].meas /\ fifo' = Tail(fifo)
    BY <1>3 DEF UpdatePop
  <2>2. /\ fifo' \in Seq(Data) /\ Len(fifo') <= capacity
        /\ Head(fifo) \in Data /\ Counts(Head(fifo)) /\ Head(fifo).meas_num_ # 0
        /\ \A i \in DOMAIN fifo' :
             /\ i + 1 \in DOMAIN fifo /\ fifo'[i] = fifo[i + 1]
             /\ fifo'[i].meas \cap Head(fifo).meas = {}
             /\ \A j \in DOMAIN fifo' : i # j => fifo'[i].meas \cap fifo'[j].meas = {}
        /\ Head(fifo).meas \cap (lost \cup Reported) = {}
        /\ \A u \in Threads : Head(fifo).meas \cap prof_data_[u].meas = {}
    BY <1>3, <2>1, OldestResult
  <2>3. /\ prof_data_' \in [Threads -> Data] /\ prof_data_'[t] = Head(fifo)
        /\ pc' \in [Threads -> {"idle", "push", "pop"}]
        /\ \A u \in Threads \ {t} : prof_data_'[u] = prof_data_[u] /\ pc'[u] = pc[u]
    BY <1>1, <2>1, <2>2 DEF Results
  <2>4. Results'
    <3>1. \A u \in Threads :
            Counts(prof_data_'[u]) /\ (pc'[u] # "idle" => prof_data_'[u].meas_num_ # 0)
      BY <2>2, <2>3 DEF Results
    <3>2. \A i \in DOMAIN fifo' : Counts(fifo'[i]) /\ fifo'[i].meas_num_ # 0
      BY <2>2 DEF Results
    <3>3. lost' \subseteq 1 .. Len(measured)
      BY <2>1 DEF Results, Counts
    <3>4. QED
      BY <1>1, <2>2, <2>3, <3>1, <3>2, <3>3 DEF Results, Counts
  <2>5. Apart'
    <3>1. Reported' = Reported /\ UNCHANGED <<cnt_val, prof_info>>
      BY <1>1 DEF Reported
    <3>2. /\ prof_data_[t].meas \cap (lost \cup Reported) = {}
          /\ \A i \in DOMAIN fifo : fifo[i].meas \cap prof_data_[t].meas = {}
          /\ \A u \in Threads \ {t} : prof_data_[t].meas \cap prof_data_[u].meas = {}
          /\ cnt_val.meas \cap prof_data_[t].meas = {}
      BY DEF Apart, Reported
    <3>3. ASSUME NEW i \in DOMAIN fifo'
          PROVE  /\ fifo'[i].meas \cap (lost' \cup Reported) = {}
                 /\ \A u \in Threads : fifo'[i].meas \cap prof_data_'[u].meas = {}
      <4>1. i + 1 \in DOMAIN fifo /\ fifo'[i] = fifo[i + 1]
        BY <2>2
      <4>2. fifo[i + 1].meas \cap (lost \cup Reported) = {}
            /\ \A u \in Threads : fifo[i + 1].meas \cap prof_data_[u].meas = {}
        BY <4>1 DEF Apart
      <4>3. QED
        BY <2>1, <2>2, <2>3, <4>1, <4>2
    <3>4. ASSUME NEW u \in Threads
          PROVE  /\ prof_data_'[u].meas \cap (lost' \cup Reported) = {}
                 /\ \A w \in Threads : u # w =>
                      prof_data_'[u].meas \cap prof_data_'[w].meas = {}
      <4>1. CASE u = t
        BY <2>1, <2>2, <2>3, <4>1
      <4>2. CASE u # t
        BY <2>1, <2>2, <2>3, <3>2, <4>2 DEF Apart
      <4>3. QED
        BY <4>1, <4>2
    <3>5. cnt_val.meas \cap (lost' \cup prof_info.meas) = {}
      BY <2>1, <3>2 DEF Apart
    <3>6. QED
      BY <2>2, <3>1, <3>3, <3>4, <3>5 DEF Apart
  <2>6. QED
    BY <2>4, <2>5
<1>4. QED
  BY <1>2, <1>3

LEMMA GetProfInfoKeeps ==
  ASSUME Recorded, Results, Apart, GetProfInfoPop \/ GetProfInfoReturn
  PROVE  Results' /\ Apart'
<1>1. UNCHANGED <<prof_data_, pc, measured, lost, saving>>
  BY DEF GetProfInfoPop, GetProfInfoReturn
<1>2. CASE GetProfInfoPop
  <2>1. /\ fifo # << >> /\ fifo' = Tail(fifo) /\ prof_info' = prof_info
        /\ cnt_val' = IF Head(fifo).meas_num_ = 0 THEN cnt_val
                      ELSE Fold(cnt_val, Head(fifo))
    BY <1>2 DEF GetProfInfoPop
  <2>2. /\ fifo' \in Seq(Data) /\ Len(fifo') <= capacity
        /\ Head(fifo) \in Data /\ Counts(Head(fifo)) /\ Head(fifo).meas_num_ # 0
        /\ \A i \in DOMAIN fifo' :
             /\ i + 1 \in DOMAIN fifo /\ fifo'[i] = fifo[i + 1]
             /\ fifo'[i].meas \cap Head(fifo).meas = {}
             /\ \A j \in DOMAIN fifo' : i # j => fifo'[i].meas \cap fifo'[j].meas = {}
        /\ Head(fifo).meas \cap (lost \cup Reported) = {}
        /\ \A u \in Threads : Head(fifo).meas \cap prof_data_[u].meas = {}
    BY <2>1, OldestResult
  <2>3. /\ cnt_val' \in Data /\ Counts(cnt_val')
        /\ cnt_val'.meas = cnt_val.meas \cup Head(fifo).meas
    <3>1. cnt_val \in Data /\ Counts(cnt_val) /\ cnt_val.meas \cap Head(fifo).meas = {}
      BY <2>2 DEF Results, Reported
    <3>2. QED
      BY <2>1, <2>2, <3>1, FoldIsData
  <2>4. \A i \in DOMAIN fifo' : Counts(fifo'[i]) /\ fifo'[i].meas_num_ # 0
    BY <2>2 DEF Results
  <2>5. Results'
    BY <1>1, <2>1, <2>2, <2>3, <2>4 DEF Results, Counts
  <2>6. Reported' = Reported \cup Head(fifo).meas
    BY <2>1, <2>3 DEF Reported
  <2>7. ASSUME NEW i \in DOMAIN fifo'
        PROVE  /\ fifo'[i].meas \cap (lost \cup Reported') = {}
               /\ \A u \in Threads : fifo'[i].meas \cap prof_data_[u].meas = {}
    BY <2>2, <2>6 DEF Apart
  <2>8. \A u \in Threads : prof_data_[u].meas \cap (lost \cup Reported') = {}
    BY <2>2, <2>6 DEF Apart
  <2>9. cnt_val'.meas \cap (lost \cup prof_info.meas) = {}
    BY <2>2, <2>3 DEF Apart, Reported
  <2>10. QED
    BY <1>1, <2>1, <2>2, <2>5, <2>7, <2>8, <2>9 DEF Apart
<1>3. CASE GetProfInfoReturn
  <2>1. /\ cnt_val.meas_num_ # 0 /\ prof_info' = Average(cnt_val)
        /\ cnt_val' = NoData /\ fifo = << >> /\ fifo' = fifo
    BY <1>3 DEF GetProfInfoReturn
  <2>2. /\ cnt_val \in Data /\ Counts(cnt_val)
        /\ prof_info' \in Data /\ prof_info'.meas = cnt_val.meas
        /\ prof_info'.meas_num_ = cnt_val.meas_num_
    BY <2>1, AverageIsData DEF Results
  <2>3. Results'
    BY <1>1, <2>1, <2>2, NoDataIsData DEF Results, Counts
  <2>4. cnt_val'.meas = {} /\ Reported' \subseteq Reported
    BY <2>1, <2>2, NoDataIsData DEF Reported
  <2>5. DOMAIN fifo = {}
    BY <2>1
  <2>6. QED
    BY <1>1, <2>1, <2>3, <2>4, <2>5 DEF Apart
<1>4. QED
  BY <1>2, <1>3

LEMMA StandsStill ==
  ASSUME Results, Apart, UNCHANGED vars
  PROVE  Results' /\ Apart'
BY DEF vars, report, Results, Apart, Counts, Reported

LEMMA ResultsAlways == Spec => [](Results /\ Apart)
<1>1. Init => Results /\ Apart
  <2> SUFFICES ASSUME Init PROVE Results /\ Apart
    OBVIOUS
  <2>1. /\ fifo = << >> /\ prof_data_ = [t \in Threads |-> NoData]
        /\ cnt_val = NoData /\ prof_info = NoData /\ lost = {}
        /\ pc = [t \in Threads |-> "idle"] /\ saving = [t \in Threads |-> {}]
    BY DEF Init
  <2>2. Results
    BY <2>1, NoDataIsData, ProfilerAssumption DEF Results
  <2>3. Apart
    BY <2>1, NoDataIsData DEF Apart, Reported
  <2>4. QED
    BY <2>2, <2>3
<1>2. Watches /\ Recorded /\ Results /\ Apart /\ [Next]_vars => Results' /\ Apart'
  BY TouchSteps, TouchesKeep, MeasureSteps, AddsKeep, UpdatePushKeeps,
     UpdatePopKeeps, GetProfInfoKeeps, StandsStill DEF Next, ThreadStep
<1>3. QED
  BY <1>1, <1>2, WatchesAlways, RecordedAlways, PTL DEF Spec

(* While any number of threads save results and the extractor empties the  *)
(* FIFO, a measurement is in one result at most, every result counts as    *)
(* many as it has, and no result that was given up comes back.             *)
THEOREM MeasurementsAccountedAlways == Spec => []MeasurementsAccounted
<1>1. Watches /\ Recorded /\ Results => TypeOK
  <2> SUFFICES ASSUME Watches, Recorded, Results PROVE TypeOK
    OBVIOUS
  <2>1. DOMAIN measured = 1 .. Len(measured)
    BY DEF Recorded
  <2>2. lost \subseteq DOMAIN measured
    BY <2>1 DEF Results
  <2>3. /\ fifo \in Seq(Data) /\ Len(fifo) <= capacity
        /\ prof_data_ \in [Threads -> Data]
        /\ pc \in [Threads -> {"idle", "push", "pop"}]
        /\ cnt_val \in Data /\ prof_info \in Data
        /\ saving \in [Threads -> SUBSET (1 .. MaxMeas)]
    BY DEF Results
  <2>4. /\ start_val_ \in [Threads -> 0 .. MaxTime] /\ acc_cnt_ \in [Threads -> Nat]
        /\ clock \in 1 .. MaxTime /\ running \in [Threads -> BOOLEAN]
        /\ ran \in [Threads -> Nat]
    BY DEF Watches
  <2>5. measured \in Seq([value : Nat, ran : Nat \cup {-1}]) /\ Len(measured) <= MaxMeas
    BY DEF Recorded, Readings
  <2>6. QED
    BY <2>2, <2>3, <2>4, <2>5, Zenon DEF TypeOK
<1>2. Results /\ Apart => CountedOnce
  BY DEF Results, Apart, CountedOnce, Counts, Reported
<1>3. QED
  BY <1>1, <1>2, WatchesAlways, RecordedAlways, ResultsAlways, PTL
  DEF MeasurementsAccounted

-----------------------------------------------------------------------------
(***************************************************************************)
(* The largest value of a result, through averages, folds and lost results *)
(***************************************************************************)
Maxed(d) ==
  /\ d.meas = {} => d.max_cnt_ = 0
  /\ d.meas # {} => \E n \in d.meas : measured[n].value = d.max_cnt_
  /\ \A n \in d.meas : measured[n].value <= d.max_cnt_

Maxes ==
  /\ \A i \in DOMAIN fifo : Maxed(fifo[i])
  /\ \A t \in Threads : Maxed(prof_data_[t])
  /\ Maxed(cnt_val) /\ Maxed(prof_info)

LEMMA ValuesAreNumbers ==
  ASSUME Recorded, NEW n \in 1 .. Len(measured)
  PROVE  measured[n].value \in Nat
<1>1. measured[n] \in Readings
  BY DEF Recorded
<1>2. QED
  BY <1>1 DEF Readings

LEMMA FoldMaxed ==
  ASSUME Recorded, NEW c \in Data, NEW d \in Data, Counts(c), Counts(d),
         Maxed(c), Maxed(d), d.meas_num_ # 0
  PROVE  Maxed(Fold(c, d))
<1>1. /\ Fold(c, d).meas = c.meas \cup d.meas
      /\ Fold(c, d).max_cnt_ = larger(c.max_cnt_, d.max_cnt_)
  BY DEF Fold
<1>2. c.max_cnt_ \in Nat /\ d.max_cnt_ \in Nat
  BY DEF Data
<1>3. /\ larger(c.max_cnt_, d.max_cnt_) \in {c.max_cnt_, d.max_cnt_}
      /\ c.max_cnt_ <= larger(c.max_cnt_, d.max_cnt_)
      /\ d.max_cnt_ <= larger(c.max_cnt_, d.max_cnt_)
      /\ larger(c.max_cnt_, d.max_cnt_) \in Nat
      /\ c.max_cnt_ = 0 => larger(c.max_cnt_, d.max_cnt_) = d.max_cnt_
  BY <1>2 DEF larger
<1>4. d.meas # {}
  BY FS_EmptySet DEF Counts
<1>5. \A n \in c.meas \cup d.meas : measured[n].value \in Nat
  BY ValuesAreNumbers DEF Counts
<1>6. \A n \in c.meas \cup d.meas : measured[n].value <= larger(c.max_cnt_, d.max_cnt_)
  BY <1>2, <1>3, <1>5 DEF Maxed
<1>7. \E n \in c.meas \cup d.meas : measured[n].value = larger(c.max_cnt_, d.max_cnt_)
  <2>1. CASE c.meas = {}
    BY <1>3, <1>4, <2>1 DEF Maxed
  <2>2. CASE c.meas # {}
    BY <1>3, <1>4, <2>2 DEF Maxed
  <2>3. QED
    BY <2>1, <2>2
<1>8. QED
  BY <1>1, <1>4, <1>6, <1>7 DEF Maxed

LEMMA MaxesAlways == Spec => []Maxes
<1>1. Init => Maxes
  BY DEF Init, Maxes, Maxed, NoData
<1>2. Watches /\ Recorded /\ Results /\ Apart /\ Maxes /\ [Next]_vars => Maxes'
  <2> SUFFICES ASSUME Watches, Recorded, Results, Apart, Maxes, [Next]_vars
               PROVE  Maxes'
    OBVIOUS
  <2>1. ASSUME NEW t \in Threads, Touches(t)
        PROVE  Maxes'
    <3>1. PICK d \in Data :
            /\ prof_data_' = [prof_data_ EXCEPT ![t] = d]
            /\ d.meas = prof_data_[t].meas /\ d.max_cnt_ = prof_data_[t].max_cnt_
      BY <2>1 DEF Touches
    <3>2. UNCHANGED <<fifo, cnt_val, prof_info, measured>>
      BY <2>1 DEF Touches, report
    <3>3. \A u \in Threads : /\ prof_data_'[u].meas = prof_data_[u].meas
                             /\ prof_data_'[u].max_cnt_ = prof_data_[u].max_cnt_
      BY <3>1 DEF Results
    <3>4. QED
      BY <3>2, <3>3 DEF Maxes, Maxed
  <2>2. ASSUME NEW t \in Threads, Adds(t)
        PROVE  Maxes'
    <3> DEFINE n == Len(measured) + 1
               value == measured'[n].value
    <3>1. PICK d \in Data :
            /\ prof_data_' = [prof_data_ EXCEPT ![t] = d]
            /\ d.meas = prof_data_[t].meas \cup {n}
            /\ d.max_cnt_ = larger(prof_data_[t].max_cnt_, value)
      BY <2>2 DEF Adds
    <3>2. /\ UNCHANGED <<fifo, cnt_val, prof_info>> /\ value \in Nat
          /\ \A k \in 1 .. Len(measured) : measured'[k] = measured[k]
      BY <2>2 DEF Adds, report
    <3>3. ASSUME NEW c, Counts(c), Maxed(c)
          PROVE  Maxed(c)'
      BY <3>2, <3>3 DEF Counts, Maxed
    <3>4. prof_data_'[t] = d /\ \A u \in Threads \ {t} : prof_data_'[u] = prof_data_[u]
      BY <3>1 DEF Results
    <3>5. Maxed(d)'
      <4> DEFINE c == prof_data_[t]
      <4>1. c \in Data /\ Counts(c) /\ Maxed(c)
        BY DEF Results, Maxes
      <4>2. c.max_cnt_ \in Nat
        BY <4>1 DEF Data
      <4>3. /\ d.max_cnt_ \in {c.max_cnt_, value} /\ d.max_cnt_ \in Nat
            /\ c.max_cnt_ <= d.max_cnt_ /\ value <= d.max_cnt_
            /\ c.max_cnt_ = 0 => d.max_cnt_ = value
        BY <3>1, <3>2, <4>2 DEF larger
      <4>4. \A k \in c.meas : measured'[k].value = measured[k].value
                              /\ measured[k].value \in Nat
        BY <3>2, <4>1, ValuesAreNumbers DEF Counts
      <4>5. \A k \in d.meas : measured'[k].value <= d.max_cnt_
        <5>1. ASSUME NEW k \in c.meas
              PROVE  measured'[k].value <= d.max_cnt_
          <6>1. measured[k].value <= c.max_cnt_
            BY <4>1 DEF Maxed
          <6>2. QED
            BY <4>2, <4>3, <4>4, <6>1
        <5>2. QED
          BY <3>1, <4>3, <5>1
      <4>6. \E k \in d.meas : measured'[k].value = d.max_cnt_
        <5>1. CASE d.max_cnt_ = value
          BY <3>1, <5>1
        <5>2. CASE d.max_cnt_ # value
          <6>1. d.max_cnt_ = c.max_cnt_ /\ c.meas # {}
            BY <4>1, <4>3, <5>2 DEF Maxed
          <6>2. QED
            BY <3>1, <4>1, <4>4, <6>1 DEF Maxed
        <5>3. QED
          BY <5>1, <5>2
      <4>7. QED
        BY <3>1, <4>5, <4>6 DEF Maxed
    <3>6. \A u \in Threads : Maxed(prof_data_[u])'
      BY <3>3, <3>4, <3>5 DEF Results, Maxes
    <3>7. \A i \in DOMAIN fifo' : Maxed(fifo[i])'
      BY <3>2, <3>3 DEF Results, Maxes
    <3>8. Maxed(cnt_val)' /\ Maxed(prof_info)'
      BY <3>2, <3>3 DEF Results, Maxes
    <3>9. QED
      BY <3>6, <3>7, <3>8 DEF Maxes
  <2>3. ASSUME fifo # << >>, fifo' = Tail(fifo)
        PROVE  Maxed(Head(fifo)) /\ \A i \in DOMAIN fifo' : Maxed(fifo'[i])
    <3>1. /\ 1 \in DOMAIN fifo /\ Head(fifo) = fifo[1]
          /\ \A i \in DOMAIN fifo' : i + 1 \in DOMAIN fifo /\ fifo'[i] = fifo[i + 1]
      BY <2>3 DEF Results
    <3>2. QED
      BY <3>1 DEF Maxes
  <2>4. ASSUME NEW t \in Threads, UpdatePush(t)
        PROVE  Maxes'
    <3>1. /\ fifo' = Append(fifo, prof_data_[t])
          /\ prof_data_' = [prof_data_ EXCEPT ![t] = NoData]
          /\ UNCHANGED <<cnt_val, prof_info, measured>>
      BY <2>4 DEF UpdatePush, ResetProfData, report
    <3>2. \A i \in DOMAIN fifo' : \/ i \in DOMAIN fifo /\ fifo'[i] = fifo[i]
                                  \/ fifo'[i] = prof_data_[t]
      BY <3>1 DEF Results
    <3>3. Maxed(NoData)
      BY DEF Maxed, NoData
    <3>4. \A u \in Threads : prof_data_'[u] \in {prof_data_[u], NoData}
      BY <3>1 DEF Results
    <3>5. (\A i \in DOMAIN fifo' : Maxed(fifo'[i]))
          /\ (\A u \in Threads : Maxed(prof_data_'[u]))
      BY <3>2, <3>3, <3>4 DEF Maxes
    <3>6. QED
      BY <3>1, <3>5 DEF Maxes, Maxed
  <2>5. ASSUME NEW t \in Threads, UpdatePop(t)
        PROVE  Maxes'
    <3>1. UNCHANGED <<cnt_val, prof_info, measured>>
      BY <2>5 DEF UpdatePop, report
    <3>2. CASE fifo = << >>
      BY <2>5, <3>1, <3>2 DEF UpdatePop, Maxes, Maxed
    <3>3. CASE fifo # << >>
      <4>1. prof_data_' = [prof_data_ EXCEPT ![t] = Head(fifo)] /\ fifo' = Tail(fifo)
        BY <2>5, <3>3 DEF UpdatePop
      <4>2. \A u \in Threads : prof_data_'[u] \in {prof_data_[u], Head(fifo)}
        BY <4>1 DEF Results
      <4>3. (\A i \in DOMAIN fifo' : Maxed(fifo'[i]))
            /\ (\A u \in Threads : Maxed(prof_data_'[u]))
        BY <2>3, <3>3, <4>1, <4>2 DEF Maxes
      <4>4. QED
        BY <3>1, <4>3 DEF Maxes, Maxed
    <3>4. QED
      BY <3>2, <3>3
  <2>6. CASE GetProfInfoPop
    <3>1. /\ fifo # << >> /\ fifo' = Tail(fifo)
          /\ UNCHANGED <<prof_data_, prof_info, measured>>
          /\ cnt_val' = IF Head(fifo).meas_num_ = 0 THEN cnt_val
                        ELSE Fold(cnt_val, Head(fifo))
      BY <2>6 DEF GetProfInfoPop
    <3>2. Head(fifo) \in Data /\ Counts(Head(fifo)) /\ Head(fifo).meas_num_ # 0
      BY <3>1, OldestResult
    <3>3. Maxed(cnt_val')
      BY <2>3, <3>1, <3>2, FoldMaxed DEF Maxes, Results
    <3>4. QED
      BY <2>3, <3>1, <3>3 DEF Maxes, Maxed
  <2>7. CASE GetProfInfoReturn
    <3>1. /\ cnt_val.meas_num_ # 0 /\ prof_info' = Average(cnt_val)
          /\ cnt_val' = NoData /\ UNCHANGED <<fifo, prof_data_, measured>>
      BY <2>7 DEF GetProfInfoReturn
    <3>2. prof_info'.meas = cnt_val.meas /\ prof_info'.max_cnt_ = cnt_val.max_cnt_
      BY <3>1, AverageIsData DEF Results
    <3>3. Maxed(NoData)
      BY DEF Maxed, NoData
    <3>4. QED
      BY <3>1, <3>2, <3>3 DEF Maxes, Maxed
  <2>8. CASE UNCHANGED vars
    BY <2>8 DEF vars, report, Maxes, Maxed
  <2>9. QED
    BY <2>1, <2>2, <2>4, <2>5, <2>6, <2>7, <2>8, TouchSteps, MeasureSteps
    DEF Next, ThreadStep
<1>3. QED
  BY <1>1, <1>2, WatchesAlways, RecordedAlways, ResultsAlways, PTL DEF Spec

(* A report counts exactly the measurements that were folded into it, and  *)
(* its largest value is the largest of theirs, whatever threads saved,     *)
(* lost and measured meanwhile.                                            *)
THEOREM MaxHonestAlways == Spec => []MaxHonest
<1>1. Recorded /\ Results /\ Maxes => MaxHonest
  <2> SUFFICES ASSUME Recorded, Results, Maxes, prof_info.meas_num_ # 0
               PROVE  /\ prof_info.meas_num_ = Cardinality(prof_info.meas)
                      /\ prof_info.max_cnt_ \in ValuesOf(prof_info.meas)
                      /\ \A v \in ValuesOf(prof_info.meas) : v <= prof_info.max_cnt_
    BY DEF MaxHonest
  <2>1. Counts(prof_info) /\ Maxed(prof_info)
    BY DEF Results, Maxes
  <2>2. prof_info.meas # {}
    BY <2>1, FS_EmptySet DEF Counts
  <2>3. QED
    BY <2>1, <2>2 DEF Counts, Maxed, ValuesOf
<1>2. QED
  BY <1>1, RecordedAlways, ResultsAlways, MaxesAlways, PTL
-----------------------------------------------------------------------------
(***************************************************************************)
(* The average of a result, through rounding, folds and lost results: a    *)
(* sum of values is the number of their units.                             *)
(***************************************************************************)
Exactly(d) == d.average_cnt_ = SumOf(d.meas)
Rounded(d) ==
  /\ d.average_cnt_ * d.meas_num_ <= SumOf(d.meas)
  /\ SumOf(d.meas) < (d.average_cnt_ + 1) * d.meas_num_
Gathered(c) ==
  /\ c.average_cnt_ <= SumOf(c.meas)
  /\ SumOf(c.meas) <= c.average_cnt_ + c.meas_num_

FewUnits == IsFiniteSet(UnitsOf(1 .. Len(measured)))
Averages ==
  /\ FewUnits
  /\ \A i \in DOMAIN fifo : Rounded(fifo[i])
  /\ \A t \in Threads :
       /\ pc[t] = "idle" => Exactly(prof_data_[t])
       /\ pc[t] # "idle" => Rounded(prof_data_[t])
  /\ Gathered(cnt_val) /\ AverageHonest

LEMMA DisjointSizes ==
  ASSUME NEW A, NEW B, IsFiniteSet(A), IsFiniteSet(B), A \cap B = {}
  PROVE  /\ IsFiniteSet(A \cup B) /\ Cardinality(A) \in Nat /\ Cardinality(B) \in Nat
         /\ Cardinality(A \cup B) = Cardinality(A) + Cardinality(B)
<1>1. /\ IsFiniteSet(A \cup B)
      /\ Cardinality(A \cup B)
           = Cardinality(A) + Cardinality(B) - Cardinality(A \cap B)
  BY FS_Union, Zenon
<1>2. Cardinality(A) \in Nat /\ Cardinality(B) \in Nat /\ Cardinality(A \cap B) = 0
  BY FS_CardinalityType, FS_EmptySet
<1>3. QED
  BY <1>1, <1>2

LEMMA SumIsNumber ==
  ASSUME FewUnits, NEW S \in SUBSET (1 .. Len(measured))
  PROVE  IsFiniteSet(UnitsOf(S)) /\ SumOf(S) \in Nat
<1>1. UnitsOf(S) \in SUBSET UnitsOf(1 .. Len(measured))
  BY DEF UnitsOf
<1>2. IsFiniteSet(UnitsOf(S))
  BY <1>1, FS_Subset DEF FewUnits
<1>3. QED
  BY <1>2, FS_CardinalityType DEF SumOf

LEMMA SumOfNone == SumOf({}) = 0
<1>1. UnitsOf({}) = {}
  BY DEF UnitsOf
<1>2. QED
  BY <1>1, FS_EmptySet DEF SumOf

LEMMA SumOfBoth ==
  ASSUME FewUnits, NEW S \in SUBSET (1 .. Len(measured)),
         NEW T \in SUBSET (1 .. Len(measured)), S \cap T = {}
  PROVE  SumOf(S \cup T) = SumOf(S) + SumOf(T)
<1>1. /\ IsFiniteSet(UnitsOf(S)) /\ IsFiniteSet(UnitsOf(T))
      /\ SumOf(S) \in Nat /\ SumOf(T) \in Nat
  BY SumIsNumber
<1>2. UnitsOf(S \cup T) = UnitsOf(S) \cup UnitsOf(T)
  BY DEF UnitsOf
<1>3. UnitsOf(S) \cap UnitsOf(T) = {}
  BY DEF UnitsOf
<1>4. QED
  BY <1>1, <1>2, <1>3, DisjointSizes DEF SumOf

(* A further measurement leaves the sums of the others, and adds its value *)
(* to the one it joins.                                                    *)
UnitsNext(S) == UNION {{n} \X (1 .. measured'[n].value) : n \in S}
SumNext(S) == Cardinality(UnitsNext(S))

LEMMA SumPrimes ==
  /\ \A S : UnitsOf(S)' = UnitsNext(S) /\ SumOf(S)' = SumNext(S)
  /\ UNCHANGED measured => \A S : SumNext(S) = SumOf(S)
BY DEF UnitsOf, SumOf, UnitsNext, SumNext

LEMMA SumGrows ==
  ASSUME FewUnits, Len(measured) \in Nat, NEW value \in Nat, NEW N,
         N = Len(measured) + 1, Len(measured') = N, measured'[N].value = value,
         \A n \in 1 .. Len(measured) : measured'[n] = measured[n]
  PROVE  /\ FewUnits'
         /\ \A S \in SUBSET (1 .. Len(measured)) :
              SumNext(S) = SumOf(S) /\ SumNext(S \cup {N}) = SumOf(S) + value
<1> DEFINE new == {N} \X (1 .. value)
<1>1. IsFiniteSet(new) /\ Cardinality(new) = value
  <2>1. IsFiniteSet(1 .. value) /\ Cardinality(1 .. value) = value
    <3>1. 1 \in Int /\ value \in Int
      OBVIOUS
    <3>2. /\ IsFiniteSet(1 .. value)
          /\ Cardinality(1 .. value) = IF 1 > value THEN 0 ELSE value - 1 + 1
      BY <3>1, FS_Interval, Zenon
    <3>3. QED
      BY <3>2
  <2>2. IsFiniteSet({N}) /\ Cardinality({N}) = 1
    BY FS_Singleton, Zenon
  <2>3. IsFiniteSet(new) /\ Cardinality(new) = Cardinality({N}) * Cardinality(1 .. value)
    BY <2>1, <2>2, FS_Product, Zenon
  <2>4. QED
    BY <2>1, <2>2, <2>3
<1>2. \A S \in SUBSET (1 .. Len(measured)) : UnitsNext(S) = UnitsOf(S)
  BY DEF UnitsOf, UnitsNext
<1>3. ASSUME NEW S \in SUBSET (1 .. Len(measured))
      PROVE  /\ IsFiniteSet(UnitsNext(S \cup {N}))
             /\ SumNext(S \cup {N}) = SumOf(S) + value
  <2>1. UnitsNext(S \cup {N}) = UnitsNext(S) \cup new
    BY DEF UnitsNext
  <2>2. N \notin S
    OBVIOUS
  <2>3. UnitsOf(S) \cap new = {}
    BY <2>2 DEF UnitsOf
  <2>4. IsFiniteSet(UnitsOf(S))
    BY SumIsNumber
  <2> HIDE DEF new
  <2>5. /\ IsFiniteSet(UnitsOf(S) \cup new)
        /\ Cardinality(UnitsOf(S) \cup new) = Cardinality(UnitsOf(S)) + Cardinality(new)
    BY <1>1, <2>3, <2>4, DisjointSizes
  <2>6. QED
    BY <1>1, <1>2, <2>1, <2>5 DEF SumOf, SumNext
<1>4. FewUnits'
  <2>1. 1 .. N = (1 .. Len(measured)) \cup {N}
    OBVIOUS
  <2>2. IsFiniteSet(UnitsNext(1 .. N))
    BY <1>3, <2>1
  <2>3. FewUnits' <=> IsFiniteSet(UnitsNext(1 .. N))
    BY DEF FewUnits, UnitsOf, UnitsNext
  <2>4. QED
    BY <2>2, <2>3
<1>5. QED
  BY <1>2, <1>3, <1>4 DEF SumOf, SumNext

LEMMA Division ==
  ASSUME NEW s \in Nat, NEW n \in Nat, n # 0
  PROVE  /\ s \div n \in Nat
         /\ (s \div n) * n <= s
         /\ s < (s \div n + 1) * n
OBVIOUS

(* Update rounds an exact sum down, and GetProfInfo adds up rounded ones.  *)
LEMMA AverageIsRounded ==
  ASSUME NEW d \in Data, d.meas_num_ # 0, Exactly(d)
  PROVE  Rounded(Average(d))
<1>1. d.average_cnt_ \in Nat /\ d.meas_num_ \in Nat
  BY DEF Data
<1>2. /\ Average(d).average_cnt_ = d.average_cnt_ \div d.meas_num_
      /\ Average(d).meas_num_ = d.meas_num_ /\ Average(d).meas = d.meas
  BY DEF Average, Data
<1>3. QED
  BY <1>1, <1>2, Division DEF Rounded, Exactly

Honest(r) ==
  r.meas_num_ # 0 => /\ r.average_cnt_ * r.meas_num_ <= SumOf(r.meas)
                     /\ SumOf(r.meas) < (r.average_cnt_ + 2) * r.meas_num_

LEMMA AverageIsHonest ==
  ASSUME FewUnits, NEW c \in Data, Counts(c), c.meas_num_ # 0, Gathered(c)
  PROVE  Honest(Average(c))
<1> DEFINE s == c.average_cnt_
           n == c.meas_num_
           q == s \div n
<1>1. s \in Nat /\ n \in Nat /\ n # 0
  BY DEF Data
<1>2. /\ Average(c).average_cnt_ = q
      /\ Average(c).meas_num_ = n /\ Average(c).meas = c.meas
  BY DEF Average, Data
<1>3. q \in Nat /\ q * n <= s /\ s < (q + 1) * n
  BY <1>1, Division
<1>4. SumOf(c.meas) \in Nat
  BY SumIsNumber DEF Counts
<1>5. s <= SumOf(c.meas) /\ SumOf(c.meas) <= s + n
  BY DEF Gathered
<1> HIDE DEF s, n, q
<1>6. q * n \in Int /\ (q + 1) * n = q * n + n /\ (q + 2) * n = q * n + n + n
  BY <1>1, <1>3
<1>7. q * n <= SumOf(c.meas) /\ SumOf(c.meas) < (q + 2) * n
  BY <1>1, <1>3, <1>4, <1>5, <1>6
<1>8. QED
  BY <1>2, <1>7 DEF Honest

LEMMA FoldIsGathered ==
  ASSUME FewUnits, NEW c \in Data, NEW d \in Data, Counts(c), Counts(d),
         c.meas \cap d.meas = {}, Gathered(c), Rounded(d)
  PROVE  Gathered(Fold(c, d))
<1> DEFINE p == d.average_cnt_ * d.meas_num_
<1>1. /\ c.average_cnt_ \in Nat /\ c.meas_num_ \in Nat
      /\ d.average_cnt_ \in Nat /\ d.meas_num_ \in Nat
  BY DEF Data
<1>2. /\ Fold(c, d).average_cnt_ = c.average_cnt_ + p
      /\ Fold(c, d).meas_num_ = c.meas_num_ + d.meas_num_
      /\ Fold(c, d).meas = c.meas \cup d.meas
  BY DEF Fold
<1>3. /\ SumOf(c.meas) \in Nat /\ SumOf(d.meas) \in Nat
      /\ SumOf(c.meas \cup d.meas) = SumOf(c.meas) + SumOf(d.meas)
  BY SumIsNumber, SumOfBoth DEF Counts
<1>4. p \in Int /\ (d.average_cnt_ + 1) * d.meas_num_ = p + d.meas_num_
  BY <1>1
<1>5. p <= SumOf(d.meas) /\ SumOf(d.meas) < p + d.meas_num_
  BY <1>4 DEF Rounded
<1>6. c.average_cnt_ <= SumOf(c.meas) /\ SumOf(c.meas) <= c.average_cnt_ + c.meas_num_
  BY DEF Gathered
<1> HIDE DEF p
<1>7. /\ c.average_cnt_ + p <= SumOf(c.meas) + SumOf(d.meas)
      /\ SumOf(c.meas) + SumOf(d.meas) <= c.average_cnt_ + p + (c.meas_num_ + d.meas_num_)
  BY <1>1, <1>3, <1>4, <1>5, <1>6
<1>8. QED
  BY <1>2, <1>3, <1>7 DEF Gathered

(* What Averages says of the next state.                                   *)
ExactlyNext(d) == d.average_cnt_ = SumNext(d.meas)
RoundedNext(d) ==
  /\ d.average_cnt_ * d.meas_num_ <= SumNext(d.meas)
  /\ SumNext(d.meas) < (d.average_cnt_ + 1) * d.meas_num_
GatheredNext(c) ==
  /\ c.average_cnt_ <= SumNext(c.meas)
  /\ SumNext(c.meas) <= c.average_cnt_ + c.meas_num_
HonestNext(r) ==
  r.meas_num_ # 0 => /\ r.average_cnt_ * r.meas_num_ <= SumNext(r.meas)
                     /\ SumNext(r.meas) < (r.average_cnt_ + 2) * r.meas_num_
PointNext(t, d) == IF pc'[t] = "idle" THEN ExactlyNext(d) ELSE RoundedNext(d)

LEMMA AveragesNext ==
  ASSUME FewUnits', \A i \in DOMAIN fifo' : RoundedNext(fifo'[i]),
         \A t \in Threads : PointNext(t, prof_data_'[t]),
         GatheredNext(cnt_val'), HonestNext(prof_info')
  PROVE  Averages'
<1>1. \A i \in DOMAIN fifo' : Rounded(fifo[i])'
  BY DEF RoundedNext, Rounded, SumNext, SumOf, UnitsNext, UnitsOf
<1>2. \A t \in Threads : /\ (pc[t] = "idle" => Exactly(prof_data_[t]))'
                         /\ (pc[t] # "idle" => Rounded(prof_data_[t]))'
  BY DEF PointNext, ExactlyNext, RoundedNext, Exactly, Rounded, SumNext, SumOf,
         UnitsNext, UnitsOf
<1>3. Gathered(cnt_val)'
  BY DEF GatheredNext, Gathered, SumNext, SumOf, UnitsNext, UnitsOf
<1>4. AverageHonest'
  BY DEF HonestNext, AverageHonest, SumNext, SumOf, UnitsNext, UnitsOf
<1>5. QED
  BY <1>1, <1>2, <1>3, <1>4 DEF Averages

LEMMA NothingMeasured ==
  ASSUME UNCHANGED measured
  PROVE  /\ FewUnits => FewUnits'
         /\ \A d : /\ Exactly(d) => ExactlyNext(d)
                   /\ Rounded(d) => RoundedNext(d)
                   /\ Gathered(d) => GatheredNext(d)
                   /\ Honest(d) => HonestNext(d)
<1>1. \A S : SumNext(S) = SumOf(S)
  BY SumPrimes
<1>2. FewUnits => FewUnits'
  BY DEF FewUnits, UnitsOf
<1>3. QED
  BY <1>1, <1>2
  DEF Exactly, Rounded, Gathered, Honest, ExactlyNext, RoundedNext,
      GatheredNext, HonestNext

(* A step that measures nothing and leaves what the points have gathered.  *)
LEMMA AveragesKept ==
  ASSUME Averages, UNCHANGED <<fifo, report, measured>>,
         \A t \in Threads : PointNext(t, prof_data_'[t])
  PROVE  Averages'
<1>1. \A i \in DOMAIN fifo' : RoundedNext(fifo'[i])
  BY NothingMeasured DEF Averages
<1>2. GatheredNext(cnt_val') /\ FewUnits'
  BY NothingMeasured DEF Averages, report
<1>3. HonestNext(prof_info')
  <2>1. Honest(prof_info)
    BY DEF Averages, AverageHonest, Honest
  <2>2. QED
    BY <2>1, NothingMeasured DEF report
<1>4. QED
  BY <1>1, <1>2, <1>3, AveragesNext

LEMMA TouchKeepsAverages ==
  ASSUME Results, Averages, NEW t \in Threads,
         Start(t) \/ StopContinue(t) \/ Flush(t) \/ UpdateFull(t)
  PROVE  Averages'
<1>1. /\ prof_data_ \in [Threads -> Data] /\ pc \in [Threads -> {"idle", "push", "pop"}]
      /\ UNCHANGED <<fifo, report, measured>>
  BY DEF Results, Start, StopContinue, Flush, UpdateFull
<1>2. ASSUME NEW u \in Threads, prof_data_'[u].average_cnt_ = prof_data_[u].average_cnt_,
             prof_data_'[u].meas = prof_data_[u].meas,
             prof_data_'[u].meas_num_ = prof_data_[u].meas_num_,
             pc'[u] = "idle" <=> pc[u] = "idle"
      PROVE  PointNext(u, prof_data_'[u])
  <2>1. CASE pc[u] = "idle"
    <3>1. ExactlyNext(prof_data_[u])
      BY <1>1, <2>1, NothingMeasured DEF Averages
    <3>2. QED
      BY <1>2, <2>1, <3>1 DEF PointNext, ExactlyNext
  <2>2. CASE pc[u] # "idle"
    <3>1. RoundedNext(prof_data_[u])
      BY <1>1, <2>2, NothingMeasured DEF Averages
    <3>2. QED
      BY <1>2, <2>2, <3>1 DEF PointNext, RoundedNext
  <2>3. QED
    BY <2>1, <2>2
<1>3. CASE Start(t)
  <2>1. prof_data_' = [prof_data_ EXCEPT ![t] = [prof_data_[t] EXCEPT !.last_cnt_ = 1]]
        /\ UNCHANGED pc
    BY <1>3 DEF Start
  <2>2. /\ [prof_data_[t] EXCEPT !.last_cnt_ = 1].meas = prof_data_[t].meas
        /\ [prof_data_[t] EXCEPT !.last_cnt_ = 1].average_cnt_
             = prof_data_[t].average_cnt_
        /\ [prof_data_[t] EXCEPT !.last_cnt_ = 1].meas_num_ = prof_data_[t].meas_num_
    BY <1>1 DEF Data
  <2>3. \A u \in Threads : /\ prof_data_'[u].average_cnt_ = prof_data_[u].average_cnt_
                           /\ prof_data_'[u].meas = prof_data_[u].meas
                           /\ prof_data_'[u].meas_num_ = prof_data_[u].meas_num_
    BY <1>1, <2>1, <2>2
  <2>4. QED
    BY <1>1, <1>2, <2>1, <2>3, AveragesKept
<1>4. CASE StopContinue(t) \/ UpdateFull(t)
  <2>1. UNCHANGED prof_data_ /\ \A u \in Threads : pc'[u] = "idle" <=> pc[u] = "idle"
    BY <1>1, <1>4 DEF StopContinue, UpdateFull
  <2>2. QED
    BY <1>1, <1>2, <2>1, AveragesKept
<1>5. CASE Flush(t)
  <2>1. /\ prof_data_[t].meas_num_ # 0 /\ pc[t] = "idle"
        /\ prof_data_' = [prof_data_ EXCEPT ![t] = Average(prof_data_[t])]
        /\ pc' = [pc EXCEPT ![t] = "push"]
    BY <1>5 DEF Flush
  <2>2. PointNext(t, prof_data_'[t])
    <3>1. Rounded(Average(prof_data_[t]))
      BY <1>1, <2>1, AverageIsRounded DEF Averages
    <3>2. QED
      BY <1>1, <2>1, <3>1, NothingMeasured DEF PointNext
  <2>3. ASSUME NEW u \in Threads \ {t}
        PROVE  PointNext(u, prof_data_'[u])
    BY <1>1, <1>2, <2>1
  <2>4. QED
    BY <1>1, <2>2, <2>3, AveragesKept
<1>6. QED
  BY <1>3, <1>4, <1>5

LEMMA AverageIsRoundedNext ==
  ASSUME NEW d \in Data, d.meas_num_ # 0, ExactlyNext(d)
  PROVE  RoundedNext(Average(d))
<1>1. d.average_cnt_ \in Nat /\ d.meas_num_ \in Nat
  BY DEF Data
<1>2. /\ Average(d).average_cnt_ = d.average_cnt_ \div d.meas_num_
      /\ Average(d).meas_num_ = d.meas_num_ /\ Average(d).meas = d.meas
  BY DEF Average, Data
<1>3. QED
  BY <1>1, <1>2, Division DEF RoundedNext, ExactlyNext

LEMMA MeasureKeepsAverages ==
  ASSUME Watches, Recorded, Results, Averages, NEW t \in Threads,
         Stop(t) \/ \E v \in PutValues : PutProfVal(t, v)
  PROVE  Averages'
<1> DEFINE N == Len(measured) + 1
<1>1. PICK value \in Nat, r \in Nat \cup {-1} :
        /\ Count(t, value) /\ UNCHANGED <<fifo, report, lost>> /\ pc[t] = "idle"
        /\ measured' = Append(measured, [value |-> value, ran |-> r])
  BY MeasuredValue
<1> DEFINE sum == Sum(prof_data_[t], value)
<1>2. /\ N <= MaxMeas
      /\ IF max_calls_ # 0 /\ max_calls_ <= sum.meas_num_
         THEN /\ prof_data_' = [prof_data_ EXCEPT ![t] = Average(sum)]
              /\ pc' = [pc EXCEPT ![t] = "push"]
         ELSE /\ prof_data_' = [prof_data_ EXCEPT ![t] = sum]
              /\ UNCHANGED pc
  BY <1>1 DEF Count, Sum
<1>3. /\ prof_data_ \in [Threads -> Data] /\ pc \in [Threads -> {"idle", "push", "pop"}]
      /\ \A u \in Threads : Counts(prof_data_[u])
  BY DEF Results
<1>4. /\ N = Len(measured) + 1 /\ Len(measured) \in Nat /\ Len(measured') = N
      /\ \A n \in 1 .. Len(measured) : measured'[n] = measured[n]
      /\ measured'[N].value = value
  BY <1>1 DEF Recorded
<1>5. /\ FewUnits'
      /\ \A S \in SUBSET (1 .. Len(measured)) :
           SumNext(S) = SumOf(S) /\ SumNext(S \cup {N}) = SumOf(S) + value
  <2> HIDE DEF N
  <2>1. QED
    BY <1>4, SumGrows DEF Averages
<1>6. ASSUME NEW d, Counts(d)
      PROVE  /\ Exactly(d) => ExactlyNext(d)
             /\ Rounded(d) => RoundedNext(d)
             /\ Gathered(d) => GatheredNext(d)
             /\ Honest(d) => HonestNext(d)
  <2>1. SumNext(d.meas) = SumOf(d.meas)
    BY <1>5, <1>6 DEF Counts
  <2>2. QED
    BY <2>1
    DEF Exactly, Rounded, Gathered, Honest, ExactlyNext, RoundedNext,
        GatheredNext, HonestNext
<1>7. sum \in Data /\ sum.meas = prof_data_[t].meas \cup {N} /\ sum.meas_num_ # 0
      /\ sum.average_cnt_ = prof_data_[t].average_cnt_ + value
  <2>1. prof_data_[t] \in Data /\ Counts(prof_data_[t])
    BY <1>3
  <2>2. sum \in Data /\ sum.meas = prof_data_[t].meas \cup {N} /\ sum.meas_num_ # 0
    BY <1>2, <2>1, SumIsData
  <2>3. QED
    BY <2>2 DEF Sum
<1> HIDE DEF sum
<1>8. ExactlyNext(sum)
  <2>1. prof_data_[t].average_cnt_ = SumOf(prof_data_[t].meas)
    BY <1>1 DEF Averages, Exactly
  <2>2. prof_data_[t].meas \in SUBSET (1 .. Len(measured))
    BY <1>3 DEF Counts
  <2>3. QED
    BY <1>5, <1>7, <2>1, <2>2 DEF ExactlyNext
<1>9. PointNext(t, prof_data_'[t])
  <2>1. CASE max_calls_ # 0 /\ max_calls_ <= sum.meas_num_
    <3>1. prof_data_'[t] = Average(sum) /\ pc'[t] = "push"
      BY <1>2, <1>3, <2>1
    <3>2. RoundedNext(Average(sum))
      BY <1>7, <1>8, AverageIsRoundedNext
    <3>3. QED
      BY <3>1, <3>2 DEF PointNext
  <2>2. CASE ~(max_calls_ # 0 /\ max_calls_ <= sum.meas_num_)
    <3>1. prof_data_'[t] = sum /\ pc'[t] = "idle"
      BY <1>1, <1>2, <1>3, <2>2
    <3>2. QED
      BY <1>8, <3>1 DEF PointNext
  <2>3. QED
    BY <2>1, <2>2
<1>10. ASSUME NEW u \in Threads \ {t}
       PROVE  PointNext(u, prof_data_'[u])
  <2>1. prof_data_'[u] = prof_data_[u] /\ pc'[u] = pc[u]
    BY <1>2, <1>3
  <2>2. QED
    BY <1>3, <1>6, <2>1 DEF Averages, PointNext
<1>11. \A i \in DOMAIN fifo' : RoundedNext(fifo'[i])
  BY <1>1, <1>6 DEF Averages, Results
<1>12. GatheredNext(cnt_val')
  BY <1>1, <1>6 DEF Averages, Results, report
<1>13. HonestNext(prof_info')
  <2>1. Honest(prof_info) /\ Counts(prof_info)
    BY DEF Averages, AverageHonest, Honest, Results
  <2>2. QED
    BY <1>1, <1>6, <2>1 DEF report
<1>14. QED
  BY <1>5, <1>9, <1>10, <1>11, <1>12, <1>13, AveragesNext

LEMMA UpdateKeepsAverages ==
  ASSUME Results, Averages, NEW t \in Threads, UpdatePush(t) \/ UpdatePop(t)
  PROVE  Averages'
<1>1. /\ prof_data_ \in [Threads -> Data] /\ pc \in [Threads -> {"idle", "push", "pop"}]
      /\ fifo \in Seq(Data) /\ UNCHANGED <<report, measured>>
  BY DEF Results, UpdatePush, UpdatePop
<1>2. ASSUME NEW u \in Threads, prof_data_'[u] = prof_data_[u],
             pc'[u] = "idle" <=> pc[u] = "idle"
      PROVE  PointNext(u, prof_data_'[u])
  <2>1. /\ Exactly(prof_data_[u]) => ExactlyNext(prof_data_[u])
        /\ Rounded(prof_data_[u]) => RoundedNext(prof_data_[u])
    BY <1>1, NothingMeasured
  <2>2. QED
    BY <1>2, <2>1 DEF Averages, PointNext
<1>3. \A i \in DOMAIN fifo : RoundedNext(fifo[i])
  BY <1>1, NothingMeasured DEF Averages
<1>4. FewUnits' /\ GatheredNext(cnt_val') /\ HonestNext(prof_info')
  <2>1. Honest(prof_info)
    BY DEF Averages, AverageHonest, Honest
  <2>2. QED
    BY <1>1, <2>1, NothingMeasured DEF Averages, report
<1>5. CASE UpdatePush(t)
  <2>1. /\ fifo' = Append(fifo, prof_data_[t]) /\ pc[t] = "push"
        /\ prof_data_' = [prof_data_ EXCEPT ![t] = NoData]
        /\ pc' = [pc EXCEPT ![t] = "idle"]
    BY <1>5 DEF UpdatePush, ResetProfData
  <2>2. \A i \in DOMAIN fifo' : \/ i \in DOMAIN fifo /\ fifo'[i] = fifo[i]
                                \/ fifo'[i] = prof_data_[t]
    BY <1>1, <2>1
  <2>3. RoundedNext(prof_data_[t])
    BY <1>1, <2>1, NothingMeasured DEF Averages
  <2>4. \A i \in DOMAIN fifo' : RoundedNext(fifo'[i])
    BY <1>3, <2>2, <2>3
  <2>5. PointNext(t, prof_data_'[t])
    <3>1. ExactlyNext(NoData)
      BY <1>1, SumOfNone, SumPrimes DEF NoData, ExactlyNext
    <3>2. QED
      BY <1>1, <2>1, <3>1 DEF PointNext
  <2>6. \A u \in Threads \ {t} : PointNext(u, prof_data_'[u])
    BY <1>1, <1>2, <2>1
  <2>7. QED
    BY <1>4, <2>4, <2>5, <2>6, AveragesNext
<1>6. CASE UpdatePop(t)
  <2>1. pc[t] = "pop" /\ pc' = [pc EXCEPT ![t] = "push"]
    BY <1>6 DEF UpdatePop
  <2>2. CASE fifo = << >>
    <3>1. UNCHANGED <<prof_data_, fifo>>
      BY <1>6, <2>2 DEF UpdatePop
    <3>2. \A u \in Threads : PointNext(u, prof_data_'[u])
      BY <1>1, <1>2, <2>1, <3>1
    <3>3. QED
      BY <1>3, <1>4, <3>1, <3>2, AveragesNext
  <2>3. CASE fifo # << >>
    <3>1. prof_data_' = [prof_data_ EXCEPT ![t] = Head(fifo)] /\ fifo' = Tail(fifo)
      BY <1>6, <2>3 DEF UpdatePop
    <3>2. /\ 1 \in DOMAIN fifo /\ Head(fifo) = fifo[1]
          /\ \A i \in DOMAIN fifo' : i + 1 \in DOMAIN fifo /\ fifo'[i] = fifo[i + 1]
      BY <1>1, <2>3, <3>1
    <3>3. RoundedNext(Head(fifo)) /\ \A i \in DOMAIN fifo' : RoundedNext(fifo'[i])
      BY <1>3, <3>2
    <3>4. PointNext(t, prof_data_'[t])
      BY <1>1, <2>1, <3>1, <3>3 DEF PointNext
    <3>5. \A u \in Threads \ {t} : PointNext(u, prof_data_'[u])
      BY <1>1, <1>2, <2>1, <3>1
    <3>6. QED
      BY <1>4, <3>3, <3>4, <3>5, AveragesNext
  <2>4. QED
    BY <2>2, <2>3
<1>7. QED
  BY <1>5, <1>6

LEMMA GetProfInfoKeepsAverages ==
  ASSUME Results, Apart, Averages, GetProfInfoPop \/ GetProfInfoReturn
  PROVE  Averages'
<1>1. UNCHANGED <<prof_data_, pc, measured>> /\ fifo \in Seq(Data)
  BY DEF GetProfInfoPop, GetProfInfoReturn, Results
<1>2. FewUnits' /\ \A t \in Threads : PointNext(t, prof_data_'[t])
  BY <1>1, NothingMeasured DEF Averages, PointNext
<1>3. cnt_val \in Data /\ Counts(cnt_val) /\ Gathered(cnt_val) /\ FewUnits
      /\ Honest(prof_info)
  BY DEF Results, Averages, AverageHonest, Honest
<1>4. CASE GetProfInfoPop
  <2>1. /\ fifo # << >> /\ fifo' = Tail(fifo) /\ UNCHANGED prof_info
        /\ cnt_val' = IF Head(fifo).meas_num_ = 0 THEN cnt_val
                      ELSE Fold(cnt_val, Head(fifo))
    BY <1>4 DEF GetProfInfoPop
  <2>2. /\ Head(fifo) \in Data /\ Counts(Head(fifo)) /\ Head(fifo).meas_num_ # 0
        /\ Head(fifo).meas \cap (lost \cup Reported) = {}
    BY <2>1, OldestResult
  <2>3. /\ 1 \in DOMAIN fifo /\ Head(fifo) = fifo[1]
        /\ \A i \in DOMAIN fifo' : i + 1 \in DOMAIN fifo /\ fifo'[i] = fifo[i + 1]
    BY <1>1, <2>1
  <2>4. Gathered(cnt_val')
    <3>1. Rounded(Head(fifo))
      BY <2>3 DEF Averages
    <3>2. cnt_val.meas \cap Head(fifo).meas = {}
      BY <2>2 DEF Reported
    <3>3. QED
      BY <1>3, <2>1, <2>2, <3>1, <3>2, FoldIsGathered
  <2>5. \A i \in DOMAIN fifo' : RoundedNext(fifo'[i])
    BY <1>1, <2>3, NothingMeasured DEF Averages
  <2>6. GatheredNext(cnt_val') /\ HonestNext(prof_info')
    BY <1>1, <1>3, <2>1, <2>4, NothingMeasured
  <2>7. QED
    BY <1>2, <2>5, <2>6, AveragesNext
<1>5. CASE GetProfInfoReturn
  <2>1. /\ fifo = << >> /\ UNCHANGED fifo /\ cnt_val.meas_num_ # 0
        /\ prof_info' = Average(cnt_val) /\ cnt_val' = NoData
    BY <1>5 DEF GetProfInfoReturn
  <2>2. HonestNext(prof_info')
    BY <1>1, <1>3, <2>1, AverageIsHonest, NothingMeasured
  <2>3. GatheredNext(cnt_val')
    <3>1. SumNext({}) = 0
      BY <1>1, SumOfNone, SumPrimes
    <3>2. QED
      BY <2>1, <3>1 DEF NoData, GatheredNext
  <2>4. \A i \in DOMAIN fifo' : RoundedNext(fifo'[i])
    BY <2>1
  <2>5. QED
    BY <1>2, <2>2, <2>3, <2>4, AveragesNext
<1>6. QED
  BY <1>4, <1>5

LEMMA AveragesAlways == Spec => []Averages
<1>1. Init => Averages
  <2> SUFFICES ASSUME Init PROVE Averages
    OBVIOUS
  <2>1. SumOf({}) = 0
    BY SumOfNone
  <2>2. FewUnits
    <3>1. UnitsOf(1 .. Len(measured)) = {}
      BY DEF Init, UnitsOf
    <3>2. QED
      BY <3>1, FS_EmptySet DEF FewUnits
  <2>3. Exactly(NoData) /\ Gathered(NoData)
    BY <2>1 DEF Exactly, Gathered, NoData
  <2>4. AverageHonest
    BY DEF Init, AverageHonest, NoData
  <2>5. QED
    BY <2>2, <2>3, <2>4 DEF Init, Averages
<1>2. Watches /\ Recorded /\ Results /\ Apart /\ Averages /\ [Next]_vars => Averages'
  <2> SUFFICES ASSUME Watches, Recorded, Results, Apart, Averages, [Next]_vars
               PROVE  Averages'
    OBVIOUS
  <2>1. CASE UNCHANGED vars
    <3>1. \A t \in Threads : PointNext(t, prof_data_'[t])
      BY <2>1, NothingMeasured DEF Averages, PointNext, vars
    <3>2. QED
      BY <2>1, <3>1, AveragesKept DEF vars
  <2>2. CASE GetProfInfoPop \/ GetProfInfoReturn
    BY <2>2, GetProfInfoKeepsAverages
  <2>3. ASSUME NEW t \in Threads, ThreadStep(t)
        PROVE  Averages'
    BY <2>3, TouchKeepsAverages, MeasureKeepsAverages, UpdateKeepsAverages
    DEF ThreadStep
  <2>4. QED
    BY <2>1, <2>2, <2>3 DEF Next
<1>3. QED
  BY <1>1, <1>2, WatchesAlways, RecordedAlways, ResultsAlways, PTL DEF Spec

(* Whatever Update of the threads rounds, loses and puts back into a       *)
(* point, GetProfInfo reports the largest value of exactly the             *)
(* measurements it counts, and an average that the two roundings, by       *)
(* Update and by GetProfInfo, make less than two too small and never too   *)
(* large.                                                                  *)
THEOREM ReportHonestAlways == Spec => []ReportHonest
<1>1. Averages => AverageHonest
  BY DEF Averages
<1>2. QED
  BY <1>1, AveragesAlways, MaxHonestAlways, PTL DEF ReportHonest

=============================================================================
