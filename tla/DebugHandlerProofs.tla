------------------------- MODULE DebugHandlerProofs -------------------------
(***************************************************************************)
(* Theorems about the extraction by CDebugHandler, for any number of       *)
(* threads and groups and any scenario.                                    *)
(***************************************************************************)
EXTENDS DebugHandler, SequenceTheorems, WellFoundedInduction, TLAPS

(***************************************************************************)
(* The inductive invariant                                                 *)
(***************************************************************************)
GettingLog == job \in {"monitor", "logs"}
Extracting == job \in {"traces", "scan", "logs"}

(* Types, and what a scan has chosen: a group it has passed, and one it    *)
(* has a log of if it was asked for it.                                    *)
TypeInv ==
  /\ TypeOK
  /\ returned \in Seq([mask : SUBSET Groups, linux_time : Stamps])
  /\ printed \in Seq(Stamps \cup {0})
  /\ extracts \in Nat
  /\ \A g \in Groups : grp_logs_last[g].valid => grp_logs_last[g].linux_time # 0
  /\ GettingLog /\ min_index \in mask => grp_logs_last[min_index].valid
  /\ min_index < ind \/ min_index = -1
  /\ min_time <= clock

(* No two entries have one stamp, and all but the latest that are yet to   *)
(* be put were overtaken.                                                  *)
Clocked ==
  /\ \A t \in Adders : linux_time[t] # 0 =>
       /\ linux_time[t] < clock
       /\ linux_time[t] \in slow \cup {clock - 1}
       /\ linux_time[t] \notin logged \cup InRings \cup present.traces
       /\ \A u \in Adders : linux_time[u] = linux_time[t] => u = t
  /\ \A x \in logged \cup strays \cup InRings \cup present.traces : x < clock
  /\ \A g \in Groups : grp_trace_res_[g].lin_time < clock

(* A log is once in one FIFO, or in one place of the table.                *)
Placed ==
  /\ \A g \in Groups : IsInjective(logs[g])
  /\ \A g, h \in Groups : Range(logs[g]) \cap Range(logs[h]) # {} => g = h
  /\ \A g, h \in Groups :
       /\ grp_logs_last[g].valid /\ grp_logs_last[h].valid
       /\ grp_logs_last[g].linux_time = grp_logs_last[h].linux_time
       => g = h
  /\ \A g \in Groups : ~grp_logs_last[g].valid =>
       grp_logs_last[g].linux_time \in {0} \cup Returned \cup forgotten \cup strays
  /\ InFifos \cup Cached \cup Returned \cup forgotten \cup (strays \ {0}) \subseteq logged
  /\ LogsReturnedOnce
  /\ NothingLost

(* A log that waits behind a later one was overtaken.                      *)
FifoOrder ==
  \A g \in Groups :
    /\ \A i, j \in DOMAIN logs[g] :
         i < j /\ logs[g][j] < logs[g][i] => logs[g][j] \in slow
    /\ grp_logs_last[g].valid =>
         \A x \in Range(logs[g]) : x < grp_logs_last[g].linux_time => x \in slow

(* What is earlier than the choice of a scan for all groups is where it    *)
(* has not looked, or was overtaken.                                       *)
LogScan ==
  GettingLog =>
    /\ min_index # -1 => grp_logs_last[min_index].linux_time = min_time
    /\ mask = Groups =>
         /\ \A x \in Pending : x < min_time => x \in slow
         /\ \A g \in Groups : g < ind =>
              /\ grp_logs_last[g].valid => min_time <= grp_logs_last[g].linux_time
              /\ \A x \in Range(logs[g]) : x < min_time => x \in slow
    /\ job = "logs" => mask = Groups /\ ~null_time

(* What is left is later than what was returned, or was overtaken.         *)
LogsLeft ==
  \A i \in DOMAIN returned : returned[i].mask = Groups =>
    \A x \in InFifos \cup Cached : x < returned[i].linux_time => x \in slow

(* The same of a scan of the traces.  A group whose ring was found empty   *)
(* is not looked at again.                                                 *)
Open(g) == grp_trace_res_[g].status # "TRACE_EMPTY_DATA"
Held(g) == grp_trace_res_[g].status = "DATA_IND"
TraceScan ==
  /\ \A g \in Groups : Held(g) =>
       \A x \in traces[g] : x < grp_trace_res_[g].lin_time => x \in slow
  /\ job = "scan" =>
       /\ min_index # -1 => /\ grp_trace_res_[min_index].lin_time = min_time
                            /\ Held(min_index)
       /\ \A x \in Pending : x < min_time => x \in slow
       /\ \A g \in Groups : g < ind /\ Open(g) =>
            /\ Held(g) /\ min_time <= grp_trace_res_[g].lin_time
            /\ \A x \in traces[g] : x < min_time => x \in slow

TracesLeft ==
  \A i \in DOMAIN printed :
    /\ printed[i] < clock
    /\ \A g \in Groups :
         /\ Held(g) /\ 0 # grp_trace_res_[g].lin_time
              /\ grp_trace_res_[g].lin_time < printed[i]
              => grp_trace_res_[g].lin_time \in slow
         /\ Open(g) => \A x \in traces[g] : x < printed[i] => x \in slow

(* What an extraction found is on its way to the report, in front of what  *)
(* came later.                                                             *)
PresentLogs ==
  Extracting =>
    /\ present.logs \subseteq InFifos \cup Cached \cup Returned
    /\ present.logs \subseteq logged
    /\ \A g \in Groups :
         /\ \A i, j \in DOMAIN logs[g] :
              i < j /\ logs[g][j] \in present.logs => logs[g][i] \in present.logs
         /\ grp_logs_last[g].valid /\ grp_logs_last[g].linux_time \notin present.logs =>
              Range(logs[g]) \cap present.logs = {}
    /\ job = "logs" /\ min_index = -1 =>
         /\ \A x \in present.logs : x < min_time
         /\ \A g \in Groups : g < ind =>
              /\ Range(logs[g]) \cap present.logs = {}
              /\ grp_logs_last[g].valid => grp_logs_last[g].linux_time \notin present.logs

Kept(g) == IF Held(g) THEN {grp_trace_res_[g].lin_time} ELSE {}
AllKept == UNION {Kept(g) : g \in Groups}

PresentTraces ==
  /\ extracts = 0 => grp_trace_res_ = NoTraces /\ ~Extracting /\ job # "extracted"
  /\ extracts = 1 /\ job \in {"traces", "scan"} =>
       /\ present.traces \subseteq
            InRings \cup AllKept \cup Range(printed)
       /\ \A g \in Groups : ~Open(g) => traces[g] \cap present.traces = {}
       /\ job = "scan" /\ min_index = -1 =>
            /\ \A x \in present.traces : x < min_time
            /\ \A g \in Groups : g >= ind /\ Held(g) => grp_trace_res_[g].lin_time < min_time
            /\ \A g \in Groups : g < ind =>
                 (traces[g] \cup Kept(g)) \cap present.traces = {}
  /\ extracts = 1 /\ job \in {"logs", "extracted"} /\ ~active_ =>
       present.traces \subseteq Range(printed)

-----------------------------------------------------------------------------
(***************************************************************************)
(* Sequences and numbers                                                   *)
(***************************************************************************)
LEMMA LeastIsEarliest ==
  ASSUME NEW S, \E z \in S : \A y \in S : z <= y
  PROVE  Earliest(S) \in S /\ \A y \in S : Earliest(S) <= y
<1> DEFINE P(x) == x \in S /\ \A y \in S : x <= y
<1>1. \E x : P(x)
  OBVIOUS
<1>2. P(CHOOSE x : P(x))
  <2> HIDE DEF P
  <2> QED
    BY <1>1, Zenon
<1>3. QED
  BY <1>2, Zenon DEF Earliest

LEMMA EarliestIsLeast ==
  ASSUME NEW S \in SUBSET Nat, S # {}
  PROVE  Earliest(S) \in S /\ \A y \in S : Earliest(S) <= y
<1> DEFINE R == OpToRel(<, Nat)
<1>1. R = {ss \in Nat \X Nat : ss[1] < ss[2]}
  BY DEF OpToRel
<1>2. IsWellFoundedOn(R, Nat)
  BY NatLessThanWellFounded
<1> HIDE DEF R
<1>3. PICK x \in S : \A y \in S : <<y, x>> \notin R
  BY <1>2, WFMin
<1>4. ASSUME NEW y \in S
      PROVE  x <= y
  <2>1. x \in Nat /\ y \in Nat
    OBVIOUS
  <2>2. ~(y < x)
    BY <1>1, <1>3, <2>1
  <2>3. QED
    BY <2>1, <2>2
<1>5. \E z \in S : \A y \in S : z <= y
  BY <1>4
<1>6. QED
  BY <1>5, LeastIsEarliest, Zenon

LEMMA Appended ==
  ASSUME NEW S, NEW s \in Seq(S), NEW e \in S
  PROVE  /\ Append(s, e) \in Seq(S)
         /\ Len(Append(s, e)) = Len(s) + 1 /\ Len(s) \in Nat
         /\ DOMAIN s = 1 .. Len(s) /\ DOMAIN Append(s, e) = 1 .. Len(s) + 1
         /\ \A i \in DOMAIN s : Append(s, e)[i] = s[i]
         /\ Append(s, e)[Len(s) + 1] = e
         /\ Range(Append(s, e)) = Range(s) \cup {e}
<1>1. /\ Append(s, e) \in Seq(S)
      /\ Len(Append(s, e)) = Len(s) + 1 /\ Len(s) \in Nat
      /\ DOMAIN s = 1 .. Len(s) /\ DOMAIN Append(s, e) = 1 .. Len(s) + 1
      /\ \A i \in DOMAIN s : Append(s, e)[i] = s[i]
      /\ Append(s, e)[Len(s) + 1] = e
  OBVIOUS
<1>2. ASSUME NEW x \in Range(Append(s, e))
      PROVE  x \in Range(s) \cup {e}
  <2>1. PICK i \in 1 .. Len(s) + 1 : x = Append(s, e)[i]
    BY <1>1, <1>2 DEF Range
  <2>2. CASE i = Len(s) + 1
    BY <1>1, <2>1, <2>2
  <2>3. CASE i # Len(s) + 1
    BY <1>1, <2>1, <2>3 DEF Range
  <2>4. QED
    BY <2>2, <2>3
<1>3. ASSUME NEW x \in Range(s)
      PROVE  x \in Range(Append(s, e))
  <2>1. PICK i \in DOMAIN s : x = s[i]
    BY <1>3 DEF Range
  <2>2. i \in DOMAIN Append(s, e) /\ x = Append(s, e)[i]
    BY <1>1, <2>1
  <2>3. QED
    BY <2>2 DEF Range
<1>4. e \in Range(Append(s, e))
  <2>1. Len(s) + 1 \in DOMAIN Append(s, e)
    BY <1>1
  <2>2. QED
    BY <1>1, <2>1 DEF Range
<1>5. Range(Append(s, e)) = Range(s) \cup {e}
  BY <1>2, <1>3, <1>4
<1>6. QED
  BY <1>1, <1>5

LEMMA Beheaded ==
  ASSUME NEW S, NEW s \in Seq(S), s # << >>
  PROVE  /\ Head(s) \in S /\ Tail(s) \in Seq(S) /\ Head(s) = s[1]
         /\ 1 \in DOMAIN s
         /\ \A i \in DOMAIN Tail(s) :
              i \in Nat \ {0} /\ i + 1 \in DOMAIN s /\ Tail(s)[i] = s[i + 1]
         /\ Range(s) = {Head(s)} \cup Range(Tail(s))
<1>1. /\ Head(s) \in S /\ Tail(s) \in Seq(S) /\ Head(s) = s[1]
      /\ Len(s) \in Nat \ {0} /\ DOMAIN s = 1 .. Len(s)
      /\ Len(Tail(s)) = Len(s) - 1 /\ DOMAIN Tail(s) = 1 .. Len(s) - 1
      /\ \A i \in DOMAIN Tail(s) : Tail(s)[i] = s[i + 1]
  BY HeadTailProperties, LenProperties, EmptySeq
<1>2. /\ 1 \in DOMAIN s
      /\ \A i \in DOMAIN Tail(s) :
           i \in Nat \ {0} /\ i + 1 \in DOMAIN s /\ Tail(s)[i] = s[i + 1]
  BY <1>1
<1>3. ASSUME NEW x \in Range(s)
      PROVE  x \in {Head(s)} \cup Range(Tail(s))
  <2>1. PICK i \in DOMAIN s : x = s[i]
    BY <1>3 DEF Range
  <2>2. CASE i # 1
    <3>1. i - 1 \in DOMAIN Tail(s) /\ Tail(s)[i - 1] = x
      BY <1>1, <2>1, <2>2
    <3>2. QED
      BY <3>1 DEF Range
  <2>3. QED
    BY <1>1, <2>1, <2>2
<1>4. ASSUME NEW x \in {Head(s)} \cup Range(Tail(s))
      PROVE  x \in Range(s)
  BY <1>1, <1>2, <1>4 DEF Range
<1>5. QED
  BY <1>1, <1>2, <1>3, <1>4

-----------------------------------------------------------------------------
(***************************************************************************)
(* Types                                                                   *)
(***************************************************************************)
LEMMA Ranges ==
  ASSUME limit \in Scenarios
  PROVE  /\ num_groups \in Nat /\ Groups \subseteq Nat /\ -1 \notin Groups
         /\ limit.entries \in Nat /\ limit.extracts \in Nat /\ Stamps \subseteq Nat \ {0}
         /\ limit.masks \subseteq SUBSET Groups
  BY SizesAssumption DEF Groups, Stamps

LEMMA TypeInvAdd ==
  ASSUME TypeInv, NEW t \in Adders
  PROVE  /\ \A what \in limit.kinds : AddCall(t, what) => TypeInv'
         /\ Stamp(t) => TypeInv'
         /\ \A g \in Groups : Put(t, g) => TypeInv'
<1> USE DEF TypeInv
<1>1. ASSUME NEW what \in limit.kinds, AddCall(t, what)
      PROVE  TypeInv'
  <2>1. pc' \in [Adders -> {"idle"} \cup limit.kinds]
    BY <1>1 DEF AddCall, TypeOK
  <2>2. QED
    BY <1>1, <2>1
    DEF AddCall, queues, tables, callVars, bounds, history, TypeOK, GettingLog,
        Stamps
<1>2. ASSUME Stamp(t)
      PROVE  TypeInv'
  <2>1. clock \in Stamps /\ clock' \in 1 .. limit.entries + 1 /\ min_time <= clock'
    BY <1>2, Ranges DEF Stamp, TypeOK, Stamps
  <2>2. linux_time' \in [Adders -> Stamps \cup {0}] /\ slow' \subseteq Stamps
    BY <1>2, <2>1 DEF Stamp, TypeOK, Pending
  <2>3. QED
    BY <1>2, <2>1, <2>2
    DEF Stamp, queues, tables, callVars, bounds, TypeOK, GettingLog, Stamps
<1>3. ASSUME NEW g \in Groups, Put(t, g)
      PROVE  TypeInv'
  <2>1. linux_time[t] \in Stamps
    BY <1>3 DEF Put, TypeOK
  <2>2. /\ logs' \in [Groups -> Seq(Stamps)]
        /\ traces' \in [Groups -> SUBSET Stamps]
        /\ logged' \subseteq Stamps
    <3>1. CASE pc[t] = "log"
      <4>1. logs \in [Groups -> Seq(Stamps)] /\ logs[g] \in Seq(Stamps)
        BY DEF TypeOK
      <4>2. Append(logs[g], linux_time[t]) \in Seq(Stamps)
        BY <2>1, <4>1, Appended
      <4>3. logs' = [logs EXCEPT ![g] = Append(logs[g], linux_time[t])]
        BY <1>3, <3>1 DEF Put
      <4>4. logs' \in [Groups -> Seq(Stamps)]
        BY <4>1, <4>2, <4>3
      <4>5. QED
        BY <1>3, <2>1, <3>1, <4>4 DEF Put, TypeOK
    <3>2. CASE pc[t] # "log"
      <4>1. logs' = logs /\ logged' = logged
        BY <1>3, <3>2 DEF Put
      <4>2. traces' = [traces EXCEPT ![g] = traces[g] \cup {linux_time[t]}]
        BY <1>3, <3>2 DEF Put
      <4>3. traces \in [Groups -> SUBSET Stamps]
        BY DEF TypeOK
      <4>4. traces' \in [Groups -> SUBSET Stamps]
        BY <2>1, <4>2, <4>3
      <4>5. QED
        BY <4>1, <4>4 DEF TypeOK
    <3>3. QED
      BY <3>1, <3>2
  <2>3. /\ pc' \in [Adders -> {"idle"} \cup limit.kinds]
        /\ linux_time' \in [Adders -> Stamps \cup {0}]
    BY <1>3 DEF Put, TypeOK
  <2>4. QED
    BY <1>3, <2>2, <2>3
    DEF Put, tables, callVars, bounds, TypeOK, GettingLog, Stamps
<1>4. QED
  BY <1>1, <1>2, <1>3

LEMMA ScanTypes ==
  ASSUME TypeInv, ~ScanEnds
  PROVE  /\ ind \in Groups /\ ind \in Nat /\ ind + 1 \in 0 .. num_groups
         /\ \A h \in Groups : h < ind + 1 <=> h < ind \/ h = ind
  BY Ranges DEF TypeInv, TypeOK, ScanEnds, Groups

LEMMA ConsiderTypes ==
  ASSUME TypeInv, ~ScanEnds, NEW x \in Stamps \cup {0}, ind' = ind + 1, Consider(ind, x)
  PROVE  /\ min_time' \in 0 .. limit.entries + 1 /\ min_time' <= clock
         /\ min_time' <= x /\ min_time' <= min_time
         /\ min_index' \in Groups \cup {-1} /\ min_index' \in {min_index, ind}
         /\ ind' \in 0 .. num_groups
         /\ min_index' < ind' \/ min_index' = -1
         /\ \/ min_index' = ind /\ min_time' = x /\ x < min_time
            \/ min_index' = min_index /\ min_time' = min_time /\ min_time <= x
<1>1. /\ limit.entries \in Nat /\ Stamps \subseteq Nat /\ Groups \subseteq Nat /\ x \in Nat
      /\ x <= limit.entries
  BY Ranges DEF TypeInv, TypeOK, Stamps
<1>2. /\ min_time \in Nat /\ min_time <= limit.entries + 1 /\ clock \in Nat
      /\ min_index \in Groups \cup {-1} /\ min_time <= clock
      /\ min_index < ind \/ min_index = -1
  BY <1>1 DEF TypeInv, TypeOK
<1>3. ind \in Groups /\ ind \in Nat /\ ind' \in 0 .. num_groups
  BY ScanTypes
<1>4. CASE x < min_time
  BY <1>1, <1>2, <1>3, <1>4 DEF Consider, Earlier
<1>5. CASE ~(x < min_time)
  BY <1>1, <1>2, <1>3, <1>5 DEF Consider, Earlier
<1>6. QED
  BY <1>4, <1>5

LEMMA CallTypes ==
  ASSUME TypeInv
  PROVE  /\ BeginScan => /\ ind' \in 0 .. num_groups /\ min_index' \in Groups \cup {-1}
                         /\ min_time' \in 0 .. limit.entries + 1 /\ min_time' <= clock
                         /\ min_index' = -1 /\ slow' \subseteq Stamps
         /\ EndCall => /\ ind' \in 0 .. num_groups /\ min_index' \in Groups \cup {-1}
                       /\ min_time' \in 0 .. limit.entries + 1 /\ min_time' <= clock
                       /\ min_index' = -1 /\ mask' \in SUBSET Groups /\ null_time' \in BOOLEAN
<1>1. /\ num_groups \in Nat /\ limit.entries \in Nat /\ clock \in 1 .. limit.entries + 1
      /\ Pending \subseteq Stamps /\ slow \subseteq Stamps
  BY Ranges DEF TypeInv, TypeOK, Pending
<1>2. ASSUME BeginScan
      PROVE  /\ ind' \in 0 .. num_groups /\ min_index' = -1
             /\ min_time' \in 0 .. limit.entries + 1 /\ min_time' <= clock
  BY <1>1, <1>2 DEF BeginScan
<1>3. BeginScan => slow' \subseteq Stamps
  BY <1>1 DEF BeginScan
<1>4. ASSUME EndCall
      PROVE  /\ ind' \in 0 .. num_groups /\ min_index' = -1
             /\ min_time' \in 0 .. limit.entries + 1 /\ min_time' <= clock
  BY <1>1, <1>4 DEF EndCall
<1>5. EndCall => mask' \in SUBSET Groups /\ null_time' \in BOOLEAN
  BY DEF EndCall
<1>6. QED
  BY <1>2, <1>3, <1>4, <1>5

LEMMA TypeInvGetLogRefill ==
  ASSUME TypeInv, GetLogRefill
  PROVE  TypeInv'
<1>1. ind \in Groups
  BY ScanTypes DEF GetLogRefill
<1>2. CASE logs[ind] # << >>
  <2> DEFINE x == Head(logs[ind])
  <2>1. logs \in [Groups -> Seq(Stamps)] /\ logs[ind] \in Seq(Stamps)
    BY <1>1 DEF TypeInv, TypeOK
  <2>2. x \in Stamps /\ Tail(logs[ind]) \in Seq(Stamps)
    BY <1>2, <2>1, Beheaded
  <2> HIDE DEF x
  <2>3. /\ logs' = [logs EXCEPT ![ind] = Tail(logs[ind])]
        /\ grp_logs_last' = [grp_logs_last EXCEPT ![ind] = [valid |-> TRUE, linux_time |-> x]]
        /\ Consider(ind, x) /\ ind' = ind + 1 /\ ~ScanEnds
    BY <1>2 DEF GetLogRefill, x
  <2>4. logs' \in [Groups -> Seq(Stamps)]
    BY <1>1, <2>1, <2>2, <2>3
  <2>5. grp_logs_last' \in [Groups -> [valid : BOOLEAN, linux_time : Stamps \cup {0}]]
    BY <1>1, <2>2, <2>3 DEF TypeInv, TypeOK
  <2>6. /\ \A g \in Groups : grp_logs_last'[g].valid => grp_logs_last'[g].linux_time # 0
        /\ GettingLog' /\ min_index' \in mask' => grp_logs_last'[min_index'].valid
    <3>1. x # 0
      BY <2>2, Ranges DEF TypeInv, TypeOK
    <3>2. min_index' \in {min_index, ind} /\ mask' = mask /\ GettingLog /\ mask \subseteq Groups
      BY <2>2, <2>3, ConsiderTypes DEF GetLogRefill, GettingLog, TypeInv, TypeOK
    <3>3. QED
      BY <1>1, <2>3, <3>1, <3>2 DEF TypeInv, TypeOK
  <2>7. /\ min_time' \in 0 .. limit.entries + 1 /\ min_time' <= clock
        /\ min_index' \in Groups \cup {-1}
        /\ ind' \in 0 .. num_groups
        /\ min_index' < ind' \/ min_index' = -1
    BY <2>2, <2>3, ConsiderTypes
  <2>8. QED
    BY <2>4, <2>5, <2>6, <2>7
    DEF GetLogRefill, TypeInv, TypeOK, appVars, bounds, history, Stamps
<1>3. CASE logs[ind] = << >>
  <2>1. UNCHANGED <<grp_logs_last, logs, min_time, min_index>> /\ ind' = ind + 1
    BY <1>3 DEF GetLogRefill
  <2>2. ind' \in 0 .. num_groups /\ (min_index' < ind' \/ min_index' = -1)
    BY <2>1, ScanTypes, Ranges DEF GetLogRefill, TypeInv, TypeOK
  <2>3. QED
    BY <2>1, <2>2
    DEF GetLogRefill, TypeInv, TypeOK, GettingLog, appVars, bounds, history,
        Stamps
<1>4. QED
  BY <1>2, <1>3

LEMMA TypeInvGetLogCached ==
  ASSUME TypeInv, GetLogCached
  PROVE  TypeInv'
<1>1. ind \in Groups
  BY ScanTypes DEF GetLogCached
<1>2. grp_logs_last[ind].linux_time \in Stamps \cup {0}
  BY <1>1 DEF TypeInv, TypeOK
<1>3. /\ min_time' \in 0 .. limit.entries + 1 /\ min_time' <= clock
      /\ min_index' \in Groups \cup {-1} /\ min_index' \in {min_index, ind}
      /\ ind' \in 0 .. num_groups
      /\ min_index' < ind' \/ min_index' = -1
  BY <1>2, ConsiderTypes DEF GetLogCached
<1>4. GettingLog /\ min_index' \in mask => grp_logs_last[min_index'].valid
  BY <1>3 DEF GetLogCached, Refill, TypeInv
<1>5. QED
  BY <1>3, <1>4
  DEF GetLogCached, TypeInv, TypeOK, GettingLog, queues, appVars, tables,
      bounds, history, Stamps

LEMMA TypeInvGetLogReturn ==
  ASSUME TypeInv, GetLogReturn
  PROVE  TypeInv'
<1> DEFINE x == grp_logs_last[min_index].linux_time
           r == [mask |-> mask, linux_time |-> x]
<1>1. min_index \in Groups /\ mask \in SUBSET Groups /\ GettingLog
  BY DEF GetLogReturn, TypeInv, TypeOK, GettingLog
<1>2. x \in Stamps \cup {0} /\ (min_index \in mask => x \in Stamps)
  BY <1>1 DEF TypeInv, TypeOK
<1>3. /\ grp_logs_last' \in [Groups -> [valid : BOOLEAN, linux_time : Stamps \cup {0}]]
      /\ \A g \in Groups : grp_logs_last'[g].valid =>
           grp_logs_last[g].valid /\ grp_logs_last'[g].linux_time = grp_logs_last[g].linux_time
  <2>1. grp_logs_last' = [grp_logs_last EXCEPT ![min_index].valid = FALSE]
    BY DEF GetLogReturn, Release
  <2>2. grp_logs_last \in [Groups -> [valid : BOOLEAN, linux_time : Stamps \cup {0}]]
    BY DEF TypeInv, TypeOK
  <2>3. QED
    BY <1>1, <2>1, <2>2
<1>4. /\ returned' \in Seq([mask : SUBSET Groups, linux_time : Stamps])
      /\ strays' \subseteq Stamps \cup {0}
  <2>1. CASE min_index \in mask
    <3>1. r \in [mask : SUBSET Groups, linux_time : Stamps]
      BY <1>1, <1>2, <2>1
    <3>2. returned' = Append(returned, r) /\ strays' = strays
      BY <2>1 DEF GetLogReturn
    <3>3. returned' \in Seq([mask : SUBSET Groups, linux_time : Stamps])
      BY <3>1, <3>2, Appended DEF TypeInv
    <3>4. QED
      BY <3>2, <3>3 DEF TypeInv, TypeOK
  <2>2. CASE min_index \notin mask
    BY <1>2, <2>2 DEF GetLogReturn, TypeInv, TypeOK
  <2>3. QED
    BY <2>1, <2>2
<1>5. /\ ind' \in 0 .. num_groups /\ min_index' = -1
      /\ min_time' \in 0 .. limit.entries + 1 /\ min_time' <= clock
      /\ mask' \in SUBSET Groups /\ null_time' \in BOOLEAN /\ slow' \subseteq Stamps
      /\ job' \in {"idle", "logs"}
  <2>1. CASE job = "logs"
    BY <2>1, CallTypes DEF GetLogReturn, GetLogCall
  <2>2. CASE job # "logs"
    BY <2>2, CallTypes DEF GetLogReturn, TypeInv, TypeOK
  <2>3. QED
    BY <2>1, <2>2
<1>6. -1 \notin mask'
  BY <1>5, Ranges DEF TypeInv, TypeOK
<1> HIDE DEF x, r
<1>7. QED
  BY <1>3, <1>4, <1>5, <1>6
  DEF GetLogReturn, TypeInv, TypeOK, GettingLog, queues, appVars, bounds, Stamps

LEMMA TypeInvOtherLogSteps ==
  ASSUME TypeInv
  PROVE  /\ GetLogDies => TypeInv'
         /\ GetLogNone => TypeInv'
         /\ \A m \in SUBSET Groups, null \in BOOLEAN : Monitor(m, null) => TypeInv'
<1>1. ASSUME GetLogDies
      PROVE  TypeInv'
  BY <1>1
  DEF GetLogDies, TypeInv, TypeOK, GettingLog, queues, appVars, tables,
      callVars, bounds, history, Stamps
<1>2. ASSUME GetLogNone
      PROVE  TypeInv'
  <2>1. /\ ind' \in 0 .. num_groups /\ min_index' = -1
        /\ min_time' \in 0 .. limit.entries + 1 /\ min_time' <= clock
        /\ mask' \in SUBSET Groups /\ null_time' \in BOOLEAN
    BY <1>2, CallTypes DEF GetLogNone
  <2>2. -1 \notin mask'
    BY <2>1, Ranges DEF TypeInv, TypeOK
  <2>3. QED
    BY <1>2, <2>1, <2>2
    DEF GetLogNone, TypeInv, TypeOK, GettingLog, queues, appVars, tables,
        bounds, history, Stamps
<1>3. ASSUME NEW m \in SUBSET Groups, NEW null \in BOOLEAN, Monitor(m, null)
      PROVE  TypeInv'
  <2>1. /\ ind' \in 0 .. num_groups /\ min_index' = -1
        /\ min_time' \in 0 .. limit.entries + 1 /\ min_time' <= clock
        /\ slow' \subseteq Stamps /\ mask' = m /\ null_time' = null
    BY <1>3, CallTypes DEF Monitor, GetLogCall
  <2>2. -1 \notin mask'
    BY <2>1, Ranges DEF TypeInv, TypeOK
  <2>3. QED
    BY <1>3, <2>1, <2>2
    DEF Monitor, TypeInv, TypeOK, GettingLog, queues, appVars, tables, bounds,
        Stamps
<1>4. QED
  BY <1>1, <1>2, <1>3

LEMMA TypeInvClears ==
  ASSUME TypeInv
  PROVE  /\ RTDBG_Stop => TypeInv'
         /\ ExtractDebugData => TypeInv'
         /\ Restart => TypeInv'
         /\ RTDBG_Start => TypeInv'
<1>1. Cached \subseteq Stamps
  BY DEF TypeInv, TypeOK, Cached
<1>2. ASSUME InitExtractTables
      PROVE  /\ grp_logs_last' \in [Groups -> [valid : BOOLEAN, linux_time : Stamps \cup {0}]]
             /\ \A g \in Groups : ~grp_logs_last'[g].valid
             /\ forgotten' \subseteq Stamps
  BY <1>1, <1>2 DEF InitExtractTables, TypeInv, TypeOK
<1>3. ASSUME RTDBG_Stop
      PROVE  TypeInv'
  BY <1>2, <1>3
  DEF RTDBG_Stop, TypeInv, TypeOK, GettingLog, queues, appVars, callVars,
      bounds, Stamps
<1>4. ASSUME ExtractDebugData
      PROVE  TypeInv'
  <2>1. UNION {Range(logs[g]) : g \in Groups} \subseteq Stamps
    BY RangeOfSeq DEF TypeInv, TypeOK
  <2>2. UNION {traces[g] : g \in Groups} \subseteq Stamps
    BY DEF TypeInv, TypeOK
  <2>3. present' \in [logs : SUBSET Stamps, traces : SUBSET Stamps]
    BY <1>4, <2>1, <2>2 DEF ExtractDebugData
  <2>4. printed' \in Seq(Stamps \cup {0}) /\ extracts' \in Nat
    BY <1>4 DEF ExtractDebugData, TypeInv
  <2>5. QED
    BY <1>2, <1>4, <2>3, <2>4
    DEF ExtractDebugData, TypeInv, TypeOK, GettingLog, queues, appVars,
        callVars, Stamps
<1>5. ASSUME Restart
      PROVE  TypeInv'
  <2>1. /\ ind' \in 0 .. num_groups /\ min_index' = -1
        /\ min_time' \in 0 .. limit.entries + 1 /\ min_time' <= clock
        /\ mask' \in SUBSET Groups /\ null_time' \in BOOLEAN
    BY <1>5, CallTypes DEF Restart
  <2>2. forgotten' \subseteq Stamps
    BY <1>1, <1>5 DEF Restart, TypeInv, TypeOK
  <2>3. /\ grp_logs_last' \in [Groups -> [valid : BOOLEAN, linux_time : Stamps \cup {0}]]
        /\ \A g \in Groups : ~grp_logs_last'[g].valid
        /\ grp_trace_res_' \in
             [Groups -> [status : {"DATA_IND", "NO_DATA_IND", "TRACE_EMPTY_DATA"},
                         lin_time : Stamps \cup {0}]]
    BY <1>5 DEF Restart, NoLogs, NoTraces
  <2>4. /\ present' \in [logs : SUBSET Stamps, traces : SUBSET Stamps]
        /\ printed' \in Seq(Stamps \cup {0})
    BY <1>5 DEF Restart
  <2>5. QED
    BY <1>5, <2>1, <2>2, <2>3, <2>4
    DEF Restart, TypeInv, TypeOK, GettingLog, queues, appVars, Stamps
<1>6. ASSUME RTDBG_Start
      PROVE  TypeInv'
  BY <1>6
  DEF RTDBG_Start, TypeInv, TypeOK, GettingLog, queues, appVars, tables,
      callVars, history, Stamps
<1>7. QED
  BY <1>3, <1>4, <1>5, <1>6

(* What a scan of the traces does to the group it looks at.                *)
GivenUp ==
  /\ ~Open(ind)
  /\ UNCHANGED <<traces, grp_trace_res_, min_time, min_index>>
LookedAt ==
  /\ Held(ind)
  /\ Consider(ind, grp_trace_res_[ind].lin_time)
  /\ UNCHANGED <<traces, grp_trace_res_>>
FoundEmpty ==
  /\ Open(ind) /\ ~Held(ind) /\ traces[ind] = {}
  /\ grp_trace_res_' = [grp_trace_res_ EXCEPT ![ind].status = "TRACE_EMPTY_DATA"]
  /\ UNCHANGED <<traces, min_time, min_index>>
Taken(x) ==
  /\ Open(ind) /\ ~Held(ind)
  /\ x \in traces[ind] /\ \A y \in traces[ind] : x <= y
  /\ grp_trace_res_' = [grp_trace_res_ EXCEPT ![ind] = [status |-> "DATA_IND", lin_time |-> x]]
  /\ traces' = [traces EXCEPT ![ind] = traces[ind] \ {x}]
  /\ Consider(ind, x)

LEMMA GroupCases ==
  ASSUME TypeInv, GetTraceEntryGroup
  PROVE  /\ ind \in Groups /\ ind' = ind + 1
         /\ GivenUp \/ LookedAt \/ FoundEmpty \/ \E x \in Stamps : Taken(x)
<1>1. ind \in Groups /\ ind' = ind + 1
  BY ScanTypes DEF GetTraceEntryGroup
<1>2. /\ grp_trace_res_[ind].status \in {"DATA_IND", "NO_DATA_IND", "TRACE_EMPTY_DATA"}
      /\ traces[ind] \in SUBSET Stamps /\ Stamps \subseteq Nat
  BY <1>1, Ranges DEF TypeInv, TypeOK
<1>3. CASE grp_trace_res_[ind].status = "TRACE_EMPTY_DATA"
  BY <1>1, <1>3 DEF GetTraceEntryGroup, GivenUp, Open
<1>4. CASE grp_trace_res_[ind].status = "DATA_IND"
  BY <1>1, <1>4 DEF GetTraceEntryGroup, LookedAt, Held
<1>5. CASE grp_trace_res_[ind].status = "NO_DATA_IND" /\ traces[ind] = {}
  BY <1>1, <1>5 DEF GetTraceEntryGroup, FoundEmpty, Open, Held
<1>6. CASE grp_trace_res_[ind].status = "NO_DATA_IND" /\ traces[ind] # {}
  <2> DEFINE x == Earliest(traces[ind])
  <2>1. x \in traces[ind] /\ \A y \in traces[ind] : x <= y
    BY <1>2, <1>6, EarliestIsLeast
  <2>2. /\ grp_trace_res_' =
             [grp_trace_res_ EXCEPT ![ind] = [status |-> "DATA_IND", lin_time |-> x]]
        /\ traces' = [traces EXCEPT ![ind] = traces[ind] \ {x}]
        /\ Consider(ind, x)
    BY <1>6 DEF GetTraceEntryGroup
  <2> HIDE DEF x
  <2>3. Taken(x)
    BY <1>6, <2>1, <2>2 DEF Taken, Open, Held
  <2>4. QED
    BY <1>1, <1>2, <2>1, <2>3
<1>7. QED
  BY <1>1, <1>2, <1>3, <1>4, <1>5, <1>6

LEMMA TypeInvTraces ==
  ASSUME TypeInv
  PROVE  /\ GetTraceEntryCall => TypeInv'
         /\ GetTraceEntryGroup => TypeInv'
         /\ GetTraceEntryReturn => TypeInv'
         /\ GetTraceEntryNone => TypeInv'
<1>1. ASSUME GetTraceEntryCall
      PROVE  TypeInv'
  <2>1. /\ ind' \in 0 .. num_groups /\ min_index' = -1
        /\ min_time' \in 0 .. limit.entries + 1 /\ min_time' <= clock /\ slow' \subseteq Stamps
        /\ job' \in {"logs", "scan"}
        /\ mask' \in SUBSET Groups /\ null_time' \in BOOLEAN
    <3>1. CASE active_
      BY <1>1, <3>1, CallTypes DEF GetTraceEntryCall, GetLogCall
    <3>2. CASE ~active_
      BY <1>1, <3>2, CallTypes DEF GetTraceEntryCall, TypeInv, TypeOK
    <3>3. QED
      BY <3>1, <3>2
  <2>2. -1 \notin mask'
    BY <2>1, Ranges DEF TypeInv, TypeOK
  <2>3. QED
    BY <1>1, <2>1, <2>2
    DEF GetTraceEntryCall, TypeInv, TypeOK, GettingLog, queues, appVars, tables,
        bounds, Stamps
<1>2. ASSUME GetTraceEntryGroup
      PROVE  TypeInv'
  <2>1. ind \in Groups /\ ind' = ind + 1 /\ ~ScanEnds /\ job = "scan"
    BY <1>2, GroupCases DEF GetTraceEntryGroup
  <2>2. /\ ind' \in 0 .. num_groups /\ min_index' \in Groups \cup {-1}
        /\ min_index' < ind' \/ min_index' = -1
        /\ min_time' \in 0 .. limit.entries + 1 /\ min_time' <= clock
        /\ traces' \in [Groups -> SUBSET Stamps]
        /\ grp_trace_res_' \in
             [Groups -> [status : {"DATA_IND", "NO_DATA_IND", "TRACE_EMPTY_DATA"},
                         lin_time : Stamps \cup {0}]]
    <3>1. /\ ind' \in 0 .. num_groups
          /\ min_index < ind' \/ min_index = -1
      BY <2>1, ScanTypes, Ranges DEF TypeInv, TypeOK
    <3>2. CASE GivenUp
      BY <3>1, <3>2 DEF GivenUp, TypeInv, TypeOK
    <3>3. CASE LookedAt
      <4>1. grp_trace_res_[ind].lin_time \in Stamps \cup {0}
        BY <2>1 DEF TypeInv, TypeOK
      <4>2. QED
        BY <2>1, <3>3, <4>1, ConsiderTypes DEF LookedAt, TypeInv, TypeOK
    <3>4. CASE FoundEmpty
      <4>1. /\ traces \in [Groups -> SUBSET Stamps]
            /\ min_index \in Groups \cup {-1} /\ min_time \in 0 .. limit.entries + 1
            /\ min_time <= clock
            /\ grp_trace_res_ \in
                 [Groups -> [status : {"DATA_IND", "NO_DATA_IND", "TRACE_EMPTY_DATA"},
                             lin_time : Stamps \cup {0}]]
        BY DEF TypeInv, TypeOK
      <4>2. /\ min_index < ind' \/ min_index = -1
            /\ UNCHANGED <<traces, min_time, min_index>>
        BY <2>1, <3>1, <3>4, Ranges, <4>1 DEF FoundEmpty
      <4>3. grp_trace_res_' \in
              [Groups -> [status : {"DATA_IND", "NO_DATA_IND", "TRACE_EMPTY_DATA"},
                          lin_time : Stamps \cup {0}]]
        BY <2>1, <3>4, <4>1 DEF FoundEmpty
      <4>4. QED
        BY <3>1, <4>1, <4>2, <4>3
    <3>5. ASSUME NEW x \in Stamps, Taken(x)
          PROVE  /\ ind' \in 0 .. num_groups /\ min_index' \in Groups \cup {-1}
                 /\ min_index' < ind' \/ min_index' = -1
                 /\ min_time' \in 0 .. limit.entries + 1 /\ min_time' <= clock
                 /\ traces' \in [Groups -> SUBSET Stamps]
                 /\ grp_trace_res_' \in
                      [Groups -> [status : {"DATA_IND", "NO_DATA_IND", "TRACE_EMPTY_DATA"},
                                  lin_time : Stamps \cup {0}]]
      <4>1. /\ ind' \in 0 .. num_groups /\ min_index' \in Groups \cup {-1}
            /\ min_index' < ind' \/ min_index' = -1
            /\ min_time' \in 0 .. limit.entries + 1 /\ min_time' <= clock
        BY <2>1, <3>5, ConsiderTypes DEF Taken
      <4>2. traces' \in [Groups -> SUBSET Stamps]
        BY <2>1, <3>5 DEF Taken, TypeInv, TypeOK
      <4>3. grp_trace_res_' \in
              [Groups -> [status : {"DATA_IND", "NO_DATA_IND", "TRACE_EMPTY_DATA"},
                          lin_time : Stamps \cup {0}]]
        BY <2>1, <3>5 DEF Taken, TypeInv, TypeOK
      <4>4. QED
        BY <4>1, <4>2, <4>3
    <3>6. QED
      BY <1>2, <3>2, <3>3, <3>4, <3>5, GroupCases
  <2>3. QED
    BY <1>2, <2>1, <2>2
    DEF GetTraceEntryGroup, TypeInv, TypeOK, GettingLog, appVars, bounds,
        history, Stamps
<1>3. ASSUME GetTraceEntryReturn
      PROVE  TypeInv'
  <2>1. /\ ind' \in 0 .. num_groups /\ min_index' = -1
        /\ min_time' \in 0 .. limit.entries + 1 /\ min_time' <= clock
        /\ mask' \in SUBSET Groups /\ null_time' \in BOOLEAN
    BY <1>3, CallTypes DEF GetTraceEntryReturn
  <2>2. min_index \in Groups
    BY <1>3 DEF GetTraceEntryReturn, TypeInv, TypeOK
  <2>3. grp_trace_res_[min_index].lin_time \in Stamps \cup {0}
    BY <2>2 DEF TypeInv, TypeOK
  <2>4. printed' \in Seq(Stamps \cup {0})
    BY <1>3, <2>3, Appended DEF GetTraceEntryReturn, TypeInv
  <2>5. grp_trace_res_' \in
          [Groups -> [status : {"DATA_IND", "NO_DATA_IND", "TRACE_EMPTY_DATA"},
                      lin_time : Stamps \cup {0}]]
    BY <1>3, <2>2 DEF GetTraceEntryReturn, TypeInv, TypeOK
  <2>6. QED
    BY <1>3, <2>1, <2>4, <2>5
    DEF GetTraceEntryReturn, TypeInv, TypeOK, GettingLog, queues, appVars,
        bounds, Stamps
<1>4. ASSUME GetTraceEntryNone
      PROVE  TypeInv'
  <2>1. /\ ind' \in 0 .. num_groups /\ min_index' = -1
        /\ min_time' \in 0 .. limit.entries + 1 /\ min_time' <= clock /\ slow' \subseteq Stamps
        /\ mask' \in SUBSET Groups /\ null_time' \in BOOLEAN
    BY <1>4, CallTypes DEF GetTraceEntryNone, GetLogCall
  <2>2. -1 \notin mask'
    BY <2>1, Ranges DEF TypeInv, TypeOK
  <2>3. QED
    BY <1>4, <2>1, <2>2
    DEF GetTraceEntryNone, TypeInv, TypeOK, GettingLog, queues, appVars, tables,
        bounds, Stamps
<1>5. QED
  BY <1>1, <1>2, <1>3, <1>4

(* Every step is one of these.                                             *)
LEMMA StepCases ==
  ASSUME TypeInv, [Next]_vars
  PROVE  \/ \E t \in Adders :
              \/ \E what \in limit.kinds : AddCall(t, what)
              \/ Stamp(t)
              \/ \E g \in Groups : Put(t, g)
         \/ RTDBG_Start
         \/ up /\ (GetLogRefill \/ GetLogCached \/ GetLogReturn \/ GetLogDies \/ GetLogNone)
         \/ up /\ (\/ GetTraceEntryCall \/ GetTraceEntryGroup
                   \/ GetTraceEntryReturn \/ GetTraceEntryNone)
         \/ RTDBG_Stop \/ ExtractDebugData \/ Restart
         \/ \E m \in SUBSET Groups, null \in BOOLEAN : Monitor(m, null)
         \/ UNCHANGED vars
<1>1. limit.masks \subseteq SUBSET Groups
  BY Ranges DEF TypeInv, TypeOK
<1>2. ASSUME ExtractorCall
      PROVE  \/ RTDBG_Stop \/ ExtractDebugData
             \/ \E m \in SUBSET Groups, null \in BOOLEAN : Monitor(m, null)
  BY <1>1, <1>2 DEF ExtractorCall
<1>3. QED
  BY <1>2 DEF Next, AppNext, ExtractorStep

LEMMA TypeInvStep ==
  ASSUME TypeInv, [Next]_vars
  PROVE  TypeInv'
<1>1. ASSUME UNCHANGED vars
      PROVE  TypeInv'
  BY <1>1
  DEF vars, TypeInv, TypeOK, GettingLog, queues, appVars, callVars, tables,
      bounds, history, Stamps
<1>2. QED
  BY <1>1, StepCases, TypeInvAdd, TypeInvGetLogRefill, TypeInvGetLogCached,
     TypeInvGetLogReturn, TypeInvOtherLogSteps, TypeInvClears, TypeInvTraces

-----------------------------------------------------------------------------
(***************************************************************************)
(* Where the steps put the logs                                            *)
(***************************************************************************)
LEMMA PutLogEffect ==
  ASSUME TypeInv, NEW t \in Adders, NEW g \in Groups, Put(t, g), pc[t] = "log"
  PROVE  /\ linux_time[t] \in Stamps
         /\ logs'[g] = Append(logs[g], linux_time[t])
         /\ \A h \in Groups : h # g => logs'[h] = logs[h]
         /\ Range(logs'[g]) = Range(logs[g]) \cup {linux_time[t]}
         /\ InFifos' = InFifos \cup {linux_time[t]}
         /\ logged' = logged \cup {linux_time[t]}
<1>1. /\ linux_time[t] \in Stamps /\ logged' = logged \cup {linux_time[t]}
      /\ logs \in [Groups -> Seq(Stamps)]
      /\ logs' = [logs EXCEPT ![g] = Append(logs[g], linux_time[t])]
  BY DEF Put, TypeInv, TypeOK
<1>2. /\ logs'[g] = Append(logs[g], linux_time[t])
      /\ \A h \in Groups : h # g => logs'[h] = logs[h]
  BY <1>1
<1>3. Range(logs'[g]) = Range(logs[g]) \cup {linux_time[t]}
  BY <1>1, <1>2, Appended
<1>4. InFifos' = InFifos \cup {linux_time[t]}
  BY <1>2, <1>3 DEF InFifos
<1>5. QED
  BY <1>1, <1>2, <1>3, <1>4

LEMMA RefillEffect ==
  ASSUME TypeInv, Placed, GetLogRefill, logs[ind] # << >>, NEW x, x = Head(logs[ind])
  PROVE  /\ ind \in Groups /\ x \in Stamps
         /\ ~grp_logs_last[ind].valid
         /\ grp_logs_last'[ind] = [valid |-> TRUE, linux_time |-> x]
         /\ logs'[ind] = Tail(logs[ind])
         /\ Range(logs[ind]) = Range(logs'[ind]) \cup {x}
         /\ \A h \in Groups : h # ind =>
              logs'[h] = logs[h] /\ grp_logs_last'[h] = grp_logs_last[h]
         /\ InFifos = InFifos' \cup {x} /\ x \notin InFifos'
         /\ Cached' = Cached \cup {x}
<1>1. /\ ind \in Groups
      /\ logs \in [Groups -> Seq(Stamps)]
      /\ DOMAIN grp_logs_last = Groups
      /\ logs' = [logs EXCEPT ![ind] = Tail(logs[ind])]
      /\ grp_logs_last' = [grp_logs_last EXCEPT ![ind] = [valid |-> TRUE, linux_time |-> x]]
      /\ ~grp_logs_last[ind].valid
  BY ScanTypes DEF GetLogRefill, Refill, TypeInv, TypeOK
<1>2. /\ logs'[ind] = Tail(logs[ind])
      /\ grp_logs_last'[ind] = [valid |-> TRUE, linux_time |-> x]
      /\ \A h \in Groups : h # ind =>
           logs'[h] = logs[h] /\ grp_logs_last'[h] = grp_logs_last[h]
  BY <1>1
<1>3. /\ x \in Stamps /\ x = logs[ind][1] /\ 1 \in DOMAIN logs[ind]
      /\ \A i \in DOMAIN Tail(logs[ind]) :
              i \in Nat \ {0} /\ i + 1 \in DOMAIN logs[ind] /\ Tail(logs[ind])[i] = logs[ind][i + 1]
      /\ Range(logs[ind]) = Range(logs'[ind]) \cup {x}
  <2>1. logs[ind] \in Seq(Stamps)
    BY <1>1
  <2>2. QED
    BY <1>2, <2>1, Beheaded
<1>4. x \notin Range(Tail(logs[ind]))
  <2>1. SUFFICES ASSUME NEW i \in DOMAIN Tail(logs[ind]), x = Tail(logs[ind])[i]
                 PROVE  FALSE
    BY DEF Range
  <2>2. i \in Nat \ {0} /\ i + 1 \in DOMAIN logs[ind] /\ logs[ind][i + 1] = logs[ind][1]
    BY <1>3, <2>1
  <2>3. IsInjective(logs[ind])
    BY <1>1 DEF Placed
  <2>4. i + 1 = 1
    BY <1>3, <2>2, <2>3 DEF IsInjective
  <2>5. QED
    BY <2>2, <2>4
<1>5. \A h \in Groups : h # ind => x \notin Range(logs[h])
  BY <1>1, <1>3 DEF Placed
<1>6. InFifos = InFifos' \cup {x} /\ x \notin InFifos'
  <2>1. InFifos = UNION {Range(logs[h]) : h \in Groups}
    BY DEF InFifos
  <2>2. InFifos' = UNION {Range(logs'[h]) : h \in Groups}
    BY DEF InFifos
  <2>3. \A h \in Groups : x \notin Range(logs'[h])
    BY <1>2, <1>4, <1>5
  <2>4. \A h \in Groups : Range(logs'[h]) \subseteq Range(logs[h])
    BY <1>2, <1>3
  <2>5. \A h \in Groups : Range(logs[h]) \subseteq Range(logs'[h]) \cup {x}
    BY <1>2, <1>3
  <2>6. x \in InFifos
    BY <1>1, <1>3, <2>1
  <2>7. ASSUME NEW y \in InFifos
        PROVE  y \in InFifos' \cup {x}
    BY <2>1, <2>2, <2>5
  <2>8. ASSUME NEW y \in InFifos'
        PROVE  y \in InFifos
    BY <2>1, <2>2, <2>4
  <2>9. x \notin InFifos'
    BY <2>2, <2>3
  <2>10. QED
    BY <2>6, <2>7, <2>8, <2>9
<1>7. Cached' = Cached \cup {x}
  BY <1>1, <1>2 DEF Cached
<1>8. QED
  BY <1>1, <1>2, <1>3, <1>6, <1>7

(* A step that leaves the FIFOs and the table of logs as they are.         *)
LogsUnchanged == UNCHANGED <<logs, grp_logs_last, logged, returned, strays, forgotten>>

LEMMA RefillNothing ==
  ASSUME GetLogRefill, logs[ind] = << >>
  PROVE  LogsUnchanged /\ UNCHANGED <<min_time, min_index>>
  BY DEF GetLogRefill, LogsUnchanged, history

LEMMA ReturnEffect ==
  ASSUME TypeInv, Placed, GetLogReturn,
         NEW x, x = grp_logs_last[min_index].linux_time
  PROVE  /\ min_index \in Groups /\ x \in Stamps \cup {0}
         /\ \A g \in Groups :
              /\ grp_logs_last'[g].linux_time = grp_logs_last[g].linux_time
              /\ grp_logs_last'[g].valid <=> grp_logs_last[g].valid /\ g # min_index
         /\ Cached' = Cached \ {x} /\ InFifos' = InFifos
         /\ \/ /\ min_index \in mask /\ x \in Cached /\ strays' = strays
               /\ returned' = Append(returned, [mask |-> mask, linux_time |-> x])
               /\ Returned' = Returned \cup {x}
            \/ /\ min_index \notin mask /\ strays' = strays \cup {x}
               /\ returned' = returned /\ Returned' = Returned
         /\ x \in Cached \cup {0} \cup Returned \cup forgotten \cup strays
         /\ UNCHANGED <<logs, logged, forgotten>>
<1>1. /\ min_index \in Groups /\ GettingLog /\ UNCHANGED <<logs, logged, forgotten>>
      /\ DOMAIN grp_logs_last = Groups
      /\ mask \in SUBSET Groups
  BY DEF GetLogReturn, TypeInv, TypeOK, GettingLog, queues
<1>2. x \in Stamps \cup {0}
  BY <1>1 DEF TypeInv, TypeOK
<1>3. \A g \in Groups :
        /\ grp_logs_last'[g].linux_time = grp_logs_last[g].linux_time
        /\ grp_logs_last'[g].valid <=> grp_logs_last[g].valid /\ g # min_index
  BY <1>1 DEF GetLogReturn, Release, TypeInv, TypeOK
<1>4. x \in Cached \cup {0} \cup Returned \cup forgotten \cup strays
  BY <1>1 DEF Placed, Cached
<1>5. Cached' = Cached \ {x}
  <2>1. CASE grp_logs_last[min_index].valid
    <3>1. \A g \in Groups : grp_logs_last[g].valid /\ g # min_index =>
            grp_logs_last[g].linux_time # x
      BY <1>1, <2>1 DEF Placed
    <3>2. QED
      BY <1>1, <1>3, <3>1 DEF Cached
  <2>2. CASE ~grp_logs_last[min_index].valid
    <3>1. x \notin Cached
      <4>1. x \in {0} \cup Returned \cup forgotten \cup strays
        BY <1>1, <2>2 DEF Placed
      <4>2. 0 \notin Cached
        BY DEF Cached, TypeInv
      <4>3. QED
        BY <4>1, <4>2 DEF Placed, LogsReturnedOnce
    <3>2. Cached' = Cached
      BY <1>1, <1>3, <2>2 DEF Cached
    <3>3. QED
      BY <3>1, <3>2
  <2>3. QED
    BY <2>1, <2>2
<1>6. InFifos' = InFifos
  BY <1>1 DEF InFifos
<1>7. \/ /\ min_index \in mask /\ x \in Cached /\ strays' = strays
         /\ returned' = Append(returned, [mask |-> mask, linux_time |-> x])
         /\ Returned' = Returned \cup {x}
      \/ /\ min_index \notin mask /\ strays' = strays \cup {x}
         /\ returned' = returned /\ Returned' = Returned
  <2>1. CASE min_index \in mask
    <3>1. grp_logs_last[min_index].valid
      BY <1>1, <2>1 DEF TypeInv
    <3>2. x \in Cached
      BY <1>1, <3>1 DEF Cached
    <3>3. returned' = Append(returned, [mask |-> mask, linux_time |-> x]) /\ strays' = strays
      BY <2>1 DEF GetLogReturn
    <3> DEFINE r == [mask |-> mask, linux_time |-> x]
    <3>4. x \in Stamps
      BY <1>1, <3>1 DEF TypeInv, TypeOK
    <3>5. r \in [mask : SUBSET Groups, linux_time : Stamps]
      BY <1>1, <3>4
    <3>6. r.linux_time = x /\ returned' = Append(returned, r)
      BY <3>3
    <3> HIDE DEF r
    <3>7. /\ Len(returned) \in Nat
          /\ DOMAIN returned = 1 .. Len(returned) /\ DOMAIN returned' = 1 .. Len(returned) + 1
          /\ \A i \in DOMAIN returned : returned'[i] = returned[i]
          /\ returned'[Len(returned) + 1] = r
      BY <3>5, <3>6, Appended DEF TypeInv
    <3>8. Returned' = Returned \cup {x}
      <4>1. Returned = {returned[i].linux_time : i \in DOMAIN returned}
        BY DEF Returned
      <4>2. Returned' = {returned'[i].linux_time : i \in DOMAIN returned'}
        BY DEF Returned
      <4>3. DOMAIN returned' = DOMAIN returned \cup {Len(returned) + 1}
        BY <3>7
      <4>4. QED
        BY <3>6, <3>7, <4>1, <4>2, <4>3
    <3>9. QED
      BY <2>1, <3>2, <3>3, <3>8
  <2>2. CASE min_index \notin mask
    BY <2>2 DEF GetLogReturn, Returned
  <2>3. QED
    BY <2>1, <2>2
<1>8. QED
  BY <1>1, <1>2, <1>3, <1>4, <1>5, <1>6, <1>7

LEMMA ClearEffect ==
  ASSUME TypeInv, RTDBG_Stop \/ ExtractDebugData \/ Restart
  PROVE  /\ \A g \in Groups :
              /\ ~grp_logs_last'[g].valid
              /\ grp_logs_last'[g].linux_time \in {0, grp_logs_last[g].linux_time}
         /\ Cached' = {} /\ forgotten' = forgotten \cup Cached
         /\ UNCHANGED <<logs, logged, returned, strays, InFifos, Returned>>
<1>1. \A g \in Groups :
        /\ ~grp_logs_last'[g].valid
        /\ grp_logs_last'[g].linux_time \in {0, grp_logs_last[g].linux_time}
  BY DEF RTDBG_Stop, ExtractDebugData, Restart, InitExtractTables, NoLogs,
         TypeInv, TypeOK
<1>2. /\ forgotten' = forgotten \cup Cached
      /\ UNCHANGED <<logs, logged, returned, strays, InFifos, Returned>>
  BY DEF RTDBG_Stop, ExtractDebugData, Restart, InitExtractTables, queues,
         InFifos, Returned
<1>3. Cached' = {}
  BY <1>1 DEF Cached
<1>4. QED
  BY <1>1, <1>2, <1>3

LEMMA OtherStepsOfLogs ==
  ASSUME TypeInv, [Next]_vars
  PROVE  \/ LogsUnchanged
         \/ \E t \in Adders, g \in Groups : Put(t, g) /\ pc[t] = "log"
         \/ GetLogRefill /\ logs[ind] # << >>
         \/ GetLogReturn
         \/ RTDBG_Stop \/ ExtractDebugData \/ Restart
<1> USE DEF LogsUnchanged
<1>1. ASSUME NEW t \in Adders, NEW what, AddCall(t, what)
      PROVE  LogsUnchanged
  BY <1>1 DEF AddCall, queues, tables, history
<1>2. ASSUME NEW t \in Adders, Stamp(t)
      PROVE  LogsUnchanged
  BY <1>2 DEF Stamp, queues, tables
<1>3. ASSUME NEW t \in Adders, NEW g \in Groups, Put(t, g), pc[t] # "log"
      PROVE  LogsUnchanged
  BY <1>3 DEF Put, tables
<1>4. GetLogCached \/ GetLogDies \/ GetLogNone \/ RTDBG_Start \/ UNCHANGED vars => LogsUnchanged
  BY DEF GetLogCached, GetLogDies, GetLogNone, RTDBG_Start, vars, queues,
         tables, history
<1>5. GetTraceEntryCall \/ GetTraceEntryGroup \/ GetTraceEntryReturn \/ GetTraceEntryNone
        => LogsUnchanged
  BY DEF GetTraceEntryCall, GetTraceEntryGroup, GetTraceEntryReturn,
         GetTraceEntryNone, queues, tables, history
<1>6. ASSUME NEW m, NEW null, Monitor(m, null)
      PROVE  LogsUnchanged
  BY <1>6 DEF Monitor, queues, tables
<1>7. QED
  BY <1>1, <1>2, <1>3, <1>4, <1>5, <1>6, RefillNothing, StepCases

LEMMA InjectiveTimes ==
  ASSUME TypeInv, IsInjective([i \in DOMAIN returned |-> returned[i].linux_time]),
         NEW x, x \notin Returned, NEW m, m \in SUBSET Groups, x \in Stamps,
         returned' = Append(returned, [mask |-> m, linux_time |-> x])
  PROVE  IsInjective([i \in DOMAIN returned |-> returned[i].linux_time])'
<1> DEFINE r == [mask |-> m, linux_time |-> x]
<1>1. r \in [mask : SUBSET Groups, linux_time : Stamps] /\ r.linux_time = x
      /\ returned' = Append(returned, r)
  OBVIOUS
<1> HIDE DEF r
<1>2. /\ Len(returned) \in Nat
      /\ DOMAIN returned = 1 .. Len(returned) /\ DOMAIN returned' = 1 .. Len(returned) + 1
      /\ \A i \in DOMAIN returned : returned'[i] = returned[i]
      /\ returned'[Len(returned) + 1] = r
  BY <1>1, Appended DEF TypeInv
<1>3. \A i \in DOMAIN returned : returned[i].linux_time # x
  BY DEF Returned
<1>4. \A i, j \in DOMAIN returned :
        returned[i].linux_time = returned[j].linux_time => i = j
  BY DEF IsInjective
<1>5. ASSUME NEW i \in DOMAIN returned', NEW j \in DOMAIN returned',
             returned'[i].linux_time = returned'[j].linux_time
      PROVE  i = j
  <2>1. /\ i \in DOMAIN returned \/ i = Len(returned) + 1
        /\ j \in DOMAIN returned \/ j = Len(returned) + 1
    BY <1>2, <1>5
  <2>2. QED
    BY <1>1, <1>2, <1>3, <1>4, <1>5, <2>1
<1>6. QED
  BY <1>5 DEF IsInjective

LEMMA PlacedStep ==
  ASSUME TypeInv, Clocked, Placed, [Next]_vars
  PROVE  Placed'
<1>1. ASSUME LogsUnchanged
      PROVE  Placed'
  <2>1. UNCHANGED <<logs, grp_logs_last, logged, returned, strays, forgotten>>
    BY <1>1 DEF LogsUnchanged
  <2>2. UNCHANGED <<InFifos, Cached, Returned>>
    BY <2>1 DEF InFifos, Cached, Returned
  <2>3. LogsReturnedOnce' /\ NothingLost'
    BY <2>1, <2>2 DEF Placed, LogsReturnedOnce, NothingLost
  <2>4. QED
    BY <2>1, <2>2, <2>3 DEF Placed
<1>2. ASSUME NEW t \in Adders, NEW g \in Groups, Put(t, g), pc[t] = "log"
      PROVE  Placed'
  <2> DEFINE x == linux_time[t]
  <2>1. /\ x \in Stamps
        /\ logs'[g] = Append(logs[g], x)
        /\ \A h \in Groups : h # g => logs'[h] = logs[h]
        /\ Range(logs'[g]) = Range(logs[g]) \cup {x}
        /\ InFifos' = InFifos \cup {x}
        /\ logged' = logged \cup {x}
    BY <1>2, PutLogEffect
  <2>2. UNCHANGED <<grp_logs_last, returned, strays, forgotten, Cached, Returned>>
    BY <1>2 DEF Put, tables, Cached, Returned
  <2>3. x \notin logged /\ x # 0
    BY <1>2 DEF Put, Clocked
  <2> HIDE DEF x
  <2>4. /\ x \notin InFifos \cup Cached \cup Returned \cup forgotten \cup strays
        /\ \A h \in Groups : x \notin Range(logs[h])
    BY <2>3 DEF Placed, InFifos
  <2>5. \A h \in Groups : IsInjective(logs'[h])
    <3>1. IsInjective(logs'[g])
      <4>1. logs[g] \in Seq(Stamps)
        BY DEF TypeInv, TypeOK
      <4>2. /\ Len(logs[g]) \in Nat
            /\ DOMAIN logs[g] = 1 .. Len(logs[g]) /\ DOMAIN logs'[g] = 1 .. Len(logs[g]) + 1
            /\ \A i \in DOMAIN logs[g] : logs'[g][i] = logs[g][i]
            /\ logs'[g][Len(logs[g]) + 1] = x
        BY <2>1, <4>1, Appended
      <4>3. \A i \in DOMAIN logs[g] : logs[g][i] # x
        BY <2>4 DEF Range
      <4>4. \A i, j \in DOMAIN logs[g] : logs[g][i] = logs[g][j] => i = j
        BY DEF Placed, IsInjective
      <4>5. ASSUME NEW i \in DOMAIN logs'[g], NEW j \in DOMAIN logs'[g], logs'[g][i] = logs'[g][j]
            PROVE  i = j
        <5>1. /\ i \in DOMAIN logs[g] \/ i = Len(logs[g]) + 1
              /\ j \in DOMAIN logs[g] \/ j = Len(logs[g]) + 1
          BY <4>2
        <5>2. QED
          BY <4>2, <4>3, <4>4, <4>5, <5>1
      <4>6. QED
        BY <4>5 DEF IsInjective
    <3>2. QED
      BY <2>1, <3>1 DEF Placed
  <2>6. ASSUME NEW h \in Groups, NEW k \in Groups, Range(logs'[h]) \cap Range(logs'[k]) # {}
        PROVE  h = k
    <3>1. PICK y \in Range(logs'[h]) : y \in Range(logs'[k])
      BY <2>6
    <3>2. CASE y = x
      BY <2>1, <2>4, <3>1, <3>2
    <3>3. CASE y # x
      <4>1. y \in Range(logs[h]) /\ y \in Range(logs[k])
        <5>1. ASSUME NEW f \in Groups, y \in Range(logs'[f])
              PROVE  y \in Range(logs[f])
          <6>1. CASE f = g
            BY <2>1, <3>3, <5>1, <6>1
          <6>2. CASE f # g
            BY <2>1, <5>1, <6>2
          <6>3. QED
            BY <6>1, <6>2
        <5>2. QED
          BY <3>1, <5>1
      <4>2. Range(logs[h]) \cap Range(logs[k]) # {}
        BY <4>1
      <4>3. QED
        BY <4>2 DEF Placed
    <3>4. QED
      BY <3>2, <3>3
  <2>7. /\ InFifos' \cup Cached' \cup Returned' \cup forgotten' \cup (strays' \ {0}) \subseteq logged'
        /\ NothingLost'
    BY <2>1, <2>2 DEF Placed, NothingLost
  <2>8. LogsReturnedOnce'
    BY <2>1, <2>2, <2>4 DEF Placed, LogsReturnedOnce, IsInjective
  <2>9. QED
    BY <2>2, <2>5, <2>6, <2>7, <2>8 DEF Placed
<1>3. ASSUME GetLogRefill, logs[ind] # << >>
      PROVE  Placed'
  <2> DEFINE x == Head(logs[ind])
  <2>1. /\ ind \in Groups /\ x \in Stamps
        /\ ~grp_logs_last[ind].valid
        /\ grp_logs_last'[ind] = [valid |-> TRUE, linux_time |-> x]
        /\ logs'[ind] = Tail(logs[ind])
        /\ Range(logs[ind]) = Range(logs'[ind]) \cup {x}
        /\ \A h \in Groups : h # ind =>
             logs'[h] = logs[h] /\ grp_logs_last'[h] = grp_logs_last[h]
        /\ InFifos = InFifos' \cup {x} /\ x \notin InFifos'
        /\ Cached' = Cached \cup {x}
    BY <1>3, RefillEffect
  <2>2. UNCHANGED <<logged, returned, strays, forgotten, Returned>>
    BY <1>3 DEF GetLogRefill, history, Returned
  <2>3. logs[ind] \in Seq(Stamps)
    BY <2>1 DEF TypeInv, TypeOK
  <2>4. \A i \in DOMAIN Tail(logs[ind]) :
          i \in Nat \ {0} /\ i + 1 \in DOMAIN logs[ind] /\ Tail(logs[ind])[i] = logs[ind][i + 1]
    BY <1>3, <2>3, Beheaded
  <2> HIDE DEF x
  <2>5. IsInjective(logs'[ind])
    <3>1. \A i, j \in DOMAIN logs[ind] : logs[ind][i] = logs[ind][j] => i = j
      BY <2>1 DEF Placed, IsInjective
    <3>2. ASSUME NEW i \in DOMAIN logs'[ind], NEW j \in DOMAIN logs'[ind],
                 logs'[ind][i] = logs'[ind][j]
          PROVE  i = j
      <4>1. /\ i \in Nat /\ i + 1 \in DOMAIN logs[ind] /\ logs'[ind][i] = logs[ind][i + 1]
            /\ j \in Nat /\ j + 1 \in DOMAIN logs[ind] /\ logs'[ind][j] = logs[ind][j + 1]
        BY <2>1, <2>4
      <4>2. i + 1 = j + 1
        BY <3>1, <3>2, <4>1
      <4>3. QED
        BY <4>1, <4>2
    <3>3. QED
      BY <3>2 DEF IsInjective
  <2>6. \A h \in Groups : IsInjective(logs'[h])
    BY <2>1, <2>5 DEF Placed
  <2>7. \A h, k \in Groups : Range(logs'[h]) \cap Range(logs'[k]) # {} => h = k
    BY <2>1 DEF Placed
  <2>8. x \notin Cached /\ x \notin Returned \cup forgotten \cup strays
    BY <2>1 DEF Placed, LogsReturnedOnce
  <2>9. \A h, k \in Groups :
          /\ grp_logs_last'[h].valid /\ grp_logs_last'[k].valid
          /\ grp_logs_last'[h].linux_time = grp_logs_last'[k].linux_time
          => h = k
    <3>1. \A h \in Groups : grp_logs_last[h].valid => grp_logs_last[h].linux_time # x
      BY <2>8 DEF Cached
    <3>2. QED
      BY <2>1, <3>1 DEF Placed
  <2>10. \A h \in Groups : ~grp_logs_last'[h].valid =>
           grp_logs_last'[h].linux_time \in {0} \cup Returned' \cup forgotten' \cup strays'
    BY <2>1, <2>2 DEF Placed
  <2>11. LogsReturnedOnce'
    BY <2>1, <2>2, <2>8 DEF Placed, LogsReturnedOnce, IsInjective
  <2>12. /\ InFifos' \cup Cached' \cup Returned' \cup forgotten' \cup (strays' \ {0}) \subseteq logged'
         /\ NothingLost'
    BY <2>1, <2>2 DEF Placed, NothingLost
  <2>13. QED
    BY <2>6, <2>7, <2>9, <2>10, <2>11, <2>12 DEF Placed
<1>4. ASSUME GetLogReturn
      PROVE  Placed'
  <2> DEFINE x == grp_logs_last[min_index].linux_time
  <2>1. /\ min_index \in Groups /\ x \in Stamps \cup {0}
        /\ \A g \in Groups :
             /\ grp_logs_last'[g].linux_time = grp_logs_last[g].linux_time
             /\ grp_logs_last'[g].valid <=> grp_logs_last[g].valid /\ g # min_index
        /\ Cached' = Cached \ {x} /\ InFifos' = InFifos
        /\ \/ /\ min_index \in mask /\ x \in Cached /\ strays' = strays
              /\ returned' = Append(returned, [mask |-> mask, linux_time |-> x])
              /\ Returned' = Returned \cup {x}
           \/ /\ min_index \notin mask /\ strays' = strays \cup {x}
              /\ returned' = returned /\ Returned' = Returned
        /\ x \in Cached \cup {0} \cup Returned \cup forgotten \cup strays
        /\ UNCHANGED <<logs, logged, forgotten>>
    BY <1>4, ReturnEffect
  <2>2. \A g \in Groups : grp_logs_last[g].valid /\ g = min_index => x \in Cached
    BY DEF Cached
  <2>3. 0 \notin Cached \cup InFifos
    <3>1. 0 \notin Cached
      BY DEF Cached, TypeInv
    <3>2. \A g \in Groups : 0 \notin Range(logs[g])
      BY Ranges, RangeOfSeq DEF TypeInv, TypeOK
    <3>3. QED
      BY <3>1, <3>2 DEF InFifos
  <2>3a. \A g \in Groups : g = min_index => grp_logs_last[g].linux_time = x
    OBVIOUS
  <2> HIDE DEF x
  <2>4. \A g \in Groups : ~grp_logs_last'[g].valid =>
          grp_logs_last'[g].linux_time \in {0} \cup Returned' \cup forgotten' \cup strays'
    <3>1. SUFFICES ASSUME NEW g \in Groups, ~grp_logs_last'[g].valid
                   PROVE  grp_logs_last[g].linux_time \in {0} \cup Returned' \cup forgotten \cup strays'
      BY <2>1
    <3>2. CASE g = min_index
      BY <2>1, <2>3a, <3>2
    <3>3. CASE g # min_index
      BY <2>1, <3>1, <3>3 DEF Placed
    <3>4. QED
      BY <3>2, <3>3
  <2>5. LogsReturnedOnce'
    <3>1. CASE min_index \in mask
      <4>1. /\ x \in Cached /\ strays' = strays
            /\ returned' = Append(returned, [mask |-> mask, linux_time |-> x])
            /\ Returned' = Returned \cup {x}
        BY <2>1, <3>1
      <4>2. x \notin Returned \cup forgotten \cup strays \cup InFifos /\ x \in logged
        BY <4>1 DEF Placed, LogsReturnedOnce
      <4>3. IsInjective([i \in DOMAIN returned |-> returned[i].linux_time])'
        <5>1. x \in Stamps /\ mask \in SUBSET Groups
          BY <2>1, <2>3, <4>1 DEF TypeInv, TypeOK
        <5>2. QED
          BY <4>1, <4>2, <5>1, InjectiveTimes DEF Placed, LogsReturnedOnce
      <4>4. QED
        BY <2>1, <4>1, <4>2, <4>3 DEF Placed, LogsReturnedOnce
    <3>2. CASE min_index \notin mask
      <4>1. strays' = strays \cup {x} /\ returned' = returned /\ Returned' = Returned
        BY <2>1, <3>2
      <4>2. x \notin InFifos
        BY <2>1, <2>3 DEF Placed, LogsReturnedOnce
      <4>3. QED
        BY <2>1, <4>1, <4>2 DEF Placed, LogsReturnedOnce, IsInjective
    <3>3. QED
      BY <3>1, <3>2
  <2>6. InFifos' \cup Cached' \cup Returned' \cup forgotten' \cup (strays' \ {0}) \subseteq logged'
    BY <2>1 DEF Placed
  <2>7. NothingLost'
    BY <2>1 DEF Placed, NothingLost
  <2>8. QED
    BY <2>1, <2>4, <2>5, <2>6, <2>7 DEF Placed, IsInjective
<1>5. ASSUME RTDBG_Stop \/ ExtractDebugData \/ Restart
      PROVE  Placed'
  <2>1. /\ \A g \in Groups :
             /\ ~grp_logs_last'[g].valid
             /\ grp_logs_last'[g].linux_time \in {0, grp_logs_last[g].linux_time}
        /\ Cached' = {} /\ forgotten' = forgotten \cup Cached
        /\ UNCHANGED <<logs, logged, returned, strays, InFifos, Returned>>
    BY <1>5, ClearEffect
  <2>2. \A g \in Groups :
          grp_logs_last[g].linux_time \in {0} \cup Returned \cup forgotten \cup strays \cup Cached
    BY DEF Placed, Cached
  <2>3. LogsReturnedOnce'
    BY <2>1 DEF Placed, LogsReturnedOnce, IsInjective
  <2>4. /\ InFifos' \cup Cached' \cup Returned' \cup forgotten' \cup (strays' \ {0}) \subseteq logged'
        /\ NothingLost'
    BY <2>1 DEF Placed, NothingLost
  <2>5. \A g \in Groups : ~grp_logs_last'[g].valid =>
          grp_logs_last'[g].linux_time \in {0} \cup Returned' \cup forgotten' \cup strays'
    BY <2>1, <2>2
  <2>6. QED
    BY <2>1, <2>3, <2>4, <2>5 DEF Placed, IsInjective
<1>6. QED
  BY <1>1, <1>2, <1>3, <1>4, <1>5, OtherStepsOfLogs

-----------------------------------------------------------------------------
(***************************************************************************)
(* Stamps are taken in order                                               *)
(***************************************************************************)
LEMMA SlowGrows ==
  ASSUME TypeInv, [Next]_vars
  PROVE  slow \subseteq slow'
<1>1. BeginScan => slow \subseteq slow'
  BY DEF BeginScan
<1>2. ASSUME NEW t \in Adders
      PROVE  /\ \A what \in limit.kinds : AddCall(t, what) => slow \subseteq slow'
             /\ Stamp(t) => slow \subseteq slow'
             /\ \A g \in Groups : Put(t, g) => slow \subseteq slow'
  BY DEF AddCall, Stamp, Put, history
<1>3. GetLogRefill \/ GetLogCached \/ GetLogDies \/ GetLogNone \/ GetTraceEntryGroup
        => slow \subseteq slow'
  BY DEF GetLogRefill, GetLogCached, GetLogDies, GetLogNone, GetTraceEntryGroup,
         history
<1>4. GetLogReturn \/ GetTraceEntryCall \/ GetTraceEntryNone => slow \subseteq slow'
  BY <1>1 DEF GetLogReturn, GetTraceEntryCall, GetTraceEntryNone, GetLogCall
<1>5. RTDBG_Start \/ GetTraceEntryReturn \/ RTDBG_Stop \/ ExtractDebugData \/ Restart
        => slow \subseteq slow'
  BY DEF RTDBG_Start, GetTraceEntryReturn, RTDBG_Stop, ExtractDebugData,
         Restart, history
<1>6. \A m \in SUBSET Groups, null \in BOOLEAN : Monitor(m, null) => slow \subseteq slow'
  BY <1>1 DEF Monitor, GetLogCall
<1>7. UNCHANGED vars => slow \subseteq slow'
  BY DEF vars, history
<1>8. QED
  BY <1>2, <1>3, <1>4, <1>5, <1>6, <1>7, StepCases

LEMMA ClockType ==
  ASSUME TypeInv
  PROVE  /\ clock \in Nat /\ 0 < clock /\ min_time \in Nat /\ min_time <= clock
         /\ Stamps \subseteq Nat \ {0} /\ slow \subseteq Nat
         /\ linux_time \in [Adders -> Nat]
         /\ logs \in [Groups -> Seq(Stamps)] /\ traces \in [Groups -> SUBSET Nat]
         /\ \A g \in Groups : Range(logs[g]) \subseteq Nat \ {0}
         /\ \A g \in Groups : grp_logs_last[g].linux_time \in Nat
         /\ \A g \in Groups : grp_trace_res_[g].lin_time \in Nat
<1>1. limit.entries \in Nat /\ Stamps \subseteq Nat \ {0}
  BY Ranges DEF TypeInv, TypeOK
<1>2. clock \in Nat /\ 0 < clock /\ min_time \in Nat /\ min_time <= clock
  BY <1>1 DEF TypeInv, TypeOK
<1>3. slow \subseteq Nat
  BY <1>1 DEF TypeInv, TypeOK
<1>4. linux_time \in [Adders -> Nat]
  <2>1. linux_time \in [Adders -> Stamps \cup {0}]
    BY DEF TypeInv, TypeOK
  <2>2. Stamps \cup {0} \subseteq Nat
    BY <1>1
  <2>3. QED
    BY <2>1, <2>2
<1>5. logs \in [Groups -> Seq(Stamps)]
  BY DEF TypeInv, TypeOK
<1>6. traces \in [Groups -> SUBSET Nat]
  BY <1>1 DEF TypeInv, TypeOK
<1>7. \A g \in Groups : Range(logs[g]) \subseteq Nat \ {0}
  BY <1>1, <1>5, RangeOfSeq
<1>8. \A g \in Groups : grp_logs_last[g].linux_time \in Nat
  <2>1. \A g \in Groups : grp_logs_last[g].linux_time \in Stamps \cup {0}
    BY DEF TypeInv, TypeOK
  <2>2. Stamps \cup {0} \subseteq Nat
    BY <1>1
  <2>3. ASSUME NEW g \in Groups
        PROVE  grp_logs_last[g].linux_time \in Nat
    <3>1. grp_logs_last[g].linux_time \in Stamps \cup {0}
      BY <2>1
    <3>2. QED
      BY <2>2, <3>1
  <2>4. QED
    BY <2>3
<1>9. \A g \in Groups : grp_trace_res_[g].lin_time \in Nat
  <2>1. \A g \in Groups : grp_trace_res_[g].lin_time \in Stamps \cup {0}
    BY DEF TypeInv, TypeOK
  <2>2. Stamps \cup {0} \subseteq Nat
    BY <1>1
  <2>3. ASSUME NEW g \in Groups
        PROVE  grp_trace_res_[g].lin_time \in Nat
    <3>1. grp_trace_res_[g].lin_time \in Stamps \cup {0}
      BY <2>1
    <3>2. QED
      BY <2>2, <3>1
  <2>4. QED
    BY <2>3
<1>10. QED
  BY <1>1, <1>2, <1>3, <1>4, <1>5, <1>6, <1>7, <1>8, <1>9

LEMMA LogsBeforeClock ==
  ASSUME TypeInv, Clocked, Placed
  PROVE  /\ \A g \in Groups : grp_logs_last[g].linux_time < clock
         /\ \A g \in Groups : \A x \in Range(logs[g]) : x < clock
<1>1. \A x \in logged \cup strays \cup {0} : x < clock
  BY ClockType DEF Clocked
<1>2. \A g \in Groups :
        grp_logs_last[g].linux_time \in {0} \cup Returned \cup forgotten \cup strays \cup Cached
  BY DEF Placed, Cached
<1>3. \A g \in Groups : grp_logs_last[g].linux_time \in {0} \cup logged \cup strays
  BY <1>2 DEF Placed
<1>4. \A g \in Groups : Range(logs[g]) \subseteq logged
  BY DEF Placed, InFifos
<1>5. QED
  BY <1>1, <1>3, <1>4

(* A step that takes no stamp and puts nothing.                            *)
LEMMA ClockedKept ==
  ASSUME Clocked, UNCHANGED <<linux_time, clock, logged>>, slow \subseteq slow',
         InRings' \cup present'.traces \subseteq InRings \cup present.traces,
         \A x \in strays' : x < clock,
         \A g \in Groups : grp_trace_res_'[g].lin_time < clock
  PROVE  Clocked'
  BY DEF Clocked

LEMMA ClockedStep ==
  ASSUME TypeInv, Clocked, Placed, [Next]_vars
  PROVE  Clocked'
<1>1. ASSUME UNCHANGED <<linux_time, clock, logged, traces, present, strays, grp_trace_res_>>
      PROVE  Clocked'
  <2>1. InRings' = InRings
    BY <1>1 DEF InRings
  <2>2. QED
    BY <1>1, <2>1, SlowGrows, ClockedKept DEF Clocked
<1>2. ASSUME NEW t \in Adders, NEW what \in limit.kinds, AddCall(t, what)
      PROVE  Clocked'
  BY <1>1, <1>2 DEF AddCall, queues, tables, history
<1>3. ASSUME NEW t \in Adders, Stamp(t)
      PROVE  Clocked'
  <2>1. /\ linux_time' = [linux_time EXCEPT ![t] = clock]
        /\ clock' = clock + 1 /\ linux_time[t] = 0
        /\ slow' = slow \cup Pending
        /\ UNCHANGED <<logged, strays, present, grp_trace_res_, InRings>>
    BY <1>3 DEF Stamp, queues, tables, InRings
  <2>2. /\ linux_time'[t] = clock
        /\ \A u \in Adders : u # t => linux_time'[u] = linux_time[u]
    BY <2>1, ClockType
  <2>3. ASSUME NEW u \in Adders, linux_time'[u] # 0
        PROVE  /\ linux_time'[u] < clock'
               /\ linux_time'[u] \in slow' \cup {clock' - 1}
               /\ linux_time'[u] \notin logged' \cup InRings' \cup present'.traces
               /\ \A v \in Adders : linux_time'[v] = linux_time'[u] => v = u
    <3>1. CASE u = t
      <4>1. clock \notin logged \cup InRings \cup present.traces
        BY ClockType DEF Clocked
      <4>2. \A v \in Adders : linux_time[v] # clock
        BY ClockType DEF Clocked
      <4>3. clock < clock' /\ clock = clock' - 1
        <5>1. clock \in Nat /\ clock' = clock + 1
          BY <2>1, ClockType
        <5>2. QED
          BY <5>1
      <4>4. QED
        BY <2>1, <2>2, <3>1, <4>1, <4>2, <4>3
    <3>2. CASE u # t
      <4>1. linux_time'[u] = linux_time[u] /\ linux_time[u] # 0
        BY <2>2, <2>3, <3>2
      <4>2. linux_time[u] < clock /\ linux_time[u] < clock'
        BY <2>1, <4>1, ClockType DEF Clocked
      <4>3. linux_time[u] \in slow'
        BY <2>1, <4>1 DEF Pending
      <4>4. linux_time[u] \notin logged \cup InRings \cup present.traces
        BY <4>1 DEF Clocked
      <4>5. \A v \in Adders : linux_time'[v] = linux_time[u] => v = u
        BY <2>2, <4>1, <4>2, ClockType DEF Clocked
      <4>6. QED
        BY <2>1, <4>1, <4>2, <4>3, <4>4, <4>5
    <3>3. QED
      BY <3>1, <3>2
  <2>4. \A x \in logged' \cup strays' \cup InRings' \cup present'.traces : x < clock'
    <3>1. SUFFICES ASSUME NEW x \in logged \cup strays \cup InRings \cup present.traces
                   PROVE  x < clock + 1
      BY <2>1
    <3>2. x < clock
      BY DEF Clocked
    <3>3. x \in Nat
      <4>1. InRings \subseteq Nat
        BY ClockType DEF InRings
      <4>2. logged \cup strays \cup present.traces \subseteq Nat
        BY ClockType DEF TypeInv, TypeOK
      <4>3. QED
        BY <4>1, <4>2
    <3>4. QED
      BY <3>2, <3>3, ClockType
  <2>5. \A g \in Groups : grp_trace_res_'[g].lin_time < clock'
    BY <2>1, ClockType DEF Clocked
  <2>6. QED
    BY <2>3, <2>4, <2>5 DEF Clocked
<1>4. ASSUME NEW t \in Adders, NEW g \in Groups, Put(t, g)
      PROVE  Clocked'
  <2> DEFINE x == linux_time[t]
  <2>1. /\ x # 0 /\ x < clock
        /\ linux_time' = [linux_time EXCEPT ![t] = 0]
        /\ UNCHANGED <<clock, strays, present, grp_trace_res_, slow>>
    BY <1>4 DEF Put, tables, Clocked
  <2>2. /\ linux_time'[t] = 0
        /\ \A u \in Adders : u # t => linux_time'[u] = linux_time[u]
    BY <2>1, ClockType
  <2>3. InRings' \subseteq InRings \cup {x} /\ logged' \subseteq logged \cup {x}
    <3>1. CASE pc[t] = "log"
      BY <1>4, <3>1 DEF Put, InRings
    <3>2. CASE pc[t] # "log"
      <4>1. traces' = [traces EXCEPT ![g] = traces[g] \cup {x}] /\ logged' = logged
        BY <1>4, <3>2 DEF Put
      <4>2. \A h \in Groups : traces'[h] \subseteq traces[h] \cup {x}
        BY <4>1, ClockType
      <4>3. QED
        BY <4>1, <4>2 DEF InRings
    <3>3. QED
      BY <3>1, <3>2
  <2>4. \A u \in Adders : u # t => linux_time[u] # x
    BY <2>1 DEF Clocked
  <2> HIDE DEF x
  <2>5. ASSUME NEW u \in Adders, linux_time'[u] # 0
        PROVE  /\ linux_time'[u] < clock'
               /\ linux_time'[u] \in slow' \cup {clock' - 1}
               /\ linux_time'[u] \notin logged' \cup InRings' \cup present'.traces
               /\ \A v \in Adders : linux_time'[v] = linux_time'[u] => v = u
    <3>1. u # t /\ linux_time'[u] = linux_time[u] /\ linux_time[u] # 0
      BY <2>2, <2>5
    <3>2. /\ linux_time[u] < clock
          /\ linux_time[u] \in slow \cup {clock - 1}
          /\ linux_time[u] \notin logged \cup InRings \cup present.traces
      BY <3>1 DEF Clocked
    <3>3. \A v \in Adders : linux_time'[v] = linux_time[u] => v = u
      BY <2>2, <3>1 DEF Clocked
    <3>4. linux_time[u] \notin logged' \cup InRings' \cup present'.traces
      BY <2>1, <2>3, <2>4, <3>1, <3>2
    <3>5. QED
      BY <2>1, <3>1, <3>2, <3>3, <3>4
  <2>6. \A y \in logged' \cup strays' \cup InRings' \cup present'.traces : y < clock'
    BY <2>1, <2>3 DEF Clocked
  <2>7. QED
    BY <2>1, <2>5, <2>6 DEF Clocked
<1>5. ASSUME GetLogReturn
      PROVE  Clocked'
  <2>1. /\ min_index \in Groups
        /\ strays' \subseteq strays \cup {grp_logs_last[min_index].linux_time}
    BY <1>5 DEF GetLogReturn, TypeInv, TypeOK
  <2>2. \A x \in strays' : x < clock
    BY <2>1, LogsBeforeClock DEF Clocked
  <2>3. UNCHANGED <<linux_time, clock, logged, InRings, present, grp_trace_res_>>
    BY <1>5 DEF GetLogReturn, queues, appVars, InRings
  <2>4. QED
    BY <2>2, <2>3, SlowGrows, ClockedKept DEF Clocked
<1>6. GetLogRefill \/ GetLogCached \/ GetLogDies \/ GetLogNone \/ RTDBG_Start => Clocked'
  BY <1>1
  DEF GetLogRefill, GetLogCached, GetLogDies, GetLogNone, RTDBG_Start, queues,
      appVars, tables, history
<1>7. GetTraceEntryCall \/ GetTraceEntryNone \/ RTDBG_Stop => Clocked'
  BY <1>1
  DEF GetTraceEntryCall, GetTraceEntryNone, RTDBG_Stop, queues, appVars, tables
<1>8. ASSUME GetTraceEntryGroup
      PROVE  Clocked'
  <2>1. /\ \A g \in Groups : traces'[g] \subseteq traces[g]
        /\ \A g \in Groups : grp_trace_res_'[g].lin_time < clock
    <3>1. ind \in Groups
      BY <1>8, GroupCases
    <3>2. CASE GivenUp \/ LookedAt
      BY <3>2 DEF GivenUp, LookedAt, Clocked
    <3>3. CASE FoundEmpty
      BY <3>1, <3>3 DEF FoundEmpty, Clocked, TypeInv, TypeOK
    <3>4. ASSUME NEW x \in Stamps, Taken(x)
          PROVE  /\ \A g \in Groups : traces'[g] \subseteq traces[g]
                 /\ \A g \in Groups : grp_trace_res_'[g].lin_time < clock
      <4>1. x < clock
        BY <3>1, <3>4 DEF Taken, Clocked, InRings
      <4>2. \A g \in Groups : traces'[g] \subseteq traces[g]
        BY <3>1, <3>4, ClockType DEF Taken
      <4>3. \A g \in Groups : grp_trace_res_'[g].lin_time < clock
        BY <3>1, <3>4, <4>1 DEF Taken, Clocked, TypeInv, TypeOK
      <4>4. QED
        BY <4>2, <4>3
    <3>5. QED
      BY <1>8, <3>2, <3>3, <3>4, GroupCases
  <2>2. UNCHANGED <<linux_time, clock, logged, present, strays>>
    BY <1>8 DEF GetTraceEntryGroup, appVars, history
  <2>3. InRings' \subseteq InRings
    BY <2>1 DEF InRings
  <2>4. QED
    BY <2>1, <2>2, <2>3, SlowGrows, ClockedKept DEF Clocked
<1>9. ASSUME GetTraceEntryReturn
      PROVE  Clocked'
  <2>1. UNCHANGED <<linux_time, clock, logged, present, strays, InRings>>
    BY <1>9 DEF GetTraceEntryReturn, queues, appVars, InRings
  <2>2. \A g \in Groups : grp_trace_res_'[g].lin_time = grp_trace_res_[g].lin_time
    BY <1>9 DEF GetTraceEntryReturn, TypeInv, TypeOK
  <2>3. QED
    BY <2>1, <2>2, SlowGrows, ClockedKept DEF Clocked
<1>10. ASSUME ExtractDebugData
       PROVE  Clocked'
  <2>1. /\ UNCHANGED <<linux_time, clock, logged, strays, InRings, grp_trace_res_>>
        /\ present'.traces = InRings
    BY <1>10 DEF ExtractDebugData, queues, appVars, InRings
  <2>2. QED
    BY <2>1, SlowGrows, ClockedKept DEF Clocked
<1>11. ASSUME Restart
       PROVE  Clocked'
  <2>1. /\ UNCHANGED <<linux_time, clock, logged, strays, InRings>>
        /\ present'.traces = {} /\ grp_trace_res_' = NoTraces
    BY <1>11 DEF Restart, queues, appVars, InRings
  <2>2. \A g \in Groups : grp_trace_res_'[g].lin_time < clock
    BY <2>1, ClockType DEF NoTraces
  <2>3. QED
    BY <2>1, <2>2, SlowGrows, ClockedKept DEF Clocked
<1>12. ASSUME NEW m \in SUBSET Groups, NEW null \in BOOLEAN, Monitor(m, null)
       PROVE  Clocked'
  BY <1>1, <1>12 DEF Monitor, queues, appVars, tables
<1>13. ASSUME UNCHANGED vars
       PROVE  Clocked'
  BY <1>1, <1>13 DEF vars, queues, appVars, tables, history
<1>14. QED
  BY <1>2, <1>3, <1>4, <1>5, <1>6, <1>7, <1>8, <1>9, <1>10, <1>11, <1>12,
     <1>13, StepCases

(* An entry that comes after a later one was overtaken.                    *)
LEMMA LateIsSlow ==
  ASSUME TypeInv, Clocked, NEW t \in Adders, NEW y \in Nat, y < clock,
         linux_time[t] # 0, linux_time[t] < y
  PROVE  linux_time[t] \in slow
<1>1. linux_time[t] \in Nat /\ clock \in Nat
  BY ClockType
<1>2. linux_time[t] \in slow \cup {clock - 1}
  BY DEF Clocked
<1>3. QED
  BY <1>1, <1>2

-----------------------------------------------------------------------------
(***************************************************************************)
(* The merge of the logs                                                   *)
(***************************************************************************)
LEMMA FifoOrderStep ==
  ASSUME TypeInv, Clocked, Placed, FifoOrder, [Next]_vars
  PROVE  FifoOrder'
<1>1. slow \subseteq slow'
  BY SlowGrows
<1>2. ASSUME NEW g \in Groups, logs'[g] = logs[g],
             grp_logs_last'[g].valid =>
               grp_logs_last[g].valid /\ grp_logs_last'[g].linux_time = grp_logs_last[g].linux_time
      PROVE  /\ \A i, j \in DOMAIN logs'[g] :
                  i < j /\ logs'[g][j] < logs'[g][i] => logs'[g][j] \in slow'
             /\ grp_logs_last'[g].valid =>
                  \A x \in Range(logs'[g]) : x < grp_logs_last'[g].linux_time => x \in slow'
  BY <1>1, <1>2 DEF FifoOrder
<1>3. ASSUME LogsUnchanged
      PROVE  FifoOrder'
  BY <1>2, <1>3 DEF FifoOrder, LogsUnchanged
<1>4. ASSUME NEW t \in Adders, NEW g \in Groups, Put(t, g), pc[t] = "log"
      PROVE  FifoOrder'
  <2> DEFINE x == linux_time[t]
  <2>1. /\ x \in Stamps
        /\ logs'[g] = Append(logs[g], x)
        /\ \A h \in Groups : h # g => logs'[h] = logs[h]
        /\ Range(logs'[g]) = Range(logs[g]) \cup {x}
    BY <1>4, PutLogEffect
  <2>2. grp_logs_last' = grp_logs_last /\ x # 0
    BY <1>4 DEF Put, tables
  <2>3. \A y \in Nat : y < clock /\ x < y => x \in slow'
    BY <1>1, <2>2, LateIsSlow
  <2> HIDE DEF x
  <2>4. logs[g] \in Seq(Stamps) /\ Range(logs[g]) \subseteq Nat /\ \A y \in Range(logs[g]) : y < clock
    BY ClockType, LogsBeforeClock
  <2>5. /\ Len(logs[g]) \in Nat
        /\ DOMAIN logs[g] = 1 .. Len(logs[g]) /\ DOMAIN logs'[g] = 1 .. Len(logs[g]) + 1
        /\ \A i \in DOMAIN logs[g] : logs'[g][i] = logs[g][i] /\ logs[g][i] \in Range(logs[g])
        /\ logs'[g][Len(logs[g]) + 1] = x
    BY <2>1, <2>4, Appended DEF Range
  <2>6. ASSUME NEW i \in DOMAIN logs'[g], NEW j \in DOMAIN logs'[g], i < j, logs'[g][j] < logs'[g][i]
        PROVE  logs'[g][j] \in slow'
    <3>1. i \in DOMAIN logs[g] /\ logs'[g][i] = logs[g][i] /\ logs[g][i] \in Nat /\ logs[g][i] < clock
      BY <2>4, <2>5, <2>6
    <3>2. CASE j = Len(logs[g]) + 1
      BY <2>3, <2>5, <2>6, <3>1, <3>2
    <3>3. CASE j # Len(logs[g]) + 1
      <4>1. j \in DOMAIN logs[g] /\ logs'[g][j] = logs[g][j]
        BY <2>5, <3>3
      <4>2. QED
        BY <1>1, <2>6, <3>1, <4>1 DEF FifoOrder
    <3>4. QED
      BY <3>2, <3>3
  <2>7. ASSUME grp_logs_last'[g].valid, NEW y \in Range(logs'[g]), y < grp_logs_last'[g].linux_time
        PROVE  y \in slow'
    <3>1. grp_logs_last[g].linux_time \in Nat /\ grp_logs_last[g].linux_time < clock
      BY ClockType, LogsBeforeClock
    <3>2. CASE y = x
      BY <2>2, <2>3, <2>7, <3>1, <3>2
    <3>3. CASE y # x
      BY <1>1, <2>1, <2>2, <2>7, <3>3 DEF FifoOrder
    <3>4. QED
      BY <3>2, <3>3
  <2>8. \A h \in Groups : h # g =>
          /\ \A i, j \in DOMAIN logs'[h] :
               i < j /\ logs'[h][j] < logs'[h][i] => logs'[h][j] \in slow'
          /\ grp_logs_last'[h].valid =>
               \A y \in Range(logs'[h]) : y < grp_logs_last'[h].linux_time => y \in slow'
    BY <1>2, <2>1, <2>2
  <2>9. QED
    BY <2>6, <2>7, <2>8 DEF FifoOrder
<1>5. ASSUME GetLogRefill, logs[ind] # << >>
      PROVE  FifoOrder'
  <2> DEFINE x == Head(logs[ind])
  <2>1. /\ ind \in Groups
        /\ grp_logs_last'[ind] = [valid |-> TRUE, linux_time |-> x]
        /\ logs'[ind] = Tail(logs[ind])
        /\ \A h \in Groups : h # ind =>
             logs'[h] = logs[h] /\ grp_logs_last'[h] = grp_logs_last[h]
    BY <1>5, RefillEffect
  <2>2. logs[ind] \in Seq(Stamps)
    BY <2>1, ClockType
  <2>3. /\ x = logs[ind][1] /\ 1 \in DOMAIN logs[ind]
        /\ \A i \in DOMAIN Tail(logs[ind]) :
             i \in Nat \ {0} /\ i + 1 \in DOMAIN logs[ind] /\ Tail(logs[ind])[i] = logs[ind][i + 1]
    BY <1>5, <2>2, Beheaded
  <2> HIDE DEF x
  <2>4. ASSUME NEW i \in DOMAIN logs'[ind], NEW j \in DOMAIN logs'[ind],
               i < j, logs'[ind][j] < logs'[ind][i]
        PROVE  logs'[ind][j] \in slow'
    <3>1. /\ i \in Nat /\ i + 1 \in DOMAIN logs[ind] /\ logs'[ind][i] = logs[ind][i + 1]
          /\ j \in Nat /\ j + 1 \in DOMAIN logs[ind] /\ logs'[ind][j] = logs[ind][j + 1]
      BY <2>1, <2>3
    <3>2. i + 1 < j + 1
      BY <2>4, <3>1
    <3>3. QED
      BY <1>1, <2>1, <2>4, <3>1, <3>2 DEF FifoOrder
  <2>5. ASSUME NEW y \in Range(logs'[ind]), y < grp_logs_last'[ind].linux_time
        PROVE  y \in slow'
    <3>1. PICK j \in DOMAIN Tail(logs[ind]) : y = Tail(logs[ind])[j]
      BY <2>1 DEF Range
    <3>2. j \in Nat \ {0} /\ j + 1 \in DOMAIN logs[ind] /\ y = logs[ind][j + 1]
      BY <2>3, <3>1
    <3>3. 1 < j + 1 /\ logs[ind][j + 1] < logs[ind][1]
      BY <2>1, <2>3, <2>5, <3>2
    <3>4. QED
      BY <1>1, <2>1, <2>3, <3>2, <3>3 DEF FifoOrder
  <2>6. \A h \in Groups : h # ind =>
          /\ \A i, j \in DOMAIN logs'[h] :
               i < j /\ logs'[h][j] < logs'[h][i] => logs'[h][j] \in slow'
          /\ grp_logs_last'[h].valid =>
               \A y \in Range(logs'[h]) : y < grp_logs_last'[h].linux_time => y \in slow'
    BY <1>2, <2>1
  <2>7. QED
    BY <2>4, <2>5, <2>6 DEF FifoOrder
<1>6. ASSUME GetLogReturn
      PROVE  FifoOrder'
  <2>1. /\ logs' = logs
        /\ \A g \in Groups :
             /\ grp_logs_last'[g].linux_time = grp_logs_last[g].linux_time
             /\ grp_logs_last'[g].valid <=> grp_logs_last[g].valid /\ g # min_index
    BY <1>6, ReturnEffect
  <2>2. QED
    BY <1>2, <2>1 DEF FifoOrder
<1>7. ASSUME RTDBG_Stop \/ ExtractDebugData \/ Restart
      PROVE  FifoOrder'
  <2>1. logs' = logs /\ \A g \in Groups : ~grp_logs_last'[g].valid
    BY <1>7, ClearEffect
  <2>2. QED
    BY <1>2, <2>1 DEF FifoOrder
<1>8. QED
  BY <1>3, <1>4, <1>5, <1>6, <1>7, OtherStepsOfLogs

LEMMA LogScanStep ==
  ASSUME TypeInv, Clocked, Placed, FifoOrder, LogScan, FifoOrder', [Next]_vars
  PROVE  LogScan'
<1>1. slow \subseteq slow'
  BY SlowGrows
<1>2. ASSUME ~GettingLog'
      PROVE  LogScan'
  BY <1>2 DEF LogScan
<1>3. ASSUME BeginScan, linux_time' = linux_time, job' = "logs" => mask' = Groups /\ ~null_time'
      PROVE  LogScan'
  <2>1. min_index' = -1 /\ ind' = 0 /\ slow' = slow \cup Pending /\ Pending' = Pending
    BY <1>3 DEF BeginScan, Pending
  <2>2. \A g \in Groups : ~(g < ind')
    BY <2>1, Ranges DEF TypeInv, TypeOK
  <2>3. QED
    BY <1>3, <2>1, <2>2 DEF LogScan
<1>4. ASSUME UNCHANGED <<job, mask, null_time, ind, min_index, min_time, logs, grp_logs_last>>,
             \A x \in Pending' : x < min_time => x \in Pending
      PROVE  LogScan'
  BY <1>1, <1>4 DEF LogScan, GettingLog
<1>5. ASSUME NEW t \in Adders, NEW what \in limit.kinds, AddCall(t, what)
      PROVE  LogScan'
  BY <1>4, <1>5 DEF AddCall, Pending, queues, tables, callVars
<1>6. ASSUME NEW t \in Adders, Stamp(t)
      PROVE  LogScan'
  <2>1. /\ linux_time' = [linux_time EXCEPT ![t] = clock]
        /\ UNCHANGED <<job, mask, null_time, ind, min_index, min_time, logs, grp_logs_last>>
    BY <1>6 DEF Stamp, queues, tables, callVars
  <2>2. \A x \in Pending' : x = clock \/ x \in Pending
    BY <2>1, ClockType DEF Pending
  <2>3. ~(clock < min_time)
    <3>1. clock \in Nat /\ min_time \in Nat /\ min_time <= clock
      BY ClockType
    <3>2. QED
      BY <3>1
  <2>4. QED
    BY <1>4, <2>1, <2>2, <2>3
<1>7. ASSUME NEW t \in Adders, NEW g \in Groups, Put(t, g)
      PROVE  LogScan'
  <2>1. /\ UNCHANGED <<job, mask, null_time, ind, min_index, min_time, grp_logs_last>>
        /\ linux_time' = [linux_time EXCEPT ![t] = 0]
        /\ linux_time[t] # 0
    BY <1>7 DEF Put, tables, callVars
  <2>2. Pending' \subseteq Pending /\ linux_time[t] \in Pending
    BY <2>1, ClockType DEF Pending
  <2>3. CASE pc[t] # "log"
    <3>1. logs' = logs
      BY <1>7, <2>3 DEF Put
    <3>2. QED
      BY <1>4, <2>1, <2>2, <3>1
  <2>4. CASE pc[t] = "log"
    <3> DEFINE x == linux_time[t]
    <3>1. \A h \in Groups : \A y \in Range(logs'[h]) : y = x \/ y \in Range(logs[h])
      BY <1>7, <2>4, PutLogEffect
    <3>2. x \in Pending
      BY <2>2
    <3> HIDE DEF x
    <3>3. QED
      BY <1>1, <2>1, <2>2, <3>1, <3>2 DEF LogScan, GettingLog
  <2>5. QED
    BY <2>3, <2>4
<1>8. ASSUME GetLogRefill \/ GetLogCached
      PROVE  LogScan'
  <2>1. /\ ind \in Groups /\ ind' = ind + 1 /\ ~ScanEnds
        /\ UNCHANGED <<job, mask, null_time, Pending>>
        /\ GettingLog
        /\ \A h \in Groups : h < ind' <=> h < ind \/ h = ind
    BY <1>8, ScanTypes
    DEF GetLogRefill, GetLogCached, GettingLog, appVars, Pending
  <2>2. /\ \A h \in Groups : h # ind =>
             logs'[h] = logs[h] /\ grp_logs_last'[h] = grp_logs_last[h]
        /\ grp_logs_last'[ind].valid => Consider(ind, grp_logs_last'[ind].linux_time)
        /\ \/ Consider(ind, grp_logs_last'[ind].linux_time)
           \/ UNCHANGED <<min_time, min_index, logs, grp_logs_last>>
        /\ mask = Groups => grp_logs_last'[ind].valid \/ Range(logs'[ind]) = {}
        /\ grp_logs_last'[ind].linux_time \in Stamps \cup {0}
    <3>1. CASE GetLogRefill /\ logs[ind] # << >>
      <4> DEFINE x == Head(logs[ind])
      <4>1. /\ x \in Stamps
            /\ grp_logs_last'[ind] = [valid |-> TRUE, linux_time |-> x]
            /\ \A h \in Groups : h # ind =>
                 logs'[h] = logs[h] /\ grp_logs_last'[h] = grp_logs_last[h]
        BY <3>1, RefillEffect
      <4>2. Consider(ind, x)
        BY <3>1 DEF GetLogRefill
      <4> HIDE DEF x
      <4>3. QED
        BY <4>1, <4>2
    <3>2. CASE GetLogRefill /\ logs[ind] = << >>
      <4>1. UNCHANGED <<min_time, min_index, logs, grp_logs_last>> /\ ~grp_logs_last[ind].valid
        BY <3>2 DEF GetLogRefill, Refill
      <4>2. Range(logs'[ind]) = {}
        BY <3>2, <4>1 DEF Range
      <4>3. grp_logs_last[ind].linux_time \in Stamps \cup {0}
        BY <2>1 DEF TypeInv, TypeOK
      <4>4. QED
        BY <4>1, <4>2, <4>3
    <3>3. CASE GetLogCached
      <4>1. /\ UNCHANGED <<logs, grp_logs_last>>
            /\ Consider(ind, grp_logs_last[ind].linux_time)
            /\ mask = Groups => grp_logs_last[ind].valid
        BY <2>1, <3>3 DEF GetLogCached, Refill, queues, tables
      <4>2. grp_logs_last[ind].linux_time \in Stamps \cup {0}
        BY <2>1 DEF TypeInv, TypeOK
      <4>3. QED
        BY <4>1, <4>2
    <3>4. QED
      BY <1>8, <3>1, <3>2, <3>3
  <2> DEFINE time == grp_logs_last'[ind].linux_time
  <2>3. Consider(ind, time) =>
          /\ min_time' <= time /\ min_time' <= min_time
          /\ \/ min_index' = ind /\ min_time' = time
             \/ min_index' = min_index /\ min_time' = min_time
    BY <2>1, <2>2, ConsiderTypes
  <2>4. min_time \in Nat /\ min_time' \in Nat /\ time \in Nat /\ min_time' <= min_time
    <3>1. min_time \in Nat /\ limit.entries \in Nat /\ Stamps \subseteq Nat
      BY ClockType, Ranges DEF TypeInv, TypeOK
    <3>2. Consider(ind, time) => min_time' \in 0 .. limit.entries + 1
      BY <2>1, <2>2, ConsiderTypes
    <3>3. time \in Nat
      <4>1. time \in Stamps \cup {0}
        BY <2>2
      <4>2. Stamps \cup {0} \subseteq Nat
        BY <3>1
      <4>3. QED
        BY <4>1, <4>2
    <3>4. CASE Consider(ind, time)
      <4>1. min_time' \in Nat
        BY <3>1, <3>2, <3>4
      <4>2. QED
        BY <2>3, <3>1, <3>3, <3>4, <4>1
    <3>5. CASE min_time' = min_time
      BY <3>1, <3>3, <3>5
    <3>6. QED
      BY <2>2, <3>4, <3>5
  <2>5. min_index' # -1 => grp_logs_last'[min_index'].linux_time = min_time'
    <3>1. min_index # ind
      <4>1. ind \in Nat /\ -1 # ind
        BY <2>1, ScanTypes
      <4>2. min_index < ind \/ min_index = -1
        BY DEF TypeInv
      <4>3. QED
        BY <4>1, <4>2
    <3>2. CASE min_index' = ind /\ min_time' = time
      BY <3>2
    <3>3. CASE min_index' = min_index /\ min_time' = min_time
      BY <2>1, <2>2, <3>1, <3>3 DEF LogScan, TypeInv, TypeOK
    <3>4. QED
      BY <2>2, <2>3, <3>2, <3>3
  <2>6. ASSUME mask = Groups
        PROVE  /\ \A x \in Pending : x < min_time' => x \in slow'
               /\ \A g \in Groups : g < ind' =>
                    /\ grp_logs_last'[g].valid => min_time' <= grp_logs_last'[g].linux_time
                    /\ \A x \in Range(logs'[g]) : x < min_time' => x \in slow'
    <3>1. \A x \in Nat : x < min_time' => x < min_time
      BY <2>4
    <3>2. Pending \subseteq Nat
      BY ClockType DEF Pending
    <3>3. \A x \in Pending : x < min_time' => x \in slow'
      BY <1>1, <2>1, <2>6, <3>1, <3>2 DEF LogScan
    <3>4. ASSUME NEW g \in Groups, g < ind
          PROVE  /\ grp_logs_last'[g].valid => min_time' <= grp_logs_last'[g].linux_time
                 /\ \A x \in Range(logs'[g]) : x < min_time' => x \in slow'
      <4>1. g # ind
        BY <2>1, <3>4, ScanTypes
      <4>2. logs'[g] = logs[g] /\ grp_logs_last'[g] = grp_logs_last[g]
        BY <2>2, <4>1
      <4>3. /\ grp_logs_last[g].valid => min_time <= grp_logs_last[g].linux_time
            /\ \A x \in Range(logs[g]) : x < min_time => x \in slow
        BY <2>1, <2>6, <3>4 DEF LogScan
      <4>4. Range(logs[g]) \subseteq Nat /\ grp_logs_last[g].linux_time \in Nat
        BY ClockType
      <4>5. QED
        BY <1>1, <2>4, <3>1, <4>2, <4>3, <4>4
    <3>5. /\ grp_logs_last'[ind].valid => min_time' <= time
          /\ \A x \in Range(logs'[ind]) : x < min_time' => x \in slow'
      <4>1. CASE ~grp_logs_last'[ind].valid
        BY <2>2, <2>6, <4>1
      <4>2. CASE grp_logs_last'[ind].valid
        <5>1. min_time' <= time
          BY <2>2, <2>3, <4>2
        <5>2. \A x \in Range(logs'[ind]) : x < time => x \in slow'
          BY <2>1, <4>2 DEF FifoOrder
        <5>3. Range(logs'[ind]) \subseteq Nat
          <6>1. Range(logs'[ind]) \subseteq Range(logs[ind])
            BY <1>8, RefillEffect, RefillNothing
            DEF GetLogCached, queues, LogsUnchanged
          <6>2. QED
            BY <2>1, <6>1, ClockType
        <5>4. QED
          BY <2>4, <5>1, <5>2, <5>3
      <4>3. QED
        BY <4>1, <4>2
    <3>6. QED
      BY <2>1, <3>3, <3>4, <3>5
  <2> HIDE DEF time
  <2>7. QED
    BY <2>1, <2>5, <2>6 DEF LogScan
<1>9. ASSUME GetLogReturn
      PROVE  LogScan'
  <2>1. CASE job = "logs"
    BY <1>3, <1>9, <2>1 DEF GetLogReturn, GetLogCall, appVars
  <2>2. CASE job # "logs"
    BY <1>2, <1>9, <2>2 DEF GetLogReturn, GettingLog
  <2>3. QED
    BY <2>1, <2>2
<1>10. GetLogNone \/ GetTraceEntryReturn \/ RTDBG_Stop \/ ExtractDebugData \/ Restart
         => LogScan'
  BY <1>2
  DEF GetLogNone, GetTraceEntryReturn, RTDBG_Stop, ExtractDebugData, Restart,
      GettingLog
<1>11. ASSUME GetLogDies \/ RTDBG_Start \/ UNCHANGED vars
       PROVE  LogScan'
  <2>1. UNCHANGED <<job, mask, null_time, ind, min_index, min_time, logs, grp_logs_last, linux_time>>
    BY <1>11
    DEF GetLogDies, RTDBG_Start, vars, queues, tables, callVars, appVars
  <2>2. QED
    BY <1>4, <2>1 DEF Pending
<1>12. ASSUME GetTraceEntryCall
       PROVE  LogScan'
  <2>1. CASE active_
    BY <1>3, <1>12, <2>1 DEF GetTraceEntryCall, GetLogCall, appVars
  <2>2. CASE ~active_
    BY <1>2, <1>12, <2>2 DEF GetTraceEntryCall, GettingLog
  <2>3. QED
    BY <2>1, <2>2
<1>13. ASSUME GetTraceEntryGroup
       PROVE  LogScan'
  BY <1>2, <1>13 DEF GetTraceEntryGroup, GettingLog
<1>14. ASSUME GetTraceEntryNone
       PROVE  LogScan'
  BY <1>3, <1>14 DEF GetTraceEntryNone, GetLogCall, appVars
<1>15. ASSUME NEW m \in SUBSET Groups, NEW null \in BOOLEAN, Monitor(m, null)
       PROVE  LogScan'
  BY <1>3, <1>15 DEF Monitor, GetLogCall, appVars
<1>16. QED
  BY <1>5, <1>6, <1>7, <1>8, <1>9, <1>10, <1>11, <1>12, <1>13, <1>14, <1>15,
     StepCases

LEMMA LogsLeftStep ==
  ASSUME TypeInv, Clocked, Placed, LogScan, LogsLeft, LogsEarliestFirst, [Next]_vars
  PROVE  LogsLeft' /\ LogsEarliestFirst'
<1>1. slow \subseteq slow'
  BY SlowGrows
<1>2. ASSUME returned' = returned, InFifos' \cup Cached' \subseteq InFifos \cup Cached
      PROVE  LogsLeft' /\ LogsEarliestFirst'
  BY <1>1, <1>2 DEF LogsLeft, LogsEarliestFirst
<1>3. ASSUME LogsUnchanged
      PROVE  LogsLeft' /\ LogsEarliestFirst'
  <2>1. UNCHANGED <<InFifos, Cached>>
    BY <1>3 DEF LogsUnchanged, InFifos, Cached
  <2>2. QED
    BY <1>2, <1>3, <2>1 DEF LogsUnchanged
<1>4. ASSUME NEW t \in Adders, NEW g \in Groups, Put(t, g), pc[t] = "log"
      PROVE  LogsLeft' /\ LogsEarliestFirst'
  <2> DEFINE x == linux_time[t]
  <2>1. InFifos' = InFifos \cup {x}
    BY <1>4, PutLogEffect
  <2>2. UNCHANGED <<returned, Cached>> /\ x # 0
    BY <1>4 DEF Put, tables, Cached
  <2>3. \A i \in DOMAIN returned :
          returned[i].linux_time \in Nat /\ returned[i].linux_time < clock
    <3>1. ASSUME NEW i \in DOMAIN returned
          PROVE  returned[i].linux_time \in Nat /\ returned[i].linux_time < clock
      <4>1. returned[i] \in [mask : SUBSET Groups, linux_time : Stamps]
        <5>1. returned \in Seq([mask : SUBSET Groups, linux_time : Stamps])
          BY DEF TypeInv
        <5>2. i \in 1 .. Len(returned)
          BY <5>1, LenProperties
        <5>3. QED
          BY <5>1, <5>2, ElementOfSeq
      <4>2. returned[i].linux_time \in Stamps /\ returned[i].linux_time \in logged
        BY <4>1 DEF Placed, Returned
      <4>3. QED
        BY <4>2, ClockType DEF Clocked
    <3>2. QED
      BY <3>1
  <2>4. \A y \in Nat : y < clock /\ x < y => x \in slow'
    BY <1>1, <2>2, LateIsSlow
  <2> HIDE DEF x
  <2>5. LogsLeft'
    BY <1>1, <2>1, <2>2, <2>3, <2>4 DEF LogsLeft
  <2>6. QED
    BY <1>1, <2>2, <2>5 DEF LogsEarliestFirst
<1>5. ASSUME GetLogRefill, logs[ind] # << >>
      PROVE  LogsLeft' /\ LogsEarliestFirst'
  <2> DEFINE x == Head(logs[ind])
  <2>1. InFifos = InFifos' \cup {x} /\ Cached' = Cached \cup {x}
    BY <1>5, RefillEffect
  <2>2. returned' = returned
    BY <1>5 DEF GetLogRefill, history
  <2>3. QED
    BY <1>2, <2>1, <2>2
<1>6. ASSUME GetLogReturn
      PROVE  LogsLeft' /\ LogsEarliestFirst'
  <2> DEFINE x == grp_logs_last[min_index].linux_time
             r == [mask |-> mask, linux_time |-> x]
  <2>1. /\ min_index \in Groups /\ Cached' = Cached \ {x} /\ InFifos' = InFifos
        /\ \/ /\ min_index \in mask /\ x \in Cached
              /\ returned' = Append(returned, r)
           \/ /\ min_index \notin mask
              /\ returned' = returned
    BY <1>6, ReturnEffect
  <2>2. CASE min_index \notin mask
    BY <1>2, <2>1, <2>2
  <2>3. CASE min_index \in mask
    <3>1. x \in Cached /\ returned' = Append(returned, r) /\ r.mask = mask /\ r.linux_time = x
      BY <2>1, <2>3
    <3>2. mask = Groups => \A y \in InFifos \cup Cached : y < x => y \in slow
      <4>1. SUFFICES ASSUME mask = Groups, NEW y \in InFifos \cup Cached, y < x
                     PROVE  y \in slow
        OBVIOUS
      <4>2. GettingLog /\ x = min_time
        BY <1>6 DEF GetLogReturn, GettingLog, LogScan
      <4>3. \A g \in Groups : g < ind
        BY <1>6, Ranges DEF GetLogReturn, ScanEnds, TypeInv, TypeOK, Groups
      <4>4. CASE y \in Cached
        <5>1. PICK g \in Groups : grp_logs_last[g].valid /\ y = grp_logs_last[g].linux_time
          BY <4>4 DEF Cached
        <5>2. min_time <= y /\ y \in Nat
          BY <4>1, <4>2, <4>3, <5>1, ClockType DEF LogScan
        <5>3. QED
          BY <4>1, <4>2, <5>2, ClockType
      <4>5. CASE y \in InFifos
        BY <4>1, <4>2, <4>3, <4>5 DEF LogScan, InFifos
      <4>6. QED
        BY <4>1, <4>4, <4>5
    <3>3. mask \in SUBSET Groups /\ x \in Stamps
      <4>1. grp_logs_last[min_index].valid
        BY <1>6, <2>3 DEF TypeInv, GettingLog, GetLogReturn
      <4>2. QED
        BY <2>1, <4>1 DEF TypeInv, TypeOK
    <3>4. r \in [mask : SUBSET Groups, linux_time : Stamps]
      BY <3>3
    <3> HIDE DEF x, r
    <3>5. /\ Len(returned) \in Nat
          /\ DOMAIN returned = 1 .. Len(returned) /\ DOMAIN returned' = 1 .. Len(returned) + 1
          /\ \A i \in DOMAIN returned : returned'[i] = returned[i]
          /\ returned'[Len(returned) + 1] = r
      BY <3>1, <3>4, Appended DEF TypeInv
    <3>6. ASSUME NEW i \in DOMAIN returned', returned'[i].mask = Groups,
                 NEW y \in InFifos' \cup Cached', y < returned'[i].linux_time
          PROVE  y \in slow'
      <4>1. y \in InFifos \cup Cached
        BY <2>1, <3>6
      <4>2. CASE i \in DOMAIN returned
        BY <1>1, <3>5, <3>6, <4>1, <4>2 DEF LogsLeft
      <4>3. CASE i = Len(returned) + 1
        BY <1>1, <3>1, <3>2, <3>5, <3>6, <4>1, <4>3
      <4>4. QED
        BY <3>5, <4>2, <4>3
    <3>7. ASSUME NEW i \in DOMAIN returned', NEW j \in DOMAIN returned',
                 i < j, returned'[i].mask = Groups,
                 returned'[j].linux_time < returned'[i].linux_time
          PROVE  returned'[j].linux_time \in slow'
      <4>1. i \in DOMAIN returned /\ returned'[i] = returned[i]
        BY <3>5, <3>7
      <4>2. CASE j \in DOMAIN returned
        BY <1>1, <3>5, <3>7, <4>1, <4>2 DEF LogsEarliestFirst
      <4>3. CASE j = Len(returned) + 1
        BY <1>1, <3>1, <3>5, <3>7, <4>1, <4>3 DEF LogsLeft
      <4>4. QED
        BY <3>5, <4>2, <4>3
    <3>8. QED
      BY <3>6, <3>7 DEF LogsLeft, LogsEarliestFirst
  <2>4. QED
    BY <2>2, <2>3
<1>7. ASSUME RTDBG_Stop \/ ExtractDebugData \/ Restart
      PROVE  LogsLeft' /\ LogsEarliestFirst'
  <2>1. Cached' = {} /\ InFifos' = InFifos /\ returned' = returned
    BY <1>7, ClearEffect
  <2>2. QED
    BY <1>2, <2>1
<1>8. QED
  BY <1>3, <1>4, <1>5, <1>6, <1>7, OtherStepsOfLogs

-----------------------------------------------------------------------------
(***************************************************************************)
(* The merge of the traces                                                 *)
(***************************************************************************)
LEMMA OtherStepsOfTraces ==
  ASSUME TypeInv, [Next]_vars
  PROVE  \/ UNCHANGED <<traces, grp_trace_res_, printed>>
         \/ \E t \in Adders, g \in Groups : Put(t, g) /\ pc[t] # "log"
         \/ GetTraceEntryGroup \/ GetTraceEntryReturn
         \/ ExtractDebugData \/ Restart
<1> DEFINE Same == UNCHANGED <<traces, grp_trace_res_, printed>>
<1>1. ASSUME NEW t \in Adders, NEW what, AddCall(t, what)
      PROVE  Same
  BY <1>1 DEF AddCall, queues, tables, history
<1>2. ASSUME NEW t \in Adders, Stamp(t)
      PROVE  Same
  BY <1>2 DEF Stamp, queues, tables
<1>3. ASSUME NEW t \in Adders, NEW g \in Groups, Put(t, g), pc[t] = "log"
      PROVE  Same
  BY <1>3 DEF Put, tables
<1>4. GetLogRefill \/ GetLogCached \/ GetLogReturn \/ GetLogDies \/ GetLogNone => Same
  BY DEF GetLogRefill, GetLogCached, GetLogReturn, GetLogDies, GetLogNone,
         queues, tables, history
<1>5. RTDBG_Start \/ RTDBG_Stop \/ GetTraceEntryCall \/ GetTraceEntryNone \/ UNCHANGED vars => Same
  BY DEF RTDBG_Start, RTDBG_Stop, GetTraceEntryCall, GetTraceEntryNone, vars,
         queues, tables, history
<1>6. ASSUME NEW m, NEW null, Monitor(m, null)
      PROVE  Same
  BY <1>6 DEF Monitor, queues, tables
<1> HIDE DEF Same
<1>7. \/ Same
      \/ \E t \in Adders, g \in Groups : Put(t, g) /\ pc[t] # "log"
      \/ GetTraceEntryGroup \/ GetTraceEntryReturn
      \/ ExtractDebugData \/ Restart
  BY <1>1, <1>2, <1>3, <1>4, <1>5, <1>6, StepCases
<1>8. QED
  BY <1>7 DEF Same

LEMMA PutTraceEffect ==
  ASSUME TypeInv, NEW t \in Adders, NEW g \in Groups, Put(t, g), pc[t] # "log"
  PROVE  /\ traces'[g] = traces[g] \cup {linux_time[t]}
         /\ \A h \in Groups : h # g => traces'[h] = traces[h]
         /\ linux_time[t] # 0 /\ linux_time[t] \in Pending
         /\ Pending' \subseteq Pending
         /\ UNCHANGED <<grp_trace_res_, printed, job, ind, min_index, min_time, clock, slow,
                        active_, extracts, present, logs, grp_logs_last>>
<1>1. /\ traces' = [traces EXCEPT ![g] = traces[g] \cup {linux_time[t]}]
      /\ linux_time' = [linux_time EXCEPT ![t] = 0]
      /\ linux_time[t] # 0
      /\ UNCHANGED <<grp_trace_res_, printed, job, ind, min_index, min_time, clock, slow,
                     active_, extracts, present, logs, grp_logs_last>>
  BY DEF Put, tables, callVars, bounds
<1>2. Pending' \subseteq Pending /\ linux_time[t] \in Pending
  BY <1>1, ClockType DEF Pending
<1>3. QED
  BY <1>1, <1>2, ClockType

LEMMA GroupEffect ==
  ASSUME TypeInv, GetTraceEntryGroup
  PROVE  /\ ind \in Groups /\ ind' = ind + 1 /\ ~ScanEnds /\ job = "scan"
         /\ \A h \in Groups : h < ind' <=> h < ind \/ h = ind
         /\ \A h \in Groups : h # ind =>
              traces'[h] = traces[h] /\ grp_trace_res_'[h] = grp_trace_res_[h]
         /\ \/ /\ grp_trace_res_'[ind].status = "TRACE_EMPTY_DATA"
               /\ UNCHANGED <<traces, min_time, min_index>>
               /\ ~Held(ind)
               /\ traces[ind] = {} \/ ~Open(ind)
            \/ /\ grp_trace_res_'[ind].status = "DATA_IND"
               /\ Consider(ind, grp_trace_res_'[ind].lin_time)
               /\ grp_trace_res_'[ind].lin_time \in Stamps \cup {0}
               /\ \/ Held(ind) /\ UNCHANGED <<traces, grp_trace_res_>>
                  \/ /\ Open(ind) /\ ~Held(ind)
                     /\ grp_trace_res_'[ind].lin_time \in traces[ind]
                     /\ traces'[ind] = traces[ind] \ {grp_trace_res_'[ind].lin_time}
                     /\ \A y \in traces[ind] : grp_trace_res_'[ind].lin_time <= y
<1>1. /\ ind \in Groups /\ ind' = ind + 1 /\ ~ScanEnds /\ job = "scan"
      /\ \A h \in Groups : h < ind' <=> h < ind \/ h = ind
  BY ScanTypes DEF GetTraceEntryGroup
<1>2. CASE GivenUp
  BY <1>1, <1>2 DEF GivenUp, Open, Held
<1>3. CASE LookedAt
  <2>1. grp_trace_res_[ind].lin_time \in Stamps \cup {0}
    BY <1>1 DEF TypeInv, TypeOK
  <2>2. QED
    BY <1>1, <1>3, <2>1 DEF LookedAt, Held
<1>4. CASE FoundEmpty
  <2>1. /\ grp_trace_res_'[ind].status = "TRACE_EMPTY_DATA"
        /\ \A h \in Groups : h # ind => grp_trace_res_'[h] = grp_trace_res_[h]
    BY <1>1, <1>4 DEF FoundEmpty, TypeInv, TypeOK
  <2>2. QED
    BY <1>1, <1>4, <2>1 DEF FoundEmpty
<1>5. CASE \E x \in Stamps : Taken(x)
  <2>1. PICK x \in Stamps : Taken(x)
    BY <1>5
  <2>2. /\ grp_trace_res_'[ind] = [status |-> "DATA_IND", lin_time |-> x]
        /\ \A h \in Groups : h # ind => grp_trace_res_'[h] = grp_trace_res_[h]
    BY <1>1, <2>1 DEF Taken, TypeInv, TypeOK
  <2>3. /\ traces'[ind] = traces[ind] \ {x}
        /\ \A h \in Groups : h # ind => traces'[h] = traces[h]
    BY <1>1, <2>1 DEF Taken, TypeInv, TypeOK
  <2>4. Open(ind) /\ ~Held(ind) /\ x \in traces[ind] /\ Consider(ind, x)
        /\ \A y \in traces[ind] : x <= y
    BY <2>1 DEF Taken
  <2>5. grp_trace_res_'[ind].lin_time = x /\ grp_trace_res_'[ind].status = "DATA_IND"
    BY <2>2
  <2>6. QED
    BY <1>1, <2>2, <2>3, <2>4, <2>5
<1>6. QED
  BY <1>2, <1>3, <1>4, <1>5, GroupCases

LEMMA PrintEffect ==
  ASSUME TypeInv, GetTraceEntryReturn
  PROVE  /\ min_index \in Groups /\ job = "scan" /\ job' = "traces"
         /\ \A g \in Groups : g < ind
         /\ grp_trace_res_'[min_index].status = "NO_DATA_IND"
         /\ \A h \in Groups : h # min_index => grp_trace_res_'[h] = grp_trace_res_[h]
         /\ UNCHANGED <<traces, slow, clock, present, active_, extracts>>
         /\ Len(printed) \in Nat
         /\ DOMAIN printed = 1 .. Len(printed) /\ DOMAIN printed' = 1 .. Len(printed) + 1
         /\ \A i \in DOMAIN printed : printed'[i] = printed[i]
         /\ printed'[Len(printed) + 1] = grp_trace_res_[min_index].lin_time
         /\ Range(printed') = Range(printed) \cup {grp_trace_res_[min_index].lin_time}
<1>1. /\ min_index \in Groups /\ job = "scan" /\ job' = "traces"
      /\ UNCHANGED <<traces, slow, clock, present, active_, extracts>>
  BY DEF GetTraceEntryReturn, TypeInv, TypeOK, queues, bounds
<1>2. \A g \in Groups : g < ind
  BY Ranges DEF GetTraceEntryReturn, ScanEnds, TypeInv, TypeOK, Groups
<1>3. /\ grp_trace_res_'[min_index].status = "NO_DATA_IND"
      /\ \A h \in Groups : h # min_index => grp_trace_res_'[h] = grp_trace_res_[h]
  BY <1>1 DEF GetTraceEntryReturn, TypeInv, TypeOK
<1> DEFINE x == grp_trace_res_[min_index].lin_time
<1>4. x \in Stamps \cup {0}
  BY <1>1 DEF TypeInv, TypeOK
<1>5. printed' = Append(printed, x)
  BY DEF GetTraceEntryReturn
<1> HIDE DEF x
<1>6. /\ Len(printed) \in Nat
      /\ DOMAIN printed = 1 .. Len(printed) /\ DOMAIN printed' = 1 .. Len(printed) + 1
      /\ \A i \in DOMAIN printed : printed'[i] = printed[i]
      /\ printed'[Len(printed) + 1] = x
      /\ Range(printed') = Range(printed) \cup {x}
  BY <1>4, <1>5, Appended DEF TypeInv
<1>7. QED
  BY <1>1, <1>2, <1>3, <1>6 DEF x

LEMMA TraceScanStep ==
  ASSUME TypeInv, Clocked, TraceScan, [Next]_vars
  PROVE  TraceScan'
<1>1. slow \subseteq slow'
  BY SlowGrows
<1>2. ASSUME UNCHANGED <<traces, grp_trace_res_>>, job' # "scan"
      PROVE  TraceScan'
  BY <1>1, <1>2 DEF TraceScan, Held
<1>3. ASSUME UNCHANGED <<traces, grp_trace_res_, ind, min_index, min_time>>, job' = "scan" => job = "scan",
             \A x \in Pending' : x < min_time => x \in Pending
      PROVE  TraceScan'
  BY <1>1, <1>3 DEF TraceScan, Held, Open
<1>4. ASSUME NEW t \in Adders, NEW what \in limit.kinds, AddCall(t, what)
      PROVE  TraceScan'
  BY <1>3, <1>4 DEF AddCall, Pending, queues, tables, callVars
<1>5. ASSUME NEW t \in Adders, Stamp(t)
      PROVE  TraceScan'
  <2>1. /\ linux_time' = [linux_time EXCEPT ![t] = clock]
        /\ UNCHANGED <<traces, grp_trace_res_, ind, min_index, min_time, job>>
    BY <1>5 DEF Stamp, queues, tables, callVars
  <2>2. \A x \in Pending' : x = clock \/ x \in Pending
    BY <2>1, ClockType DEF Pending
  <2>3. ~(clock < min_time)
    <3>1. clock \in Nat /\ min_time \in Nat /\ min_time <= clock
      BY ClockType
    <3>2. QED
      BY <3>1
  <2>4. QED
    BY <1>3, <2>1, <2>2, <2>3
<1>6. ASSUME NEW t \in Adders, NEW g \in Groups, Put(t, g), pc[t] = "log"
      PROVE  TraceScan'
  <2>1. /\ linux_time' = [linux_time EXCEPT ![t] = 0]
        /\ UNCHANGED <<traces, grp_trace_res_, ind, min_index, min_time, job>>
    BY <1>6 DEF Put, tables, callVars
  <2>2. Pending' \subseteq Pending
    BY <2>1, ClockType DEF Pending
  <2>3. QED
    BY <1>3, <2>1, <2>2
<1>7. ASSUME NEW t \in Adders, NEW g \in Groups, Put(t, g), pc[t] # "log"
      PROVE  TraceScan'
  <2> DEFINE x == linux_time[t]
  <2>1. /\ \A h \in Groups : \A y \in traces'[h] : y = x \/ y \in traces[h]
        /\ x # 0 /\ x \in Pending /\ Pending' \subseteq Pending
        /\ UNCHANGED <<grp_trace_res_, job, ind, min_index, min_time>>
    BY <1>7, PutTraceEffect
  <2>2. \A y \in Nat : y < clock /\ x < y => x \in slow
    BY <2>1, LateIsSlow
  <2>3. \A h \in Groups : grp_trace_res_[h].lin_time \in Nat /\ grp_trace_res_[h].lin_time < clock
    BY ClockType DEF Clocked
  <2> HIDE DEF x
  <2>4. \A h \in Groups : Held(h)' =>
          \A y \in traces'[h] : y < grp_trace_res_'[h].lin_time => y \in slow'
    BY <1>1, <2>1, <2>2, <2>3 DEF TraceScan, Held
  <2>5. ASSUME job = "scan", NEW h \in Groups, h < ind, Open(h)
        PROVE  /\ Held(h) /\ min_time <= grp_trace_res_[h].lin_time
               /\ \A y \in traces'[h] : y < min_time => y \in slow'
    BY <1>1, <2>1, <2>5 DEF TraceScan
  <2>6. job = "scan" => /\ min_index # -1 => /\ grp_trace_res_[min_index].lin_time = min_time
                                             /\ Held(min_index)
                        /\ \A y \in Pending' : y < min_time => y \in slow'
    BY <1>1, <2>1 DEF TraceScan
  <2>7. QED
    BY <2>1, <2>4, <2>5, <2>6 DEF TraceScan, Held, Open
<1>8. GetLogRefill \/ GetLogCached \/ GetLogReturn \/ GetLogDies \/ GetLogNone => TraceScan'
  BY <1>2
  DEF GetLogRefill, GetLogCached, GetLogReturn, GetLogDies, GetLogNone, queues,
      tables
<1>9. GetTraceEntryNone \/ RTDBG_Stop \/ ExtractDebugData => TraceScan'
  BY <1>2 DEF GetTraceEntryNone, RTDBG_Stop, ExtractDebugData, queues, tables
<1>10. ASSUME RTDBG_Start \/ UNCHANGED vars
       PROVE  TraceScan'
  <2>1. UNCHANGED <<traces, grp_trace_res_, ind, min_index, min_time, job, linux_time>>
    BY <1>10 DEF RTDBG_Start, vars, queues, tables, callVars, appVars
  <2>2. QED
    BY <1>3, <2>1 DEF Pending
<1>11. ASSUME GetTraceEntryCall
       PROVE  TraceScan'
  <2>1. UNCHANGED <<traces, grp_trace_res_, linux_time>>
    BY <1>11 DEF GetTraceEntryCall, queues, tables, appVars
  <2>2. CASE active_
    BY <1>2, <1>11, <2>1, <2>2 DEF GetTraceEntryCall
  <2>3. CASE ~active_
    <3>1. min_index' = -1 /\ ind' = 0 /\ slow' = slow \cup Pending /\ Pending' = Pending
      BY <1>11, <2>1, <2>3 DEF GetTraceEntryCall, BeginScan, Pending
    <3>2. \A g \in Groups : ~(g < ind')
      BY <3>1, Ranges DEF TypeInv, TypeOK
    <3>3. QED
      BY <2>1, <3>1, <3>2 DEF TraceScan, Held
  <2>4. QED
    BY <2>2, <2>3
<1>12. ASSUME GetTraceEntryGroup
       PROVE  TraceScan'
  <2> DEFINE time == grp_trace_res_'[ind].lin_time
  <2>1. /\ ind \in Groups /\ ind' = ind + 1 /\ ~ScanEnds /\ job = "scan"
        /\ \A h \in Groups : h < ind' <=> h < ind \/ h = ind
        /\ \A h \in Groups : h # ind =>
             traces'[h] = traces[h] /\ grp_trace_res_'[h] = grp_trace_res_[h]
    BY <1>12, GroupEffect
  <2>2. Pending' = Pending /\ job' = job
    BY <1>12 DEF GetTraceEntryGroup, appVars, Pending
  <2>3. Pending \subseteq Nat /\ min_time \in Nat /\ \A h \in Groups : traces[h] \subseteq Nat
    BY ClockType DEF Pending
  <2>4. ind \in Nat /\ min_index # ind
    <3>1. ind \in Nat /\ -1 # ind
      BY <2>1, ScanTypes
    <3>2. min_index < ind \/ min_index = -1
      BY DEF TypeInv
    <3>3. QED
      BY <3>1, <3>2
  <2>5. CASE /\ grp_trace_res_'[ind].status = "TRACE_EMPTY_DATA"
             /\ UNCHANGED <<traces, min_time, min_index>>
             /\ ~Held(ind)
    <3>1. \A g \in Groups : Held(g)' =>
            \A x \in traces'[g] : x < grp_trace_res_'[g].lin_time => x \in slow'
      BY <1>1, <2>1, <2>5 DEF TraceScan, Held
    <3>2. min_index' # -1 => /\ grp_trace_res_'[min_index'].lin_time = min_time'
                             /\ grp_trace_res_'[min_index'].status = "DATA_IND"
      <4>1. min_index # -1 => min_index \in Groups
        BY DEF TypeInv, TypeOK
      <4>2. QED
        BY <2>1, <2>4, <2>5, <4>1 DEF TraceScan, Held
    <3>3. \A x \in Pending : x < min_time => x \in slow'
      BY <1>1, <2>1 DEF TraceScan
    <3>4. \A g \in Groups : g < ind' /\ Open(g)' =>
            /\ Held(g)' /\ min_time <= grp_trace_res_'[g].lin_time
            /\ \A x \in traces'[g] : x < min_time => x \in slow'
      BY <1>1, <2>1, <2>5 DEF TraceScan, Held, Open
    <3>5. QED
      BY <2>2, <2>5, <3>1, <3>2, <3>3, <3>4 DEF TraceScan, Held
  <2>6. CASE /\ grp_trace_res_'[ind].status = "DATA_IND"
             /\ Consider(ind, grp_trace_res_'[ind].lin_time)
             /\ grp_trace_res_'[ind].lin_time \in Stamps \cup {0}
             /\ \/ Held(ind) /\ UNCHANGED <<traces, grp_trace_res_>>
                \/ /\ Open(ind) /\ ~Held(ind)
                   /\ grp_trace_res_'[ind].lin_time \in traces[ind]
                   /\ traces'[ind] = traces[ind] \ {grp_trace_res_'[ind].lin_time}
                   /\ \A y \in traces[ind] : grp_trace_res_'[ind].lin_time <= y
    <3>1. /\ min_time' <= time /\ min_time' <= min_time
          /\ \/ min_index' = ind /\ min_time' = time
             \/ min_index' = min_index /\ min_time' = min_time
          /\ min_time' \in Nat /\ time \in Nat
      <4>1. time \in Stamps \cup {0} /\ Stamps \subseteq Nat /\ limit.entries \in Nat
        BY <2>6, ClockType, Ranges DEF TypeInv, TypeOK
      <4>2. /\ min_time' <= time /\ min_time' <= min_time
            /\ \/ min_index' = ind /\ min_time' = time
               \/ min_index' = min_index /\ min_time' = min_time
            /\ min_time' \in 0 .. limit.entries + 1
        BY <2>1, <2>6, <4>1, ConsiderTypes
      <4>3. Stamps \cup {0} \subseteq Nat /\ 0 .. limit.entries + 1 \subseteq Nat
        BY <4>1
      <4>4. time \in Nat /\ min_time' \in Nat
        BY <4>1, <4>2, <4>3
      <4>5. QED
        BY <4>2, <4>4
    <3>2. /\ traces'[ind] \subseteq traces[ind]
          /\ \A x \in traces'[ind] : x < time => x \in slow'
      <4>1. CASE Held(ind) /\ UNCHANGED <<traces, grp_trace_res_>>
        BY <1>1, <2>1, <4>1 DEF TraceScan
      <4>2. CASE /\ traces'[ind] = traces[ind] \ {time}
                 /\ \A y \in traces[ind] : time <= y
        <5>1. \A y \in traces'[ind] : ~(y < time)
          BY <2>1, <2>3, <3>1, <4>2
        <5>2. QED
          BY <4>2, <5>1
      <4>3. QED
        BY <2>6, <4>1, <4>2
    <3>3. \A h \in Groups : h # ind =>
            traces'[h] = traces[h] /\ grp_trace_res_'[h] = grp_trace_res_[h]
      BY <2>1
    <3>4. grp_trace_res_'[ind].status = "DATA_IND" /\ grp_trace_res_'[ind].lin_time = time
      BY <2>6
    <3> HIDE DEF time
    <3>5. \A g \in Groups : Held(g)' =>
            \A x \in traces'[g] : x < grp_trace_res_'[g].lin_time => x \in slow'
      BY <1>1, <3>2, <3>3, <3>4 DEF TraceScan, Held
    <3>6. min_index' # -1 => /\ grp_trace_res_'[min_index'].lin_time = min_time'
                             /\ grp_trace_res_'[min_index'].status = "DATA_IND"
      <4>1. CASE min_index' = ind /\ min_time' = time
        BY <3>4, <4>1
      <4>2. CASE min_index' = min_index /\ min_time' = min_time
        <5>1. min_index # -1 => min_index \in Groups
          BY DEF TypeInv, TypeOK
        <5>2. QED
          BY <2>1, <2>4, <3>3, <4>2, <5>1 DEF TraceScan, Held
      <4>3. QED
        BY <3>1, <4>1, <4>2
    <3>7. \A x \in Nat : x < min_time' => x < min_time
      BY <2>3, <3>1
    <3>8. \A x \in Pending : x < min_time' => x \in slow'
      BY <1>1, <2>1, <2>3, <3>7 DEF TraceScan
    <3>9. ASSUME NEW g \in Groups, g < ind', Open(g)'
          PROVE  /\ Held(g)' /\ min_time' <= grp_trace_res_'[g].lin_time
                 /\ \A x \in traces'[g] : x < min_time' => x \in slow'
      <4>1. CASE g = ind
        <5>1. \A x \in traces'[ind] : x < min_time' => x < time
          BY <2>1, <2>3, <3>1, <3>2
        <5>2. QED
          BY <3>1, <3>2, <3>4, <4>1, <5>1 DEF Held
      <4>2. CASE g # ind
        <5>1. traces'[g] = traces[g] /\ grp_trace_res_'[g] = grp_trace_res_[g]
          BY <3>3, <4>2
        <5>2. g < ind /\ Open(g)
          BY <2>1, <3>9, <4>2, <5>1 DEF Open
        <5>3. /\ Held(g) /\ min_time <= grp_trace_res_[g].lin_time
              /\ \A x \in traces[g] : x < min_time => x \in slow
          BY <2>1, <5>2 DEF TraceScan
        <5>4. grp_trace_res_[g].lin_time \in Nat
          BY ClockType
        <5>5. min_time' <= grp_trace_res_[g].lin_time
          BY <2>3, <3>1, <5>3, <5>4
        <5>6. QED
          BY <1>1, <2>3, <3>7, <5>1, <5>3, <5>5 DEF Held
      <4>3. QED
        BY <4>1, <4>2
    <3>10. QED
      BY <2>2, <3>5, <3>6, <3>8, <3>9 DEF TraceScan, Held
  <2>7. QED
    BY <1>12, <2>5, <2>6, GroupEffect
<1>13. ASSUME GetTraceEntryReturn
       PROVE  TraceScan'
  <2>1. /\ job' = "traces" /\ traces' = traces
        /\ grp_trace_res_'[min_index].status = "NO_DATA_IND"
        /\ \A h \in Groups : h # min_index => grp_trace_res_'[h] = grp_trace_res_[h]
    BY <1>13, PrintEffect
  <2>2. QED
    BY <1>1, <2>1 DEF TraceScan, Held
<1>14. ASSUME Restart
       PROVE  TraceScan'
  <2>1. job' = "idle" /\ traces' = traces /\ \A g \in Groups : grp_trace_res_'[g].lin_time = 0
    BY <1>14 DEF Restart, NoTraces, queues
  <2>2. \A g \in Groups : \A x \in traces[g] : ~(x < 0)
    BY ClockType
  <2>3. QED
    BY <2>1, <2>2 DEF TraceScan
<1>15. ASSUME NEW m \in SUBSET Groups, NEW null \in BOOLEAN, Monitor(m, null)
       PROVE  TraceScan'
  BY <1>2, <1>15 DEF Monitor, queues, tables
<1>16. QED
  BY <1>4, <1>5, <1>6, <1>7, <1>8, <1>9, <1>10, <1>11, <1>12, <1>13, <1>14,
     <1>15, StepCases

LEMMA TracesLeftStep ==
  ASSUME TypeInv, Clocked, TraceScan, TracesLeft, TracesEarliestFirst, [Next]_vars
  PROVE  TracesLeft' /\ TracesEarliestFirst'
<1>1. slow \subseteq slow' /\ \A y \in Nat : y < clock => y < clock'
  <2>1. clock' = clock \/ clock' = clock + 1
    <3>1. \A t \in Adders : /\ \A what \in limit.kinds : AddCall(t, what) => clock' = clock
                            /\ Stamp(t) => clock' = clock + 1
                            /\ \A g \in Groups : Put(t, g) => clock' = clock
      BY DEF AddCall, Stamp, Put
    <3>2. GetLogRefill \/ GetLogCached \/ GetLogReturn \/ GetLogDies \/ GetLogNone => clock' = clock
      BY DEF GetLogRefill, GetLogCached, GetLogReturn, GetLogDies, GetLogNone
    <3>3. GetTraceEntryCall \/ GetTraceEntryGroup \/ GetTraceEntryReturn \/ GetTraceEntryNone
            => clock' = clock
      BY DEF GetTraceEntryCall, GetTraceEntryGroup, GetTraceEntryReturn,
             GetTraceEntryNone
    <3>4. RTDBG_Start \/ RTDBG_Stop \/ ExtractDebugData \/ Restart \/ UNCHANGED vars => clock' = clock
      BY DEF RTDBG_Start, RTDBG_Stop, ExtractDebugData, Restart, vars
    <3>5. \A m \in SUBSET Groups, null \in BOOLEAN : Monitor(m, null) => clock' = clock
      BY DEF Monitor
    <3>6. QED
      BY <3>1, <3>2, <3>3, <3>4, <3>5, StepCases
  <2>2. clock \in Nat
    BY ClockType
  <2>3. QED
    BY <2>1, <2>2, SlowGrows
<1>2. \A i \in DOMAIN printed : printed[i] \in Nat
  <2>1. ASSUME NEW i \in DOMAIN printed
        PROVE  printed[i] \in Nat
    <3>1. printed \in Seq(Stamps \cup {0}) /\ Stamps \cup {0} \subseteq Nat
      BY ClockType DEF TypeInv
    <3>2. i \in 1 .. Len(printed)
      BY <3>1, LenProperties
    <3>3. printed[i] \in Stamps \cup {0}
      BY <3>1, <3>2, ElementOfSeq
    <3>4. QED
      BY <3>1, <3>3
  <2>2. QED
    BY <2>1
<1>3. ASSUME printed' = printed
      PROVE  TracesEarliestFirst' /\ \A i \in DOMAIN printed' : printed'[i] < clock'
  BY <1>1, <1>2, <1>3 DEF TracesEarliestFirst, TracesLeft
<1>4. ASSUME printed' = << >>
      PROVE  TracesLeft' /\ TracesEarliestFirst'
  <2>1. DOMAIN printed' = {}
    BY <1>4
  <2>2. QED
    BY <2>1 DEF TracesLeft, TracesEarliestFirst
<1>5. ASSUME UNCHANGED <<traces, grp_trace_res_, printed>>
      PROVE  TracesLeft' /\ TracesEarliestFirst'
  BY <1>1, <1>3, <1>5 DEF TracesLeft, Held, Open
<1>6. ASSUME NEW t \in Adders, NEW g \in Groups, Put(t, g), pc[t] # "log"
      PROVE  TracesLeft' /\ TracesEarliestFirst'
  <2> DEFINE x == linux_time[t]
  <2>1. /\ \A h \in Groups : \A y \in traces'[h] : y = x \/ y \in traces[h]
        /\ x # 0
        /\ UNCHANGED <<grp_trace_res_, printed>>
    BY <1>6, PutTraceEffect
  <2>2. \A y \in Nat : y < clock /\ x < y => x \in slow'
    BY <1>1, <2>1, LateIsSlow
  <2> HIDE DEF x
  <2>3. ASSUME NEW i \in DOMAIN printed, NEW h \in Groups
        PROVE  /\ Held(h)' /\ 0 # grp_trace_res_'[h].lin_time
                    /\ grp_trace_res_'[h].lin_time < printed'[i]
                    => grp_trace_res_'[h].lin_time \in slow'
               /\ Open(h)' => \A y \in traces'[h] : y < printed'[i] => y \in slow'
    <3>1. printed[i] \in Nat /\ printed[i] < clock
      BY <1>2 DEF TracesLeft
    <3>2. QED
      BY <1>1, <2>1, <2>2, <3>1 DEF TracesLeft, Held, Open
  <2>4. QED
    BY <1>3, <2>1, <2>3 DEF TracesLeft
<1>7. ASSUME GetTraceEntryGroup
      PROVE  TracesLeft' /\ TracesEarliestFirst'
  <2>1. printed' = printed
    BY <1>7 DEF GetTraceEntryGroup, history
  <2>2. ASSUME NEW i \in DOMAIN printed, NEW h \in Groups
        PROVE  /\ Held(h)' /\ 0 # grp_trace_res_'[h].lin_time
                    /\ grp_trace_res_'[h].lin_time < printed'[i]
                    => grp_trace_res_'[h].lin_time \in slow'
               /\ Open(h)' => \A y \in traces'[h] : y < printed'[i] => y \in slow'
    <3>1. CASE h # ind
      <4>1. traces'[h] = traces[h] /\ grp_trace_res_'[h] = grp_trace_res_[h]
        BY <1>7, <3>1, GroupEffect
      <4>2. QED
        BY <1>1, <2>1, <4>1 DEF TracesLeft, Held, Open
    <3>2. CASE h = ind
      <4>1. CASE grp_trace_res_'[ind].status = "TRACE_EMPTY_DATA"
        BY <3>2, <4>1 DEF Held, Open
      <4>2. CASE Held(ind) /\ UNCHANGED <<traces, grp_trace_res_>>
        BY <1>1, <2>1, <4>2 DEF TracesLeft, Held, Open
      <4>3. CASE /\ Open(ind)
                 /\ grp_trace_res_'[ind].lin_time \in traces[ind]
                 /\ traces'[ind] = traces[ind] \ {grp_trace_res_'[ind].lin_time}
        BY <1>1, <2>1, <3>2, <4>3 DEF TracesLeft
      <4>4. QED
        BY <1>7, <4>1, <4>2, <4>3, GroupEffect
    <3>3. QED
      BY <3>1, <3>2
  <2>3. QED
    BY <1>3, <2>1, <2>2 DEF TracesLeft
<1>8. ASSUME GetTraceEntryReturn
      PROVE  TracesLeft' /\ TracesEarliestFirst'
  <2> DEFINE x == grp_trace_res_[min_index].lin_time
  <2>1. /\ min_index \in Groups /\ job = "scan"
        /\ \A g \in Groups : g < ind
        /\ grp_trace_res_'[min_index].status = "NO_DATA_IND"
        /\ \A h \in Groups : h # min_index => grp_trace_res_'[h] = grp_trace_res_[h]
        /\ UNCHANGED <<traces, slow, clock>>
        /\ Len(printed) \in Nat
        /\ DOMAIN printed = 1 .. Len(printed) /\ DOMAIN printed' = 1 .. Len(printed) + 1
        /\ \A i \in DOMAIN printed : printed'[i] = printed[i]
        /\ printed'[Len(printed) + 1] = x
    BY <1>8, PrintEffect
  <2>2. x = min_time /\ Held(min_index) /\ x < clock /\ x \in Nat
    <3>1. min_index # -1
      BY <2>1, Ranges DEF TypeInv, TypeOK
    <3>2. QED
      BY <2>1, <3>1, ClockType DEF TraceScan, Clocked
  <2> HIDE DEF x
  <2>3. \A i \in DOMAIN printed' : i \in DOMAIN printed \/ i = Len(printed) + 1
    BY <2>1
  <2>4. \A i \in DOMAIN printed' : printed'[i] < clock'
    BY <2>1, <2>2, <2>3 DEF TracesLeft
  <2>5. ASSUME NEW i \in DOMAIN printed', NEW h \in Groups
        PROVE  /\ Held(h)' /\ 0 # grp_trace_res_'[h].lin_time
                    /\ grp_trace_res_'[h].lin_time < printed'[i]
                    => grp_trace_res_'[h].lin_time \in slow'
               /\ Open(h)' => \A y \in traces'[h] : y < printed'[i] => y \in slow'
    <3>1. Held(h)' => Held(h) /\ grp_trace_res_'[h] = grp_trace_res_[h]
      BY <2>1 DEF Held
    <3>2. Open(h)' => Open(h)
      <4>1. CASE h = min_index
        BY <2>2, <4>1 DEF Held, Open
      <4>2. CASE h # min_index
        BY <2>1, <4>2 DEF Open
      <4>3. QED
        BY <4>1, <4>2
    <3>3. CASE i \in DOMAIN printed
      BY <2>1, <3>1, <3>2, <3>3 DEF TracesLeft
    <3>4. CASE i = Len(printed) + 1
      <4>1. Open(h) => /\ Held(h) /\ min_time <= grp_trace_res_[h].lin_time
                       /\ \A y \in traces[h] : y < min_time => y \in slow
        BY <2>1 DEF TraceScan
      <4>2. Held(h) => Open(h)
        BY DEF Held, Open
      <4>3. Held(h) => ~(grp_trace_res_[h].lin_time < min_time)
        <5>1. min_time \in Nat /\ grp_trace_res_[h].lin_time \in Nat
          BY ClockType
        <5>2. QED
          BY <4>1, <4>2, <5>1
      <4>4. QED
        BY <2>1, <2>2, <3>1, <3>2, <3>4, <4>1, <4>3
    <3>5. QED
      BY <2>3, <3>3, <3>4
  <2>6. ASSUME NEW i \in DOMAIN printed', NEW j \in DOMAIN printed',
               i < j, 0 # printed'[j], printed'[j] < printed'[i]
        PROVE  printed'[j] \in slow'
    <3>1. i \in DOMAIN printed /\ printed'[i] = printed[i]
      BY <2>1, <2>6
    <3>2. CASE j \in DOMAIN printed
      BY <2>1, <2>6, <3>1, <3>2 DEF TracesEarliestFirst
    <3>3. CASE j = Len(printed) + 1
      BY <2>1, <2>2, <2>6, <3>1, <3>3 DEF TracesLeft, x
    <3>4. QED
      BY <2>3, <3>2, <3>3
  <2>7. QED
    BY <2>4, <2>5, <2>6 DEF TracesLeft, TracesEarliestFirst
<1>9. ASSUME ExtractDebugData \/ Restart
      PROVE  TracesLeft' /\ TracesEarliestFirst'
  BY <1>4, <1>9 DEF ExtractDebugData, Restart
<1>10. QED
  BY <1>5, <1>6, <1>7, <1>8, <1>9, OtherStepsOfTraces

-----------------------------------------------------------------------------
(***************************************************************************)
(* The report of an extraction                                             *)
(***************************************************************************)
LEMMA PresentLogsKept ==
  ASSUME TypeInv, Clocked, PresentLogs,
         UNCHANGED <<logs, grp_logs_last, logged, returned, present>>,
         Extracting' => Extracting,
         \/ UNCHANGED <<job, ind, min_index, min_time>>
         \/ job' # "logs"
         \/ ind' = 0 /\ min_time' = clock
  PROVE  PresentLogs'
<1>1. UNCHANGED <<InFifos, Cached, Returned>>
  BY DEF InFifos, Cached, Returned
<1>2. SUFFICES ASSUME Extracting
               PROVE  PresentLogs'
  BY DEF PresentLogs
<1>3. /\ present.logs \subseteq InFifos \cup Cached \cup Returned
      /\ present.logs \subseteq logged
      /\ \A g \in Groups :
           /\ \A i, j \in DOMAIN logs[g] :
                i < j /\ logs[g][j] \in present.logs => logs[g][i] \in present.logs
           /\ grp_logs_last[g].valid /\ grp_logs_last[g].linux_time \notin present.logs =>
                Range(logs[g]) \cap present.logs = {}
  BY <1>2 DEF PresentLogs
<1>4. ASSUME job' = "logs", min_index' = -1
      PROVE  /\ \A x \in present.logs : x < min_time'
             /\ \A g \in Groups : g < ind' =>
                  /\ Range(logs[g]) \cap present.logs = {}
                  /\ grp_logs_last[g].valid => grp_logs_last[g].linux_time \notin present.logs
  <2>1. CASE UNCHANGED <<job, ind, min_index, min_time>>
    BY <1>2, <1>4, <2>1 DEF PresentLogs
  <2>2. CASE ind' = 0 /\ min_time' = clock
    <3>1. \A g \in Groups : ~(g < ind')
      BY <2>2, Ranges DEF TypeInv, TypeOK
    <3>2. QED
      BY <1>3, <2>2, <3>1 DEF Clocked
  <2>3. QED
    BY <1>4, <2>1, <2>2
<1>5. QED
  BY <1>1, <1>3, <1>4 DEF PresentLogs

LEMMA PresentLogsStep ==
  ASSUME TypeInv, Clocked, Placed, LogScan, PresentLogs, [Next]_vars
  PROVE  PresentLogs'
<1>1. ASSUME ~Extracting'
      PROVE  PresentLogs'
  BY <1>1 DEF PresentLogs
<1>2. ASSUME NEW t \in Adders, NEW what \in limit.kinds, AddCall(t, what)
      PROVE  PresentLogs'
  BY <1>2, PresentLogsKept
  DEF AddCall, Extracting, queues, tables, callVars, history
<1>3. ASSUME NEW t \in Adders, Stamp(t)
      PROVE  PresentLogs'
  BY <1>3, PresentLogsKept DEF Stamp, Extracting, queues, tables, callVars
<1>4. ASSUME NEW t \in Adders, NEW g \in Groups, Put(t, g), pc[t] # "log"
      PROVE  PresentLogs'
  BY <1>4, PresentLogsKept DEF Put, Extracting, tables, callVars
<1>5. ASSUME NEW t \in Adders, NEW g \in Groups, Put(t, g), pc[t] = "log"
      PROVE  PresentLogs'
  <2> DEFINE x == linux_time[t]
  <2>1. /\ x \in Stamps
        /\ logs'[g] = Append(logs[g], x)
        /\ \A h \in Groups : h # g => logs'[h] = logs[h]
        /\ Range(logs'[g]) = Range(logs[g]) \cup {x}
        /\ InFifos' = InFifos \cup {x}
        /\ logged' = logged \cup {x}
    BY <1>5, PutLogEffect
  <2>2. /\ UNCHANGED <<grp_logs_last, returned, Cached, Returned, present, job, ind, min_index,
                       min_time>>
        /\ x # 0
    BY <1>5 DEF Put, tables, callVars, Cached, Returned
  <2>3. SUFFICES ASSUME Extracting
                 PROVE  PresentLogs'
    BY <2>2 DEF PresentLogs, Extracting
  <2>4. x \notin present.logs
    BY <2>2, <2>3 DEF Clocked, PresentLogs
  <2> HIDE DEF x
  <2>5. logs[g] \in Seq(Stamps)
    BY ClockType
  <2>6. /\ Len(logs[g]) \in Nat
        /\ DOMAIN logs[g] = 1 .. Len(logs[g]) /\ DOMAIN logs'[g] = 1 .. Len(logs[g]) + 1
        /\ \A i \in DOMAIN logs[g] : logs'[g][i] = logs[g][i]
        /\ logs'[g][Len(logs[g]) + 1] = x
    BY <2>1, <2>5, Appended
  <2>7. ASSUME NEW i \in DOMAIN logs'[g], NEW j \in DOMAIN logs'[g], i < j,
               logs'[g][j] \in present.logs
        PROVE  logs'[g][i] \in present.logs
    <3>1. j # Len(logs[g]) + 1
      BY <2>4, <2>6, <2>7
    <3>2. /\ j \in DOMAIN logs[g] /\ logs'[g][j] = logs[g][j]
          /\ i \in DOMAIN logs[g] /\ logs'[g][i] = logs[g][i]
      BY <2>6, <2>7, <3>1
    <3>3. QED
      BY <2>3, <2>7, <3>2 DEF PresentLogs
  <2>8. \A h \in Groups : \A i, j \in DOMAIN logs'[h] :
          i < j /\ logs'[h][j] \in present.logs => logs'[h][i] \in present.logs
    <3>1. \A h \in Groups : h # g => \A i, j \in DOMAIN logs'[h] :
            i < j /\ logs'[h][j] \in present.logs => logs'[h][i] \in present.logs
      BY <2>1, <2>3 DEF PresentLogs
    <3>2. QED
      BY <2>7, <3>1
  <2>9. \A h \in Groups : Range(logs'[h]) \cap present.logs = Range(logs[h]) \cap present.logs
    BY <2>1, <2>4
  <2>10. \A h \in Groups : grp_logs_last[h].valid /\ grp_logs_last[h].linux_time \notin present.logs =>
           Range(logs'[h]) \cap present.logs = {}
    BY <2>3, <2>9 DEF PresentLogs
  <2>11. /\ present.logs \subseteq InFifos' \cup Cached' \cup Returned'
         /\ present.logs \subseteq logged'
    BY <2>1, <2>2, <2>3 DEF PresentLogs
  <2>12. job = "logs" /\ min_index = -1 =>
           /\ \A y \in present.logs : y < min_time
           /\ \A h \in Groups : h < ind =>
                /\ Range(logs'[h]) \cap present.logs = {}
                /\ grp_logs_last[h].valid => grp_logs_last[h].linux_time \notin present.logs
    BY <2>3, <2>9 DEF PresentLogs
  <2>13. QED
    BY <2>2, <2>8, <2>10, <2>11, <2>12 DEF PresentLogs
<1>6. ASSUME GetLogRefill \/ GetLogCached
      PROVE  PresentLogs'
  <2>1. /\ UNCHANGED <<job, mask, logged, returned, present, Returned>>
        /\ ind \in Groups /\ ind' = ind + 1 /\ ~ScanEnds
        /\ \A h \in Groups : h < ind' <=> h < ind \/ h = ind
    BY <1>6, ScanTypes DEF GetLogRefill, GetLogCached, history, Returned
  <2>2. SUFFICES ASSUME Extracting
                 PROVE  PresentLogs'
    BY <2>1 DEF PresentLogs, Extracting
  <2>3. job = "logs" /\ mask = Groups
    BY <1>6, <2>2
    DEF GetLogRefill, GetLogCached, Extracting, LogScan, GettingLog
  <2>4. /\ present.logs \subseteq InFifos \cup Cached \cup Returned
        /\ present.logs \subseteq logged
        /\ \A g \in Groups :
             /\ \A i, j \in DOMAIN logs[g] :
                  i < j /\ logs[g][j] \in present.logs => logs[g][i] \in present.logs
             /\ grp_logs_last[g].valid /\ grp_logs_last[g].linux_time \notin present.logs =>
                  Range(logs[g]) \cap present.logs = {}
        /\ min_index = -1 =>
             /\ \A x \in present.logs : x < min_time
             /\ \A g \in Groups : g < ind =>
                  /\ Range(logs[g]) \cap present.logs = {}
                  /\ grp_logs_last[g].valid => grp_logs_last[g].linux_time \notin present.logs
    BY <2>2, <2>3 DEF PresentLogs
  <2>5. present.logs \subseteq Nat /\ min_time \in Nat
    BY ClockType DEF TypeInv, TypeOK
  <2>6. ASSUME NEW time \in Stamps \cup {0}, Consider(ind, time), min_index' = -1
        PROVE  min_index = -1 /\ min_time' = min_time /\ time \notin present.logs
    <3>1. /\ \/ min_index' = ind /\ min_time' = time /\ time < min_time
             \/ min_index' = min_index /\ min_time' = min_time /\ min_time <= time
      BY <2>1, <2>6, ConsiderTypes
    <3>2. ind # -1
      BY <2>1, Ranges DEF TypeInv, TypeOK
    <3>3. min_index = -1 /\ min_time' = min_time /\ min_time <= time
      BY <2>6, <3>1, <3>2
    <3>4. time \notin present.logs
      BY <2>4, <2>5, <3>3
    <3>5. QED
      BY <3>3, <3>4
  <2>7. CASE GetLogRefill /\ logs[ind] # << >>
    <3> DEFINE x == Head(logs[ind])
    <3>1. /\ x \in Stamps
          /\ grp_logs_last'[ind] = [valid |-> TRUE, linux_time |-> x]
          /\ logs'[ind] = Tail(logs[ind])
          /\ \A h \in Groups : h # ind =>
               logs'[h] = logs[h] /\ grp_logs_last'[h] = grp_logs_last[h]
          /\ InFifos = InFifos' \cup {x}
          /\ Cached' = Cached \cup {x}
      BY <2>7, RefillEffect
    <3>2. logs[ind] \in Seq(Stamps)
      BY <2>1, ClockType
    <3>3. /\ x = logs[ind][1] /\ 1 \in DOMAIN logs[ind]
          /\ \A i \in DOMAIN Tail(logs[ind]) :
               i \in Nat \ {0} /\ i + 1 \in DOMAIN logs[ind] /\ Tail(logs[ind])[i] = logs[ind][i + 1]
      BY <2>7, <3>2, Beheaded
    <3>4. Consider(ind, x)
      BY <2>7 DEF GetLogRefill
    <3> HIDE DEF x
    <3>5. ASSUME NEW i \in DOMAIN logs'[ind], NEW j \in DOMAIN logs'[ind], i < j,
                 logs'[ind][j] \in present.logs
          PROVE  logs'[ind][i] \in present.logs
      <4>1. /\ i \in Nat /\ i + 1 \in DOMAIN logs[ind] /\ logs'[ind][i] = logs[ind][i + 1]
            /\ j \in Nat /\ j + 1 \in DOMAIN logs[ind] /\ logs'[ind][j] = logs[ind][j + 1]
        BY <3>1, <3>3
      <4>2. i + 1 < j + 1
        BY <3>5, <4>1
      <4>3. QED
        BY <2>1, <2>4, <3>5, <4>1, <4>2
    <3>6. x \notin present.logs => Range(logs'[ind]) \cap present.logs = {}
      <4>1. SUFFICES ASSUME NEW j \in DOMAIN Tail(logs[ind]), Tail(logs[ind])[j] \in present.logs
                     PROVE  x \in present.logs
        BY <3>1 DEF Range
      <4>2. /\ j \in Nat \ {0} /\ j + 1 \in DOMAIN logs[ind] /\ logs[ind][j + 1] \in present.logs
        BY <3>3, <4>1
      <4>3. 1 < j + 1
        BY <4>2
      <4>4. QED
        BY <2>1, <2>4, <3>3, <4>2, <4>3
    <3>7. present.logs \subseteq InFifos' \cup Cached' \cup Returned
      BY <2>4, <3>1
    <3>8. \A h \in Groups :
            /\ \A i, j \in DOMAIN logs'[h] :
                 i < j /\ logs'[h][j] \in present.logs => logs'[h][i] \in present.logs
            /\ grp_logs_last'[h].valid /\ grp_logs_last'[h].linux_time \notin present.logs =>
                 Range(logs'[h]) \cap present.logs = {}
      <4>1. ASSUME NEW h \in Groups, h # ind
            PROVE  /\ \A i, j \in DOMAIN logs'[h] :
                        i < j /\ logs'[h][j] \in present.logs => logs'[h][i] \in present.logs
                   /\ grp_logs_last'[h].valid /\ grp_logs_last'[h].linux_time \notin present.logs =>
                        Range(logs'[h]) \cap present.logs = {}
        BY <2>4, <3>1, <4>1
      <4>2. grp_logs_last'[ind].linux_time = x
        BY <3>1
      <4>3. QED
        BY <3>5, <3>6, <4>1, <4>2
    <3>9. min_index' = -1 =>
            /\ \A y \in present.logs : y < min_time'
            /\ \A g \in Groups : g < ind' =>
                 /\ Range(logs'[g]) \cap present.logs = {}
                 /\ grp_logs_last'[g].valid => grp_logs_last'[g].linux_time \notin present.logs
      BY <2>1, <2>4, <2>6, <3>1, <3>4, <3>6
    <3>10. QED
      BY <2>1, <2>4, <3>7, <3>8, <3>9 DEF PresentLogs
  <2>8. CASE GetLogRefill /\ logs[ind] = << >>
    <3>1. UNCHANGED <<min_time, min_index, logs, grp_logs_last, InFifos, Cached>>
      BY <2>8 DEF GetLogRefill, InFifos, Cached
    <3>2. ~grp_logs_last[ind].valid /\ Range(logs[ind]) = {}
      BY <2>8 DEF GetLogRefill, Refill, Range
    <3>3. min_index = -1 =>
            /\ \A y \in present.logs : y < min_time
            /\ \A g \in Groups : g < ind' =>
                 /\ Range(logs[g]) \cap present.logs = {}
                 /\ grp_logs_last[g].valid => grp_logs_last[g].linux_time \notin present.logs
      BY <2>1, <2>4, <3>2
    <3>4. QED
      BY <2>1, <2>4, <3>1, <3>3 DEF PresentLogs
  <2>9. CASE GetLogCached
    <3>1. UNCHANGED <<logs, grp_logs_last, InFifos, Cached>>
      BY <2>9 DEF GetLogCached, queues, tables, InFifos, Cached
    <3>2. grp_logs_last[ind].valid /\ Consider(ind, grp_logs_last[ind].linux_time)
      BY <2>1, <2>3, <2>9 DEF GetLogCached, Refill
    <3>3. grp_logs_last[ind].linux_time \in Stamps \cup {0}
      BY <2>1 DEF TypeInv, TypeOK
    <3>4. min_index' = -1 =>
            /\ \A y \in present.logs : y < min_time'
            /\ \A g \in Groups : g < ind' =>
                 /\ Range(logs[g]) \cap present.logs = {}
                 /\ grp_logs_last[g].valid => grp_logs_last[g].linux_time \notin present.logs
      BY <2>1, <2>4, <2>6, <3>2, <3>3
    <3>5. QED
      BY <2>1, <2>4, <3>1, <3>4 DEF PresentLogs
  <2>10. QED
    BY <1>6, <2>7, <2>8, <2>9
<1>7. ASSUME GetLogReturn
      PROVE  PresentLogs'
  <2>1. CASE job # "logs"
    BY <1>1, <1>7, <2>1 DEF GetLogReturn, Extracting
  <2>2. CASE job = "logs"
    <3> DEFINE x == grp_logs_last[min_index].linux_time
    <3>1. /\ min_index \in Groups
          /\ \A g \in Groups :
               /\ grp_logs_last'[g].linux_time = grp_logs_last[g].linux_time
               /\ grp_logs_last'[g].valid <=> grp_logs_last[g].valid /\ g # min_index
          /\ Cached' = Cached \ {x} /\ InFifos' = InFifos
          /\ min_index \in mask => Returned' = Returned \cup {x}
          /\ UNCHANGED <<logs, logged>>
      BY <1>7, ReturnEffect
    <3>2. mask = Groups
      BY <2>2 DEF LogScan, GettingLog
    <3>3. ind' = 0 /\ min_time' = clock /\ present' = present
      BY <1>7, <2>2 DEF GetLogReturn, GetLogCall, BeginScan
    <3> HIDE DEF x
    <3>4. /\ present.logs \subseteq InFifos' \cup Cached' \cup Returned'
          /\ present.logs \subseteq logged'
      BY <2>2, <3>1, <3>2 DEF PresentLogs, Extracting
    <3>5. \A g \in Groups :
             /\ \A i, j \in DOMAIN logs'[g] :
                  i < j /\ logs'[g][j] \in present.logs => logs'[g][i] \in present.logs
             /\ grp_logs_last'[g].valid /\ grp_logs_last'[g].linux_time \notin present.logs =>
                  Range(logs'[g]) \cap present.logs = {}
      BY <2>2, <3>1 DEF PresentLogs, Extracting
    <3>6. \A g \in Groups : ~(g < ind')
      BY <3>3, Ranges DEF TypeInv, TypeOK
    <3>7. \A y \in present.logs : y < min_time'
      BY <2>2, <3>3 DEF PresentLogs, Extracting, Clocked
    <3>8. QED
      BY <3>3, <3>4, <3>5, <3>6, <3>7 DEF PresentLogs
  <2>3. QED
    BY <2>1, <2>2
<1>8. GetLogNone \/ RTDBG_Stop \/ Restart => PresentLogs'
  BY <1>1 DEF GetLogNone, RTDBG_Stop, Restart, Extracting
<1>9. ASSUME GetLogDies
      PROVE  PresentLogs'
  BY <1>1, <1>9 DEF GetLogDies, Extracting
<1>10. RTDBG_Start => PresentLogs'
  BY PresentLogsKept
  DEF RTDBG_Start, Extracting, queues, tables, callVars, history
<1>11. UNCHANGED vars => PresentLogs'
  BY PresentLogsKept DEF vars, Extracting, queues, tables, callVars, history
<1>12. ASSUME ExtractDebugData
       PROVE  PresentLogs'
  <2>1. /\ present'.logs = InFifos /\ job' = "traces"
        /\ UNCHANGED <<logs, logged, InFifos>>
        /\ \A g \in Groups : ~grp_logs_last'[g].valid
    BY <1>12, ClearEffect DEF ExtractDebugData, InFifos
  <2>2. present'.logs \subseteq logged'
    BY <2>1 DEF Placed
  <2>3. \A g \in Groups : \A i \in DOMAIN logs'[g] : logs'[g][i] \in present'.logs
    BY <2>1 DEF InFifos, Range
  <2>4. QED
    BY <2>1, <2>2, <2>3 DEF PresentLogs
<1>13. ASSUME GetTraceEntryCall
       PROVE  PresentLogs'
  <2>1. /\ UNCHANGED <<logs, grp_logs_last, logged, returned, present>>
        /\ Extracting
        /\ ind' = 0 /\ min_time' = clock
    BY <1>13
    DEF GetTraceEntryCall, GetLogCall, BeginScan, Extracting, queues, tables
  <2>2. QED
    BY <2>1, PresentLogsKept
<1>14. ASSUME GetTraceEntryNone
       PROVE  PresentLogs'
  <2>1. /\ UNCHANGED <<logs, grp_logs_last, logged, returned, present>>
        /\ Extracting
        /\ ind' = 0 /\ min_time' = clock
    BY <1>14
    DEF GetTraceEntryNone, GetLogCall, BeginScan, Extracting, queues, tables
  <2>2. QED
    BY <2>1, PresentLogsKept
<1>15. ASSUME GetTraceEntryGroup \/ GetTraceEntryReturn
       PROVE  PresentLogs'
  <2>1. /\ UNCHANGED <<logs, grp_logs_last, logged, returned, present>>
        /\ Extracting /\ job' # "logs"
    BY <1>15
    DEF GetTraceEntryGroup, GetTraceEntryReturn, Extracting, queues, history
  <2>2. QED
    BY <2>1, PresentLogsKept
<1>16. ASSUME NEW m \in SUBSET Groups, NEW null \in BOOLEAN, Monitor(m, null)
       PROVE  PresentLogs'
  BY <1>1, <1>16 DEF Monitor, Extracting
<1>17. QED
  BY <1>2, <1>3, <1>4, <1>5, <1>6, <1>7, <1>8, <1>9, <1>10, <1>11, <1>12,
     <1>13, <1>14, <1>15,
     <1>16, StepCases

LEMMA KeptMembers ==
  /\ \A x \in AllKept : \E g \in Groups : x \in Kept(g)
  /\ \A g \in Groups : \A x \in Kept(g) : x \in AllKept
  /\ (\A g \in Groups : \A x \in Kept(g) : x \in AllKept)'
  /\ (\A g \in Groups : Kept(g)' = Kept(g)) => AllKept' = AllKept
<1>1. /\ \A x \in AllKept : \E g \in Groups : x \in Kept(g)
      /\ \A g \in Groups : \A x \in Kept(g) : x \in AllKept
  BY DEF AllKept
<1>2. (\A g \in Groups : \A x \in Kept(g) : x \in AllKept)'
  BY DEF AllKept, Kept, Held
<1>3. ASSUME \A g \in Groups : Kept(g)' = Kept(g)
      PROVE  AllKept' = AllKept
  BY <1>3 DEF AllKept
<1>4. QED
  BY <1>1, <1>2, <1>3

(* A step that touches neither traces nor what was printed of them.        *)
LEMMA PresentTracesKept ==
  ASSUME PresentTraces, UNCHANGED <<traces, grp_trace_res_, printed, present, extracts>>,
         active_' = active_ \/ active_' = TRUE,
         \/ UNCHANGED <<job, ind, min_index, min_time>>
         \/ job' \in {"idle", "monitor"}
         \/ job = "logs" /\ job' \in {"logs", "extracted"}
  PROVE  PresentTraces'
<1>1. UNCHANGED InRings
  BY DEF InRings
<1>2. \A g \in Groups : Kept(g)' = Kept(g) /\ (Open(g)' <=> Open(g)) /\ (Held(g)' <=> Held(g))
  BY DEF Kept, Open, Held
<1>3. CASE UNCHANGED <<job, ind, min_index, min_time>>
  <2>1. AllKept' = AllKept
    BY <1>2, KeptMembers
  <2>2. QED
    BY <1>1, <1>2, <1>3, <2>1 DEF PresentTraces, Extracting
<1>4. CASE job' \in {"idle", "monitor"}
  BY <1>4 DEF PresentTraces, Extracting
<1>5. CASE job = "logs" /\ job' \in {"logs", "extracted"}
  BY <1>5 DEF PresentTraces, Extracting
<1>6. QED
  BY <1>3, <1>4, <1>5

LEMMA PresentTracesStep ==
  ASSUME TypeInv, Clocked, PresentTraces, [Next]_vars
  PROVE  PresentTraces'
<1> USE DEF Extracting
<1>1. ASSUME NEW t \in Adders, NEW what \in limit.kinds, AddCall(t, what)
      PROVE  PresentTraces'
  BY <1>1, PresentTracesKept
  DEF AddCall, queues, tables, callVars, bounds, history
<1>2. ASSUME NEW t \in Adders, Stamp(t)
      PROVE  PresentTraces'
  BY <1>2, PresentTracesKept DEF Stamp, queues, tables, callVars, bounds
<1>3. ASSUME NEW t \in Adders, NEW g \in Groups, Put(t, g), pc[t] = "log"
      PROVE  PresentTraces'
  BY <1>3, PresentTracesKept DEF Put, tables, callVars, bounds
<1>4. ASSUME NEW t \in Adders, NEW g \in Groups, Put(t, g), pc[t] # "log"
      PROVE  PresentTraces'
  <2> DEFINE x == linux_time[t]
  <2>1. /\ traces'[g] = traces[g] \cup {x}
        /\ \A h \in Groups : h # g => traces'[h] = traces[h]
        /\ x # 0
        /\ UNCHANGED <<grp_trace_res_, printed, job, ind, min_index, min_time, active_, extracts,
                       present>>
    BY <1>4, PutTraceEffect
  <2>2. x \notin present.traces
    BY <2>1 DEF Clocked
  <2> HIDE DEF x
  <2>3. \A h \in Groups : Kept(h)' = Kept(h) /\ (Open(h)' <=> Open(h)) /\ (Held(h)' <=> Held(h))
    BY <2>1 DEF Kept, Open, Held
  <2>4. \A h \in Groups : traces'[h] \cap present.traces = traces[h] \cap present.traces
    BY <2>1, <2>2
  <2>5. InRings \subseteq InRings'
    BY <2>1 DEF InRings
  <2>6. extracts = 1 /\ job \in {"traces", "scan"} =>
          /\ present.traces \subseteq InRings' \cup AllKept \cup Range(printed)
          /\ \A h \in Groups : ~Open(h) => traces'[h] \cap present.traces = {}
    BY <2>4, <2>5 DEF PresentTraces
  <2>7. extracts = 1 /\ job = "scan" /\ min_index = -1 =>
          /\ \A y \in present.traces : y < min_time
          /\ \A h \in Groups : h >= ind /\ Held(h) => grp_trace_res_[h].lin_time < min_time
          /\ \A h \in Groups : h < ind => (traces'[h] \cup Kept(h)) \cap present.traces = {}
    BY <2>4 DEF PresentTraces
  <2>8. AllKept' = AllKept
    BY <2>3, KeptMembers
  <2>9. QED
    BY <2>1, <2>3, <2>6, <2>7, <2>8 DEF PresentTraces
<1>5. ASSUME GetLogRefill \/ GetLogCached \/ GetLogReturn \/ GetLogDies \/ GetLogNone
      PROVE  PresentTraces'
  <2>1. UNCHANGED <<traces, grp_trace_res_, printed, present, extracts, active_>>
    BY <1>5
    DEF GetLogRefill, GetLogCached, GetLogReturn, GetLogDies, GetLogNone,
        queues, tables, bounds, history
  <2>2. \/ job' \in {"idle", "monitor"}
        \/ job = "logs" /\ job' \in {"logs", "extracted"}
    BY <1>5 DEF GetLogRefill, GetLogCached, GetLogReturn, GetLogDies, GetLogNone
  <2>3. QED
    BY <2>1, <2>2, PresentTracesKept
<1>6. ASSUME RTDBG_Start \/ UNCHANGED vars
      PROVE  PresentTraces'
  BY <1>6, PresentTracesKept
  DEF RTDBG_Start, vars, queues, tables, callVars, bounds, history
<1>7. ASSUME RTDBG_Stop
      PROVE  PresentTraces'
  BY <1>7 DEF RTDBG_Stop, bounds, PresentTraces
<1>8. ASSUME NEW m \in SUBSET Groups, NEW null \in BOOLEAN, Monitor(m, null)
      PROVE  PresentTraces'
  BY <1>8, PresentTracesKept DEF Monitor, queues, tables, bounds
<1>9. ASSUME Restart
      PROVE  PresentTraces'
  BY <1>9 DEF Restart, PresentTraces
<1>10. ASSUME ExtractDebugData
       PROVE  PresentTraces'
  <2>1. /\ extracts' = extracts + 1 /\ extracts \in Nat /\ job' = "traces"
        /\ UNCHANGED <<traces, grp_trace_res_, InRings>> /\ present'.traces = InRings
    BY <1>10 DEF ExtractDebugData, queues, InRings, TypeInv
  <2>2. extracts' # 0 /\ (extracts' = 1 => extracts = 0)
    BY <2>1
  <2>3. extracts = 0 => \A g \in Groups : Open(g)'
    BY <2>1 DEF PresentTraces, NoTraces, Open
  <2>4. QED
    BY <2>1, <2>2, <2>3 DEF PresentTraces
<1>11. ASSUME GetTraceEntryCall
       PROVE  PresentTraces'
  <2>1. /\ UNCHANGED <<traces, grp_trace_res_, printed, present, extracts, active_, InRings>>
        /\ job = "traces"
    BY <1>11 DEF GetTraceEntryCall, queues, tables, bounds, InRings
  <2>2. CASE active_
    <3>1. job' = "logs"
      BY <1>11, <2>2 DEF GetTraceEntryCall
    <3>2. QED
      BY <2>1, <2>2, <3>1 DEF PresentTraces
  <2>3. CASE ~active_
    <3>1. job' = "scan" /\ ind' = 0 /\ min_time' = clock
      BY <1>11, <2>3 DEF GetTraceEntryCall, BeginScan
    <3>2. \A g \in Groups : Kept(g)' = Kept(g) /\ (Open(g)' <=> Open(g)) /\ (Held(g)' <=> Held(g))
      BY <2>1 DEF Kept, Open, Held
    <3>3. \A g \in Groups : ~(g < ind')
      BY <3>1, Ranges DEF TypeInv, TypeOK
    <3>4. \A x \in present.traces : x < min_time'
      BY <3>1 DEF Clocked
    <3>5. \A g \in Groups : grp_trace_res_[g].lin_time < min_time'
      BY <3>1 DEF Clocked
    <3>6. extracts = 1 =>
            /\ present.traces \subseteq InRings \cup AllKept \cup Range(printed)
            /\ \A g \in Groups : ~Open(g) => traces[g] \cap present.traces = {}
      BY <2>1 DEF PresentTraces
    <3>7. extracts # 0
      BY <2>1 DEF PresentTraces
    <3>8. AllKept' = AllKept
      BY <3>2, KeptMembers
    <3>9. QED
      BY <2>1, <3>1, <3>2, <3>3, <3>4, <3>5, <3>6, <3>7, <3>8 DEF PresentTraces
  <2>4. QED
    BY <2>2, <2>3
<1>12. ASSUME GetTraceEntryNone
       PROVE  PresentTraces'
  <2>1. /\ UNCHANGED <<traces, grp_trace_res_, printed, present, extracts, active_>>
        /\ job = "scan" /\ min_index = -1 /\ ScanEnds /\ job' = "logs"
    BY <1>12 DEF GetTraceEntryNone, queues, tables, bounds
  <2>2. \A g \in Groups : g < ind
    BY <2>1, Ranges DEF ScanEnds, TypeInv, TypeOK, Groups
  <2>3. ASSUME extracts = 1
        PROVE  present.traces \subseteq Range(printed)
    <3>1. \A g \in Groups : (traces[g] \cup Kept(g)) \cap present.traces = {}
      BY <2>1, <2>2, <2>3 DEF PresentTraces
    <3>2. present.traces \subseteq InRings \cup AllKept \cup Range(printed)
      BY <2>1, <2>3 DEF PresentTraces
    <3>3. ASSUME NEW g \in Groups, NEW x \in traces[g] \cup Kept(g)
          PROVE  x \notin present.traces
      BY <3>1
    <3>4. /\ \A x \in InRings : \E g \in Groups : x \in traces[g] \cup Kept(g)
          /\ \A x \in AllKept :
               \E g \in Groups : x \in traces[g] \cup Kept(g)
      BY KeptMembers DEF InRings
    <3>5. ASSUME NEW x \in present.traces
          PROVE  x \in Range(printed)
      <4>1. x \notin InRings /\ x \notin AllKept
        BY <3>3, <3>4
      <4>2. QED
        BY <3>2, <4>1
    <3>6. QED
      BY <3>5
  <2>4. extracts # 0
    BY <2>1 DEF PresentTraces
  <2>5. QED
    BY <2>1, <2>3, <2>4 DEF PresentTraces
<1>13. ASSUME GetTraceEntryGroup
       PROVE  PresentTraces'
  <2> DEFINE time == grp_trace_res_'[ind].lin_time
             KeptNext(g) == IF grp_trace_res_'[g].status = "DATA_IND"
                              THEN {grp_trace_res_'[g].lin_time} ELSE {}
  <2>1. /\ ind \in Groups /\ ind' = ind + 1 /\ ~ScanEnds /\ job = "scan"
        /\ \A h \in Groups : h < ind' <=> h < ind \/ h = ind
        /\ \A h \in Groups : h # ind =>
             traces'[h] = traces[h] /\ grp_trace_res_'[h] = grp_trace_res_[h]
    BY <1>13, GroupEffect
  <2>2. UNCHANGED <<printed, present, extracts, active_, job>>
    BY <1>13 DEF GetTraceEntryGroup, bounds, history
  <2>3. extracts # 0
    BY <2>1 DEF PresentTraces
  <2>4. SUFFICES ASSUME extracts = 1
                 PROVE  /\ present.traces \subseteq
                             InRings' \cup AllKept' \cup Range(printed)
                        /\ \A g \in Groups : Open(g)' \/ traces'[g] \cap present.traces = {}
                        /\ min_index' = -1 =>
                             /\ \A x \in present.traces : x < min_time'
                             /\ \A g \in Groups : g >= ind' /\ Held(g)' =>
                                  grp_trace_res_'[g].lin_time < min_time'
                             /\ \A g \in Groups : g < ind' =>
                                  (traces'[g] \cup KeptNext(g)) \cap present.traces = {}
    <3>1. \A g \in Groups : KeptNext(g) = Kept(g)'
      BY DEF Kept, Held
    <3> HIDE DEF KeptNext
    <3>2. QED
      BY <2>1, <2>2, <2>3, <3>1 DEF PresentTraces
  <2>5. /\ present.traces \subseteq InRings \cup AllKept \cup Range(printed)
        /\ \A g \in Groups : Open(g) \/ traces[g] \cap present.traces = {}
        /\ min_index = -1 =>
             /\ \A x \in present.traces : x < min_time
             /\ \A g \in Groups : g >= ind /\ Held(g) => grp_trace_res_[g].lin_time < min_time
             /\ \A g \in Groups : g < ind =>
                  (traces[g] \cup Kept(g)) \cap present.traces = {}
    BY <2>1, <2>4 DEF PresentTraces
  <2>6. \A h \in Groups : h # ind =>
          KeptNext(h) = Kept(h) /\ (Open(h)' <=> Open(h)) /\ (Held(h)' <=> Held(h))
    BY <2>1 DEF Kept, Open, Held
  <2>6a. grp_trace_res_'[ind].status = "DATA_IND" => KeptNext(ind) = {time}
    OBVIOUS
  <2>6b. grp_trace_res_'[ind].status # "DATA_IND" => KeptNext(ind) = {}
    OBVIOUS
  <2>6c. \A g \in Groups : KeptNext(g) = Kept(g)'
    BY DEF Kept, Held
  <2> HIDE DEF KeptNext
  <2>7. present.traces \subseteq Nat /\ min_time \in Nat /\ ind \in Nat /\ Groups \subseteq Nat
    BY <2>1, ScanTypes, ClockType, Ranges DEF TypeInv, TypeOK
  <2>8. \A g \in Groups : g >= ind' => g >= ind /\ g # ind
    BY <2>1, <2>7
  (* What the group holds is held after the step, too.                     *)
  <2>9. ASSUME traces[ind] \cup Kept(ind) \subseteq traces'[ind] \cup KeptNext(ind)
        PROVE  present.traces \subseteq
                 InRings' \cup AllKept' \cup Range(printed)
    <3>1. \A g \in Groups : traces[g] \cup Kept(g) \subseteq traces'[g] \cup KeptNext(g)
      BY <2>1, <2>6, <2>9
    <3>2. \A g \in Groups : traces'[g] \subseteq InRings' /\ KeptNext(g) \subseteq AllKept'
      BY <2>6c, KeptMembers DEF InRings
    <3>3. InRings \cup AllKept \subseteq InRings' \cup AllKept'
      <4>1. ASSUME NEW g \in Groups, NEW x \in traces[g] \cup Kept(g)
            PROVE  x \in InRings' \cup AllKept'
        BY <3>1, <3>2
      <4>2. QED
        BY <4>1, KeptMembers DEF InRings
    <3>4. QED
      BY <2>5, <3>3
  <2>10. CASE /\ grp_trace_res_'[ind].status = "TRACE_EMPTY_DATA"
              /\ UNCHANGED <<traces, min_time, min_index>>
              /\ ~Held(ind)
              /\ traces[ind] = {} \/ ~Open(ind)
    <3>1. Kept(ind) = {} /\ KeptNext(ind) = {}
      <4>1. grp_trace_res_[ind].status # "DATA_IND"
        BY <2>10 DEF Held
      <4>2. QED
        BY <2>6b, <2>10, <4>1 DEF Kept, Held
    <3>2. traces[ind] \cap present.traces = {} /\ traces' = traces
      BY <2>1, <2>5, <2>10
    <3>3. present.traces \subseteq
            InRings' \cup AllKept' \cup Range(printed)
      BY <2>9, <3>1, <3>2
    <3>4. \A g \in Groups : Open(g)' \/ traces'[g] \cap present.traces = {}
      BY <2>5, <2>6, <3>2
    <3>5. ASSUME min_index' = -1
          PROVE  /\ \A x \in present.traces : x < min_time'
                 /\ \A g \in Groups : g >= ind' /\ Held(g)' =>
                      grp_trace_res_'[g].lin_time < min_time'
                 /\ \A g \in Groups : g < ind' =>
                      (traces'[g] \cup KeptNext(g)) \cap present.traces = {}
      <4>1. min_index = -1 /\ min_time' = min_time
        BY <2>10, <3>5
      <4>2. \A g \in Groups : g >= ind' /\ Held(g)' =>
              grp_trace_res_'[g].lin_time < min_time'
        BY <2>1, <2>5, <2>6, <2>8, <4>1
      <4>3. \A g \in Groups : g < ind' =>
              (traces'[g] \cup KeptNext(g)) \cap present.traces = {}
        BY <2>1, <2>5, <2>6, <3>1, <3>2, <4>1
      <4>4. QED
        BY <2>5, <4>1, <4>2, <4>3
    <3>6. QED
      BY <3>3, <3>4, <3>5
  <2>11. CASE /\ grp_trace_res_'[ind].status = "DATA_IND"
              /\ Consider(ind, time)
              /\ time \in Stamps \cup {0}
              /\ \/ Held(ind) /\ UNCHANGED <<traces, grp_trace_res_>>
                 \/ /\ Open(ind) /\ ~Held(ind)
                    /\ time \in traces[ind]
                    /\ traces'[ind] = traces[ind] \ {time}
                    /\ \A y \in traces[ind] : time <= y
    <3>1. /\ \/ min_index' = ind /\ min_time' = time /\ time < min_time
             \/ min_index' = min_index /\ min_time' = min_time /\ min_time <= time
      BY <2>1, <2>11, ConsiderTypes
    <3>2. KeptNext(ind) = {time}
      BY <2>6a, <2>11
    <3>3. ind # -1 /\ time \in Nat /\ traces[ind] \subseteq Nat
      <4>1. time \in Stamps \cup {0} /\ Stamps \subseteq Nat
        BY <2>11, ClockType
      <4>2. Stamps \cup {0} \subseteq Nat
        BY <4>1
      <4>3. time \in Nat
        BY <4>1, <4>2
      <4>4. traces[ind] \subseteq Nat
        BY <2>1, ClockType
      <4>5. QED
        BY <2>7, <4>3, <4>4
    <3>4. Held(ind) \/ (~Held(ind) /\ time \in traces[ind] /\ \A y \in traces[ind] : time <= y)
      BY <2>11
    <3>5. grp_trace_res_'[ind].status # "TRACE_EMPTY_DATA"
      BY <2>11
    <3>6. /\ traces[ind] \cup Kept(ind) \subseteq traces'[ind] \cup {time}
          /\ traces'[ind] \subseteq traces[ind]
      <4>1. CASE Held(ind) /\ UNCHANGED <<traces, grp_trace_res_>>
        BY <4>1 DEF Kept
      <4>2. CASE ~Held(ind) /\ traces'[ind] = traces[ind] \ {time}
        BY <4>2 DEF Kept
      <4>3. QED
        BY <2>11, <4>1, <4>2
    <3>7. Held(ind) => grp_trace_res_[ind].lin_time = time
      BY <2>11
    <3> HIDE DEF time
    <3>8. present.traces \subseteq
            InRings' \cup AllKept' \cup Range(printed)
      BY <2>9, <3>2, <3>6
    <3>9. \A g \in Groups : Open(g)' \/ traces'[g] \cap present.traces = {}
      BY <2>1, <2>5, <2>6, <3>5 DEF Open
    <3>10. ASSUME min_index' = -1
           PROVE  /\ \A x \in present.traces : x < min_time'
                  /\ \A g \in Groups : g >= ind' /\ Held(g)' =>
                       grp_trace_res_'[g].lin_time < min_time'
                  /\ \A g \in Groups : g < ind' =>
                       (traces'[g] \cup KeptNext(g)) \cap present.traces = {}
      <4>1. min_index = -1 /\ min_time' = min_time /\ min_time <= time
        BY <3>1, <3>3, <3>10
      <4>2. ~Held(ind)
        <5>1. ind >= ind
          BY <2>7
        <5>2. Held(ind) => time < min_time
          BY <2>1, <2>5, <3>7, <4>1, <5>1
        <5>3. QED
          BY <2>7, <3>3, <4>1, <5>2
      <4>3. \A x \in traces[ind] \cup {time} : x \notin present.traces
        <5>1. \A x \in traces[ind] \cup {time} : x \in Nat /\ time <= x
          BY <3>3, <3>4, <4>2
        <5>2. \A x \in present.traces : x < min_time
          BY <2>5, <4>1
        <5>3. QED
          BY <2>7, <3>3, <4>1, <5>1, <5>2
      <4>4. (traces'[ind] \cup KeptNext(ind)) \cap present.traces = {}
        BY <3>2, <3>6, <4>3
      <4>5. \A g \in Groups : g < ind' =>
              (traces'[g] \cup KeptNext(g)) \cap present.traces = {}
        BY <2>1, <2>5, <2>6, <4>1, <4>4
      <4>6. \A g \in Groups : g >= ind' /\ Held(g)' =>
              grp_trace_res_'[g].lin_time < min_time'
        BY <2>1, <2>5, <2>6, <2>8, <4>1
      <4>7. QED
        BY <2>5, <4>1, <4>5, <4>6
    <3>11. QED
      BY <3>8, <3>9, <3>10
  <2>12. QED
    BY <1>13, <2>10, <2>11, GroupEffect
<1>14. ASSUME GetTraceEntryReturn
       PROVE  PresentTraces'
  <2>1. /\ min_index \in Groups /\ job = "scan" /\ job' = "traces"
        /\ grp_trace_res_'[min_index].status = "NO_DATA_IND"
        /\ \A h \in Groups : h # min_index => grp_trace_res_'[h] = grp_trace_res_[h]
        /\ UNCHANGED <<traces, present, active_, extracts>>
        /\ Range(printed') = Range(printed) \cup {grp_trace_res_[min_index].lin_time}
    BY <1>14, PrintEffect
  <2>2. InRings' = InRings /\ extracts # 0
    BY <2>1 DEF InRings, PresentTraces
  <2>3. \A g \in Groups : Kept(g) \subseteq Kept(g)' \cup Range(printed')
    <3>1. Kept(min_index) \subseteq Range(printed')
      BY <2>1 DEF Kept
    <3>2. \A g \in Groups : g # min_index => Kept(g)' = Kept(g)
      BY <2>1 DEF Kept, Held
    <3>3. QED
      BY <3>1, <3>2
  <2>4. \A g \in Groups : ~Open(g)' => ~Open(g)
    BY <2>1 DEF Open
  <2>5. extracts = 1 =>
          /\ present.traces \subseteq InRings \cup AllKept \cup Range(printed)
          /\ \A g \in Groups : ~Open(g) => traces[g] \cap present.traces = {}
    BY <2>1 DEF PresentTraces
  <2>6. extracts = 1 =>
          present.traces \subseteq InRings \cup AllKept' \cup Range(printed')
    <3>1. ASSUME NEW x \in AllKept
          PROVE  x \in AllKept' \cup Range(printed')
      <4>1. PICK g \in Groups : x \in Kept(g)
        BY KeptMembers
      <4>2. x \in Kept(g)' \/ x \in Range(printed')
        BY <2>3, <4>1
      <4>3. QED
        BY <4>2, KeptMembers
    <3>2. QED
      BY <2>1, <2>5, <3>1
  <2>7. QED
    BY <2>1, <2>2, <2>4, <2>5, <2>6 DEF PresentTraces
<1>15. QED
  BY <1>1, <1>2, <1>3, <1>4, <1>5, <1>6, <1>7, <1>8, <1>9, <1>10, <1>11, <1>12,
     <1>13, <1>14,
     StepCases

LEMMA ReportComplete ==
  ASSUME TypeInv, PresentLogs, PresentTraces, FirstExtractionComplete, [Next]_vars
  PROVE  FirstExtractionComplete'
<1>1. ASSUME job' # "extracted"
      PROVE  FirstExtractionComplete'
  BY <1>1 DEF FirstExtractionComplete, ExtractedAll
<1>2. ASSUME UNCHANGED <<job, extracts, present, returned, printed>>,
             active_' = active_ \/ active_' = TRUE
      PROVE  FirstExtractionComplete'
  BY <1>2 DEF FirstExtractionComplete, ExtractedAll, Returned
<1>3. ASSUME NEW t \in Adders, NEW what \in limit.kinds, AddCall(t, what)
      PROVE  FirstExtractionComplete'
  BY <1>2, <1>3 DEF AddCall, bounds, history
<1>4. ASSUME NEW t \in Adders, Stamp(t)
      PROVE  FirstExtractionComplete'
  BY <1>2, <1>4 DEF Stamp, bounds
<1>5. ASSUME NEW t \in Adders, NEW g \in Groups, Put(t, g)
      PROVE  FirstExtractionComplete'
  BY <1>2, <1>5 DEF Put, bounds
<1>6. RTDBG_Start \/ UNCHANGED vars => FirstExtractionComplete'
  BY <1>2 DEF RTDBG_Start, vars, bounds, history
<1>7. GetLogRefill \/ GetLogCached \/ GetLogReturn \/ GetLogDies => FirstExtractionComplete'
  BY <1>1 DEF GetLogRefill, GetLogCached, GetLogReturn, GetLogDies
<1>8. ASSUME GetLogNone
      PROVE  FirstExtractionComplete'
  <2>1. CASE job # "logs"
    BY <1>1, <1>8, <2>1 DEF GetLogNone
  <2>2. CASE job = "logs"
    <3>1. UNCHANGED <<present, extracts, printed, active_, Returned>>
      BY <1>8 DEF GetLogNone, bounds, history, Returned
    <3>2. \A g \in Groups : g < ind
      BY <1>8, Ranges DEF GetLogNone, ScanEnds, TypeInv, TypeOK, Groups
    <3>3. /\ present.logs \subseteq InFifos \cup Cached \cup Returned
          /\ \A g \in Groups :
               /\ Range(logs[g]) \cap present.logs = {}
               /\ grp_logs_last[g].valid => grp_logs_last[g].linux_time \notin present.logs
      BY <1>8, <2>2, <3>2 DEF GetLogNone, PresentLogs, Extracting
    <3>4. InFifos \cap present.logs = {} /\ Cached \cap present.logs = {}
      BY <3>3 DEF InFifos, Cached
    <3>5. present.logs \subseteq Returned
      BY <3>3, <3>4
    <3>6. extracts <= 1 => extracts = 1
      <4>1. extracts \in Nat /\ extracts # 0
        BY <2>2 DEF TypeInv, PresentTraces, Extracting
      <4>2. QED
        BY <4>1
    <3>7. extracts <= 1 /\ ~active_ => present.traces \subseteq Range(printed)
      BY <2>2, <3>6 DEF PresentTraces
    <3>8. QED
      BY <3>1, <3>5, <3>7 DEF FirstExtractionComplete, ExtractedAll
  <2>3. QED
    BY <2>1, <2>2
<1>9. GetTraceEntryGroup \/ GetTraceEntryReturn \/ GetTraceEntryNone => FirstExtractionComplete'
  BY <1>1 DEF GetTraceEntryGroup, GetTraceEntryReturn, GetTraceEntryNone
<1>10. GetTraceEntryCall => FirstExtractionComplete'
  BY <1>1 DEF GetTraceEntryCall
<1>11. RTDBG_Stop \/ ExtractDebugData \/ Restart => FirstExtractionComplete'
  BY <1>1 DEF RTDBG_Stop, ExtractDebugData, Restart
<1>12. ASSUME NEW m \in SUBSET Groups, NEW null \in BOOLEAN, Monitor(m, null)
       PROVE  FirstExtractionComplete'
  BY <1>1, <1>12 DEF Monitor
<1>13. QED
  BY <1>3, <1>4, <1>5, <1>6, <1>7, <1>8, <1>9, <1>10, <1>11, <1>12, StepCases

-----------------------------------------------------------------------------
(***************************************************************************)
(* The theorems                                                            *)
(***************************************************************************)
IInv ==
  /\ TypeInv /\ Clocked /\ Placed /\ FifoOrder
  /\ LogScan /\ LogsLeft /\ TraceScan /\ TracesLeft
  /\ PresentLogs /\ PresentTraces
  /\ EarliestFirst /\ FirstExtractionComplete

LEMMA InitIInv ==
  ASSUME Init
  PROVE  IInv
<1>1. /\ num_groups \in Nat /\ Groups \subseteq Nat /\ -1 \notin Groups
      /\ limit.entries \in Nat /\ Stamps \subseteq Nat \ {0}
  BY Ranges DEF Init
<1>2. /\ \A g \in Groups : logs[g] = << >> /\ Range(logs[g]) = {} /\ DOMAIN logs[g] = {}
      /\ \A g \in Groups : traces[g] = {}
      /\ \A g \in Groups : ~grp_logs_last[g].valid /\ grp_logs_last[g].linux_time = 0
      /\ \A g \in Groups : grp_trace_res_[g].lin_time = 0 /\ Open(g)
      /\ \A t \in Adders : linux_time[t] = 0
  BY DEF Init, NoLogs, NoTraces, Range, Open
<1>3. /\ InFifos = {} /\ Cached = {} /\ InRings = {} /\ Returned = {} /\ Pending = {}
      /\ DOMAIN returned = {} /\ DOMAIN printed = {}
  <2>1. DOMAIN returned = {} /\ DOMAIN printed = {}
    BY DEF Init
  <2>2. QED
    BY <1>2, <2>1 DEF InFifos, Cached, InRings, Returned, Pending
<1>4. TypeInv
  <2>1. clock \in 1 .. limit.entries + 1 /\ ind \in 0 .. num_groups /\ min_time \in 0 .. limit.entries + 1
        /\ min_time <= clock /\ extracts \in Nat
    BY <1>1 DEF Init
  <2>2. /\ logs \in [Groups -> Seq(Stamps)] /\ traces \in [Groups -> SUBSET Stamps]
        /\ pc \in [Adders -> {"idle"} \cup limit.kinds]
        /\ linux_time \in [Adders -> Stamps \cup {0}]
    BY DEF Init
  <2>3. /\ grp_logs_last \in [Groups -> [valid : BOOLEAN, linux_time : Stamps \cup {0}]]
        /\ grp_trace_res_ \in
             [Groups -> [status : {"DATA_IND", "NO_DATA_IND", "TRACE_EMPTY_DATA"},
                         lin_time : Stamps \cup {0}]]
    BY DEF Init, NoLogs, NoTraces
  <2>4. /\ returned \in Seq([mask : SUBSET Groups, linux_time : Stamps])
        /\ printed \in Seq(Stamps \cup {0})
    BY DEF Init
  <2>5. /\ present \in [logs : SUBSET Stamps, traces : SUBSET Stamps]
        /\ mask \in SUBSET Groups /\ min_index \in Groups \cup {-1} /\ min_index = -1
        /\ logged \subseteq Stamps /\ strays \subseteq Stamps \cup {0}
        /\ forgotten \subseteq Stamps /\ slow \subseteq Stamps
    BY DEF Init
  <2>6. TypeOK
    BY <2>1, <2>2, <2>3, <2>5 DEF Init, TypeOK
  <2>7. ~GettingLog
    BY DEF Init, GettingLog
  <2>8. QED
    BY <1>2, <2>1, <2>4, <2>5, <2>6, <2>7 DEF TypeInv
<1>5. Clocked
  BY <1>2, <1>3 DEF Init, Clocked
<1>6. Placed
  <2>1. IsInjective([i \in DOMAIN returned |-> returned[i].linux_time])
    BY <1>3 DEF IsInjective
  <2>2. LogsReturnedOnce /\ NothingLost
    BY <1>3, <2>1 DEF Init, LogsReturnedOnce, NothingLost
  <2>3. QED
    BY <1>2, <1>3, <2>2 DEF Init, Placed, IsInjective
<1>7. FifoOrder
  BY <1>2 DEF FifoOrder
<1>8. LogScan /\ PresentLogs
  BY DEF Init, LogScan, GettingLog, PresentLogs, Extracting
<1>9. LogsLeft /\ TracesLeft /\ EarliestFirst
  BY <1>3
  DEF LogsLeft, TracesLeft, EarliestFirst, LogsEarliestFirst,
      TracesEarliestFirst
<1>10. TraceScan
  BY <1>2 DEF Init, TraceScan
<1>11. PresentTraces /\ FirstExtractionComplete
  BY DEF Init, PresentTraces, Extracting, FirstExtractionComplete, ExtractedAll
<1>12. QED
  BY <1>4, <1>5, <1>6, <1>7, <1>8, <1>9, <1>10, <1>11 DEF IInv

LEMMA IInvAlways == Spec => []IInv
<1>1. IInv /\ [Next]_vars => IInv'
  <2> SUFFICES ASSUME IInv, [Next]_vars
               PROVE  IInv'
    OBVIOUS
  <2>1. /\ TypeInv /\ Clocked /\ Placed /\ FifoOrder
        /\ LogScan /\ LogsLeft /\ TraceScan /\ TracesLeft
        /\ PresentLogs /\ PresentTraces
        /\ LogsEarliestFirst /\ TracesEarliestFirst /\ FirstExtractionComplete
    BY DEF IInv, EarliestFirst
  <2>2. TypeInv'
    BY <2>1, TypeInvStep
  <2>3. Clocked' /\ Placed'
    BY <2>1, ClockedStep, PlacedStep
  <2>4. FifoOrder'
    BY <2>1, FifoOrderStep
  <2>5. LogScan'
    BY <2>1, <2>4, LogScanStep
  <2>6. LogsLeft' /\ LogsEarliestFirst'
    BY <2>1, LogsLeftStep
  <2>7. TraceScan'
    BY <2>1, TraceScanStep
  <2>8. TracesLeft' /\ TracesEarliestFirst'
    BY <2>1, TracesLeftStep
  <2>9. PresentLogs' /\ PresentTraces'
    BY <2>1, PresentLogsStep, PresentTracesStep
  <2>10. FirstExtractionComplete'
    BY <2>1, ReportComplete
  <2>11. QED
    BY <2>2, <2>3, <2>4, <2>5, <2>6, <2>7, <2>8, <2>9, <2>10
    DEF IInv, EarliestFirst
<1>2. QED
  BY <1>1, InitIInv, PTL DEF Spec

(* Every log is accounted for, whatever groups the calls of RTDBG_GetLog   *)
(* ask for and wherever the extracting process is stopped and restarted:   *)
(* in a FIFO, in the table, returned, or forgotten, and in one of these    *)
(* places only; none is returned twice to calls that ask for its group.    *)
THEOREM LogsAccountedAlways == Spec => []LogsAccounted
<1>1. IInv => LogsAccounted
  BY DEF IInv, TypeInv, Placed, LogsAccounted
<1>2. QED
  BY <1>1, IInvAlways, PTL

(* The logs RTDBG_GetLog returns over all groups, and the traces that an   *)
(* extraction prints, are in the order of time but for those that were     *)
(* overtaken by a later reading of the clock before they were put.         *)
THEOREM EarliestFirstAlways == Spec => []EarliestFirst
<1>1. IInv => EarliestFirst
  BY DEF IInv
<1>2. QED
  BY <1>1, IInvAlways, PTL

(* The first extraction of a process returns every log and, unless the     *)
(* collection is started again meanwhile, prints every trace that was in   *)
(* shared memory when RT_debug_ExtractDebugData was called.                *)
THEOREM FirstExtractionCompleteAlways == Spec => []FirstExtractionComplete
<1>1. IInv => FirstExtractionComplete
  BY DEF IInv
<1>2. QED
  BY <1>1, IInvAlways, PTL

=============================================================================
