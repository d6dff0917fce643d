-------------------------- MODULE TraceGroupProofs --------------------------
(***************************************************************************)
(* Theorems about CTraceGroup for any number of writers, slots and traces. *)
(***************************************************************************)
EXTENDS TraceGroup, FiniteSetTheorems, SequenceTheorems, TLAPS

Allocating == {t \in Writers : pc[t] = "alloc"}
Holding(t) == pc[t] \in {"time", "copy1", "copy2", "copy3"}
Copying(t) == pc[t] \in {"copy2", "copy3"}
Looking == reader \in {"scan", "compare", "min"}
Returning == reader \in {"vals", "time", "clear"}
Last == extracted[Len(extracted)]
SlotOf(n) == (n + 1) % TRACE_ENTRIES_NUM
Full(k) == status[k] = "DATA_IND"
Filled(k) == head[k].seq # 0
Unread(k) == Full(k) /\ ~(Returning /\ k = min_index)

TypeInv ==
  /\ TypeOK
  /\ allocs \in Nat /\ clock \in Nat \ {0}
  /\ starts \in Nat
  /\ IsFiniteSet(Allocating)
  /\ allocs + Cardinality(Allocating) <= MaxTraces

(* Slots go round in the order of allocation, and a trace stays in its own. *)
Turns ==
  /\ wr_ind_ = SlotOf(allocs)
  /\ \A t \in Writers : Holding(t) =>
       /\ tmp_entry[t].seq \in 1 .. allocs
       /\ slot[t] = SlotOf(tmp_entry[t].seq)
       /\ \A u \in Writers :
            Holding(u) /\ tmp_entry[t].seq = tmp_entry[u].seq => t = u
  /\ \A t \in Writers : Copying(t) => Filled(slot[t])
  /\ \A k \in Slots : Full(k) => Filled(k)
  /\ \A k \in Slots : Filled(k) =>
       head[k].seq \in 1 .. allocs /\ SlotOf(head[k].seq) = k
  /\ \A e \in Extracted \cup written : e.seq \in 1 .. allocs
  /\ \A i \in DOMAIN extracted : extracted[i].slot = SlotOf(extracted[i].head.seq)

(* No two traces have the same time, and the clock is past all of them.    *)
Stamps ==
  /\ \A k \in Slots : Filled(k) =>
       /\ head[k].linux_time < clock
       /\ \A j \in Slots : Filled(j) /\ head[j].linux_time = head[k].linux_time => j = k
  /\ \A t \in Writers : pc[t] = "copy1" =>
       /\ tmp_entry[t].linux_time < clock
       /\ \A u \in Writers :
            pc[u] = "copy1" /\ tmp_entry[u].linux_time = tmp_entry[t].linux_time => t = u
       /\ \A k \in Slots :
            Filled(k) => head[k].linux_time # tmp_entry[t].linux_time

(* Where the extractor is.                                                 *)
Scanning ==
  /\ Looking /\ min_index # -1 => Full(min_index)
  /\ reader \in {"compare", "min"} => ind \in Slots /\ Full(ind)
  /\ Returning => /\ min_index # -1
                  /\ extracted # << >>
                  /\ Last.slot = min_index

(* What is yet to be read from a slot that is not raced for was not        *)
(* extracted before, nor what its writer is about to mark as there.        *)
Fresh ==
  /\ \A t \in Writers : pc[t] \in {"time", "copy1"} =>
       /\ \A e \in Extracted : e.seq # tmp_entry[t].seq
       /\ \A k \in Slots : head[k].seq # tmp_entry[t].seq
  /\ \A t \in Writers : pc[t] = "copy2" /\ slot[t] \notin raced =>
       \A e \in Extracted : e.seq # tmp_entry[t].seq
  /\ \A k \in Slots \ raced : Unread(k) => \A e \in Extracted : e.seq # head[k].seq
  /\ \A i \in DOMAIN extracted :
       \/ extracted[i].slot \in raced
       \/ /\ \A e \in before : e.seq # extracted[i].head.seq
          /\ \A j \in DOMAIN extracted :
               extracted[j].head.seq = extracted[i].head.seq => i = j

(* A slot that is not raced for has one writer, and none beside the        *)
(* extractor.  Its writer holds one of the latest traces.                  *)
ApartAt(k) ==
  /\ \A t, u \in Holders(k) : t = u
  /\ Extracting => Holders(k) = {}
  /\ \A t \in Holders(k) :
       /\ tmp_entry[t].seq + TRACE_ENTRIES_NUM > allocs
       /\ Copying(t) => head[k] = tmp_entry[t]
       /\ pc[t] = "copy3" => Full(k)
  /\ (\A t \in Holders(k) : ~Copying(t)) => head[k] = tail[k]
  /\ Returning /\ k = min_index => Last.head = head[k]

Apart == \A k \in Slots \ raced : ApartAt(k)

(* The trace that is being returned is whole so far.                       *)
Whole == reader = "time" /\ min_index \notin raced => Last.tail = Last.head

(* The scan has found the earliest of the slots it passed, and nothing     *)
(* that remains is earlier than what was extracted.                        *)
Order ==
  raced = {} =>
    /\ Extracting => \A i \in DOMAIN extracted : \A k \in Slots :
         Unread(k) => extracted[i].head.linux_time < head[k].linux_time
    /\ Looking =>
         /\ \A k \in Slots : k < ind /\ Full(k) =>
              min_index # -1 /\ min_time <= head[k].linux_time
         /\ min_time = IF min_index = -1 THEN clock ELSE head[min_index].linux_time
    /\ reader = "min" => head[ind].linux_time < min_time

(* After an extraction that emptied the ring there are only late traces.   *)
Emptied ==
  reader = "done" /\ ~active_ /\ raced = {} =>
    /\ \A k \in Slots : Full(k) => head[k].seq \in late
    /\ \A t \in Writers : Holding(t) => tmp_entry[t].seq \in late

-----------------------------------------------------------------------------
(* Remainders, for the numbers of slots.                                   *)
LEMMA TimesAtLeast ==
  ASSUME NEW q \in Int, q >= 1
  PROVE  TRACE_ENTRIES_NUM * q >= TRACE_ENTRIES_NUM
  <1>1. TRACE_ENTRIES_NUM * (q - 1) = TRACE_ENTRIES_NUM * q - TRACE_ENTRIES_NUM
    BY SizesAssumption
  <1>2. TRACE_ENTRIES_NUM * (q - 1) >= 0
    BY SizesAssumption
  <1> QED BY <1>1, <1>2, SizesAssumption

LEMMA RemainderUnique ==
  ASSUME NEW q \in Int, NEW p \in Int, NEW r \in Slots, NEW s \in Slots,
         TRACE_ENTRIES_NUM * q + r = TRACE_ENTRIES_NUM * p + s
  PROVE  r = s /\ q = p
  <1>1. /\ TRACE_ENTRIES_NUM * (q - p) = TRACE_ENTRIES_NUM * q - TRACE_ENTRIES_NUM * p
        /\ TRACE_ENTRIES_NUM * (p - q) = TRACE_ENTRIES_NUM * p - TRACE_ENTRIES_NUM * q
    BY SizesAssumption
  <1>2. CASE q > p
    <2>1. TRACE_ENTRIES_NUM * (q - p) >= TRACE_ENTRIES_NUM
      BY <1>2, TimesAtLeast
    <2> QED BY <2>1, <1>1, SizesAssumption DEF Slots
  <1>3. CASE p > q
    <2>1. TRACE_ENTRIES_NUM * (p - q) >= TRACE_ENTRIES_NUM
      BY <1>3, TimesAtLeast
    <2> QED BY <2>1, <1>1, SizesAssumption DEF Slots
  <1>4. CASE p = q
    BY <1>4, SizesAssumption DEF Slots
  <1> QED BY <1>2, <1>3, <1>4

LEMMA Division ==
  ASSUME NEW n \in Nat
  PROVE  /\ n % TRACE_ENTRIES_NUM \in Slots
         /\ n \div TRACE_ENTRIES_NUM \in Int
         /\ n = TRACE_ENTRIES_NUM * (n \div TRACE_ENTRIES_NUM)
                + (n % TRACE_ENTRIES_NUM)
  BY SizesAssumption DEF Slots

LEMMA SlotOfType ==
  ASSUME NEW n \in Nat
  PROVE  SlotOf(n) \in Slots
  BY Division DEF SlotOf

(* Two traces of one slot are a turn of the ring apart.                    *)
LEMMA SameSlot ==
  ASSUME NEW m \in Nat, NEW n \in Nat, SlotOf(m) = SlotOf(n), m < n
  PROVE  m + TRACE_ENTRIES_NUM <= n
  <1> DEFINE N == TRACE_ENTRIES_NUM
             a == (m + 1) \div N
             b == (n + 1) \div N
             r == (m + 1) % N
  <1>1. /\ a \in Int /\ b \in Int /\ r \in Slots
        /\ m + 1 = N * a + r
        /\ n + 1 = N * b + r
    BY Division, m + 1 \in Nat, n + 1 \in Nat DEF SlotOf
  <1> HIDE DEF a, b, r
  <1>2. N * (b - a) = N * b - N * a /\ N * (a - b) = N * a - N * b
    BY <1>1, SizesAssumption
  <1>3. N * b \in Int /\ N * a \in Int
    BY <1>1, SizesAssumption
  <1>4. CASE b > a
    <2>1. N * (b - a) >= N
      BY <1>1, <1>4, TimesAtLeast
    <2> QED BY <1>1, <1>2, <1>3, <2>1, SizesAssumption DEF Slots
  <1>5. CASE b = a
    BY <1>1, <1>5, SizesAssumption DEF Slots
  <1>6. CASE b < a
    <2>1. N * (a - b) >= N
      BY <1>1, <1>6, TimesAtLeast
    <2> QED BY <1>1, <1>2, <1>3, <2>1, SizesAssumption DEF Slots
  <1> QED BY <1>1, <1>4, <1>5, <1>6

(* The slot after that of one trace is that of the next.                   *)
LEMMA NextSlotOf ==
  ASSUME NEW n \in Nat
  PROVE  NextSlot(SlotOf(n)) = SlotOf(n + 1)
  <1> DEFINE N == TRACE_ENTRIES_NUM
             q == (n + 1) \div N
             r == (n + 1) % N
             s == (n + 2) % N
             p == (n + 2) \div N
             t == (r + 1) % N
             o == (r + 1) \div N
  <1>1. q \in Int /\ r \in Slots /\ n + 1 = N * q + r
    BY Division, n + 1 \in Nat
  <1>2. p \in Int /\ s \in Slots /\ n + 2 = N * p + s
    BY Division, n + 2 \in Nat
  <1>3. o \in Int /\ t \in Slots /\ r + 1 = N * o + t
    BY Division, <1>1, r + 1 \in Nat, SizesAssumption DEF Slots
  <1>4. SlotOf(n) = r /\ NextSlot(SlotOf(n)) = t /\ SlotOf(n + 1) = s
    <2>1. n + 1 + 1 = n + 2
      OBVIOUS
    <2> QED BY <2>1 DEF SlotOf, NextSlot
  <1> HIDE DEF q, r, s, p, t, o
  <1>5. N * (q + o) = N * q + N * o
    BY <1>1, <1>3, SizesAssumption
  <1>6. N * q \in Int /\ N * o \in Int /\ N * p \in Int
    BY <1>1, <1>2, <1>3, SizesAssumption
  <1>7. N * (q + o) + t = N * p + s
    BY <1>1, <1>2, <1>3, <1>5, <1>6, SizesAssumption DEF Slots
  <1>8. t = s
    BY <1>1, <1>2, <1>3, <1>7, RemainderUnique, q + o \in Int
  <1> QED BY <1>4, <1>8

-----------------------------------------------------------------------------
Entries == [slot : Slots, head : Traces, tail : Traces, linux_time : 0 .. clock]

LEMMA TraceType ==
  ASSUME NEW n \in 0 .. MaxTraces, NEW m \in Nat, m <= clock, clock \in Nat
  PROVE  Trace(n, m) \in Traces
  BY DEF Trace, Traces

LEMMA SlotsType == 0 \in Slots /\ 1 \in Slots /\ Slots \subseteq Nat
  BY SizesAssumption DEF Slots

LEMMA TypeInvInit == Init => TypeInv
  <1> SUFFICES ASSUME Init PROVE TypeInv
    OBVIOUS
  <1>1. Allocating = {}
    BY DEF Init, Allocating
  <1>2. IsFiniteSet(Allocating) /\ Cardinality(Allocating) = 0
    BY <1>1, FS_EmptySet
  <1>3. NoTrace \in Traces
    BY SizesAssumption, TraceType DEF Init, NoTrace
  <1>4. extracted \in Seq(Entries)
    BY DEF Init
  <1>5. wr_ind_ \in Slots /\ slot \in [Writers -> Slots] /\ min_index \in Slots \cup {-1}
    BY SlotsType DEF Init
  <1>6. /\ head \in [Slots -> Traces] /\ tail \in [Slots -> Traces]
        /\ tmp_entry \in [Writers -> Traces]
    BY <1>3 DEF Init
  <1>7. ind \in 0 .. TRACE_ENTRIES_NUM /\ min_time \in 0 .. clock
    BY SizesAssumption DEF Init
  <1>8. TypeOK
    BY <1>4, <1>5, <1>6, <1>7 DEF Init, TypeOK, Entries
  <1>9. /\ allocs = 0 /\ clock = 1 /\ starts = 0
    BY DEF Init
  <1>10. allocs \in Nat /\ clock \in Nat \ {0} /\ starts \in Nat
    BY <1>9
  <1>12. allocs + Cardinality(Allocating) <= MaxTraces
    BY <1>2, <1>9, SizesAssumption
  <1> QED BY <1>2, <1>8, <1>10, <1>12 DEF TypeInv

LEMMA TypeInvStep == TypeInv /\ Scanning /\ [Next]_vars => TypeInv'
  <1> SUFFICES ASSUME TypeInv, Scanning, [Next]_vars PROVE TypeInv'
    OBVIOUS
  <1> USE SizesAssumption
  <1> USE DEF TypeInv
  <1>a. /\ active_ \in BOOLEAN
        /\ wr_ind_ \in Slots
        /\ status \in [Slots -> {"DATA_IND", "NO_DATA_IND"}]
        /\ head \in [Slots -> Traces]
        /\ tail \in [Slots -> Traces]
        /\ pc \in [Writers -> {"idle", "alloc", "time", "copy1", "copy2", "copy3"}]
        /\ slot \in [Writers -> Slots]
        /\ tmp_entry \in [Writers -> Traces]
        /\ reader \in {"idle", "call", "scan", "compare", "min", "vals", "time", "clear",
                       "done"}
        /\ ind \in 0 .. TRACE_ENTRIES_NUM
        /\ min_index \in Slots \cup {-1}
        /\ min_time \in 0 .. clock
        /\ extracted \in Seq(Entries)
        /\ written \subseteq Traces /\ before \subseteq Traces
        /\ late \subseteq 1 .. MaxTraces
        /\ raced \subseteq Slots
        /\ allocs \in Nat /\ clock \in Nat \ {0}
        /\ starts \in Nat
        /\ IsFiniteSet(Allocating)
        /\ allocs + Cardinality(Allocating) <= MaxTraces
    BY DEF TypeOK, Entries
  <1>b. Cardinality(Allocating) \in Nat
    BY <1>a, FS_CardinalityType
  <1>c. SUFFICES
        /\ active_' \in BOOLEAN
        /\ wr_ind_' \in Slots
        /\ status' \in [Slots -> {"DATA_IND", "NO_DATA_IND"}]
        /\ head' \in [Slots -> Traces']
        /\ tail' \in [Slots -> Traces']
        /\ pc' \in [Writers -> {"idle", "alloc", "time", "copy1", "copy2", "copy3"}]
        /\ slot' \in [Writers -> Slots]
        /\ tmp_entry' \in [Writers -> Traces']
        /\ reader' \in {"idle", "call", "scan", "compare", "min", "vals", "time", "clear",
                        "done"}
        /\ ind' \in 0 .. TRACE_ENTRIES_NUM
        /\ min_index' \in Slots \cup {-1}
        /\ min_time' \in 0 .. clock'
        /\ extracted' \in Seq(Entries')
        /\ written' \subseteq Traces' /\ before' \subseteq Traces'
        /\ late' \subseteq 1 .. MaxTraces
        /\ raced' \subseteq Slots
        /\ allocs' \in Nat /\ clock' \in Nat \ {0}
        /\ starts' \in Nat
        /\ IsFiniteSet(Allocating')
        /\ allocs' + Cardinality(Allocating') <= MaxTraces
    BY DEF TypeOK, Entries, Slots
  <1>d. ASSUME UNCHANGED clock PROVE Traces' = Traces /\ Entries' = Entries
    BY <1>d DEF Traces, Entries, Slots
  <1>e. ASSUME UNCHANGED pc PROVE Allocating' = Allocating
    BY <1>e DEF Allocating
  <1>1. ASSUME NEW t \in Writers, AddTraceCall(t) PROVE <1>c!1
    <2>1. Traces' = Traces /\ Entries' = Entries
      BY <1>1, <1>d DEF AddTraceCall
    <2>2. t \notin Allocating /\ Allocating' = Allocating \cup {t}
      BY <1>1, <1>a DEF AddTraceCall, Allocating
    <2>3. /\ IsFiniteSet(Allocating')
          /\ Cardinality(Allocating') = Cardinality(Allocating) + 1
      BY <2>2, <1>a, FS_AddElement
    <2>4. allocs + Cardinality(Allocating) < MaxTraces
      BY <1>1 DEF AddTraceCall, Allocating
    <2>5. allocs' + Cardinality(Allocating') <= MaxTraces
      BY <1>1, <2>3, <2>4, <1>a, <1>b DEF AddTraceCall, history
    <2> QED BY <1>1, <1>a, <2>1, <2>3, <2>5 DEF AddTraceCall, ring, readerVars, history
  <1>2. ASSUME NEW t \in Writers, AllocPoolChunk(t) PROVE <1>c!1
    <2>1. Traces' = Traces /\ Entries' = Entries
      BY <1>2, <1>d DEF AllocPoolChunk
    <2>2. t \in Allocating /\ Allocating' = Allocating \ {t}
      BY <1>2, <1>a DEF AllocPoolChunk, Allocating
    <2>3. /\ IsFiniteSet(Allocating')
          /\ Cardinality(Allocating') = Cardinality(Allocating) - 1
      BY <2>2, <1>a, FS_RemoveElement
    <2>4. allocs' = allocs + 1
      BY <1>2 DEF AllocPoolChunk
    <2>5. allocs' + Cardinality(Allocating') <= MaxTraces
      BY <2>3, <2>4, <1>a, <1>b
    <2>6. Cardinality(Allocating') \in Nat
      BY <2>3, FS_CardinalityType
    <2>7. allocs' \in 1 .. MaxTraces
      BY <2>4, <2>5, <2>6, <1>a
    <2>8. Trace(allocs', 0) \in Traces
      BY <2>7, <1>a, TraceType
    <2>9. wr_ind_' \in Slots
      <3>1. wr_ind_ + 1 \in Nat
        BY <1>a DEF Slots
      <3> QED BY <1>2, <3>1, Division DEF AllocPoolChunk, NextSlot
    <2>10. raced' \subseteq Slots
      BY <1>2, <1>a, <2>9 DEF AllocPoolChunk
    <2>11. late' \subseteq 1 .. MaxTraces
      BY <1>2, <1>a, <2>7 DEF AllocPoolChunk
    <2>12. tmp_entry' \in [Writers -> Traces'] /\ slot' \in [Writers -> Slots]
      BY <1>2, <1>a, <2>1, <2>8, <2>9 DEF AllocPoolChunk
    <2>13. pc' \in [Writers -> {"idle", "alloc", "time", "copy1", "copy2", "copy3"}]
      BY <1>2, <1>a DEF AllocPoolChunk
    <2> QED BY <1>2, <1>a, <2>1, <2>3, <2>4, <2>5, <2>9, <2>10, <2>11, <2>12, <2>13
            DEF AllocPoolChunk, readerVars
  <1>3. ASSUME NEW t \in Writers, TakeTime(t) PROVE <1>c!1
    <2>1. clock' = clock + 1 /\ clock' \in Nat \ {0}
      BY <1>3, <1>a DEF TakeTime
    <2>2. Traces \subseteq Traces'
      BY <2>1, <1>a DEF Traces
    <2>3. Entries \subseteq Entries'
      <3>1. 0 .. clock \subseteq 0 .. clock'
        BY <2>1, <1>a
      <3> QED BY <2>2, <3>1 DEF Entries, Slots
    <2>4. extracted' \in Seq(Entries')
      <3>1. extracted' = extracted
        BY <1>3 DEF TakeTime, history
      <3>2. extracted \in Seq(Entries')
        BY <1>a, <2>3, SeqMonotonic
      <3> QED BY <3>1, <3>2
    <2>5. Allocating' = Allocating
      BY <1>3, <1>a DEF TakeTime, Allocating
    <2>6. [tmp_entry[t] EXCEPT !.linux_time = clock] \in Traces'
      <3>1. tmp_entry[t] \in Traces
        BY <1>a
      <3>2. tmp_entry[t] = Trace(tmp_entry[t].seq, tmp_entry[t].linux_time)
        BY <3>1 DEF Traces, Trace
      <3>3. [tmp_entry[t] EXCEPT !.linux_time = clock] = Trace(tmp_entry[t].seq, clock)
        BY <3>2 DEF Trace
      <3>4. tmp_entry[t].seq \in 0 .. MaxTraces /\ clock \in 0 .. clock'
        BY <3>1, <2>1, <1>a DEF Traces
      <3> QED BY <3>3, <3>4 DEF Traces, Trace
    <2>7. tmp_entry' \in [Writers -> Traces']
      BY <1>3, <1>a, <2>2, <2>6 DEF TakeTime
    <2>8. head' \in [Slots -> Traces'] /\ tail' \in [Slots -> Traces']
      BY <1>3, <1>a, <2>2 DEF TakeTime, ring
    <2>9. min_time' \in 0 .. clock'
      BY <1>3, <1>a, <2>1 DEF TakeTime, readerVars
    <2>10. written' \subseteq Traces' /\ before' \subseteq Traces'
      BY <1>3, <1>a, <2>2 DEF TakeTime, history
    <2> QED BY <1>3, <1>a, <2>1, <2>4, <2>5, <2>7, <2>8, <2>9, <2>10
            DEF TakeTime, ring, readerVars, history
  <1>4. ASSUME NEW t \in Writers, CopyHead(t) PROVE <1>c!1
    <2>1. Traces' = Traces /\ Entries' = Entries
      BY <1>4, <1>d DEF CopyHead
    <2>2. Allocating' = Allocating
      BY <1>4, <1>a DEF CopyHead, Allocating
    <2> QED BY <1>4, <1>a, <2>1, <2>2 DEF CopyHead, readerVars, history
  <1>4b. ASSUME NEW t \in Writers, CopyStatus(t) PROVE <1>c!1
    <2>1. Traces' = Traces /\ Entries' = Entries
      BY <1>4b, <1>d DEF CopyStatus
    <2>2. Allocating' = Allocating
      BY <1>4b, <1>a DEF CopyStatus, Allocating
    <2> QED BY <1>4b, <1>a, <2>1, <2>2 DEF CopyStatus, readerVars, history
  <1>5. ASSUME NEW t \in Writers, CopyTail(t) PROVE <1>c!1
    <2>1. Traces' = Traces /\ Entries' = Entries
      BY <1>5, <1>d DEF CopyTail
    <2>2. Allocating' = Allocating
      BY <1>5, <1>a DEF CopyTail, Allocating
    <2> QED BY <1>5, <1>a, <2>1, <2>2 DEF CopyTail, readerVars
  <1>6. ASSUME RTDBG_Stop PROVE <1>c!1
    <2>1. Traces' = Traces /\ Entries' = Entries /\ Allocating' = Allocating
      BY <1>6, <1>d, <1>e DEF RTDBG_Stop, writerVars
    <2>2. \A i \in DOMAIN extracted : extracted[i].head \in Traces
      <3>1. \A i \in DOMAIN extracted : extracted[i] \in Entries
        BY <1>a, ElementOfSeq, LenProperties
      <3> QED BY <3>1 DEF Entries
    <2>3. before' \subseteq Traces
      BY <1>6, <1>a, <2>2 DEF RTDBG_Stop
    <2>4. raced' \subseteq Slots
      BY <1>6, <1>a DEF RTDBG_Stop, Held
    <2>5. extracted' \in Seq(Entries)
      BY <1>6 DEF RTDBG_Stop
    <2> QED BY <1>6, <1>a, <2>1, <2>3, <2>4, <2>5 DEF RTDBG_Stop, ring, writerVars
  <1>7. ASSUME RTDBG_Start PROVE <1>c!1
    <2>1. Traces' = Traces /\ Entries' = Entries /\ Allocating' = Allocating
      BY <1>7, <1>d, <1>e DEF RTDBG_Start, writerVars
    <2> QED BY <1>7, <1>a, <2>1 DEF RTDBG_Start, ring, writerVars, readerVars, history
  <1>8. ASSUME GetTraceEntryRefused PROVE <1>c!1
    <2>1. Traces' = Traces /\ Entries' = Entries /\ Allocating' = Allocating
      BY <1>8, <1>d, <1>e DEF GetTraceEntryRefused, writerVars
    <2> QED BY <1>8, <1>a, <2>1 DEF GetTraceEntryRefused, ring, writerVars, history
  <1>9. ASSUME GetTraceEntryCall PROVE <1>c!1
    <2>1. Traces' = Traces /\ Entries' = Entries /\ Allocating' = Allocating
      BY <1>9, <1>d, <1>e DEF GetTraceEntryCall, writerVars
    <2>2. /\ ind' \in 0 .. TRACE_ENTRIES_NUM /\ min_time' \in 0 .. clock'
          /\ min_index' \in Slots \cup {-1}
      BY <1>9, <1>a DEF GetTraceEntryCall
    <2> QED BY <1>9, <1>a, <2>1, <2>2 DEF GetTraceEntryCall, ring, writerVars, history
  <1>10. ASSUME GetTraceEntryScan PROVE <1>c!1
    <2>1. Traces' = Traces /\ Entries' = Entries /\ Allocating' = Allocating
      BY <1>10, <1>d, <1>e DEF GetTraceEntryScan, writerVars
    <2>2. ind' \in 0 .. TRACE_ENTRIES_NUM
      BY <1>10, <1>a DEF GetTraceEntryScan, ScanEnds
    <2> QED BY <1>10, <1>a, <2>1, <2>2 DEF GetTraceEntryScan, ring, writerVars, history
  <1>10b. ASSUME GetTraceEntryCompare PROVE <1>c!1
    <2>1. Traces' = Traces /\ Entries' = Entries /\ Allocating' = Allocating
      BY <1>10b, <1>d, <1>e DEF GetTraceEntryCompare, writerVars
    <2>2. ind' \in 0 .. TRACE_ENTRIES_NUM
      BY <1>10b, <1>a DEF GetTraceEntryCompare, Scanning, Slots
    <2> QED BY <1>10b, <1>a, <2>1, <2>2
            DEF GetTraceEntryCompare, ring, writerVars, history
  <1>10c. ASSUME GetTraceEntryMin PROVE <1>c!1
    <2>1. Traces' = Traces /\ Entries' = Entries /\ Allocating' = Allocating
      BY <1>10c, <1>d, <1>e DEF GetTraceEntryMin, writerVars
    <2>2. ind \in Slots /\ ind' \in 0 .. TRACE_ENTRIES_NUM
      BY <1>10c, <1>a DEF GetTraceEntryMin, Scanning, Slots
    <2>3. head[ind].linux_time \in 0 .. clock
      <3>1. head[ind] \in Traces
        BY <1>a, <2>2
      <3> QED BY <3>1 DEF Traces
    <2>4. min_time' \in 0 .. clock' /\ min_index' \in Slots \cup {-1}
      BY <1>10c, <1>a, <2>2, <2>3 DEF GetTraceEntryMin
    <2> QED BY <1>10c, <1>a, <2>1, <2>2, <2>4
            DEF GetTraceEntryMin, ring, writerVars, history
  <1>11. ASSUME GetTraceEntryRead PROVE <1>c!1
    <2>1. Traces' = Traces /\ Entries' = Entries /\ Allocating' = Allocating
      BY <1>11, <1>d, <1>e DEF GetTraceEntryRead, writerVars
    <2>2. min_index \in Slots /\ head[min_index] \in Traces
      BY <1>11, <1>a DEF GetTraceEntryRead
    <2>3. NoTrace \in Traces
      BY <1>a, TraceType DEF NoTrace
    <2>4. [slot |-> min_index, head |-> head[min_index], tail |-> NoTrace,
           linux_time |-> 0] \in Entries
      BY <2>2, <2>3, <1>a DEF Entries
    <2>5. extracted' \in Seq(Entries)
      BY <1>11, <1>a, <2>4, AppendProperties DEF GetTraceEntryRead
    <2> QED BY <1>11, <1>a, <2>1, <2>5 DEF GetTraceEntryRead, ring, writerVars
  <1>12. ASSUME GetTraceEntryVals PROVE <1>c!1
    <2>1. Traces' = Traces /\ Entries' = Entries /\ Allocating' = Allocating
      BY <1>12, <1>d, <1>e DEF GetTraceEntryVals, writerVars
    <2>2. /\ min_index \in Slots /\ tail[min_index] \in Traces
          /\ Len(extracted) \in 1 .. Len(extracted) /\ Last \in Entries
      <3>1. min_index # -1 /\ extracted # << >>
        BY <1>12 DEF GetTraceEntryVals, Scanning, Returning
      <3>2. Len(extracted) \in Nat \ {0}
        BY <3>1, <1>a, EmptySeq
      <3>3. Last \in Entries
        BY <3>2, <1>a, ElementOfSeq DEF Last
      <3> QED BY <3>1, <3>2, <3>3, <1>a
    <2>3. [Last EXCEPT !.tail = tail[min_index]] \in Entries
      BY <2>2 DEF Entries
    <2>4. extracted' = [extracted EXCEPT ![Len(extracted)] =
                                    [Last EXCEPT !.tail = tail[min_index]]]
      BY <1>12 DEF GetTraceEntryVals, Last
    <2>5. extracted' \in Seq(Entries)
      BY <1>a, <2>2, <2>3, <2>4, ExceptSeq
    <2> QED BY <1>12, <1>a, <2>1, <2>5 DEF GetTraceEntryVals, ring, writerVars
  <1>12b. ASSUME GetTraceEntryTime PROVE <1>c!1
    <2>1. Traces' = Traces /\ Entries' = Entries /\ Allocating' = Allocating
      BY <1>12b, <1>d, <1>e DEF GetTraceEntryTime, writerVars
    <2>2. /\ min_index \in Slots /\ head[min_index].linux_time \in 0 .. clock
          /\ Len(extracted) \in 1 .. Len(extracted) /\ Last \in Entries
      <3>1. min_index # -1 /\ extracted # << >>
        BY <1>12b DEF GetTraceEntryTime, Scanning, Returning
      <3>2. Len(extracted) \in Nat \ {0}
        BY <3>1, <1>a, EmptySeq
      <3>3. Last \in Entries
        BY <3>2, <1>a, ElementOfSeq DEF Last
      <3>4. head[min_index] \in Traces
        BY <3>1, <1>a
      <3> QED BY <3>1, <3>2, <3>3, <3>4, <1>a DEF Traces
    <2>3. [Last EXCEPT !.linux_time = head[min_index].linux_time] \in Entries
      BY <2>2 DEF Entries
    <2>4. extracted' = [extracted EXCEPT ![Len(extracted)] =
                         [Last EXCEPT !.linux_time = head[min_index].linux_time]]
      BY <1>12b DEF GetTraceEntryTime, Last
    <2>5. extracted' \in Seq(Entries)
      BY <1>a, <2>2, <2>3, <2>4, ExceptSeq
    <2> QED BY <1>12b, <1>a, <2>1, <2>5 DEF GetTraceEntryTime, ring, writerVars
  <1>13. ASSUME GetTraceEntryReturn PROVE <1>c!1
    <2>1. Traces' = Traces /\ Entries' = Entries /\ Allocating' = Allocating
      BY <1>13, <1>d, <1>e DEF GetTraceEntryReturn, writerVars
    <2>2. status' \in [Slots -> {"DATA_IND", "NO_DATA_IND"}]
      BY <1>13, <1>a DEF GetTraceEntryReturn, Clear
    <2> QED BY <1>13, <1>a, <2>1, <2>2 DEF GetTraceEntryReturn, writerVars, history
  <1>14. ASSUME GetTraceEntryNone PROVE <1>c!1
    <2>1. Traces' = Traces /\ Entries' = Entries /\ Allocating' = Allocating
      BY <1>14, <1>d, <1>e DEF GetTraceEntryNone, writerVars
    <2> QED BY <1>14, <1>a, <2>1 DEF GetTraceEntryNone, ring, writerVars, history
  <1>16. ASSUME UNCHANGED vars PROVE <1>c!1
    <2>1. Traces' = Traces /\ Entries' = Entries /\ Allocating' = Allocating
      BY <1>16, <1>d, <1>e DEF vars, writerVars
    <2> QED BY <1>16, <1>a, <2>1 DEF vars, ring, writerVars, readerVars, history
  <1> QED BY <1>1, <1>2, <1>3, <1>4, <1>4b, <1>5, <1>6, <1>7, <1>8, <1>9, <1>10,
             <1>10b, <1>10c, <1>11, <1>12, <1>12b, <1>13, <1>14, <1>16
          DEF Next, WriterStep, ReaderStep

-----------------------------------------------------------------------------
(* The types, one field at a time.                                         *)
LEMMA Fields ==
  ASSUME TypeInv
  PROVE  /\ allocs \in Nat /\ clock \in Nat \ {0}
         /\ \A k \in Slots : /\ head[k].seq \in Nat /\ head[k].linux_time \in Nat
                             /\ head[k] = Trace(head[k].seq, head[k].linux_time)
         /\ \A t \in Writers :
              /\ tmp_entry[t].seq \in Nat /\ tmp_entry[t].linux_time \in Nat
              /\ tmp_entry[t] = Trace(tmp_entry[t].seq, tmp_entry[t].linux_time)
         /\ extracted \in Seq(Entries)
         /\ Len(extracted) \in Nat /\ DOMAIN extracted = 1 .. Len(extracted)
         /\ \A i \in DOMAIN extracted :
              /\ extracted[i] \in Entries
              /\ extracted[i].head.seq \in Nat
              /\ extracted[i].head.linux_time \in Nat
         /\ \A e \in Extracted \cup written : e.seq \in Nat /\ e.linux_time \in Nat
  <1>1. \A e \in Traces : /\ e.seq \in Nat /\ e.linux_time \in Nat
                          /\ e = Trace(e.seq, e.linux_time)
    BY SizesAssumption DEF TypeInv, Traces, Trace
  <1>2. /\ head \in [Slots -> Traces] /\ tmp_entry \in [Writers -> Traces]
        /\ extracted \in Seq(Entries)
        /\ written \subseteq Traces /\ before \subseteq Traces
        /\ allocs \in Nat /\ clock \in Nat \ {0}
    BY DEF TypeInv, TypeOK, Entries
  <1>3. Len(extracted) \in Nat /\ DOMAIN extracted = 1 .. Len(extracted)
    BY <1>2, LenProperties
  <1>4. \A i \in DOMAIN extracted : extracted[i] \in Entries
    BY <1>2, <1>3, ElementOfSeq
  <1>5. \A i \in DOMAIN extracted : extracted[i].head \in Traces
    BY <1>4 DEF Entries
  <1>6. Extracted \cup written \subseteq Traces
    BY <1>2, <1>5 DEF Extracted
  <1> QED BY <1>1, <1>2, <1>3, <1>4, <1>5, <1>6

LEMMA Ranges ==
  ASSUME TypeInv
  PROVE  /\ status \in [Slots -> {"DATA_IND", "NO_DATA_IND"}]
         /\ DOMAIN head = Slots /\ DOMAIN tail = Slots
         /\ pc \in [Writers -> {"idle", "alloc", "time", "copy1", "copy2", "copy3"}]
         /\ slot \in [Writers -> Slots] /\ DOMAIN tmp_entry = Writers
         /\ min_index \in Slots \cup {-1} /\ raced \subseteq Slots
         /\ head \in [Slots -> Traces] /\ tail \in [Slots -> Traces]
         /\ tmp_entry \in [Writers -> Traces]
  BY DEF TypeInv, TypeOK

(* What a step leaves alone.                                               *)
LEMMA WriterFrame ==
  ASSUME NEW t \in Writers,
         \/ AddTraceCall(t) \/ AllocPoolChunk(t) \/ TakeTime(t)
         \/ CopyHead(t) \/ CopyStatus(t) \/ CopyTail(t)
  PROVE  /\ UNCHANGED <<active_, reader, ind, min_index, min_time, starts,
                        extracted, before>>
         /\ Extracted' = Extracted
  BY DEF AddTraceCall, AllocPoolChunk, TakeTime, CopyHead, CopyStatus, CopyTail,
         readerVars, history, Extracted

LEMMA ReaderFrame ==
  ASSUME ReaderStep
  PROVE  UNCHANGED <<active_, wr_ind_, head, tail, pc, slot, tmp_entry, clock,
                     starts, allocs, written, before, late, raced>>
  BY DEF ReaderStep, GetTraceEntryRefused, GetTraceEntryCall, GetTraceEntryScan,
         GetTraceEntryCompare, GetTraceEntryMin, GetTraceEntryRead, GetTraceEntryVals,
         GetTraceEntryTime, GetTraceEntryReturn, GetTraceEntryNone,
         ring, writerVars, history

(* How a step changes what was extracted.                                  *)
LEMMA ReadExtracts ==
  ASSUME TypeInv, GetTraceEntryRead
  PROVE  LET n == Len(extracted) + 1 IN
         /\ min_index \in Slots
         /\ Len(extracted') = n /\ DOMAIN extracted' = 1 .. n
         /\ \A i \in 1 .. Len(extracted) : extracted'[i] = extracted[i]
         /\ extracted'[n].head = head[min_index] /\ extracted'[n].slot = min_index
         /\ extracted' # << >>
         /\ Extracted' = Extracted \cup {head[min_index]}
  <1> DEFINE n == Len(extracted) + 1
             e == [slot |-> min_index, head |-> head[min_index], tail |-> NoTrace,
                   linux_time |-> 0]
  <1>1. min_index \in Slots /\ head[min_index] \in Traces
    BY Ranges DEF GetTraceEntryRead
  <1>2. e \in Entries
    <2>1. NoTrace \in Traces
      BY Fields, SizesAssumption, TraceType DEF NoTrace
    <2>2. 0 \in 0 .. clock
      BY Fields
    <2> QED BY <1>1, <2>1, <2>2 DEF Entries
  <1>3. extracted \in Seq(Entries) /\ extracted' = Append(extracted, e)
        /\ Len(extracted) \in Nat /\ DOMAIN extracted = 1 .. Len(extracted)
    BY Fields DEF GetTraceEntryRead
  <1> HIDE DEF e
  <1>4. /\ Len(extracted') = n
        /\ \A i \in 1 .. Len(extracted) : extracted'[i] = extracted[i]
        /\ extracted'[n] = e
        /\ extracted' \in Seq(Entries)
    BY <1>2, <1>3, AppendProperties
  <1>5. DOMAIN extracted' = 1 .. n /\ extracted' # << >>
    BY <1>3, <1>4, LenProperties, EmptySeq
  <1>6. e.head = head[min_index] /\ e.slot = min_index
    BY DEF e
  <1>7. before' = before
    BY DEF GetTraceEntryRead
  <1>8. {extracted'[i].head : i \in DOMAIN extracted'}
        = {extracted[i].head : i \in DOMAIN extracted} \cup {head[min_index]}
    BY <1>3, <1>4, <1>5, <1>6
  <1>9. Extracted' = Extracted \cup {head[min_index]}
    BY <1>7, <1>8 DEF Extracted
  <1> QED BY <1>1, <1>4, <1>5, <1>6, <1>9

(* The entry that is being returned changes, but not in head and slot.     *)
LEMMA LastChanges ==
  ASSUME TypeInv, Scanning, Returning, NEW e \in Entries,
         e.head = Last.head, e.slot = Last.slot,
         extracted' = [extracted EXCEPT ![Len(extracted)] = e], before' = before
  PROVE  /\ min_index \in Slots
         /\ Len(extracted) \in Nat \ {0}
         /\ Len(extracted') = Len(extracted) /\ DOMAIN extracted' = DOMAIN extracted
         /\ DOMAIN extracted = 1 .. Len(extracted)
         /\ \A i \in DOMAIN extracted :
              /\ extracted'[i].head = extracted[i].head
              /\ extracted'[i].slot = extracted[i].slot
              /\ i # Len(extracted) => extracted'[i] = extracted[i]
         /\ Last' = e
         /\ extracted' # << >>
         /\ Extracted' = Extracted
  <1> DEFINE n == Len(extracted)
  <1>1. min_index \in Slots /\ n \in Nat \ {0}
    <2>1. min_index # -1 /\ extracted # << >>
      BY DEF Scanning
    <2>2. n \in Nat \ {0}
      BY <2>1, Fields, EmptySeq
    <2> QED BY <2>1, <2>2, Ranges
  <1>4. /\ extracted' \in Seq(Entries)
        /\ Len(extracted') = n
        /\ \A j \in 1 .. n : extracted'[j] = IF j = n THEN e ELSE extracted[j]
    BY <1>1, Fields, ExceptSeq
  <1>5. DOMAIN extracted' = 1 .. n /\ DOMAIN extracted = 1 .. n
    BY <1>4, Fields, LenProperties
  <1>6. extracted' # << >>
    BY <1>1, <1>4, EmptySeq
  <1>7. \A i \in DOMAIN extracted :
          /\ extracted'[i].head = extracted[i].head
          /\ extracted'[i].slot = extracted[i].slot
          /\ i # n => extracted'[i] = extracted[i]
    BY <1>4, <1>5 DEF Last
  <1>8. Last' = e
    BY <1>1, <1>4 DEF Last
  <1>9. Extracted' = Extracted
    BY <1>5, <1>7 DEF Extracted
  <1> QED BY <1>1, <1>4, <1>5, <1>6, <1>7, <1>8, <1>9

(* So it is when vals are read, and when the time is read to be returned.  *)
PartRead == GetTraceEntryVals \/ GetTraceEntryTime

LEMMA PartReadExtracts ==
  ASSUME TypeInv, Scanning, PartRead
  PROVE  /\ min_index \in Slots
         /\ Len(extracted) \in Nat \ {0}
         /\ Len(extracted') = Len(extracted) /\ DOMAIN extracted' = DOMAIN extracted
         /\ DOMAIN extracted = 1 .. Len(extracted)
         /\ \A i \in DOMAIN extracted :
              /\ extracted'[i].head = extracted[i].head
              /\ extracted'[i].slot = extracted[i].slot
              /\ i # Len(extracted) => extracted'[i] = extracted[i]
         /\ Last'.head = Last.head /\ Last'.slot = Last.slot
         /\ GetTraceEntryVals => Last'.tail = tail[min_index]
         /\ GetTraceEntryTime => /\ Last'.tail = Last.tail
                                 /\ Last'.linux_time = head[min_index].linux_time
         /\ extracted' # << >>
         /\ Extracted' = Extracted
  <1>1. Returning /\ before' = before
    BY DEF PartRead, GetTraceEntryVals, GetTraceEntryTime, Returning
  <1>2. min_index \in Slots /\ Last \in Entries
    <2>1. min_index # -1 /\ extracted # << >>
      BY <1>1 DEF Scanning
    <2>2. Len(extracted) \in Nat \ {0}
      BY <2>1, Fields, EmptySeq
    <2>3. Last \in Entries
      BY <2>2, Fields, ElementOfSeq DEF Last
    <2> QED BY <2>1, <2>3, Ranges
  <1>3. CASE GetTraceEntryVals
    <2> DEFINE e == [Last EXCEPT !.tail = tail[min_index]]
    <2>1. tail[min_index] \in Traces
      BY <1>2, Ranges
    <2>2. e \in Entries /\ e.head = Last.head /\ e.slot = Last.slot /\ e.tail = tail[min_index]
      BY <1>2, <2>1 DEF Entries
    <2>3. extracted' = [extracted EXCEPT ![Len(extracted)] = e]
      BY <1>3 DEF GetTraceEntryVals, Last
    <2>4. ~GetTraceEntryTime
      BY <1>3 DEF GetTraceEntryVals, GetTraceEntryTime
    <2> HIDE DEF e
    <2> QED BY <1>1, <2>2, <2>3, <2>4, LastChanges
  <1>4. CASE GetTraceEntryTime
    <2> DEFINE e == [Last EXCEPT !.linux_time = head[min_index].linux_time]
    <2>1. head[min_index].linux_time \in 0 .. clock
      <3>1. head[min_index] \in Traces
        BY <1>2, Ranges
      <3> QED BY <3>1 DEF Traces
    <2>2. /\ e \in Entries /\ e.head = Last.head /\ e.slot = Last.slot
          /\ e.tail = Last.tail /\ e.linux_time = head[min_index].linux_time
      BY <1>2, <2>1 DEF Entries
    <2>3. extracted' = [extracted EXCEPT ![Len(extracted)] = e]
      BY <1>4 DEF GetTraceEntryTime, Last
    <2>4. ~GetTraceEntryVals
      BY <1>4 DEF GetTraceEntryVals, GetTraceEntryTime
    <2> HIDE DEF e
    <2> QED BY <1>1, <2>2, <2>3, <2>4, LastChanges
  <1> QED BY <1>3, <1>4 DEF PartRead

LEMMA StopForgets ==
  ASSUME RTDBG_Stop
  PROVE  /\ extracted' = << >> /\ DOMAIN extracted' = {}
         /\ before' = Extracted /\ Extracted' = Extracted
  <1>1. extracted' = << >> /\ before' = Extracted
    BY DEF RTDBG_Stop, Extracted
  <1>2. DOMAIN extracted' = {}
    BY <1>1
  <1> QED BY <1>1, <1>2 DEF Extracted

(* The steps of the extractor up to the slot it returns.                   *)
Looks == \/ GetTraceEntryRefused \/ GetTraceEntryCall \/ GetTraceEntryScan
         \/ GetTraceEntryCompare \/ GetTraceEntryMin \/ GetTraceEntryNone

LEMMA OthersExtractNothing ==
  ASSUME \/ RTDBG_Start \/ Looks \/ GetTraceEntryReturn \/ UNCHANGED vars
  PROVE  UNCHANGED <<extracted, before>> /\ Extracted' = Extracted
  BY DEF RTDBG_Start, Looks, GetTraceEntryRefused, GetTraceEntryCall, GetTraceEntryScan,
         GetTraceEntryCompare, GetTraceEntryMin, GetTraceEntryReturn, GetTraceEntryNone,
         vars, history, Extracted

LEMMA LooksFrame ==
  ASSUME Looks
  PROVE  /\ UNCHANGED <<active_, wr_ind_, status, head, tail, pc, slot, tmp_entry, clock,
                        starts, allocs, written, late, raced, extracted, before>>
         /\ ~Returning /\ ~Returning' /\ Extracting
  BY DEF Looks, GetTraceEntryRefused, GetTraceEntryCall, GetTraceEntryScan,
         GetTraceEntryCompare, GetTraceEntryMin, GetTraceEntryNone,
         ring, writerVars, history, Returning, Extracting

-----------------------------------------------------------------------------
LEMMA ScanningStep == TypeInv /\ Scanning /\ [Next]_vars => Scanning'
  <1> SUFFICES ASSUME TypeInv, Scanning, [Next]_vars PROVE Scanning'
    OBVIOUS
  <1> USE DEF Scanning, Full, Returning, Looking
  <1>1. ASSUME NEW t \in Writers,
               \/ AddTraceCall(t) \/ AllocPoolChunk(t) \/ TakeTime(t)
               \/ CopyHead(t) \/ CopyStatus(t) \/ CopyTail(t)
        PROVE  Scanning'
    <2>1. UNCHANGED <<reader, ind, min_index, extracted>>
      BY <1>1, WriterFrame
    <2>2. \A k \in Slots : status[k] = "DATA_IND" => status'[k] = "DATA_IND"
      <3>1. CASE CopyStatus(t)
        BY <3>1, Ranges DEF CopyStatus
      <3>2. CASE ~CopyStatus(t)
        BY <1>1, <3>2
        DEF AddTraceCall, AllocPoolChunk, TakeTime, CopyHead, CopyTail, ring
      <3> QED BY <3>1, <3>2
    <2> QED BY <2>1, <2>2, Ranges DEF Last, Slots
  <1>2. CASE RTDBG_Stop
    BY <1>2 DEF RTDBG_Stop
  <1>3. CASE RTDBG_Start \/ UNCHANGED vars
    BY <1>3 DEF RTDBG_Start, vars, ring, readerVars, history, Last, Slots
  <1>4. CASE GetTraceEntryRefused \/ GetTraceEntryReturn \/ GetTraceEntryNone
    BY <1>4 DEF GetTraceEntryRefused, GetTraceEntryReturn, GetTraceEntryNone
  <1>5. CASE GetTraceEntryCall
    BY <1>5 DEF GetTraceEntryCall
  <1>6. CASE GetTraceEntryScan
    <2>1. ind \in Slots
      BY <1>6, SizesAssumption DEF GetTraceEntryScan, ScanEnds, TypeInv, TypeOK, Slots
    <2> QED BY <1>6, <2>1 DEF GetTraceEntryScan, ring, Slots
  <1>6b. CASE GetTraceEntryCompare
    BY <1>6b DEF GetTraceEntryCompare, ring, Slots
  <1>6c. CASE GetTraceEntryMin
    BY <1>6c DEF GetTraceEntryMin, ring, Slots
  <1>7. CASE GetTraceEntryRead
    <2>1. /\ min_index' = min_index /\ min_index # -1 /\ reader' = "vals"
      BY <1>7 DEF GetTraceEntryRead
    <2> QED BY <1>7, <2>1, ReadExtracts DEF Last
  <1>8. CASE PartRead
    <2>1. /\ min_index' = min_index /\ min_index # -1 /\ reader' \in {"time", "clear"}
          /\ Last.slot = min_index
      BY <1>8 DEF PartRead, GetTraceEntryVals, GetTraceEntryTime
    <2> QED BY <1>8, <2>1, PartReadExtracts
  <1> QED BY <1>1, <1>2, <1>3, <1>4, <1>5, <1>6, <1>6b, <1>6c, <1>7, <1>8
          DEF Next, WriterStep, ReaderStep, PartRead

-----------------------------------------------------------------------------
(* The steps that neither hold, fill nor take out anything.                *)
Still == \/ RTDBG_Stop \/ RTDBG_Start \/ UNCHANGED vars
         \/ Looks \/ PartRead \/ GetTraceEntryReturn

LEMMA StillFrame ==
  ASSUME TypeInv, Scanning, Still
  PROVE  /\ UNCHANGED <<wr_ind_, head, tail, pc, slot, tmp_entry, clock, allocs, written,
                        late>>
         /\ Extracted' = Extracted
         /\ \A k \in Slots : Full(k)' => Full(k)
         /\ ~GetTraceEntryReturn => UNCHANGED status
         /\ raced \subseteq raced'
         /\ ~RTDBG_Stop => DOMAIN extracted' = DOMAIN extracted
         /\ \A i \in DOMAIN extracted' : /\ i \in DOMAIN extracted
                                         /\ extracted'[i].slot = extracted[i].slot
                                         /\ extracted'[i].head = extracted[i].head
  <1>1. CASE RTDBG_Stop
    BY <1>1, StopForgets
    DEF RTDBG_Stop, GetTraceEntryReturn, ring, writerVars, Full
  <1>2. CASE RTDBG_Start \/ UNCHANGED vars
    BY <1>2, OthersExtractNothing
       DEF RTDBG_Start, vars, ring, writerVars, history, Full
  <1>3. CASE Looks
    BY <1>3, OthersExtractNothing, LooksFrame DEF Full
  <1>4. CASE PartRead
    BY <1>4, PartReadExtracts
       DEF PartRead, GetTraceEntryVals, GetTraceEntryTime, ring, writerVars, Full
  <1>5. CASE GetTraceEntryReturn
    <2>1. \A k \in Slots : status'[k] = "DATA_IND" => status[k] = "DATA_IND"
      BY <1>5, Ranges DEF GetTraceEntryReturn, Clear
    <2> QED BY <1>5, <2>1, OthersExtractNothing DEF GetTraceEntryReturn, writerVars, history, Full
  <1> QED BY <1>1, <1>2, <1>3, <1>4, <1>5 DEF Still

LEMMA TurnsInit == Init => Turns
  <1> SUFFICES ASSUME Init PROVE Turns
    OBVIOUS
  <1>1. SlotOf(0) = 1
    BY SizesAssumption DEF SlotOf
  <1>2. Extracted \cup written = {} /\ DOMAIN extracted = {}
    BY DEF Init, Extracted
  <1>3. \A k \in Slots : head[k].seq = 0
    BY DEF Init, NoTrace, Trace
  <1> QED BY <1>1, <1>2, <1>3 DEF Init, Turns, Holding, Copying, Full, Filled

LEMMA TurnsStep == TypeInv /\ Scanning /\ Turns /\ [Next]_vars => Turns'
  <1> SUFFICES ASSUME TypeInv, Scanning, Turns, [Next]_vars PROVE Turns'
    OBVIOUS
  <1>0. \A i \in DOMAIN extracted : extracted[i].slot = SlotOf(extracted[i].head.seq)
    BY DEF Turns
  <1>1. ASSUME NEW t \in Writers, AddTraceCall(t) PROVE Turns'
    <2>1. Extracted' = Extracted /\ UNCHANGED extracted
      BY <1>1, WriterFrame
    <2>2. \A u \in Writers : (Holding(u)' <=> Holding(u)) /\ (Copying(u)' <=> Copying(u))
      BY <1>1, Ranges DEF AddTraceCall, Holding, Copying
    <2> QED BY <1>1, <2>1, <2>2 DEF AddTraceCall, Turns, Full, Filled, ring, history
  <1>2. ASSUME NEW t \in Writers, AllocPoolChunk(t) PROVE Turns'
    <2>1. /\ Extracted' = Extracted /\ allocs' = allocs + 1 /\ allocs \in Nat
          /\ tmp_entry'[t].seq = allocs' /\ slot'[t] = wr_ind_'
          /\ \A u \in Writers \ {t} : tmp_entry'[u] = tmp_entry[u] /\ slot'[u] = slot[u]
          /\ UNCHANGED <<status, head, written, extracted>>
      BY <1>2, WriterFrame, Ranges, Fields DEF AllocPoolChunk, Trace
    <2>2. /\ \A u \in Writers \ {t} : Holding(u)' <=> Holding(u)
          /\ \A u \in Writers : Copying(u)' => u # t /\ Copying(u)
      BY <1>2, Ranges DEF AllocPoolChunk, Holding, Copying
    <2>3. wr_ind_' = SlotOf(allocs')
      BY <1>2, <2>1, NextSlotOf DEF AllocPoolChunk, Turns
    <2>4. 1 .. allocs \subseteq 1 .. allocs' /\ allocs' \in 1 .. allocs'
          /\ allocs' \notin 1 .. allocs
      BY <2>1
    <2>5. \A u \in Writers : Holding(u)' =>
            /\ tmp_entry'[u].seq \in 1 .. allocs'
            /\ slot'[u] = SlotOf(tmp_entry'[u].seq)
            /\ \A v \in Writers :
                 Holding(v)' /\ tmp_entry'[u].seq = tmp_entry'[v].seq => u = v
      BY <2>1, <2>2, <2>3, <2>4 DEF Turns
    <2>6. /\ \A k \in Slots : Filled(k)' => head'[k].seq \in 1 .. allocs' /\ SlotOf(head'[k].seq) = k
          /\ \A k \in Slots : Full(k)' => Filled(k)'
          /\ \A u \in Writers : Copying(u)' => Filled(slot[u]) /\ slot'[u] = slot[u]
      BY <2>1, <2>2, <2>4 DEF Turns, Full, Filled
    <2>7. \A e \in (Extracted \cup written)' : e.seq \in 1 .. allocs'
      BY <2>1, <2>4 DEF Turns
    <2>8. \A u \in Writers : Copying(u)' => Filled(slot[u])'
      BY <2>1, <2>6 DEF Filled
    <2> QED BY <1>0, <2>1, <2>3, <2>5, <2>6, <2>7, <2>8 DEF Turns, Filled
  <1>3. ASSUME NEW t \in Writers, TakeTime(t) PROVE Turns'
    <2>1. /\ Extracted' = Extracted
          /\ UNCHANGED <<wr_ind_, status, head, slot, written, allocs, extracted>>
          /\ \A u \in Writers : tmp_entry'[u].seq = tmp_entry[u].seq
      <3>1. tmp_entry'[t].seq = tmp_entry[t].seq
        BY <1>3, Ranges, Fields DEF TakeTime, Trace
      <3> QED BY <1>3, <3>1, WriterFrame, Ranges DEF TakeTime, ring, history
    <2>2. \A u \in Writers : (Holding(u)' <=> Holding(u)) /\ (Copying(u)' <=> Copying(u))
      BY <1>3, Ranges DEF TakeTime, Holding, Copying
    <2> QED BY <2>1, <2>2 DEF Turns, Full, Filled
  <1>4. ASSUME NEW t \in Writers, CopyHead(t) PROVE Turns'
    <2>1. /\ Extracted' = Extracted
          /\ UNCHANGED <<wr_ind_, slot, tmp_entry, written, allocs, extracted, status>>
          /\ \A k \in Slots : head'[k] = IF k = slot[t] THEN tmp_entry[t] ELSE head[k]
          /\ slot \in [Writers -> Slots]
      BY <1>4, WriterFrame, Ranges DEF CopyHead, history
    <2>2. /\ \A u \in Writers : Holding(u)' <=> Holding(u)
          /\ \A u \in Writers : Copying(u)' => Copying(u) \/ u = t
      BY <1>4, Ranges DEF CopyHead, Holding, Copying
    <2>3. Holding(t)
      BY <1>4 DEF CopyHead, Holding
    <2>4. tmp_entry[t].seq \in 1 .. allocs /\ slot[t] = SlotOf(tmp_entry[t].seq)
      BY <2>3 DEF Turns
    <2>5. tmp_entry[t].seq # 0
      BY <2>4, Fields
    <2>6. \A k \in Slots : Filled(k)' <=> (k = slot[t] \/ Filled(k))
      BY <2>1, <2>5 DEF Filled
    <2>7. \A u \in Writers : Copying(u)' => Filled(slot[u])'
      BY <2>1, <2>2, <2>6 DEF Turns
    <2>8. \A k \in Slots : Filled(k)' =>
            head'[k].seq \in 1 .. allocs' /\ SlotOf(head'[k].seq) = k
      BY <2>1, <2>4, <2>6 DEF Turns
    <2>9. \A k \in Slots : Full(k)' => Filled(k)'
      BY <2>1, <2>6 DEF Turns, Full
    <2> QED BY <2>1, <2>2, <2>7, <2>8, <2>9 DEF Turns, Slots
  <1>4b. ASSUME NEW t \in Writers, CopyStatus(t) PROVE Turns'
    <2>1. /\ Extracted' = Extracted
          /\ UNCHANGED <<wr_ind_, slot, tmp_entry, written, allocs, extracted, head>>
          /\ \A k \in Slots : Full(k)' => Full(k) \/ k = slot[t]
      BY <1>4b, WriterFrame, Ranges DEF CopyStatus, history, Full
    <2>2. \A u \in Writers : (Holding(u)' <=> Holding(u)) /\ (Copying(u)' <=> Copying(u))
      BY <1>4b, Ranges DEF CopyStatus, Holding, Copying
    <2>3. Filled(slot[t])
      BY <1>4b DEF CopyStatus, Copying, Turns
    <2> QED BY <2>1, <2>2, <2>3 DEF Turns, Filled
  <1>5. ASSUME NEW t \in Writers, CopyTail(t) PROVE Turns'
    <2>1. /\ Extracted' = Extracted /\ written' = written \cup {tmp_entry[t]}
          /\ UNCHANGED <<wr_ind_, slot, tmp_entry, allocs, head, status, extracted>>
      BY <1>5, WriterFrame DEF CopyTail, ring
    <2>2. \A u \in Writers : (Holding(u)' => Holding(u)) /\ (Copying(u)' => Copying(u))
      BY <1>5, Ranges DEF CopyTail, Holding, Copying
    <2>3. Holding(t)
      BY <1>5 DEF CopyTail, Holding
    <2> QED BY <2>1, <2>2, <2>3 DEF Turns, Full, Filled
  <1>6. CASE GetTraceEntryRead
    <2> DEFINE n == Len(extracted) + 1
    <2>1. /\ Full(min_index) /\ min_index \in Slots
      BY <1>6, Ranges DEF GetTraceEntryRead, Scanning, Looking
    <2>2. /\ Extracted' = Extracted \cup {head[min_index]}
          /\ DOMAIN extracted' = 1 .. n /\ DOMAIN extracted = 1 .. Len(extracted)
          /\ \A i \in 1 .. Len(extracted) : extracted'[i] = extracted[i]
          /\ extracted'[n].head = head[min_index] /\ extracted'[n].slot = min_index
          /\ Len(extracted) \in Nat
      BY <1>6, ReadExtracts, Fields
    <2>3. head[min_index].seq \in 1 .. allocs /\ SlotOf(head[min_index].seq) = min_index
      BY <2>1 DEF Turns
    <2>4. \A i \in 1 .. n : i \in 1 .. Len(extracted) \/ i = n
      BY <2>2
    <2>5. \A i \in DOMAIN extracted' : extracted'[i].slot = SlotOf(extracted'[i].head.seq)
      BY <1>0, <2>2, <2>3, <2>4
    <2> QED BY <1>6, <2>2, <2>3, <2>5
            DEF GetTraceEntryRead, Turns, Full, Filled, Holding, Copying, ring, writerVars
  <1>7. CASE Still
    <2>1. \A i \in DOMAIN extracted' : extracted'[i].slot = SlotOf(extracted'[i].head.seq)
      BY <1>0, <1>7, StillFrame
    <2> QED BY <1>7, <2>1, StillFrame DEF Turns, Holding, Copying, Filled
  <1> QED BY <1>1, <1>2, <1>3, <1>4, <1>4b, <1>5, <1>6, <1>7
          DEF Next, WriterStep, ReaderStep, Still, Looks, PartRead

LEMMA StampsInit == Init => Stamps
  <1> SUFFICES ASSUME Init PROVE Stamps
    OBVIOUS
  <1>1. \A k \in Slots : ~Filled(k)
    BY DEF Init, NoTrace, Trace, Filled
  <1> QED BY <1>1 DEF Init, Stamps

LEMMA StampsStep == TypeInv /\ Scanning /\ Turns /\ Stamps /\ [Next]_vars => Stamps'
  <1> SUFFICES ASSUME TypeInv, Scanning, Turns, Stamps, [Next]_vars PROVE Stamps'
    OBVIOUS
  <1>1. ASSUME NEW t \in Writers, AddTraceCall(t) \/ CopyStatus(t) \/ CopyTail(t)
        PROVE  Stamps'
    <2>1. UNCHANGED <<head, tmp_entry, clock>>
      BY <1>1 DEF AddTraceCall, CopyStatus, CopyTail, ring
    <2>2. \A u \in Writers : pc'[u] = "copy1" => pc[u] = "copy1"
      BY <1>1, Ranges DEF AddTraceCall, CopyStatus, CopyTail
    <2> QED BY <2>1, <2>2 DEF Stamps, Filled
  <1>2. ASSUME NEW t \in Writers, AllocPoolChunk(t) PROVE Stamps'
    <2>1. UNCHANGED <<head, clock>>
      BY <1>2 DEF AllocPoolChunk
    <2>2. \A u \in Writers : pc'[u] = "copy1" =>
                             pc[u] = "copy1" /\ tmp_entry'[u] = tmp_entry[u]
      BY <1>2, Ranges DEF AllocPoolChunk
    <2> QED BY <2>1, <2>2 DEF Stamps, Filled
  <1>3. ASSUME NEW t \in Writers, TakeTime(t) PROVE Stamps'
    <2>1. /\ UNCHANGED head /\ clock' = clock + 1
          /\ tmp_entry'[t].linux_time = clock
          /\ \A u \in Writers \ {t} : tmp_entry'[u] = tmp_entry[u]
          /\ \A u \in Writers \ {t} : pc'[u] = "copy1" => pc[u] = "copy1"
      BY <1>3, Ranges, Fields DEF TakeTime, Trace, ring
    <2>2. /\ clock \in Nat
          /\ \A k \in Slots : head[k].linux_time \in Nat
          /\ \A u \in Writers : tmp_entry[u].linux_time \in Nat
      BY Fields
    <2>3. \A k \in Slots : Filled(k)' =>
            /\ head'[k].linux_time < clock'
            /\ \A j \in Slots : Filled(j)' /\ head'[j].linux_time = head'[k].linux_time => j = k
      BY <2>1, <2>2 DEF Stamps, Filled
    <2>4. \A u \in Writers : pc'[u] = "copy1" =>
            /\ tmp_entry'[u].linux_time < clock'
            /\ \A v \in Writers :
                 pc'[v] = "copy1" /\ tmp_entry'[v].linux_time = tmp_entry'[u].linux_time => u = v
      BY <2>1, <2>2 DEF Stamps
    <2>5. \A u \in Writers : pc'[u] = "copy1" =>
            \A k \in Slots : Filled(k)' => head'[k].linux_time # tmp_entry'[u].linux_time
      BY <2>1, <2>2 DEF Stamps, Filled
    <2> QED BY <2>3, <2>4, <2>5 DEF Stamps
  <1>4. ASSUME NEW t \in Writers, CopyHead(t) PROVE Stamps'
    <2>1. /\ UNCHANGED <<tmp_entry, clock>> /\ pc[t] = "copy1"
          /\ \A k \in Slots : IF k = slot[t] THEN head'[k] = tmp_entry[t]
                                             ELSE head'[k] = head[k]
          /\ \A u \in Writers : pc'[u] = "copy1" => u # t /\ pc[u] = "copy1"
      BY <1>4, Ranges DEF CopyHead
    <2> QED BY <2>1 DEF Stamps, Filled
  <1>5. CASE GetTraceEntryRead
    BY <1>5 DEF GetTraceEntryRead, Stamps, Filled, ring, writerVars
  <1>6. CASE Still
    BY <1>6, StillFrame DEF Stamps, Filled
  <1> QED BY <1>1, <1>2, <1>3, <1>4, <1>5, <1>6
          DEF Next, WriterStep, ReaderStep, Still, Looks, PartRead

-----------------------------------------------------------------------------
(* The steps of Still but those that end or follow the reading of a slot.  *)
Idle == RTDBG_Start \/ UNCHANGED vars \/ Looks

LEMMA IdleFrame ==
  ASSUME Idle
  PROVE  /\ UNCHANGED <<wr_ind_, status, head, tail, pc, slot, tmp_entry, clock, allocs,
                        written, late, raced, extracted, before>>
         /\ Extracted' = Extracted
         /\ \A k \in Slots : Unread(k)' <=> Unread(k)
         /\ Extracting' => Extracting
         /\ Returning' <=> Returning
         /\ Returning => UNCHANGED <<reader, min_index>>
  <1>1. CASE RTDBG_Start \/ UNCHANGED vars
    BY <1>1, OthersExtractNothing
       DEF RTDBG_Start, vars, ring, writerVars, readerVars, history, Full, Unread,
           Returning, Extracting
  <1>2. CASE Looks
    BY <1>2, LooksFrame, OthersExtractNothing DEF Full, Unread
  <1> QED BY <1>1, <1>2 DEF Idle

LEMMA HoldersAre ==
  ASSUME NEW k
  PROVE  \A t : t \in Holders(k) <=> t \in Writers /\ Holding(t) /\ slot[t] = k
  BY DEF Holders, Holding

LEMMA FreshInit == Init => Fresh
  <1> SUFFICES ASSUME Init PROVE Fresh
    OBVIOUS
  <1>1. DOMAIN extracted = {} /\ Extracted = {} /\ before = {}
    BY DEF Init, Extracted
  <1> QED BY <1>1 DEF Init, Fresh, Unread, Full

(* What Fresh says of the traces that were returned.                       *)
OnceAt(i) ==
  \/ extracted[i].slot \in raced
  \/ /\ \A e \in before : e.seq # extracted[i].head.seq
     /\ \A j \in DOMAIN extracted :
          extracted[j].head.seq = extracted[i].head.seq => i = j

LEMMA FreshStep == TypeInv /\ Scanning /\ Turns /\ Apart /\ Fresh /\ [Next]_vars => Fresh'
  <1> SUFFICES ASSUME TypeInv, Scanning, Turns, Apart, Fresh, [Next]_vars PROVE Fresh'
    OBVIOUS
  <1> DEFINE Writing(t) == pc[t] \in {"time", "copy1"}
             Marking(t) == pc[t] = "copy2" /\ slot[t] \notin raced
  <1>0. \A t \in Writers : Writing(t) => Holding(t)
    BY DEF Holding
  <1>1. ASSUME NEW t \in Writers, AddTraceCall(t) \/ CopyTail(t) \/ TakeTime(t)
        PROVE  Fresh'
    <2>1. /\ UNCHANGED <<status, head, reader, min_index, extracted, before, raced, slot>>
          /\ Extracted' = Extracted
      BY <1>1, WriterFrame DEF AddTraceCall, CopyTail, TakeTime, ring, history
    <2>2. /\ \A u \in Writers : Writing(u)' => Writing(u)
          /\ \A u \in Writers : Marking(u)' => Marking(u)
          /\ \A u \in Writers : tmp_entry'[u].seq = tmp_entry[u].seq
      <3>1. TakeTime(t) => tmp_entry'[t].seq = tmp_entry[t].seq
        BY Ranges, Fields DEF TakeTime, Trace
      <3> QED BY <1>1, <2>1, <3>1, Ranges DEF AddTraceCall, CopyTail, TakeTime
    <2>3. \A k \in Slots : Unread(k)' <=> Unread(k)
      BY <2>1 DEF Full, Unread, Returning
    <2> QED BY <2>1, <2>2, <2>3 DEF Fresh, Slots
  <1>2. ASSUME NEW t \in Writers, AllocPoolChunk(t) PROVE Fresh'
    <2>1. /\ UNCHANGED <<status, head, reader, min_index, extracted, before>>
          /\ Extracted' = Extracted /\ allocs' = allocs + 1 /\ allocs \in Nat
          /\ tmp_entry'[t].seq = allocs' /\ pc'[t] = "time"
          /\ \A u \in Writers \ {t} : /\ tmp_entry'[u] = tmp_entry[u] /\ pc'[u] = pc[u]
                                      /\ slot'[u] = slot[u]
          /\ raced \subseteq raced'
      BY <1>2, WriterFrame, Ranges, Fields DEF AllocPoolChunk, Trace
    <2>2. \A k \in Slots : Unread(k)' <=> Unread(k)
      BY <2>1 DEF Full, Unread, Returning
    <2>3. /\ \A e \in Extracted : e.seq # allocs'
          /\ \A k \in Slots : head[k].seq # allocs'
      <3>1. \A k \in Slots : head[k].seq \in 1 .. allocs \/ head[k].seq = 0
        BY DEF Turns, Filled
      <3> QED BY <2>1, <3>1 DEF Turns
    <2>4. \A u \in Writers : Marking(u)' => u # t /\ Marking(u)
      BY <2>1
    <2>5. \A i \in DOMAIN extracted' : OnceAt(i)'
      BY <2>1 DEF Fresh, OnceAt
    <2>6. \A u \in Writers : Writing(u)' =>
            /\ \A e \in Extracted : e.seq # tmp_entry'[u].seq
            /\ \A k \in Slots : head'[k].seq # tmp_entry'[u].seq
      BY <2>1, <2>3 DEF Fresh
    <2>7. \A u \in Writers : Marking(u)' => \A e \in Extracted : e.seq # tmp_entry'[u].seq
      BY <2>1, <2>4 DEF Fresh
    <2>8. \A k \in Slots \ raced' : Unread(k)' => \A e \in Extracted : e.seq # head'[k].seq
      BY <2>1, <2>2 DEF Fresh
    <2> QED BY <2>1, <2>5, <2>6, <2>7, <2>8 DEF Fresh, OnceAt, Slots
  <1>3. ASSUME NEW t \in Writers, CopyHead(t) PROVE Fresh'
    <2>1. /\ UNCHANGED <<tmp_entry, status, slot, raced, reader, min_index, extracted, before>>
          /\ Extracted' = Extracted
          /\ pc[t] = "copy1"
          /\ \A k \in Slots : head'[k] = IF k = slot[t] THEN tmp_entry[t] ELSE head[k]
          /\ \A u \in Writers : Writing(u)' => u # t /\ Writing(u)
          /\ \A u \in Writers : Marking(u)' => u = t \/ Marking(u)
      BY <1>3, WriterFrame, Ranges DEF CopyHead, history
    <2>2. \A u \in Writers : Writing(u) /\ u # t => tmp_entry[u].seq # tmp_entry[t].seq
      BY <1>0, <2>1 DEF Turns
    <2>3. \A u \in Writers : Writing(u)' =>
            /\ \A e \in Extracted : e.seq # tmp_entry[u].seq
            /\ \A k \in Slots : head'[k].seq # tmp_entry[u].seq
      BY <2>1, <2>2 DEF Fresh
    <2>4. \A e \in Extracted : e.seq # tmp_entry[t].seq
      BY <2>1 DEF Fresh
    <2>5. \A k \in Slots : Unread(k)' => Unread(k)
      BY <2>1 DEF Unread, Full, Returning
    <2>6. \A k \in Slots \ raced : Unread(k)' => \A e \in Extracted : e.seq # head'[k].seq
      BY <2>1, <2>4, <2>5 DEF Fresh
    <2>7. \A u \in Writers : Marking(u)' => \A e \in Extracted : e.seq # tmp_entry[u].seq
      BY <2>1, <2>4 DEF Fresh
    <2> QED BY <2>1, <2>3, <2>6, <2>7 DEF Fresh, Slots
  <1>3b. ASSUME NEW t \in Writers, CopyStatus(t) PROVE Fresh'
    <2>1. /\ UNCHANGED <<tmp_entry, head, slot, raced, reader, min_index, extracted, before>>
          /\ Extracted' = Extracted
          /\ pc[t] = "copy2"
          /\ \A k \in Slots : Full(k)' => Full(k) \/ k = slot[t]
          /\ \A u \in Writers : Writing(u)' => Writing(u)
          /\ \A u \in Writers : Marking(u)' => Marking(u)
      BY <1>3b, WriterFrame, Ranges DEF CopyStatus, history, Full
    <2>2. slot[t] \notin raced => /\ head[slot[t]] = tmp_entry[t]
                                  /\ \A e \in Extracted : e.seq # tmp_entry[t].seq
      <3>1. slot[t] \in Slots /\ t \in Holders(slot[t]) /\ Copying(t)
        BY <2>1, Ranges, HoldersAre DEF Holding, Copying
      <3> QED BY <2>1, <3>1 DEF Apart, ApartAt, Fresh
    <2>3. \A k \in Slots : Unread(k)' => Unread(k) \/ k = slot[t]
      BY <2>1 DEF Unread, Returning
    <2>4. \A k \in Slots \ raced : Unread(k)' => \A e \in Extracted : e.seq # head[k].seq
      BY <2>2, <2>3 DEF Fresh
    <2> QED BY <2>1, <2>4 DEF Fresh, Slots
  <1>4. CASE GetTraceEntryRead
    <2> DEFINE n == Len(extracted) + 1
    <2>1. /\ Full(min_index) /\ min_index \in Slots /\ Extracting
          /\ reader = "scan" /\ reader' = "vals"
          /\ UNCHANGED <<head, status, pc, slot, raced, tmp_entry, before, min_index>>
      BY <1>4, Ranges
      DEF GetTraceEntryRead, Scanning, Looking, ring, writerVars, Extracting
    <2>2. /\ Extracted' = Extracted \cup {head[min_index]}
          /\ DOMAIN extracted' = 1 .. n /\ DOMAIN extracted = 1 .. Len(extracted)
          /\ \A i \in 1 .. Len(extracted) : extracted'[i] = extracted[i]
          /\ extracted'[n].head = head[min_index] /\ extracted'[n].slot = min_index
          /\ Len(extracted) \in Nat
      BY <1>4, ReadExtracts, Fields
    <2>3. min_index \notin raced => \A e \in Extracted : e.seq # head[min_index].seq
      BY <2>1 DEF Unread, Returning, Fresh
    <2>4. /\ min_index \notin raced =>
               /\ \A i \in DOMAIN extracted : extracted[i].head.seq # head[min_index].seq
               /\ \A e \in before : e.seq # head[min_index].seq
          /\ \A i \in DOMAIN extracted :
               extracted[i].head.seq = head[min_index].seq => extracted[i].slot = min_index
      <3>1. SlotOf(head[min_index].seq) = min_index
        BY <2>1 DEF Turns
      <3> QED BY <2>3, <3>1 DEF Extracted, Turns
    <2>5. \A i \in 1 .. n : i \in 1 .. Len(extracted) \/ i = n
      BY <2>2
    <2>6. ASSUME NEW i \in 1 .. Len(extracted), extracted[i].slot \notin raced
          PROVE  /\ \A e \in before : e.seq # extracted'[i].head.seq
                 /\ \A j \in 1 .. n : extracted'[j].head.seq = extracted'[i].head.seq => i = j
      <3>1. extracted[i].head.seq # head[min_index].seq
        BY <2>2, <2>4, <2>6
      <3>2. OnceAt(i)
        BY <2>2 DEF Fresh, OnceAt
      <3> QED BY <2>2, <2>5, <2>6, <3>1, <3>2 DEF OnceAt
    <2>7. ASSUME min_index \notin raced
          PROVE  /\ \A e \in before : e.seq # extracted'[n].head.seq
                 /\ \A j \in 1 .. n : extracted'[j].head.seq = extracted'[n].head.seq => n = j
      BY <2>2, <2>4, <2>5, <2>7
    <2>8. \A i \in DOMAIN extracted' : OnceAt(i)'
      <3> SUFFICES ASSUME NEW i \in 1 .. n, extracted'[i].slot \notin raced
                   PROVE  /\ \A e \in before : e.seq # extracted'[i].head.seq
                          /\ \A j \in 1 .. n :
                               extracted'[j].head.seq = extracted'[i].head.seq => i = j
        BY <2>1, <2>2 DEF OnceAt
      <3>1. CASE i \in 1 .. Len(extracted)
        BY <2>2, <2>6, <3>1
      <3>2. CASE i = n
        BY <2>2, <2>7, <3>2
      <3> QED BY <2>5, <3>1, <3>2
    <2>9. \A k \in Slots : Unread(k)' => Unread(k) /\ k # min_index
      BY <2>1 DEF Unread, Full, Returning
    <2>10. \A k \in Slots : Full(k) /\ k # min_index => head[k].seq # head[min_index].seq
      BY <2>1 DEF Turns
    <2>11. \A k \in Slots \ raced : Unread(k)' => \A e \in Extracted' : e.seq # head'[k].seq
      BY <2>1, <2>2, <2>9, <2>10 DEF Fresh, Unread
    <2>12. \A u \in Writers : Writing(u)' =>
            /\ \A e \in Extracted' : e.seq # tmp_entry'[u].seq
            /\ \A k \in Slots : head'[k].seq # tmp_entry'[u].seq
      BY <2>1, <2>2 DEF Fresh
    <2>13. \A u \in Writers : ~Marking(u)
      <3> SUFFICES ASSUME NEW u \in Writers, Marking(u) PROVE FALSE
        OBVIOUS
      <3>1. slot[u] \in Slots \ raced /\ u \in Holders(slot[u])
        BY Ranges, HoldersAre DEF Holding
      <3> QED BY <2>1, <3>1 DEF Apart, ApartAt
    <2>14. \A u \in Writers : ~Marking(u)'
      BY <2>1, <2>13
    <2> QED BY <2>1, <2>8, <2>11, <2>12, <2>14 DEF Fresh, OnceAt, Slots
  <1>5. CASE PartRead
    <2>1. Still /\ ~GetTraceEntryReturn
      BY <1>5 DEF Still, PartRead, GetTraceEntryVals, GetTraceEntryTime, GetTraceEntryReturn
    <2>2. \A k \in Slots : Unread(k)' <=> Unread(k)
      BY <1>5, <2>1, StillFrame
      DEF PartRead, GetTraceEntryVals, GetTraceEntryTime, Unread, Returning, Full
    <2>3. /\ UNCHANGED <<head, pc, slot, raced, tmp_entry>> /\ Extracted' = Extracted
          /\ DOMAIN extracted' = DOMAIN extracted /\ before' = before
          /\ \A i \in DOMAIN extracted : /\ extracted'[i].head = extracted[i].head
                                         /\ extracted'[i].slot = extracted[i].slot
      BY <1>5, <2>1, StillFrame, PartReadExtracts
      DEF PartRead, GetTraceEntryVals, GetTraceEntryTime
    <2> QED BY <2>2, <2>3 DEF Fresh, Slots
  <1>6. CASE GetTraceEntryReturn
    <2>1. Still
      BY <1>6 DEF Still
    <2>2. \A k \in Slots : Full(k)' => Unread(k)
      <3>1. \A k \in Slots : Full(k)' => Full(k) /\ k # min_index
        BY <1>6, Ranges DEF GetTraceEntryReturn, Clear, Full
      <3> QED BY <3>1 DEF Unread
    <2>3. /\ UNCHANGED <<head, pc, slot, raced, tmp_entry, extracted, before>>
          /\ Extracted' = Extracted
      BY <1>6, <2>1, StillFrame, OthersExtractNothing DEF GetTraceEntryReturn, history
    <2> QED BY <2>2, <2>3 DEF Fresh, Unread, Slots
  <1>7. CASE RTDBG_Stop
    <2>1. Still /\ ~GetTraceEntryReturn
      BY <1>7 DEF Still, RTDBG_Stop, GetTraceEntryReturn, Extracting
    <2>2. \A k \in Slots : Unread(k)' => Unread(k)
      BY <1>7, <2>1, StillFrame
      DEF RTDBG_Stop, Extracting, Unread, Returning, Full
    <2>3. /\ UNCHANGED <<head, pc, slot, tmp_entry>> /\ Extracted' = Extracted
          /\ DOMAIN extracted' = {} /\ raced \subseteq raced'
      BY <1>7, <2>1, StillFrame, StopForgets DEF RTDBG_Stop
    <2> QED BY <2>2, <2>3 DEF Fresh, Slots
  <1>8. CASE Idle
    BY <1>8, IdleFrame DEF Fresh, Full, Slots
  <1> QED BY <1>1, <1>2, <1>3, <1>3b, <1>4, <1>5, <1>6, <1>7, <1>8
          DEF Next, WriterStep, ReaderStep, Idle, Looks, PartRead

-----------------------------------------------------------------------------
(* The ring comes back to the slot of a trace after one turn.              *)
LEMMA SlotAgain ==
  ASSUME NEW n \in Nat
  PROVE  SlotOf(n + TRACE_ENTRIES_NUM) = SlotOf(n)
  <1> DEFINE N == TRACE_ENTRIES_NUM
             q == (n + 1) \div N
             r == (n + 1) % N
             m == n + N + 1
             p == m \div N
             s == m % N
  <1>0. m \in Nat /\ n + 1 \in Nat
    BY SizesAssumption
  <1>1. q \in Int /\ r \in Slots /\ n + 1 = N * q + r
    BY Division, <1>0
  <1>2. p \in Int /\ s \in Slots /\ m = N * p + s
    <2> HIDE DEF m
    <2> QED BY Division, <1>0
  <1>3. SlotOf(n) = r /\ SlotOf(n + N) = s
    BY DEF SlotOf
  <1>4. m = n + 1 + N
    BY SizesAssumption
  <1> HIDE DEF q, r, p, s, m
  <1>5. N * (q + 1) = N * q + N /\ N * q \in Int /\ N * p \in Int
    BY <1>1, <1>2, SizesAssumption
  <1>6. N * (q + 1) + r = N * p + s
    BY <1>1, <1>2, <1>4, <1>5, SizesAssumption DEF Slots
  <1> QED BY <1>1, <1>2, <1>3, <1>6, RemainderUnique, q + 1 \in Int

LEMMA ApartInit == Init => Apart
  <1> SUFFICES ASSUME Init PROVE Apart
    OBVIOUS
  <1>1. \A k \in Slots : Holders(k) = {}
    BY DEF Init, Holders
  <1> QED BY <1>1 DEF Init, Apart, ApartAt, Extracting, Returning

(* A slot stays apart as long as nothing of it changes.                    *)
LEMMA ApartStays ==
  ASSUME NEW k \in Slots, ApartAt(k), Holders(k)' = Holders(k), allocs' = allocs,
         \A u \in Holders(k) : /\ tmp_entry'[u] = tmp_entry[u] /\ pc'[u] = pc[u],
         head'[k] = head[k], tail'[k] = tail[k], status'[k] = status[k],
         UNCHANGED <<reader, min_index, extracted>>
  PROVE  ApartAt(k)'
  BY DEF ApartAt, Extracting, Returning, Copying, Full, Last

LEMMA ApartStep == TypeInv /\ Scanning /\ Turns /\ Apart /\ [Next]_vars => Apart'
  <1> SUFFICES ASSUME TypeInv, Scanning, Turns, Apart, [Next]_vars PROVE Apart'
    OBVIOUS
  <1> USE HoldersAre
  <1>0. \A k \in Slots \ raced : ApartAt(k)
    BY DEF Apart
  <1>1. ASSUME NEW t \in Writers, AddTraceCall(t) PROVE Apart'
    <2>1. /\ UNCHANGED <<raced, slot, tmp_entry, allocs, status, head, tail, min_index,
                         reader, extracted>>
          /\ \A u \in Writers : Holding(u)' <=> Holding(u)
          /\ \A u \in Writers : Holding(u) => pc'[u] = pc[u]
      BY <1>1, WriterFrame, Ranges DEF AddTraceCall, Holding, ring, history
    <2>2. \A k \in Slots : Holders(k)' = Holders(k)
      BY <2>1 DEF Holding, Holders
    <2> QED BY <1>0, <2>1, <2>2, ApartStays DEF Apart, Slots
  <1>2. ASSUME NEW t \in Writers, AllocPoolChunk(t) PROVE Apart'
    <2>0. PICK w : w = wr_ind_'
      OBVIOUS
    <2>1. /\ UNCHANGED <<status, head, tail, min_index, reader, extracted>>
          /\ allocs' = allocs + 1 /\ allocs \in Nat
          /\ tmp_entry'[t].seq = allocs' /\ slot'[t] = w
          /\ pc[t] = "alloc" /\ pc'[t] = "time"
          /\ \A u \in Writers \ {t} : /\ tmp_entry'[u] = tmp_entry[u] /\ slot'[u] = slot[u]
                                      /\ pc'[u] = pc[u]
          /\ raced \subseteq raced'
          /\ w \notin raced' => ~Extracting /\ Holders(w) = {}
      BY <1>2, <2>0, WriterFrame, Ranges, Fields DEF AllocPoolChunk, Trace
    <2>2. w = SlotOf(allocs + 1) /\ w \in Slots
      BY <1>2, <2>0, <2>1, NextSlotOf, SlotOfType DEF AllocPoolChunk, Turns
    <2>3. \A k \in Slots \ {w} : Holders(k)' = Holders(k) /\ t \notin Holders(k)
      BY <2>1 DEF Holders
    <2>4. w \notin raced' => Holders(w)' = {t}
      BY <2>1 DEF Holders
    <2>5. ASSUME NEW k \in Slots \ raced', k # w, NEW u \in Holders(k)
          PROVE  u \in Writers \ {t} /\ tmp_entry[u].seq + TRACE_ENTRIES_NUM > allocs'
      <3>1. u \in Writers \ {t} /\ slot[u] = k
        BY <2>3, <2>5
      <3>2. /\ k \notin raced
            /\ tmp_entry[u].seq + TRACE_ENTRIES_NUM > allocs
            /\ tmp_entry[u].seq \in Nat
        <4>1. k \notin raced
          BY <2>1, <2>5
        <4>2. ApartAt(k)
          BY <1>0, <4>1
        <4> QED BY <2>5, <3>1, <4>1, <4>2, Fields DEF ApartAt
      <3>3. CASE tmp_entry[u].seq + TRACE_ENTRIES_NUM = allocs + 1
        <4>1. SlotOf(tmp_entry[u].seq) = w
          BY <3>2, <3>3, <2>2, SlotAgain
        <4>2. slot[u] = SlotOf(tmp_entry[u].seq)
          BY <2>5 DEF Turns
        <4> QED BY <4>1, <4>2, <3>1, <2>5
      <3>4. CASE tmp_entry[u].seq + TRACE_ENTRIES_NUM # allocs + 1
        BY <3>1, <3>2, <3>4, <2>1, SizesAssumption
      <3> QED BY <3>3, <3>4
    <2>6. ASSUME NEW k \in Slots \ raced', k # w PROVE ApartAt(k)'
      <3>1. k \notin raced /\ Holders(k)' = Holders(k) /\ ApartAt(k)
        BY <1>0, <2>1, <2>3, <2>6
      <3>2. \A u \in Holders(k) : /\ u \in Writers \ {t}
                                  /\ tmp_entry[u].seq + TRACE_ENTRIES_NUM > allocs'
        BY <2>5, <2>6
      <3> QED BY <2>1, <3>1, <3>2 DEF ApartAt, Extracting, Returning, Copying, Full, Last
    <2>7. ASSUME w \notin raced' PROVE ApartAt(w)'
      <3>1. /\ Holders(w)' = {t} /\ Holders(w) = {} /\ w \notin raced
            /\ ~Extracting' /\ ~Returning'
        BY <2>1, <2>4, <2>7 DEF Extracting, Returning
      <3>2. tmp_entry'[t].seq + TRACE_ENTRIES_NUM > allocs'
        BY <2>1, SizesAssumption
      <3>3. head[w] = tail[w]
        BY <1>0, <3>1, <2>2 DEF ApartAt
      <3> QED BY <2>1, <3>1, <3>2, <3>3 DEF ApartAt, Copying
    <2> QED BY <2>6, <2>7 DEF Apart, Slots
  <1>3. ASSUME NEW t \in Writers, TakeTime(t) PROVE Apart'
    <2>1. /\ UNCHANGED <<raced, slot, allocs, status, head, tail, min_index, reader, extracted>>
          /\ \A u \in Writers : /\ tmp_entry'[u].seq = tmp_entry[u].seq
                                /\ Holding(u)' <=> Holding(u)
                                /\ Copying(u)' <=> Copying(u)
                                /\ pc'[u] = "copy3" <=> pc[u] = "copy3"
                                /\ Copying(u) => tmp_entry'[u] = tmp_entry[u]
      <3>1. tmp_entry'[t].seq = tmp_entry[t].seq
        BY <1>3, Ranges, Fields DEF TakeTime, Trace
      <3> QED BY <1>3, <3>1, WriterFrame, Ranges DEF TakeTime, Holding, Copying, ring, history
    <2>2. \A k \in Slots : Holders(k)' = Holders(k)
      BY <2>1 DEF Holding, Holders
    <2>3. \A k \in Slots : \A u \in Holders(k) : u \in Writers
      OBVIOUS
    <2>4. ASSUME NEW k \in Slots \ raced PROVE ApartAt(k)'
      BY <1>0, <2>1, <2>2, <2>3 DEF ApartAt, Extracting, Returning, Full, Last
    <2> QED BY <2>1, <2>4 DEF Apart, Slots
  <1>4. ASSUME NEW t \in Writers, CopyHead(t) PROVE Apart'
    <2>1. /\ UNCHANGED <<raced, slot, tmp_entry, allocs, tail, status, min_index, reader,
                         extracted>>
          /\ pc[t] = "copy1" /\ pc'[t] = "copy2"
          /\ \A u \in Writers \ {t} : pc'[u] = pc[u]
          /\ \A k \in Slots : head'[k] = IF k = slot[t] THEN tmp_entry[t] ELSE head[k]
      BY <1>4, WriterFrame, Ranges DEF CopyHead, history
    <2>2. \A k \in Slots : Holders(k)' = Holders(k)
      BY <2>1 DEF Holders
    <2>3. t \in Holders(slot[t]) /\ slot[t] \in Slots
      BY <2>1, Ranges DEF Holding
    <2>4. ASSUME NEW k \in Slots \ raced, k # slot[t] PROVE ApartAt(k)'
      <3>1. \A u \in Holders(k) : u \in Writers \ {t}
        BY <2>4
      <3> QED BY <1>0, <2>1, <2>2, <2>4, <3>1, ApartStays
    <2>5. ASSUME NEW k \in Slots \ raced, k = slot[t] PROVE ApartAt(k)'
      <3>1. /\ \A u \in Holders(k) : u = t
            /\ ~Extracting' /\ ~Returning'
        BY <1>0, <2>1, <2>3, <2>5 DEF ApartAt, Extracting, Returning
      <3> QED BY <1>0, <2>1, <2>2, <2>3, <2>5, <3>1 DEF ApartAt, Copying
    <2> QED BY <2>1, <2>4, <2>5 DEF Apart, Slots
  <1>4b. ASSUME NEW t \in Writers, CopyStatus(t) PROVE Apart'
    <2>1. /\ UNCHANGED <<raced, slot, tmp_entry, allocs, head, tail, min_index, reader,
                         extracted>>
          /\ pc[t] = "copy2" /\ pc'[t] = "copy3"
          /\ \A u \in Writers \ {t} : pc'[u] = pc[u]
          /\ \A k \in Slots : IF k = slot[t] THEN Full(k)' ELSE status'[k] = status[k]
      BY <1>4b, WriterFrame, Ranges DEF CopyStatus, history, Full
    <2>2. \A k \in Slots : Holders(k)' = Holders(k)
      BY <2>1 DEF Holders
    <2>3. t \in Holders(slot[t]) /\ slot[t] \in Slots /\ Copying(t)
      BY <2>1, Ranges DEF Holding, Copying
    <2>4. ASSUME NEW k \in Slots \ raced, k # slot[t] PROVE ApartAt(k)'
      <3>1. \A u \in Holders(k) : u \in Writers \ {t}
        BY <2>4
      <3> QED BY <1>0, <2>1, <2>2, <2>4, <3>1, ApartStays
    <2>5. ASSUME NEW k \in Slots \ raced, k = slot[t] PROVE ApartAt(k)'
      <3>1. /\ \A u \in Holders(k) : u = t
            /\ ~Extracting' /\ ~Returning'
        BY <1>0, <2>1, <2>3, <2>5 DEF ApartAt, Extracting, Returning
      <3> QED BY <1>0, <2>1, <2>2, <2>3, <2>5, <3>1 DEF ApartAt, Copying
    <2> QED BY <2>1, <2>4, <2>5 DEF Apart, Slots
  <1>5. ASSUME NEW t \in Writers, CopyTail(t) PROVE Apart'
    <2>1. /\ UNCHANGED <<raced, slot, tmp_entry, allocs, head, status, min_index, reader,
                         extracted>>
          /\ pc[t] = "copy3" /\ pc'[t] = "idle"
          /\ \A u \in Writers \ {t} : pc'[u] = pc[u]
          /\ \A k \in Slots : tail'[k] = IF k = slot[t] THEN tmp_entry[t] ELSE tail[k]
      BY <1>5, WriterFrame, Ranges DEF CopyTail, ring
    <2>2. t \in Holders(slot[t]) /\ slot[t] \in Slots /\ Copying(t)
      BY <2>1, Ranges DEF Holding, Copying
    <2>3. \A k \in Slots : k # slot[t] => Holders(k)' = Holders(k) /\ t \notin Holders(k)
      BY <2>1 DEF Holders
    <2>4. \A k \in Slots : \A u \in Holders(k) : u \in Writers
      OBVIOUS
    <2>5. ASSUME NEW k \in Slots \ raced, k # slot[t] PROVE ApartAt(k)'
      BY <1>0, <2>1, <2>3, <2>4, <2>5, ApartStays
    <2>6. ASSUME NEW k \in Slots \ raced, k = slot[t] PROVE ApartAt(k)'
      <3>1. \A u \in Holders(k) : u = t
        BY <1>0, <2>2, <2>6 DEF ApartAt
      <3>2. Holders(k)' = {}
        BY <2>1, <2>6, <3>1 DEF Holders
      <3>3. head[k] = tmp_entry[t] /\ ~Extracting
        BY <1>0, <2>2, <2>6, <3>1 DEF ApartAt
      <3>4. ~Extracting' /\ ~Returning' /\ head'[k] = tail'[k]
        BY <2>1, <2>6, <3>3 DEF Extracting, Returning
      <3> QED BY <3>2, <3>4 DEF ApartAt
    <2> QED BY <2>1, <2>5, <2>6 DEF Apart, Slots
  <1>6. CASE RTDBG_Stop
    <2>1. /\ UNCHANGED <<slot, pc, tmp_entry, allocs, head, tail, status>>
          /\ raced' = raced \cup Held /\ ~Returning'
      BY <1>6 DEF RTDBG_Stop, ring, writerVars, Returning
    <2>2. \A k \in Slots \ raced' : k \notin raced /\ Holders(k)' = {} /\ Holders(k) = {}
      BY <2>1 DEF Held, Holders
    <2> QED BY <1>0, <2>1, <2>2 DEF Apart, ApartAt, Slots
  <1>7. CASE GetTraceEntryRead
    <2>1. /\ UNCHANGED <<slot, pc, tmp_entry, allocs, head, tail, status, raced, min_index>>
          /\ Extracting
      BY <1>7 DEF GetTraceEntryRead, ring, writerVars, Extracting
    <2>2. Last'.head = head[min_index]
      BY <1>7, ReadExtracts DEF Last
    <2>3. \A k \in Slots : Holders(k)' = Holders(k)
      BY <2>1 DEF Holders
    <2> QED BY <1>0, <2>1, <2>2, <2>3 DEF Apart, ApartAt, Full, Copying, Slots
  <1>8. CASE PartRead
    <2>1. /\ UNCHANGED <<slot, pc, tmp_entry, allocs, head, tail, status, raced, min_index>>
          /\ Extracting /\ Returning
      BY <1>8 DEF PartRead, GetTraceEntryVals, GetTraceEntryTime, ring, writerVars,
                  Extracting, Returning
    <2>2. Last'.head = Last.head
      BY <1>8, PartReadExtracts
    <2>3. \A k \in Slots : Holders(k)' = Holders(k)
      BY <2>1 DEF Holders
    <2> QED BY <1>0, <2>1, <2>2, <2>3 DEF Apart, ApartAt, Full, Copying, Slots
  <1>9. CASE GetTraceEntryReturn
    <2>1. /\ UNCHANGED <<slot, pc, tmp_entry, allocs, head, tail, raced, min_index>>
          /\ Extracting /\ ~Returning'
      BY <1>9
      DEF GetTraceEntryReturn, writerVars, history, Extracting, Returning
    <2>2. \A k \in Slots : Holders(k)' = Holders(k)
      BY <2>1 DEF Holders
    <2> QED BY <1>0, <2>1, <2>2 DEF Apart, ApartAt, Copying, Slots
  <1>10. CASE Idle
    <2>1. \A k \in Slots : Holders(k)' = Holders(k)
      BY <1>10, IdleFrame DEF Holders
    <2> QED BY <1>0, <1>10, <2>1, IdleFrame DEF Apart, ApartAt, Full, Copying, Last, Slots
  <1> QED BY <1>1, <1>2, <1>3, <1>4, <1>4b, <1>5, <1>6, <1>7, <1>8, <1>9, <1>10
          DEF Next, WriterStep, ReaderStep, Idle, Looks, PartRead

-----------------------------------------------------------------------------
LEMMA RacedGrows ==
  ASSUME [Next]_vars
  PROVE  raced \subseteq raced'
  <1>1. ASSUME NEW t \in Writers, WriterStep(t) \/ AddTraceCall(t)
        PROVE  raced \subseteq raced'
    BY <1>1
    DEF WriterStep, AddTraceCall, AllocPoolChunk, TakeTime, CopyHead, CopyStatus,
        CopyTail, history
  <1>2. CASE RTDBG_Stop \/ RTDBG_Start \/ UNCHANGED vars
    BY <1>2 DEF RTDBG_Stop, RTDBG_Start, vars, history
  <1>3. CASE ReaderStep
    BY <1>3, ReaderFrame
  <1> QED BY <1>1, <1>2, <1>3 DEF Next

(* Nobody fills a slot during an extraction that is not raced.             *)
LEMMA NobodyHolds ==
  ASSUME TypeInv, Apart, Extracting, raced = {}
  PROVE  \A t \in Writers : ~Holding(t)
  <1> SUFFICES ASSUME NEW t \in Writers, Holding(t) PROVE FALSE
    OBVIOUS
  <1>1. slot[t] \in Slots
    BY Ranges
  <1>2. t \in Holders(slot[t])
    BY HoldersAre
  <1> QED BY <1>1, <1>2 DEF Apart, ApartAt

LEMMA TornStep ==
  TypeInv /\ Scanning /\ Apart /\ Whole /\ TornOnlyIfRaced /\ [Next]_vars
  => Whole' /\ TornOnlyIfRaced'
  <1> SUFFICES ASSUME TypeInv, Scanning, Apart, Whole, TornOnlyIfRaced, [Next]_vars
               PROVE  Whole' /\ TornOnlyIfRaced'
    OBVIOUS
  <1> DEFINE Partly == reader \in {"vals", "time"}
  <1>0. raced \subseteq raced'
    BY RacedGrows
  <1>1. ASSUME UNCHANGED extracted, reader' = reader, min_index' = min_index
        PROVE  Whole' /\ TornOnlyIfRaced'
    BY <1>0, <1>1 DEF TornOnlyIfRaced, Whole, Last, Torn
  <1>1b. ASSUME UNCHANGED extracted, ~Partly, reader' # "time"
         PROVE  Whole' /\ TornOnlyIfRaced'
    BY <1>0, <1>1b DEF TornOnlyIfRaced, Whole, Torn
  <1>2. ASSUME NEW t \in Writers, WriterStep(t) \/ AddTraceCall(t)
        PROVE  Whole' /\ TornOnlyIfRaced'
    BY <1>1, <1>2, WriterFrame DEF WriterStep
  <1>3. CASE RTDBG_Stop
    BY <1>3, StopForgets DEF TornOnlyIfRaced, Whole, RTDBG_Stop
  <1>4. CASE GetTraceEntryReturn
    BY <1>1b, <1>4, OthersExtractNothing DEF GetTraceEntryReturn
  <1>5. CASE RTDBG_Start \/ UNCHANGED vars
    BY <1>1, <1>5 DEF RTDBG_Start, vars, readerVars, history
  <1>5b. CASE Looks
    BY <1>1b, <1>5b, LooksFrame DEF Returning
  <1>6. CASE GetTraceEntryRead
    <2>1. /\ reader = "scan" /\ reader' = "vals"
          /\ DOMAIN extracted = 1 .. Len(extracted) /\ Len(extracted) \in Nat
      BY <1>6, Fields DEF GetTraceEntryRead
    <2>2. \A i \in DOMAIN extracted' : i # Len(extracted') => i \in DOMAIN extracted
      BY <1>6, <2>1, ReadExtracts
    <2> QED BY <1>0, <1>6, <2>1, <2>2, ReadExtracts DEF TornOnlyIfRaced, Whole, Torn
  <1>7. CASE PartRead
    <2>1. /\ Partly /\ Extracting /\ Returning /\ reader' \in {"time", "clear"}
          /\ GetTraceEntryVals => reader = "vals" /\ reader' = "time"
          /\ GetTraceEntryTime => reader = "time" /\ reader' = "clear"
          /\ UNCHANGED <<raced, min_index>>
      BY <1>7
      DEF PartRead, GetTraceEntryVals, GetTraceEntryTime, Extracting, Returning
    <2>2. /\ Len(extracted) \in DOMAIN extracted /\ DOMAIN extracted' = DOMAIN extracted
          /\ min_index \in Slots /\ Len(extracted') = Len(extracted)
          /\ Last'.head = Last.head /\ Last'.slot = min_index
      <3>1. Last.slot = min_index
        BY <2>1 DEF Scanning
      <3> QED BY <1>7, <3>1, PartReadExtracts
    <2>3. ASSUME min_index \notin raced
          PROVE  Last.head = head[min_index] /\ head[min_index] = tail[min_index]
      <3>1. ApartAt(min_index)
        BY <2>2, <2>3 DEF Apart
      <3>2. Holders(min_index) = {}
        BY <2>1, <3>1 DEF ApartAt
      <3> QED BY <2>1, <3>1, <3>2 DEF ApartAt
    <2>4. \A i \in DOMAIN extracted : i # Len(extracted) => extracted'[i] = extracted[i]
      BY <1>7, PartReadExtracts
    <2>5. ASSUME NEW i \in DOMAIN extracted, i # Len(extracted), Torn(extracted[i])
          PROVE  extracted[i].slot \in raced
      BY <2>5 DEF TornOnlyIfRaced
    <2>6. CASE GetTraceEntryVals
      <3>1. reader' = "time" /\ Last'.tail = tail[min_index]
        BY <1>7, <2>1, <2>6, PartReadExtracts
      <3>2. Whole'
        BY <2>1, <2>2, <2>3, <3>1 DEF Whole
      <3>3. TornOnlyIfRaced'
        BY <2>1, <2>2, <2>4, <2>5, <3>1 DEF TornOnlyIfRaced, Torn
      <3> QED BY <3>2, <3>3
    <2>7. CASE GetTraceEntryTime
      <3>1. /\ reader = "time" /\ reader' = "clear"
            /\ Last'.tail = Last.tail /\ Last'.linux_time = head[min_index].linux_time
        BY <1>7, <2>1, <2>7, PartReadExtracts
      <3>2. Whole'
        BY <3>1 DEF Whole
      <3>3. ASSUME min_index \notin raced PROVE ~Torn(Last')
        BY <2>2, <2>3, <3>1, <3>3 DEF Torn, Whole
      <3>4. Last' = extracted'[Len(extracted)]
        BY <2>2 DEF Last
      <3>5. ASSUME NEW i \in DOMAIN extracted', Torn(extracted'[i])
            PROVE  extracted'[i].slot \in raced'
        <4>1. CASE i = Len(extracted)
          BY <2>1, <2>2, <3>3, <3>4, <3>5, <4>1
        <4>2. CASE i # Len(extracted)
          BY <2>1, <2>2, <2>4, <2>5, <3>5, <4>2
        <4> QED BY <4>1, <4>2
      <3>6. TornOnlyIfRaced'
        BY <3>5 DEF TornOnlyIfRaced, Torn
      <3> QED BY <3>2, <3>6
    <2> QED BY <1>7, <2>6, <2>7 DEF PartRead
  <1> QED BY <1>2, <1>3, <1>4, <1>5, <1>5b, <1>6, <1>7
          DEF Next, ReaderStep, Looks, PartRead

LEMMA KeptStep == TypeInv /\ Scanning /\ Turns /\ Fresh /\ Apart /\ LastTracesKept /\ [Next]_vars
                  => LastTracesKept'
  <1> SUFFICES ASSUME TypeInv, Scanning, Turns, Fresh, Apart, LastTracesKept, [Next]_vars,
                      raced' = {},
                      NEW e \in written', e.seq + TRACE_ENTRIES_NUM > allocs'
               PROVE  e \in (Extracted \cup InRing)'
    BY DEF LastTracesKept
  <1>0. raced = {}
    BY RacedGrows
  <1>a. \A x : x \in InRing <=> \E k \in Slots : Full(k) /\ x = head[k]
    BY DEF InRing, Full
  <1>b. \A x : x \in InRing' <=> \E k \in Slots : Full(k)' /\ x = head'[k]
    BY DEF InRing, Full, Slots
  <1>c. ASSUME UNCHANGED <<written, allocs>> PROVE e \in Extracted \cup InRing
    BY <1>0, <1>c DEF LastTracesKept
  <1>1. ASSUME NEW t \in Writers, AddTraceCall(t) \/ TakeTime(t)
        PROVE  e \in (Extracted \cup InRing)'
    <2>1. /\ UNCHANGED <<written, allocs, head, status>> /\ Extracted' = Extracted
      BY <1>1, WriterFrame DEF AddTraceCall, TakeTime, ring, history
    <2> QED BY <2>1, <1>a, <1>b, <1>c DEF Full
  <1>2. ASSUME NEW t \in Writers, AllocPoolChunk(t) PROVE e \in (Extracted \cup InRing)'
    <2>1. /\ UNCHANGED <<written, head, status>> /\ Extracted' = Extracted
          /\ allocs' = allocs + 1
      BY <1>2, WriterFrame DEF AllocPoolChunk
    <2>2. e.seq + TRACE_ENTRIES_NUM > allocs
      BY <2>1, Fields, SizesAssumption
    <2>3. e \in Extracted \cup InRing
      BY <1>0, <2>1, <2>2 DEF LastTracesKept
    <2> QED BY <2>1, <2>3, <1>a, <1>b DEF Full
  <1>3. ASSUME NEW t \in Writers, CopyHead(t) PROVE e \in (Extracted \cup InRing)'
    <2>1. /\ UNCHANGED <<written, allocs, status>> /\ Extracted' = Extracted
          /\ pc[t] = "copy1" /\ slot[t] \in Slots
          /\ \A k \in Slots : k # slot[t] => head'[k] = head[k]
      BY <1>3, WriterFrame, Ranges DEF CopyHead, history
    <2>2. ASSUME NEW k \in Slots, Full(k), e = head[k] PROVE k # slot[t]
      <3> SUFFICES ASSUME k = slot[t] PROVE FALSE
        OBVIOUS
      <3> DEFINE n == tmp_entry[t].seq
      <3>1. Holding(t) /\ t \in Holders(k)
        BY <2>1, HoldersAre DEF Holding
      <3>2. /\ n \in 1 .. allocs /\ SlotOf(n) = k
            /\ e.seq \in 1 .. allocs /\ SlotOf(e.seq) = k
        BY <3>1, <2>2 DEF Turns
      <3>3. n + TRACE_ENTRIES_NUM > allocs
        BY <1>0, <3>1 DEF Apart, ApartAt
      <3>4. e.seq # n
        BY <2>1, <2>2 DEF Fresh
      <3>5. allocs \in Nat /\ n \in Nat /\ e.seq \in Nat
        BY <3>2, Fields
      <3>6. CASE e.seq < n
        <4>1. e.seq + TRACE_ENTRIES_NUM <= n
          BY <3>2, <3>5, <3>6, SameSlot
        <4> QED BY <2>1, <3>2, <3>5, <4>1, SizesAssumption
      <3>7. CASE n < e.seq
        <4>1. n + TRACE_ENTRIES_NUM <= e.seq
          BY <3>2, <3>5, <3>7, SameSlot
        <4> QED BY <3>2, <3>3, <3>5, <4>1, SizesAssumption
      <3> QED BY <3>4, <3>5, <3>6, <3>7
    <2>3. e \in Extracted \cup InRing
      BY <2>1, <1>c
    <2> QED BY <2>1, <2>2, <2>3, <1>a, <1>b DEF Full
  <1>3b. ASSUME NEW t \in Writers, CopyStatus(t) PROVE e \in (Extracted \cup InRing)'
    <2>1. /\ UNCHANGED <<written, allocs, head>> /\ Extracted' = Extracted
          /\ \A k \in Slots : Full(k) => Full(k)'
      BY <1>3b, WriterFrame, Ranges DEF CopyStatus, history, Full
    <2> QED BY <2>1, <1>a, <1>b, <1>c
  <1>4. ASSUME NEW t \in Writers, CopyTail(t) PROVE e \in (Extracted \cup InRing)'
    <2>1. /\ UNCHANGED <<allocs, head, status>> /\ Extracted' = Extracted
          /\ written' = written \cup {tmp_entry[t]}
          /\ pc[t] = "copy3" /\ slot[t] \in Slots
      BY <1>4, WriterFrame, Ranges DEF CopyTail, ring
    <2>2. t \in Holders(slot[t]) /\ Copying(t)
      BY <2>1, HoldersAre DEF Holding, Copying
    <2>3. Full(slot[t]) /\ head[slot[t]] = tmp_entry[t]
      BY <1>0, <2>1, <2>2 DEF Apart, ApartAt
    <2>4. tmp_entry[t] \in InRing'
      BY <2>1, <2>3, <1>b DEF Full
    <2>5. CASE e \in written
      <3>1. e \in Extracted \cup InRing
        BY <1>0, <2>1, <2>5 DEF LastTracesKept
      <3> QED BY <2>1, <3>1, <1>a, <1>b DEF Full
    <2> QED BY <2>1, <2>4, <2>5
  <1>5. CASE GetTraceEntryRead
    <2>1. /\ UNCHANGED <<written, allocs, head, status>>
          /\ Extracted' = Extracted \cup {head[min_index]}
      BY <1>5, ReadExtracts DEF GetTraceEntryRead, ring
    <2> QED BY <2>1, <1>a, <1>b, <1>c DEF Full
  <1>6. CASE GetTraceEntryReturn
    <2>1. Still
      BY <1>6 DEF Still
    <2>2. UNCHANGED <<written, allocs, head>> /\ Extracted' = Extracted
      BY <2>1, StillFrame
    <2>3. \A k \in Slots : Full(k) /\ k # min_index => Full(k)'
      BY <1>6, Ranges DEF GetTraceEntryReturn, Clear, Full
    <2>4. head[min_index] \in Extracted
      <3>1. Returning /\ min_index \in Slots /\ extracted # << >>
        BY <1>6, Ranges DEF GetTraceEntryReturn, Returning, Scanning
      <3>2. Last.head = head[min_index]
        BY <1>0, <3>1 DEF Apart, ApartAt
      <3>3. Len(extracted) \in DOMAIN extracted
        <4>1. Len(extracted) \in Nat \ {0}
          BY <3>1, Fields, EmptySeq
        <4> QED BY <4>1, Fields
      <3> QED BY <3>2, <3>3 DEF Last, Extracted
    <2> QED BY <2>2, <2>3, <2>4, <1>a, <1>b, <1>c
  <1>7. CASE Still /\ ~GetTraceEntryReturn
    BY <1>7, StillFrame, <1>a, <1>b, <1>c DEF Full
  <1> QED BY <1>1, <1>2, <1>3, <1>3b, <1>4, <1>5, <1>6, <1>7
          DEF Next, WriterStep, ReaderStep, Still, Looks, PartRead

-----------------------------------------------------------------------------
(* What Order says at each stage of an extraction that is not raced.       *)
Remaining ==
  Extracting => \A i \in DOMAIN extracted : \A k \in Slots :
    Unread(k) => extracted[i].head.linux_time < head[k].linux_time
Found ==
  /\ Looking =>
       /\ \A k \in Slots : k < ind /\ Full(k) =>
            min_index # -1 /\ min_time <= head[k].linux_time
       /\ min_time = IF min_index = -1 THEN clock ELSE head[min_index].linux_time
  /\ reader = "min" => head[ind].linux_time < min_time
Sorted ==
  \A i, j \in DOMAIN extracted :
    i < j => extracted[i].head.linux_time < extracted[j].head.linux_time

LEMMA OrderIs == /\ Order <=> (raced = {} => Remaining /\ Found)
                 /\ EarliestFirst <=> (raced = {} => Sorted)
  BY DEF Order, EarliestFirst, Remaining, Found, Sorted

LEMMA OrderStep ==
  TypeInv /\ Scanning /\ Turns /\ Stamps /\ Apart /\ Order /\ EarliestFirst /\ [Next]_vars
  => Order' /\ EarliestFirst'
  <1> SUFFICES ASSUME TypeInv, Scanning, Turns, Stamps, Apart, Order, EarliestFirst,
                      [Next]_vars,
                      raced' = {}
               PROVE  Remaining' /\ Found' /\ Sorted'
    BY DEF Order, EarliestFirst, Remaining, Found, Sorted
  <1>0. raced = {} /\ Remaining /\ Found /\ Sorted
    <2>1. raced = {}
      BY RacedGrows
    <2> QED BY <2>1, OrderIs
  <1>1. ASSUME NEW t \in Writers, WriterStep(t) \/ AddTraceCall(t)
        PROVE  Remaining' /\ Found' /\ Sorted'
    <2>1. /\ UNCHANGED <<reader, ind, min_index, min_time, extracted>>
      BY <1>1, WriterFrame DEF WriterStep
    <2>2. Sorted'
      BY <2>1, <1>0 DEF Sorted
    <2>3. CASE ~Extracting
      BY <2>1, <2>2, <2>3 DEF Remaining, Found, Looking, Extracting
    <2>4. CASE Extracting
      <3>1. ~Holding(t)
        BY <1>0, <2>4, NobodyHolds
      <3>2. ~AllocPoolChunk(t)
        <4> SUFFICES ASSUME AllocPoolChunk(t) PROVE FALSE
          OBVIOUS
        <4>1. wr_ind_' \in raced'
          BY <2>4 DEF AllocPoolChunk
        <4> QED BY <4>1
      <3>3. AddTraceCall(t)
        BY <1>1, <3>1, <3>2
        DEF WriterStep, Holding, TakeTime, CopyHead, CopyStatus, CopyTail
      <3>4. UNCHANGED <<head, status, clock>>
        BY <3>3 DEF AddTraceCall, ring
      <3>5. Remaining'
        BY <1>0, <2>1, <3>4
        DEF Remaining, Extracting, Unread, Full, Returning, Slots
      <3>6. Found'
        BY <1>0, <2>1, <3>4 DEF Found, Looking, Full, Slots
      <3> QED BY <2>2, <3>5, <3>6
    <2> QED BY <2>3, <2>4
  <1>2. CASE RTDBG_Stop
    <2>1. DOMAIN extracted' = {} /\ reader' = "call"
      BY <1>2, StopForgets DEF RTDBG_Stop
    <2> QED BY <2>1 DEF Remaining, Found, Looking, Sorted
  <1>3. CASE RTDBG_Start \/ UNCHANGED vars
    <2>1. UNCHANGED <<reader, ind, min_index, min_time, extracted, head, status, clock>>
      BY <1>3 DEF RTDBG_Start, vars, ring, readerVars, history
    <2>2. Remaining'
      BY <1>0, <2>1 DEF Remaining, Extracting, Unread, Full, Returning, Slots
    <2>3. Found'
      BY <1>0, <2>1 DEF Found, Looking, Full, Slots
    <2>4. Sorted'
      BY <1>0, <2>1 DEF Sorted
    <2> QED BY <2>2, <2>3, <2>4
  <1>4. CASE Looks
    <2>1. /\ UNCHANGED <<extracted, head, status, clock>>
          /\ \A k \in Slots : Unread(k)' <=> Unread(k)
          /\ Extracting' => Extracting
      BY <1>4, IdleFrame DEF Idle
    <2>2. Remaining'
      BY <1>0, <2>1 DEF Remaining, Slots
    <2>3. Sorted'
      BY <1>0, <2>1 DEF Sorted
    <2>4. /\ \A k \in Slots : head[k].linux_time \in Nat /\ k \in Nat
          /\ min_time \in Nat /\ clock \in Nat /\ -1 \notin Slots
          /\ \A k \in Slots : Full(k) => head[k].linux_time < clock
      <3>1. min_time \in 0 .. clock
        BY DEF TypeInv, TypeOK
      <3>2. \A k \in Slots : Full(k) => head[k].linux_time < clock
        BY DEF Stamps, Turns
      <3> QED BY <3>1, <3>2, Fields, SlotsType DEF Slots
    <2>5. ASSUME Looking, ind \in Slots
          PROVE  /\ \A k \in Slots : k < ind /\ Full(k) =>
                      min_index # -1 /\ min_time <= head[k].linux_time
                 /\ min_index = -1 => min_time = clock
                 /\ min_index # -1 => min_time = head[min_index].linux_time
                 /\ \A k \in Slots : k < ind + 1 => k < ind \/ k = ind
      BY <1>0, <2>4, <2>5 DEF Found
    <2>6. CASE GetTraceEntryRefused \/ GetTraceEntryNone
      BY <2>2, <2>3, <2>6 DEF GetTraceEntryRefused, GetTraceEntryNone, Found, Looking
    <2>7. CASE GetTraceEntryCall
      <3>1. /\ ind' = 0 /\ min_index' = -1 /\ min_time' = clock' /\ reader' = "scan"
            /\ \A k \in Slots : ~(k < 0)
        BY <2>1, <2>7 DEF GetTraceEntryCall, Slots
      <3>2. Found'
        BY <3>1 DEF Found, Looking, Slots
      <3> QED BY <2>2, <2>3, <3>2
    <2>8. CASE GetTraceEntryScan
      <3>1. /\ Looking /\ ind \in Slots /\ reader' # "min"
            /\ UNCHANGED <<min_time, min_index>>
            /\ IF Full(ind) THEN ind' = ind ELSE ind' = ind + 1
        <4>1. ind \in 0 .. TRACE_ENTRIES_NUM /\ ind # TRACE_ENTRIES_NUM
          BY <2>8 DEF GetTraceEntryScan, ScanEnds, TypeInv, TypeOK
        <4>2. ind \in Slots
          BY <4>1, SizesAssumption DEF Slots
        <4> QED BY <2>8, <4>2 DEF GetTraceEntryScan, Looking, Full
      <3>2. \A k \in Slots : k < ind' /\ Full(k) =>
              min_index # -1 /\ min_time <= head[k].linux_time
        BY <2>5, <3>1
      <3>3. Found'
        BY <2>1, <2>5, <3>1, <3>2 DEF Found, Full, Slots
      <3> QED BY <2>2, <2>3, <3>3
    <2>9. CASE GetTraceEntryCompare
      <3>1. /\ Looking /\ ind \in Slots /\ Full(ind)
            /\ UNCHANGED <<min_time, min_index>>
            /\ \/ Earlier(ind) /\ ind' = ind /\ reader' = "min"
               \/ ~Earlier(ind) /\ ind' = ind + 1 /\ reader' = "scan"
        BY <2>9 DEF GetTraceEntryCompare, Looking, Scanning
      <3>2. CASE Earlier(ind)
        <4>1. ind' = ind /\ head[ind].linux_time < min_time
          BY <3>1, <3>2 DEF Earlier
        <4>2. Found'
          BY <2>1, <2>5, <3>1, <4>1 DEF Found, Full, Slots
        <4> QED BY <2>2, <2>3, <4>2
      <3>3. CASE ~Earlier(ind)
        <4>1. ind' = ind + 1 /\ reader' = "scan" /\ ~(head[ind].linux_time < min_time)
          BY <3>1, <3>3 DEF Earlier
        <4>2. min_index # -1 /\ min_time <= head[ind].linux_time
          BY <2>4, <2>5, <3>1, <4>1
        <4>3. \A k \in Slots : k < ind' /\ Full(k) =>
                min_index # -1 /\ min_time <= head[k].linux_time
          BY <2>5, <3>1, <4>1, <4>2
        <4>4. Found'
          BY <2>1, <2>5, <3>1, <4>1, <4>3 DEF Found, Full, Slots
        <4> QED BY <2>2, <2>3, <4>4
      <3> QED BY <3>2, <3>3
    <2>10. CASE GetTraceEntryMin
      <3>1. /\ Looking /\ ind \in Slots /\ Full(ind) /\ reader' = "scan"
            /\ min_time' = head[ind].linux_time /\ min_index' = ind /\ ind' = ind + 1
            /\ head[ind].linux_time < min_time
        BY <1>0, <2>10 DEF GetTraceEntryMin, Looking, Scanning, Found
      <3>2. \A k \in Slots : k < ind' /\ Full(k) => min_time' <= head[k].linux_time
        BY <2>4, <2>5, <3>1
      <3>3. ind # -1
        BY <2>4, <3>1
      <3>4. Found'
        BY <2>1, <3>1, <3>2, <3>3 DEF Found, Full, Slots
      <3> QED BY <2>2, <2>3, <3>4
    <2> QED BY <1>4, <2>6, <2>7, <2>8, <2>9, <2>10 DEF Looks
  <1>5. CASE GetTraceEntryRead
    <2> DEFINE n == Len(extracted) + 1
    <2>1. /\ Full(min_index) /\ min_index \in Slots /\ min_index # -1
          /\ reader = "scan" /\ reader' = "vals" /\ Extracting
          /\ ind = TRACE_ENTRIES_NUM
          /\ UNCHANGED <<head, status, min_index>>
      BY <1>5, Ranges
      DEF GetTraceEntryRead, ScanEnds, Scanning, Looking, ring, Extracting
    <2>2. /\ DOMAIN extracted' = 1 .. n /\ DOMAIN extracted = 1 .. Len(extracted)
          /\ \A i \in 1 .. Len(extracted) : extracted'[i] = extracted[i]
          /\ extracted'[n].head = head[min_index]
          /\ Len(extracted) \in Nat
      BY <1>5, ReadExtracts, Fields
    <2>3. \A k \in Slots : k < ind /\ head[k].linux_time \in Nat
      BY <2>1, Fields, SizesAssumption DEF Slots
    <2>4. min_time = head[min_index].linux_time
          /\ \A k \in Slots : Full(k) => min_time <= head[k].linux_time
      BY <1>0, <2>1, <2>3 DEF Found, Looking
    <2>5. \A k \in Slots : Full(k) /\ k # min_index =>
            head[k].linux_time # head[min_index].linux_time
      BY <2>1 DEF Stamps, Turns
    <2>6. \A k \in Slots : Full(k) /\ k # min_index =>
            head[min_index].linux_time < head[k].linux_time
      BY <2>1, <2>3, <2>4, <2>5
    <2>7. \A k \in Slots : Full(k) => Unread(k)
      BY <2>1 DEF Unread, Returning
    <2>8. \A k \in Slots : Unread(k)' => Full(k) /\ k # min_index
      BY <2>1 DEF Unread, Full, Returning
    <2>9. \A i \in 1 .. n : i \in 1 .. Len(extracted) \/ i = n
      BY <2>2
    <2>10. \A i \in 1 .. Len(extracted) : \A k \in Slots :
             Full(k) => extracted[i].head.linux_time < head[k].linux_time
      BY <1>0, <2>1, <2>2, <2>7 DEF Remaining
    <2>11. \A i \in 1 .. n : \A k \in Slots : Unread(k)' =>
             extracted'[i].head.linux_time < head[k].linux_time
      BY <2>2, <2>6, <2>8, <2>9, <2>10
    <2>12. Remaining'
      BY <2>1, <2>2, <2>11 DEF Remaining, Slots
    <2>13. \A i, j \in 1 .. n : i < j => i \in 1 .. Len(extracted)
      BY <2>2
    <2>14. \A i, j \in 1 .. n : i < j =>
             extracted'[i].head.linux_time < extracted'[j].head.linux_time
      <3> SUFFICES ASSUME NEW i \in 1 .. n, NEW j \in 1 .. n, i < j
                   PROVE  extracted'[i].head.linux_time < extracted'[j].head.linux_time
        OBVIOUS
      <3>1. i \in 1 .. Len(extracted)
        BY <2>13
      <3>2. CASE j = n
        BY <2>1, <2>2, <2>10, <3>1, <3>2
      <3>3. CASE j \in 1 .. Len(extracted)
        BY <1>0, <2>2, <3>1, <3>3 DEF Sorted
      <3> QED BY <2>9, <3>2, <3>3
    <2>15. Sorted'
      BY <2>2, <2>14 DEF Sorted
    <2>16. Found'
      BY <2>1 DEF Found, Looking
    <2> QED BY <2>12, <2>15, <2>16
  <1>6. CASE PartRead
    <2>1. /\ Extracting /\ Returning /\ Returning' /\ ~Looking'
          /\ UNCHANGED <<head, status, min_index>>
      BY <1>6 DEF PartRead, GetTraceEntryVals, GetTraceEntryTime, Extracting, Returning,
                  Looking, ring
    <2>2. /\ DOMAIN extracted' = DOMAIN extracted
          /\ \A i \in DOMAIN extracted : extracted'[i].head = extracted[i].head
      BY <1>6, PartReadExtracts
    <2>3. \A k \in Slots : Unread(k)' <=> Unread(k)
      BY <2>1 DEF Unread, Full
    <2>4. Remaining'
      BY <1>0, <2>1, <2>2, <2>3 DEF Remaining, Slots
    <2>5. Sorted'
      BY <1>0, <2>2 DEF Sorted
    <2> QED BY <2>1, <2>4, <2>5 DEF Found, Looking
  <1>7. CASE GetTraceEntryReturn
    <2>1. /\ reader = "clear" /\ reader' = "call" /\ Extracting
          /\ UNCHANGED <<head, extracted, min_index>>
      BY <1>7 DEF GetTraceEntryReturn, Extracting, history
    <2>2. \A k \in Slots : Unread(k)' => Unread(k)
      <3>1. \A k \in Slots : status'[k] = "DATA_IND" => status[k] = "DATA_IND" /\ k # min_index
        BY <1>7, Ranges DEF GetTraceEntryReturn, Clear
      <3> QED BY <3>1 DEF Unread, Full
    <2>3. Remaining'
      BY <1>0, <2>1, <2>2 DEF Remaining, Slots
    <2>4. Sorted'
      BY <1>0, <2>1 DEF Sorted
    <2> QED BY <2>1, <2>3, <2>4 DEF Found, Looking
  <1> QED BY <1>1, <1>2, <1>3, <1>4, <1>5, <1>6, <1>7
          DEF Next, ReaderStep, Looks, PartRead

LEMMA EmptiedStep ==
  TypeInv /\ Scanning /\ Apart /\ Order /\ Emptied /\ [Next]_vars => Emptied'
  <1> SUFFICES ASSUME TypeInv, Scanning, Apart, Order, Emptied, [Next]_vars,
                      reader' = "done", ~active_', raced' = {}
               PROVE  /\ \A k \in Slots : Full(k)' => head'[k].seq \in late'
                      /\ \A t \in Writers : Holding(t)' => tmp_entry'[t].seq \in late'
    BY DEF Emptied, Slots
  <1>0. raced = {}
    BY RacedGrows
  <1> DEFINE AllLate == /\ \A k \in Slots : Full(k) => head[k].seq \in late
                        /\ \A t \in Writers : Holding(t) => tmp_entry[t].seq \in late
  <1>a. ASSUME UNCHANGED <<reader, active_>> PROVE AllLate
    BY <1>0, <1>a DEF Emptied
  <1> HIDE DEF AllLate
  <1>1. ASSUME NEW t \in Writers, WriterStep(t) \/ AddTraceCall(t)
        PROVE  /\ \A k \in Slots : Full(k)' => head'[k].seq \in late'
               /\ \A u \in Writers : Holding(u)' => tmp_entry'[u].seq \in late'
    <2>1. UNCHANGED <<reader, active_>> /\ ~active_
      BY <1>1, WriterFrame DEF WriterStep
    <2>2. AllLate
      BY <2>1, <1>a
    <2>3. CASE AddTraceCall(t)
      BY <2>1, <2>3 DEF AddTraceCall
    <2>4. CASE AllocPoolChunk(t)
      <3>1. /\ UNCHANGED <<status, head>> /\ late' = late \cup {allocs'}
            /\ tmp_entry'[t].seq = allocs'
            /\ \A u \in Writers \ {t} : tmp_entry'[u] = tmp_entry[u] /\ pc'[u] = pc[u]
        BY <2>1, <2>4, Ranges DEF AllocPoolChunk, Trace
      <3> QED BY <2>2, <3>1 DEF AllLate, Full, Holding
    <2>5. CASE TakeTime(t)
      <3>1. tmp_entry'[t].seq = tmp_entry[t].seq
        BY <2>5, Ranges, Fields DEF TakeTime, Trace
      <3>2. /\ UNCHANGED <<status, head, late>>
            /\ \A u \in Writers : tmp_entry'[u].seq = tmp_entry[u].seq
            /\ \A u \in Writers : Holding(u)' <=> Holding(u)
        BY <2>5, <3>1, Ranges DEF TakeTime, ring, history, Holding
      <3> QED BY <2>2, <3>2 DEF AllLate, Full
    <2>6. CASE CopyHead(t)
      <3>1. /\ UNCHANGED <<tmp_entry, late>> /\ Holding(t)
            /\ \A u \in Writers : Holding(u)' <=> Holding(u)
            /\ \A k \in Slots : head'[k] = IF k = slot[t] THEN tmp_entry[t] ELSE head[k]
            /\ UNCHANGED status
        BY <2>6, Ranges DEF CopyHead, history, Holding
      <3> QED BY <2>2, <3>1 DEF AllLate, Full
    <2>6b. CASE CopyStatus(t)
      <3>1. /\ UNCHANGED <<tmp_entry, head, late>> /\ Holding(t) /\ Copying(t)
            /\ \A u \in Writers : Holding(u)' <=> Holding(u)
            /\ \A k \in Slots : Full(k)' => Full(k) \/ k = slot[t]
        BY <2>6b, Ranges DEF CopyStatus, history, Holding, Copying, Full
      <3>2. slot[t] \in Slots /\ t \in Holders(slot[t])
        BY <3>1, Ranges, HoldersAre
      <3>3. head[slot[t]] = tmp_entry[t]
        BY <1>0, <3>1, <3>2 DEF Apart, ApartAt
      <3> QED BY <2>2, <3>1, <3>3 DEF AllLate
    <2>7. CASE CopyTail(t)
      <3>1. /\ UNCHANGED <<tmp_entry, late, head, status>>
            /\ \A u \in Writers : Holding(u)' => Holding(u)
        BY <2>7, Ranges DEF CopyTail, ring, Holding
      <3> QED BY <2>2, <3>1 DEF AllLate, Full
    <2> QED BY <1>1, <2>3, <2>4, <2>5, <2>6, <2>6b, <2>7 DEF WriterStep
  <1>2. CASE GetTraceEntryNone
    <2>1. /\ reader = "scan" /\ ind = TRACE_ENTRIES_NUM /\ min_index = -1 /\ Extracting
          /\ UNCHANGED <<head, status, pc>>
      BY <1>2 DEF GetTraceEntryNone, ScanEnds, Extracting, ring, writerVars
    <2>2. \A k \in Slots : k < ind
      BY <2>1, SizesAssumption DEF Slots
    <2>3. \A k \in Slots : ~Full(k)
      BY <1>0, <2>1, <2>2 DEF Order, Looking
    <2>4. \A t \in Writers : ~Holding(t)
      BY <1>0, <2>1, NobodyHolds
    <2> QED BY <2>1, <2>3, <2>4 DEF Full, Holding
  <1>3. CASE UNCHANGED vars
    <2>1. UNCHANGED <<reader, active_, status, head, late, pc, tmp_entry>>
      BY <1>3 DEF vars, ring, writerVars, readerVars, history
    <2> QED BY <1>a, <2>1 DEF AllLate, Full, Holding
  <1>4. CASE RTDBG_Stop \/ RTDBG_Start
    BY <1>4 DEF RTDBG_Stop, RTDBG_Start
  <1>5. CASE \/ GetTraceEntryRefused \/ GetTraceEntryCall \/ GetTraceEntryScan
             \/ GetTraceEntryCompare \/ GetTraceEntryMin \/ GetTraceEntryRead
             \/ PartRead \/ GetTraceEntryReturn
    BY <1>5 DEF GetTraceEntryRefused, GetTraceEntryCall, GetTraceEntryScan,
                GetTraceEntryCompare, GetTraceEntryMin, GetTraceEntryRead, PartRead,
                GetTraceEntryVals, GetTraceEntryTime, GetTraceEntryReturn
  <1> QED BY <1>1, <1>2, <1>3, <1>4, <1>5 DEF Next, ReaderStep, PartRead

-----------------------------------------------------------------------------
(* The inductive invariant.                                                *)
IInv == /\ TypeInv /\ Scanning /\ Turns /\ Stamps /\ Fresh /\ Apart /\ Whole
        /\ TornOnlyIfRaced /\ LastTracesKept /\ Order /\ EarliestFirst /\ Emptied

LEMMA IInvInit == Init => IInv
  <1> SUFFICES ASSUME Init PROVE IInv
    OBVIOUS
  <1>1. TypeInv /\ Turns /\ Stamps /\ Fresh /\ Apart
    BY TypeInvInit, TurnsInit, StampsInit, FreshInit, ApartInit
  <1>2. DOMAIN extracted = {} /\ written = {} /\ reader = "idle"
    BY DEF Init
  <1>3. /\ Scanning /\ Whole /\ TornOnlyIfRaced /\ LastTracesKept /\ EarliestFirst
        /\ Emptied
    BY <1>2 DEF Scanning, Looking, Returning, Whole, TornOnlyIfRaced, LastTracesKept,
                EarliestFirst, Emptied
  <1>4. Order
    BY <1>2 DEF Order, Looking, Extracting
  <1> QED BY <1>1, <1>3, <1>4 DEF IInv

LEMMA IInvStep == IInv /\ [Next]_vars => IInv'
  BY TypeInvStep, ScanningStep, TurnsStep, StampsStep, FreshStep, ApartStep,
     TornStep, KeptStep, OrderStep, EmptiedStep DEF IInv

(* The invariant holds in every reachable state.                           *)
THEOREM IInvAlways == Spec => []IInv
  BY IInvInit, IInvStep, PTL DEF Spec

(* A trace comes out in parts of two only from a slot that two writers     *)
(* held at once, or one beside an extraction, however many writers and     *)
(* slots there are.                                                        *)
THEOREM TornOnlyIfRacedAlways == Spec => []TornOnlyIfRaced
  <1>1. IInv => TornOnlyIfRaced
    BY DEF IInv
  <1> QED BY <1>1, IInvAlways, PTL

LEMMA FreshGivesOnce == Fresh => ExtractedOnce
  BY DEF Fresh, ExtractedOnce

(* No trace is extracted twice from a slot that was not raced for, and the *)
(* latest TRACE_ENTRIES_NUM are there or were extracted if no slot was.    *)
THEOREM TracesAccountedAlways == Spec => []TracesAccounted
  <1>1. IInv => TracesAccounted
    BY FreshGivesOnce DEF IInv, TypeInv, TracesAccounted
  <1> QED BY <1>1, IInvAlways, PTL

(* An extraction returns traces in the order of their time stamps unless a *)
(* slot was raced for.                                                     *)
THEOREM EarliestFirstAlways == Spec => []EarliestFirst
  <1>1. IInv => EarliestFirst
    BY DEF IInv
  <1> QED BY <1>1, IInvAlways, PTL

(* An extraction that ends by itself leaves only traces that took their    *)
(* slot after the stop.                                                    *)
THEOREM ExtractionCompleteAlways == Spec => []ExtractionComplete
  <1>1. IInv => ExtractionComplete
    <2> SUFFICES ASSUME Emptied, reader = "done", ~active_, raced = {},
                        NEW e \in InRing
                 PROVE  e.seq \in late
      BY DEF IInv, ExtractionComplete
    <2>1. PICK k \in Slots : Full(k) /\ e = head[k]
      BY DEF InRing, Full
    <2> QED BY <2>1 DEF Emptied
  <1> QED BY <1>1, IInvAlways, PTL

=============================================================================
