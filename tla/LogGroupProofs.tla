--------------------------- MODULE LogGroupProofs ---------------------------
(***************************************************************************)
(* Proofs about module LogGroup, for every set of loggers and readers and  *)
(* every ring size from 2.  They rest on the theorem that the FIFO         *)
(* implements a bounded queue (module MemFifoProofs): below, no step of a  *)
(* lock or a copy is looked at again.                                      *)
(***************************************************************************)
EXTENDS LogGroup, SequenceTheorems, FiniteSetTheorems, TLAPS

FP == INSTANCE MemFifoProofs WITH Entries <- LogEntries

(***************************************************************************)
(* The FIFO of the log group is the one of those proofs.                   *)
(***************************************************************************)
q == FP!Contents
op == FP!AbstractOps
val == FP!AbstractVals

LEMMA SameFifo ==
  /\ Fifo!Init <=> FP!Init
  /\ \A t \in Threads :
       /\ \A e \in LogEntries : Fifo!PushCall(t, e) <=> FP!PushCall(t, e)
       /\ Fifo!PopCall(t) <=> FP!PopCall(t)
       /\ Fifo!Step(t) <=> FP!Step(t)
  /\ Fifo!TypeOK <=> FP!TypeOK
<1>1. Fifo!Init <=> FP!Init
  BY DEF Fifo!Init, FP!Init, Fifo!Indices, FP!Indices, Fifo!Whole, FP!Whole,
         Fifo!Parts, FP!Parts
<1>2. ASSUME NEW t \in Threads, NEW e \in LogEntries
      PROVE  Fifo!PushCall(t, e) <=> FP!PushCall(t, e)
  BY DEF Fifo!PushCall, FP!PushCall, Fifo!Goto, FP!Goto, Fifo!Whole, FP!Whole,
         Fifo!Parts, FP!Parts, Fifo!shared, FP!shared
<1>3. ASSUME NEW t \in Threads
      PROVE  Fifo!PopCall(t) <=> FP!PopCall(t)
  BY DEF Fifo!PopCall, FP!PopCall, Fifo!Goto, FP!Goto, Fifo!shared, FP!shared
<1>4. ASSUME NEW t \in Threads
      PROVE  Fifo!Step(t) <=> FP!Step(t)
  BY DEF Fifo!Step, FP!Step, Fifo!PushStep, FP!PushStep, Fifo!PopStep,
     FP!PopStep,
         Fifo!PushLock, FP!PushLock, Fifo!PushFail, FP!PushFail,
         Fifo!PushCheck, FP!PushCheck, Fifo!PushCopy1, FP!PushCopy1,
         Fifo!PushCopy2, FP!PushCopy2, Fifo!PushCommit, FP!PushCommit,
         Fifo!PushUnlock, FP!PushUnlock, Fifo!PopLock, FP!PopLock,
         Fifo!PopFail, FP!PopFail, Fifo!PopCheck, FP!PopCheck,
         Fifo!PopAdvance, FP!PopAdvance, Fifo!PopCopy1, FP!PopCopy1,
         Fifo!PopCopy2, FP!PopCopy2, Fifo!PopUnlock, FP!PopUnlock,
         Fifo!Goto, FP!Goto, Fifo!shared, FP!shared, Fifo!Full, FP!Full,
         Fifo!Empty, FP!Empty, Fifo!NextInd, FP!NextInd
<1>5. Fifo!TypeOK <=> FP!TypeOK
  BY DEF Fifo!TypeOK, FP!TypeOK, Fifo!Indices, FP!Indices, Fifo!Buffers,
         FP!Buffers, Fifo!Parts, FP!Parts, Fifo!PushPc, FP!PushPc, Fifo!PopPc,
         FP!PopPc
<1>6. QED
  BY <1>1, <1>2, <1>3, <1>4, <1>5

(* What the log group sees of it.                                          *)
QueueSeen ==
  /\ Fifo!Contents = q /\ Fifo!Count = FP!Count
  /\ \A t \in Threads :
       /\ Fifo!AbstractOp(t) = op[t] /\ Fifo!AbstractVal(t) = val[t]
       /\ pc[t] = "idle" <=> op[t] = "idle"
       /\ pc[t] = "idle" => val[t] = data[t]

LEMMA SameQueueNow == QueueSeen
<1>1. Fifo!Contents = q /\ Fifo!Count = FP!Count
  BY DEF q, Fifo!Contents, FP!Contents, Fifo!Count, FP!Count
<1>2. ASSUME NEW t \in Threads
      PROVE  Fifo!AbstractOp(t) = op[t] /\ Fifo!AbstractVal(t) = val[t]
  BY DEF op, val, FP!AbstractOps, FP!AbstractVals, Fifo!AbstractOp,
         FP!AbstractOp, Fifo!AbstractVal, FP!AbstractVal, Fifo!PushPc, FP!PushPc
<1>3. ASSUME NEW t \in Threads
      PROVE  /\ pc[t] = "idle" <=> op[t] = "idle"
             /\ pc[t] = "idle" => val[t] = data[t]
  BY DEF op, val, FP!AbstractOps, FP!AbstractVals, FP!AbstractOp,
         FP!AbstractVal, FP!PushPc
<1>4. QED
  BY <1>1, <1>2, <1>3 DEF QueueSeen

LEMMA SameQueue == QueueSeen /\ QueueSeen'
BY SameQueueNow, PTL

-----------------------------------------------------------------------------
(***************************************************************************)
(* Who is in which call, and what a logger is adding                       *)
(***************************************************************************)
Working ==
  /\ call \in [Threads -> {"none", "adding", "dropping", "reading"}]
  /\ tmp_entry \in [Loggers -> LogEntries \cup {NoEntry}]
  /\ clock \in 0 .. MaxClock
  /\ crashed \in BOOLEAN
  /\ \A t \in Threads :
       /\ call[t] \in {"adding", "dropping"} =>
            t \in Loggers /\ tmp_entry[t] \in LogEntries
       /\ call[t] = "reading" => t \in Readers

(* The entry AddLog stamps.                                                *)
Stamped(t) == [thread |-> t, linux_time |-> clock + 1]

LEMMA StampedIsEntry ==
  ASSUME Working, NEW t \in Loggers, clock < MaxClock
  PROVE  Stamped(t) \in LogEntries
BY BoundsAssumption DEF Working, Stamped, LogEntries

LEMMA WorkingAlways == Spec => []Working
<1>1. Init => Working
  <2> SUFFICES ASSUME Init PROVE Working
    OBVIOUS
  <2>1. clock \in 0 .. MaxClock
    BY BoundsAssumption DEF Init
  <2>2. QED
    BY <2>1 DEF Init, Working
<1>2. Working /\ [Next]_vars => Working'
  <2> SUFFICES ASSUME Working, [Next]_vars
               PROVE  Working'
    OBVIOUS
  <2> USE DEF Working
  <2>1. ASSUME NEW t \in Loggers, AddLogCall(t)
        PROVE  Working'
    <3>1. clock < MaxClock /\ clock' = clock + 1
      BY <2>1 DEF AddLogCall
    <3>2. Stamped(t) \in LogEntries
      BY <3>1, StampedIsEntry
    <3>3. tmp_entry' = [tmp_entry EXCEPT ![t] = Stamped(t)]
      BY <2>1 DEF AddLogCall, Stamped
    <3>4. clock' \in 0 .. MaxClock
      BY <3>1, BoundsAssumption
    <3>5. call' = [call EXCEPT ![t] = "adding"] /\ crashed' = crashed
      BY <2>1 DEF AddLogCall
    <3>6. QED
      BY <3>2, <3>3, <3>4, <3>5 DEF Threads
  <2>2. ASSUME NEW t \in Loggers, AddLogDrop(t) \/ AddLogRetry(t) \/ AddLogReturn(t)
        PROVE  Working'
    BY <2>2 DEF AddLogDrop, AddLogRetry, AddLogReturn
  <2>3. ASSUME NEW t \in Readers, GetLogEntryCall(t) \/ GetLogEntryReturn(t)
        PROVE  Working'
    BY <2>3 DEF GetLogEntryCall, GetLogEntryReturn
  <2>4. ASSUME NEW t \in Threads, FifoStep(t)
        PROVE  Working'
    BY <2>4 DEF FifoStep
  <2>5. CASE Crash
    BY <2>5 DEF Crash
  <2>6. CASE UNCHANGED vars
    BY <2>6 DEF vars
  <2>7. QED
    BY <2>1, <2>2, <2>3, <2>4, <2>5, <2>6
    DEF Next, LoggerStep, ReaderStep, Threads
<1>3. QED
  BY <1>1, <1>2, PTL DEF Spec

-----------------------------------------------------------------------------
(***************************************************************************)
(* The log group uses the FIFO as its specification allows, so what was    *)
(* proved of the FIFO holds in it.                                         *)
(***************************************************************************)
LEMMA StepsOfFifo ==
  Working /\ [Next]_vars => [FP!Next]_(FP!vars)
<1> SUFFICES ASSUME Working, [Next]_vars
             PROVE  [FP!Next]_(FP!vars)
  OBVIOUS
<1>1. ASSUME NEW t \in Threads, NEW e \in LogEntries, Fifo!PushCall(t, e)
      PROVE  FP!Next
  BY <1>1, SameFifo DEF FP!Next, FP!Call, Threads
<1>2. ASSUME NEW t \in Threads, Fifo!PopCall(t) \/ Fifo!Step(t)
      PROVE  FP!Next
  BY <1>2, SameFifo DEF FP!Next, FP!Call, Threads
<1>3. ASSUME NEW t \in Loggers, AddLogCall(t)
      PROVE  FP!Next
  <2>1. Stamped(t) \in LogEntries
    BY <1>3, StampedIsEntry DEF AddLogCall
  <2>2. Fifo!PushCall(t, Stamped(t))
    BY <1>3 DEF AddLogCall, Stamped
  <2>3. QED
    BY <2>1, <2>2, <1>1 DEF Threads
<1>4. ASSUME NEW t \in Loggers, AddLogDrop(t) \/ AddLogRetry(t)
      PROVE  FP!Next
  BY <1>1, <1>2, <1>4 DEF AddLogDrop, AddLogRetry, Working, Threads
<1>5. ASSUME NEW t \in Readers, GetLogEntryCall(t)
      PROVE  FP!Next
  BY <1>2, <1>5 DEF GetLogEntryCall, Threads
<1>6. ASSUME NEW t \in Threads, FifoStep(t)
      PROVE  FP!Next
  BY <1>2, <1>6 DEF FifoStep
<1>7. ASSUME UNCHANGED fifoVars
      PROVE  UNCHANGED FP!vars
  BY <1>7 DEF fifoVars, FP!vars
<1>8. QED
  BY <1>3, <1>4, <1>5, <1>6, <1>7
  DEF Next, LoggerStep, ReaderStep, Threads, AddLogReturn, GetLogEntryReturn,
      Crash, vars

LEMMA FifoInvariant == Spec => [](FP!IInv /\ FP!TypeOK)
<1>1. Init => FP!Init
  BY SameFifo DEF Init
<1>2. Spec => FP!Spec
  BY <1>1, StepsOfFifo, WorkingAlways, PTL DEF Spec, FP!Spec
<1>3. FP!Spec => []FP!IInv
  BY FifoAssumption, FP!InvariantHolds DEF Threads
<1>4. FP!IInv => FP!TypeOK
  BY DEF FP!IInv
<1>5. QED
  BY <1>2, <1>3, <1>4, PTL

-----------------------------------------------------------------------------
(***************************************************************************)
(* The steps, in terms of the queue                                        *)
(***************************************************************************)
Idle == UNCHANGED <<q, op, val, ok>>

LEMMA PushCalled ==
  ASSUME FP!IInv, NEW t \in Threads, NEW e \in LogEntries, Fifo!PushCall(t, e)
  PROVE  /\ op[t] = "idle" /\ op' = [op EXCEPT ![t] = "push"]
         /\ val' = [val EXCEPT ![t] = FP!Whole(e)]
         /\ UNCHANGED <<q, ok>>
<1>1. FP!Queue!CallPush(t, FP!Whole(e))
  BY SameFifo, FifoAssumption, FP!PushCallRefines DEF Threads
<1>2. QED
  BY <1>1 DEF FP!Queue!CallPush, q, op, val

LEMMA PopCalled ==
  ASSUME FP!IInv, NEW t \in Threads, Fifo!PopCall(t)
  PROVE  /\ op[t] = "idle" /\ op' = [op EXCEPT ![t] = "pop"]
         /\ UNCHANGED <<q, val, ok>>
<1>1. FP!Queue!CallPop(t)
  BY SameFifo, FifoAssumption, FP!PopCallRefines DEF Threads
<1>2. QED
  BY <1>1 DEF FP!Queue!CallPop, q, op, val

Pushes(t) ==
  /\ op[t] = "push" /\ op' = [op EXCEPT ![t] = "return"]
  /\ ok' = [ok EXCEPT ![t] = TRUE]
  /\ Len(q) < Capacity /\ q' = Append(q, val[t])
  /\ UNCHANGED val
FindsFull(t) ==
  /\ op[t] = "push" /\ op' = [op EXCEPT ![t] = "return"]
  /\ ok' = [ok EXCEPT ![t] = FALSE]
  /\ Len(q) = Capacity
  /\ UNCHANGED <<q, val>>
Pops(t) ==
  /\ op[t] = "pop" /\ op' = [op EXCEPT ![t] = "return"]
  /\ ok' = [ok EXCEPT ![t] = TRUE]
  /\ q # << >> /\ q' = Tail(q)
  /\ val' = [val EXCEPT ![t] = Head(q)]
FindsEmpty(t) ==
  /\ op[t] = "pop" /\ op' = [op EXCEPT ![t] = "return"]
  /\ ok' = [ok EXCEPT ![t] = FALSE]
  /\ q = << >>
  /\ UNCHANGED <<q, val>>
Returns(t) ==
  /\ op[t] = "return" /\ op' = [op EXCEPT ![t] = "idle"]
  /\ UNCHANGED <<q, val, ok>>
Steps(t) ==
  Pushes(t) \/ FindsFull(t) \/ Pops(t) \/ FindsEmpty(t) \/ Returns(t) \/ Idle

LEMMA Stepped ==
  ASSUME FP!IInv, FP!IInv', NEW t \in Threads, Fifo!Step(t)
  PROVE  Steps(t)
<1>1. \/ FP!Queue!Push(t) \/ FP!Queue!PushFull(t) \/ FP!Queue!Pop(t)
      \/ FP!Queue!PopEmpty(t) \/ FP!Queue!Return(t)
      \/ UNCHANGED FP!Queue!vars
  BY SameFifo, FifoAssumption, FP!ThreadStepRefines DEF Threads
<1> USE DEF FP!Queue!Finish, q, op, val, Capacity
<1>2. CASE FP!Queue!Push(t)
  BY <1>2 DEF FP!Queue!Push, Steps, Pushes
<1>3. CASE FP!Queue!PushFull(t)
  BY <1>3 DEF FP!Queue!PushFull, Steps, FindsFull
<1>4. CASE FP!Queue!Pop(t)
  BY <1>4 DEF FP!Queue!Pop, Steps, Pops
<1>5. CASE FP!Queue!PopEmpty(t)
  BY <1>5 DEF FP!Queue!PopEmpty, Steps, FindsEmpty
<1>6. CASE FP!Queue!Return(t)
  BY <1>6 DEF FP!Queue!Return, Steps, Returns
<1>7. CASE UNCHANGED FP!Queue!vars
  BY <1>7 DEF FP!Queue!vars, Steps, Idle
<1>8. QED
  BY <1>1, <1>2, <1>3, <1>4, <1>5, <1>6, <1>7

LEMMA FifoIdle == UNCHANGED fifoVars => Idle
BY DEF fifoVars, Idle, q, op, val, FP!Contents, FP!Count, FP!AbstractOps,
       FP!AbstractVals, FP!AbstractOp, FP!AbstractVal

-----------------------------------------------------------------------------
(***************************************************************************)
(* Where each thread is in its call                                        *)
(***************************************************************************)
Wholes == {FP!Whole(e) : e \in LogEntries}

LEMMA WholeOf == \A e : FP!Whole(e)[1] = e
BY DEF FP!Whole, FP!Parts

Calling ==
  /\ q \in Seq(Wholes)
  /\ op \in [Threads -> {"idle", "push", "pop", "return"}]
  /\ DOMAIN val = Threads /\ val = [t \in Threads |-> val[t]]
  /\ ok \in [Threads -> BOOLEAN]
  /\ \A t \in Threads :
       /\ call[t] = "none" => op[t] = "idle"
       /\ call[t] = "adding" =>
            op[t] # "pop" /\ val[t] = FP!Whole(tmp_entry[t])
       /\ call[t] \in {"dropping", "reading"} =>
            op[t] # "push" /\ (op[t] # "pop" /\ ok[t] => val[t] \in Wholes)

LEMMA CallingAlways == Spec => []Calling
<1>1. Init => Calling
  <2> SUFFICES ASSUME Init PROVE Calling
    OBVIOUS
  <2>1. FP!Queue!Init
    BY FifoAssumption, SameFifo, FP!InitRefines DEF Init, Threads
  <2>2. q = << >> /\ op = [t \in Threads |-> "idle"]
    BY <2>1 DEF FP!Queue!Init, q, op
  <2>3. DOMAIN val = Threads /\ val = [t \in Threads |-> val[t]]
    BY DEF val, FP!AbstractVals
  <2>4. ok \in [Threads -> BOOLEAN]
    BY DEF Init, Fifo!Init
  <2>5. \A t \in Threads : call[t] = "none"
    BY DEF Init
  <2>6. QED
    BY <2>2, <2>3, <2>4, <2>5 DEF Calling
<1>2. Working /\ FP!IInv /\ FP!IInv' /\ Calling /\ [Next]_vars => Calling'
  <2> SUFFICES ASSUME Working, FP!IInv, FP!IInv', Calling, [Next]_vars
               PROVE  Calling'
    OBVIOUS
  <2>0. DOMAIN val' = Threads /\ val' = [t \in Threads |-> val'[t]]
    BY DEF val, FP!AbstractVals
  <2> USE DEF Calling, Working
  <2>1. ASSUME NEW t \in Loggers, AddLogCall(t)
        PROVE  Calling'
    <3>1. Stamped(t) \in LogEntries
      BY <2>1, StampedIsEntry DEF AddLogCall
    <3>2. Fifo!PushCall(t, Stamped(t)) /\ tmp_entry' = [tmp_entry EXCEPT ![t] = Stamped(t)]
      BY <2>1 DEF AddLogCall, Stamped
    <3>3. call' = [call EXCEPT ![t] = "adding"]
      BY <2>1 DEF AddLogCall
    <3>4. /\ op' = [op EXCEPT ![t] = "push"]
          /\ val' = [val EXCEPT ![t] = FP!Whole(Stamped(t))]
          /\ UNCHANGED <<q, ok>>
      BY <3>1, <3>2, PushCalled DEF Threads
    <3>5. tmp_entry'[t] = Stamped(t)
      BY <3>2
    <3>6. QED
      BY <2>0, <3>2, <3>3, <3>4, <3>5 DEF Threads
  <2>2. ASSUME NEW t \in Loggers, AddLogDrop(t)
        PROVE  Calling'
    BY <2>0, <2>2, PopCalled, ZenonT(30) DEF AddLogDrop, Threads
  <2>3. ASSUME NEW t \in Loggers, AddLogRetry(t)
        PROVE  Calling'
    <3>1. call[t] = "dropping" /\ tmp_entry[t] \in LogEntries
      BY <2>3 DEF AddLogRetry, Threads
    <3>2. /\ op' = [op EXCEPT ![t] = "push"]
          /\ val' = [val EXCEPT ![t] = FP!Whole(tmp_entry[t])]
          /\ UNCHANGED <<q, ok>>
      BY <2>3, <3>1, PushCalled DEF AddLogRetry, Threads
    <3>3. call' = [call EXCEPT ![t] = "adding"] /\ tmp_entry' = tmp_entry
      BY <2>3 DEF AddLogRetry
    <3>4. QED
      BY <2>0, <3>2, <3>3 DEF Threads
  <2>4. ASSUME NEW t \in Loggers, AddLogReturn(t)
        PROVE  Calling'
    BY <2>0, <2>4, FifoIdle, SameQueue, ZenonT(30)
    DEF AddLogReturn, Threads, Idle, QueueSeen
  <2>5. ASSUME NEW t \in Readers, GetLogEntryCall(t)
        PROVE  Calling'
    BY <2>0, <2>5, PopCalled, ZenonT(30) DEF GetLogEntryCall, Threads
  <2>6. ASSUME NEW t \in Readers, GetLogEntryReturn(t)
        PROVE  Calling'
    BY <2>0, <2>6, FifoIdle, SameQueue, ZenonT(30)
    DEF GetLogEntryReturn, Threads, Idle, QueueSeen
  <2>7. ASSUME NEW t \in Threads, FifoStep(t)
        PROVE  Calling'
    <3>1. Steps(t) /\ UNCHANGED <<call, tmp_entry>>
      BY <2>7, Stepped DEF FifoStep
    <3>2. CASE Pushes(t)
      <4>1. val[t] \in Wholes
        BY <3>2 DEF Pushes, Wholes
      <4>2. Append(q, val[t]) \in Seq(Wholes)
        BY <4>1, AppendProperties
      <4>3. QED
        BY <2>0, <3>1, <3>2, <4>2 DEF Pushes
    <3>3. CASE Pops(t)
      <4>1. Head(q) \in Wholes /\ Tail(q) \in Seq(Wholes)
        BY <3>3, HeadTailProperties DEF Pops
      <4>2. QED
        BY <2>0, <3>1, <3>3, <4>1 DEF Pops
    <3>4. CASE FindsFull(t) \/ FindsEmpty(t) \/ Returns(t) \/ Idle
      BY <2>0, <3>1, <3>4 DEF FindsFull, FindsEmpty, Returns, Idle
    <3>5. QED
      BY <3>1, <3>2, <3>3, <3>4 DEF Steps
  <2>8. CASE Crash \/ UNCHANGED vars
    BY <2>0, <2>8, FifoIdle DEF Crash, vars, Idle
  <2>9. QED
    BY <2>1, <2>2, <2>3, <2>4, <2>5, <2>6, <2>7, <2>8
    DEF Next, LoggerStep, ReaderStep, Threads
<1>3. QED
  BY <1>1, <1>2, WorkingAlways, FifoInvariant, PTL DEF Spec

-----------------------------------------------------------------------------
(***************************************************************************)
(* What the mapping of the refinement shows of each thread                 *)
(***************************************************************************)
Has(t) ==
  call[t] \in {"dropping", "reading"} /\ op[t] \in {"return", "idle"} /\ ok[t]

BufferSeen ==
  /\ kept = [i \in DOMAIN q |-> q[i][1]]
  /\ doing = [t \in Threads |-> doing[t]] /\ item = [t \in Threads |-> item[t]]
  /\ \A t \in Threads :
       /\ call[t] = "none" => doing[t] = "idle"
       /\ call[t] = "adding" =>
            doing[t] = IF op[t] = "push" THEN "adding"
                       ELSE IF ok[t] THEN "added" ELSE "full"
       /\ call[t] = "dropping" =>
            doing[t] = IF op[t] # "pop" THEN "adding" ELSE "full"
       /\ call[t] = "reading" =>
            doing[t] = IF op[t] # "pop" THEN "read" ELSE "reading"
       /\ Has(t) => InHand(t) = {val[t][1]}
       /\ ~Has(t) => InHand(t) = {}
       /\ t \in Loggers => item[t] = tmp_entry[t]
       /\ t \notin Loggers => item[t] = IF Has(t) THEN val[t][1] ELSE NoEntry

LEMMA SameBufferNow == BufferSeen
<1>1. kept = [i \in DOMAIN q |-> q[i][1]]
  BY SameQueue DEF kept, QueueSeen
<1>2. ASSUME NEW t \in Threads
      PROVE  /\ call[t] = "none" => doing[t] = "idle"
             /\ call[t] = "adding" =>
                  doing[t] = IF op[t] = "push" THEN "adding"
                             ELSE IF ok[t] THEN "added" ELSE "full"
             /\ call[t] = "dropping" =>
                  doing[t] = IF op[t] # "pop" THEN "adding" ELSE "full"
             /\ call[t] = "reading" =>
                  doing[t] = IF op[t] # "pop" THEN "read" ELSE "reading"
  BY SameQueue DEF doing, Doing, PopDone, QueueSeen
<1>3. ASSUME NEW t \in Threads
      PROVE  /\ Has(t) => InHand(t) = {val[t][1]}
             /\ ~Has(t) => InHand(t) = {}
  BY SameQueue DEF Has, InHand, QueueSeen
<1>4. ASSUME NEW t \in Threads
      PROVE  /\ t \in Loggers => item[t] = tmp_entry[t]
             /\ t \notin Loggers => item[t] = IF Has(t) THEN val[t][1] ELSE NoEntry
  BY <1>3, SameQueue DEF item, Item, QueueSeen
<1>5. doing = [t \in Threads |-> doing[t]] /\ item = [t \in Threads |-> item[t]]
  BY DEF doing, item
<1>6. QED
  BY <1>1, <1>2, <1>3, <1>4, <1>5 DEF BufferSeen

LEMMA SameBuffer == BufferSeen /\ BufferSeen'
BY SameBufferNow, PTL

(* A step of t shows nothing of another thread.                            *)
LEMMA OthersStay ==
  ASSUME NEW t \in Threads,
         \A u \in Threads \ {t} :
           /\ call'[u] = call[u] /\ op'[u] = op[u] /\ val'[u] = val[u]
           /\ ok'[u] = ok[u] /\ (u \in Loggers => tmp_entry'[u] = tmp_entry[u]),
         call[t] \in {"none", "adding", "dropping", "reading"},
         \A u \in Threads : call[u] \in {"none", "adding", "dropping", "reading"}
  PROVE  /\ doing' = [doing EXCEPT ![t] = doing'[t]]
         /\ item' = [item EXCEPT ![t] = item'[t]]
         /\ \A u \in Threads \ {t} : InHand(u)' = InHand(u)
<1>1. \A u \in Threads \ {t} : doing'[u] = doing[u]
  BY SameBuffer DEF BufferSeen
<1>2. \A u \in Threads \ {t} : (Has(u)' <=> Has(u)) /\ val'[u] = val[u]
  BY DEF Has
<1>3. ASSUME NEW u \in Threads \ {t}
      PROVE  InHand(u)' = InHand(u)
  <2>1. CASE Has(u)
    <3>1. Has(u)' /\ val'[u] = val[u]
      BY <2>1, <1>2
    <3>2. InHand(u) = {val[u][1]} /\ InHand(u)' = {val'[u][1]}
      BY <2>1, <3>1, SameBuffer DEF BufferSeen
    <3>3. QED
      BY <3>1, <3>2
  <2>2. CASE ~Has(u)
    BY <2>2, <1>2, SameBuffer, ZenonT(60) DEF BufferSeen
  <2>3. QED
    BY <2>1, <2>2
<1>4. \A u \in Threads \ {t} : item'[u] = item[u]
  BY <1>2, SameBuffer DEF BufferSeen
<1>5. QED
  BY <1>1, <1>3, <1>4, SameBuffer DEF BufferSeen

(* A step that moves no operation and no call shows nothing at all.         *)
LEMMA Unseen ==
  Idle /\ UNCHANGED <<call, tmp_entry, added, dropped, delivered>>
    => UNCHANGED Buffer!vars
<1> SUFFICES ASSUME Idle, UNCHANGED <<call, tmp_entry, added, dropped, delivered>>
             PROVE  UNCHANGED Buffer!vars
  OBVIOUS
<1> USE DEF Idle
<1>1. ASSUME NEW t \in Threads
      PROVE  doing'[t] = doing[t] /\ item'[t] = item[t] /\ InHand(t)' = InHand(t)
  <2>1. Doing(t)' = Doing(t)
    BY SameQueue DEF Doing, PopDone, QueueSeen
  <2>2. Has(t)' <=> Has(t)
    BY DEF Has
  <2>3. item'[t] = item[t]
    BY <2>2, SameBuffer DEF BufferSeen
  <2>4. InHand(t)' = InHand(t)
    BY <2>2, SameBuffer, ZenonT(30) DEF BufferSeen
  <2>5. QED
    BY <2>1, <2>3, <2>4 DEF doing
<1>2. UNCHANGED <<doing, item>>
  BY <1>1, SameBuffer DEF BufferSeen
<1>3. discarded' = discarded
  BY <1>1 DEF discarded, Threads
<1>4. kept' = kept
  BY SameBuffer DEF BufferSeen
<1>5. QED
  BY <1>2, <1>3, <1>4 DEF Buffer!vars

(* So what is discarded changes only by what t has and had in hand.        *)
LEMMA DiscardedBy ==
  ASSUME NEW t \in Threads, \A u \in Threads \ {t} : InHand(u)' = InHand(u)
  PROVE  /\ t \in Loggers /\ dropped' \cup InHand(t)' = dropped \cup InHand(t)
              => discarded' = discarded
         /\ t \notin Loggers /\ dropped' = dropped => discarded' = discarded
         /\ \A e : t \in Loggers /\ dropped' = dropped /\ InHand(t) = {}
                   /\ InHand(t)' = {e} => discarded' = discarded \cup {e}
BY DEF discarded, Threads

(* The logs in the queue: pushing adds one, popping takes the oldest.      *)
LogsOf(s) == [i \in DOMAIN s |-> s[i][1]]

LEMMA KeptFacts ==
  ASSUME NEW s \in Seq(Wholes)
  PROVE  /\ LogsOf(s) \in Seq(LogEntries) /\ Len(LogsOf(s)) = Len(s)
         /\ LogsOf(s) = << >> <=> s = << >>
         /\ \A e \in LogEntries :
              LogsOf(Append(s, FP!Whole(e))) = Append(LogsOf(s), e)
         /\ s # << >> => /\ Head(LogsOf(s)) = Head(s)[1]
                         /\ Head(LogsOf(s)) \in LogEntries
                         /\ LogsOf(Tail(s)) = Tail(LogsOf(s))
<1> USE DEF LogsOf
<1>1. \A w \in Wholes : w[1] \in LogEntries
  BY WholeOf DEF Wholes
<1>2. LogsOf(s) \in Seq(LogEntries) /\ Len(LogsOf(s)) = Len(s)
  BY <1>1
<1>3. LogsOf(s) = << >> <=> s = << >>
  BY <1>2
<1>4. ASSUME NEW e \in LogEntries
      PROVE  LogsOf(Append(s, FP!Whole(e))) = Append(LogsOf(s), e)
  <2>1. FP!Whole(e) \in Wholes /\ FP!Whole(e)[1] = e
    BY WholeOf DEF Wholes
  <2>2. QED
    BY <1>2, <2>1
<1>5. ASSUME s # << >>
      PROVE  /\ Head(LogsOf(s)) = Head(s)[1]
             /\ Head(LogsOf(s)) \in LogEntries
             /\ LogsOf(Tail(s)) = Tail(LogsOf(s))
  BY <1>1, <1>2, <1>5
<1>6. QED
  BY <1>2, <1>3, <1>4, <1>5

LEMMA KeptIs == kept = LogsOf(q) /\ kept' = LogsOf(q')
BY SameBuffer DEF BufferSeen, LogsOf

-----------------------------------------------------------------------------
(***************************************************************************)
(* Each step is one of the log buffer, or none                             *)
(***************************************************************************)
BeginsAdd(t) ==
  /\ Buffer!BeginAdd(t)
  /\ item'[t] = Stamped(t)
  /\ clock < MaxClock /\ clock' = clock + 1
Adds(t) ==
  \/ Buffer!Add(t) \/ Buffer!FindFull(t) \/ Buffer!MakeRoom(t) \/ Buffer!EndAdd(t)
Reads(t) == Buffer!BeginRead(t) \/ Buffer!Read(t) \/ Buffer!EndRead(t)

GroupStep ==
  \/ \E t \in Loggers : BeginsAdd(t)
  \/ clock' = clock /\ \/ \E t \in Loggers : Adds(t)
                       \/ \E t \in Readers : Reads(t)
                       \/ UNCHANGED Buffer!vars

Known == Working /\ Calling

LEMMA AddLogCallSteps ==
  ASSUME Known, FP!IInv, NEW t \in Loggers, AddLogCall(t)
  PROVE  BeginsAdd(t)
<1> USE DEF Known
<1>1. Stamped(t) \in LogEntries /\ t \in Threads
  BY StampedIsEntry DEF AddLogCall, Threads
<1>2. Fifo!PushCall(t, Stamped(t)) /\ tmp_entry' = [tmp_entry EXCEPT ![t] = Stamped(t)]
  BY DEF AddLogCall, Stamped
<1>3. /\ op' = [op EXCEPT ![t] = "push"]
      /\ val' = [val EXCEPT ![t] = FP!Whole(Stamped(t))]
      /\ UNCHANGED <<q, ok>>
  BY <1>1, <1>2, PushCalled
<1>4. /\ call[t] = "none" /\ call' = [call EXCEPT ![t] = "adding"]
      /\ clock < MaxClock /\ clock' = clock + 1 /\ UNCHANGED history
  BY DEF AddLogCall
<1>5. /\ doing' = [doing EXCEPT ![t] = doing'[t]]
      /\ item' = [item EXCEPT ![t] = item'[t]]
      /\ \A u \in Threads \ {t} : InHand(u)' = InHand(u)
  BY <1>1, <1>2, <1>3, <1>4, OthersStay DEF Working, Calling
<1>6. doing[t] = "idle" /\ doing'[t] = "adding" /\ item'[t] = Stamped(t)
  BY <1>1, <1>2, <1>3, <1>4, SameBuffer DEF BufferSeen, Working, Calling
<1>7. InHand(t) = {} /\ InHand(t)' = {}
  BY <1>1, <1>3, <1>4, SameBuffer DEF BufferSeen, Has, Working
<1>8. UNCHANGED <<kept, added, discarded, delivered>>
  BY <1>1, <1>3, <1>4, <1>5, <1>7, DiscardedBy, SameBuffer
  DEF BufferSeen, history
<1>9. QED
  BY <1>1, <1>4, <1>5, <1>6, <1>8 DEF BeginsAdd, Buffer!BeginAdd, Buffer!Moves

LEMMA AddLogDropSteps ==
  ASSUME Known, FP!IInv, NEW t \in Loggers, AddLogDrop(t)
  PROVE  UNCHANGED Buffer!vars
<1> USE DEF Known
<1>1. t \in Threads /\ Fifo!PopCall(t)
  BY DEF AddLogDrop, Threads
<1>2. /\ op[t] = "idle" /\ op' = [op EXCEPT ![t] = "pop"]
      /\ UNCHANGED <<q, val, ok>>
  BY <1>1, PopCalled
<1>3. /\ call[t] = "adding" /\ ~ok[t] /\ call' = [call EXCEPT ![t] = "dropping"]
      /\ tmp_entry' = tmp_entry /\ UNCHANGED history
  BY DEF AddLogDrop
<1>4. /\ doing' = [doing EXCEPT ![t] = doing'[t]]
      /\ item' = [item EXCEPT ![t] = item'[t]]
      /\ \A u \in Threads \ {t} : InHand(u)' = InHand(u)
  BY <1>1, <1>2, <1>3, OthersStay DEF Working, Calling
<1>5. doing'[t] = doing[t] /\ item'[t] = item[t]
  BY <1>1, <1>2, <1>3, SameBuffer DEF BufferSeen, Working, Calling
<1>6. InHand(t) = {} /\ InHand(t)' = {}
  BY <1>1, <1>2, <1>3, SameBuffer DEF BufferSeen, Has, Working, Calling
<1>7. UNCHANGED <<kept, added, discarded, delivered>>
  BY <1>1, <1>2, <1>3, <1>4, <1>6, DiscardedBy, SameBuffer
  DEF BufferSeen, history
<1>8. doing' = doing /\ item' = item
  BY <1>4, <1>5, SameBuffer DEF BufferSeen
<1>9. QED
  BY <1>7, <1>8 DEF Buffer!vars

LEMMA AddLogRetrySteps ==
  ASSUME Known, FP!IInv, NEW t \in Loggers, AddLogRetry(t)
  PROVE  UNCHANGED Buffer!vars
<1> USE DEF Known
<1>1. t \in Threads /\ call[t] = "dropping" /\ tmp_entry[t] \in LogEntries
  BY DEF AddLogRetry, Threads, Working
<1>2. /\ op[t] = "idle" /\ op' = [op EXCEPT ![t] = "push"]
      /\ val' = [val EXCEPT ![t] = FP!Whole(tmp_entry[t])]
      /\ UNCHANGED <<q, ok>>
  BY <1>1, PushCalled DEF AddLogRetry
<1>3. /\ call' = [call EXCEPT ![t] = "adding"] /\ tmp_entry' = tmp_entry
      /\ UNCHANGED <<added, delivered>>
  BY DEF AddLogRetry
<1>4. /\ doing' = [doing EXCEPT ![t] = doing'[t]]
      /\ item' = [item EXCEPT ![t] = item'[t]]
      /\ \A u \in Threads \ {t} : InHand(u)' = InHand(u)
  BY <1>1, <1>2, <1>3, OthersStay DEF Working, Calling
<1>5. doing'[t] = doing[t] /\ item'[t] = item[t]
  <2>1. op'[t] = "push" /\ call'[t] = "adding"
    BY <1>1, <1>2, <1>3 DEF Working, Calling
  <2>2. doing[t] = "adding" /\ doing'[t] = "adding"
    BY <1>1, <1>2, <2>1, SameBuffer DEF BufferSeen
  <2>3. item[t] = tmp_entry[t] /\ item'[t] = tmp_entry'[t]
    BY <1>1, SameBuffer DEF BufferSeen
  <2>4. QED
    BY <1>3, <2>2, <2>3
<1>6. dropped' = dropped \cup InHand(t)
  <2>1. val[t] = data[t]
    BY <1>1, <1>2, SameQueue DEF QueueSeen
  <2>2. InHand(t) = IF ok[t] THEN {data[t][1]} ELSE {}
    BY <1>1, <1>2, <2>1, SameBuffer DEF BufferSeen, Has
  <2>3. QED
    BY <2>2 DEF AddLogRetry
<1>7. InHand(t)' = {}
  BY <1>1, <1>3, SameBuffer DEF BufferSeen, Has, Working
<1>8. UNCHANGED <<kept, added, discarded, delivered>>
  BY <1>1, <1>2, <1>3, <1>4, <1>6, <1>7, DiscardedBy, SameBuffer DEF BufferSeen
<1>9. doing' = doing /\ item' = item
  BY <1>4, <1>5, SameBuffer DEF BufferSeen
<1>10. QED
  BY <1>8, <1>9 DEF Buffer!vars

LEMMA AddLogReturnSteps ==
  ASSUME Known, FP!IInv, NEW t \in Loggers, AddLogReturn(t)
  PROVE  Buffer!EndAdd(t)
<1> USE DEF Known
<1>1. /\ t \in Threads /\ call[t] = "adding" /\ op[t] = "idle" /\ ok[t]
      /\ UNCHANGED <<q, op, val, ok>>
  BY FifoIdle, SameQueue DEF AddLogReturn, Threads, QueueSeen, Idle
<1>2. /\ call' = [call EXCEPT ![t] = "none"] /\ tmp_entry' = tmp_entry
      /\ added' = added \cup {tmp_entry[t]} /\ UNCHANGED <<dropped, delivered>>
  BY DEF AddLogReturn
<1>3. /\ doing' = [doing EXCEPT ![t] = doing'[t]]
      /\ item' = [item EXCEPT ![t] = item'[t]]
      /\ \A u \in Threads \ {t} : InHand(u)' = InHand(u)
  BY <1>1, <1>2, OthersStay DEF Working, Calling
<1>4. doing[t] = "added" /\ doing'[t] = "idle" /\ item'[t] = item[t]
      /\ item[t] = tmp_entry[t]
  BY <1>1, <1>2, SameBuffer DEF BufferSeen, Working, Calling
<1>5. InHand(t) = {} /\ InHand(t)' = {}
  BY <1>1, <1>2, SameBuffer DEF BufferSeen, Has, Working
<1>6. UNCHANGED <<kept, discarded, delivered>>
  BY <1>1, <1>2, <1>3, <1>5, DiscardedBy, SameBuffer DEF BufferSeen
<1>7. item' = item
  BY <1>3, <1>4, SameBuffer DEF BufferSeen
<1>8. QED
  BY <1>2, <1>3, <1>4, <1>6, <1>7 DEF Buffer!EndAdd, Buffer!Moves

LEMMA GetLogEntryCallSteps ==
  ASSUME Known, FP!IInv, NEW t \in Readers, GetLogEntryCall(t)
  PROVE  Buffer!BeginRead(t)
<1> USE DEF Known
<1>1. t \in Threads /\ t \notin Loggers /\ Fifo!PopCall(t)
  BY RolesAssumption DEF GetLogEntryCall, Threads
<1>2. /\ op[t] = "idle" /\ op' = [op EXCEPT ![t] = "pop"]
      /\ UNCHANGED <<q, val, ok>>
  BY <1>1, PopCalled
<1>3. /\ call[t] = "none" /\ call' = [call EXCEPT ![t] = "reading"]
      /\ tmp_entry' = tmp_entry /\ UNCHANGED history
  BY DEF GetLogEntryCall
<1>4. /\ doing' = [doing EXCEPT ![t] = doing'[t]]
      /\ item' = [item EXCEPT ![t] = item'[t]]
      /\ \A u \in Threads \ {t} : InHand(u)' = InHand(u)
  BY <1>1, <1>2, <1>3, OthersStay DEF Working, Calling
<1>5. ~Has(t) /\ ~Has(t)'
  BY <1>1, <1>2, <1>3 DEF Has, Working, Calling
<1>6. doing[t] = "idle" /\ doing'[t] = "reading" /\ item'[t] = item[t]
  BY <1>1, <1>2, <1>3, <1>5, SameBuffer DEF BufferSeen, Working, Calling
<1>7. UNCHANGED <<kept, added, discarded, delivered>>
  BY <1>1, <1>2, <1>3, <1>4, DiscardedBy, SameBuffer DEF BufferSeen, history
<1>8. item' = item
  BY <1>4, <1>6, SameBuffer DEF BufferSeen
<1>9. QED
  BY <1>4, <1>6, <1>7, <1>8 DEF Buffer!BeginRead, Buffer!Moves

LEMMA GetLogEntryReturnSteps ==
  ASSUME Known, FP!IInv, NEW t \in Readers, GetLogEntryReturn(t)
  PROVE  Buffer!EndRead(t)
<1> USE DEF Known
<1>1. /\ t \in Threads /\ t \notin Loggers /\ call[t] = "reading" /\ op[t] = "idle"
      /\ val[t] = data[t] /\ UNCHANGED <<q, op, val, ok>>
  BY RolesAssumption, FifoIdle, SameQueue
  DEF GetLogEntryReturn, Threads, QueueSeen, Idle
<1>2. /\ call' = [call EXCEPT ![t] = "none"] /\ tmp_entry' = tmp_entry
      /\ UNCHANGED <<added, dropped>>
      /\ delivered' = IF ok[t] THEN Append(delivered, data[t][1]) ELSE delivered
  BY DEF GetLogEntryReturn
<1>3. /\ doing' = [doing EXCEPT ![t] = doing'[t]]
      /\ item' = [item EXCEPT ![t] = item'[t]]
      /\ \A u \in Threads \ {t} : InHand(u)' = InHand(u)
  BY <1>1, <1>2, OthersStay DEF Working, Calling
<1>4. (Has(t) <=> ok[t]) /\ ~Has(t)'
  BY <1>1, <1>2 DEF Has, Working
<1>5. doing[t] = "read" /\ doing'[t] = "idle" /\ item'[t] = NoEntry
  BY <1>1, <1>2, <1>4, SameBuffer DEF BufferSeen, Working
<1>6. item[t] = (IF ok[t] THEN data[t][1] ELSE NoEntry)
  BY <1>1, <1>4, SameBuffer DEF BufferSeen
<1>7. ok[t] => data[t][1] # NoEntry
  BY <1>1, WholeOf, EntriesAssumption DEF Calling, Wholes
<1>8. UNCHANGED <<kept, added, discarded>>
  BY <1>1, <1>2, <1>3, DiscardedBy, SameBuffer DEF BufferSeen
<1>9. QED
  BY <1>2, <1>3, <1>5, <1>6, <1>7, <1>8 DEF Buffer!EndRead, Buffer!Moves

LEMMA FifoStepSteps ==
  ASSUME Known, FP!IInv, FP!IInv', NEW t \in Threads, FifoStep(t)
  PROVE  \/ t \in Loggers /\ Adds(t)
         \/ t \in Readers /\ Reads(t)
         \/ UNCHANGED Buffer!vars
<1> USE DEF Known
<1>1. /\ Steps(t) /\ UNCHANGED <<call, tmp_entry, history>>
  BY Stepped DEF FifoStep
<1>2. /\ call[t] # "none" \/ op[t] = "idle"
      /\ call[t] \in {"none", "adding", "dropping", "reading"}
      /\ call[t] \in {"adding", "dropping"} => t \in Loggers /\ tmp_entry[t] \in LogEntries
      /\ call[t] = "reading" => t \in Readers /\ t \notin Loggers
  BY RolesAssumption DEF Working, Calling
<1>3. UNCHANGED <<added, dropped, delivered, call, tmp_entry>>
  BY <1>1 DEF history
<1>4. /\ doing' = [doing EXCEPT ![t] = doing'[t]]
      /\ item' = [item EXCEPT ![t] = item'[t]]
      /\ \A u \in Threads \ {t} : InHand(u)' = InHand(u)
  <2>1. \A u \in Threads \ {t} : op'[u] = op[u] /\ val'[u] = val[u] /\ ok'[u] = ok[u]
    BY <1>1
    DEF Calling, Steps, Pushes, FindsFull, Pops, FindsEmpty, Returns, Idle
  <2>2. QED
    BY <1>3, <2>1, OthersStay DEF Working
<1>5. CASE Pushes(t)
  <2>1. call[t] = "adding" /\ t \in Loggers
    BY <1>2, <1>5 DEF Pushes, Calling
  <2>2. op'[t] = "return" /\ ok'[t] /\ val'[t] = val[t]
    BY <1>5 DEF Pushes, Calling
  <2>3. doing[t] = "adding" /\ doing'[t] = "added"
    BY <1>3, <1>5, <2>1, <2>2, SameBuffer DEF BufferSeen, Pushes
  <2>4. item[t] = tmp_entry[t] /\ item'[t] = item[t]
    BY <1>3, <2>1, SameBuffer DEF BufferSeen
  <2>5. InHand(t) = {} /\ InHand(t)' = {}
    BY <1>3, <2>1, SameBuffer DEF BufferSeen, Has
  <2>6. Len(kept) < Capacity /\ kept' = Append(kept, item[t])
    <3>1. val[t] = FP!Whole(tmp_entry[t]) /\ tmp_entry[t] \in LogEntries
      BY <1>2, <2>1 DEF Calling
    <3>2. q' = Append(q, FP!Whole(tmp_entry[t])) /\ Len(q) < Capacity
      BY <1>5, <3>1 DEF Pushes
    <3>3. item[t] = tmp_entry[t]
      BY <2>1, SameBuffer DEF BufferSeen
    <3>4. QED
      BY <3>1, <3>2, <3>3, KeptIs, KeptFacts DEF Calling
  <2>7. UNCHANGED <<item, added, discarded, delivered>>
    BY <1>3, <1>4, <2>1, <2>4, <2>5, DiscardedBy, SameBuffer DEF BufferSeen
  <2>8. QED
    BY <1>4, <2>1, <2>3, <2>6, <2>7 DEF Adds, Buffer!Add, Buffer!Moves
<1>6. CASE FindsFull(t)
  <2>1. call[t] = "adding" /\ t \in Loggers
    BY <1>2, <1>6 DEF FindsFull, Calling
  <2>2. op'[t] = "return" /\ ~ok'[t] /\ q' = q
    BY <1>6 DEF FindsFull, Calling
  <2>3. doing[t] = "adding" /\ doing'[t] = "full"
    BY <1>3, <1>6, <2>1, <2>2, SameBuffer DEF BufferSeen, FindsFull
  <2>4. item'[t] = item[t]
    BY <1>3, <2>1, SameBuffer DEF BufferSeen
  <2>5. InHand(t) = {} /\ InHand(t)' = {}
    BY <1>3, <2>1, SameBuffer DEF BufferSeen, Has
  <2>6. Len(kept) = Capacity
    BY <1>6, KeptIs, KeptFacts DEF Calling, FindsFull
  <2>7. UNCHANGED <<kept, item, added, discarded, delivered>>
    BY <1>3, <1>4, <2>1, <2>2, <2>4, <2>5, DiscardedBy, SameBuffer
    DEF BufferSeen
  <2>8. QED
    BY <1>4, <2>1, <2>3, <2>6, <2>7 DEF Adds, Buffer!FindFull, Buffer!Moves
<1>7. CASE Pops(t)
  <2>1. call[t] \in {"dropping", "reading"}
    BY <1>2, <1>7 DEF Pops, Calling
  <2>2. op'[t] = "return" /\ ok'[t] /\ val'[t] = Head(q)
    BY <1>7 DEF Pops, Calling
  <2>3. ~Has(t) /\ Has(t)'
    BY <1>3, <1>7, <2>1, <2>2 DEF Has, Pops
  <2>4. kept # << >> /\ Head(kept) = Head(q)[1] /\ kept' = Tail(kept)
        /\ Head(kept) \in LogEntries
    <3>1. q # << >> /\ q' = Tail(q)
      BY <1>7 DEF Pops
    <3>2. QED
      BY <3>1, KeptIs, KeptFacts DEF Calling
  <2>5. InHand(t) = {} /\ InHand(t)' = {Head(kept)}
    BY <2>2, <2>3, <2>4, SameBuffer DEF BufferSeen
  <2>6. CASE call[t] = "dropping"
    <3>1. t \in Loggers
      BY <1>2, <2>6
    <3>2. doing[t] = "full" /\ doing'[t] = "adding"
      BY <1>3, <1>7, <2>2, <2>6, SameBuffer DEF BufferSeen, Pops
    <3>3. item' = item
      <4>1. item'[t] = item[t]
        BY <1>3, <3>1, SameBuffer DEF BufferSeen
      <4>2. QED
        BY <1>4, <4>1, SameBuffer DEF BufferSeen
    <3>4. discarded' = discarded \cup {Head(kept)}
      BY <1>3, <1>4, <2>5, <3>1, DiscardedBy
    <3>5. QED
      BY <1>3, <1>4, <2>4, <3>1, <3>2, <3>3, <3>4
      DEF Adds, Buffer!MakeRoom, Buffer!Moves
  <2>7. CASE call[t] = "reading"
    <3>1. t \in Readers /\ t \notin Loggers
      BY <1>2, <2>7
    <3>2. doing[t] = "reading" /\ doing'[t] = "read"
      BY <1>3, <1>7, <2>2, <2>7, SameBuffer DEF BufferSeen, Pops
    <3>3. item'[t] = Head(kept)
      BY <2>2, <2>3, <2>4, <3>1, SameBuffer DEF BufferSeen
    <3>4. discarded' = discarded
      BY <1>3, <1>4, <3>1, DiscardedBy
    <3>5. QED
      BY <1>3, <1>4, <2>4, <3>1, <3>2, <3>3, <3>4
      DEF Reads, Buffer!Read, Buffer!Moves
  <2>8. QED
    BY <2>1, <2>6, <2>7
<1>8. CASE FindsEmpty(t)
  <2>1. call[t] \in {"dropping", "reading"}
    BY <1>2, <1>8 DEF FindsEmpty, Calling
  <2>2. op'[t] = "return" /\ ~ok'[t] /\ val' = val /\ q' = q /\ q = << >>
    BY <1>8 DEF FindsEmpty, Calling
  <2>3. ~Has(t) /\ ~Has(t)'
    BY <1>3, <1>8, <2>1, <2>2 DEF Has, FindsEmpty
  <2>4. kept = << >> /\ kept' = kept
    BY <2>2, SameBuffer DEF BufferSeen
  <2>5. InHand(t) = {} /\ InHand(t)' = {}
    BY <2>3, SameBuffer DEF BufferSeen
  <2>6. item'[t] = item[t]
    BY <1>3, <2>3, SameBuffer DEF BufferSeen
  <2>7. UNCHANGED <<item, added, discarded, delivered>>
    BY <1>3, <1>4, <2>5, <2>6, DiscardedBy, SameBuffer DEF BufferSeen
  <2>8. CASE call[t] = "dropping"
    <3>1. t \in Loggers
      BY <1>2, <2>8
    <3>2. doing[t] = "full" /\ doing'[t] = "adding"
      BY <1>3, <1>8, <2>2, <2>8, SameBuffer DEF BufferSeen, FindsEmpty
    <3>3. QED
      BY <1>4, <2>4, <2>7, <3>1, <3>2 DEF Adds, Buffer!MakeRoom, Buffer!Moves
  <2>9. CASE call[t] = "reading"
    <3>1. t \in Readers
      BY <1>2, <2>9
    <3>2. doing[t] = "reading" /\ doing'[t] = "read"
      BY <1>3, <1>8, <2>2, <2>9, SameBuffer DEF BufferSeen, FindsEmpty
    <3>3. QED
      BY <1>4, <2>4, <2>7, <3>1, <3>2 DEF Reads, Buffer!Read, Buffer!Moves
  <2>10. QED
    BY <2>1, <2>8, <2>9
<1>9. CASE Returns(t)
  <2>1. op[t] = "return" /\ op'[t] = "idle" /\ ok'[t] = ok[t] /\ val'[t] = val[t]
        /\ q' = q
    BY <1>9 DEF Returns, Calling
  <2>2. (Has(t) <=> Has(t)') /\ call[t] # "none"
    BY <1>2, <1>3, <2>1 DEF Has
  <2>3. doing'[t] = doing[t]
    BY <1>2, <1>3, <2>1, <2>2, SameBuffer DEF BufferSeen
  <2>4. item'[t] = item[t]
    BY <1>3, <2>1, <2>2, SameBuffer DEF BufferSeen
  <2>5. InHand(t)' = InHand(t)
    BY <2>1, <2>2, SameBuffer DEF BufferSeen
  <2>6. UNCHANGED <<kept, doing, item>>
    BY <1>4, <2>1, <2>3, <2>4, SameBuffer DEF BufferSeen
  <2>7. discarded' = discarded
    BY <1>3, <1>4, <2>5, DiscardedBy
  <2>8. QED
    BY <1>3, <2>6, <2>7 DEF Buffer!vars
<1>10. CASE Idle
  BY <1>3, <1>10, Unseen
<1>11. QED
  BY <1>1, <1>5, <1>6, <1>7, <1>8, <1>9, <1>10 DEF Steps

LEMMA GroupSteps ==
  Known /\ FP!IInv /\ FP!IInv' /\ [Next]_vars => GroupStep
<1> SUFFICES ASSUME Known, FP!IInv, FP!IInv', [Next]_vars
             PROVE  GroupStep
  OBVIOUS
<1>1. ASSUME NEW t \in Loggers, AddLogCall(t)
      PROVE  GroupStep
  BY <1>1, AddLogCallSteps DEF GroupStep
<1>2. ASSUME NEW t \in Loggers, AddLogDrop(t) \/ AddLogRetry(t)
      PROVE  GroupStep
  <2>1. UNCHANGED Buffer!vars
    BY <1>2, AddLogDropSteps, AddLogRetrySteps
  <2>2. clock' = clock
    BY <1>2 DEF AddLogDrop, AddLogRetry
  <2>3. QED
    BY <2>1, <2>2 DEF GroupStep
<1>3. ASSUME NEW t \in Loggers, AddLogReturn(t)
      PROVE  GroupStep
  <2>1. Adds(t)
    BY <1>3, AddLogReturnSteps DEF Adds
  <2>2. QED
    BY <1>3, <2>1 DEF GroupStep, AddLogReturn
<1>4. ASSUME NEW t \in Readers, GetLogEntryCall(t) \/ GetLogEntryReturn(t)
      PROVE  GroupStep
  <2>1. Reads(t)
    BY <1>4, GetLogEntryCallSteps, GetLogEntryReturnSteps DEF Reads
  <2>2. clock' = clock
    BY <1>4 DEF GetLogEntryCall, GetLogEntryReturn
  <2>3. QED
    BY <2>1, <2>2 DEF GroupStep
<1>5. ASSUME NEW t \in Threads, FifoStep(t)
      PROVE  GroupStep
  <2>1. clock' = clock
    BY <1>5 DEF FifoStep
  <2>2. QED
    BY <1>5, <2>1, FifoStepSteps DEF GroupStep
<1>6. CASE Crash \/ UNCHANGED vars
  <2>1. UNCHANGED fifoVars /\ UNCHANGED <<call, tmp_entry, clock, history>>
    BY <1>6 DEF Crash, vars
  <2>2. UNCHANGED Buffer!vars /\ clock' = clock
    BY <2>1, FifoIdle, Unseen DEF history
  <2>3. QED
    BY <2>2 DEF GroupStep
<1>7. QED
  BY <1>1, <1>2, <1>3, <1>4, <1>5, <1>6
  DEF Next, LoggerStep, ReaderStep, Threads

LEMMA GroupBegins == Init => Buffer!Init
<1> SUFFICES ASSUME Init PROVE Buffer!Init
  OBVIOUS
<1>1. q = << >> /\ op = [t \in Threads |-> "idle"]
  <2>1. FP!Queue!Init
    BY FifoAssumption, SameFifo, FP!InitRefines DEF Init, Threads
  <2>2. QED
    BY <2>1 DEF FP!Queue!Init, q, op
<1>2. /\ call = [t \in Threads |-> "none"]
      /\ tmp_entry = [t \in Loggers |-> NoEntry]
      /\ added = {} /\ dropped = {} /\ delivered = << >>
  BY DEF Init
<1>3. \A t \in Threads : ~Has(t)
  BY <1>2 DEF Has
<1>4. \A t \in Threads : doing[t] = "idle" /\ item[t] = NoEntry /\ InHand(t) = {}
  BY <1>2, <1>3, SameBuffer DEF BufferSeen
<1>5. kept = << >>
  BY <1>1, KeptIs DEF LogsOf
<1>6. /\ doing = [t \in Threads |-> "idle"]
      /\ item = [t \in Threads |-> NoEntry]
  BY <1>4 DEF doing, item
<1>7. discarded = {}
  BY <1>2, <1>4 DEF discarded, Threads
<1>8. QED
  BY <1>2, <1>5, <1>6, <1>7 DEF Buffer!Init, Threads


(* AddLog and GetLogEntry implement a buffer of the latest logs, for any   *)
(* number of threads and any ring: every operation takes effect at one     *)
(* instant between call and return, and to make room AddLog discards the   *)
(* oldest log, one each time it found the group full.                      *)
THEOREM LogBufferImplemented == Spec => ImplementsLogBuffer
<1>1. GroupStep => [Buffer!Next]_(Buffer!vars)
  BY DEF GroupStep, BeginsAdd, Adds, Reads, Buffer!Next
<1>2. Known /\ FP!IInv /\ FP!IInv' /\ [Next]_vars => [Buffer!Next]_(Buffer!vars)
  BY <1>1, GroupSteps
<1>3. Spec => Buffer!Spec
  BY <1>2, GroupBegins, WorkingAlways, CallingAlways, FifoInvariant, PTL
  DEF Spec, Buffer!Spec, Known
<1>4. QED
  BY <1>3 DEF ImplementsLogBuffer

-----------------------------------------------------------------------------
(***************************************************************************)
(* Where every log is, as the log buffer shows it                          *)
(***************************************************************************)
InKept == {kept[i] : i \in DOMAIN kept}
Given == {r \in Readers : item[r] # NoEntry}
Gone == DeliveredSet \cup discarded \cup {item[r] : r \in Given}

Typed ==
  /\ kept \in Seq(LogEntries)
  /\ doing \in [Threads -> {"idle", "adding", "added", "full", "reading", "read"}]
  /\ item \in [Threads -> LogEntries \cup {NoEntry}]
  /\ added \subseteq LogEntries
  /\ discarded \subseteq LogEntries
  /\ delivered \in Seq(LogEntries)
  /\ \A t \in Loggers :
       doing[t] \in {"adding", "added", "full"} =>
         item[t] \in LogEntries /\ item[t].thread = t
  /\ \A r \in Readers : doing[r] # "read" => item[r] = NoEntry

(* A log is older than any its thread has yet to push.                     *)
Stamps ==
  /\ clock \in Nat
  /\ \A e \in InKept \cup Gone : e.linux_time <= clock
  /\ \A t \in Loggers :
       doing[t] \in {"adding", "full"} =>
         /\ item[t].linux_time <= clock
         /\ \A e \in InKept \cup Gone :
              e.thread = t => e.linux_time < item[t].linux_time

(* The logs of each thread are kept, and leave, oldest first.              *)
InOrder ==
  /\ \A i, j \in DOMAIN kept :
       i < j /\ kept[i].thread = kept[j].thread
         => kept[i].linux_time < kept[j].linux_time
  /\ \A d \in Gone, e \in InKept :
       d.thread = e.thread => d.linux_time < e.linux_time

(* A log that left went one way only.                                      *)
OneWay ==
  /\ DeliveredSet \cap discarded = {}
  /\ \A i, j \in DOMAIN delivered : delivered[i] = delivered[j] => i = j
  /\ \A r \in Given : item[r] \notin DeliveredSet \cup discarded
  /\ \A r, s \in Given : item[r] = item[s] => r = s

(* An addition that took effect did not get lost.                          *)
Accounted ==
  /\ added \subseteq InKept \cup Gone
  /\ \A t \in Loggers : doing[t] = "added" => item[t] \in InKept \cup Gone

(* Logs leave by making room only after the group was full, and each that  *)
(* leaves so makes room for a pending addition.                            *)
Adding == {t \in Loggers : doing[t] = "adding"}
Filled ==
  /\ IsFiniteSet(Adding) /\ IsFiniteSet(Given)
  /\ discarded # {} \/ (\E t \in Loggers : doing[t] = "full") =>
       Len(kept) + Len(delivered) + Cardinality(Given) + Cardinality(Adding)
         >= Capacity

(* With one reader, logs are given in the order they left.                 *)
ReadInOrder ==
  /\ ThreadOrderKept
  /\ \A d \in DeliveredSet, r \in Given :
       d.thread = item[r].thread => d.linux_time < item[r].linux_time

LEMMA InFifoIsKept == InFifo = InKept
BY DEF InFifo, InKept, kept

LEMMA ElementsOf ==
  ASSUME NEW S, NEW s \in Seq(S)
  PROVE  /\ \A e : {Append(s, e)[i] : i \in DOMAIN Append(s, e)}
                     = {s[i] : i \in DOMAIN s} \cup {e}
         /\ s # << >> =>
              /\ Head(s) = s[1] /\ 1 \in DOMAIN s /\ Head(s) \in S
              /\ {s[i] : i \in DOMAIN s}
                   = {Head(s)} \cup {Tail(s)[i] : i \in DOMAIN Tail(s)}
              /\ \A i \in DOMAIN Tail(s) :
                   i + 1 \in DOMAIN s /\ Tail(s)[i] = s[i + 1]
<1>1. ASSUME NEW e
      PROVE  {Append(s, e)[i] : i \in DOMAIN Append(s, e)}
               = {s[i] : i \in DOMAIN s} \cup {e}
  <2>1. /\ DOMAIN s = 1 .. Len(s) /\ Len(s) \in Nat
        /\ DOMAIN Append(s, e) = 1 .. Len(s) + 1
        /\ Append(s, e)[Len(s) + 1] = e
        /\ \A i \in 1 .. Len(s) : Append(s, e)[i] = s[i]
    OBVIOUS
  <2>2. 1 .. Len(s) + 1 = (1 .. Len(s)) \cup {Len(s) + 1}
    BY <2>1
  <2>3. QED
    BY <2>1, <2>2, Zenon
<1>2. ASSUME s # << >>
      PROVE  /\ Head(s) = s[1] /\ 1 \in DOMAIN s /\ Head(s) \in S
             /\ {s[i] : i \in DOMAIN s}
                  = {Head(s)} \cup {Tail(s)[i] : i \in DOMAIN Tail(s)}
             /\ \A i \in DOMAIN Tail(s) :
                  i + 1 \in DOMAIN s /\ Tail(s)[i] = s[i + 1]
  <2>1. Head(s) = s[1] /\ 1 \in DOMAIN s /\ Head(s) \in S
    BY <1>2
  <2>2. \A i \in DOMAIN Tail(s) : i + 1 \in DOMAIN s /\ Tail(s)[i] = s[i + 1]
    BY <1>2
  <2>3. \A i \in DOMAIN s \ {1} : i - 1 \in DOMAIN Tail(s) /\ Tail(s)[i - 1] = s[i]
    BY <1>2
  <2>4. {s[i] : i \in DOMAIN s}
          \subseteq {Head(s)} \cup {Tail(s)[i] : i \in DOMAIN Tail(s)}
    BY <2>1, <2>3, ZenonT(30)
  <2>5. {Tail(s)[i] : i \in DOMAIN Tail(s)} \subseteq {s[i] : i \in DOMAIN s}
    BY <2>2
  <2>6. QED
    BY <2>1, <2>2, <2>4, <2>5
<1>3. QED
  BY <1>1, <1>2

LEMMA TypedAlways == Spec => []Typed
<1>1. Init => Typed
  <2> SUFFICES ASSUME Init PROVE Typed
    OBVIOUS
  <2>1. Buffer!Init
    BY GroupBegins
  <2>2. QED
    BY <2>1 DEF Buffer!Init, Typed, Threads
<1>2. Typed /\ GroupStep /\ Working => Typed'
  <2> SUFFICES ASSUME Typed, GroupStep, Working
               PROVE  Typed'
    OBVIOUS
  <2> USE RolesAssumption DEF Typed, Buffer!Moves, Threads
  <2>1. ASSUME NEW t \in Loggers, BeginsAdd(t)
        PROVE  Typed'
    <3>1. Stamped(t) \in LogEntries /\ Stamped(t).thread = t
      BY <2>1, StampedIsEntry DEF BeginsAdd, Stamped
    <3>2. item' = [item EXCEPT ![t] = Stamped(t)]
      BY <2>1 DEF BeginsAdd, Buffer!BeginAdd
    <3>3. doing[t] = "idle" /\ doing' = [doing EXCEPT ![t] = "adding"]
          /\ UNCHANGED <<kept, added, discarded, delivered>>
      BY <2>1 DEF BeginsAdd, Buffer!BeginAdd
    <3>4. QED
      BY <3>1, <3>2, <3>3
  <2>2. ASSUME NEW t \in Loggers, Buffer!Add(t)
        PROVE  Typed'
    <3>1. Append(kept, item[t]) \in Seq(LogEntries)
      BY <2>2, AppendProperties DEF Buffer!Add
    <3>2. QED
      BY <2>2, <3>1 DEF Buffer!Add
  <2>3. ASSUME NEW t \in Loggers, Buffer!FindFull(t) \/ Buffer!EndAdd(t)
        PROVE  Typed'
    BY <2>3 DEF Buffer!FindFull, Buffer!EndAdd
  <2>4. ASSUME NEW t \in Loggers, Buffer!MakeRoom(t)
        PROVE  Typed'
    <3>1. kept # << >> => Head(kept) \in LogEntries /\ Tail(kept) \in Seq(LogEntries)
      BY HeadTailProperties
    <3>2. QED
      BY <2>4, <3>1, ZenonT(30) DEF Buffer!MakeRoom
  <2>5. ASSUME NEW t \in Readers, Buffer!BeginRead(t)
        PROVE  Typed'
    BY <2>5 DEF Buffer!BeginRead
  <2>6. ASSUME NEW t \in Readers, Buffer!Read(t)
        PROVE  Typed'
    <3>1. kept # << >> => Head(kept) \in LogEntries /\ Tail(kept) \in Seq(LogEntries)
      BY HeadTailProperties
    <3>2. QED
      BY <2>6, <3>1 DEF Buffer!Read
  <2>7. ASSUME NEW t \in Readers, Buffer!EndRead(t)
        PROVE  Typed'
    <3>1. item[t] # NoEntry => Append(delivered, item[t]) \in Seq(LogEntries)
      BY AppendProperties
    <3>2. delivered' \in Seq(LogEntries)
      BY <2>7, <3>1 DEF Buffer!EndRead
    <3>3. QED
      BY <2>7, <3>2 DEF Buffer!EndRead
  <2>8. CASE UNCHANGED Buffer!vars
    BY <2>8 DEF Buffer!vars
  <2>9. QED
    BY <2>1, <2>2, <2>3, <2>4, <2>5, <2>6, <2>7, <2>8
    DEF GroupStep, Adds, Reads
<1>3. QED
  BY <1>1, <1>2, GroupSteps, WorkingAlways, CallingAlways, FifoInvariant, PTL
  DEF Spec, Known

-----------------------------------------------------------------------------
(***************************************************************************)
(* What each step does to the places a log can be in                       *)
(***************************************************************************)
Nowhere == UNCHANGED <<InKept, Gone, Given, DeliveredSet>>

Begins(t) ==
  /\ BeginsAdd(t) /\ item' = [item EXCEPT ![t] = Stamped(t)]
  /\ \A u \in Readers : item'[u] = item[u]
  /\ Nowhere
Puts(t) ==
  /\ Buffer!Add(t) /\ clock' = clock
  /\ item[t] \in LogEntries /\ item[t].thread = t
  /\ InKept' = InKept \cup {item[t]}
  /\ UNCHANGED <<Gone, Given, DeliveredSet>>
Oldest(e) ==
  /\ e = kept[1] /\ 1 \in DOMAIN kept /\ e \in InKept /\ e \in LogEntries
  /\ InKept = InKept' \cup {e} /\ Gone' = Gone \cup {e}
  /\ \A i \in DOMAIN kept' : i + 1 \in DOMAIN kept /\ kept'[i] = kept[i + 1]
Discards(t) ==
  /\ Buffer!MakeRoom(t) /\ clock' = clock
  /\ kept # << >> /\ kept' = Tail(kept)
  /\ Oldest(Head(kept))
  /\ discarded' = discarded \cup {Head(kept)}
  /\ UNCHANGED <<Given, DeliveredSet>>
Takes(t) ==
  /\ Buffer!Read(t) /\ clock' = clock
  /\ kept # << >> /\ kept' = Tail(kept)
  /\ Oldest(Head(kept))
  /\ item' = [item EXCEPT ![t] = Head(kept)]
  /\ t \notin Given /\ Given' = Given \cup {t}
  /\ DeliveredSet' = DeliveredSet
Gives(t) ==
  /\ Buffer!EndRead(t) /\ clock' = clock
  /\ t \in Given /\ item[t] \in LogEntries /\ Given' = Given \ {t}
  /\ delivered' = Append(delivered, item[t])
  /\ DeliveredSet' = DeliveredSet \cup {item[t]}
  /\ UNCHANGED <<InKept, Gone>>
Ends(t) ==
  /\ Buffer!EndAdd(t) /\ clock' = clock
  /\ Nowhere
Waits ==
  /\ UNCHANGED <<kept, item, added, discarded, delivered, clock>>
  /\ \A t \in Loggers :
       /\ doing'[t] \in {"adding", "full"} <=> doing[t] \in {"adding", "full"}
       /\ doing'[t] = "added" <=> doing[t] = "added"
  /\ \/ \E t \in Loggers : Buffer!FindFull(t)
     \/ \E t \in Loggers : Buffer!Moves(t, "full", "adding")
     \/ \A t \in Loggers : doing'[t] = doing[t]
  /\ Nowhere

LEMMA Stays ==
  ASSUME UNCHANGED <<kept, delivered, discarded>>,
         \A r \in Readers : item'[r] = item[r]
  PROVE  Nowhere
<1>1. InKept' = InKept /\ DeliveredSet' = DeliveredSet
  BY DEF InKept, DeliveredSet
<1>2. Given' = Given
  BY DEF Given
<1>3. {item'[r] : r \in Given'} = {item[r] : r \in Given}
  BY <1>2 DEF Given
<1>4. QED
  BY <1>1, <1>2, <1>3 DEF Nowhere, Gone

LEMMA OldestLeaves ==
  ASSUME Typed, kept # << >>, kept' = Tail(kept), Gone' = Gone \cup {Head(kept)}
  PROVE  Oldest(Head(kept))
<1>1. kept \in Seq(LogEntries)
  BY DEF Typed
<1>2. /\ Head(kept) = kept[1] /\ 1 \in DOMAIN kept /\ Head(kept) \in LogEntries
      /\ {kept[i] : i \in DOMAIN kept}
           = {Head(kept)} \cup {Tail(kept)[i] : i \in DOMAIN Tail(kept)}
      /\ \A i \in DOMAIN Tail(kept) :
           i + 1 \in DOMAIN kept /\ Tail(kept)[i] = kept[i + 1]
  BY <1>1, ElementsOf
<1>3. InKept' = {Tail(kept)[i] : i \in DOMAIN Tail(kept)}
  BY DEF InKept
<1>4. InKept = InKept' \cup {Head(kept)} /\ Head(kept) \in InKept
  BY <1>2, <1>3 DEF InKept
<1>5. QED
  BY <1>2, <1>4 DEF Oldest

LEMMA Kinds ==
  ASSUME Typed, GroupStep
  PROVE  \/ \E t \in Loggers : Begins(t) \/ Puts(t) \/ Discards(t) \/ Ends(t)
         \/ \E t \in Readers : Takes(t) \/ Gives(t)
         \/ Waits
<1> USE RolesAssumption DEF Buffer!Moves
<1>k. kept \in Seq(LogEntries)
  BY DEF Typed
<1>d. delivered \in Seq(LogEntries)
  BY DEF Typed
<1>1. ASSUME NEW t \in Loggers, BeginsAdd(t)
      PROVE  Begins(t)
  <2>1. item' = [item EXCEPT ![t] = Stamped(t)] /\ UNCHANGED <<kept, delivered, discarded>>
    BY <1>1 DEF BeginsAdd, Buffer!BeginAdd, Typed, Threads
  <2>2. \A r \in Readers : item'[r] = item[r]
    BY <2>1 DEF Typed, Threads
  <2>3. QED
    BY <1>1, <2>1, <2>2, Stays DEF Begins
<1>2. ASSUME NEW t \in Loggers, Buffer!Add(t), clock' = clock
      PROVE  Puts(t)
  <2>1. kept' = Append(kept, item[t]) /\ UNCHANGED <<item, discarded, delivered>>
    BY <1>2 DEF Buffer!Add
  <2>2. item[t] \in LogEntries /\ item[t].thread = t
    BY <1>2 DEF Buffer!Add, Typed
  <2>3. InKept' = InKept \cup {item[t]}
    BY <1>k, <2>1, <2>2, ElementsOf DEF InKept
  <2>4. Given' = Given /\ DeliveredSet' = DeliveredSet
    BY <2>1 DEF Given, DeliveredSet
  <2>5. Gone' = Gone
    BY <2>1, <2>4 DEF Gone
  <2>6. QED
    BY <1>2, <2>2, <2>3, <2>4, <2>5 DEF Puts
<1>3. ASSUME NEW t \in Loggers, Buffer!MakeRoom(t), clock' = clock, kept # << >>
      PROVE  Discards(t)
  <2>1. /\ kept' = Tail(kept) /\ discarded' = discarded \cup {Head(kept)}
        /\ UNCHANGED <<item, delivered>>
    BY <1>3 DEF Buffer!MakeRoom
  <2>2. Given' = Given /\ DeliveredSet' = DeliveredSet
    BY <2>1 DEF Given, DeliveredSet
  <2>3. Gone' = Gone \cup {Head(kept)}
    BY <2>1, <2>2 DEF Gone
  <2>4. QED
    BY <1>3, <2>1, <2>2, <2>3, OldestLeaves DEF Discards
<1>4. ASSUME NEW t \in Readers, Buffer!Read(t), clock' = clock, kept # << >>
      PROVE  Takes(t)
  <2>1. /\ kept' = Tail(kept) /\ item' = [item EXCEPT ![t] = Head(kept)]
        /\ UNCHANGED <<discarded, delivered>>
    BY <1>4 DEF Buffer!Read
  <2>2. t \notin Given
    BY <1>4 DEF Buffer!Read, Typed, Given
  <2>3. Head(kept) \in LogEntries
    BY <1>4, <1>k, ElementsOf
  <2>4. item'[t] = Head(kept) /\ \A r \in Readers \ {t} : item'[r] = item[r]
    BY <2>1 DEF Typed, Threads
  <2>5. Given' = Given \cup {t}
    BY <2>3, <2>4, EntriesAssumption DEF Given
  <2>6. {item'[r] : r \in Given'} = {item[r] : r \in Given} \cup {Head(kept)}
    BY <2>2, <2>4, <2>5 DEF Given
  <2>7. DeliveredSet' = DeliveredSet
    BY <2>1 DEF DeliveredSet
  <2>8. Gone' = Gone \cup {Head(kept)}
    BY <2>1, <2>6, <2>7 DEF Gone
  <2>9. QED
    BY <1>4, <2>1, <2>2, <2>5, <2>7, <2>8, OldestLeaves DEF Takes
<1>5. ASSUME NEW t \in Readers, Buffer!EndRead(t), clock' = clock, item[t] # NoEntry
      PROVE  Gives(t)
  <2>1. /\ delivered' = Append(delivered, item[t])
        /\ item' = [item EXCEPT ![t] = NoEntry]
        /\ UNCHANGED <<kept, discarded>>
    BY <1>5 DEF Buffer!EndRead
  <2>2. t \in Given /\ item[t] \in LogEntries
    BY <1>5 DEF Given, Typed, Threads
  <2>3. item'[t] = NoEntry /\ \A r \in Readers \ {t} : item'[r] = item[r]
    BY <2>1 DEF Typed, Threads
  <2>4. Given' = Given \ {t}
    BY <2>3 DEF Given
  <2>5. {item[r] : r \in Given} = {item'[r] : r \in Given'} \cup {item[t]}
    BY <2>2, <2>3, <2>4 DEF Given
  <2>6. DeliveredSet' = DeliveredSet \cup {item[t]}
    BY <1>d, <2>1, <2>2, ElementsOf DEF DeliveredSet
  <2>7. InKept' = InKept
    BY <2>1 DEF InKept
  <2>8. Gone' = Gone
    BY <2>1, <2>5, <2>6 DEF Gone
  <2>9. QED
    BY <1>5, <2>1, <2>2, <2>4, <2>6, <2>7, <2>8 DEF Gives
<1>6. ASSUME NEW t \in Loggers, Buffer!EndAdd(t), clock' = clock
      PROVE  Ends(t)
  BY <1>6, Stays DEF Ends, Buffer!EndAdd
<1>7. ASSUME NEW t \in Loggers, clock' = clock,
             \/ Buffer!FindFull(t)
             \/ Buffer!MakeRoom(t) /\ kept = << >>
      PROVE  Waits
  <2>1. UNCHANGED <<kept, item, added, discarded, delivered, clock>>
    BY <1>7 DEF Buffer!FindFull, Buffer!MakeRoom
  <2>2. ASSUME NEW u \in Loggers
        PROVE  /\ doing'[u] \in {"adding", "full"} <=> doing[u] \in {"adding", "full"}
               /\ doing'[u] = "added" <=> doing[u] = "added"
    BY <1>7 DEF Buffer!FindFull, Buffer!MakeRoom, Typed, Threads
  <2>3. QED
    BY <1>7, <2>1, <2>2, Stays DEF Waits, Buffer!MakeRoom
<1>8. ASSUME NEW t \in Readers, clock' = clock,
             \/ Buffer!BeginRead(t)
             \/ Buffer!Read(t) /\ kept = << >>
             \/ Buffer!EndRead(t) /\ item[t] = NoEntry
      PROVE  Waits
  <2>1. item' = item
    <3>1. item[t] = NoEntry => [item EXCEPT ![t] = NoEntry] = item
      BY DEF Typed, Threads
    <3>2. QED
      BY <1>8, <3>1 DEF Buffer!BeginRead, Buffer!Read, Buffer!EndRead
  <2>2. UNCHANGED <<kept, added, discarded, delivered, clock>>
    BY <1>8 DEF Buffer!BeginRead, Buffer!Read, Buffer!EndRead
  <2>3. \A u \in Loggers : doing'[u] = doing[u]
    BY <1>8 DEF Buffer!BeginRead, Buffer!Read, Buffer!EndRead, Typed, Threads
  <2>4. QED
    BY <2>1, <2>2, <2>3, Stays DEF Waits
<1>9. ASSUME UNCHANGED Buffer!vars, clock' = clock
      PROVE  Waits
  BY <1>9, Stays DEF Buffer!vars, Waits
<1>10. QED
  BY <1>1, <1>2, <1>3, <1>4, <1>5, <1>6, <1>7, <1>8, <1>9
  DEF GroupStep, Adds, Reads

LEMMA NothingYet ==
  ASSUME Init
  PROVE  /\ kept = << >> /\ delivered = << >> /\ discarded = {} /\ added = {}
         /\ InKept = {} /\ Gone = {} /\ Given = {} /\ DeliveredSet = {} /\ clock = 0
         /\ \A t \in Threads : doing[t] = "idle" /\ item[t] = NoEntry
<1>1. Buffer!Init /\ clock = 0
  BY GroupBegins DEF Init
<1>2. \A t \in Threads : doing[t] = "idle" /\ item[t] = NoEntry
  BY <1>1 DEF Buffer!Init, Threads
<1>3. Given = {}
  BY <1>2 DEF Given, Threads
<1>4. kept = << >> /\ delivered = << >> /\ discarded = {} /\ added = {}
  BY <1>1 DEF Buffer!Init
<1>5. InKept = {} /\ DeliveredSet = {}
  BY <1>4 DEF InKept, DeliveredSet
<1>6. Gone = {}
  BY <1>3, <1>4, <1>5 DEF Gone
<1>7. QED
  BY <1>1, <1>2, <1>3, <1>4, <1>5, <1>6

LEMMA AllLogs ==
  Typed => InKept \subseteq LogEntries /\ Gone \subseteq LogEntries
<1> SUFFICES ASSUME Typed PROVE InKept \subseteq LogEntries /\ Gone \subseteq LogEntries
  OBVIOUS
<1>1. InKept \subseteq LogEntries /\ DeliveredSet \subseteq LogEntries
  BY DEF Typed, InKept, DeliveredSet
<1>2. {item[r] : r \in Given} \subseteq LogEntries
  BY DEF Typed, Given, Threads
<1>3. QED
  BY <1>1, <1>2 DEF Gone, Typed

LEMMA TimesAreNumbers ==
  \A e \in LogEntries : e.linux_time \in Nat
BY BoundsAssumption DEF LogEntries

LEMMA StampsKept ==
  ASSUME Typed, GroupStep, Stamps
  PROVE  Stamps'
<1> USE DEF Stamps
<1>0. InKept \subseteq LogEntries /\ Gone \subseteq LogEntries
  BY AllLogs
<1>1. ASSUME NEW t \in Loggers, Begins(t)
      PROVE  Stamps'
  <2>1. /\ clock' = clock + 1 /\ item' = [item EXCEPT ![t] = Stamped(t)]
        /\ doing' = [doing EXCEPT ![t] = "adding"]
        /\ InKept' = InKept /\ Gone' = Gone
    BY <1>1 DEF Begins, BeginsAdd, Buffer!BeginAdd, Buffer!Moves, Nowhere
  <2>2. item'[t] = Stamped(t) /\ Stamped(t).linux_time = clock + 1
    BY <2>1 DEF Typed, Threads, Stamped
  <2>3. \A u \in Loggers \ {t} : item'[u] = item[u] /\ doing'[u] = doing[u]
    BY <2>1 DEF Typed, Threads
  <2>4. \A u \in Loggers \ {t} :
          doing[u] \in {"adding", "full"} => item[u].linux_time \in Nat
    BY TimesAreNumbers DEF Typed
  <2>5. \A e \in InKept \cup Gone : e.linux_time \in Nat
    BY <1>0, TimesAreNumbers
  <2>6. QED
    BY <2>1, <2>2, <2>3, <2>4, <2>5
<1>2. ASSUME NEW t \in Loggers, Puts(t)
      PROVE  Stamps'
  <2>1. /\ clock' = clock /\ item' = item /\ doing[t] = "adding"
        /\ doing' = [doing EXCEPT ![t] = "added"]
        /\ InKept' = InKept \cup {item[t]} /\ Gone' = Gone /\ item[t].thread = t
    BY <1>2 DEF Puts, Buffer!Add, Buffer!Moves
  <2>2. \A u \in Loggers :
          doing'[u] \in {"adding", "full"} => doing[u] \in {"adding", "full"} /\ u # t
    BY <2>1 DEF Typed, Threads
  <2>3. QED
    BY <2>1, <2>2
<1>3. ASSUME NEW t \in Loggers, Discards(t)
      PROVE  Stamps'
  <2>1. /\ clock' = clock /\ item' = item /\ doing[t] = "full"
        /\ doing' = [doing EXCEPT ![t] = "adding"]
        /\ InKept' \cup Gone' = InKept \cup Gone
    BY <1>3 DEF Discards, Oldest, Buffer!MakeRoom, Buffer!Moves
  <2>2. \A u \in Loggers :
          doing'[u] \in {"adding", "full"} => doing[u] \in {"adding", "full"}
    BY <2>1 DEF Typed, Threads
  <2>3. QED
    BY <2>1, <2>2
<1>4. ASSUME NEW t \in Loggers, Ends(t)
      PROVE  Stamps'
  <2>1. /\ clock' = clock /\ item' = item
        /\ doing' = [doing EXCEPT ![t] = "idle"]
        /\ InKept' = InKept /\ Gone' = Gone
    BY <1>4 DEF Ends, Nowhere, Buffer!EndAdd, Buffer!Moves
  <2>2. \A u \in Loggers :
          doing'[u] \in {"adding", "full"} => doing[u] \in {"adding", "full"}
    BY <2>1 DEF Typed, Threads
  <2>3. QED
    BY <2>1, <2>2
<1>5. ASSUME NEW t \in Readers, Takes(t) \/ Gives(t)
      PROVE  Stamps'
  <2>1. /\ clock' = clock /\ InKept' \cup Gone' = InKept \cup Gone
        /\ \E d : doing' = [doing EXCEPT ![t] = d]
        /\ \E i : item' = [item EXCEPT ![t] = i]
    BY <1>5 DEF Takes, Gives, Oldest, Buffer!Read, Buffer!EndRead, Buffer!Moves
  <2>2. \A u \in Loggers : doing'[u] = doing[u] /\ item'[u] = item[u]
    BY <2>1, RolesAssumption DEF Typed, Threads
  <2>3. QED
    BY <2>1, <2>2
<1>6. CASE Waits
  BY <1>6 DEF Waits, Nowhere
<1>7. QED
  BY <1>1, <1>2, <1>3, <1>4, <1>5, <1>6, Kinds

LEMMA InOrderKept ==
  ASSUME Typed, Stamps, GroupStep, InOrder
  PROVE  InOrder'
<1> USE DEF InOrder
<1>1. ASSUME UNCHANGED <<kept, InKept, Gone>>
      PROVE  InOrder'
  BY <1>1
<1>2. ASSUME NEW t \in Loggers, Puts(t)
      PROVE  InOrder'
  <2>1. /\ doing[t] = "adding" /\ kept' = Append(kept, item[t])
        /\ InKept' = InKept \cup {item[t]} /\ Gone' = Gone /\ item[t].thread = t
    BY <1>2 DEF Puts, Buffer!Add, Buffer!Moves
  <2>2. /\ DOMAIN kept = 1 .. Len(kept) /\ DOMAIN kept' = 1 .. Len(kept) + 1
        /\ Len(kept) \in Nat /\ kept'[Len(kept) + 1] = item[t]
        /\ \A i \in DOMAIN kept : kept'[i] = kept[i] /\ kept[i] \in InKept
    BY <2>1 DEF Typed, InKept
  <2>3. \A e \in InKept \cup Gone :
          e.thread = item[t].thread => e.linux_time < item[t].linux_time
    BY <2>1 DEF Stamps
  <2>4. ASSUME NEW i \in DOMAIN kept', NEW j \in DOMAIN kept',
               i < j, kept'[i].thread = kept'[j].thread
        PROVE  kept'[i].linux_time < kept'[j].linux_time
    <3>1. CASE j = Len(kept) + 1
      BY <2>2, <2>3, <2>4, <3>1
    <3>2. CASE j # Len(kept) + 1
      BY <2>2, <2>4, <3>2
    <3>3. QED
      BY <3>1, <3>2
  <2>5. QED
    BY <2>1, <2>3, <2>4
<1>3. ASSUME kept # << >>, kept' = Tail(kept), Oldest(Head(kept))
      PROVE  InOrder'
  <2>1. /\ DOMAIN kept = 1 .. Len(kept) /\ Len(kept) \in Nat
        /\ DOMAIN kept' = 1 .. Len(kept) - 1
        /\ \A i \in DOMAIN kept' : i + 1 \in DOMAIN kept /\ kept'[i] = kept[i + 1]
    BY <1>3 DEF Typed, Oldest
  <2>2. ASSUME NEW i \in DOMAIN kept', NEW j \in DOMAIN kept',
               i < j, kept'[i].thread = kept'[j].thread
        PROVE  kept'[i].linux_time < kept'[j].linux_time
    BY <2>1, <2>2
  <2>3. ASSUME NEW e \in InKept', kept[1].thread = e.thread
        PROVE  kept[1].linux_time < e.linux_time
    <3>1. PICK i \in DOMAIN kept' : e = kept'[i]
      BY DEF InKept
    <3>2. e = kept[i + 1] /\ i + 1 \in DOMAIN kept /\ 1 < i + 1 /\ 1 \in DOMAIN kept
      BY <2>1, <3>1
    <3>3. QED
      BY <2>3, <3>2
  <2>4. QED
    BY <1>3, <2>2, <2>3 DEF Oldest
<1>4. QED
  BY <1>1, <1>2, <1>3, Kinds
  DEF Begins, BeginsAdd, Buffer!BeginAdd, Discards, Ends, Buffer!EndAdd, Takes, Gives,
      Buffer!EndRead, Waits, Nowhere

LEMMA LeftAndKept ==
  ASSUME Typed, InOrder
  PROVE  InKept \cap Gone = {}
<1>1. \A e \in InKept \cap Gone : e.linux_time \in Nat /\ e.linux_time < e.linux_time
  BY AllLogs, TimesAreNumbers DEF InOrder
<1>2. QED
  BY <1>1

LEMMA OneWayKept ==
  ASSUME Typed, InOrder, GroupStep, OneWay
  PROVE  OneWay'
<1> USE DEF OneWay
<1>1. ASSUME UNCHANGED <<DeliveredSet, discarded, delivered, Given>>,
             \A r \in Given : item'[r] = item[r]
      PROVE  OneWay'
  BY <1>1
<1>2. ASSUME NEW t \in Loggers, Begins(t)
      PROVE  OneWay'
  BY <1>1, <1>2 DEF Begins, BeginsAdd, Buffer!BeginAdd, Nowhere, Given
<1>3. ASSUME NEW t \in Loggers, Discards(t)
      PROVE  OneWay'
  <2>1. /\ UNCHANGED <<DeliveredSet, delivered, Given, item>>
        /\ discarded' = discarded \cup {Head(kept)}
        /\ Head(kept) \in InKept
    BY <1>3 DEF Discards, Oldest, Buffer!MakeRoom
  <2>2. Head(kept) \notin Gone
    BY <2>1, LeftAndKept
  <2>3. Head(kept) \notin DeliveredSet /\ \A r \in Given : item[r] # Head(kept)
    BY <2>2 DEF Gone
  <2>4. QED
    BY <2>1, <2>3
<1>4. ASSUME NEW t \in Readers, Takes(t)
      PROVE  OneWay'
  <2>1. /\ UNCHANGED <<DeliveredSet, delivered, discarded>>
        /\ item' = [item EXCEPT ![t] = Head(kept)]
        /\ Given' = Given \cup {t} /\ t \notin Given
        /\ Head(kept) \in InKept
    BY <1>4 DEF Takes, Oldest, Buffer!Read
  <2>2. Head(kept) \notin Gone
    BY <2>1, LeftAndKept
  <2>3. /\ Head(kept) \notin DeliveredSet \cup discarded
        /\ \A r \in Given : item[r] # Head(kept)
    BY <2>2 DEF Gone
  <2>4. item'[t] = Head(kept) /\ \A r \in Given : item'[r] = item[r]
    BY <2>1 DEF Typed, Threads, Given
  <2>5. QED
    BY <2>1, <2>3, <2>4
<1>5. ASSUME NEW t \in Readers, Gives(t)
      PROVE  OneWay'
  <2>1. /\ delivered' = Append(delivered, item[t])
        /\ DeliveredSet' = DeliveredSet \cup {item[t]} /\ discarded' = discarded
        /\ t \in Given /\ Given' = Given \ {t}
        /\ \E i : item' = [item EXCEPT ![t] = i]
    BY <1>5 DEF Gives, Buffer!EndRead
  <2>2. \A r \in Given' : r \in Given /\ r # t /\ item'[r] = item[r]
    BY <2>1 DEF Typed, Threads, Given
  <2>3. item[t] \notin DeliveredSet \cup discarded
    BY <2>1
  <2>4. /\ DOMAIN delivered = 1 .. Len(delivered) /\ Len(delivered) \in Nat
        /\ DOMAIN delivered' = 1 .. Len(delivered) + 1
        /\ delivered'[Len(delivered) + 1] = item[t]
        /\ \A i \in DOMAIN delivered :
             delivered'[i] = delivered[i] /\ delivered[i] \in DeliveredSet
    BY <2>1 DEF Typed, DeliveredSet
  <2>5. \A i, j \in DOMAIN delivered' : delivered'[i] = delivered'[j] => i = j
    BY <2>3, <2>4
  <2>6. \A r \in Given' : item'[r] \notin DeliveredSet' \cup discarded'
    BY <2>1, <2>2
  <2>7. DeliveredSet' \cap discarded' = {}
    BY <2>1, <2>3
  <2>8. \A r, s \in Given' : item'[r] = item'[s] => r = s
    BY <2>2
  <2>9. QED
    BY <2>5, <2>6, <2>7, <2>8
<1>6. QED
  BY <1>1, <1>2, <1>3, <1>4, <1>5, Kinds
  DEF Puts, Buffer!Add, Ends, Buffer!EndAdd, Waits, Nowhere

LEMMA AccountedKept ==
  ASSUME Typed, GroupStep, Accounted
  PROVE  Accounted'
<1> USE DEF Accounted
<1>1. ASSUME NEW t \in Loggers, Begins(t) \/ Discards(t)
      PROVE  Accounted'
  <2>1. /\ added' = added /\ InKept' \cup Gone' = InKept \cup Gone
        /\ doing' = [doing EXCEPT ![t] = "adding"]
        /\ \E i : item' = [item EXCEPT ![t] = i]
    <3>1. CASE Begins(t)
      BY <3>1 DEF Begins, BeginsAdd, Buffer!BeginAdd, Buffer!Moves, Nowhere
    <3>2. CASE Discards(t)
      <4>1. /\ added' = added /\ InKept' \cup Gone' = InKept \cup Gone
            /\ doing' = [doing EXCEPT ![t] = "adding"] /\ item' = item
        BY <3>2 DEF Discards, Buffer!MakeRoom, Buffer!Moves, Oldest
      <4>2. item = [item EXCEPT ![t] = item[t]]
        BY DEF Typed, Threads
      <4>3. QED
        BY <4>1, <4>2
    <3>3. QED
      BY <1>1, <3>1, <3>2
  <2>2. \A u \in Loggers : doing'[u] = "added" =>
          doing[u] = "added" /\ item'[u] = item[u]
    BY <2>1 DEF Typed, Threads
  <2>3. QED
    BY <2>1, <2>2
<1>2. ASSUME NEW t \in Loggers, Puts(t)
      PROVE  Accounted'
  <2>1. /\ UNCHANGED <<added, item, Gone>> /\ InKept' = InKept \cup {item[t]}
        /\ doing' = [doing EXCEPT ![t] = "added"]
    BY <1>2 DEF Puts, Buffer!Add, Buffer!Moves
  <2>2. \A u \in Loggers : doing'[u] = "added" => doing[u] = "added" \/ u = t
    BY <2>1 DEF Typed, Threads
  <2>3. QED
    BY <2>1, <2>2
<1>3. ASSUME NEW t \in Loggers, Ends(t)
      PROVE  Accounted'
  <2>1. /\ UNCHANGED <<item, Gone, InKept>> /\ added' = added \cup {item[t]}
        /\ doing[t] = "added" /\ doing' = [doing EXCEPT ![t] = "idle"]
    BY <1>3 DEF Ends, Buffer!EndAdd, Buffer!Moves, Nowhere
  <2>2. \A u \in Loggers : doing'[u] = "added" => doing[u] = "added"
    BY <2>1 DEF Typed, Threads
  <2>3. QED
    BY <2>1, <2>2
<1>4. ASSUME NEW t \in Readers, Takes(t) \/ Gives(t)
      PROVE  Accounted'
  <2>1. /\ added' = added /\ InKept' \cup Gone' = InKept \cup Gone
        /\ \E d : doing' = [doing EXCEPT ![t] = d]
        /\ \E i : item' = [item EXCEPT ![t] = i]
    BY <1>4 DEF Takes, Gives, Oldest, Buffer!Read, Buffer!EndRead, Buffer!Moves
  <2>2. \A u \in Loggers : doing'[u] = doing[u] /\ item'[u] = item[u]
    BY <2>1, RolesAssumption DEF Typed, Threads
  <2>3. QED
    BY <2>1, <2>2
<1>5. CASE Waits
  BY <1>5 DEF Waits, Nowhere
<1>6. QED
  BY <1>1, <1>2, <1>3, <1>4, <1>5, Kinds

Kept == Typed /\ Stamps /\ InOrder /\ OneWay /\ Accounted

LEMMA KeptAlways == Spec => []Kept
<1>1. Init => Stamps /\ InOrder /\ OneWay /\ Accounted
  BY NothingYet DEF Stamps, InOrder, OneWay, Accounted, Threads
<1>2. ASSUME GroupStep, Typed, Stamps, InOrder, OneWay, Accounted
      PROVE  Stamps' /\ InOrder' /\ OneWay' /\ Accounted'
  BY <1>2, StampsKept, InOrderKept, OneWayKept, AccountedKept
<1>3. QED
  BY <1>1, <1>2, TypedAlways, GroupSteps, WorkingAlways, CallingAlways,
     FifoInvariant, PTL
  DEF Spec, Known, Kept

-----------------------------------------------------------------------------
LEMMA GivenInHand ==
  ASSUME NEW r \in Given
  PROVE  item[r] \in InHand(r)
<1>1. r \in Threads /\ r \notin Loggers /\ item[r] # NoEntry
  BY RolesAssumption DEF Given, Threads
<1>2. Has(r) /\ item[r] = val[r][1]
  BY <1>1, SameBuffer DEF BufferSeen
<1>3. QED
  BY <1>1, <1>2, SameBuffer DEF BufferSeen

LEMMA DeliveredCounted ==
  ASSUME Kept
  PROVE  Cardinality(DeliveredSet) = Len(delivered)
<1>1. Len(delivered) \in Nat /\ DOMAIN delivered = 1 .. Len(delivered)
  BY DEF Kept, Typed
<1>2. delivered \in Bijection(1 .. Len(delivered), DeliveredSet)
  <2>1. delivered \in [1 .. Len(delivered) -> DeliveredSet]
    BY <1>1 DEF DeliveredSet, Kept, Typed
  <2>2. \A i, j \in 1 .. Len(delivered) : delivered[i] = delivered[j] => i = j
    BY <1>1 DEF Kept, OneWay
  <2>3. \A d \in DeliveredSet : \E i \in 1 .. Len(delivered) : delivered[i] = d
    BY <1>1 DEF DeliveredSet
  <2>4. QED
    BY <2>1, <2>2, <2>3 DEF Bijection, Injection, Surjection, IsInjective
<1>3. QED
  BY <1>1, <1>2, FS_CountingElements DEF ExistsBijection

(* Every log is accounted for, for any number of loggers and readers, any  *)
(* ring and however drops, pushes, reads and a crash interleave: one whose *)
(* AddLog returned is in the FIFO, delivered, discarded or in the hands of *)
(* the one thread that popped it, and never in two of these places.        *)
THEOREM LogsAccountedAlways == Spec => []LogsAccounted
<1>1. Kept /\ Working /\ FP!TypeOK => TypeOK
  <2> SUFFICES ASSUME Kept, Working, FP!TypeOK PROVE TypeOK
    OBVIOUS
  <2>1. dropped \subseteq LogEntries /\ added \subseteq LogEntries
        /\ delivered \in Seq(LogEntries)
    BY DEF Kept, Typed, discarded
  <2>2. Fifo!TypeOK
    BY SameFifo
  <2>3. QED
    BY <2>1, <2>2 DEF TypeOK, Working
<1>2. Kept => NothingVanishes
  <2> SUFFICES ASSUME Kept PROVE NothingVanishes
    OBVIOUS
  <2>1. added \subseteq InKept \cup Gone
    BY DEF Kept, Accounted
  <2>2. {item[r] : r \in Given} \subseteq UNION {InHand(t) : t \in Threads}
    BY GivenInHand DEF Given, Threads
  <2>3. discarded \subseteq dropped \cup UNION {InHand(t) : t \in Threads}
    BY DEF discarded, Threads
  <2>4. QED
    BY <2>1, <2>2, <2>3, InFifoIsKept DEF NothingVanishes, Gone
<1>3. Kept => DeliveredOnce
  <2> SUFFICES ASSUME Kept PROVE DeliveredOnce
    OBVIOUS
  <2>1. dropped \subseteq discarded
    BY DEF discarded
  <2>2. DeliveredSet \cap discarded = {}
    BY DEF Kept, OneWay
  <2>3. InKept \cap (DeliveredSet \cup discarded) = {}
    BY LeftAndKept DEF Kept, Gone
  <2>4. QED
    BY <2>1, <2>2, <2>3, DeliveredCounted, InFifoIsKept DEF DeliveredOnce
<1>4. Kept /\ Working /\ FP!TypeOK => LogsAccounted
  BY <1>1, <1>2, <1>3 DEF LogsAccounted
<1>5. QED
  BY <1>4, KeptAlways, WorkingAlways, FifoInvariant, PTL

-----------------------------------------------------------------------------
(* Only the oldest are discarded or read: no log of a thread is gone while *)
(* an older one of it stays in the FIFO, with any number of readers.       *)
THEOREM OldestGoFirst == Spec => []DropsOldestFirst
<1>1. Kept => DropsOldestFirst
  <2> SUFFICES ASSUME Kept PROVE DropsOldestFirst
    OBVIOUS
  <2>1. (added \cup dropped) \ InFifo \subseteq Gone
    BY InFifoIsKept DEF Kept, Accounted, Gone, discarded
  <2>2. QED
    BY <2>1, InFifoIsKept DEF DropsOldestFirst, Kept, InOrder
<1>2. QED
  BY <1>1, KeptAlways, PTL

LEMMA ReadInOrderKept ==
  ASSUME \A r, s \in Readers : r = s,
         Kept, GroupStep, ReadInOrder
  PROVE  ReadInOrder'
<1> USE DEF ReadInOrder, ThreadOrderKept
<1>1. ASSUME UNCHANGED <<DeliveredSet, delivered, Given>>,
             \A r \in Given : item'[r] = item[r]
      PROVE  ReadInOrder'
  BY <1>1
<1>2. ASSUME NEW t \in Readers, Takes(t)
      PROVE  ReadInOrder'
  <2>1. /\ UNCHANGED <<DeliveredSet, delivered>>
        /\ item' = [item EXCEPT ![t] = Head(kept)]
        /\ Head(kept) \in InKept
    BY <1>2 DEF Takes, Oldest, Buffer!Read
  <2>2. \A d \in DeliveredSet :
          d.thread = Head(kept).thread => d.linux_time < Head(kept).linux_time
    BY <2>1 DEF Kept, InOrder, Gone
  <2>3. item'[t] = Head(kept) /\ \A r \in Given' : r = t
    BY <2>1 DEF Kept, Typed, Threads, Given
  <2>4. QED
    BY <2>1, <2>2, <2>3
<1>3. ASSUME NEW t \in Readers, Gives(t)
      PROVE  ReadInOrder'
  <2>1. /\ delivered' = Append(delivered, item[t])
        /\ t \in Given /\ Given' = Given \ {t}
    BY <1>3 DEF Gives
  <2>2. Given' = {}
    BY <2>1 DEF Given
  <2>3. /\ DOMAIN delivered = 1 .. Len(delivered) /\ Len(delivered) \in Nat
        /\ DOMAIN delivered' = 1 .. Len(delivered) + 1
        /\ delivered'[Len(delivered) + 1] = item[t]
        /\ \A i \in DOMAIN delivered :
             delivered'[i] = delivered[i] /\ delivered[i] \in DeliveredSet
    BY <2>1 DEF Kept, Typed, DeliveredSet
  <2>4. ASSUME NEW i \in DOMAIN delivered', NEW j \in DOMAIN delivered',
               i < j, delivered'[i].thread = delivered'[j].thread
        PROVE  delivered'[i].linux_time < delivered'[j].linux_time
    <3>1. CASE j = Len(delivered) + 1
      BY <2>1, <2>3, <2>4, <3>1
    <3>2. CASE j # Len(delivered) + 1
      BY <2>3, <2>4, <3>2
    <3>3. QED
      BY <3>1, <3>2
  <2>5. QED
    BY <2>2, <2>4
<1>4. ASSUME NEW t \in Loggers, Begins(t)
      PROVE  ReadInOrder'
  BY <1>1, <1>4 DEF Begins, BeginsAdd, Buffer!BeginAdd, Nowhere, Given
<1>5. QED
  BY <1>1, <1>2, <1>3, <1>4, Kinds
  DEF Kept, Puts, Buffer!Add, Discards, Buffer!MakeRoom, Ends, Buffer!EndAdd, Waits,
      Nowhere

(* With one reader, what it is given and what stays are in the order of    *)
(* each thread.  (Two readers may return in the other order than they      *)
(* popped, so for them only OldestGoFirst holds.)                          *)
THEOREM OrderKeptByOneReader ==
  ASSUME \A r, s \in Readers : r = s
  PROVE  Spec => []OrderKept
<1>1. Init => ReadInOrder
  BY NothingYet DEF ReadInOrder, ThreadOrderKept
<1>2. Kept /\ GroupStep /\ ReadInOrder => ReadInOrder'
  BY ReadInOrderKept
<1>3. ReadInOrder /\ DropsOldestFirst => OrderKept
  BY DEF ReadInOrder, OrderKept
<1>4. QED
  BY <1>1, <1>2, <1>3, OldestGoFirst, KeptAlways, GroupSteps, WorkingAlways,
     CallingAlways, FifoInvariant, PTL
  DEF Spec, Known

-----------------------------------------------------------------------------
LEMMA GivenCounted ==
  ASSUME NEW t, IsFiniteSet(Given), IsFiniteSet(Given')
  PROVE  /\ Cardinality(Given) \in Nat /\ Cardinality(Given') \in Nat
         /\ Given' = Given \cup {t} /\ t \notin Given =>
              Cardinality(Given') = Cardinality(Given) + 1
         /\ t \in Given /\ Given' = Given \ {t} =>
              Cardinality(Given') = Cardinality(Given) - 1
BY FS_CardinalityType, FS_AddElement, FS_RemoveElement

(* A logger that starts, or starts again, to push counts as adding; one    *)
(* that pushed or found the group full does no more.                       *)
LEMMA AddingCounted ==
  ASSUME Typed, IsFiniteSet(Adding), NEW t \in Threads, NEW d,
         doing' = [doing EXCEPT ![t] = d]
  PROVE  /\ IsFiniteSet(Adding') /\ Cardinality(Adding) \in Nat
         /\ Cardinality(Adding') \in Nat
         /\ t \in Loggers /\ doing[t] # "adding" /\ d = "adding" =>
              Cardinality(Adding') = Cardinality(Adding) + 1
         /\ t \in Loggers /\ doing[t] = "adding" /\ d # "adding" =>
              Cardinality(Adding') = Cardinality(Adding) - 1
         /\ (t \in Loggers => (doing[t] = "adding" <=> d = "adding")) =>
              Adding' = Adding
<1>1. doing'[t] = d /\ \A u \in Threads \ {t} : doing'[u] = doing[u]
  BY DEF Typed
<1>2. CASE t \in Loggers /\ d = "adding"
  <2>1. Adding' = Adding \cup {t} /\ (t \in Adding <=> doing[t] = "adding")
    BY <1>1, <1>2 DEF Adding, Threads
  <2>2. QED
    BY <1>2, <2>1, FS_AddElement, FS_CardinalityType
<1>3. CASE t \in Loggers /\ d # "adding"
  <2>1. Adding' = Adding \ {t} /\ (t \in Adding <=> doing[t] = "adding")
    BY <1>1, <1>3 DEF Adding, Threads
  <2>2. QED
    BY <1>3, <2>1, FS_RemoveElement, FS_CardinalityType
<1>4. CASE t \notin Loggers
  <2>1. Adding' = Adding
    BY <1>1, <1>4 DEF Adding, Threads
  <2>2. QED
    BY <1>4, <2>1, FS_CardinalityType
<1>5. QED
  BY <1>2, <1>3, <1>4

LEMMA FilledKept ==
  ASSUME Typed, Typed', GroupStep, Filled
  PROVE  Filled'
<1> DEFINE G == Cardinality(Given)
           A == Cardinality(Adding)
           Was == discarded # {} \/ \E t \in Loggers : doing[t] = "full"
<1>1. /\ IsFiniteSet(Adding) /\ IsFiniteSet(Given) /\ G \in Nat /\ A \in Nat
      /\ Was => Len(kept) + Len(delivered) + G + A >= Capacity
  BY FS_CardinalityType DEF Filled
<1>2. Len(kept) \in Nat /\ Len(delivered) \in Nat /\ Capacity \in Nat
  BY FifoAssumption DEF Typed, Capacity
<1> HIDE DEF G, A, Was
<1>3. ASSUME NEW t \in Loggers, Begins(t) \/ Ends(t) \/ Puts(t) \/ Discards(t)
      PROVE  Filled'
  <2>1. Given' = Given /\ G' = G /\ IsFiniteSet(Given')
    BY <1>1, <1>3 DEF Begins, Ends, Puts, Discards, Nowhere, G
  <2>2. /\ t \in Threads /\ doing[t] \in {"idle", "added", "adding", "full"}
        /\ Begins(t) => Buffer!Moves(t, "idle", "adding")
        /\ Ends(t) => Buffer!Moves(t, "added", "idle")
        /\ Puts(t) => Buffer!Moves(t, "adding", "added")
        /\ Discards(t) => Buffer!Moves(t, "full", "adding")
    BY <1>3
    DEF Threads, Buffer!Moves, Begins, BeginsAdd, Buffer!BeginAdd, Ends,
        Buffer!EndAdd, Puts, Buffer!Add, Discards, Buffer!MakeRoom
  <2>3. PICK d \in {"adding", "idle", "added"} :
          /\ doing' = [doing EXCEPT ![t] = d]
          /\ (d = "adding" /\ doing[t] = "idle") => Begins(t)
          /\ (d = "adding" /\ doing[t] = "full") => Discards(t)
    BY <1>3, <2>2 DEF Buffer!Moves
  <2>4. /\ IsFiniteSet(Adding') /\ A' \in Nat
        /\ Begins(t) \/ Discards(t) => A' = A + 1
        /\ Puts(t) => A' = A - 1
        /\ Ends(t) => A' = A
    BY <1>1, <2>2, <2>3, AddingCounted DEF A, Buffer!Moves
  <2>5. /\ Begins(t) \/ Ends(t) => UNCHANGED <<kept, delivered, discarded>>
        /\ Puts(t) => Len(kept') = Len(kept) + 1 /\ UNCHANGED <<delivered, discarded>>
        /\ Discards(t) => Len(kept') = Len(kept) - 1 /\ delivered' = delivered
    <3>1. Begins(t) \/ Ends(t) => UNCHANGED <<kept, delivered, discarded>>
      BY DEF Begins, BeginsAdd, Buffer!BeginAdd, Ends, Buffer!EndAdd
    <3>2. Puts(t) => Len(kept') = Len(kept) + 1 /\ UNCHANGED <<delivered, discarded>>
      BY DEF Puts, Buffer!Add, Typed
    <3>3. Discards(t) => Len(kept') = Len(kept) - 1 /\ delivered' = delivered
      BY DEF Discards, Buffer!MakeRoom, Typed
    <3>4. QED
      BY <3>1, <3>2, <3>3
  <2>6. /\ Discards(t) => Was
        /\ ~Discards(t) => (Was' => Was)
    <3>1. \A u \in Loggers : doing'[u] = "full" => doing[u] = "full"
      BY <2>3 DEF Typed, Threads
    <3>2. ~Discards(t) => discarded' = discarded
      BY <1>3, <2>5
    <3>3. Discards(t) => doing[t] = "full"
      BY <2>2 DEF Buffer!Moves
    <3>4. QED
      BY <3>1, <3>2, <3>3 DEF Was
  <2>7. Was' => Len(kept') + Len(delivered') + G' + A' >= Capacity
    BY <1>1, <1>2, <1>3, <2>1, <2>4, <2>5, <2>6
  <2>8. QED
    BY <2>1, <2>4, <2>7 DEF Filled, Was, G, A
<1>4. ASSUME NEW t \in Readers, Takes(t) \/ Gives(t)
      PROVE  Filled'
  <2>1. /\ Adding' = Adding /\ A' = A
        /\ \A u \in Loggers : doing'[u] = doing[u]
    <3>1. \E d : doing' = [doing EXCEPT ![t] = d]
      BY <1>4 DEF Takes, Gives, Buffer!Read, Buffer!EndRead, Buffer!Moves
    <3>2. \A u \in Loggers : doing'[u] = doing[u]
      BY <3>1, RolesAssumption DEF Typed, Threads
    <3>3. Adding' = Adding
      BY <3>2 DEF Adding
    <3>4. QED
      BY <3>2, <3>3 DEF A
  <2>2. /\ IsFiniteSet(Given') /\ G' \in Nat
        /\ Takes(t) => G' = G + 1
        /\ Gives(t) => G' = G - 1
    <3>1. IsFiniteSet(Given')
      BY <1>1, <1>4, FS_AddElement, FS_RemoveElement DEF Takes, Gives
    <3>2. QED
      BY <1>1, <3>1, GivenCounted DEF G, Takes, Gives
  <2>3. /\ discarded' = discarded
        /\ Takes(t) => Len(kept') = Len(kept) - 1 /\ delivered' = delivered
        /\ Gives(t) => Len(delivered') = Len(delivered) + 1 /\ kept' = kept
    BY <1>4 DEF Takes, Gives, Buffer!Read, Buffer!EndRead, Typed
  <2>4. Was' => Was
    BY <2>1, <2>3 DEF Was
  <2>5. Was' => Len(kept') + Len(delivered') + G' + A' >= Capacity
    BY <1>1, <1>2, <1>4, <2>1, <2>2, <2>3, <2>4
  <2>6. QED
    BY <1>1, <2>1, <2>2, <2>5 DEF Filled, Was, G, A
<1>5. CASE Waits
  <2>1. Given' = Given /\ G' = G /\ UNCHANGED <<kept, delivered, discarded>>
    BY <1>5 DEF Waits, Nowhere, G
  <2>2. ASSUME NEW t \in Loggers, Buffer!FindFull(t)
        PROVE  Filled'
    <3>1. Len(kept) = Capacity /\ t \in Threads
          /\ doing[t] = "adding" /\ doing' = [doing EXCEPT ![t] = "full"]
      BY <2>2 DEF Buffer!FindFull, Buffer!Moves, Threads
    <3>2. IsFiniteSet(Adding') /\ A' \in Nat
      BY <1>1, <3>1, AddingCounted DEF A
    <3>3. Len(kept') + Len(delivered') + G' + A' >= Capacity
      BY <1>1, <1>2, <2>1, <3>1, <3>2
    <3>4. QED
      BY <1>1, <2>1, <3>2, <3>3 DEF Filled, G, A
  <2>3. ASSUME NEW t \in Loggers, Buffer!Moves(t, "full", "adding")
        PROVE  Filled'
    <3>1. t \in Threads /\ doing[t] = "full" /\ doing' = [doing EXCEPT ![t] = "adding"]
      BY <2>3 DEF Buffer!Moves, Threads
    <3>2. IsFiniteSet(Adding') /\ A' \in Nat /\ A' = A + 1
      BY <1>1, <2>3, <3>1, AddingCounted DEF A
    <3>3. Was
      BY <2>3, <3>1 DEF Was
    <3>4. Len(kept') + Len(delivered') + G' + A' >= Capacity
      BY <1>1, <1>2, <2>1, <3>2, <3>3
    <3>5. QED
      BY <1>1, <2>1, <3>2, <3>4 DEF Filled, G, A
  <2>4. CASE \A t \in Loggers : doing'[t] = doing[t]
    <3>1. Adding' = Adding
      BY <2>4 DEF Adding
    <3>2. QED
      BY <1>1, <2>1, <2>4, <3>1 DEF Filled
  <2>5. QED
    BY <1>5, <2>2, <2>3, <2>4 DEF Waits
<1>6. QED
  BY <1>3, <1>4, <1>5, Kinds

(* Logs are discarded only to make room: once any was, and the calls have  *)
(* returned, the FIFO is full but for what readers took out.  However many *)
(* loggers find it full together, they do not empty it between them.       *)
THEOREM DropsOnlyWhenFullAlways == Spec => []DropsOnlyWhenFull
<1>1. Init => Filled
  <2> SUFFICES ASSUME Init PROVE Filled
    OBVIOUS
  <2>1. discarded = {} /\ Given = {} /\ \A t \in Loggers : doing[t] = "idle"
    BY NothingYet DEF Threads
  <2>2. Adding = {}
    BY <2>1 DEF Adding
  <2>3. QED
    BY <2>1, <2>2, FS_EmptySet DEF Filled
<1>2. Typed /\ Typed' /\ GroupStep /\ Filled => Filled'
  BY FilledKept
<1>3. Typed /\ Calling /\ FP!IInv /\ Filled => DropsOnlyWhenFull
  <2> SUFFICES ASSUME Typed, Calling, FP!IInv, Filled, Quiet, dropped # {}
               PROVE  Fifo!Count + Len(delivered) >= Capacity
    BY DEF DropsOnlyWhenFull
  <2>1. \A t \in Threads : doing[t] = "idle" /\ item[t] = item[t]
    BY SameBuffer DEF BufferSeen, Quiet
  <2>2. Given = {}
    BY <2>1 DEF Typed, Given, Threads
  <2>3. Adding = {}
    BY <2>1 DEF Adding, Threads
  <2>4. Len(kept) + Len(delivered) >= Capacity
    <3>1. discarded # {}
      BY DEF discarded
    <3>2. Cardinality(Given) = 0 /\ Cardinality(Adding) = 0
      BY <2>2, <2>3, FS_EmptySet
    <3>3. Len(kept) \in Nat /\ Len(delivered) \in Nat
      BY DEF Typed
    <3>4. QED
      BY <3>1, <3>2, <3>3 DEF Filled
  <2>5. Len(kept) = Fifo!Count
    <3>1. Len(kept) = Len(q)
      BY KeptIs, KeptFacts DEF Calling
    <3>2. Len(q) = FP!Count
      <4>1. /\ chunks \in [FP!Indices -> FP!Buffers]
            /\ rd_ind_ \in FP!Indices /\ wr_ind_ \in FP!Indices /\ rd_ind_ # wr_ind_
        BY DEF FP!IInv, FP!TypeOK, FP!IndicesApart
      <4>2. Len(FP!ContentsOf(chunks, rd_ind_, wr_ind_)) = FP!InUse(rd_ind_, wr_ind_)
        BY <4>1, FifoAssumption, FP!ContentsOfIsSeq DEF Threads
      <4>3. QED
        BY <4>2, FifoAssumption, FP!ContentsIsContentsOf
        DEF q, Threads, FP!Count, FP!InUse
    <3>3. QED
      BY <3>1, <3>2, SameQueue DEF QueueSeen
  <2>6. QED
    BY <2>4, <2>5
<1>4. QED
  BY <1>1, <1>2, <1>3, TypedAlways, GroupSteps, WorkingAlways, CallingAlways,
     FifoInvariant, PTL
  DEF Spec, Known
=============================================================================
