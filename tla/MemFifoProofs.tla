--------------------------- MODULE MemFifoProofs ----------------------------
(***************************************************************************)
(* Proofs about module MemFifo, for every number of threads, every set of  *)
(* entries and every number of chunks from 2: its invariants, and that it  *)
(* implements module BoundedQueue.                                         *)
(***************************************************************************)
EXTENDS MemFifo, SequenceTheorems, TLAPS

(***************************************************************************)
(* Arithmetic of the ring                                                  *)
(***************************************************************************)

(* The code's (i+1)%number_chunks_ is the next index, or 0 after the last. *)
LEMMA NextIndValue ==
  ASSUME NEW i \in Indices
  PROVE  NextInd(i) = IF i = number_chunks_ - 1 THEN 0 ELSE i + 1
BY ChunksAssumption DEF Indices, NextInd

(* It stays in the ring, moves, and sends different indices to different   *)
(* ones.                                                                   *)
LEMMA NextIndProperties ==
  /\ \A i \in Indices : NextInd(i) \in Indices /\ NextInd(i) # i
  /\ \A i, j \in Indices : NextInd(i) = NextInd(j) => i = j
BY NextIndValue, ChunksAssumption DEF Indices

-----------------------------------------------------------------------------
(***************************************************************************)
(* Type correctness                                                        *)
(***************************************************************************)

(* Whatever the interleaving, the indices stay inside the ring and every   *)
(* buffer holds parts of entries or of zeroed memory.                      *)
THEOREM TypeCorrect == Spec => []TypeOK
<1> USE ThreadsAssumption, ChunksAssumption
<1>1. Init => TypeOK
  BY DEF Init, TypeOK, Buffers, Indices, Whole, Parts
<1>2. TypeOK /\ [Next]_vars => TypeOK'
  <2> SUFFICES ASSUME TypeOK, NEW t \in Threads, Call(t) \/ Step(t)
               PROVE  TypeOK'
    BY DEF Next, vars, TypeOK
  <2> USE DEF TypeOK, Goto, PushPc, PopPc, shared
  <2>1. CASE \E e \in Entries : PushCall(t, e)
    BY <2>1 DEF PushCall, Buffers, Whole
  <2>2. CASE PopCall(t)
    BY <2>2 DEF PopCall
  <2>3. CASE PushLock(t)
    BY <2>3 DEF PushLock
  <2>4. CASE PushFail(t)
    BY <2>4 DEF PushFail
  <2>5. CASE PushCheck(t)
    BY <2>5 DEF PushCheck
  <2>6. CASE PushCopy1(t)
    BY <2>6 DEF PushCopy1, Buffers, Parts
  <2>7. CASE PushCopy2(t)
    BY <2>7 DEF PushCopy2, Buffers, Parts
  <2>8. CASE PushCommit(t)
    BY <2>8, NextIndProperties DEF PushCommit
  <2>9. CASE PushUnlock(t)
    BY <2>9 DEF PushUnlock
  <2>10. CASE PopLock(t)
    BY <2>10 DEF PopLock
  <2>11. CASE PopFail(t)
    BY <2>11 DEF PopFail
  <2>12. CASE PopCheck(t)
    BY <2>12 DEF PopCheck
  <2>13. CASE PopAdvance(t)
    BY <2>13, NextIndProperties DEF PopAdvance
  <2>14. CASE PopCopy1(t)
    BY <2>14 DEF PopCopy1, Buffers, Parts
  <2>15. CASE PopCopy2(t)
    BY <2>15 DEF PopCopy2, Buffers, Parts
  <2>16. CASE PopUnlock(t)
    BY <2>16 DEF PopUnlock
  <2>17. QED
    BY <2>1, <2>2, <2>3, <2>4, <2>5, <2>6, <2>7, <2>8, <2>9, <2>10, <2>11,
       <2>12, <2>13, <2>14, <2>15, <2>16
    DEF Call, Step, PushStep, PopStep
<1>3. QED
  BY <1>1, <1>2, PTL DEF Spec

(* Mutual exclusion: a thread is between lock and unlock of a side exactly *)
(* when it owns that side's spinlock.                                      *)
THEOREM LocksHeldAlways == Spec => []LocksHeld
<1> USE ThreadsAssumption, ChunksAssumption
<1>1. Init => LocksHeld
  BY DEF Init, LocksHeld, PushPc, PopPc, InSection, OutSection
<1>2. TypeOK /\ LocksHeld /\ [Next]_vars => LocksHeld'
  <2> SUFFICES ASSUME TypeOK, LocksHeld,
                      NEW t \in Threads, Call(t) \/ Step(t)
               PROVE  LocksHeld'
    BY DEF Next, vars, LocksHeld, InSection, OutSection, PushPc, PopPc
  <2> USE DEF TypeOK, LocksHeld, Goto, PushPc, PopPc, InSection, OutSection, shared
  <2>1. CASE \E e \in Entries : PushCall(t, e)
    BY <2>1 DEF PushCall
  <2>2. CASE PopCall(t)
    BY <2>2 DEF PopCall
  <2>3. CASE PushLock(t)
    BY <2>3 DEF PushLock
  <2>4. CASE PushFail(t)
    BY <2>4 DEF PushFail
  <2>5. CASE PushCheck(t)
    BY <2>5 DEF PushCheck
  <2>6. CASE PushCopy1(t)
    BY <2>6 DEF PushCopy1
  <2>7. CASE PushCopy2(t)
    BY <2>7 DEF PushCopy2
  <2>8. CASE PushCommit(t)
    BY <2>8 DEF PushCommit
  <2>9. CASE PushUnlock(t)
    BY <2>9 DEF PushUnlock
  <2>10. CASE PopLock(t)
    BY <2>10 DEF PopLock
  <2>11. CASE PopFail(t)
    BY <2>11 DEF PopFail
  <2>12. CASE PopCheck(t)
    BY <2>12 DEF PopCheck
  <2>13. CASE PopAdvance(t)
    BY <2>13 DEF PopAdvance
  <2>14. CASE PopCopy1(t)
    BY <2>14 DEF PopCopy1
  <2>15. CASE PopCopy2(t)
    BY <2>15 DEF PopCopy2
  <2>16. CASE PopUnlock(t)
    BY <2>16 DEF PopUnlock
  <2>17. QED
    BY <2>1, <2>2, <2>3, <2>4, <2>5, <2>6, <2>7, <2>8,
       <2>9, <2>10, <2>11, <2>12, <2>13, <2>14, <2>15, <2>16
    DEF Call, Step, PushStep, PopStep
<1>3. QED
  BY <1>1, <1>2, TypeCorrect, PTL DEF Spec


(* A push or pop decides on the other side's index, read without the lock  *)
(* that guards it; what it decided still holds when it acts.  The free     *)
(* chunk between the indices is what makes this inductive: an index that   *)
(* moves up to the other one would turn an earlier decision wrong.         *)
THEOREM ChecksStayValidAlways == Spec => [](IndicesApart /\ ChecksStayValid)
<1> USE ThreadsAssumption, ChunksAssumption
<1> DEFINE Inv == IndicesApart /\ ChecksStayValid
<1>1. Init => Inv
  BY DEF Init, IndicesApart, ChecksStayValid
<1>2. TypeOK /\ LocksHeld /\ Inv /\ [Next]_vars => Inv'
  <2> SUFFICES ASSUME TypeOK, LocksHeld, Inv,
                      NEW t \in Threads, Call(t) \/ Step(t)
               PROVE  Inv'
    BY DEF Next, vars, IndicesApart, ChecksStayValid, Full, Empty
  <2> USE DEF TypeOK, LocksHeld, IndicesApart, ChecksStayValid, Goto, PushPc,
              PopPc, InSection, OutSection, shared, Full, Empty
  <2>1. CASE \E e \in Entries : PushCall(t, e)
    BY <2>1 DEF PushCall
  <2>2. CASE PopCall(t)
    BY <2>2 DEF PopCall
  <2>3. CASE PushLock(t)
    BY <2>3 DEF PushLock
  <2>4. CASE PushFail(t)
    BY <2>4 DEF PushFail
  <2>5. CASE PushCheck(t)
    BY <2>5 DEF PushCheck
  <2>6. CASE PushCopy1(t)
    BY <2>6 DEF PushCopy1
  <2>7. CASE PushCopy2(t)
    BY <2>7 DEF PushCopy2
  <2>8. CASE PushCommit(t)
    BY <2>8, NextIndProperties DEF PushCommit
  <2>9. CASE PushUnlock(t)
    BY <2>9 DEF PushUnlock
  <2>10. CASE PopLock(t)
    BY <2>10 DEF PopLock
  <2>11. CASE PopFail(t)
    BY <2>11 DEF PopFail
  <2>12. CASE PopCheck(t)
    BY <2>12 DEF PopCheck
  <2>13. CASE PopAdvance(t)
    BY <2>13, NextIndProperties DEF PopAdvance
  <2>14. CASE PopCopy1(t)
    BY <2>14 DEF PopCopy1
  <2>15. CASE PopCopy2(t)
    BY <2>15 DEF PopCopy2
  <2>16. CASE PopUnlock(t)
    BY <2>16 DEF PopUnlock
  <2>17. QED
    BY <2>1, <2>2, <2>3, <2>4, <2>5, <2>6, <2>7, <2>8,
       <2>9, <2>10, <2>11, <2>12, <2>13, <2>14, <2>15, <2>16
    DEF Call, Step, PushStep, PopStep
<1>3. QED
  BY <1>1, <1>2, TypeCorrect, LocksHeldAlways, PTL DEF Spec

(* What a pop returns is one entry, although the chunk it copies is already *)
(* released when the copy starts: the push that could overwrite it cannot   *)
(* reach it, and the chunks between the indices are whole.                  *)
THEOREM PoppedWholeAlways == Spec => [](PoppedWhole /\ CopiesAgree)
<1> USE ThreadsAssumption, ChunksAssumption
<1> DEFINE Inv == PoppedWhole /\ CopiesAgree
           Known == TypeOK /\ LocksHeld /\ IndicesApart /\ ChecksStayValid
<1>1. Init => Inv
  BY DEF Init, PoppedWhole, CopiesAgree, IsWhole, Whole, Indices, Parts
<1>2. Known /\ Known' /\ Inv /\ [Next]_vars => Inv'
  <2> SUFFICES ASSUME Known, Known', Inv,
                      NEW t \in Threads, Call(t) \/ Step(t)
               PROVE  Inv'
    BY DEF Next, vars, PoppedWhole, CopiesAgree, IsWhole
  <2> USE DEF TypeOK, LocksHeld, IndicesApart, ChecksStayValid, PoppedWhole,
              CopiesAgree, IsWhole, Whole, Buffers, Parts, Goto, PushPc, PopPc,
              InSection, OutSection, shared
  <2>1. CASE \E e \in Entries : PushCall(t, e)
    BY <2>1 DEF PushCall
  <2>2. CASE PopCall(t)
    BY <2>2 DEF PopCall
  <2>3. CASE PushLock(t)
    BY <2>3 DEF PushLock
  <2>4. CASE PushFail(t)
    BY <2>4 DEF PushFail
  <2>5. CASE PushCheck(t)
    BY <2>5 DEF PushCheck
  <2>6. CASE PushCopy1(t)
    BY <2>6 DEF PushCopy1
  <2>7. CASE PushCopy2(t)
    BY <2>7 DEF PushCopy2
  <2>8. CASE PushCommit(t)
    BY <2>8 DEF PushCommit
  <2>9. CASE PushUnlock(t)
    BY <2>9 DEF PushUnlock
  <2>10. CASE PopLock(t)
    BY <2>10 DEF PopLock
  <2>11. CASE PopFail(t)
    BY <2>11 DEF PopFail
  <2>12. CASE PopCheck(t)
    BY <2>12 DEF PopCheck
  <2>13. CASE PopAdvance(t)
    BY <2>13 DEF PopAdvance
  <2>14. CASE PopCopy1(t)
    BY <2>14 DEF PopCopy1
  <2>15. CASE PopCopy2(t)
    BY <2>15 DEF PopCopy2
  <2>16. CASE PopUnlock(t)
    BY <2>16 DEF PopUnlock
  <2>17. QED
    BY <2>1, <2>2, <2>3, <2>4, <2>5, <2>6, <2>7, <2>8,
       <2>9, <2>10, <2>11, <2>12, <2>13, <2>14, <2>15, <2>16
    DEF Call, Step, PushStep, PopStep
<1>3. QED
  BY <1>1, <1>2, TypeCorrect, LocksHeldAlways, ChecksStayValidAlways, PTL
  DEF Spec

(* A push and a pop that copy at the same time are on different chunks,    *)
(* although neither holds the other's lock: the indices never meet.        *)
THEOREM NoRacingCopiesAlways == Spec => []NoRacingCopies
<1>1. IndicesApart => NoRacingCopies
  BY DEF IndicesApart, NoRacingCopies
<1>2. QED
  BY <1>1, ChecksStayValidAlways, PTL

(* The strengthening that the four theorems above establish step by step.  *)
THEOREM InvariantHolds == Spec => []IInv
BY TypeCorrect, LocksHeldAlways, ChecksStayValidAlways, PoppedWholeAlways, PTL
DEF IInv
-----------------------------------------------------------------------------
(***************************************************************************)
(* The chunks in use: offsets 1 .. InUse(r, w) from the reader's index.    *)
(***************************************************************************)
At(r, k) == (r + k) % number_chunks_
InUse(r, w) == (w + number_chunks_ - r - 1) % number_chunks_

(* Offset k from index r, without the modulo.                              *)
LEMMA AtValue ==
  ASSUME NEW r \in Indices, NEW k \in 0 .. number_chunks_ - 1
  PROVE  At(r, k) =
           IF r + k < number_chunks_ THEN r + k ELSE r + k - number_chunks_
<1> USE ChunksAssumption DEF Indices, At
<1>1. CASE r + k < number_chunks_
  BY <1>1
<1>2. CASE r + k >= number_chunks_
  <2>1. (r + k - number_chunks_) \in 0 .. number_chunks_ - 1
    BY <1>2
  <2>2. (r + k) % number_chunks_ = (r + k - number_chunks_) % number_chunks_
    BY <2>1
  <2>3. QED
    BY <1>2, <2>1, <2>2
<1>3. QED
  BY <1>1, <1>2

(* The number of chunks in use, without the modulo.                        *)
LEMMA InUseValue ==
  ASSUME NEW r \in Indices, NEW w \in Indices, r # w
  PROVE  InUse(r, w) = IF w > r THEN w - r - 1 ELSE w - r - 1 + number_chunks_
<1> DEFINE k == number_chunks_ - r - 1
<1>1. k \in 0 .. number_chunks_ - 1
  BY ChunksAssumption DEF Indices
<1>2. InUse(r, w) = At(w, k)
  BY ChunksAssumption DEF Indices, InUse, At
<1>3. QED
  BY <1>1, <1>2, AtValue, ChunksAssumption DEF Indices

(* The chunks in use stop just before the writer's index, number at most   *)
(* number_chunks_ - 2, and the tests Full and Empty measure exactly that.  *)
LEMMA InUseProperties ==
  ASSUME NEW r \in Indices, NEW w \in Indices, r # w
  PROVE  /\ InUse(r, w) \in 0 .. number_chunks_ - 2
         /\ At(r, InUse(r, w) + 1) = w
         /\ \A k \in 1 .. InUse(r, w) : At(r, k) \in Indices \ {w}
         /\ NextInd(w) = r <=> InUse(r, w) = number_chunks_ - 2
         /\ NextInd(r) = w <=> InUse(r, w) = 0
<1> USE ChunksAssumption, InUseValue, AtValue, NextIndValue DEF Indices
<1>1. InUse(r, w) \in 0 .. number_chunks_ - 2
  OBVIOUS
<1>2. At(r, InUse(r, w) + 1) = w
  BY <1>1
<1>3. ASSUME NEW k \in 1 .. InUse(r, w)
      PROVE  At(r, k) \in Indices \ {w}
  BY <1>1, <1>3, SMTT(30)
<1>4. NextInd(w) = r <=> InUse(r, w) = number_chunks_ - 2
  BY SMTT(30)
<1>5. NextInd(r) = w <=> InUse(r, w) = 0
  OBVIOUS
<1>6. QED
  BY <1>1, <1>2, <1>3, <1>4, <1>5

(* Advancing the writer adds one chunk at the end.                         *)
LEMMA WriterAdvances ==
  ASSUME NEW r \in Indices, NEW w \in Indices, r # w, NextInd(w) # r
  PROVE  InUse(r, NextInd(w)) = InUse(r, w) + 1
BY ChunksAssumption, InUseValue, NextIndValue DEF Indices

(* Advancing the reader takes one chunk from the front.                    *)
LEMMA ReaderAdvances ==
  ASSUME NEW r \in Indices, NEW w \in Indices, r # w, NextInd(r) # w
  PROVE  /\ InUse(NextInd(r), w) = InUse(r, w) - 1
         /\ \A k \in 0 .. number_chunks_ - 2 : At(NextInd(r), k) = At(r, k + 1)
<1>1. InUse(NextInd(r), w) = InUse(r, w) - 1
  BY ChunksAssumption, InUseValue, NextIndValue DEF Indices
<1>2. ASSUME NEW k \in 0 .. number_chunks_ - 2
      PROVE  At(NextInd(r), k) = At(r, k + 1)
  BY ChunksAssumption, AtValue, NextIndValue DEF Indices
<1>3. QED
  BY <1>1, <1>2

-----------------------------------------------------------------------------
(***************************************************************************)
(* The queue that memory c holds between reader index r and writer index w *)
(***************************************************************************)
ContentsOf(c, r, w) == [k \in 1 .. InUse(r, w) |-> c[At(r, k)]]

(* It is a sequence of buffers, one for each chunk in use.                 *)
LEMMA ContentsOfIsSeq ==
  ASSUME NEW c \in [Indices -> Buffers],
         NEW r \in Indices, NEW w \in Indices, r # w
  PROVE  /\ ContentsOf(c, r, w) \in Seq(Buffers)
         /\ Len(ContentsOf(c, r, w)) = InUse(r, w)
         /\ \A k \in 1 .. InUse(r, w) : ContentsOf(c, r, w)[k] = c[At(r, k)]
<1> DEFINE s == ContentsOf(c, r, w)
           n == InUse(r, w)
<1>1. n \in Nat /\ \A k \in 1 .. n : c[At(r, k)] \in Buffers
  BY InUseProperties, ChunksAssumption
<1>2. s \in [1 .. n -> Buffers]
  BY <1>1 DEF ContentsOf
<1>3. s \in Seq(Buffers)
  BY <1>1, <1>2, SeqDef
<1>4. Len(s) = n
  BY <1>1, <1>2, <1>3, LenProperties
<1>5. QED
  BY <1>3, <1>4 DEF ContentsOf

(* A store into the free chunk at the writer's index does not change it.   *)
LEMMA FreeChunkUnseen ==
  ASSUME NEW c \in [Indices -> Buffers], NEW d \in [Indices -> Buffers],
         NEW r \in Indices, NEW w \in Indices, r # w,
         \A i \in Indices \ {w} : c[i] = d[i]
  PROVE  ContentsOf(c, r, w) = ContentsOf(d, r, w)
BY InUseProperties DEF ContentsOf

(* Advancing the writer appends the chunk it was at.                       *)
LEMMA WriterAppends ==
  ASSUME NEW c \in [Indices -> Buffers],
         NEW r \in Indices, NEW w \in Indices, r # w, NextInd(w) # r
  PROVE  ContentsOf(c, r, NextInd(w)) = Append(ContentsOf(c, r, w), c[w])
<1> DEFINE s == ContentsOf(c, r, w)
           t == ContentsOf(c, r, NextInd(w))
           n == InUse(r, w)
<1>1. NextInd(w) \in Indices
  BY NextIndProperties
<1>2. InUse(r, NextInd(w)) = n + 1 /\ n \in Nat /\ At(r, n + 1) = w
  BY WriterAdvances, InUseProperties, ChunksAssumption
<1>3. s \in Seq(Buffers) /\ Len(s) = n
  BY ContentsOfIsSeq
<1>4. t \in Seq(Buffers) /\ Len(t) = n + 1
  BY <1>1, <1>2, ContentsOfIsSeq
<1>5. c[w] \in Buffers
  OBVIOUS
<1>6. Append(s, c[w]) \in Seq(Buffers) /\ Len(Append(s, c[w])) = n + 1
  BY <1>3, <1>5, AppendProperties
<1>7. ASSUME NEW k \in 1 .. n + 1
      PROVE  t[k] = Append(s, c[w])[k]
  <2>1. t[k] = c[At(r, k)]
    BY <1>1, <1>2, ContentsOfIsSeq
  <2>2. CASE k = n + 1
    BY <2>1, <2>2, <1>2, <1>3, <1>5, AppendProperties
  <2>3. CASE k # n + 1
    <3>1. k \in 1 .. n
      BY <2>3, <1>2
    <3>2. s[k] = c[At(r, k)]
      BY <3>1, ContentsOfIsSeq
    <3>3. QED
      BY <2>1, <3>1, <3>2, <1>3, <1>5, AppendProperties
  <2>4. QED
    BY <2>2, <2>3
<1> HIDE DEF s, t, n
<1>8. QED
  BY <1>4, <1>6, <1>7, SeqEqual DEF s, t

(* Advancing the reader removes the head, the chunk it advances to.        *)
LEMMA ReaderRemovesHead ==
  ASSUME NEW c \in [Indices -> Buffers],
         NEW r \in Indices, NEW w \in Indices, r # w, NextInd(r) # w
  PROVE  /\ ContentsOf(c, r, w) # << >>
         /\ Head(ContentsOf(c, r, w)) = c[NextInd(r)]
         /\ ContentsOf(c, NextInd(r), w) = Tail(ContentsOf(c, r, w))
<1> DEFINE s == ContentsOf(c, r, w)
           t == ContentsOf(c, NextInd(r), w)
           n == InUse(r, w)
<1>1. NextInd(r) \in Indices
  BY NextIndProperties
<1>2. /\ n \in 1 .. number_chunks_ - 2
      /\ InUse(NextInd(r), w) = n - 1
      /\ \A k \in 1 .. n - 1 : At(NextInd(r), k) = At(r, k + 1)
  BY ReaderAdvances, InUseProperties, ChunksAssumption
<1>3. s \in Seq(Buffers) /\ Len(s) = n /\ \A k \in 1 .. n : s[k] = c[At(r, k)]
  BY ContentsOfIsSeq
<1>4. /\ t \in Seq(Buffers) /\ Len(t) = n - 1
      /\ \A k \in 1 .. n - 1 : t[k] = c[At(NextInd(r), k)]
  BY <1>1, <1>2, ContentsOfIsSeq
<1>5. At(r, 1) = NextInd(r)
  BY DEF At, NextInd
<1> HIDE DEF s, t, n
<1>6. s # << >> /\ Head(s) = c[NextInd(r)]
  BY <1>2, <1>3, <1>5, ChunksAssumption
<1>7. Tail(s) \in Seq(Buffers) /\ Len(Tail(s)) = n - 1
  BY <1>2, <1>3, <1>6, ChunksAssumption, HeadTailProperties
<1>8. ASSUME NEW k \in 1 .. n - 1
      PROVE  t[k] = Tail(s)[k]
  <2>1. Tail(s)[k] = s[k + 1]
    BY <1>2, <1>3, <1>6, <1>7, HeadTailProperties
  <2>2. k + 1 \in 1 .. n
    BY <1>2, ChunksAssumption
  <2>3. QED
    BY <2>1, <2>2, <1>2, <1>3, <1>4
<1>9. t = Tail(s)
  BY <1>4, <1>7, <1>8, SeqEqual
<1>10. QED
  BY <1>6, <1>9 DEF s, t

-----------------------------------------------------------------------------
(***************************************************************************)
(* The steps                                                               *)
(***************************************************************************)
LEMMA ContentsIsContentsOf == Contents = ContentsOf(chunks, rd_ind_, wr_ind_)
BY DEF Contents, Count, ContentsOf, InUse, At

(* A step of t changes nothing that the queue shows of another thread: the *)
(* chunk a pop is copying is its alone.                                    *)
LEMMA OthersUntouched ==
  ASSUME IInv, NEW t \in Threads, Call(t) \/ Step(t),
         NEW u \in Threads, u # t
  PROVE  AbstractOp(u)' = AbstractOp(u) /\ AbstractVal(u)' = AbstractVal(u)
<1> USE ThreadsAssumption DEF IInv, TypeOK, LocksHeld, IndicesApart, Goto,
        PushPc, PopPc, InSection, OutSection, shared, AbstractOp, AbstractVal
<1>1. CASE \E e \in Entries : PushCall(t, e)
  BY <1>1 DEF PushCall
<1>2. CASE PopCall(t)
  BY <1>2 DEF PopCall
<1>3. CASE PushLock(t)
  BY <1>3 DEF PushLock
<1>4. CASE PushFail(t)
  BY <1>4 DEF PushFail
<1>5. CASE PushCheck(t)
  BY <1>5 DEF PushCheck
<1>6. CASE PushCopy1(t)
  BY <1>6 DEF PushCopy1
<1>7. CASE PushCopy2(t)
  BY <1>7 DEF PushCopy2
<1>8. CASE PushCommit(t)
  BY <1>8 DEF PushCommit
<1>9. CASE PushUnlock(t)
  BY <1>9 DEF PushUnlock
<1>10. CASE PopLock(t)
  BY <1>10 DEF PopLock
<1>11. CASE PopFail(t)
  BY <1>11 DEF PopFail
<1>12. CASE PopCheck(t)
  BY <1>12 DEF PopCheck
<1>13. CASE PopAdvance(t)
  BY <1>13 DEF PopAdvance
<1>14. CASE PopCopy1(t)
  BY <1>14 DEF PopCopy1
<1>15. CASE PopCopy2(t)
  BY <1>15 DEF PopCopy2
<1>16. CASE PopUnlock(t)
  BY <1>16 DEF PopUnlock
<1>17. QED
  BY <1>1, <1>2, <1>3, <1>4, <1>5, <1>6, <1>7, <1>8,
     <1>9, <1>10, <1>11, <1>12, <1>13, <1>14, <1>15, <1>16
  DEF Call, Step, PushStep, PopStep

(* A call of the FIFO is the call of the queue.                            *)
LEMMA PushCallRefines ==
  ASSUME IInv, NEW t \in Threads, NEW e \in Entries, PushCall(t, e)
  PROVE  Queue!CallPush(t, Whole(e))
<1> USE ThreadsAssumption, ChunksAssumption
<1>1. Call(t) \/ Step(t)
  BY DEF Call
<1>2. /\ AbstractOps' = [AbstractOps EXCEPT ![t] = AbstractOp(t)']
      /\ AbstractVals' = [AbstractVals EXCEPT ![t] = AbstractVal(t)']
  BY OthersUntouched, <1>1 DEF AbstractOps, AbstractVals
<1>3. AbstractOps[t] = AbstractOp(t) /\ AbstractVals[t] = AbstractVal(t)
  BY DEF AbstractOps, AbstractVals
<1> USE DEF IInv, TypeOK, IndicesApart, Goto, PushPc, PopPc, shared
<1>4. /\ AbstractOp(t) = "idle" /\ AbstractOp(t)' = "push"
      /\ AbstractVal(t)' = Whole(e)
  BY DEF PushCall, AbstractOp, AbstractVal
<1>5. Contents' = Contents /\ ok' = ok
  BY DEF PushCall, Contents, Count
<1>6. QED
  BY <1>2, <1>3, <1>4, <1>5 DEF Queue!CallPush

LEMMA PopCallRefines ==
  ASSUME IInv, NEW t \in Threads, PopCall(t)
  PROVE  Queue!CallPop(t)
<1> USE ThreadsAssumption, ChunksAssumption
<1>1. Call(t) \/ Step(t)
  BY DEF Call
<1>2. /\ AbstractOps' = [AbstractOps EXCEPT ![t] = AbstractOp(t)']
      /\ AbstractVals' = [AbstractVals EXCEPT ![t] = AbstractVal(t)']
  BY OthersUntouched, <1>1 DEF AbstractOps, AbstractVals
<1>3. AbstractOps[t] = AbstractOp(t) /\ AbstractVals[t] = AbstractVal(t)
  BY DEF AbstractOps, AbstractVals
<1> USE DEF IInv, TypeOK, IndicesApart, Goto, PushPc, PopPc, shared
<1>4. /\ AbstractOp(t) = "idle" /\ AbstractOp(t)' = "pop"
      /\ AbstractVal(t)' = AbstractVal(t)
  BY DEF PopCall, AbstractOp, AbstractVal
<1>5. Contents' = Contents /\ ok' = ok
  BY DEF PopCall, Contents, Count
<1>6. QED
  BY <1>2, <1>3, <1>4, <1>5 DEF Queue!CallPop, AbstractVals

(* A step of a thread inside an operation is a step of that thread of the  *)
(* queue, or changes nothing of the queue.                                 *)
LEMMA ThreadStepRefines ==
  ASSUME IInv, IInv', NEW t \in Threads, Step(t)
  PROVE  \/ Queue!Push(t) \/ Queue!PushFull(t) \/ Queue!Pop(t)
         \/ Queue!PopEmpty(t) \/ Queue!Return(t)
         \/ UNCHANGED Queue!vars
<1> USE ThreadsAssumption, ChunksAssumption
<1>2. /\ AbstractOps' = [AbstractOps EXCEPT ![t] = AbstractOp(t)']
      /\ AbstractVals' = [AbstractVals EXCEPT ![t] = AbstractVal(t)']
  BY OthersUntouched DEF AbstractOps, AbstractVals
<1>3. AbstractOps[t] = AbstractOp(t) /\ AbstractVals[t] = AbstractVal(t)
  BY DEF AbstractOps, AbstractVals
<1> USE DEF IInv, TypeOK, IndicesApart, Goto, PushPc, PopPc, shared
<1>4. CASE PushLock(t)
  <2>1. AbstractOp(t)' = AbstractOp(t) /\ AbstractVal(t)' = AbstractVal(t)
    BY <1>4 DEF PushLock, AbstractOp, AbstractVal
  <2>2. Contents' = Contents
    BY <1>4 DEF PushLock, Contents, Count
  <2>3. ok' = ok
    BY <1>4 DEF PushLock
  <2>4. QED
    BY <2>1, <2>2, <2>3, <1>2 DEF Queue!vars, AbstractOps, AbstractVals
<1>5. CASE PushCheck(t)
  <2>1. AbstractOp(t)' = AbstractOp(t) /\ AbstractVal(t)' = AbstractVal(t)
    BY <1>5 DEF PushCheck, AbstractOp, AbstractVal
  <2>2. Contents' = Contents
    BY <1>5 DEF PushCheck, Contents, Count
  <2>3. ok' = ok
    BY <1>5 DEF PushCheck
  <2>4. QED
    BY <2>1, <2>2, <2>3, <1>2 DEF Queue!vars, AbstractOps, AbstractVals
<1>6. CASE PopLock(t)
  <2>1. AbstractOp(t)' = AbstractOp(t) /\ AbstractVal(t)' = AbstractVal(t)
    BY <1>6 DEF PopLock, AbstractOp, AbstractVal
  <2>2. Contents' = Contents
    BY <1>6 DEF PopLock, Contents, Count
  <2>3. ok' = ok
    BY <1>6 DEF PopLock
  <2>4. QED
    BY <2>1, <2>2, <2>3, <1>2 DEF Queue!vars, AbstractOps, AbstractVals
<1>7. CASE PopCheck(t)
  <2>1. AbstractOp(t)' = AbstractOp(t) /\ AbstractVal(t)' = AbstractVal(t)
    BY <1>7 DEF PopCheck, AbstractOp, AbstractVal
  <2>2. Contents' = Contents
    BY <1>7 DEF PopCheck, Contents, Count
  <2>3. ok' = ok
    BY <1>7 DEF PopCheck
  <2>4. QED
    BY <2>1, <2>2, <2>3, <1>2 DEF Queue!vars, AbstractOps, AbstractVals
<1>8. CASE PopCopy1(t)
  <2>1. AbstractOp(t)' = AbstractOp(t) /\ AbstractVal(t)' = AbstractVal(t)
    BY <1>8 DEF PopCopy1, AbstractOp, AbstractVal
  <2>2. Contents' = Contents
    BY <1>8 DEF PopCopy1, Contents, Count
  <2>3. ok' = ok
    BY <1>8 DEF PopCopy1
  <2>4. QED
    BY <2>1, <2>2, <2>3, <1>2 DEF Queue!vars, AbstractOps, AbstractVals
<1>9. CASE PushCopy1(t)
  <2>1. AbstractOp(t)' = AbstractOp(t) /\ AbstractVal(t)' = AbstractVal(t)
    BY <1>9 DEF PushCopy1, AbstractOp, AbstractVal
  <2>2. Contents' = Contents
    <3>1. /\ \A i \in Indices \ {wr_ind_} : chunks'[i] = chunks[i]
          /\ rd_ind_' = rd_ind_ /\ wr_ind_' = wr_ind_
      BY <1>9 DEF PushCopy1
    <3>2. ContentsOf(chunks', rd_ind_, wr_ind_)
            = ContentsOf(chunks, rd_ind_, wr_ind_)
      BY <3>1, FreeChunkUnseen
    <3>3. QED
      BY <3>1, <3>2 DEF Contents, Count, ContentsOf, InUse, At
  <2>3. ok' = ok
    BY <1>9 DEF PushCopy1
  <2>4. QED
    BY <2>1, <2>2, <2>3, <1>2 DEF Queue!vars, AbstractOps, AbstractVals
<1>10. CASE PushCopy2(t)
  <2>1. AbstractOp(t)' = AbstractOp(t) /\ AbstractVal(t)' = AbstractVal(t)
    BY <1>10 DEF PushCopy2, AbstractOp, AbstractVal
  <2>2. Contents' = Contents
    <3>1. /\ \A i \in Indices \ {wr_ind_} : chunks'[i] = chunks[i]
          /\ rd_ind_' = rd_ind_ /\ wr_ind_' = wr_ind_
      BY <1>10 DEF PushCopy2
    <3>2. ContentsOf(chunks', rd_ind_, wr_ind_)
            = ContentsOf(chunks, rd_ind_, wr_ind_)
      BY <3>1, FreeChunkUnseen
    <3>3. QED
      BY <3>1, <3>2 DEF Contents, Count, ContentsOf, InUse, At
  <2>3. ok' = ok
    BY <1>10 DEF PushCopy2
  <2>4. QED
    BY <2>1, <2>2, <2>3, <1>2 DEF Queue!vars, AbstractOps, AbstractVals
<1>11. CASE PopCopy2(t)
  <2>1. chunks[rd_ind_][1] = data[t][1]
    BY <1>11 DEF PopCopy2, CopiesAgree
  <2>2. data'[t] = chunks[rd_ind_]
    BY <1>11, <2>1 DEF PopCopy2, Buffers, Parts
  <2>3. AbstractOp(t)' = AbstractOp(t) /\ AbstractVal(t)' = AbstractVal(t)
    BY <1>11, <2>2 DEF PopCopy2, AbstractOp, AbstractVal
  <2>4. Contents' = Contents /\ ok' = ok
    BY <1>11 DEF PopCopy2, Contents, Count
  <2>5. QED
    BY <2>3, <2>4, <1>2 DEF Queue!vars, AbstractOps, AbstractVals
<1>12. CASE PushUnlock(t) \/ PopUnlock(t)
  <2>1. /\ AbstractOp(t) = "return" /\ AbstractOp(t)' = "idle"
        /\ AbstractVal(t)' = AbstractVal(t)
    BY <1>12 DEF PushUnlock, PopUnlock, AbstractOp, AbstractVal
  <2>2. Contents' = Contents /\ ok' = ok
    BY <1>12 DEF PushUnlock, PopUnlock, Contents, Count
  <2>3. Queue!Return(t)
    BY <2>1, <2>2, <1>2, <1>3 DEF Queue!Return, AbstractVals
  <2>4. QED
    BY <2>3
<1>13. Len(Contents) = InUse(rd_ind_, wr_ind_)
  BY ContentsIsContentsOf, ContentsOfIsSeq
<1>14. CASE PushFail(t)
  <2>1. /\ AbstractOp(t) = "push" /\ AbstractOp(t)' = "return"
        /\ AbstractVal(t)' = AbstractVal(t)
    BY <1>14 DEF PushFail, AbstractOp, AbstractVal
  <2>2. Contents' = Contents /\ ok' = [ok EXCEPT ![t] = FALSE]
    BY <1>14 DEF PushFail, Contents, Count
  <2>3. Len(Contents) = number_chunks_ - 2
    BY <1>13, <1>14, InUseProperties DEF PushFail, Full
  <2>4. Queue!PushFull(t)
    BY <2>1, <2>2, <2>3, <1>2, <1>3
    DEF Queue!PushFull, Queue!Finish, AbstractVals
  <2>5. QED
    BY <2>4
<1>15. CASE PopFail(t)
  <2>1. /\ AbstractOp(t) = "pop" /\ AbstractOp(t)' = "return"
        /\ AbstractVal(t)' = AbstractVal(t)
    BY <1>15 DEF PopFail, AbstractOp, AbstractVal
  <2>2. Contents' = Contents /\ ok' = [ok EXCEPT ![t] = FALSE]
    BY <1>15 DEF PopFail, Contents, Count
  <2>3. InUse(rd_ind_, wr_ind_) = 0
    BY <1>15, InUseProperties DEF PopFail, Empty
  <2>4. Contents = << >>
    BY <2>3, ContentsIsContentsOf DEF ContentsOf
  <2>5. Queue!PopEmpty(t)
    BY <2>1, <2>2, <2>4, <1>2, <1>3
    DEF Queue!PopEmpty, Queue!Finish, AbstractVals
  <2>6. QED
    BY <2>5
<1>16. CASE PushCommit(t)
  <2>1. /\ AbstractOp(t) = "push" /\ AbstractOp(t)' = "return"
        /\ AbstractVal(t)' = AbstractVal(t) /\ AbstractVal(t) = data[t]
    BY <1>16 DEF PushCommit, AbstractOp, AbstractVal
  <2>2. ~Full /\ chunks[wr_ind_] = data[t]
    BY <1>16 DEF PushCommit, ChecksStayValid, CopiesAgree
  <2>3. NextInd(wr_ind_) # rd_ind_
    BY <2>2 DEF Full
  <2>4. Contents' = ContentsOf(chunks, rd_ind_, NextInd(wr_ind_))
    BY <1>16 DEF PushCommit, Contents, Count, ContentsOf, InUse, At
  <2>5. Contents' = Append(Contents, data[t])
    BY <2>2, <2>3, <2>4, WriterAppends, ContentsIsContentsOf
  <2>6. Len(Contents) < number_chunks_ - 2
    <3>1. /\ InUse(rd_ind_, wr_ind_) \in 0 .. number_chunks_ - 2
          /\ InUse(rd_ind_, wr_ind_) # number_chunks_ - 2
      BY <2>3, InUseProperties
    <3>2. QED
      BY <1>13, <3>1
  <2>7. ok' = [ok EXCEPT ![t] = TRUE]
    BY <1>16 DEF PushCommit
  <2>8. Queue!Push(t)
    BY <2>1, <2>5, <2>6, <2>7, <1>2, <1>3
    DEF Queue!Push, Queue!Finish, AbstractVals
  <2>9. QED
    BY <2>8
<1>17. CASE PopAdvance(t)
  <2>1. /\ AbstractOp(t) = "pop" /\ AbstractOp(t)' = "return"
        /\ AbstractVal(t)' = chunks[NextInd(rd_ind_)]
    BY <1>17 DEF PopAdvance, AbstractOp, AbstractVal
  <2>2. NextInd(rd_ind_) # wr_ind_
    BY <1>17 DEF PopAdvance, ChecksStayValid, Empty
  <2>3. Contents' = ContentsOf(chunks, NextInd(rd_ind_), wr_ind_)
    BY <1>17 DEF PopAdvance, Contents, Count, ContentsOf, InUse, At
  <2>4. /\ Contents # << >>
        /\ Contents' = Tail(Contents)
        /\ AbstractVal(t)' = Head(Contents)
    BY <2>1, <2>2, <2>3, ReaderRemovesHead, ContentsIsContentsOf
  <2>5. ok' = [ok EXCEPT ![t] = TRUE]
    BY <1>17 DEF PopAdvance
  <2>6. Queue!Pop(t)
    BY <2>1, <2>4, <2>5, <1>2, <1>3 DEF Queue!Pop, Queue!Finish
  <2>7. QED
    BY <2>6
<1>18. QED
  BY <1>4, <1>5, <1>6, <1>7, <1>8, <1>9, <1>10, <1>11, <1>12, <1>14, <1>15,
     <1>16, <1>17
  DEF Step, PushStep, PopStep

(* Every step of the FIFO is a step of the queue or changes nothing of it. *)
LEMMA StepRefines ==
  ASSUME IInv, IInv', [Next]_vars
  PROVE  [Queue!Next]_(Queue!vars)
<1>1. CASE UNCHANGED vars
  BY <1>1 DEF vars, Queue!vars, Contents, Count, AbstractOps, AbstractVals,
              AbstractOp, AbstractVal
<1>2. ASSUME NEW t \in Threads, NEW e \in Entries, PushCall(t, e)
      PROVE  Queue!Next
  BY <1>2, PushCallRefines DEF Queue!Next
<1>3. ASSUME NEW t \in Threads, PopCall(t)
      PROVE  Queue!Next
  BY <1>3, PopCallRefines DEF Queue!Next
<1>4. ASSUME NEW t \in Threads, Step(t)
      PROVE  Queue!Next \/ UNCHANGED Queue!vars
  BY <1>4, ThreadStepRefines DEF Queue!Next
<1>5. QED
  BY <1>1, <1>2, <1>3, <1>4 DEF Next, Call

(* The initial state: wr_ind_ one after rd_ind_ is the empty queue.        *)
LEMMA InitRefines == Init => Queue!Init
<1> SUFFICES ASSUME Init
             PROVE  Queue!Init
  OBVIOUS
<1>1. 0 \in Indices /\ 1 \in Indices /\ NextInd(0) = 1
  BY ChunksAssumption, NextIndValue DEF Indices
<1>2. InUse(0, 1) = 0
  BY <1>1, InUseProperties
<1>3. Contents = << >>
  BY <1>2, ContentsIsContentsOf DEF Init, ContentsOf
<1>4. QED
  BY <1>3 DEF Init, Queue!Init, AbstractOps, AbstractVals, AbstractOp,
              AbstractVal, PushPc

(* PushFIFO_MT and PopFIFO_MT, with a lock for each side and none between  *)
(* the sides, behave to all their callers as one queue of number_chunks_-2 *)
(* entries whose operations happen one at a time.                          *)
THEOREM FifoImplementsQueue == Spec => ImplementsQueue
<1>1. Spec => []IInv
  BY TypeCorrect, LocksHeldAlways, ChecksStayValidAlways, PoppedWholeAlways,
     PTL DEF IInv
<1>2. QED
  BY <1>1, InitRefines, StepRefines, PTL DEF Spec, ImplementsQueue, Queue!Spec
=============================================================================
