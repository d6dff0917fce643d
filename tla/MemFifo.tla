------------------------------ MODULE MemFifo ------------------------------
(***************************************************************************)
(* The multi-threaded FIFO of CMemArea and StaticMemArea                   *)
(* (rt_debug_cpp/src/i_cpp_sys_api.h): PushFIFO_MT and PopFIFO_MT over a   *)
(* ring of number_chunks_ chunks.  A push holds in_lock_ and a pop holds   *)
(* out_lock_, so a push and a pop overlap freely: each reads the index the *)
(* other one writes.  Every access to an index, and each half of every     *)
(* memcpy, is a step of its own.  The caller is any thread that calls any  *)
(* operation at any time.                                                  *)
(*                                                                         *)
(* A thread sees the stores of another in program order (x86).             *)
(***************************************************************************)
EXTENDS Integers, Sequences

CONSTANTS
  Threads,         \* threads of all processes that share the memory
  NoThread,        \* owner of a free spinlock
  Entries,         \* what callers push
  NoEntry,         \* zeroed memory
  number_chunks_   \* chunks of the ring

ASSUME ThreadsAssumption == NoThread \notin Threads
ASSUME ChunksAssumption == number_chunks_ \in Nat /\ number_chunks_ >= 2

VARIABLES
  wr_ind_, rd_ind_,     \* indices of the ring
  in_lock_, out_lock_,  \* owners of the two spinlocks
  chunks,               \* chunks[i]: the memory of chunk i, copied in two parts
  pc,                   \* pc[t]: next step of the operation t is in
  data,                 \* data[t]: the buffer data_p of the caller
  ok                    \* ok[t]: result of the last operation of t

vars == <<wr_ind_, rd_ind_, in_lock_, out_lock_, chunks, pc, data, ok>>
shared == <<wr_ind_, rd_ind_, in_lock_, out_lock_, chunks>>

Parts == {1, 2}
Indices == 0 .. number_chunks_ - 1

(* A chunk, or a caller's buffer, whose two parts hold entry e. *)
Whole(e) == [p \in Parts |-> e]

PushPc == {"push_lock", "push_check", "push_copy1", "push_copy2",
           "push_commit", "push_unlock"}
PopPc == {"pop_lock", "pop_check", "pop_advance", "pop_copy1", "pop_copy2",
          "pop_unlock"}
InSection == PushPc \ {"push_lock"}
OutSection == PopPc \ {"pop_lock"}

(***************************************************************************)
(* Variants of definitions below that a plausible slip would give.         *)
(***************************************************************************)
EmptyUnlessEqual == rd_ind_ = wr_ind_
PushUnguarded(t) ==
  /\ pc[t] = "push_lock"
  /\ pc' = [pc EXCEPT ![t] = "push_check"]
  /\ UNCHANGED <<wr_ind_, rd_ind_, in_lock_, out_lock_, chunks, data, ok>>
PopUnguarded(t) ==
  /\ pc[t] = "pop_lock"
  /\ pc' = [pc EXCEPT ![t] = "pop_check"]
  /\ UNCHANGED <<wr_ind_, rd_ind_, in_lock_, out_lock_, chunks, data, ok>>
PopKeepsLock(t) ==
  /\ pc[t] = "pop_unlock"
  /\ pc' = [pc EXCEPT ![t] = "idle"]
  /\ UNCHANGED <<wr_ind_, rd_ind_, in_lock_, out_lock_, chunks, data, ok>>
PushCommitsEarly(t) ==
  /\ pc[t] = "push_copy1"
  /\ chunks' = [chunks EXCEPT ![wr_ind_][1] = data[t][1]]
  /\ wr_ind_' = (wr_ind_ + 1) % number_chunks_
  /\ pc' = [pc EXCEPT ![t] = "push_copy2"]
  /\ UNCHANGED <<rd_ind_, in_lock_, out_lock_, data, ok>>

-----------------------------------------------------------------------------
NextInd(i) == (i + 1) % number_chunks_

Full == NextInd(wr_ind_) = rd_ind_
Empty == NextInd(rd_ind_) = wr_ind_

(* Setup: one chunk is always kept free between the two indices. *)
Init ==
  /\ rd_ind_ = 0
  /\ wr_ind_ = 1
  /\ in_lock_ = NoThread
  /\ out_lock_ = NoThread
  /\ chunks = [i \in Indices |-> Whole(NoEntry)]
  /\ pc = [t \in Threads |-> "idle"]
  /\ data = [t \in Threads |-> Whole(NoEntry)]
  /\ ok = [t \in Threads |-> FALSE]

Goto(t, from, to) ==
  /\ pc[t] = from
  /\ pc' = [pc EXCEPT ![t] = to]

(***************************************************************************)
(* PushFIFO_MT                                                             *)
(***************************************************************************)
PushCall(t, e) ==
  /\ Goto(t, "idle", "push_lock")
  /\ data' = [data EXCEPT ![t] = Whole(e)]
  /\ UNCHANGED <<shared, ok>>

PushLock(t) ==
  /\ Goto(t, "push_lock", "push_check")
  /\ in_lock_ = NoThread
  /\ in_lock_' = t
  /\ UNCHANGED <<wr_ind_, rd_ind_, out_lock_, chunks, data, ok>>

PushFail(t) ==
  /\ Goto(t, "push_check", "push_unlock")
  /\ Full
  /\ ok' = [ok EXCEPT ![t] = FALSE]
  /\ UNCHANGED <<shared, data>>

PushCheck(t) ==
  /\ Goto(t, "push_check", "push_copy1")
  /\ ~Full
  /\ UNCHANGED <<shared, data, ok>>

PushCopy1(t) ==
  /\ Goto(t, "push_copy1", "push_copy2")
  /\ chunks' = [chunks EXCEPT ![wr_ind_][1] = data[t][1]]
  /\ UNCHANGED <<wr_ind_, rd_ind_, in_lock_, out_lock_, data, ok>>

PushCopy2(t) ==
  /\ Goto(t, "push_copy2", "push_commit")
  /\ chunks' = [chunks EXCEPT ![wr_ind_][2] = data[t][2]]
  /\ UNCHANGED <<wr_ind_, rd_ind_, in_lock_, out_lock_, data, ok>>

PushCommit(t) ==
  /\ Goto(t, "push_commit", "push_unlock")
  /\ wr_ind_' = NextInd(wr_ind_)
  /\ ok' = [ok EXCEPT ![t] = TRUE]
  /\ UNCHANGED <<rd_ind_, in_lock_, out_lock_, chunks, data>>

PushUnlock(t) ==
  /\ Goto(t, "push_unlock", "idle")
  /\ in_lock_' = NoThread
  /\ UNCHANGED <<wr_ind_, rd_ind_, out_lock_, chunks, data, ok>>

(***************************************************************************)
(* PopFIFO_MT: rd_ind_ is advanced before the chunk it names is copied.    *)
(***************************************************************************)
PopCall(t) ==
  /\ Goto(t, "idle", "pop_lock")
  /\ UNCHANGED <<shared, data, ok>>

PopLock(t) ==
  /\ Goto(t, "pop_lock", "pop_check")
  /\ out_lock_ = NoThread
  /\ out_lock_' = t
  /\ UNCHANGED <<wr_ind_, rd_ind_, in_lock_, chunks, data, ok>>

PopFail(t) ==
  /\ Goto(t, "pop_check", "pop_unlock")
  /\ Empty
  /\ ok' = [ok EXCEPT ![t] = FALSE]
  /\ UNCHANGED <<shared, data>>

PopCheck(t) ==
  /\ Goto(t, "pop_check", "pop_advance")
  /\ ~Empty
  /\ UNCHANGED <<shared, data, ok>>

PopAdvance(t) ==
  /\ Goto(t, "pop_advance", "pop_copy1")
  /\ rd_ind_' = NextInd(rd_ind_)
  /\ ok' = [ok EXCEPT ![t] = TRUE]
  /\ UNCHANGED <<wr_ind_, in_lock_, out_lock_, chunks, data>>

PopCopy1(t) ==
  /\ Goto(t, "pop_copy1", "pop_copy2")
  /\ data' = [data EXCEPT ![t][1] = chunks[rd_ind_][1]]
  /\ UNCHANGED <<shared, ok>>

PopCopy2(t) ==
  /\ Goto(t, "pop_copy2", "pop_unlock")
  /\ data' = [data EXCEPT ![t][2] = chunks[rd_ind_][2]]
  /\ UNCHANGED <<shared, ok>>

PopUnlock(t) ==
  /\ Goto(t, "pop_unlock", "idle")
  /\ out_lock_' = NoThread
  /\ UNCHANGED <<wr_ind_, rd_ind_, in_lock_, chunks, data, ok>>

-----------------------------------------------------------------------------
PushStep(t) ==
  \/ PushLock(t) \/ PushFail(t) \/ PushCheck(t) \/ PushCopy1(t)
  \/ PushCopy2(t) \/ PushCommit(t) \/ PushUnlock(t)

PopStep(t) ==
  \/ PopLock(t) \/ PopFail(t) \/ PopCheck(t) \/ PopAdvance(t)
  \/ PopCopy1(t) \/ PopCopy2(t) \/ PopUnlock(t)

Step(t) == PushStep(t) \/ PopStep(t)

Call(t) == PopCall(t) \/ \E e \in Entries : PushCall(t, e)

Next == \E t \in Threads : Call(t) \/ Step(t)

Spec == Init /\ [][Next]_vars

(* A thread inside an operation keeps running; which of the threads that   *)
(* spin on a lock gets it next is left open.                               *)
FairSpec == Spec /\ \A t \in Threads : WF_vars(Step(t))

-----------------------------------------------------------------------------
(***************************************************************************)
(* Invariants                                                              *)
(***************************************************************************)
Buffers == [Parts -> Entries \cup {NoEntry}]

(* Every variable stays within its type; indices stay inside the ring.     *)
TypeOK ==
  /\ wr_ind_ \in Indices
  /\ rd_ind_ \in Indices
  /\ in_lock_ \in Threads \cup {NoThread}
  /\ out_lock_ \in Threads \cup {NoThread}
  /\ chunks \in [Indices -> Buffers]
  /\ pc \in [Threads -> {"idle"} \cup PushPc \cup PopPc]
  /\ data \in [Threads -> Buffers]
  /\ ok \in [Threads -> BOOLEAN]

IsWhole(b) == b[1] = b[2]

(* The thread between lock and unlock of a side is the owner of its lock,  *)
(* so the pushes exclude each other and so do the pops.                    *)
LocksHeld ==
  \A t \in Threads :
    /\ pc[t] \in InSection <=> in_lock_ = t
    /\ pc[t] \in OutSection <=> out_lock_ = t

(* The index of the other side, read once and then used without its lock,  *)
(* may move, but never so that the decision taken on it turns wrong: the   *)
(* chunk a push fills stays free and the chunk a pop takes stays filled.   *)
ChecksStayValid ==
  \A t \in Threads :
    /\ pc[t] \in {"push_copy1", "push_copy2", "push_commit"} => ~Full
    /\ pc[t] = "pop_advance" => ~Empty

(* A push and a pop that copy at the same time never touch the same chunk, *)
(* although they hold different locks.                                     *)
NoRacingCopies ==
  \A t, u \in Threads :
    /\ pc[t] \in {"push_copy1", "push_copy2"}
    /\ pc[u] \in {"pop_copy1", "pop_copy2"}
    => wr_ind_ # rd_ind_

(* What a pop hands to its caller is one entry, never parts of two.        *)
PoppedWhole ==
  \A t \in Threads : pc[t] # "pop_copy2" => IsWhole(data[t])

(* The free chunk between the indices is never given up.                   *)
IndicesApart == wr_ind_ # rd_ind_

(* What the copies leave behind at each step: every chunk but the one a    *)
(* push may be writing is whole, and a copy in progress agrees with its    *)
(* source so far.                                                          *)
CopiesAgree ==
  /\ \A i \in Indices \ {wr_ind_} : IsWhole(chunks[i])
  /\ \A t \in Threads :
       /\ pc[t] = "push_copy2" => chunks[wr_ind_][1] = data[t][1]
       /\ pc[t] = "push_commit" => chunks[wr_ind_] = data[t]
       /\ pc[t] = "pop_copy2" => data[t][1] = chunks[rd_ind_][1]

(* The inductive invariant behind the theorems of MemFifoProofs.           *)
IInv ==
  /\ TypeOK
  /\ LocksHeld
  /\ IndicesApart /\ ChecksStayValid
  /\ PoppedWhole /\ CopiesAgree

(***************************************************************************)
(* Refinement of the bounded queue                                         *)
(***************************************************************************)
Count == (wr_ind_ + number_chunks_ - rd_ind_ - 1) % number_chunks_
Contents == [k \in 1 .. Count |-> chunks[(rd_ind_ + k) % number_chunks_]]

(* A push takes effect when it stores wr_ind_, a pop when it stores        *)
(* rd_ind_, a refused operation when it reads the other side's index.      *)
AbstractOp(t) ==
  CASE pc[t] = "idle" -> "idle"
    [] pc[t] \in PushPc \ {"push_unlock"} -> "push"
    [] pc[t] \in {"pop_lock", "pop_check", "pop_advance"} -> "pop"
    [] OTHER -> "return"

(* While a pop copies, its result is already the chunk it took.            *)
AbstractVal(t) ==
  IF pc[t] \in {"pop_copy1", "pop_copy2"} THEN chunks[rd_ind_] ELSE data[t]

AbstractOps == [t \in Threads |-> AbstractOp(t)]
AbstractVals == [t \in Threads |-> AbstractVal(t)]

Queue == INSTANCE BoundedQueue WITH
  Values <- {Whole(e) : e \in Entries},
  NoValue <- Whole(NoEntry),
  Capacity <- number_chunks_ - 2,
  q <- Contents,
  op <- AbstractOps,
  val <- AbstractVals,
  res <- ok

(* PushFIFO_MT and PopFIFO_MT implement the bounded queue: every operation *)
(* takes effect at one instant, entries leave in the order they entered,   *)
(* whole and once, a push fails only on number_chunks_ - 2 entries and a   *)
(* pop only on none.                                                       *)
ImplementsQueue == Queue!Spec
=============================================================================
