------------------------------- MODULE MemArea -------------------------------
(***************************************************************************)
(* The other services of CMemArea (rt_debug_cpp/src/i_cpp_sys_api.h),      *)
(* which work on the same two indices in place and without a copy:         *)
(*   "fifo"  AllocFIFO, PushFIFO, PopFIFO: one producer fills the chunk at *)
(*           wr_ind_, one consumer reads the chunk at rd_ind_;             *)
(*   "dual"  DualBufSwap: one writer, many readers of the latest chunk;    *)
(*   "pool"  AllocPoolChunk: chunks handed out in turn.  GetPrevChunk,     *)
(*           which changes nothing and is not called, is left out.         *)
(* An area is put to one of these uses.  No program of the repository      *)
(* calls the first two: who calls what is taken from the comments of the   *)
(* class.  The area lies in the mapping of module Lifecycle: MappingProofs *)
(* extends both, and the usual names have a prefix here.                   *)
(***************************************************************************)
EXTENDS Integers, Sequences

CONSTANTS
  Readers,             \* threads that read, or that allocate chunks
  Consumer,            \* the one that reads a FIFO
  NoThread,            \* owner of a free spinlock
  Sizes,               \* numbers of chunks to consider
  MaxValues            \* bound: values that are written, chunks handed out

ASSUME MemAreaAssumption ==
  /\ Consumer \in Readers /\ NoThread \notin Readers
  /\ Sizes \subseteq Nat \ {0, 1} /\ MaxValues \in Nat

VARIABLES
  use, number_chunks_,
  wr_ind_, rd_ind_, out_lock_,
  buf,          \* buf[i]: the two halves of chunk i, 0 before it was written
  writer,       \* pc, and the number of the value it writes or wrote last
  reader,       \* reader[r]: pc, its chunk, the parts it read, and pops when
                \* it began and since it began
  pushes, pops, \* history: moves of the two indices
  handed        \* history: chunks handed out, in order

area == <<use, number_chunks_>>
areaVars == <<area, wr_ind_, rd_ind_, out_lock_, buf, writer, reader, pushes, pops, handed>>

Indices == 0 .. number_chunks_ - 1

Whole(v) == [head |-> v, tail |-> v]

(* Setup, MemAlloc.                                                        *)
AreaInit ==
  /\ use \in {"fifo", "dual", "pool"} /\ number_chunks_ \in Sizes
  /\ rd_ind_ = 0 /\ wr_ind_ = 1 /\ out_lock_ = NoThread
  /\ buf = [i \in Indices |-> Whole(0)]
  /\ writer = [pc |-> "idle", val |-> 0]
  /\ reader = [r \in Readers |->
       [pc |-> "idle", ind |-> 0, head |-> 0, tail |-> 0, since |-> 0, laps |-> 0]]
  /\ pushes = 0 /\ pops = 0 /\ handed = << >>

(***************************************************************************)
(* Variants of definitions below that a plausible slip would give.         *)
(***************************************************************************)
NeverFull == FALSE
NeverEmpty == FALSE
IdleAfterPush == "idle"
AllocUnlocked(t) ==
  /\ use = "pool" /\ reader[t].pc = "idle" /\ Len(handed) < MaxValues
  /\ reader' = [reader EXCEPT ![t].pc = "alloc"]
  /\ UNCHANGED <<area, wr_ind_, rd_ind_, out_lock_, buf, writer, pushes, pops, handed>>

-----------------------------------------------------------------------------
NextInd(i) == (i + 1) % number_chunks_

WriterAt(from, to) == writer.pc = from /\ writer' = [writer EXCEPT !.pc = to]
ReaderAt(r, from, to) ==
  reader[r].pc = from /\ reader' = [reader EXCEPT ![r].pc = to]

(***************************************************************************)
(* The writer: it fills the chunk AllocFIFO gives it, then pushes          *)
(***************************************************************************)
FillHead ==
  /\ use # "pool"
  /\ writer.pc = "idle" /\ writer.val < MaxValues
  /\ writer' = [pc |-> "half", val |-> writer.val + 1]
  /\ buf' = [buf EXCEPT ![wr_ind_].head = writer.val + 1]
  /\ UNCHANGED <<area, wr_ind_, rd_ind_, out_lock_, reader, pushes, pops, handed>>

FillTail ==
  /\ WriterAt("half", "filled")
  /\ buf' = [buf EXCEPT ![wr_ind_].tail = writer.val]
  /\ UNCHANGED <<area, wr_ind_, rd_ind_, out_lock_, reader, pushes, pops, handed>>

Full == NextInd(wr_ind_) = rd_ind_
Empty == NextInd(rd_ind_) = wr_ind_

(* A variant: the producer goes on to its next value.                      *)
PushCheckGivesUp ==
  /\ WriterAt("filled", IF Full THEN "idle" ELSE "push")
  /\ UNCHANGED <<area, wr_ind_, rd_ind_, out_lock_, buf, reader, pushes, pops, handed>>

(* A refused push of the FIFO is tried again, one of DualBufSwap is not.   *)
PushCheck ==
  /\ \/ ~Full /\ WriterAt("filled", "push")
     \/ Full /\ use = "dual" /\ WriterAt("filled", "pop")
  /\ UNCHANGED <<area, wr_ind_, rd_ind_, out_lock_, buf, reader, pushes, pops, handed>>

AfterPush == IF use = "dual" THEN "pop" ELSE "idle"

PushFIFO ==
  /\ WriterAt("push", AfterPush)
  /\ wr_ind_' = NextInd(wr_ind_)
  /\ pushes' = pushes + 1
  /\ UNCHANGED <<area, rd_ind_, out_lock_, buf, reader, pops, handed>>

(* DualBufSwap pops after it pushed.                                       *)
SwapCheck ==
  /\ WriterAt("pop", IF Empty THEN "idle" ELSE "swap")
  /\ UNCHANGED <<area, wr_ind_, rd_ind_, out_lock_, buf, reader, pushes, pops, handed>>

DualBufSwap ==
  /\ WriterAt("swap", "idle")
  /\ rd_ind_' = NextInd(rd_ind_)
  /\ pops' = pops + 1
  /\ UNCHANGED <<area, wr_ind_, out_lock_, buf, reader, pushes, handed>>

-----------------------------------------------------------------------------
(***************************************************************************)
(* The consumer of a FIFO, and the readers of a dual buffer, read in place *)
(***************************************************************************)
PopCheck ==
  /\ use = "fifo"
  /\ ~Empty
  /\ ReaderAt(Consumer, "idle", "pop")
  /\ UNCHANGED <<area, wr_ind_, rd_ind_, out_lock_, buf, writer, pushes, pops, handed>>

PopFIFO ==
  /\ reader[Consumer].pc = "pop"
  /\ rd_ind_' = NextInd(rd_ind_)
  /\ reader' = [reader EXCEPT ![Consumer] = [@ EXCEPT !.pc = "read", !.ind = NextInd(rd_ind_)]]
  /\ pops' = pops + 1
  /\ UNCHANGED <<area, wr_ind_, out_lock_, buf, writer, pushes, handed>>

(* A variant: the reader looks up the chunk for each part.                 *)
ReadTailAfresh(r) ==
  /\ reader[r].pc = "half"
  /\ reader' = [reader EXCEPT ![r] =
       [@ EXCEPT !.pc = "idle", !.tail = buf[rd_ind_].tail, !.laps = pops - reader[r].since]]
  /\ UNCHANGED <<area, wr_ind_, rd_ind_, out_lock_, buf, writer, pushes, pops, handed>>

GetReadBufP(r) ==
  /\ use = "dual"
  /\ reader[r].pc = "idle"
  /\ reader' = [reader EXCEPT ![r] =
       [@ EXCEPT !.pc = "read", !.ind = rd_ind_, !.since = pops]]
  /\ UNCHANGED <<area, wr_ind_, rd_ind_, out_lock_, buf, writer, pushes, pops, handed>>

ReadHead(r) ==
  /\ reader[r].pc = "read"
  /\ reader' = [reader EXCEPT ![r] =
       [@ EXCEPT !.pc = "half", !.head = buf[reader[r].ind].head]]
  /\ UNCHANGED <<area, wr_ind_, rd_ind_, out_lock_, buf, writer, pushes, pops, handed>>

ReadTail(r) ==
  /\ reader[r].pc = "half"
  /\ reader' = [reader EXCEPT ![r] =
       [@ EXCEPT !.pc = "idle", !.tail = buf[reader[r].ind].tail,
                 !.laps = pops - reader[r].since]]
  /\ UNCHANGED <<area, wr_ind_, rd_ind_, out_lock_, buf, writer, pushes, pops, handed>>

-----------------------------------------------------------------------------
(***************************************************************************)
(* AllocPoolChunk, by any thread                                           *)
(***************************************************************************)
AllocLock(t) ==
  /\ use = "pool" /\ Len(handed) < MaxValues
  /\ out_lock_ = NoThread /\ out_lock_' = t
  /\ ReaderAt(t, "idle", "alloc")
  /\ UNCHANGED <<area, wr_ind_, rd_ind_, buf, writer, pushes, pops, handed>>

AllocAdvance(t) ==
  /\ ReaderAt(t, "alloc", "take")
  /\ wr_ind_' = NextInd(wr_ind_)
  /\ UNCHANGED <<area, rd_ind_, out_lock_, buf, writer, pushes, pops, handed>>

AllocTake(t) ==
  /\ ReaderAt(t, "take", "idle")
  /\ handed' = Append(handed, wr_ind_)
  /\ out_lock_' = NoThread
  /\ UNCHANGED <<area, wr_ind_, rd_ind_, buf, writer, pushes, pops>>

Write == FillHead \/ FillTail \/ PushCheck \/ PushFIFO \/ SwapCheck \/ DualBufSwap
Read(r) == GetReadBufP(r) \/ ReadHead(r) \/ ReadTail(r)
AllocPoolChunk(t) == AllocLock(t) \/ AllocAdvance(t) \/ AllocTake(t)

AreaNext ==
  \/ Write
  \/ PopCheck \/ PopFIFO
  \/ \E r \in Readers : Read(r) \/ AllocPoolChunk(r)

AreaSpec == AreaInit /\ [][AreaNext]_areaVars

(* The consumer of a FIFO polls it, and a push that is refused is retried. *)
FairAreaSpec ==
  /\ AreaSpec
  /\ WF_areaVars(FillTail \/ PushCheck \/ PushFIFO)
  /\ WF_areaVars(PopCheck \/ PopFIFO \/ Read(Consumer))

-----------------------------------------------------------------------------
Chunks == [head : Nat, tail : Nat]
Writers == [pc : {"idle", "half", "filled", "push", "pop", "swap"}, val : Nat]
ReaderStates ==
  [pc : {"idle", "pop", "read", "half", "alloc", "take"}, ind : Indices,
   head : Nat, tail : Nat, since : Nat, laps : Nat]

(* Types of the variables.                                                 *)
AreaTypeOK ==
  /\ use \in {"fifo", "dual", "pool"} /\ number_chunks_ \in Sizes
  /\ wr_ind_ \in Indices /\ rd_ind_ \in Indices
  /\ out_lock_ \in Readers \cup {NoThread}
  /\ buf \in [Indices -> Chunks]
  /\ writer \in Writers
  /\ reader \in [Readers -> ReaderStates]
  /\ pushes \in Nat /\ pops \in Nat
  /\ handed \in Seq(Indices)

(* The consumer reads each value once, whole and in the order they were    *)
(* written, from the chunk itself while the producer fills others.         *)
ReadsInOrder ==
  use = "fifo" =>
    LET c == reader[Consumer] IN
    /\ c.pc = "half" => c.head = pops
    /\ c.pc = "idle" => c.head = pops /\ c.tail = pops

(* Producer and consumer are never in the same chunk.                      *)
ChunksApart ==
  /\ wr_ind_ # rd_ind_ \/ use = "pool"
  /\ use = "fifo" /\ reader[Consumer].pc \in {"read", "half"} =>
       reader[Consumer].ind # wr_ind_

(* A reader of a dual buffer gets, whole, what was the latest when it      *)
(* began, unless the writer swapped number_chunks_ - 1 times meanwhile.    *)
ReadsPublished ==
  use = "dual" =>
    \A r \in Readers :
      reader[r].pc = "idle" /\ reader[r].laps < number_chunks_ - 1 =>
        reader[r].head = reader[r].since /\ reader[r].tail = reader[r].since

(* A swap makes what was written the latest, with three chunks or more.    *)
(* With two, the size of a double buffer, it should as well, but one chunk *)
(* is always kept free for the FIFO and no swap ever happens.              *)
SwapPublishes ==
  use = "dual" /\ number_chunks_ > 2 /\ writer.pc = "idle" =>
    buf[rd_ind_] = Whole(writer.val)

(* A chunk is not handed out again before all others were.                 *)
HandedInTurn ==
  \A j, k \in DOMAIN handed :
    j < k /\ k < j + number_chunks_ => handed[j] # handed[k]

(* What was written is pushed, however full the FIFO is, and read in the   *)
(* end, if the consumer keeps polling; two chunks hold nothing.            *)
FifoDrains ==
  \A v \in 1 .. MaxValues :
    (use = "fifo" /\ number_chunks_ > 2 /\ writer.val = v /\ writer.pc = "filled") ~>
      (reader[Consumer].tail >= v)
=============================================================================
