--------------------------- MODULE MappingProofs ----------------------------
(***************************************************************************)
(* Proofs about the mapping of the shared file: its life in a process      *)
(* (module Lifecycle), for every set of workers and addresses and every    *)
(* bound, and the areas of chunks that are laid out in it (module          *)
(* MemArea), for every number of threads, of values and of chunks from 2.  *)
(***************************************************************************)
EXTENDS Lifecycle, MemArea, FiniteSetTheorems, TLAPS

(***************************************************************************)
(* The inductive invariant                                                 *)
(***************************************************************************)

(* Types, with no bound on the counter: that it stays in TypeOK's needs    *)
(* the account of increments below.                                        *)
Files == [size : {"none", "empty", "full"}, active_ : BOOLEAN,
          registered : BOOLEAN, val : Int]
Handlers == [status_ : {"INIT", "PRODUCER", "CONSUMER", "STOPPED"},
             mem_attached_ : BOOLEAN, rt_debugp_ : Addresses \cup {NULL},
             mmapFd_ : Descriptors \cup {-1}, event_cnt : Addresses \cup {NULL}]
States == [pc : {"idle", "inside", "loaded"},
           watch_dog : Addresses \cup {NULL}, tmp : Int]
Usages == [starts : Nat, runs : Nat, failures : Nat, increments : Nat]
Histories == [checked : SUBSET Workers, pointed : SUBSET Workers,
              misused : BOOLEAN, foreign : BOOLEAN, short : BOOLEAN,
              stopped : BOOLEAN, stored : Nat, overlapped : BOOLEAN]

Typed ==
  /\ file \in Files
  /\ mapped \subseteq Addresses /\ appMapped \subseteq Addresses
  /\ fds \in [Descriptors -> {"free", "app", "lib"}]
  /\ handler \in Handlers
  /\ main \in {"idle", "open", "size", "map", "init", "start", "register",
               "started", "extract", "unmap"}
  /\ create \in BOOLEAN
  /\ worker \in [Workers -> States]
  /\ death \in {"none", "assert", "bus", "init", "call", "untested", "group",
                "counter", "fopen", "status"}
  /\ victim \in Workers \cup {NULL}
  /\ used \in Usages
  /\ hist \in Histories

(* What is mapped and open at each point of the main thread.               *)
Held ==
  /\ main \in {"open", "size", "map"} => ~handler.mem_attached_
  /\ main \in {"init", "extract"} => handler.mem_attached_
  /\ main = "unmap" => ~handler.mem_attached_
  /\ handler.mem_attached_ =>
       /\ mapped = {handler.rt_debugp_}
       /\ handler.mmapFd_ \in Descriptors /\ LibFds = {handler.mmapFd_}
  /\ ~handler.mem_attached_ /\ main # "unmap" => mapped = {}
  /\ ~handler.mem_attached_ /\ main \notin {"size", "map", "unmap"} => LibFds = {}
  /\ main \in {"size", "map"} =>
       handler.mmapFd_ \in Descriptors /\ LibFds = {handler.mmapFd_}
  /\ main = "unmap" =>
       \/ /\ mapped = {handler.rt_debugp_}
          /\ handler.mmapFd_ \in Descriptors /\ LibFds = {handler.mmapFd_}
       \/ mapped = {} /\ LibFds = {} /\ hist.misused
  /\ mapped \cap appMapped = {}

(* The file has pages wherever it is mapped, unless ftruncate failed, and  *)
(* a group but for the window of Registering.                              *)
Paged ==
  /\ mapped # {} => file.size = "full" \/ (file.size = "empty" /\ hist.short)
  /\ main = "map" => file.size = "full" \/ (file.size = "empty" /\ hist.short)
  /\ main = "open" /\ create => file.size = "none"
  /\ main = "size" /\ create => file.size = "empty"
  /\ mapped # {} /\ ~Registering => file.registered

(* A call past its test, and a pointer of a complete start, have a mapping *)
(* behind them until RTDBG_Close.                                          *)
Trusting ==
  /\ hist.checked # {} => handler.mem_attached_
  /\ hist.pointed # {} => handler.mem_attached_ /\ ~Registering
  /\ handler.mem_attached_ /\ ~Registering =>
       handler.event_cnt = handler.rt_debugp_
  /\ \A t \in hist.pointed : worker[t].watch_dog = handler.rt_debugp_
  /\ hist.stopped => handler.status_ # "PRODUCER"

Loading == {t \in Workers : worker[t].pc = "loaded"}

(* A counter is reached only once it is registered, its file is made only  *)
(* once, and what workers have loaded is no more than what was stored.     *)
Counted ==
  /\ ~file.registered =>
       file.val <= 0 /\ hist.stored = 0 /\ handler.event_cnt = NULL
  /\ \A t \in Workers : worker[t].watch_dog # NULL => file.registered
  /\ file.size = "none" => ~file.registered
  /\ main = "init" => create
  /\ create /\ main \in {"open", "size", "map", "init"} => ~file.registered
  /\ file.val >= -1 /\ \A t \in Workers : worker[t].tmp >= -1
  /\ \A t \in Loading :
       /\ worker[t].watch_dog # NULL
       /\ worker[t].tmp <= hist.stored - 1
       /\ ~hist.overlapped => worker[t].tmp = file.val /\ Loading = {t}
  /\ \A t \in Workers \ Loading : worker[t].tmp = 0

(* Every increment that was begun is stored, under way or lost.            *)
Begun ==
  /\ IsFiniteSet(Loading)
  /\ hist.stored + Cardinality(Loading) <= used.increments
  /\ used.increments <= MaxIncrements

IInv ==
  /\ Typed /\ Held /\ DescriptorsKept /\ Paged /\ Trusting
  /\ FaultsExplained /\ ExtractionAllowed
  /\ Counted /\ CounterExact /\ Begun

-----------------------------------------------------------------------------
(* Updates of the model stay in these types.                               *)
LEMMA FilesKept ==
  ASSUME file \in Files
  PROVE  /\ file.val \in Int
         /\ \A s \in {"none", "empty", "full"} : [file EXCEPT !.size = s] \in Files
         /\ \A a \in BOOLEAN : [file EXCEPT !.active_ = a] \in Files
         /\ \A n \in Int : [file EXCEPT !.val = n] \in Files
         /\ \A r \in BOOLEAN, n \in Int :
              [file EXCEPT !.registered = r, !.val = n] \in Files
         /\ \A a \in BOOLEAN, r \in BOOLEAN, n \in Int :
              [file EXCEPT !.active_ = a, !.registered = r, !.val = n] \in Files
BY DEF Files

LEMMA HistoriesKept ==
  ASSUME hist \in Histories
  PROVE  /\ \A t \in Workers :
              /\ [hist EXCEPT !.checked = @ \cup {t}] \in Histories
              /\ [hist EXCEPT !.checked = @ \ {t}] \in Histories
              /\ [hist EXCEPT !.pointed = @ \cup {t}] \in Histories
              /\ [hist EXCEPT !.pointed = @ \ {t}] \in Histories
         /\ \A b \in BOOLEAN :
              /\ [hist EXCEPT !.foreign = b] \in Histories
              /\ [hist EXCEPT !.short = b] \in Histories
              /\ [hist EXCEPT !.stopped = b] \in Histories
              /\ [hist EXCEPT !.overlapped = b] \in Histories
              /\ [hist EXCEPT !.checked = {}, !.pointed = {}, !.misused = b] \in Histories
         /\ [hist EXCEPT !.stored = @ + 1] \in Histories
<1>1. \A t \in Workers :
        /\ [hist EXCEPT !.checked = @ \cup {t}] \in Histories
        /\ [hist EXCEPT !.checked = @ \ {t}] \in Histories
  BY DEF Histories
<1>2. \A t \in Workers :
        /\ [hist EXCEPT !.pointed = @ \cup {t}] \in Histories
        /\ [hist EXCEPT !.pointed = @ \ {t}] \in Histories
  BY DEF Histories
<1>3. \A b \in BOOLEAN :
        /\ [hist EXCEPT !.foreign = b] \in Histories
        /\ [hist EXCEPT !.short = b] \in Histories
        /\ [hist EXCEPT !.stopped = b] \in Histories
        /\ [hist EXCEPT !.overlapped = b] \in Histories
  BY DEF Histories
<1>4. \A b \in BOOLEAN :
        [hist EXCEPT !.checked = {}, !.pointed = {}, !.misused = b] \in Histories
  BY DEF Histories
<1>5. [hist EXCEPT !.stored = @ + 1] \in Histories
  BY DEF Histories
<1>6. QED
  BY <1>1, <1>2, <1>3, <1>4, <1>5

(* Every step keeps the types.                                             *)
LEMMA TypedAlways == Spec => []Typed
<1> USE LifecycleAssumption
<1>1. Init => Typed
  <2> SUFFICES ASSUME Init PROVE Typed
    OBVIOUS
  <2>1. file \in Files
    BY DEF Init, Files
  <2>2. fds \in [Descriptors -> {"free", "app", "lib"}]
    BY DEF Init, NoFds, Descriptors
  <2>3. handler \in Handlers
    BY DEF Init, NoHandler, Handlers, Descriptors
  <2>4. worker \in [Workers -> States]
    BY DEF Init, NoWork, States
  <2>5. used \in Usages
    BY DEF Init, Usages
  <2>6. hist \in Histories
    BY DEF Init, NoHistory, Histories
  <2>7. QED
    BY <2>1, <2>2, <2>3, <2>4, <2>5, <2>6 DEF Init, Typed
<1>2. Typed /\ [Next]_vars => Typed'
  <2> SUFFICES ASSUME Typed, [Next]_vars
               PROVE  Typed'
    OBVIOUS
  <2> USE DEF Typed
  <2>1. CASE Alive /\ RT_debug_init
    BY <2>1 DEF RT_debug_init, Die, Usages
  <2>2. CASE Alive /\ Open
    <3>1. file' \in Files
      BY <2>2, FilesKept DEF Open
    <3>2. handler' \in Handlers
      BY <2>2 DEF Open, Handlers
    <3>3. fds' \in [Descriptors -> {"free", "app", "lib"}]
      BY <2>2 DEF Open
    <3>4. used' \in Usages
      BY <2>2 DEF Open, Fail, Usages
    <3>5. QED
      BY <2>2, <3>1, <3>2, <3>3, <3>4 DEF Open, Onward
  <2>3. CASE Alive /\ SetSize
    <3>1. file' \in Files
      BY <2>3, FilesKept DEF SetSize
    <3>2. hist' \in Histories
      BY <2>3, HistoriesKept DEF SetSize
    <3>3. used' \in Usages
      BY <2>3 DEF SetSize, GiveUp, Fail, Usages
    <3>4. fds' \in [Descriptors -> {"free", "app", "lib"}]
      BY <2>3 DEF SetSize, GiveUp, CloseFd
    <3>5. QED
      BY <2>3, <3>1, <3>2, <3>3, <3>4 DEF SetSize, GiveUp, Onward
  <2>4. CASE Alive /\ CheckSize
    BY <2>4 DEF CheckSize, Fail, GiveUp, CloseFd, Onward, Usages
  <2>5. CASE Alive /\ Map
    <3>1. handler' \in Handlers
      <4>1. handler \in Handlers
        OBVIOUS
      <4>2. \A a \in Addresses : Mapped(a) \in Handlers
        BY <4>1 DEF Mapped, Handlers
      <4>3. QED
        BY <2>5, <4>2 DEF Map, GiveUp
    <3>2. hist' \in Histories
      BY <2>5, HistoriesKept DEF Map
    <3>3. used' \in Usages
      BY <2>5 DEF Map, GiveUp, Fail, Usages
    <3>4. fds' \in [Descriptors -> {"free", "app", "lib"}]
      BY <2>5 DEF Map, GiveUp, CloseFd
    <3>5. QED
      BY <2>5, <3>1, <3>2, <3>3, <3>4 DEF Map, GiveUp, Onward
  <2>6. CASE Alive /\ RTDBG_Init
    <3>1. file' \in Files
      <4>1. -1 \in Int
        OBVIOUS
      <4>2. [file EXCEPT !.active_ = FALSE, !.registered = FALSE, !.val = -1] \in Files
        BY <4>1, FilesKept, Zenon
      <4>3. QED
        BY <2>6, <4>2, Zenon DEF RTDBG_Init
    <3>2. main' \in {main, "start"}
      BY <2>6 DEF RTDBG_Init
    <3>3. death' \in {death, "bus", "init"} /\ victim' \in {victim, NULL}
      BY <2>6 DEF RTDBG_Init, DieOfAccess, Die
    <3>4. QED
      BY <2>6, <3>1, <3>2, <3>3 DEF RTDBG_Init
  <2>7. CASE Alive /\ Register
    <3>1. file' \in Files
      <4>1. WithCounter \in Files
        <5>1. -1 \in Int
          OBVIOUS
        <5>2. CASE file.registered
          BY <5>2, FilesKept, Zenon DEF WithCounter
        <5>3. CASE ~file.registered
          BY <5>1, <5>3, FilesKept, Zenon DEF WithCounter
        <5>4. QED
          BY <5>2, <5>3
      <4>2. QED
        BY <2>7, <4>1 DEF Register
    <3>2. handler' \in Handlers
      BY <2>7 DEF Register, Handlers
    <3>3. QED
      BY <2>7, <3>1, <3>2 DEF Register
  <2>8. CASE Alive /\ Activate
    <3>1. file' \in Files
      <4>1. file.active_ \/ handler.mem_attached_ \in BOOLEAN
        BY DEF Files, Handlers
      <4>2. QED
        BY <2>8, <4>1, FilesKept DEF Activate
    <3>2. QED
      BY <2>8, <3>1 DEF Activate
  <2>9. CASE Alive /\ RTDBG_Start
    BY <2>9, FilesKept DEF RTDBG_Start, process
  <2>10. CASE Alive /\ RTDBG_Stop
    BY <2>10, FilesKept, HistoriesKept DEF RTDBG_Stop, Stop, Handlers
  <2>11. CASE Alive /\ ExtractDebugData
    BY <2>11, FilesKept, HistoriesKept, ZenonT(30)
    DEF ExtractDebugData, Stop, Handlers
  <2>12. CASE Alive /\ Extract
    BY <2>12 DEF Extract, Fail, Die, Usages
  <2>13. CASE Alive /\ RTDBG_Close
    BY <2>13, HistoriesKept DEF RTDBG_Close, Handlers
  <2>14. CASE Alive /\ Unmap
    BY <2>14, HistoriesKept DEF Unmap, CloseFd
  <2>15. CASE Alive /\ AppOpen
    BY <2>15 DEF AppOpen
  <2>16. CASE Alive /\ AppMap
    BY <2>16 DEF AppMap
  <2>17. ASSUME NEW t \in Workers, Alive, Call(t) PROVE Typed'
    BY <2>17, HistoriesKept DEF Call, Move, States
  <2>18. ASSUME NEW t \in Workers, Alive, IsDataCollected(t) PROVE Typed'
    BY <2>18, HistoriesKept DEF IsDataCollected, Move, States
  <2>19. ASSUME NEW t \in Workers, Alive, GetDebugGrp(t) PROVE Typed'
    <3>1. CASE Readable(handler.rt_debugp_) /\ file.registered
      <4>1. /\ worker' = [worker EXCEPT ![t].pc = "idle"]
            /\ hist' = [hist EXCEPT !.checked = @ \ {t}]
            /\ UNCHANGED <<file, mapped, appMapped, fds, handler, main, create,
                           death, victim, used>>
        BY <2>19, <3>1 DEF GetDebugGrp, Move
      <4>2. worker' \in [Workers -> States]
        BY <4>1 DEF States
      <4>3. hist' \in Histories
        BY <4>1, HistoriesKept
      <4>4. QED
        BY <4>1, <4>2, <4>3
    <3>2. CASE ~(Readable(handler.rt_debugp_) /\ file.registered)
      <4>1. UNCHANGED <<file, mapped, appMapped, fds, handler, main, create,
                        worker, used, hist>>
        BY <2>19, <3>2 DEF GetDebugGrp
      <4>2. DieInGroup("call", t)
        BY <2>19, <3>2 DEF GetDebugGrp
      <4>3. death' \in {"bus", "call", "group"} /\ victim' = t
        BY <4>2 DEF DieInGroup, DieOfAccess, Die
      <4>4. QED
        BY <4>1, <4>3
    <3>3. QED
      BY <3>1, <3>2
  <2>20. ASSUME NEW t \in Workers, Alive, CallUntested(t) PROVE Typed'
    BY <2>20 DEF CallUntested, DieInGroup, DieOfAccess, Die, Handlers
  <2>21. ASSUME NEW t \in Workers, Alive, TakePointer(t) PROVE Typed'
    <3>1. worker' \in [Workers -> States]
      BY <2>21 DEF TakePointer, States, Handlers
    <3>2. hist' \in Histories
      BY <2>21, HistoriesKept DEF TakePointer
    <3>3. QED
      BY <2>21, <3>1, <3>2 DEF TakePointer
  <2>22. ASSUME NEW t \in Workers, Alive, Load(t) PROVE Typed'
    <3>1. worker' \in [Workers -> States]
      <4>1. \A n \in Int : [worker EXCEPT ![t].pc = "loaded", ![t].tmp = n]
                          \in [Workers -> States]
        BY DEF States
      <4>2. QED
        BY <2>22, <4>1, FilesKept, Zenon DEF Load
    <3>2. hist' \in Histories
      BY <2>22, HistoriesKept, Zenon DEF Load
    <3>3. used' \in Usages
      BY <2>22 DEF Load, Usages
    <3>4. death' \in {death, "bus", "counter"} /\ victim' \in {victim, t}
      BY <2>22 DEF Load, DieOfAccess, Die
    <3>5. QED
      BY <2>22, <3>1, <3>2, <3>3, <3>4 DEF Load
  <2>23. ASSUME NEW t \in Workers, Alive, Store(t) PROVE Typed'
    <3>1. worker[t].tmp + 1 \in Int
      BY DEF States
    <3>2. file' \in Files
      BY <2>23, <3>1, FilesKept DEF Store
    <3>3. worker' \in [Workers -> States]
      BY <2>23 DEF Store, States
    <3>4. hist' \in Histories
      BY <2>23, HistoriesKept DEF Store
    <3>5. death' \in {death, "bus", "counter"} /\ victim' \in {victim, t}
      BY <2>23 DEF Store, DieOfAccess, Die
    <3>6. QED
      BY <2>23, <3>2, <3>3, <3>4, <3>5 DEF Store
  <2>24. CASE RunAgain
    <3>1. handler' \in Handlers
      BY <2>24 DEF RunAgain, NoHandler, Handlers, Descriptors
    <3>2. worker' \in [Workers -> States]
      BY <2>24 DEF RunAgain, NoWork, States
    <3>3. fds' \in [Descriptors -> {"free", "app", "lib"}]
      BY <2>24 DEF RunAgain, NoFds
    <3>4. used' \in Usages
      BY <2>24 DEF RunAgain, Usages
    <3>5. hist' \in Histories
      BY <2>24 DEF RunAgain, NoHistory, Histories
    <3>6. QED
      BY <2>24, <3>1, <3>2, <3>3, <3>4, <3>5 DEF RunAgain
  <2>25. CASE UNCHANGED vars
    BY <2>25 DEF vars
  <2>26. QED
    BY <2>1, <2>2, <2>3, <2>4, <2>5, <2>6, <2>7, <2>8, <2>9, <2>10, <2>11,
       <2>12, <2>13, <2>14, <2>15, <2>16, <2>17, <2>18, <2>19, <2>20, <2>21,
       <2>22, <2>23, <2>24, <2>25
    DEF Next, Starting, MainCall, WorkThread
<1>3. QED
  BY <1>1, <1>2, PTL DEF Spec

-----------------------------------------------------------------------------
(* Every step keeps hold of what is mapped and open.                       *)
LEMMA HeldAlways == Spec => [](Held /\ DescriptorsKept)
<1> USE LifecycleAssumption
<1> DEFINE Inv == Held /\ DescriptorsKept
<1>1. Init => Inv
  BY DEF Init, Held, DescriptorsKept, LibFds, NoFds, NoHandler, NoHistory,
         Descriptors
<1>2. Typed /\ Inv /\ [Next]_vars => Inv'
  <2> SUFFICES ASSUME Typed, Inv, [Next]_vars
               PROVE  Inv'
    OBVIOUS
  <2> USE DEF Typed, Held, DescriptorsKept, LibFds, Handlers, Histories
  <2>1. CASE Alive /\ RT_debug_init
    BY <2>1 DEF RT_debug_init, Die
  <2>2. CASE Alive /\ Open
    BY <2>2 DEF Open, Fail, Onward, FreeFd
  <2>3. CASE Alive /\ SetSize
    BY <2>3 DEF SetSize, Fail, GiveUp, CloseFd, Onward
  <2>4. CASE Alive /\ CheckSize
    BY <2>4 DEF CheckSize, Fail, GiveUp, CloseFd, Onward
  <2>5. CASE Alive /\ Map
    <3>1. CASE GiveUp /\ UNCHANGED <<mapped, hist>>
      BY <2>5, <3>1 DEF Map, Fail, GiveUp, CloseFd, Onward
    <3>2. ASSUME NEW a \in Addresses, mapped' = mapped \cup {a}, handler' = Mapped(a),
                 main' = IF create THEN "init" ELSE "register",
                 hist' = [hist EXCEPT !.stopped = FALSE], UNCHANGED fds
          PROVE  Inv'
      <4>1. mapped = {} /\ a \notin appMapped /\ UNCHANGED appMapped /\ main = "map"
        <5>1. UNCHANGED appMapped /\ main = "map" /\ a \notin appMapped
          BY <2>5, <3>2 DEF Map, GiveUp
        <5>2. QED
          BY <5>1
      <4>2. mapped' = {a} /\ mapped' \cap appMapped' = {}
        BY <3>2, <4>1
      <4>3. handler'.rt_debugp_ = a /\ handler'.mem_attached_ = TRUE
            /\ handler'.mmapFd_ = handler.mmapFd_
        BY <3>2 DEF Mapped
      <4>4. hist'.misused = hist.misused /\ hist'.foreign = hist.foreign
        BY <3>2
      <4>5. QED
        BY <3>2, <4>1, <4>2, <4>3, <4>4
    <3>3. QED
      BY <2>5, <3>1, <3>2 DEF Map
  <2>6. CASE Alive /\ RTDBG_Init
    BY <2>6 DEF RTDBG_Init, DieOfAccess, Die
  <2>7. CASE Alive /\ Register
    BY <2>7 DEF Register, WithCounter
  <2>8. CASE Alive /\ Activate
    BY <2>8 DEF Activate
  <2>9. CASE Alive /\ RTDBG_Start
    BY <2>9 DEF RTDBG_Start, process
  <2>10. CASE Alive /\ RTDBG_Stop
    BY <2>10 DEF RTDBG_Stop, Stop
  <2>11. CASE Alive /\ ExtractDebugData
    BY <2>11 DEF ExtractDebugData, Stop
  <2>12. CASE Alive /\ Extract
    BY <2>12 DEF Extract, Fail, Die
  <2>13. CASE Alive /\ RTDBG_Close
    BY <2>13 DEF RTDBG_Close
  <2>14. CASE Alive /\ Unmap
    BY <2>14 DEF Unmap, CloseFd
  <2>15. CASE Alive /\ AppOpen
    BY <2>15 DEF AppOpen, FreeFd
  <2>16. CASE Alive /\ AppMap
    BY <2>16 DEF AppMap
  <2>17. ASSUME NEW t \in Workers, Alive, Call(t) PROVE Inv'
    BY <2>17 DEF Call, Move
  <2>18. ASSUME NEW t \in Workers, Alive, IsDataCollected(t) PROVE Inv'
    BY <2>18 DEF IsDataCollected, Move
  <2>19. ASSUME NEW t \in Workers, Alive, GetDebugGrp(t) PROVE Inv'
    BY <2>19 DEF GetDebugGrp, DieInGroup, Move, DieOfAccess, Die
  <2>20. ASSUME NEW t \in Workers, Alive, CallUntested(t) PROVE Inv'
    BY <2>20 DEF CallUntested, DieInGroup, DieOfAccess, Die
  <2>21. ASSUME NEW t \in Workers, Alive, TakePointer(t) PROVE Inv'
    BY <2>21 DEF TakePointer
  <2>22. ASSUME NEW t \in Workers, Alive, Load(t) PROVE Inv'
    BY <2>22 DEF Load, DieOfAccess, Die
  <2>23. ASSUME NEW t \in Workers, Alive, Store(t) PROVE Inv'
    BY <2>23 DEF Store, DieOfAccess, Die
  <2>24. CASE RunAgain
    BY <2>24 DEF RunAgain, NoFds, NoHandler, NoWork, NoHistory
  <2>25. CASE UNCHANGED vars
    BY <2>25 DEF vars
  <2>26. QED
    BY <2>1, <2>2, <2>3, <2>4, <2>5, <2>6, <2>7, <2>8, <2>9, <2>10, <2>11,
       <2>12, <2>13, <2>14, <2>15, <2>16, <2>17, <2>18, <2>19, <2>20, <2>21,
       <2>22, <2>23, <2>24, <2>25
    DEF Next, Starting, MainCall, WorkThread
<1>3. QED
  BY <1>1, <1>2, TypedAlways, PTL DEF Spec

(* A mapping has pages and what relies on it has one, unless ftruncate     *)
(* failed.                                                                 *)
LEMMA TrustingAlways == Spec => [](Paged /\ Trusting)
<1> USE LifecycleAssumption
<1> DEFINE Inv == Paged /\ Trusting
<1>1. Init => Inv
  BY DEF Init, Paged, Trusting, NoHandler, NoHistory
<1>2. Typed /\ Held /\ Inv /\ [Next]_vars => Inv'
  <2> SUFFICES ASSUME Typed, Held, Inv, [Next]_vars
               PROVE  Inv'
    OBVIOUS
  <2> USE DEF Typed, Held, Paged, Trusting, Registering, Files, Handlers, States,
              Histories
  <2>1. CASE Alive /\ RT_debug_init
    BY <2>1 DEF RT_debug_init, Die
  <2>2. CASE Alive /\ Open
    BY <2>2 DEF Open, Fail, Onward, FreeFd
  <2>3. CASE Alive /\ SetSize
    <3>1. Paged'
      BY <2>3 DEF SetSize, GiveUp, Onward
    <3>2. Trusting'
      BY <2>3 DEF SetSize, GiveUp, Onward
    <3>3. QED
      BY <3>1, <3>2
  <2>4. CASE Alive /\ CheckSize
    BY <2>4 DEF CheckSize, Fail, GiveUp, CloseFd, Onward
  <2>5. CASE Alive /\ Map
    BY <2>5 DEF Map, Mapped, Fail, GiveUp, CloseFd, Onward
  <2>6. CASE Alive /\ RTDBG_Init
    BY <2>6, ZenonT(30) DEF RTDBG_Init, DieOfAccess, Die
  <2>7. CASE Alive /\ Register
    <3>1. file'.size = file.size
      BY <2>7 DEF Register, WithCounter
    <3>2. handler.mem_attached_ => file'.registered
      BY <2>7 DEF Register, WithCounter
    <3>3. QED
      BY <2>7, <3>1, <3>2 DEF Register
  <2>8. CASE Alive /\ Activate
    BY <2>8 DEF Activate
  <2>9. CASE Alive /\ RTDBG_Start
    BY <2>9 DEF RTDBG_Start, process
  <2>10. CASE Alive /\ RTDBG_Stop
    BY <2>10 DEF RTDBG_Stop, Stop
  <2>11. CASE Alive /\ ExtractDebugData
    BY <2>11 DEF ExtractDebugData, Stop
  <2>12. CASE Alive /\ Extract
    BY <2>12 DEF Extract, Fail, Die
  <2>13. CASE Alive /\ RTDBG_Close
    BY <2>13 DEF RTDBG_Close
  <2>14. CASE Alive /\ Unmap
    BY <2>14 DEF Unmap, CloseFd
  <2>15. CASE Alive /\ AppOpen
    BY <2>15 DEF AppOpen, FreeFd
  <2>16. CASE Alive /\ AppMap
    BY <2>16 DEF AppMap
  <2>17. ASSUME NEW t \in Workers, Alive, Call(t) PROVE Inv'
    BY <2>17 DEF Call, Move
  <2>18. ASSUME NEW t \in Workers, Alive, IsDataCollected(t) PROVE Inv'
    BY <2>18 DEF IsDataCollected, Move
  <2>19. ASSUME NEW t \in Workers, Alive, GetDebugGrp(t) PROVE Inv'
    BY <2>19 DEF GetDebugGrp, DieInGroup, Move, DieOfAccess, Die
  <2>20. ASSUME NEW t \in Workers, Alive, CallUntested(t) PROVE Inv'
    BY <2>20 DEF CallUntested, DieInGroup, DieOfAccess, Die
  <2>21. ASSUME NEW t \in Workers, Alive, TakePointer(t) PROVE Inv'
    BY <2>21 DEF TakePointer
  <2>22. ASSUME NEW t \in Workers, Alive, Load(t) PROVE Inv'
    <3>1. UNCHANGED <<handler, main, mapped, file, create>>
      BY <2>22 DEF Load
    <3>2. /\ hist'.checked = hist.checked /\ hist'.pointed = hist.pointed
          /\ hist'.stopped = hist.stopped /\ hist'.short = hist.short
      <4>1. PICK b : hist' = hist \/ hist' = [hist EXCEPT !.overlapped = b]
        BY <2>22 DEF Load
      <4> QED BY <4>1
    <3>3. \A u \in Workers : worker'[u].watch_dog = worker[u].watch_dog
      <4>1. worker' = worker \/ worker' = [worker EXCEPT ![t].pc = "loaded", ![t].tmp = file.val]
        BY <2>22 DEF Load
      <4> QED BY <4>1
    <3> QED BY <3>1, <3>2, <3>3
  <2>23. ASSUME NEW t \in Workers, Alive, Store(t) PROVE Inv'
    <3>1. UNCHANGED <<handler, main, mapped, create>>
      BY <2>23 DEF Store
    <3>2. file'.size = file.size /\ file'.registered = file.registered
      BY <2>23 DEF Store
    <3>3. /\ hist'.checked = hist.checked /\ hist'.pointed = hist.pointed
          /\ hist'.stopped = hist.stopped /\ hist'.short = hist.short
      BY <2>23 DEF Store
    <3>4. \A u \in Workers : worker'[u].watch_dog = worker[u].watch_dog
      BY <2>23 DEF Store
    <3>5. QED
      BY <3>1, <3>2, <3>3, <3>4
  <2>24. CASE RunAgain
    BY <2>24 DEF RunAgain, NoFds, NoHandler, NoWork, NoHistory
  <2>25. CASE UNCHANGED vars
    BY <2>25 DEF vars
  <2>26. QED
    BY <2>1, <2>2, <2>3, <2>4, <2>5, <2>6, <2>7, <2>8, <2>9, <2>10, <2>11,
       <2>12, <2>13, <2>14, <2>15, <2>16, <2>17, <2>18, <2>19, <2>20, <2>21,
       <2>22, <2>23, <2>24, <2>25
    DEF Next, Starting, MainCall, WorkThread
<1>3. QED
  BY <1>1, <1>2, TypedAlways, HeldAlways, PTL DEF Spec

(* A death leaves the evidence that explains it.                           *)
LEMMA Explained == Spec => [](FaultsExplained /\ ExtractionAllowed)
<1> USE LifecycleAssumption
<1> DEFINE Inv == FaultsExplained /\ ExtractionAllowed
<1>1. Init => Inv
  BY DEF Init, FaultsExplained, ExtractionAllowed
<1>2. Typed /\ Held /\ Paged /\ Trusting /\ Inv /\ [Next]_vars => Inv'
  <2> SUFFICES ASSUME Typed, Held, Paged, Trusting, Inv, [Next]_vars
               PROVE  Inv'
    OBVIOUS
  <2> USE DEF Typed, Held, Paged, Trusting, Registering, FaultsExplained,
              ExtractionAllowed, Alive, Readable
  <2>1. CASE Alive /\ RT_debug_init
    BY <2>1 DEF RT_debug_init, Die
  <2>2. CASE Alive /\ Open
    BY <2>2 DEF Open, Fail, Onward, FreeFd
  <2>3. CASE Alive /\ SetSize
    BY <2>3 DEF SetSize, Fail, GiveUp, CloseFd, Onward
  <2>4. CASE Alive /\ CheckSize
    BY <2>4 DEF CheckSize, Fail, GiveUp, CloseFd, Onward
  <2>5. CASE Alive /\ Map
    BY <2>5 DEF Map, Mapped, Fail, GiveUp, CloseFd, Onward
  <2>6. CASE Alive /\ RTDBG_Init
    BY <2>6 DEF RTDBG_Init, DieOfAccess, Die
  <2>7. CASE Alive /\ Register
    BY <2>7 DEF Register, WithCounter
  <2>8. CASE Alive /\ Activate
    BY <2>8 DEF Activate
  <2>9. CASE Alive /\ RTDBG_Start
    BY <2>9 DEF RTDBG_Start, process
  <2>10. CASE Alive /\ RTDBG_Stop
    BY <2>10 DEF RTDBG_Stop, Stop
  <2>11. CASE Alive /\ ExtractDebugData
    BY <2>11 DEF ExtractDebugData, Stop
  <2>12. CASE Alive /\ Extract
    BY <2>12 DEF Extract, Fail, Die
  <2>13. CASE Alive /\ RTDBG_Close
    BY <2>13 DEF RTDBG_Close
  <2>14. CASE Alive /\ Unmap
    BY <2>14 DEF Unmap, CloseFd
  <2>15. CASE Alive /\ AppOpen
    BY <2>15 DEF AppOpen, FreeFd
  <2>16. CASE Alive /\ AppMap
    BY <2>16 DEF AppMap
  <2>17. ASSUME NEW t \in Workers, Alive, Call(t) PROVE Inv'
    BY <2>17 DEF Call, Move
  <2>18. ASSUME NEW t \in Workers, Alive, IsDataCollected(t) PROVE Inv'
    BY <2>18 DEF IsDataCollected, Move
  <2>19. ASSUME NEW t \in Workers, Alive, GetDebugGrp(t) PROVE Inv'
    BY <2>19 DEF GetDebugGrp, DieInGroup, Move, DieOfAccess, Die
  <2>20. ASSUME NEW t \in Workers, Alive, CallUntested(t) PROVE Inv'
    BY <2>20 DEF CallUntested, DieInGroup, DieOfAccess, Die
  <2>21. ASSUME NEW t \in Workers, Alive, TakePointer(t) PROVE Inv'
    BY <2>21 DEF TakePointer
  <2>22. ASSUME NEW t \in Workers, Alive, Load(t) PROVE Inv'
    BY <2>22 DEF Load, DieOfAccess, Die
  <2>23. ASSUME NEW t \in Workers, Alive, Store(t) PROVE Inv'
    BY <2>23 DEF Store, DieOfAccess, Die
  <2>24. CASE RunAgain
    BY <2>24 DEF RunAgain, NoFds, NoHandler, NoWork, NoHistory
  <2>25. CASE UNCHANGED vars
    BY <2>25 DEF vars
  <2>26. QED
    BY <2>1, <2>2, <2>3, <2>4, <2>5, <2>6, <2>7, <2>8, <2>9, <2>10, <2>11,
       <2>12, <2>13, <2>14, <2>15, <2>16, <2>17, <2>18, <2>19, <2>20, <2>21,
       <2>22, <2>23, <2>24, <2>25
    DEF Next, Starting, MainCall, WorkThread
<1>3. QED
  BY <1>1, <1>2, TypedAlways, HeldAlways, TrustingAlways, PTL DEF Spec

(* The counter has what was stored in it, less what overlapped.            *)
LEMMA CountedAlways == Spec => [](Counted /\ CounterExact)
<1> USE LifecycleAssumption
<1> DEFINE Inv == Counted /\ CounterExact
<1>1. Init => Inv
  BY DEF Init, Counted, CounterExact, Loading, NoHandler, NoHistory, NoWork
<1>2. Typed /\ Held /\ Paged /\ Inv /\ [Next]_vars => Inv'
  <2> SUFFICES ASSUME Typed, Held, Paged, Inv, [Next]_vars
               PROVE  Inv'
    OBVIOUS
  <2> USE DEF Typed, Held, Paged, Counted, CounterExact, Loading, Readable, Files, Handlers, States, Histories
  <2>1. CASE Alive /\ RT_debug_init
    BY <2>1 DEF RT_debug_init, Die
  <2>2. CASE Alive /\ Open
    BY <2>2 DEF Open, Fail, Onward, FreeFd
  <2>3. CASE Alive /\ SetSize
    BY <2>3 DEF SetSize, Fail, GiveUp, CloseFd, Onward
  <2>4. CASE Alive /\ CheckSize
    BY <2>4 DEF CheckSize, Fail, GiveUp, CloseFd, Onward
  <2>5. CASE Alive /\ Map
    BY <2>5, ZenonT(60) DEF Map, Mapped, Fail, GiveUp, CloseFd, Onward
  <2>6. CASE Alive /\ RTDBG_Init
    <3>1. CASE Readable(handler.rt_debugp_)
      <4>1. file' = [file EXCEPT !.active_ = FALSE, !.registered = FALSE, !.val = -1]
        BY <2>6, <3>1, Zenon DEF RTDBG_Init
      <4>2. file'.registered = FALSE /\ file'.val = -1 /\ file'.size = file.size
        BY <4>1
      <4>3. ~file.registered /\ Loading = {}
        BY <2>6 DEF RTDBG_Init
      <4>4. QED
        BY <2>6, <3>1, <4>2, <4>3 DEF RTDBG_Init
    <3>2. CASE ~Readable(handler.rt_debugp_)
      BY <2>6, <3>2 DEF RTDBG_Init, DieOfAccess, Die
    <3>3. QED
      BY <3>1, <3>2
  <2>7. CASE Alive /\ Register
    <3>1. CASE handler.mem_attached_
      <4>1. /\ file'.size = file.size /\ file'.registered = TRUE
            /\ file'.val = IF file.registered THEN file.val ELSE -1
        BY <2>7, <3>1, ZenonT(60) DEF Register, WithCounter
      <4>2. ~file.registered => Loading = {}
        OBVIOUS
      <4>3. file.size # "none" /\ main' = "started" /\ UNCHANGED <<worker, hist, create>>
        BY <2>7, <3>1 DEF Register
      <4>4. Counted'
        <5>1. CASE file.registered
          BY <4>1, <4>3, <5>1
        <5>2. CASE ~file.registered
          BY <4>1, <4>2, <4>3, <5>2
        <5>3. QED
          BY <5>1, <5>2
      <4>5. CounterExact'
        BY <4>1, <4>3
      <4>6. QED
        BY <4>4, <4>5
    <3>2. CASE ~handler.mem_attached_
      BY <2>7, <3>2 DEF Register
    <3>3. QED
      BY <3>1, <3>2
  <2>8. CASE Alive /\ Activate
    BY <2>8 DEF Activate
  <2>9. CASE Alive /\ RTDBG_Start
    BY <2>9 DEF RTDBG_Start, process
  <2>10. CASE Alive /\ RTDBG_Stop
    BY <2>10 DEF RTDBG_Stop, Stop
  <2>11. CASE Alive /\ ExtractDebugData
    BY <2>11 DEF ExtractDebugData, Stop
  <2>12. CASE Alive /\ Extract
    BY <2>12 DEF Extract, Fail, Die
  <2>13. CASE Alive /\ RTDBG_Close
    BY <2>13 DEF RTDBG_Close
  <2>14. CASE Alive /\ Unmap
    BY <2>14 DEF Unmap, CloseFd
  <2>15. CASE Alive /\ AppOpen
    BY <2>15 DEF AppOpen, FreeFd
  <2>16. CASE Alive /\ AppMap
    BY <2>16 DEF AppMap
  <2>17. ASSUME NEW t \in Workers, Alive, Call(t) PROVE Inv'
    BY <2>17 DEF Call, Move
  <2>18. ASSUME NEW t \in Workers, Alive, IsDataCollected(t) PROVE Inv'
    BY <2>18 DEF IsDataCollected, Move
  <2>19. ASSUME NEW t \in Workers, Alive, GetDebugGrp(t) PROVE Inv'
    <3>1. CASE Readable(handler.rt_debugp_)
      BY <2>19, <3>1 DEF GetDebugGrp, Move
    <3>2. CASE ~Readable(handler.rt_debugp_)
      BY <2>19, <3>2 DEF GetDebugGrp, DieInGroup, DieOfAccess, Die
    <3>3. QED
      BY <3>1, <3>2
  <2>20. ASSUME NEW t \in Workers, Alive, CallUntested(t) PROVE Inv'
    BY <2>20 DEF CallUntested, DieInGroup, DieOfAccess, Die
  <2>21. ASSUME NEW t \in Workers, Alive, TakePointer(t) PROVE Inv'
    BY <2>21 DEF TakePointer
  <2>22. ASSUME NEW t \in Workers, Alive, Load(t) PROVE Inv'
    <3>1. CASE Readable(worker[t].watch_dog)
      <4>1. hist'.stored = hist.stored /\ UNCHANGED file
        BY <2>22, <3>1 DEF Load
      <4>2. hist.overlapped => hist'.overlapped
        BY <2>22, <3>1 DEF Load
      <4>3. CounterExact'
        BY <4>1, <4>2
      <4>4. Counted'
        <5>1. /\ worker' = [worker EXCEPT ![t].pc = "loaded", ![t].tmp = file.val]
              /\ hist'.overlapped = (hist.overlapped \/ Loading # {})
              /\ UNCHANGED <<handler, main, create>>
          BY <2>22, <3>1 DEF Load
        <5>2. Loading' = Loading \cup {t}
          BY <5>1
        <5>3. /\ worker'[t].tmp = file.val
              /\ \A u \in Workers :
                   /\ worker'[u].watch_dog = worker[u].watch_dog
                   /\ u # t => worker'[u] = worker[u]
          BY <5>1
        <5>4. worker[t].watch_dog # NULL /\ file.val <= hist.stored - 1
          BY <3>1
        <5>5. \A u \in Loading' :
                /\ worker'[u].watch_dog # NULL
                /\ worker'[u].tmp <= hist'.stored - 1
                /\ ~hist'.overlapped =>
                     worker'[u].tmp = file'.val /\ Loading' = {u}
          BY <4>1, <5>1, <5>2, <5>3, <5>4
        <5>6. \A u \in Workers \ Loading' : worker'[u].tmp = 0
          BY <5>2, <5>3
        <5>7. \A u \in Workers : worker'[u].tmp >= -1
          BY <5>3
        <5>8. QED
          BY <4>1, <5>1, <5>3, <5>5, <5>6, <5>7
      <4>5. QED
        BY <4>3, <4>4
    <3>2. CASE ~Readable(worker[t].watch_dog)
      <4>1. UNCHANGED <<file, handler, main, create, worker, hist>>
        BY <2>22, <3>2 DEF Load
      <4>2. QED
        BY <4>1
    <3>3. QED
      BY <3>1, <3>2
  <2>23. ASSUME NEW t \in Workers, Alive, Store(t) PROVE Inv'
    <3>1. CASE Readable(worker[t].watch_dog)
      BY <2>23, <3>1 DEF Store
    <3>2. CASE ~Readable(worker[t].watch_dog)
      BY <2>23, <3>2 DEF Store, DieOfAccess, Die
    <3>3. QED
      BY <3>1, <3>2
  <2>24. CASE RunAgain
    BY <2>24 DEF RunAgain, NoFds, NoHandler, NoWork, NoHistory
  <2>25. CASE UNCHANGED vars
    BY <2>25 DEF vars
  <2>26. QED
    BY <2>1, <2>2, <2>3, <2>4, <2>5, <2>6, <2>7, <2>8, <2>9, <2>10, <2>11,
       <2>12, <2>13, <2>14, <2>15, <2>16, <2>17, <2>18, <2>19, <2>20, <2>21,
       <2>22, <2>23, <2>24, <2>25
    DEF Next, Starting, MainCall, WorkThread
<1>3. QED
  BY <1>1, <1>2, TypedAlways, HeldAlways, TrustingAlways, PTL DEF Spec

(* Only Load and Store change what is under way and what is stored, but    *)
(* for a new run of the process.                                           *)
LEMMA OnlyIncrementsCount ==
  Typed /\ [Next]_vars =>
    \/ Loading' = Loading /\ hist'.stored = hist.stored
                         /\ used'.increments = used.increments
    \/ \E t \in Workers : Load(t) \/ Store(t)
    \/ RunAgain
<1> DEFINE Frame == Loading' = Loading /\ hist'.stored = hist.stored
                                     /\ used'.increments = used.increments
<1> SUFFICES ASSUME Typed, [Next]_vars,
                    \A t \in Workers : ~(Load(t) \/ Store(t)), ~RunAgain
             PROVE  Frame
  OBVIOUS
<1> USE DEF Typed, Loading
<1>1. CASE Alive /\ RT_debug_init
  BY <1>1 DEF RT_debug_init, Die, Usages, Histories, States
<1>2. CASE Alive /\ Open
  BY <1>2 DEF Open, Fail, Onward, FreeFd, Usages, Histories, States
<1>3. CASE Alive /\ SetSize
  BY <1>3 DEF SetSize, Fail, GiveUp, CloseFd, Onward, Usages, Histories, States
<1>4. CASE Alive /\ CheckSize
  BY <1>4
  DEF CheckSize, Fail, GiveUp, CloseFd, Onward, Usages, Histories, States
<1>5. CASE Alive /\ Map
  BY <1>5
  DEF Map, Mapped, Fail, GiveUp, CloseFd, Onward, Usages, Histories, States
<1>6. CASE Alive /\ RTDBG_Init
  BY <1>6 DEF RTDBG_Init, DieOfAccess, Die, Usages, Histories, States
<1>7. CASE Alive /\ Register
  BY <1>7 DEF Register, WithCounter, Usages, Histories, States
<1>8. CASE Alive /\ Activate
  BY <1>8 DEF Activate, Usages, Histories, States
<1>9. CASE Alive /\ RTDBG_Start
  BY <1>9 DEF RTDBG_Start, process, Usages, Histories, States
<1>10. CASE Alive /\ RTDBG_Stop
  BY <1>10 DEF RTDBG_Stop, Stop, Usages, Histories, States
<1>11. CASE Alive /\ ExtractDebugData
  BY <1>11 DEF ExtractDebugData, Stop, Usages, Histories, States
<1>12. CASE Alive /\ Extract
  BY <1>12 DEF Extract, Fail, Die, Usages, Histories, States
<1>13. CASE Alive /\ RTDBG_Close
  BY <1>13 DEF RTDBG_Close, Usages, Histories, States
<1>14. CASE Alive /\ Unmap
  BY <1>14 DEF Unmap, CloseFd, Usages, Histories, States
<1>15. CASE Alive /\ AppOpen
  BY <1>15 DEF AppOpen, FreeFd, Usages, Histories, States
<1>16. CASE Alive /\ AppMap
  BY <1>16 DEF AppMap, Usages, Histories, States
<1>17. ASSUME NEW t \in Workers, Alive, Call(t) PROVE Frame
  BY <1>17 DEF Call, Move, Usages, Histories, States
<1>18. ASSUME NEW t \in Workers, Alive, IsDataCollected(t) PROVE Frame
  BY <1>18 DEF IsDataCollected, Move, Usages, Histories, States
<1>19. ASSUME NEW t \in Workers, Alive, GetDebugGrp(t) PROVE Frame
  BY <1>19 DEF GetDebugGrp, DieInGroup, Move, DieOfAccess, Die, Usages, Histories, States
<1>20. ASSUME NEW t \in Workers, Alive, CallUntested(t) PROVE Frame
  BY <1>20 DEF CallUntested, DieInGroup, DieOfAccess, Die, Usages, Histories, States
<1>21. ASSUME NEW t \in Workers, Alive, TakePointer(t) PROVE Frame
  BY <1>21 DEF TakePointer, Usages, Histories, States
<1>22. CASE UNCHANGED vars
  BY <1>22 DEF vars, Usages, Histories, States
<1>23. QED
  BY <1>1, <1>2, <1>3, <1>4, <1>5, <1>6, <1>7, <1>8, <1>9, <1>10, <1>11,
     <1>12, <1>13, <1>14, <1>15, <1>16, <1>17, <1>18, <1>19, <1>20, <1>21,
     <1>22
  DEF Next, Starting, MainCall, WorkThread

(* The increments stored and under way are among those begun.              *)
LEMMA BegunAlways == Spec => []Begun
<1> USE LifecycleAssumption
<1>1. Init => Begun
  <2> SUFFICES ASSUME Init PROVE Begun
    OBVIOUS
  <2>1. Loading = {}
    BY DEF Init, Loading, NoWork
  <2>2. QED
    BY <2>1, FS_EmptySet DEF Init, Begun, NoHistory
<1>2. Typed /\ Begun /\ [Next]_vars => Begun'
  <2> SUFFICES ASSUME Typed, Begun, [Next]_vars
               PROVE  Begun'
    OBVIOUS
  <2> DEFINE n == Cardinality(Loading)
  <2>1. n \in Nat /\ hist.stored \in Nat /\ used.increments \in Nat
    BY FS_CardinalityType DEF Typed, Begun, Histories, Usages
  <2>2. ASSUME NEW t \in Workers, Load(t)
        PROVE  Begun'
    <3>1. CASE Readable(worker[t].watch_dog)
      <4>1. Loading' = Loading \cup {t} /\ t \notin Loading
        BY <2>2, <3>1 DEF Load, Loading, Typed, States
      <4>2. hist'.stored = hist.stored
        BY <2>2, <3>1 DEF Load, Typed, Histories
      <4>3. used.increments < MaxIncrements /\ used'.increments = used.increments + 1
        BY <2>2 DEF Load, Typed, Usages
      <4>4. IsFiniteSet(Loading') /\ Cardinality(Loading') = n + 1
        BY <4>1, FS_AddElement DEF Begun
      <4>5. QED
        BY <2>1, <4>2, <4>3, <4>4 DEF Begun
    <3>2. CASE ~Readable(worker[t].watch_dog)
      <4>1. Loading' = Loading /\ hist' = hist
        BY <2>2, <3>2 DEF Load, Loading
      <4>2. used.increments < MaxIncrements /\ used'.increments = used.increments + 1
        BY <2>2 DEF Load, Typed, Usages
      <4>3. QED
        BY <2>1, <4>1, <4>2 DEF Begun
    <3>3. QED
      BY <3>1, <3>2
  <2>3. ASSUME NEW t \in Workers, Store(t)
        PROVE  Begun'
    <3>1. CASE Readable(worker[t].watch_dog)
      <4>1. Loading' = Loading \ {t} /\ t \in Loading
        BY <2>3, <3>1 DEF Store, Loading, Typed, States
      <4>2. hist'.stored = hist.stored + 1
        BY <2>3, <3>1 DEF Store, Typed, Histories
      <4>3. IsFiniteSet(Loading') /\ Cardinality(Loading') = n - 1
        BY <4>1, FS_RemoveElement DEF Begun
      <4>4. QED
        BY <2>1, <2>3, <4>2, <4>3 DEF Begun, Store
    <3>2. CASE ~Readable(worker[t].watch_dog)
      BY <2>3, <3>2 DEF Store, Loading, Begun
    <3>3. QED
      BY <3>1, <3>2
  <2>4. CASE RunAgain
    <3>1. Loading' = {} /\ hist'.stored = hist.stored
      BY <2>4 DEF RunAgain, Loading, NoWork, NoHistory
    <3>2. used'.increments = used.increments
      BY <2>4 DEF RunAgain, Typed, Usages
    <3>3. QED
      BY <2>1, <3>1, <3>2, FS_EmptySet DEF Begun
  <2>5. QED
    BY <2>2, <2>3, <2>4, OnlyIncrementsCount DEF Begun
<1>3. QED
  BY <1>1, <1>2, TypedAlways, PTL DEF Spec

-----------------------------------------------------------------------------
(* What the main thread holds, what relies on it and what was counted, at  *)
(* every point of a start, a close, a failure and a new run.               *)
THEOREM IInvAlways == Spec => []IInv
BY TypedAlways, HeldAlways, TrustingAlways, Explained, CountedAlways,
   BegunAlways, PTL DEF IInv

(* Whatever system call fails and whenever the process is run again, each  *)
(* death of it is explained and all values stay in range.                  *)
THEOREM DeathsExplainedAlways == Spec => []DeathsExplained
<1>1. Typed /\ Counted /\ CounterExact /\ Begun => TypeOK
  <2> SUFFICES ASSUME Typed, Counted, CounterExact, Begun PROVE TypeOK
    OBVIOUS
  <2> USE LifecycleAssumption DEF Typed
  <2>1. hist.stored \in 0 .. MaxIncrements
    BY FS_CardinalityType DEF Begun, Histories, Usages
  <2>2. \A t \in Workers : worker[t].tmp \in -1 .. MaxIncrements
    <3> SUFFICES ASSUME NEW t \in Workers PROVE worker[t].tmp \in -1 .. MaxIncrements
      OBVIOUS
    <3>1. worker[t].tmp \in Int /\ hist.stored \in Int
      BY DEF States, Histories
    <3>2. CASE t \in Loading
      BY <2>1, <3>1, <3>2 DEF Counted
    <3>3. CASE t \notin Loading
      BY <2>1, <3>1, <3>3 DEF Counted
    <3>4. QED
      BY <3>2, <3>3
  <2>3. file.val \in -1 .. MaxIncrements
    BY <2>1 DEF Counted, CounterExact, Files, Histories
  <2>4. QED
    BY <2>1, <2>2, <2>3 DEF TypeOK, Files, Handlers, States, Histories
<1>2. QED
  BY <1>1, TypedAlways, CountedAlways, BegunAlways, Explained, PTL
  DEF DeathsExplained

(* Whatever system calls fail, no path of a start leaks a mapping or a     *)
(* descriptor, and the application's descriptors are left alone unless     *)
(* RTDBG_Close was misused.                                                *)
THEOREM ResourcesKeptAlways == Spec => []ResourcesKept
<1>1. Held /\ DescriptorsKept => ResourcesKept
  BY DEF Held, ResourcesKept, NothingLeaked
<1>2. QED
  BY <1>1, HeldAlways, PTL

(* Across failed starts and runs the event counter has exactly what was    *)
(* added to it unless two increments overlapped, and never more.           *)
THEOREM CounterExactAlways == Spec => []CounterExact
BY CountedAlways, PTL

-----------------------------------------------------------------------------
(***************************************************************************)
(* Module MemArea                                                          *)
(***************************************************************************)

(***************************************************************************)
(* Arithmetic of the ring                                                  *)
(***************************************************************************)

(* The code's (i+1)%number_chunks_ is the next index, or 0 after the last. *)
LEMMA NextIndValue ==
  ASSUME number_chunks_ \in Nat \ {0, 1}, NEW i \in Indices
  PROVE  NextInd(i) = IF i = number_chunks_ - 1 THEN 0 ELSE i + 1
BY DEF Indices, NextInd

(* It stays in the ring, moves, and sends different indices to different   *)
(* ones.                                                                   *)
LEMMA NextIndProperties ==
  ASSUME number_chunks_ \in Nat \ {0, 1}
  PROVE  /\ \A i \in Indices : NextInd(i) \in Indices /\ NextInd(i) # i
         /\ \A i, j \in Indices : NextInd(i) = NextInd(j) => i = j
BY NextIndValue DEF Indices

-----------------------------------------------------------------------------
(***************************************************************************)
(* Type correctness                                                        *)
(***************************************************************************)

(* A reader began no later than now: what it counts as laps is a number.   *)
TypeInv == AreaTypeOK /\ \A r \in Readers : reader[r].since <= pops

LEMMA AreaKept == [AreaNext]_areaVars => UNCHANGED <<area, Indices, ReaderStates>>
BY DEF AreaNext, areaVars, area, Write, Read, AllocPoolChunk, FillHead,
       FillTail, PushCheck, PushFIFO, SwapCheck, DualBufSwap, PopCheck, PopFIFO,
       GetReadBufP, ReadHead, ReadTail, AllocLock, AllocAdvance, AllocTake,
       Indices, ReaderStates

LEMMA TypeInvInit == AreaInit => TypeInv
<1> SUFFICES ASSUME AreaInit
             PROVE  TypeInv
  OBVIOUS
<1>1. number_chunks_ \in Nat \ {0, 1} /\ 0 \in Indices /\ 1 \in Indices
  BY MemAreaAssumption DEF AreaInit, Indices
<1>2. buf \in [Indices -> Chunks]
  BY DEF AreaInit, Whole, Chunks
<1>3. reader \in [Readers -> ReaderStates] /\ \A r \in Readers : reader[r].since = 0
  BY <1>1 DEF AreaInit, ReaderStates
<1>4. QED
  BY <1>1, <1>2, <1>3 DEF AreaInit, TypeInv, AreaTypeOK, Writers

LEMMA TypeInvStep == TypeInv /\ [AreaNext]_areaVars => TypeInv'
<1> SUFFICES ASSUME TypeInv, [AreaNext]_areaVars
             PROVE  TypeInv'
  OBVIOUS
<1>a. number_chunks_ \in Nat \ {0, 1} /\ pops \in Nat /\ pushes \in Nat
  BY MemAreaAssumption DEF TypeInv, AreaTypeOK
<1>b. wr_ind_ \in Indices /\ rd_ind_ \in Indices /\ writer \in Writers
      /\ buf \in [Indices -> Chunks] /\ reader \in [Readers -> ReaderStates]
      /\ \A r \in Readers : reader[r].since <= pops
  BY DEF TypeInv, AreaTypeOK
<1>c. NextInd(wr_ind_) \in Indices /\ NextInd(rd_ind_) \in Indices
  BY <1>a, <1>b, NextIndProperties
<1>d. writer.val \in Nat
  BY <1>b DEF Writers
<1>e. \A r \in Readers : reader[r].ind \in Indices /\ reader[r].since \in Nat
  BY <1>b DEF ReaderStates
<1>f. \A j \in Indices : buf[j].head \in Nat /\ buf[j].tail \in Nat
  BY <1>b DEF Chunks
<1>g. UNCHANGED <<area, Indices, ReaderStates>> /\ UNCHANGED <<Chunks, Writers>>
  BY AreaKept DEF Chunks, Writers
<1>h. ASSUME writer' \in Writers, buf' \in [Indices -> Chunks],
             reader' \in [Readers -> ReaderStates],
             \A r \in Readers : reader'[r].since <= pops',
             wr_ind_' \in Indices, rd_ind_' \in Indices,
             pushes' \in Nat, pops' \in Nat,
             out_lock_' \in Readers \cup {NoThread}, handed' \in Seq(Indices)
      PROVE  TypeInv'
  BY <1>a, <1>b, <1>g, <1>h DEF TypeInv, AreaTypeOK, area
<1>i. ASSUME writer' \in Writers, buf' \in [Indices -> Chunks],
             wr_ind_' \in Indices, rd_ind_' \in Indices,
             pushes' \in Nat, pops' \in Nat, pops' >= pops,
             UNCHANGED <<reader, out_lock_, handed>>
      PROVE  TypeInv'
  BY <1>a, <1>b, <1>e, <1>h, <1>i DEF TypeInv, AreaTypeOK
<1>1. CASE FillHead
  <2>1. writer' \in Writers
    BY <1>1, <1>d DEF FillHead, Writers
  <2>2. buf' \in [Indices -> Chunks]
    BY <1>1, <1>b, <1>d DEF FillHead, Chunks
  <2>3. QED
    BY <1>1, <1>a, <1>b, <1>i, <2>1, <2>2 DEF FillHead
<1>2. CASE FillTail
  <2>1. writer' \in Writers
    BY <1>2, <1>b DEF FillTail, WriterAt, Writers
  <2>2. buf' \in [Indices -> Chunks]
    BY <1>2, <1>b, <1>d DEF FillTail, Chunks
  <2>3. QED
    BY <1>2, <1>a, <1>b, <1>i, <2>1, <2>2 DEF FillTail
<1>3. CASE PushCheck
  <2>1. writer' \in Writers
    BY <1>3, <1>b DEF PushCheck, WriterAt, Writers
  <2>2. QED
    BY <1>3, <1>a, <1>b, <1>i, <2>1 DEF PushCheck
<1>4. CASE PushFIFO
  <2>1. writer' \in Writers
    BY <1>4, <1>b DEF PushFIFO, WriterAt, AfterPush, Writers
  <2>2. QED
    BY <1>4, <1>a, <1>b, <1>c, <1>i, <2>1 DEF PushFIFO
<1>5. CASE SwapCheck
  <2>1. writer' \in Writers
    BY <1>5, <1>b DEF SwapCheck, WriterAt, Writers
  <2>2. QED
    BY <1>5, <1>a, <1>b, <1>i, <2>1 DEF SwapCheck
<1>6. CASE DualBufSwap
  <2>1. writer' \in Writers
    BY <1>6, <1>b DEF DualBufSwap, WriterAt, Writers
  <2>2. QED
    BY <1>6, <1>a, <1>b, <1>c, <1>i, <2>1 DEF DualBufSwap
<1>7. CASE PopCheck
  <2> DEFINE s == [reader[Consumer] EXCEPT !.pc = "pop"]
  <2>1. s \in ReaderStates /\ s.since = reader[Consumer].since
    BY <1>b, MemAreaAssumption DEF ReaderStates
  <2>2. reader' = [reader EXCEPT ![Consumer] = s]
    BY <1>7 DEF PopCheck, ReaderAt
  <2> HIDE DEF s
  <2>3. reader' \in [Readers -> ReaderStates]
    BY <1>b, <2>1, <2>2, MemAreaAssumption
  <2>4. \A q \in Readers : reader'[q].since <= pops'
    BY <1>7, <1>a, <1>b, <1>e, <2>1, <2>2, MemAreaAssumption DEF PopCheck
  <2>5. QED
    BY <1>7, <1>a, <1>b, <1>c, <1>h, <2>3, <2>4, MemAreaAssumption
    DEF PopCheck, TypeInv, AreaTypeOK
<1>8. CASE PopFIFO
  <2> DEFINE s == [reader[Consumer] EXCEPT !.pc = "read", !.ind = NextInd(rd_ind_)]
  <2>1. s \in ReaderStates /\ s.since = reader[Consumer].since
    BY <1>b, <1>c, MemAreaAssumption DEF ReaderStates
  <2>2. reader' = [reader EXCEPT ![Consumer] = s]
    BY <1>8 DEF PopFIFO
  <2> HIDE DEF s
  <2>3. reader' \in [Readers -> ReaderStates]
    BY <1>b, <2>1, <2>2, MemAreaAssumption
  <2>4. \A q \in Readers : reader'[q].since <= pops'
    BY <1>8, <1>a, <1>b, <1>e, <2>1, <2>2, MemAreaAssumption DEF PopFIFO
  <2>5. QED
    BY <1>8, <1>a, <1>b, <1>c, <1>h, <2>3, <2>4, MemAreaAssumption
    DEF PopFIFO, TypeInv, AreaTypeOK
<1>9. ASSUME NEW r \in Readers, GetReadBufP(r) PROVE TypeInv'
  <2> DEFINE s == [reader[r] EXCEPT !.pc = "read", !.ind = rd_ind_, !.since = pops]
  <2>1. s \in ReaderStates /\ s.since = pops
    BY <1>a, <1>b DEF ReaderStates
  <2>2. reader' = [reader EXCEPT ![r] = s]
    BY <1>9 DEF GetReadBufP
  <2> HIDE DEF s
  <2>3. reader' \in [Readers -> ReaderStates]
    BY <1>b, <2>1, <2>2
  <2>4. \A q \in Readers : reader'[q].since <= pops'
    BY <1>9, <1>a, <1>b, <1>e, <2>1, <2>2 DEF GetReadBufP
  <2>5. QED
    BY <1>9, <1>a, <1>b, <1>c, <1>h, <2>3, <2>4
    DEF GetReadBufP, TypeInv, AreaTypeOK
<1>10. ASSUME NEW r \in Readers, ReadHead(r) PROVE TypeInv'
  <2> DEFINE s == [reader[r] EXCEPT !.pc = "half", !.head = buf[reader[r].ind].head]
  <2>1. s \in ReaderStates /\ s.since = reader[r].since
    BY <1>b, <1>e, <1>f DEF ReaderStates
  <2>2. reader' = [reader EXCEPT ![r] = s]
    BY <1>10 DEF ReadHead
  <2> HIDE DEF s
  <2>3. reader' \in [Readers -> ReaderStates]
    BY <1>b, <2>1, <2>2
  <2>4. \A q \in Readers : reader'[q].since <= pops'
    BY <1>10, <1>a, <1>b, <1>e, <2>1, <2>2 DEF ReadHead
  <2>5. QED
    BY <1>10, <1>a, <1>b, <1>c, <1>h, <2>3, <2>4
    DEF ReadHead, TypeInv, AreaTypeOK
<1>11. ASSUME NEW r \in Readers, ReadTail(r) PROVE TypeInv'
  <2> DEFINE s == [reader[r] EXCEPT !.pc = "idle", !.tail = buf[reader[r].ind].tail,
                                   !.laps = pops - reader[r].since]
  <2>1. pops - reader[r].since \in Nat
    BY <1>a, <1>b, <1>e
  <2>2. s \in ReaderStates /\ s.since = reader[r].since
    BY <1>b, <1>e, <1>f, <2>1 DEF ReaderStates
  <2>3. reader' = [reader EXCEPT ![r] = s]
    BY <1>11 DEF ReadTail
  <2> HIDE DEF s
  <2>4. reader' \in [Readers -> ReaderStates]
    BY <1>b, <2>2, <2>3
  <2>5. \A q \in Readers : reader'[q].since <= pops'
    BY <1>11, <1>a, <1>b, <1>e, <2>2, <2>3 DEF ReadTail
  <2>6. QED
    BY <1>11, <1>a, <1>b, <1>c, <1>h, <2>4, <2>5
    DEF ReadTail, TypeInv, AreaTypeOK
<1>12. ASSUME NEW t \in Readers, AllocLock(t) PROVE TypeInv'
  <2> DEFINE s == [reader[t] EXCEPT !.pc = "alloc"]
  <2>1. s \in ReaderStates /\ s.since = reader[t].since
    BY <1>b DEF ReaderStates
  <2>2. reader' = [reader EXCEPT ![t] = s]
    BY <1>12 DEF AllocLock, ReaderAt
  <2> HIDE DEF s
  <2>3. reader' \in [Readers -> ReaderStates]
    BY <1>b, <2>1, <2>2
  <2>4. \A q \in Readers : reader'[q].since <= pops'
    BY <1>12, <1>a, <1>b, <1>e, <2>1, <2>2 DEF AllocLock
  <2>5. QED
    BY <1>12, <1>a, <1>b, <1>c, <1>h, <2>3, <2>4
    DEF AllocLock, TypeInv, AreaTypeOK
<1>13. ASSUME NEW t \in Readers, AllocAdvance(t) PROVE TypeInv'
  <2> DEFINE s == [reader[t] EXCEPT !.pc = "take"]
  <2>1. s \in ReaderStates /\ s.since = reader[t].since
    BY <1>b DEF ReaderStates
  <2>2. reader' = [reader EXCEPT ![t] = s]
    BY <1>13 DEF AllocAdvance, ReaderAt
  <2> HIDE DEF s
  <2>3. reader' \in [Readers -> ReaderStates]
    BY <1>b, <2>1, <2>2
  <2>4. \A q \in Readers : reader'[q].since <= pops'
    BY <1>13, <1>a, <1>b, <1>e, <2>1, <2>2 DEF AllocAdvance
  <2>5. QED
    BY <1>13, <1>a, <1>b, <1>c, <1>h, <2>3, <2>4
    DEF AllocAdvance, TypeInv, AreaTypeOK
<1>14. ASSUME NEW t \in Readers, AllocTake(t) PROVE TypeInv'
  <2> DEFINE s == [reader[t] EXCEPT !.pc = "idle"]
  <2>1. s \in ReaderStates /\ s.since = reader[t].since
    BY <1>b DEF ReaderStates
  <2>2. handed' \in Seq(Indices)
    BY <1>14, <1>b DEF AllocTake, TypeInv, AreaTypeOK
  <2>3. reader' = [reader EXCEPT ![t] = s]
    BY <1>14 DEF AllocTake, ReaderAt
  <2> HIDE DEF s
  <2>4. reader' \in [Readers -> ReaderStates]
    BY <1>b, <2>1, <2>3
  <2>5. \A q \in Readers : reader'[q].since <= pops'
    BY <1>14, <1>a, <1>b, <1>e, <2>1, <2>3 DEF AllocTake
  <2>6. QED
    BY <1>14, <1>a, <1>b, <1>c, <1>h, <2>4, <2>5, <2>2
    DEF AllocTake, TypeInv, AreaTypeOK
<1>15. CASE UNCHANGED areaVars
  BY <1>15, <1>a, <1>b, <1>i DEF areaVars
<1>16. QED
  BY <1>1, <1>2, <1>3, <1>4, <1>5, <1>6, <1>7, <1>8, <1>9, <1>10, <1>11, <1>12,
     <1>13, <1>14, <1>15
  DEF AreaNext, Write, Read, AllocPoolChunk

(* Whatever the use and the interleaving, the indices stay inside the area *)
(* and only chunks of the area are handed out.                             *)
THEOREM AreaTypeCorrect == AreaSpec => []AreaTypeOK
<1>1. AreaInit => TypeInv
  BY TypeInvInit
<1>2. TypeInv /\ [AreaNext]_areaVars => TypeInv'
  BY TypeInvStep
<1>3. TypeInv => AreaTypeOK
  BY DEF TypeInv
<1>4. QED
  BY <1>1, <1>2, <1>3, PTL DEF AreaSpec

-----------------------------------------------------------------------------
(***************************************************************************)
(* Who runs, and what a check found                                        *)
(***************************************************************************)

(* What a use leaves to the writer and to each reader.                     *)
WriterRole ==
  /\ use = "pool" => writer.pc = "idle"
  /\ use = "fifo" => writer.pc \notin {"pop", "swap"}

ReaderRole(r) ==
  /\ use = "fifo" => reader[r].pc \in {"idle", "pop", "read", "half"}
  /\ use = "fifo" /\ r # Consumer => reader[r].pc = "idle"
  /\ use = "dual" => reader[r].pc \in {"idle", "read", "half"}
  /\ use = "pool" => reader[r].pc \in {"idle", "alloc", "take"}

Roles == WriterRole /\ \A r \in Readers : ReaderRole(r)

LEMMA RolesStep == TypeInv /\ Roles /\ [AreaNext]_areaVars => Roles'
<1> SUFFICES ASSUME TypeInv, Roles, [AreaNext]_areaVars
             PROVE  Roles'
  OBVIOUS
<1>a. use \in {"fifo", "dual", "pool"} /\ writer \in Writers
      /\ reader \in [Readers -> ReaderStates] /\ Consumer \in Readers
  BY MemAreaAssumption DEF TypeInv, AreaTypeOK
<1>b. WriterRole /\ \A r \in Readers : ReaderRole(r)
  BY DEF Roles
<1> USE <1>a, <1>b DEF area, Roles, WriterRole, ReaderRole, Writers, ReaderStates
<1>1. CASE FillHead
  BY <1>1 DEF FillHead
<1>2. CASE FillTail
  BY <1>2 DEF FillTail, WriterAt
<1>3. CASE PushCheck
  BY <1>3 DEF PushCheck, WriterAt
<1>4. CASE PushFIFO
  BY <1>4 DEF PushFIFO, WriterAt, AfterPush
<1>5. CASE SwapCheck
  BY <1>5 DEF SwapCheck, WriterAt
<1>6. CASE DualBufSwap
  BY <1>6 DEF DualBufSwap, WriterAt
<1>7. CASE PopCheck
  BY <1>7 DEF PopCheck, ReaderAt
<1>8. CASE PopFIFO
  BY <1>8 DEF PopFIFO
<1>9. ASSUME NEW r \in Readers, GetReadBufP(r) PROVE Roles'
  BY <1>9 DEF GetReadBufP
<1>10. ASSUME NEW r \in Readers, ReadHead(r) PROVE Roles'
  BY <1>10 DEF ReadHead
<1>11. ASSUME NEW r \in Readers, ReadTail(r) PROVE Roles'
  BY <1>11 DEF ReadTail
<1>12. ASSUME NEW t \in Readers, AllocLock(t) PROVE Roles'
  BY <1>12 DEF AllocLock, ReaderAt
<1>13. ASSUME NEW t \in Readers, AllocAdvance(t) PROVE Roles'
  BY <1>13 DEF AllocAdvance, ReaderAt
<1>14. ASSUME NEW t \in Readers, AllocTake(t) PROVE Roles'
  BY <1>14 DEF AllocTake, ReaderAt
<1>15. CASE UNCHANGED areaVars
  BY <1>15 DEF areaVars
<1>16. QED
  BY <1>1, <1>2, <1>3, <1>4, <1>5, <1>6, <1>7, <1>8, <1>9, <1>10, <1>11, <1>12,
     <1>13, <1>14, <1>15
  DEF AreaNext, Write, Read, AllocPoolChunk

(* A check of a full or empty area is still right when its caller acts on  *)
(* it: the other side can only make room, or add.                          *)
ChecksStayValid ==
  /\ writer.pc = "push" => ~Full
  /\ writer.pc = "swap" => ~Empty
  /\ use = "fifo" /\ reader[Consumer].pc = "pop" => ~Empty

ReadsLatest ==
  use = "fifo" /\ reader[Consumer].pc \in {"read", "half"} => reader[Consumer].ind = rd_ind_

Apart ==
  /\ use # "pool" => wr_ind_ # rd_ind_
  /\ ChecksStayValid
  /\ ReadsLatest

LEMMA ApartStep == TypeInv /\ Roles /\ Apart /\ [AreaNext]_areaVars => Apart'
<1> SUFFICES ASSUME TypeInv, Roles, Apart, [AreaNext]_areaVars
             PROVE  Apart'
  OBVIOUS
<1>a. /\ use \in {"fifo", "dual", "pool"} /\ number_chunks_ \in Nat \ {0, 1}
      /\ wr_ind_ \in Indices /\ rd_ind_ \in Indices /\ writer \in Writers
      /\ reader \in [Readers -> ReaderStates] /\ Consumer \in Readers
  BY MemAreaAssumption DEF TypeInv, AreaTypeOK
<1>b. WriterRole /\ ReaderRole(Consumer)
  BY MemAreaAssumption DEF Roles
<1>c. /\ \A i \in Indices : NextInd(i) \in Indices /\ NextInd(i) # i
      /\ \A i, j \in Indices : NextInd(i) = NextInd(j) => i = j
  BY <1>a, NextIndProperties
<1>d. number_chunks_' = number_chunks_ /\ use' = use
  BY AreaKept DEF area
<1>e. \A i : NextInd(i)' = NextInd(i)
  BY <1>d DEF NextInd
<1>f. ASSUME NEW t \in Readers, reader[t].pc \in {"alloc", "take"} PROVE use = "pool"
  BY <1>a, <1>f DEF Roles, ReaderRole
<1> USE <1>a, <1>b, <1>c, <1>d, <1>e
    DEF area, Apart, ChecksStayValid, ReadsLatest, Full, Empty, WriterRole, ReaderRole,
        Writers, ReaderStates
<1>1. CASE FillHead
  BY <1>1 DEF FillHead
<1>2. CASE FillTail
  BY <1>2 DEF FillTail, WriterAt
<1>3. CASE PushCheck
  BY <1>3 DEF PushCheck, WriterAt
<1>4. CASE PushFIFO
  BY <1>4 DEF PushFIFO, WriterAt, AfterPush
<1>5. CASE SwapCheck
  BY <1>5 DEF SwapCheck, WriterAt
<1>6. CASE DualBufSwap
  BY <1>6 DEF DualBufSwap, WriterAt
<1>7. CASE PopCheck
  BY <1>7 DEF PopCheck, ReaderAt
<1>8. CASE PopFIFO
  BY <1>8 DEF PopFIFO
<1>9. ASSUME NEW r \in Readers, GetReadBufP(r) PROVE Apart'
  BY <1>9 DEF GetReadBufP
<1>10. ASSUME NEW r \in Readers, ReadHead(r) PROVE Apart'
  BY <1>10 DEF ReadHead
<1>11. ASSUME NEW r \in Readers, ReadTail(r) PROVE Apart'
  BY <1>11 DEF ReadTail
<1>12. ASSUME NEW t \in Readers, AllocLock(t) PROVE Apart'
  BY <1>12 DEF AllocLock, ReaderAt
<1>13. ASSUME NEW t \in Readers, AllocAdvance(t) PROVE Apart'
  BY <1>13, <1>f DEF AllocAdvance, ReaderAt
<1>14. ASSUME NEW t \in Readers, AllocTake(t) PROVE Apart'
  BY <1>14, <1>f DEF AllocTake, ReaderAt
<1>15. CASE UNCHANGED areaVars
  BY <1>15 DEF areaVars
<1>16. QED
  BY <1>1, <1>2, <1>3, <1>4, <1>5, <1>6, <1>7, <1>8, <1>9, <1>10, <1>11, <1>12,
     <1>13, <1>14, <1>15
  DEF AreaNext, Write, Read, AllocPoolChunk

-----------------------------------------------------------------------------
(***************************************************************************)
(* The FIFO                                                                *)
(***************************************************************************)

(* Steps from the chunk of the reader forward to chunk i.                  *)
Dist(i) == IF i >= rd_ind_ THEN i - rd_ind_ ELSE i + number_chunks_ - rd_ind_

(* The chunks from rd_ind_ on hold the values pops, pops + 1, .. in order; *)
(* wr_ind_ is behind the last of them and holds what was filled so far.    *)
FifoCount ==
  /\ Dist(wr_ind_) = pushes - pops + 1
  /\ writer.val = pushes + (IF writer.pc = "idle" THEN 0 ELSE 1)

FifoContents ==
  \A i \in Indices :
    Dist(i) <= pushes - pops => buf[i].head = pops + Dist(i) /\ buf[i].tail = pops + Dist(i)

Filled ==
  /\ writer.pc \in {"half", "filled", "push"} => buf[wr_ind_].head = writer.val
  /\ writer.pc \in {"filled", "push"} => buf[wr_ind_].tail = writer.val

FifoReader ==
  /\ reader[Consumer].pc \in {"half", "idle", "pop"} => reader[Consumer].head = pops
  /\ reader[Consumer].pc \in {"idle", "pop"} => reader[Consumer].tail = pops

FifoInv == use = "fifo" => FifoCount /\ FifoContents /\ Filled /\ FifoReader

LEMMA FifoStep == TypeInv /\ Roles /\ Apart /\ FifoInv /\ [AreaNext]_areaVars => FifoInv'
<1> DEFINE Goal == FifoCount /\ FifoContents /\ Filled /\ FifoReader
<1> SUFFICES ASSUME TypeInv, Roles, Apart, FifoInv, [AreaNext]_areaVars, use' = "fifo"
             PROVE  Goal'
  BY DEF FifoInv
<1>a. number_chunks_' = number_chunks_ /\ Indices' = Indices /\ use = "fifo"
  BY AreaKept DEF area
<1>b. /\ number_chunks_ \in Nat \ {0, 1} /\ pushes \in Nat /\ pops \in Nat
      /\ wr_ind_ \in Indices /\ rd_ind_ \in Indices /\ writer \in Writers
      /\ reader \in [Readers -> ReaderStates] /\ Consumer \in Readers
      /\ buf \in [Indices -> Chunks]
  BY MemAreaAssumption DEF TypeInv, AreaTypeOK
<1>c. /\ writer.pc \notin {"pop", "swap"}
      /\ reader[Consumer].pc \in {"idle", "pop", "read", "half"}
      /\ \A r \in Readers : r # Consumer => reader[r].pc = "idle"
  BY <1>a, MemAreaAssumption DEF Roles, WriterRole, ReaderRole
<1>d. /\ NextInd(wr_ind_) = IF wr_ind_ = number_chunks_ - 1 THEN 0 ELSE wr_ind_ + 1
      /\ NextInd(rd_ind_) = IF rd_ind_ = number_chunks_ - 1 THEN 0 ELSE rd_ind_ + 1
  BY <1>b, NextIndValue
<1>e. /\ writer.pc = "push" => NextInd(wr_ind_) # rd_ind_
      /\ reader[Consumer].pc = "pop" => NextInd(rd_ind_) # wr_ind_
      /\ reader[Consumer].pc \in {"read", "half"} => reader[Consumer].ind = rd_ind_
  BY <1>a DEF Apart, ChecksStayValid, ReadsLatest, Full, Empty
<1>f. /\ Dist(wr_ind_) = pushes - pops + 1 /\ Dist(rd_ind_) = 0
      /\ \A i, j \in Indices : Dist(i) = Dist(j) => i = j
      /\ \A i \in Indices : Dist(i) \in 0 .. number_chunks_ - 1
  BY <1>a, <1>b DEF FifoInv, FifoCount, Dist, Indices
<1>g. FifoCount /\ FifoContents /\ Filled /\ FifoReader
  BY <1>a DEF FifoInv
<1>1. CASE FillHead
  <2>1. FifoCount' /\ Filled' /\ FifoReader'
    BY <1>1, <1>a, <1>b, <1>g
    DEF FillHead, FifoCount, Filled, FifoReader, Dist, Writers, Chunks
  <2>2. \A i \in Indices : Dist(i)' = Dist(i) /\ (i # wr_ind_ => buf'[i] = buf[i])
    BY <1>1, <1>a, <1>b DEF FillHead, area, Dist
  <2>3. FifoContents'
    BY <1>1, <1>a, <1>b, <1>f, <1>g, <2>2 DEF FillHead, FifoContents
  <2>4. QED
    BY <2>1, <2>3
<1>2. CASE FillTail
  <2>1. FifoCount' /\ Filled' /\ FifoReader'
    BY <1>2, <1>a, <1>b, <1>g
    DEF FillTail, WriterAt, FifoCount, Filled, FifoReader, Dist, Writers, Chunks
  <2>2. \A i \in Indices : Dist(i)' = Dist(i) /\ (i # wr_ind_ => buf'[i] = buf[i])
    BY <1>2, <1>a, <1>b DEF FillTail, area, Dist
  <2>3. FifoContents'
    BY <1>2, <1>a, <1>b, <1>f, <1>g, <2>2 DEF FillTail, FifoContents
  <2>4. QED
    BY <2>1, <2>3
<1>3. CASE PushCheck
  BY <1>3, <1>a, <1>b, <1>g
  DEF PushCheck, WriterAt, FifoCount, FifoContents, Filled, FifoReader, Dist,
      Writers
<1>4. CASE PushFIFO
  <2>1. Dist(NextInd(wr_ind_)) = Dist(wr_ind_) + 1
    BY <1>4, <1>b, <1>d, <1>e, SMTT(30) DEF PushFIFO, WriterAt, Dist, Indices
  <2>2. UNCHANGED <<rd_ind_, pops, buf, reader>> /\ pushes' = pushes + 1
        /\ wr_ind_' = NextInd(wr_ind_) /\ \A i : Dist(i)' = Dist(i)
    BY <1>4, <1>a DEF PushFIFO, Dist
  <2>3. writer'.pc = "idle" /\ writer'.val = pushes + 1
    BY <1>4, <1>a, <1>b, <1>g
    DEF PushFIFO, WriterAt, AfterPush, FifoCount, Writers
  <2>4. FifoCount'
    BY <1>4, <1>b, <1>f, <2>1, <2>2, <2>3 DEF PushFIFO, FifoCount
  <2>5. buf[wr_ind_].head = pushes + 1 /\ buf[wr_ind_].tail = pushes + 1
    <3>1. writer.pc = "push"
      BY <1>4 DEF PushFIFO, WriterAt
    <3>2. QED
      BY <3>1, <1>g DEF Filled, FifoCount
  <2>6. ASSUME NEW i \in Indices, Dist(i) <= pushes + 1 - pops
        PROVE  buf[i].head = pops + Dist(i) /\ buf[i].tail = pops + Dist(i)
    <3>1. CASE i = wr_ind_
      BY <1>b, <1>f, <2>5, <3>1
    <3>2. CASE i # wr_ind_
      <4>1. Dist(i) <= pushes - pops
        BY <1>b, <1>f, <2>6, <3>2
      <4>2. QED
        BY <1>g, <4>1 DEF FifoContents
    <3>3. QED
      BY <3>1, <3>2
  <2>7. FifoContents'
    BY <1>a, <1>b, <1>f, <2>2, <2>6 DEF FifoContents
  <2>8. Filled' /\ FifoReader'
    BY <1>4, <1>g, <2>3 DEF PushFIFO, Filled, FifoReader
  <2>9. QED
    BY <2>4, <2>7, <2>8
<1>5. CASE PopCheck
  BY <1>5, <1>a, <1>b, <1>g
  DEF PopCheck, ReaderAt, FifoCount, FifoContents, Filled, FifoReader, Dist,
      ReaderStates
<1>6. CASE PopFIFO
  <2>1. \A i \in Indices :
          Dist(i)' = IF i = rd_ind_ THEN number_chunks_ - 1 ELSE Dist(i) - 1
    BY <1>6, <1>a, <1>b, <1>d DEF PopFIFO, Dist, area, Indices
  <2>2. wr_ind_ # rd_ind_
    BY <1>a DEF Apart
  <2>3. FifoCount'
    BY <1>6, <1>b, <1>f, <1>g, <2>1, <2>2 DEF PopFIFO, FifoCount
  <2>4. pushes - pops <= number_chunks_ - 2
    BY <1>b, <1>f
  <2>5. ASSUME NEW i \in Indices, Dist(i)' <= pushes - (pops + 1)
        PROVE  buf[i].head = pops + 1 + Dist(i)' /\ buf[i].tail = pops + 1 + Dist(i)'
    <3>1. Dist(i)' = Dist(i) - 1
      BY <1>b, <2>1, <2>4, <2>5
    <3>2. Dist(i) <= pushes - pops
      BY <1>b, <1>f, <2>5, <3>1
    <3>3. QED
      BY <1>b, <1>f, <1>g, <3>1, <3>2 DEF FifoContents
  <2>6. FifoContents'
    BY <1>6, <1>a, <2>5 DEF PopFIFO, FifoContents
  <2>7. Filled' /\ FifoReader'
    BY <1>6, <1>b, <1>g DEF PopFIFO, Filled, FifoReader, ReaderStates
  <2>8. QED
    BY <2>3, <2>6, <2>7
<1>7. ASSUME NEW r \in Readers, ReadHead(r) \/ ReadTail(r) PROVE Goal'
  <2>1. r = Consumer /\ reader[r].ind = rd_ind_
    BY <1>7, <1>b, <1>c, <1>e DEF ReadHead, ReadTail
  <2>2. buf[rd_ind_].head = pops /\ buf[rd_ind_].tail = pops
    <3>1. wr_ind_ # rd_ind_
      BY <1>a DEF Apart
    <3>2. Dist(wr_ind_) # 0
      BY <1>b, <1>f, <3>1
    <3>3. Dist(rd_ind_) <= pushes - pops
      BY <1>b, <1>f, <3>2
    <3>4. QED
      BY <1>b, <1>f, <1>g, <3>3 DEF FifoContents
  <2>3. CASE ReadHead(r)
    BY <2>3, <1>a, <1>b, <1>g, <2>1, <2>2
    DEF ReadHead, FifoReader, ReaderStates, FifoCount, FifoContents, Filled,
        Dist
  <2>4. CASE ReadTail(r)
    BY <2>4, <1>a, <1>b, <1>g, <2>1, <2>2
    DEF ReadTail, FifoReader, ReaderStates, FifoCount, FifoContents, Filled,
        Dist
  <2>5. QED
    BY <1>7, <2>3, <2>4
<1>8. ~SwapCheck /\ ~DualBufSwap
  BY <1>c DEF SwapCheck, DualBufSwap, WriterAt
<1>9. \A r \in Readers : ~GetReadBufP(r) /\ ~AllocPoolChunk(r)
  BY <1>a, <1>c
  DEF GetReadBufP, AllocPoolChunk, AllocLock, AllocAdvance, AllocTake, ReaderAt
<1>10. CASE UNCHANGED areaVars
  BY <1>10, <1>a, <1>g
  DEF areaVars, FifoCount, FifoContents, Filled, FifoReader, Dist
<1>11. QED
  BY <1>1, <1>2, <1>3, <1>4, <1>5, <1>6, <1>7, <1>8, <1>9, <1>10
  DEF AreaNext, Write, Read

-----------------------------------------------------------------------------
(***************************************************************************)
(* The dual buffer                                                         *)
(***************************************************************************)

(* Steps from the chunk of the reader back to chunk i.                     *)
Back(i) == IF i <= rd_ind_ THEN rd_ind_ - i ELSE rd_ind_ + number_chunks_ - i

(* The chunks from rd_ind_ back hold the values pops, pops - 1, .., except *)
(* the oldest, which the writer fills.                                     *)
DualCount ==
  /\ number_chunks_ = 2 => pops = 0 /\ writer.pc \notin {"push", "swap"}
  /\ number_chunks_ = 2 \/ writer.pc \notin {"pop", "swap"} => wr_ind_ = NextInd(rd_ind_)
  /\ number_chunks_ # 2 /\ writer.pc \in {"pop", "swap"} =>
       wr_ind_ = NextInd(NextInd(rd_ind_))
  /\ number_chunks_ # 2 => writer.val = pops + (IF writer.pc = "idle" THEN 0 ELSE 1)

DualContents ==
  \A i \in Indices :
    Back(i) <= number_chunks_ - 2 /\ Back(i) <= pops =>
      buf[i].head = pops - Back(i) /\ buf[i].tail = pops - Back(i)

DualPushed ==
  number_chunks_ # 2 /\ writer.pc \in {"pop", "swap"} =>
    buf[NextInd(rd_ind_)].head = writer.val /\ buf[NextInd(rd_ind_)].tail = writer.val

DualReader(r) ==
  /\ reader[r].pc \in {"read", "half"} /\ pops - reader[r].since <= number_chunks_ - 1 =>
       Back(reader[r].ind) = pops - reader[r].since
  /\ reader[r].pc = "half" /\ pops - reader[r].since <= number_chunks_ - 2 =>
       reader[r].head = reader[r].since
  /\ reader[r].pc = "idle" /\ reader[r].laps <= number_chunks_ - 2 =>
       reader[r].head = reader[r].since /\ reader[r].tail = reader[r].since

DualInv == use = "dual" =>
  DualCount /\ DualContents /\ DualPushed /\ Filled /\ \A r \in Readers : DualReader(r)

LEMMA DualStep == TypeInv /\ Roles /\ Apart /\ DualInv /\ [AreaNext]_areaVars => DualInv'
<1> DEFINE Goal == DualCount /\ DualContents /\ DualPushed /\ Filled /\ \A r \in Readers : DualReader(r)
<1> SUFFICES ASSUME TypeInv, Roles, Apart, DualInv, [AreaNext]_areaVars, use' = "dual"
             PROVE  Goal'
  BY DEF DualInv
<1>a. number_chunks_' = number_chunks_ /\ Indices' = Indices /\ use = "dual"
  BY AreaKept DEF area
<1>n. \A i \in Indices : NextInd(i)' = NextInd(i)
  BY <1>a DEF NextInd
<1>b. /\ number_chunks_ \in Nat \ {0, 1} /\ pushes \in Nat /\ pops \in Nat
      /\ wr_ind_ \in Indices /\ rd_ind_ \in Indices /\ writer \in Writers
      /\ reader \in [Readers -> ReaderStates] /\ buf \in [Indices -> Chunks]
      /\ \A r \in Readers : reader[r].since <= pops
  BY MemAreaAssumption DEF TypeInv, AreaTypeOK
<1>c. \A r \in Readers : reader[r].pc \in {"idle", "read", "half"}
  BY <1>a DEF Roles, ReaderRole
<1>d. \A i \in Indices : /\ NextInd(i) = IF i = number_chunks_ - 1 THEN 0 ELSE i + 1
                         /\ NextInd(i) \in Indices /\ NextInd(i) # i
  BY <1>b, NextIndValue, NextIndProperties
<1>e. /\ number_chunks_ = 2 => NextInd(NextInd(rd_ind_)) = rd_ind_
      /\ number_chunks_ # 2 => NextInd(NextInd(rd_ind_)) # rd_ind_
      /\ NextInd(NextInd(rd_ind_)) # NextInd(rd_ind_)
  BY <1>b, <1>d DEF Indices
<1>f. /\ Back(rd_ind_) = 0 /\ Back(NextInd(rd_ind_)) = number_chunks_ - 1
      /\ \A i, j \in Indices : Back(i) = Back(j) => i = j
      /\ \A i \in Indices : Back(i) \in 0 .. number_chunks_ - 1
  <2>1. Back(rd_ind_) = 0 /\ \A i \in Indices : Back(i) \in 0 .. number_chunks_ - 1
    BY <1>b DEF Back, Indices
  <2>2. \A i, j \in Indices : Back(i) = Back(j) => i = j
    BY <1>b DEF Back, Indices
  <2>3. NextInd(rd_ind_) = IF rd_ind_ = number_chunks_ - 1 THEN 0 ELSE rd_ind_ + 1
    BY <1>b, <1>d
  <2>4. Back(NextInd(rd_ind_)) = number_chunks_ - 1
    BY <1>b, <2>3 DEF Back, Indices
  <2>5. QED
    BY <2>1, <2>2, <2>4
<1>g. DualCount /\ DualContents /\ DualPushed /\ Filled /\ \A r \in Readers : DualReader(r)
  BY <1>a DEF DualInv
<1>h. \A r \in Readers : reader[r].since \in Nat /\ reader[r].ind \in Indices
  BY <1>b DEF ReaderStates
<1>1. ASSUME FillHead \/ FillTail PROVE Goal'
  <2>1. UNCHANGED <<rd_ind_, wr_ind_, pops, reader>> /\ writer.pc \in {"idle", "half"}
        /\ wr_ind_ = NextInd(rd_ind_)
    BY <1>1, <1>g DEF FillHead, FillTail, WriterAt, DualCount
  <2>2. \A i : Back(i)' = Back(i)
    BY <1>a, <2>1 DEF Back
  <2>3. \A i \in Indices : i # wr_ind_ => buf'[i] = buf[i]
    BY <1>1, <1>b DEF FillHead, FillTail
  <2>4. /\ writer'.pc \in {"half", "filled"}
        /\ writer'.val = IF writer.pc = "idle" THEN writer.val + 1 ELSE writer.val
    BY <1>1, <1>b DEF FillHead, FillTail, WriterAt, Writers
  <2>5. DualCount'
    BY <1>a, <1>b, <1>d, <1>n, <1>g, <2>1, <2>4 DEF DualCount, Writers
  <2>6. DualContents' /\ DualPushed'
    BY <1>a, <1>b, <1>d, <1>n, <1>f, <1>g, <2>1, <2>2, <2>3, <2>4
    DEF DualContents, DualPushed
  <2>7. CASE FillHead
    <3>1. Filled'
      BY <2>7, <1>b DEF FillHead, Filled, Writers, Chunks
    <3>2. QED
      BY <1>a, <1>g, <2>1, <2>2, <2>5, <2>6, <3>1 DEF DualReader
  <2>8. CASE FillTail
    <3>1. Filled'
      BY <2>8, <1>b, <1>g DEF FillTail, WriterAt, Filled, Writers, Chunks
    <3>2. QED
      BY <1>a, <1>g, <2>1, <2>2, <2>5, <2>6, <3>1 DEF DualReader
  <2>9. QED
    BY <1>1, <2>7, <2>8
<1>2. CASE PushCheck
  <2>1. UNCHANGED <<rd_ind_, wr_ind_, pops, reader, buf>> /\ writer'.val = writer.val
        /\ writer.pc = "filled"
        /\ writer'.pc = IF NextInd(wr_ind_) = rd_ind_ THEN "pop" ELSE "push"
    BY <1>2, <1>b DEF PushCheck, WriterAt, Full, Writers
  <2>2. writer'.pc = IF number_chunks_ = 2 THEN "pop" ELSE "push"
    BY <1>e, <1>g, <2>1 DEF DualCount
  <2>3. \A i : Back(i)' = Back(i)
    BY <1>a, <2>1 DEF Back
  <2>4. DualCount' /\ Filled'
    BY <1>a, <1>b, <1>d, <1>n, <1>g, <2>1, <2>2 DEF DualCount, Filled
  <2>5. DualContents' /\ DualPushed'
    BY <1>a, <1>b, <1>d, <1>n, <1>g, <2>1, <2>2, <2>3
    DEF DualContents, DualPushed
  <2>6. QED
    BY <1>a, <1>g, <2>1, <2>3, <2>4, <2>5 DEF DualReader
<1>3. CASE PushFIFO
  <2>1. UNCHANGED <<rd_ind_, pops, reader, buf>> /\ writer'.val = writer.val
        /\ writer.pc = "push" /\ writer'.pc = "pop" /\ wr_ind_' = NextInd(wr_ind_)
    BY <1>3, <1>a, <1>b DEF PushFIFO, WriterAt, AfterPush, Writers
  <2>2. number_chunks_ # 2 /\ wr_ind_ = NextInd(rd_ind_)
    BY <1>g, <2>1 DEF DualCount
  <2>3. \A i : Back(i)' = Back(i)
    BY <1>a, <2>1 DEF Back
  <2>4. DualCount' /\ Filled'
    BY <1>a, <1>b, <1>d, <1>n, <1>g, <2>1, <2>2 DEF DualCount, Filled
  <2>5. DualContents' /\ DualPushed'
    BY <1>a, <1>b, <1>d, <1>n, <1>g, <2>1, <2>2, <2>3
    DEF DualContents, DualPushed, Filled
  <2>6. QED
    BY <1>a, <1>g, <2>1, <2>3, <2>4, <2>5 DEF DualReader
<1>4. CASE SwapCheck
  <2>1. UNCHANGED <<rd_ind_, wr_ind_, pops, reader, buf>> /\ writer'.val = writer.val
        /\ writer.pc = "pop"
        /\ writer'.pc = IF NextInd(rd_ind_) = wr_ind_ THEN "idle" ELSE "swap"
    BY <1>4, <1>b DEF SwapCheck, WriterAt, Empty, Writers
  <2>2. writer'.pc = IF number_chunks_ = 2 THEN "idle" ELSE "swap"
    BY <1>e, <1>g, <2>1 DEF DualCount
  <2>3. \A i : Back(i)' = Back(i)
    BY <1>a, <2>1 DEF Back
  <2>4. DualCount' /\ Filled'
    BY <1>a, <1>b, <1>d, <1>n, <1>g, <2>1, <2>2 DEF DualCount, Filled
  <2>5. DualContents' /\ DualPushed'
    BY <1>a, <1>b, <1>d, <1>n, <1>g, <2>1, <2>2, <2>3
    DEF DualContents, DualPushed
  <2>6. QED
    BY <1>a, <1>g, <2>1, <2>3, <2>4, <2>5 DEF DualReader
<1>5. CASE DualBufSwap
  <2>1. UNCHANGED <<wr_ind_, reader, buf>> /\ writer'.val = writer.val
        /\ writer.pc = "swap" /\ writer'.pc = "idle"
        /\ rd_ind_' = NextInd(rd_ind_) /\ pops' = pops + 1
    BY <1>5, <1>b DEF DualBufSwap, WriterAt, Writers
  <2>2. number_chunks_ # 2 /\ wr_ind_ = NextInd(NextInd(rd_ind_)) /\ writer.val = pops + 1
    BY <1>g, <2>1 DEF DualCount
  <2>3. \A i \in Indices : Back(i)' = IF i = NextInd(rd_ind_) THEN 0 ELSE Back(i) + 1
    <3>1. /\ number_chunks_ \in Nat /\ rd_ind_ \in 0 .. number_chunks_ - 1
          /\ rd_ind_' = IF rd_ind_ = number_chunks_ - 1 THEN 0 ELSE rd_ind_ + 1
          /\ number_chunks_' = number_chunks_ /\ NextInd(rd_ind_) = rd_ind_'
      BY <1>a, <1>b, <1>d, <2>1 DEF Indices
    <3>2. QED
      BY <3>1 DEF Back, Indices
  <2>4. DualCount' /\ DualPushed' /\ Filled'
    BY <1>a, <1>b, <1>d, <1>n, <2>1, <2>2 DEF DualCount, DualPushed, Filled
  <2>5. ASSUME NEW i \in Indices, Back(i)' <= number_chunks_ - 2, Back(i)' <= pops + 1
        PROVE  buf[i].head = pops + 1 - Back(i)' /\ buf[i].tail = pops + 1 - Back(i)'
    <3>1. CASE i = NextInd(rd_ind_)
      BY <1>b, <1>g, <2>1, <2>2, <2>3, <3>1 DEF DualPushed
    <3>2. CASE i # NextInd(rd_ind_)
      <4>1. Back(i)' = Back(i) + 1 /\ Back(i) \in Nat
        BY <1>f, <1>b, <2>3, <3>2
      <4>2. Back(i) <= number_chunks_ - 2 /\ Back(i) <= pops
        BY <1>b, <2>5, <4>1
      <4>3. QED
        BY <1>b, <1>g, <4>1, <4>2 DEF DualContents
    <3>3. QED
      BY <3>1, <3>2
  <2>6. DualContents'
    BY <1>a, <1>b, <1>f, <2>1, <2>3, <2>5 DEF DualContents
  <2>7. ASSUME NEW r \in Readers PROVE DualReader(r)'
    <3>0. /\ reader' = reader /\ pops' = pops + 1 /\ number_chunks_' = number_chunks_
          /\ pops \in Nat /\ reader[r].since \in Nat /\ number_chunks_ \in Nat
      BY <1>a, <1>b, <1>h, <2>1
    <3>1. pops + 1 - reader[r].since <= number_chunks_ - 1 =>
            pops - reader[r].since <= number_chunks_ - 2
      BY <1>b, <1>h
    <3>2. DualReader(r)
      BY <1>g
    <3>3. reader[r].pc \in {"read", "half"} /\ pops + 1 - reader[r].since <= number_chunks_ - 1 =>
            Back(reader[r].ind)' = pops + 1 - reader[r].since
      <4> SUFFICES ASSUME reader[r].pc \in {"read", "half"},
                          pops + 1 - reader[r].since <= number_chunks_ - 1
                   PROVE  Back(reader[r].ind)' = pops + 1 - reader[r].since
        OBVIOUS
      <4>1. pops - reader[r].since <= number_chunks_ - 1
        BY <1>b, <1>h, <3>1
      <4>2. Back(reader[r].ind) = pops - reader[r].since
        BY <3>2, <4>1 DEF DualReader
      <4>3. reader[r].ind # NextInd(rd_ind_)
        BY <1>b, <1>f, <1>h, <3>1, <4>2
      <4>4. Back(reader[r].ind)' = Back(reader[r].ind) + 1
        BY <1>h, <2>1, <2>3, <4>3
      <4>5. QED
        BY <1>b, <1>h, <4>2, <4>4
    <3>4. reader[r].pc = "half" /\ pops + 1 - reader[r].since <= number_chunks_ - 2 =>
            reader[r].head = reader[r].since
      <4>1. pops + 1 - reader[r].since <= number_chunks_ - 2 =>
              pops - reader[r].since <= number_chunks_ - 2
        BY <1>b, <1>h
      <4>2. QED
        BY <3>2, <4>1 DEF DualReader
    <3>5. reader'[r].pc \in {"read", "half"} /\ pops' - reader'[r].since <= number_chunks_' - 1 =>
            Back(reader[r].ind)' = pops' - reader'[r].since
      BY <3>0, <3>3
    <3>6. reader'[r].pc = "half" /\ pops' - reader'[r].since <= number_chunks_' - 2 =>
            reader'[r].head = reader'[r].since
      BY <3>0, <3>4
    <3>7. reader'[r].pc = "idle" /\ reader'[r].laps <= number_chunks_' - 2 =>
            reader'[r].head = reader'[r].since /\ reader'[r].tail = reader'[r].since
      BY <3>0, <3>2 DEF DualReader
    <3>8. QED
      BY <3>5, <3>6, <3>7 DEF DualReader
  <2>8. QED
    BY <2>4, <2>6, <2>7
<1>6. ASSUME NEW r \in Readers, GetReadBufP(r) \/ ReadHead(r) \/ ReadTail(r) PROVE Goal'
  <2>1. UNCHANGED <<rd_ind_, wr_ind_, pops, buf, writer>>
    BY <1>6 DEF GetReadBufP, ReadHead, ReadTail
  <2>2. \A i : Back(i)' = Back(i)
    BY <1>a, <2>1 DEF Back
  <2>3. DualCount' /\ DualContents' /\ DualPushed' /\ Filled'
    BY <1>a, <1>b, <1>d, <1>n, <1>g, <2>1, <2>2
    DEF DualCount, DualContents, DualPushed, Filled
  <2>4. \A q \in Readers : q # r => reader'[q] = reader[q]
    BY <1>6, <1>b DEF GetReadBufP, ReadHead, ReadTail
  <2>5. ASSUME reader[r].pc \in {"read", "half"}, pops - reader[r].since <= number_chunks_ - 2
        PROVE  buf[reader[r].ind].head = reader[r].since /\ buf[reader[r].ind].tail = reader[r].since
    <3>1. Back(reader[r].ind) = pops - reader[r].since
      BY <1>b, <1>g, <1>h, <2>5 DEF DualReader
    <3>2. QED
      BY <1>b, <1>g, <1>h, <2>5, <3>1 DEF DualContents
  <2>6. DualReader(r)'
    <3>1. CASE GetReadBufP(r)
      <4>1. reader'[r].pc = "read" /\ reader'[r].ind = rd_ind_ /\ reader'[r].since = pops
        BY <3>1, <1>b DEF GetReadBufP, ReaderStates
      <4>2. QED
        BY <1>a, <1>b, <1>f, <2>1, <2>2, <4>1 DEF DualReader
    <3>2. CASE ReadHead(r)
      <4>1. /\ reader[r].pc = "read" /\ reader'[r].pc = "half"
            /\ reader'[r].ind = reader[r].ind /\ reader'[r].since = reader[r].since
            /\ reader'[r].head = buf[reader[r].ind].head
        BY <3>2, <1>b DEF ReadHead, ReaderStates
      <4>2. QED
        BY <1>a, <1>g, <2>1, <2>2, <2>5, <4>1 DEF DualReader
    <3>3. CASE ReadTail(r)
      <4>1. /\ reader[r].pc = "half" /\ reader'[r].pc = "idle"
            /\ reader'[r].since = reader[r].since /\ reader'[r].head = reader[r].head
            /\ reader'[r].tail = buf[reader[r].ind].tail
            /\ reader'[r].laps = pops - reader[r].since
        BY <3>3, <1>b DEF ReadTail, ReaderStates
      <4>2. QED
        BY <1>a, <1>g, <2>1, <2>2, <2>5, <4>1 DEF DualReader
    <3>4. QED
      BY <1>6, <3>1, <3>2, <3>3
  <2>7. \A q \in Readers : q # r => DualReader(q)'
    BY <1>a, <1>g, <2>1, <2>2, <2>4 DEF DualReader
  <2>8. QED
    BY <2>3, <2>6, <2>7
<1>7. ~PopCheck /\ ~PopFIFO /\ \A r \in Readers : ~AllocPoolChunk(r)
  BY <1>a, <1>c, MemAreaAssumption
  DEF PopCheck, PopFIFO, AllocPoolChunk, AllocLock, AllocAdvance, AllocTake,
      ReaderAt
<1>8. CASE UNCHANGED areaVars
  <2>1. UNCHANGED <<rd_ind_, wr_ind_, pops, buf, writer, reader>>
    BY <1>8 DEF areaVars
  <2>2. \A i : Back(i)' = Back(i)
    BY <1>a, <2>1 DEF Back
  <2>3. QED
    BY <1>a, <1>b, <1>d, <1>n, <1>g, <2>1, <2>2
    DEF DualCount, DualContents, DualPushed, Filled, DualReader
<1>9. QED
  BY <1>1, <1>2, <1>3, <1>4, <1>5, <1>6, <1>7, <1>8 DEF AreaNext, Write, Read

-----------------------------------------------------------------------------
(***************************************************************************)
(* The pool                                                                *)
(***************************************************************************)

(* The chunk handed out last is the one at wr_ind_, or the one before it   *)
(* while a thread is between its two steps.                                *)
PoolLock ==
  \A t \in Readers : reader[t].pc \in {"alloc", "take"} => out_lock_ = t

PoolLast ==
  handed # << >> =>
    wr_ind_ = IF \E t \in Readers : reader[t].pc = "take" THEN NextInd(handed[Len(handed)])
                                                          ELSE handed[Len(handed)]

PoolOrder ==
  \A j, k \in DOMAIN handed :
    j <= k /\ k < j + number_chunks_ =>
      handed[k] \in {handed[j] + (k - j), handed[j] + (k - j) - number_chunks_}

PoolInv ==
  /\ use = "pool" => PoolLock /\ PoolLast /\ PoolOrder
  /\ use # "pool" => handed = << >>

LEMMA PoolStep == TypeInv /\ Roles /\ PoolInv /\ [AreaNext]_areaVars => PoolInv'
<1> SUFFICES ASSUME TypeInv, Roles, PoolInv, [AreaNext]_areaVars
             PROVE  PoolInv'
  OBVIOUS
<1>0. use # "pool" => PoolInv'
  <2>1. HAVE use # "pool"
  <2>2. handed = << >> /\ use' # "pool"
    BY <2>1, AreaKept DEF PoolInv, area
  <2>3. \A r \in Readers : reader[r].pc # "take"
    BY <2>1, MemAreaAssumption DEF Roles, ReaderRole, TypeInv, AreaTypeOK
  <2>4. handed' = handed
    BY <2>3, Zenon
    DEF AreaNext, areaVars, Write, Read, AllocPoolChunk, FillHead, FillTail,
        PushCheck, PushFIFO, SwapCheck, DualBufSwap, PopCheck, PopFIFO,
        GetReadBufP, ReadHead, ReadTail, AllocLock, AllocAdvance, AllocTake,
        ReaderAt
  <2>5. QED
    BY <2>2, <2>4 DEF PoolInv
<1> SUFFICES ASSUME use = "pool"
             PROVE  (PoolLock /\ PoolLast /\ PoolOrder)'
  BY <1>0, AreaKept DEF PoolInv, area
<1>a. /\ number_chunks_' = number_chunks_ /\ Indices' = Indices /\ use = "pool"
      /\ \A i : NextInd(i)' = NextInd(i)
  BY AreaKept DEF area, NextInd
<1>b. /\ number_chunks_ \in Nat \ {0, 1} /\ wr_ind_ \in Indices /\ writer \in Writers
      /\ reader \in [Readers -> ReaderStates] /\ handed \in Seq(Indices)
      /\ Consumer \in Readers /\ NoThread \notin Readers
  BY MemAreaAssumption DEF TypeInv, AreaTypeOK
<1>c. writer.pc = "idle" /\ \A r \in Readers : reader[r].pc \in {"idle", "alloc", "take"}
  BY <1>a DEF Roles, WriterRole, ReaderRole
<1>d. \A i \in Indices : /\ NextInd(i) = IF i = number_chunks_ - 1 THEN 0 ELSE i + 1
                         /\ NextInd(i) \in Indices
  BY <1>b, NextIndValue, NextIndProperties
<1>g. PoolLock /\ PoolLast /\ PoolOrder
  BY <1>a DEF PoolInv
<1>1. ASSUME NEW t \in Readers, AllocLock(t) PROVE (PoolLock /\ PoolLast /\ PoolOrder)'
  <2>1. /\ out_lock_ = NoThread /\ out_lock_' = t /\ UNCHANGED <<wr_ind_, handed>>
        /\ \A q \in Readers : reader'[q].pc = IF q = t THEN "alloc" ELSE reader[q].pc
    BY <1>1, <1>b DEF AllocLock, ReaderAt, ReaderStates
  <2>2. \A q \in Readers : reader[q].pc = "idle"
    BY <1>b, <1>c, <1>g, <2>1 DEF PoolLock
  <2>3. PoolLock' /\ PoolLast'
    BY <1>a, <1>g, <2>1, <2>2 DEF PoolLock, PoolLast
  <2>4. QED
    BY <1>a, <1>g, <2>1, <2>3 DEF PoolOrder
<1>2. ASSUME NEW t \in Readers, AllocAdvance(t) PROVE (PoolLock /\ PoolLast /\ PoolOrder)'
  <2>1. /\ reader[t].pc = "alloc" /\ UNCHANGED <<out_lock_, handed>>
        /\ wr_ind_' = NextInd(wr_ind_)
        /\ \A q \in Readers : reader'[q].pc = IF q = t THEN "take" ELSE reader[q].pc
    BY <1>2, <1>b DEF AllocAdvance, ReaderAt, ReaderStates
  <2>2. \A q \in Readers : q # t => reader[q].pc \notin {"alloc", "take"}
    BY <1>g, <2>1 DEF PoolLock
  <2>3. PoolLock' /\ PoolLast'
    BY <1>a, <1>g, <2>1, <2>2 DEF PoolLock, PoolLast
  <2>4. QED
    BY <1>a, <1>g, <2>1, <2>3 DEF PoolOrder
<1>3. ASSUME NEW t \in Readers, AllocTake(t) PROVE (PoolLock /\ PoolLast /\ PoolOrder)'
  <2>1. /\ reader[t].pc = "take" /\ out_lock_' = NoThread /\ UNCHANGED wr_ind_
        /\ handed' = Append(handed, wr_ind_)
        /\ \A q \in Readers : reader'[q].pc = IF q = t THEN "idle" ELSE reader[q].pc
    BY <1>3, <1>b DEF AllocTake, ReaderAt, ReaderStates
  <2>2. \A q \in Readers : q # t => reader[q].pc \notin {"alloc", "take"}
    BY <1>g, <2>1 DEF PoolLock
  <2>3. /\ Len(handed) \in Nat /\ DOMAIN handed = 1 .. Len(handed)
        /\ DOMAIN handed' = 1 .. Len(handed) + 1 /\ Len(handed') = Len(handed) + 1
        /\ handed'[Len(handed) + 1] = wr_ind_
        /\ \A j \in 1 .. Len(handed) : handed'[j] = handed[j] /\ handed[j] \in Indices
    BY <1>b, <2>1
  <2>4. PoolLock' /\ PoolLast'
    BY <1>a, <2>1, <2>2, <2>3 DEF PoolLock, PoolLast
  <2>5. ASSUME NEW j \in 1 .. Len(handed), Len(handed) + 1 < j + number_chunks_
        PROVE  wr_ind_ \in {handed[j] + (Len(handed) + 1 - j),
                            handed[j] + (Len(handed) + 1 - j) - number_chunks_}
    <3> DEFINE last == Len(handed)
    <3>1. handed # << >>
      BY <2>3, <2>5
    <3>2. wr_ind_ = NextInd(handed[last])
      BY <1>g, <2>1, <3>1 DEF PoolLast
    <3>3. handed[last] \in {handed[j] + (last - j), handed[j] + (last - j) - number_chunks_}
      <4>1. last \in DOMAIN handed /\ j \in DOMAIN handed /\ j <= last
            /\ last < j + number_chunks_
        BY <1>b, <2>3, <2>5
      <4>2. QED
        BY <1>g, <4>1 DEF PoolOrder
    <3>4. wr_ind_ = IF handed[last] = number_chunks_ - 1 THEN 0 ELSE handed[last] + 1
      BY <1>d, <2>3, <2>5, <3>2
    <3>5. handed[j] \in 0 .. number_chunks_ - 1 /\ handed[last] \in 0 .. number_chunks_ - 1
      BY <2>3, <2>5 DEF Indices
    <3>6. QED
      BY <1>b, <2>3, <2>5, <3>3, <3>4, <3>5, SMTT(30)
  <2>6. PoolOrder'
    <3>1. SUFFICES ASSUME NEW j \in 1 .. Len(handed) + 1, NEW k \in 1 .. Len(handed) + 1,
                          j <= k, k < j + number_chunks_
                   PROVE  handed'[k] \in {handed'[j] + (k - j),
                                          handed'[j] + (k - j) - number_chunks_}
      BY <1>a, <2>3 DEF PoolOrder
    <3>2. CASE k \in 1 .. Len(handed)
      BY <1>g, <2>3, <3>1, <3>2 DEF PoolOrder
    <3>3. CASE k = Len(handed) + 1 /\ j \in 1 .. Len(handed)
      BY <2>3, <2>5, <3>1, <3>3
    <3>4. CASE k = Len(handed) + 1 /\ j = Len(handed) + 1
      BY <1>b, <2>3, <3>4 DEF Indices
    <3>5. QED
      BY <2>3, <3>1, <3>2, <3>3, <3>4
  <2>7. QED
    BY <2>4, <2>6
<1>4. ~Write
  BY <1>a, <1>c
  DEF Write, FillHead, FillTail, PushCheck, PushFIFO, SwapCheck, DualBufSwap,
      WriterAt
<1>5. ~PopCheck /\ ~PopFIFO /\ \A r \in Readers : ~Read(r)
  BY <1>a, <1>b, <1>c, Zenon
  DEF PopCheck, PopFIFO, Read, GetReadBufP, ReadHead, ReadTail
<1>6. CASE UNCHANGED areaVars
  BY <1>6, <1>a, <1>g DEF areaVars, PoolLock, PoolLast, PoolOrder
<1>7. QED
  BY <1>1, <1>2, <1>3, <1>4, <1>5, <1>6 DEF AreaNext, AllocPoolChunk

-----------------------------------------------------------------------------
(***************************************************************************)
(* The theorems                                                            *)
(***************************************************************************)

AreaIInv == TypeInv /\ Roles /\ Apart /\ FifoInv /\ DualInv /\ PoolInv

LEMMA AreaIInvInit == AreaInit => AreaIInv
<1> SUFFICES ASSUME AreaInit
             PROVE  AreaIInv
  OBVIOUS
<1>1. TypeInv
  BY TypeInvInit
<1>2. number_chunks_ \in Nat \ {0, 1} /\ Consumer \in Readers
  BY MemAreaAssumption DEF AreaInit
<1>3. /\ writer.pc = "idle" /\ writer.val = 0 /\ rd_ind_ = 0 /\ wr_ind_ = 1
      /\ pushes = 0 /\ pops = 0 /\ handed = << >>
      /\ \A i \in Indices : buf[i].head = 0 /\ buf[i].tail = 0
      /\ \A r \in Readers : reader[r].pc = "idle" /\ reader[r].head = 0
                            /\ reader[r].tail = 0 /\ reader[r].since = 0
  BY DEF AreaInit, Whole
<1>4. Roles /\ Apart
  BY <1>2, <1>3
  DEF Roles, WriterRole, ReaderRole, Apart, ChecksStayValid, ReadsLatest
<1>5. FifoInv
  <2>1. \A i \in Indices : Dist(i) = i
    BY <1>2, <1>3 DEF Dist, Indices
  <2>2. 1 \in Indices
    BY <1>2 DEF Indices
  <2>3. FifoCount
    BY <1>3, <2>1, <2>2 DEF FifoCount
  <2>4. QED
    BY <1>2, <1>3, <2>1, <2>3
    DEF FifoInv, FifoContents, Filled, FifoReader, Indices
<1>6. DualInv
  <2>1. NextInd(0) = 1
    BY <1>2, NextIndValue DEF Indices
  <2>2. DualCount /\ DualPushed /\ Filled /\ \A r \in Readers : DualReader(r)
    BY <1>2, <1>3, <2>1 DEF DualCount, DualPushed, Filled, DualReader
  <2>3. DualContents
    BY <1>2, <1>3 DEF DualContents, Back, Indices
  <2>4. QED
    BY <2>2, <2>3 DEF DualInv
<1>7. PoolInv
  BY <1>3 DEF PoolInv, PoolLock, PoolLast, PoolOrder
<1>8. QED
  BY <1>1, <1>4, <1>5, <1>6, <1>7 DEF AreaIInv

LEMMA AreaIInvStep == AreaIInv /\ [AreaNext]_areaVars => AreaIInv'
BY TypeInvStep, RolesStep, ApartStep, FifoStep, DualStep, PoolStep DEF AreaIInv

(* Producer and consumer of a FIFO are never in the same chunk, nor are    *)
(* the writer and what is the latest of a dual buffer, with no lock        *)
(* between them and for every number of chunks.                            *)
THEOREM ChunksApartAlways == AreaSpec => []ChunksApart
<1>1. AreaIInv => ChunksApart
  BY DEF AreaIInv, Apart, ReadsLatest, ChunksApart
<1>2. QED
  BY AreaIInvInit, AreaIInvStep, <1>1, PTL DEF AreaSpec

(* The consumer of a FIFO reads every value once, whole and in order,      *)
(* however long it takes and for every number of chunks.                   *)
THEOREM ReadsInOrderAlways == AreaSpec => []ReadsInOrder
<1>1. AreaIInv => ReadsInOrder
  BY DEF AreaIInv, FifoInv, FifoReader, ReadsInOrder
<1>2. QED
  BY AreaIInvInit, AreaIInvStep, <1>1, PTL DEF AreaSpec

(* A reader of a dual buffer that is not lapped reads, whole, what was the *)
(* latest when it began, for every number of readers and of chunks.        *)
THEOREM ReadsPublishedAlways == AreaSpec => []ReadsPublished
<1>1. AreaIInv => ReadsPublished
  <2> SUFFICES ASSUME AreaIInv, use = "dual", NEW r \in Readers, reader[r].pc = "idle",
                      reader[r].laps < number_chunks_ - 1
               PROVE  reader[r].head = reader[r].since /\ reader[r].tail = reader[r].since
    BY DEF ReadsPublished
  <2>1. reader[r].laps <= number_chunks_ - 2
    BY MemAreaAssumption DEF AreaIInv, TypeInv, AreaTypeOK, ReaderStates
  <2>2. QED
    BY <2>1 DEF AreaIInv, DualInv, DualReader
<1>2. QED
  BY AreaIInvInit, AreaIInvStep, <1>1, PTL DEF AreaSpec

(* A swap publishes what was written, for every number of chunks from      *)
(* three.                                                                  *)
THEOREM SwapPublishesAlways == AreaSpec => []SwapPublishes
<1>1. AreaIInv => SwapPublishes
  <2> SUFFICES ASSUME AreaIInv, use = "dual", number_chunks_ > 2, writer.pc = "idle"
               PROVE  buf[rd_ind_] = Whole(writer.val)
    BY DEF SwapPublishes
  <2>1. /\ number_chunks_ \in Nat \ {0, 1} /\ rd_ind_ \in Indices /\ pops \in Nat
        /\ buf[rd_ind_] \in Chunks
    BY MemAreaAssumption DEF AreaIInv, TypeInv, AreaTypeOK
  <2>2. DualCount /\ DualContents
    BY DEF AreaIInv, DualInv
  <2>3. Back(rd_ind_) = 0
    BY <2>1 DEF Back, Indices
  <2>4. buf[rd_ind_].head = pops /\ buf[rd_ind_].tail = pops
    BY <2>1, <2>2, <2>3 DEF DualContents
  <2>5. pops = writer.val
    BY <2>1, <2>2 DEF DualCount
  <2>6. QED
    BY <2>1, <2>4, <2>5 DEF Whole, Chunks
<1>2. QED
  BY AreaIInvInit, AreaIInvStep, <1>1, PTL DEF AreaSpec

(* However many threads allocate, a chunk of a pool is handed out again    *)
(* only after all others were.                                             *)
THEOREM HandedInTurnAlways == AreaSpec => []HandedInTurn
<1>1. AreaIInv => HandedInTurn
  <2> SUFFICES ASSUME AreaIInv, NEW j \in DOMAIN handed, NEW k \in DOMAIN handed,
                      j < k, k < j + number_chunks_
               PROVE  handed[j] # handed[k]
    BY DEF HandedInTurn
  <2>1. /\ number_chunks_ \in Nat \ {0, 1} /\ handed \in Seq(Indices)
    BY MemAreaAssumption DEF AreaIInv, TypeInv, AreaTypeOK
  <2>2. j \in Nat /\ k \in Nat /\ handed[j] \in Int /\ handed[k] \in Int
    BY <2>1 DEF Indices
  <2>3. CASE use = "pool"
    <3>1. handed[k] \in {handed[j] + (k - j), handed[j] + (k - j) - number_chunks_}
      BY <2>2, <2>3 DEF AreaIInv, PoolInv, PoolOrder
    <3>2. QED
      BY <2>1, <2>2, <3>1
  <2>4. CASE use # "pool"
    BY <2>4 DEF AreaIInv, PoolInv
  <2>5. QED
    BY <2>3, <2>4
<1>2. QED
  BY AreaIInvInit, AreaIInvStep, <1>1, PTL DEF AreaSpec
=============================================================================
