--------------------------- MODULE RegistryProofs ---------------------------
(***************************************************************************)
(* Theorems about the registration of trace formats and profiler points,   *)
(* for any number of processes, addresses, formats and points.             *)
(***************************************************************************)
EXTENDS Registry, SequenceTheorems, TLAPS

FormatSteps == {"format", "format_load", "format_store"}
SetupSteps == {"point_setup", "point_name", "point_alloc"}
PointSteps == {"point", "point_store"} \cup SetupSteps
Steps == FormatSteps \cup PointSteps \cup {"finish"} \cup Resting

Indices == 0 .. MAX_TRACE_FORMATS \cup 0 .. PROF_GROUP_MAX
Locals ==
  [pc : Steps, addr : Addresses \cup {NULL}, k : Nat \ {0}, i : Indices, tmp : Nat,
   trace_id : [DOMAIN FormatList -> Formats \cup {-1}],
   profile_id : [DOMAIN PointList -> Points \cup {-1}]]
PointRecords ==
  [name_ : ValuesOf(PointList) \cup {""}, chunks : {0, 1}, ptr : Addresses \cup {NULL},
   results : SUBSET ValuesOf(PointList)]

(* Has p got the handle of format n, of point n?                           *)
GotFormatOf(p, n) ==
  \/ proc[p].pc \in FormatSteps /\ n < proc[p].k
  \/ proc[p].pc \in PointSteps \cup {"finish", "ready"}
GotPointOf(p, n) ==
  \/ proc[p].pc \in PointSteps /\ n < proc[p].k
  \/ proc[p].pc \in {"finish", "ready"}

TypeInv ==
  /\ num_alloc_formats_ \in Nat \ {0} /\ num_alloc_prof_ \in Nat
  /\ trace_formats_ \in [Formats -> ValuesOf(FormatList) \cup {Default, ""}]
  /\ traces \subseteq [id : Formats, format : ValuesOf(FormatList)]
  /\ prof_fifo_ \in [Points -> PointRecords]
  /\ proc \in [Processes -> Locals]
  /\ DOMAIN sound = Processes

(* Where a process is in its lists and in the tables.                      *)
Placed(p) ==
  /\ proc[p].pc = "down" => proc[p] = Down
  /\ proc[p].pc \in FormatSteps => proc[p].k \in DOMAIN FormatList
  /\ proc[p].pc \in PointSteps => proc[p].k \in DOMAIN PointList
  /\ proc[p].pc \in FormatSteps => proc[p].i \in 0 .. MAX_TRACE_FORMATS
  /\ proc[p].pc \in {"format_load", "format_store"} => proc[p].i \in Formats
  /\ proc[p].pc \in PointSteps => proc[p].i \in 0 .. PROF_GROUP_MAX
  /\ proc[p].pc \in {"point_name", "point_alloc"} => proc[p].i \in Points
  /\ proc[p].pc # "down" => proc[p].addr \in Addresses
  /\ \A n \in DOMAIN FormatList : GotFormatOf(p, n) => proc[p].trace_id[n] \in Formats
  /\ \A n \in DOMAIN PointList : GotPointOf(p, n) => proc[p].profile_id[n] \in Points
Places == \A p \in Processes : Placed(p)

(* What a process that registers alone is about to count is its own.       *)
Own(p) ==
  /\ \A q \in Processes : Registering(q) => q = p
  /\ proc[p].pc = "format" => proc[p].i <= num_alloc_formats_
  /\ proc[p].pc \in {"format_load", "format_store"} =>
       proc[p].i = num_alloc_formats_ /\ SameFormat(proc[p].i, p)
  /\ proc[p].pc = "format_store" => proc[p].tmp = num_alloc_formats_
  /\ proc[p].pc = "point" => proc[p].i <= num_alloc_prof_
  /\ proc[p].pc = "point_store" =>
       proc[p].i = num_alloc_prof_ /\ proc[p].tmp = num_alloc_prof_
  /\ proc[p].pc \in SetupSteps => proc[p].i + 1 = num_alloc_prof_
  /\ proc[p].pc = "point_alloc" => SamePoint(proc[p].i, p)
  /\ proc[p].pc = "finish" \/ (proc[p].pc = "point" /\ proc[p].i > 0) =>
       num_alloc_prof_ <= PROF_GROUP_MAX
Mine == \A p \in Processes : alone[p] /\ Registering(p) => Own(p)

(* The handles of a process that registers alone, or did, or began after   *)
(* one that did.                                                           *)
Sure(p) == sound[p] \/ (alone[p] /\ Registering(p))
FormatAt(f, x) == f \in Formats /\ f < num_alloc_formats_ /\ trace_formats_[f] = x
PointAt(f, x) == f \in Points /\ f < num_alloc_prof_ /\ prof_fifo_[f].name_ = x
Handles(p) ==
  /\ \A n \in DOMAIN FormatList :
       GotFormatOf(p, n) => FormatAt(proc[p].trace_id[n], FormatList[n])
  /\ \A n \in DOMAIN PointList :
       GotPointOf(p, n) =>
         /\ PointAt(proc[p].profile_id[n], PointList[n])
         /\ proc[p].pc \in SetupSteps => proc[p].profile_id[n] # proc[p].i
HandlesRight == \A p \in Processes : Sure(p) => Handles(p)

(* Once a process has registered alone, every name is there and is found.  *)
Finds(p) ==
  /\ sound[p] /\ proc[p].pc \in {"format", "point", "finish"}
  /\ proc[p].pc = "format" =>
       \E f \in Formats : f >= proc[p].i /\ FormatAt(f, FormatList[proc[p].k])
  /\ proc[p].pc = "point" =>
       \E f \in Points : f >= proc[p].i /\ PointAt(f, PointList[proc[p].k])
Complete ==
  /\ \A n \in DOMAIN FormatList : \E f \in Formats : FormatAt(f, FormatList[n])
  /\ \A n \in DOMAIN PointList : \E f \in Points : PointAt(f, PointList[n])
  /\ num_alloc_prof_ <= PROF_GROUP_MAX
Settled ==
  /\ \A p \in Processes : sound[p] => settled
  /\ settled => Complete /\ \A p \in Processes : Registering(p) => Finds(p)
  /\ ~settled => traces = {} /\ \A f \in Points : prof_fifo_[f].results = {}

(* A process that registers as it should does not abort or overrun.        *)
SoundLives ==
  \A p \in Processes : sound[p] => proc[p].pc \notin {"aborted", "overrun"}

(* Nothing raced and nothing was cut off: the tables hold the lists so far. *)
Counted(p) ==
  /\ proc[p].pc = "down" \/ Registering(p)
  /\ proc[p].pc \in FormatSteps => num_alloc_formats_ <= proc[p].k /\ num_alloc_prof_ = 0
  /\ proc[p].pc \in {"point", "point_store"} => num_alloc_prof_ < proc[p].k
  /\ proc[p].pc \in SetupSteps => num_alloc_prof_ <= proc[p].k
SetUpOf(f) ==
  \/ prof_fifo_[f].chunks = 1
  \/ \E p \in Processes : proc[p].pc = "point_setup" /\ proc[p].i = f
Orderly ==
  /\ \A p \in Processes : Registering(p) => alone[p]
  /\ \A p \in Processes : proc[p].pc = "ready" => sound[p]
  /\ ~settled =>
       /\ \A p \in Processes : Counted(p)
       /\ (\A p \in Processes : ~Registering(p)) =>
            num_alloc_formats_ = 1 /\ num_alloc_prof_ = 0
  /\ num_alloc_formats_ <= Len(FormatList) + 1
  /\ num_alloc_prof_ <= Len(PointList)
  /\ \A f \in Points : f < num_alloc_prof_ => SetUpOf(f)
  /\ \A p \in Processes : proc[p].pc # "divided"
Undisturbed == ~cut /\ ~raced => Orderly

(* Where the addresses of the points come from.                            *)
Located ==
  ~cut => \A f \in Points : prof_fifo_[f].name_ # "" =>
    \/ prof_fifo_[f].ptr # NULL
    \/ \E p \in Processes : proc[p].pc = "point_alloc" /\ proc[p].i = f
AtHome(p) ==
  /\ Registering(p) => alone[p] /\ ~settled
  /\ proc[p].pc \in FormatSteps => num_alloc_prof_ = 0
  /\ Registering(p) => \A f \in Points : f < num_alloc_prof_ =>
       prof_fifo_[f].ptr = proc[p].addr \/ (proc[p].pc \in SetupSteps /\ proc[p].i = f)
  /\ sound[p] /\ proc[p].pc = "ready" => \A f \in Points : f < num_alloc_prof_ =>
       prof_fifo_[f].ptr = proc[p].addr
Homes == Located /\ \A p \in Processes : creator[p] => AtHome(p)

-----------------------------------------------------------------------------
LEMMA Sizes ==
  /\ MAX_TRACE_FORMATS \in Nat \ {0} /\ PROF_GROUP_MAX \in Nat \ {0}
  /\ 0 \in Indices /\ NULL \notin Addresses
  <1>1. /\ MAX_TRACE_FORMATS \in Nat \ {0} /\ PROF_GROUP_MAX \in Nat \ {0}
        /\ NULL \notin Addresses
    BY RegistryAssumption
  <1> QED BY <1>1 DEF Indices

LEMMA Ranges ==
  /\ \A f : f \in Formats <=> f \in Nat /\ f < MAX_TRACE_FORMATS
  /\ \A f : f \in Points <=> f \in Nat /\ f < PROF_GROUP_MAX
  BY Sizes DEF Formats, Points

LEMMA Lists ==
  /\ Len(FormatList) \in Nat \ {0} /\ DOMAIN FormatList = 1 .. Len(FormatList)
  /\ Len(PointList) \in Nat \ {0} /\ DOMAIN PointList = 1 .. Len(PointList)
  /\ \A n \in DOMAIN PointList : PointList[n] # ""
  <1>1. /\ FormatList \in Seq(STRING) /\ FormatList # << >>
        /\ PointList \in Seq(STRING \ {""}) /\ PointList # << >>
    BY RegistryAssumption
  <1>2. /\ Len(FormatList) \in Nat /\ DOMAIN FormatList = 1 .. Len(FormatList)
        /\ Len(PointList) \in Nat /\ DOMAIN PointList = 1 .. Len(PointList)
    BY <1>1, LenProperties
  <1>3. Len(FormatList) # 0 /\ Len(PointList) # 0
    BY <1>1, EmptySeq
  <1>4. \A n \in DOMAIN PointList : PointList[n] \in STRING \ {""}
    BY <1>1, <1>2, ElementOfSeq
  <1> QED BY <1>2, <1>3, <1>4

LEMMA Lengths ==
  /\ Len(FormatList) \in Nat \ {0} /\ Len(PointList) \in Nat \ {0}
  /\ \A n : n \in DOMAIN FormatList <=> n \in Nat /\ 1 <= n /\ n <= Len(FormatList)
  /\ \A n : n \in DOMAIN PointList <=> n \in Nat /\ 1 <= n /\ n <= Len(PointList)
  /\ 1 \in DOMAIN FormatList /\ 1 \in DOMAIN PointList
  <1>1. /\ Len(FormatList) \in Nat \ {0} /\ DOMAIN FormatList = 1 .. Len(FormatList)
        /\ Len(PointList) \in Nat \ {0} /\ DOMAIN PointList = 1 .. Len(PointList)
    BY Lists
  <1> QED BY <1>1

(* The value of proc[p] after a step, when it is r.                        *)
Becomes(p, r) ==
  /\ proc'[p] = r
  /\ \A q \in Processes \ {p} : proc'[q] = proc[q]

LEMMA OneMoves ==
  ASSUME proc \in [Processes -> Locals], NEW p \in Processes, NEW r,
         proc' = [proc EXCEPT ![p] = r]
  PROVE  Becomes(p, r) /\ (r \in Locals => proc' \in [Processes -> Locals])
  BY DEF Becomes

LEMMA FieldTypes ==
  ASSUME proc \in [Processes -> Locals], NEW p \in Processes
  PROVE  /\ proc[p].pc \in Steps /\ proc[p].addr \in Addresses \cup {NULL}
         /\ proc[p].k \in Nat \ {0} /\ proc[p].i \in Indices /\ proc[p].tmp \in Nat
         /\ proc[p].trace_id \in [DOMAIN FormatList -> Formats \cup {-1}]
         /\ proc[p].profile_id \in [DOMAIN PointList -> Points \cup {-1}]
         /\ proc[p].i \in Nat
  <1>1. proc[p] \in Locals
    OBVIOUS
  <1>2. \A x \in Indices : x \in Nat
    BY DEF Indices
  <1> QED BY <1>1, <1>2 DEF Locals

LEMMA InLocals ==
  ASSUME NEW a \in Steps, NEW b \in Addresses \cup {NULL}, NEW c \in Nat \ {0},
         NEW d \in Indices, NEW e \in Nat,
         NEW f \in [DOMAIN FormatList -> Formats \cup {-1}],
         NEW g \in [DOMAIN PointList -> Points \cup {-1}]
  PROVE  [pc |-> a, addr |-> b, k |-> c, i |-> d, tmp |-> e, trace_id |-> f,
          profile_id |-> g] \in Locals
  BY DEF Locals

WithFormat(r, f, a, c) ==
  [r EXCEPT !.trace_id = f, !.pc = a, !.i = 0, !.tmp = 0, !.k = c]
WithPoint(r, f, a, c) ==
  [r EXCEPT !.profile_id = f, !.pc = a, !.i = 0, !.tmp = 0, !.k = c]

LEMMA WithFormatFields ==
  ASSUME NEW r \in Locals, NEW a \in Steps, NEW c \in Nat \ {0},
         NEW f \in [DOMAIN FormatList -> Formats \cup {-1}]
  PROVE  LET x == WithFormat(r, f, a, c) IN
         /\ x \in Locals /\ x.pc = a /\ x.addr = r.addr /\ x.k = c /\ x.i = 0
         /\ x.trace_id = f /\ x.profile_id = r.profile_id
  BY Sizes DEF Locals, WithFormat

LEMMA WithPointFields ==
  ASSUME NEW r \in Locals, NEW a \in Steps, NEW c \in Nat \ {0},
         NEW f \in [DOMAIN PointList -> Points \cup {-1}]
  PROVE  LET x == WithPoint(r, f, a, c) IN
         /\ x \in Locals /\ x.pc = a /\ x.addr = r.addr /\ x.k = c /\ x.i = 0
         /\ x.profile_id = f /\ x.trace_id = r.trace_id
  BY Sizes DEF Locals, WithPoint

LEMMA GotoMoves ==
  ASSUME proc \in [Processes -> Locals], NEW p \in Processes, NEW to \in Steps,
         Goto(p, to)
  PROVE  /\ Becomes(p, [proc[p] EXCEPT !.pc = to])
         /\ proc' \in [Processes -> Locals]
         /\ proc'[p].pc = to /\ proc'[p].addr = proc[p].addr /\ proc'[p].k = proc[p].k
         /\ proc'[p].i = proc[p].i /\ proc'[p].tmp = proc[p].tmp
         /\ proc'[p].trace_id = proc[p].trace_id
         /\ proc'[p].profile_id = proc[p].profile_id
  <1> DEFINE r == [proc[p] EXCEPT !.pc = to]
  <1>1. proc' = [proc EXCEPT ![p] = r]
    BY DEF Goto
  <1>2. r \in Locals
    BY DEF Locals
  <1>3. /\ r.pc = to /\ r.addr = proc[p].addr /\ r.k = proc[p].k
        /\ r.i = proc[p].i /\ r.tmp = proc[p].tmp
        /\ r.trace_id = proc[p].trace_id /\ r.profile_id = proc[p].profile_id
    BY DEF Locals
  <1> HIDE DEF r
  <1>4. Becomes(p, r) /\ proc' \in [Processes -> Locals]
    BY <1>1, <1>2, OneMoves
  <1>5. Becomes(p, [proc[p] EXCEPT !.pc = to])
    BY <1>4 DEF r
  <1> QED BY <1>3, <1>4, <1>5 DEF Becomes

LEMMA OtherMoves ==
  ASSUME proc \in [Processes -> Locals], NEW p \in Processes, Other(p),
         proc[p].i + 1 \in Indices
  PROVE  /\ \A q \in Processes \ {p} : proc'[q] = proc[q]
         /\ proc' \in [Processes -> Locals]
         /\ proc'[p].pc = proc[p].pc /\ proc'[p].addr = proc[p].addr
         /\ proc'[p].k = proc[p].k
         /\ proc'[p].i = proc[p].i + 1 /\ proc'[p].tmp = proc[p].tmp
         /\ proc'[p].trace_id = proc[p].trace_id
         /\ proc'[p].profile_id = proc[p].profile_id
  <1> DEFINE r == [proc[p] EXCEPT !.i = proc[p].i + 1]
  <1>1. proc' = [proc EXCEPT ![p] = r]
    BY DEF Other
  <1>2. r \in Locals
    BY DEF Locals
  <1>3. /\ r.pc = proc[p].pc /\ r.addr = proc[p].addr /\ r.k = proc[p].k
        /\ r.i = proc[p].i + 1 /\ r.tmp = proc[p].tmp
        /\ r.trace_id = proc[p].trace_id /\ r.profile_id = proc[p].profile_id
    BY DEF Locals
  <1> HIDE DEF r
  <1>4. Becomes(p, r) /\ proc' \in [Processes -> Locals]
    BY <1>1, <1>2, OneMoves
  <1> QED BY <1>3, <1>4 DEF Becomes

LEMMA LoadMoves ==
  ASSUME proc \in [Processes -> Locals], NEW p \in Processes, NEW to \in Steps,
         NEW n \in Nat,
         proc' = [proc EXCEPT ![p].pc = to, ![p].tmp = n]
  PROVE  /\ \A q \in Processes \ {p} : proc'[q] = proc[q]
         /\ proc' \in [Processes -> Locals]
         /\ proc'[p].pc = to /\ proc'[p].addr = proc[p].addr /\ proc'[p].k = proc[p].k
         /\ proc'[p].i = proc[p].i /\ proc'[p].tmp = n
         /\ proc'[p].trace_id = proc[p].trace_id
         /\ proc'[p].profile_id = proc[p].profile_id
  <1> DEFINE r == [proc[p] EXCEPT !.pc = to, !.tmp = n]
  <1>1. proc' = [proc EXCEPT ![p] = r]
    OBVIOUS
  <1>2. r \in Locals
    BY DEF Locals
  <1>3. /\ r.pc = to /\ r.addr = proc[p].addr /\ r.k = proc[p].k
        /\ r.i = proc[p].i /\ r.tmp = n
        /\ r.trace_id = proc[p].trace_id /\ r.profile_id = proc[p].profile_id
    BY DEF Locals
  <1> HIDE DEF r
  <1>4. Becomes(p, r) /\ proc' \in [Processes -> Locals]
    BY <1>1, <1>2, OneMoves
  <1> QED BY <1>3, <1>4 DEF Becomes

LEMMA StartMoves ==
  ASSUME proc \in [Processes -> Locals], NEW p \in Processes, NEW a \in Addresses,
         proc[p] = Down,
         proc' = [proc EXCEPT ![p].pc = "format", ![p].addr = a]
  PROVE  /\ \A q \in Processes \ {p} : proc'[q] = proc[q]
         /\ proc' \in [Processes -> Locals]
         /\ proc'[p].pc = "format" /\ proc'[p].addr = a /\ proc'[p].k = 1
         /\ proc'[p].i = 0
  <1> DEFINE r == [proc[p] EXCEPT !.pc = "format", !.addr = a]
  <1>1. proc' = [proc EXCEPT ![p] = r]
    OBVIOUS
  <1>2. "format" \in Steps
    BY DEF Steps, FormatSteps
  <1>3. r \in Locals
    BY <1>2 DEF Locals
  <1>4. /\ r.pc = "format" /\ r.addr = a /\ r.k = proc[p].k /\ r.i = proc[p].i
    BY DEF Locals
  <1>5. proc[p].k = 1 /\ proc[p].i = 0
    BY DEF Down
  <1> HIDE DEF r
  <1>6. Becomes(p, r) /\ proc' \in [Processes -> Locals]
    BY <1>1, <1>3, OneMoves
  <1> QED BY <1>4, <1>5, <1>6 DEF Becomes

LEMMA EndMoves ==
  ASSUME proc \in [Processes -> Locals], NEW p \in Processes, End(p)
  PROVE  /\ \A q \in Processes \ {p} : proc'[q] = proc[q]
         /\ proc' \in [Processes -> Locals]
         /\ proc'[p] = Down /\ proc'[p].pc = "down"
  <1>1. Down \in Locals
    <2>1. "down" \in Steps /\ 0 \in Indices
      BY Sizes DEF Steps, Resting
    <2>2. /\ [n \in DOMAIN FormatList |-> -1] \in [DOMAIN FormatList -> Formats \cup {-1}]
          /\ [n \in DOMAIN PointList |-> -1] \in [DOMAIN PointList -> Points \cup {-1}]
      OBVIOUS
    <2>3. 1 \in Nat \ {0} /\ 0 \in Nat
      OBVIOUS
    <2>4. NULL \in Addresses \cup {NULL}
      OBVIOUS
    <2> QED BY <2>1, <2>2, <2>3, <2>4, InLocals, Zenon DEF Down
  <1>2. proc' = [proc EXCEPT ![p] = Down]
    BY DEF End
  <1>3. Becomes(p, Down) /\ proc' \in [Processes -> Locals]
    BY <1>1, <1>2, OneMoves
  <1>4. Down.pc = "down"
    BY DEF Down
  <1> QED BY <1>3, <1>4 DEF Becomes

LEMMA GotFormatMoves ==
  ASSUME proc \in [Processes -> Locals], NEW p \in Processes, GotFormat(p),
         proc[p].k \in DOMAIN FormatList, proc[p].i \in Formats
  PROVE  /\ \A q \in Processes \ {p} : proc'[q] = proc[q]
         /\ proc' \in [Processes -> Locals]
         /\ IF proc[p].k = Len(FormatList)
            THEN proc'[p].pc = "point" /\ proc'[p].k = 1
            ELSE proc'[p].pc = "format" /\ proc'[p].k = proc[p].k + 1
         /\ proc'[p].addr = proc[p].addr /\ proc'[p].i = 0
         /\ \A n \in DOMAIN FormatList : proc'[p].trace_id[n] =
              IF n = proc[p].k THEN proc[p].i ELSE proc[p].trace_id[n]
         /\ proc'[p].profile_id = proc[p].profile_id
  <1> DEFINE last == proc[p].k = Len(FormatList)
             ids == [proc[p].trace_id EXCEPT ![proc[p].k] = proc[p].i]
             to == IF last THEN "point" ELSE "format"
             next == IF last THEN 1 ELSE proc[p].k + 1
             r == WithFormat(proc[p], ids, to, next)
  <1>1. proc' = [proc EXCEPT ![p] = r]
    BY DEF GotFormat, GotHandle, WithFormat
  <1>2. to \in Steps /\ next \in Nat \ {0} /\ 0 \in Indices
    BY Sizes, FieldTypes DEF Steps, FormatSteps, PointSteps
  <1>3. /\ ids \in [DOMAIN FormatList -> Formats \cup {-1}]
        /\ \A n \in DOMAIN FormatList : ids[n] =
             IF n = proc[p].k THEN proc[p].i ELSE proc[p].trace_id[n]
    BY FieldTypes
  <1> HIDE DEF ids, to, next
  <1>a. proc[p] \in Locals
    OBVIOUS
  <1>4. /\ r \in Locals
        /\ r.pc = to /\ r.addr = proc[p].addr /\ r.k = next /\ r.i = 0
        /\ r.trace_id = ids /\ r.profile_id = proc[p].profile_id
    BY <1>2, <1>3, <1>a, WithFormatFields
  <1> HIDE DEF r
  <1>6. Becomes(p, r) /\ proc' \in [Processes -> Locals]
    BY <1>1, <1>4, OneMoves
  <1> QED BY <1>3, <1>4, <1>6 DEF Becomes, to, next

LEMMA GotPointMoves ==
  ASSUME proc \in [Processes -> Locals], NEW p \in Processes, GotPoint(p),
         proc[p].k \in DOMAIN PointList, proc[p].i \in Points
  PROVE  /\ \A q \in Processes \ {p} : proc'[q] = proc[q]
         /\ proc' \in [Processes -> Locals]
         /\ IF proc[p].k = Len(PointList)
            THEN proc'[p].pc = "finish"
            ELSE proc'[p].pc = "point" /\ proc'[p].k = proc[p].k + 1
         /\ proc'[p].addr = proc[p].addr /\ proc'[p].i = 0
         /\ \A n \in DOMAIN PointList : proc'[p].profile_id[n] =
              IF n = proc[p].k THEN proc[p].i ELSE proc[p].profile_id[n]
         /\ proc'[p].trace_id = proc[p].trace_id
  <1> DEFINE last == proc[p].k = Len(PointList)
             ids == [proc[p].profile_id EXCEPT ![proc[p].k] = proc[p].i]
             to == IF last THEN "finish" ELSE "point"
             next == IF last THEN 1 ELSE proc[p].k + 1
             r == WithPoint(proc[p], ids, to, next)
  <1>1. proc' = [proc EXCEPT ![p] = r]
    BY DEF GotPoint, GotHandle, WithPoint
  <1>2. to \in Steps /\ next \in Nat \ {0} /\ 0 \in Indices
    BY Sizes, FieldTypes DEF Steps, PointSteps
  <1>3. /\ ids \in [DOMAIN PointList -> Points \cup {-1}]
        /\ \A n \in DOMAIN PointList : ids[n] =
             IF n = proc[p].k THEN proc[p].i ELSE proc[p].profile_id[n]
    BY FieldTypes
  <1> HIDE DEF ids, to, next
  <1>a. proc[p] \in Locals
    OBVIOUS
  <1>4. /\ r \in Locals
        /\ r.pc = to /\ r.addr = proc[p].addr /\ r.k = next /\ r.i = 0
        /\ r.profile_id = ids /\ r.trace_id = proc[p].trace_id
    BY <1>2, <1>3, <1>a, WithPointFields
  <1> HIDE DEF r
  <1>6. Becomes(p, r) /\ proc' \in [Processes -> Locals]
    BY <1>1, <1>4, OneMoves
  <1> QED BY <1>3, <1>4, <1>6 DEF Becomes, to, next

-----------------------------------------------------------------------------
LEMMA TypeInvInit == Init => TypeInv /\ Places
  <1> SUFFICES ASSUME Init PROVE TypeInv /\ Places
    OBVIOUS
  <1>1. Down \in Locals
    <2>1. "down" \in Steps /\ 0 \in Indices
      BY Sizes DEF Steps, Resting
    <2>2. /\ [n \in DOMAIN FormatList |-> -1] \in [DOMAIN FormatList -> Formats \cup {-1}]
          /\ [n \in DOMAIN PointList |-> -1] \in [DOMAIN PointList -> Points \cup {-1}]
      OBVIOUS
    <2>3. 1 \in Nat \ {0} /\ 0 \in Nat
      OBVIOUS
    <2>4. NULL \in Addresses \cup {NULL}
      OBVIOUS
    <2> QED BY <2>1, <2>2, <2>3, <2>4, InLocals, Zenon DEF Down
  <1>2. NoPoint \in PointRecords
    BY DEF NoPoint, PointRecords
  <1>3. proc \in [Processes -> Locals]
    BY <1>1 DEF Init
  <1>4. prof_fifo_ \in [Points -> PointRecords]
    BY <1>2 DEF Init
  <1>5. trace_formats_ \in [Formats -> ValuesOf(FormatList) \cup {Default, ""}]
    BY DEF Init
  <1>6. DOMAIN sound = Processes
    BY DEF Init
  <1>7. /\ num_alloc_formats_ \in Nat \ {0} /\ num_alloc_prof_ \in Nat
        /\ traces \subseteq [id : Formats, format : ValuesOf(FormatList)]
    <2>1. num_alloc_formats_ = 1 /\ num_alloc_prof_ = 0 /\ traces = {}
      BY DEF Init
    <2> QED BY <2>1
  <1>8. TypeInv
    BY <1>3, <1>4, <1>5, <1>6, <1>7 DEF TypeInv
  <1>9. \A p \in Processes : proc[p] = Down /\ proc[p].pc = "down"
    BY DEF Init, Down
  <1>10. Places
    BY <1>9
    DEF Places, Placed, GotFormatOf, GotPointOf, FormatSteps, PointSteps,
        SetupSteps
  <1> QED BY <1>8, <1>10

LEMMA PlacedKept ==
  ASSUME NEW q \in Processes, Placed(q), proc'[q] = proc[q]
  PROVE  Placed(q)'
  BY DEF Placed, GotFormatOf, GotPointOf

(* Where p is when it does one of its steps.                               *)
LEMMA Stepping ==
  ASSUME TypeInv, Places, NEW p \in Processes
  PROVE  /\ FormatKnown(p) \/ FormatOther(p) => proc[p].i \in Formats
         /\ FormatKnown(p) \/ FormatOther(p) \/ FormatWrite(p) \/ FormatLoad(p)
            \/ FormatStore(p) => proc[p].pc \in FormatSteps /\ proc[p].k \in DOMAIN FormatList
         /\ FormatLoad(p) \/ FormatStore(p) => proc[p].i \in Formats
         /\ PointKnown(p) \/ PointOther(p) \/ PointSetup(p) \/ PointName(p) \/ MemAlloc(p)
              => proc[p].i \in Points
         /\ PointKnown(p) \/ PointOther(p) \/ PointLoad(p) \/ PointStore(p) \/ PointSetup(p)
            \/ PointName(p) \/ MemAlloc(p)
              => proc[p].pc \in PointSteps /\ proc[p].k \in DOMAIN PointList
  BY DEF Places, Placed, FormatKnown, FormatOther, FormatWrite, FormatLoad,
     FormatStore,
         PointKnown, PointOther, PointLoad, PointStore, PointSetup, PointName, MemAlloc,
         MayScan, FormatSteps, PointSteps, SetupSteps

(* A step of p that kills it, by what it did.                              *)
DiesSomehow(p) ==
  /\ proc[p].pc # "down"
  /\ \E how \in Dead : Dies(p, how) /\ UNCHANGED <<formats, traces, points>>

(* The steps of a process that is ready and goes on: they touch traces and *)
(* results alone.                                                          *)
Works(p) ==
  /\ proc[p].pc = "ready"
  /\ UNCHANGED <<formats, num_alloc_prof_, proc, history>>
  /\ \/ /\ UNCHANGED prof_fifo_
        /\ \/ UNCHANGED traces
           \/ \E n \in DOMAIN FormatList :
                /\ sound[p]
                /\ traces' = traces \cup
                     {[id |-> proc[p].trace_id[n], format |-> FormatList[n]]}
     \/ /\ UNCHANGED traces
        /\ \E R \in [Points -> SUBSET ValuesOf(PointList)] :
             /\ prof_fifo_' = [f \in Points |-> [prof_fifo_[f] EXCEPT !.results = R[f]]]
             /\ \A f \in Points : \A x \in R[f] :
                  \/ x \in prof_fifo_[f].results
                  \/ \E n \in DOMAIN PointList :
                       sound[p] /\ f = proc[p].profile_id[n] /\ x = PointList[n]

LEMMA UseIs ==
  ASSUME TypeInv, Places, NEW p \in Processes, Use(p)
  PROVE  DiesSomehow(p) \/ Works(p)
  <1> USE DEF Dead
  <1>r. /\ prof_fifo_ \in [Points -> PointRecords]
        /\ \A f \in Points : prof_fifo_[f].results \in SUBSET ValuesOf(PointList)
    BY DEF TypeInv, PointRecords
  <1>1. ASSUME NEW n \in DOMAIN FormatList, AddTrace(p, n)
        PROVE  DiesSomehow(p) \/ Works(p)
    <2>1. CASE proc[p].trace_id[n] < num_alloc_formats_
      BY <1>1, <2>1 DEF AddTrace, Works, points, formats
    <2>2. CASE ~(proc[p].trace_id[n] < num_alloc_formats_)
      BY <1>1, <2>2 DEF AddTrace, DiesSomehow
    <2> QED BY <2>1, <2>2
  <1>2. ASSUME NEW R \in [Points -> SUBSET ValuesOf(PointList)],
               proc[p].pc = "ready",
               UNCHANGED <<formats, num_alloc_prof_, proc, history, traces>>,
               prof_fifo_' = [f \in Points |-> [prof_fifo_[f] EXCEPT !.results = R[f]]],
               \A f \in Points : \A x \in R[f] :
                  \/ x \in prof_fifo_[f].results
                  \/ \E n \in DOMAIN PointList :
                       sound[p] /\ f = proc[p].profile_id[n] /\ x = PointList[n]
        PROVE  Works(p)
    BY <1>2, Zenon DEF Works
  <1>3. ASSUME prof_fifo_' = prof_fifo_, proc[p].pc = "ready",
               UNCHANGED <<formats, num_alloc_prof_, proc, history, traces>>
        PROVE  Works(p)
    BY <1>3, Zenon DEF Works
  <1>4. ASSUME NEW n \in DOMAIN PointList, SaveResult(p, n)
        PROVE  DiesSomehow(p) \/ Works(p)
    <2> DEFINE f == proc[p].profile_id[n]
    <2>1. CASE prof_fifo_[f].chunks = 0
      BY <1>4, <2>1 DEF SaveResult, DiesSomehow, points
    <2>2. CASE prof_fifo_[f].chunks # 0 /\ prof_fifo_[f].ptr # proc[p].addr
      BY <1>4, <2>2 DEF SaveResult, DiesSomehow, points
    <2>3. CASE prof_fifo_[f].chunks # 0 /\ ~(prof_fifo_[f].ptr # proc[p].addr)
      <3>1. /\ prof_fifo_' = IF sound[p] THEN [prof_fifo_ EXCEPT ![f].results = Saved(f, n)]
                                         ELSE prof_fifo_
            /\ proc[p].pc = "ready"
            /\ UNCHANGED <<formats, num_alloc_prof_, proc, history, traces>>
        BY <1>4, <2>3 DEF SaveResult
      <3>2. CASE ~sound[p]
        BY <1>3, <3>1, <3>2
      <3>3. CASE sound[p]
        <4>1. f \in Points
          BY <3>1 DEF Places, Placed, GotPointOf
        <4> DEFINE R == [g \in Points |-> IF g = f THEN Saved(f, n) ELSE prof_fifo_[g].results]
        <4>2. R \in [Points -> SUBSET ValuesOf(PointList)]
          BY <1>r, <4>1 DEF Saved, ValuesOf
        <4>3. prof_fifo_' = [g \in Points |-> [prof_fifo_[g] EXCEPT !.results = R[g]]]
          <5>1. \A g \in Points : prof_fifo_[g] = [prof_fifo_[g] EXCEPT !.results = @]
            BY <1>r DEF PointRecords
          <5>2. prof_fifo_' = [prof_fifo_ EXCEPT ![f] = [prof_fifo_[f] EXCEPT !.results = Saved(f, n)]]
            BY <3>1, <3>3
          <5> QED BY <1>r, <4>1, <5>1, <5>2
        <4>4. \A g \in Points : \A x \in R[g] :
                \/ x \in prof_fifo_[g].results
                \/ \E m \in DOMAIN PointList :
                     sound[p] /\ g = proc[p].profile_id[m] /\ x = PointList[m]
          BY <3>3 DEF Saved
        <4> HIDE DEF R
        <4> QED BY <1>2, <3>1, <4>2, <4>3, <4>4
      <3> QED BY <3>2, <3>3
    <2> QED BY <2>1, <2>2, <2>3
  <1>5. ASSUME NEW n \in DOMAIN PointList, GetProfData(p, n)
        PROVE  DiesSomehow(p) \/ Works(p)
    <2> DEFINE f == proc[p].profile_id[n]
    <2>1. CASE f >= num_alloc_prof_
      BY <1>5, <2>1 DEF GetProfData, DiesSomehow, points
    <2>2. CASE f < num_alloc_prof_ /\ prof_fifo_[f].chunks = 0
      <3>1. ~(f >= num_alloc_prof_)
        <4>1. f \in Points
          BY <1>5 DEF Places, Placed, GotPointOf, GetProfData
        <4>2. f \in Nat
          BY <4>1, Ranges
        <4>3. num_alloc_prof_ \in Nat
          BY DEF TypeInv
        <4> HIDE DEF f
        <4> QED BY <2>2, <4>2, <4>3
      <3> QED BY <1>5, <2>2, <3>1 DEF GetProfData, DiesSomehow, points
    <2>3. CASE ~(f >= num_alloc_prof_) /\ ~(f < num_alloc_prof_ /\ prof_fifo_[f].chunks = 0)
      <3>1. /\ prof_fifo_' = [prof_fifo_ EXCEPT ![f].results = {}]
            /\ proc[p].pc = "ready"
            /\ UNCHANGED <<formats, num_alloc_prof_, proc, history, traces>>
        BY <1>5, <2>3 DEF GetProfData
      <3> DEFINE R == [g \in Points |-> IF g = f THEN {} ELSE prof_fifo_[g].results]
      <3>2. R \in [Points -> SUBSET ValuesOf(PointList)]
        BY <1>r
      <3>3. prof_fifo_' = [g \in Points |-> [prof_fifo_[g] EXCEPT !.results = R[g]]]
        <4>1. \A g \in Points : prof_fifo_[g] = [prof_fifo_[g] EXCEPT !.results = @]
          BY <1>r DEF PointRecords
        <4>2. prof_fifo_' = [prof_fifo_ EXCEPT ![f] = [prof_fifo_[f] EXCEPT !.results = {}]]
          BY <3>1
        <4> QED BY <1>r, <4>1, <4>2
      <3>4. \A g \in Points : \A x \in R[g] : x \in prof_fifo_[g].results
        OBVIOUS
      <3> HIDE DEF R
      <3> QED BY <1>2, <3>1, <3>2, <3>3, <3>4
    <2> QED BY <2>1, <2>2, <2>3
  <1>6. CASE Extract(p)
    <2>1. CASE num_alloc_prof_ > PROF_GROUP_MAX
      BY <1>6, <2>1 DEF Extract, DiesSomehow, points
    <2>2. CASE /\ ~(num_alloc_prof_ > PROF_GROUP_MAX)
               /\ \E f \in Points : f < num_alloc_prof_ /\ prof_fifo_[f].chunks = 0
      BY <1>6, <2>2 DEF Extract, DiesSomehow, points
    <2>3. CASE /\ ~(num_alloc_prof_ > PROF_GROUP_MAX)
               /\ ~\E f \in Points : f < num_alloc_prof_ /\ prof_fifo_[f].chunks = 0
      <3>1. /\ prof_fifo_' = [f \in Points |->
               IF f < num_alloc_prof_ THEN [prof_fifo_[f] EXCEPT !.results = {}]
                                      ELSE prof_fifo_[f]]
            /\ proc[p].pc = "ready"
            /\ UNCHANGED <<formats, num_alloc_prof_, proc, history, traces>>
        BY <1>6, <2>3 DEF Extract
      <3> DEFINE R == [g \in Points |-> IF g < num_alloc_prof_ THEN {} ELSE prof_fifo_[g].results]
      <3>2. R \in [Points -> SUBSET ValuesOf(PointList)]
        BY <1>r
      <3>3. prof_fifo_' = [g \in Points |-> [prof_fifo_[g] EXCEPT !.results = R[g]]]
        <4>1. \A g \in Points : prof_fifo_[g] = [prof_fifo_[g] EXCEPT !.results = prof_fifo_[g].results]
          BY <1>r DEF PointRecords
        <4> QED BY <3>1, <4>1
      <3>4. \A g \in Points : \A x \in R[g] : x \in prof_fifo_[g].results
        OBVIOUS
      <3> HIDE DEF R
      <3> QED BY <1>2, <3>1, <3>2, <3>3, <3>4
    <2> QED BY <2>1, <2>2, <2>3
  <1> QED BY <1>1, <1>4, <1>5, <1>6 DEF Use

LEMMA SameTables ==
  ASSUME TypeInv, UNCHANGED <<formats, traces, points, sound>>,
         proc' \in [Processes -> Locals]
  PROVE  TypeInv'
  BY DEF TypeInv, formats, points

(* The steps of a process that dies, wherever it is.                       *)
LEMMA DiesIs ==
  ASSUME TypeInv, Places, NEW p \in Processes, DiesSomehow(p)
  PROVE  /\ TypeInv' /\ Places'
         /\ \A q \in Processes \ {p} : proc'[q] = proc[q]
         /\ proc'[p].pc \in Dead /\ proc'[p].addr = proc[p].addr
         /\ cut' = (cut \/ Registering(p))
         /\ UNCHANGED <<formats, traces, points, ends, alone, creator, settled, sound, raced>>
  <1>1. PICK how \in Dead : Dies(p, how) /\ UNCHANGED <<formats, traces, points>>
    BY DEF DiesSomehow
  <1>2. /\ Goto(p, how)
        /\ cut' = (cut \/ Registering(p))
        /\ UNCHANGED <<ends, alone, creator, settled, sound, raced>>
    BY <1>1 DEF Dies
  <1>3. how \in Steps
    BY DEF Steps, Resting
  <1>4. proc \in [Processes -> Locals]
    BY DEF TypeInv
  <1>5. /\ \A q \in Processes \ {p} : proc'[q] = proc[q]
        /\ proc' \in [Processes -> Locals]
        /\ proc'[p].pc = how /\ proc'[p].addr = proc[p].addr
    BY <1>2, <1>3, <1>4, GotoMoves DEF Becomes
  <1>6. TypeInv'
    BY <1>1, <1>2, <1>5, SameTables
  <1>7. Placed(p)'
    <2>1. proc'[p].addr \in Addresses
      BY <1>5 DEF Places, Placed, DiesSomehow
    <2>2. how \notin FormatSteps \cup PointSteps \cup {"finish", "ready", "down"}
      BY DEF Dead, FormatSteps, PointSteps, SetupSteps
    <2>3. {"format_load", "format_store"} \subseteq FormatSteps
          /\ {"point_name", "point_alloc"} \subseteq PointSteps
      BY DEF FormatSteps, PointSteps, SetupSteps
    <2> QED BY <1>5, <2>1, <2>2, <2>3 DEF Placed, GotFormatOf, GotPointOf
  <1>8. Places'
    BY <1>5, <1>7, PlacedKept DEF Places
  <1> QED BY <1>1, <1>2, <1>5, <1>6, <1>8

(* Which steps kill a process.                                             *)
LEMMA RegistryDeaths ==
  ASSUME NEW p \in Processes,
         PointAsserts(p) \/ Overrun(p)
         \/ (FormatWrite(p) /\ ~(num_alloc_formats_ < MAX_TRACE_FORMATS))
  PROVE  DiesSomehow(p)
  <1>1. CASE PointAsserts(p)
    BY <1>1 DEF PointAsserts, DiesSomehow, Dead
  <1>2. CASE Overrun(p)
    BY <1>2 DEF Overrun, MayScan, DiesSomehow, Dead
  <1>3. CASE FormatWrite(p) /\ ~(num_alloc_formats_ < MAX_TRACE_FORMATS)
    BY <1>3 DEF FormatWrite, DiesSomehow, Dead, formats
  <1> QED BY <1>1, <1>2, <1>3

LEMMA WritesKeep ==
  ASSUME TypeInv, UNCHANGED <<traces, sound>>, proc' \in [Processes -> Locals],
         num_alloc_formats_' \in Nat \ {0}, num_alloc_prof_' \in Nat,
         trace_formats_' \in [Formats -> ValuesOf(FormatList) \cup {Default, ""}],
         prof_fifo_' \in [Points -> PointRecords]
  PROVE  TypeInv'
  BY DEF TypeInv

(* A write to point f: what it leaves there; the other points are as before. *)
Wrote(f, x, c, a, R) ==
  /\ prof_fifo_' \in [Points -> PointRecords]
  /\ prof_fifo_'[f].name_ = x /\ prof_fifo_'[f].chunks = c
  /\ prof_fifo_'[f].ptr = a /\ prof_fifo_'[f].results = R
  /\ \A g \in Points \ {f} : prof_fifo_'[g] = prof_fifo_[g]

LEMMA PointWritten ==
  ASSUME prof_fifo_ \in [Points -> PointRecords], NEW f \in Points,
         NEW e \in PointRecords, prof_fifo_' = [prof_fifo_ EXCEPT ![f] = e]
  PROVE  Wrote(f, e.name_, e.chunks, e.ptr, e.results)
  BY DEF Wrote

LEMMA SetUpRecord ==
  ASSUME NEW r \in PointRecords, NEW e,
         e = [[r EXCEPT !.chunks = 1] EXCEPT !.results = {}]
  PROVE  /\ e \in PointRecords
         /\ e.name_ = r.name_ /\ e.chunks = 1 /\ e.ptr = r.ptr /\ e.results = {}
  BY DEF PointRecords

LEMMA NamedRecord ==
  ASSUME NEW r \in PointRecords, NEW x \in ValuesOf(PointList), NEW e,
         e = [r EXCEPT !.name_ = x]
  PROVE  /\ e \in PointRecords
         /\ e.name_ = x /\ e.chunks = r.chunks /\ e.ptr = r.ptr /\ e.results = r.results
  BY DEF PointRecords

LEMMA AllocRecord ==
  ASSUME NEW r \in PointRecords, NEW x \in Addresses \cup {NULL}, NEW e,
         e = [r EXCEPT !.ptr = x]
  PROVE  /\ e \in PointRecords
         /\ e.name_ = r.name_ /\ e.chunks = r.chunks /\ e.ptr = x /\ e.results = r.results
  BY DEF PointRecords

LEMMA SetupWrites ==
  ASSUME TypeInv, Places, NEW p \in Processes, PointSetup(p),
         NEW f, f = proc[p].i
  PROVE  f \in Points /\ Wrote(f, prof_fifo_[f].name_, 1, prof_fifo_[f].ptr, {})
  <1> DEFINE e == [[prof_fifo_[f] EXCEPT !.chunks = 1] EXCEPT !.results = {}]
  <1>1. f \in Points /\ prof_fifo_ \in [Points -> PointRecords]
    BY DEF PointSetup, TypeInv
  <1>2. prof_fifo_' = [prof_fifo_ EXCEPT ![f] = e]
    BY <1>1 DEF PointSetup, SetUp
  <1>3. /\ e \in PointRecords /\ e.name_ = prof_fifo_[f].name_ /\ e.chunks = 1
        /\ e.ptr = prof_fifo_[f].ptr /\ e.results = {}
    BY <1>1, SetUpRecord
  <1> HIDE DEF e
  <1>4. Wrote(f, e.name_, e.chunks, e.ptr, e.results)
    BY <1>1, <1>2, <1>3, PointWritten
  <1> QED BY <1>1, <1>3, <1>4

LEMMA NameWrites ==
  ASSUME TypeInv, Places, NEW p \in Processes, PointName(p),
         NEW f, f = proc[p].i
  PROVE  f \in Points /\ Wrote(f, PointList[proc[p].k], prof_fifo_[f].chunks,
                               prof_fifo_[f].ptr, prof_fifo_[f].results)
  <1> DEFINE x == PointList[proc[p].k]
             e == [prof_fifo_[f] EXCEPT !.name_ = x]
  <1>1. f \in Points /\ prof_fifo_ \in [Points -> PointRecords]
    BY Stepping DEF TypeInv
  <1>2. prof_fifo_' = [prof_fifo_ EXCEPT ![f] = e]
    BY <1>1 DEF PointName
  <1>3. x \in ValuesOf(PointList)
    BY Stepping DEF ValuesOf
  <1>4. /\ e \in PointRecords /\ e.name_ = x /\ e.chunks = prof_fifo_[f].chunks
        /\ e.ptr = prof_fifo_[f].ptr /\ e.results = prof_fifo_[f].results
    BY <1>1, <1>3, NamedRecord
  <1> HIDE DEF e
  <1>5. Wrote(f, e.name_, e.chunks, e.ptr, e.results)
    BY <1>1, <1>2, <1>4, PointWritten
  <1> QED BY <1>1, <1>4, <1>5

LEMMA AllocWrites ==
  ASSUME TypeInv, Places, NEW p \in Processes, MemAlloc(p),
         NEW f, f = proc[p].i
  PROVE  f \in Points /\ Wrote(f, prof_fifo_[f].name_, prof_fifo_[f].chunks,
                               proc[p].addr, prof_fifo_[f].results)
  <1> DEFINE e == [prof_fifo_[f] EXCEPT !.ptr = proc[p].addr]
  <1>1. f \in Points /\ prof_fifo_ \in [Points -> PointRecords]
    BY Stepping DEF TypeInv
  <1>2. prof_fifo_' = [prof_fifo_ EXCEPT ![f] = e]
    BY <1>1 DEF MemAlloc
  <1>3. proc[p].addr \in Addresses \cup {NULL}
    BY FieldTypes DEF TypeInv
  <1>4. /\ e \in PointRecords /\ e.name_ = prof_fifo_[f].name_
        /\ e.chunks = prof_fifo_[f].chunks
        /\ e.ptr = proc[p].addr /\ e.results = prof_fifo_[f].results
    BY <1>1, <1>3, AllocRecord
  <1> HIDE DEF e
  <1>5. Wrote(f, e.name_, e.chunks, e.ptr, e.results)
    BY <1>1, <1>2, <1>4, PointWritten
  <1> QED BY <1>1, <1>4, <1>5

(* The tables are as they were, but for results.                           *)
Still ==
  /\ UNCHANGED <<formats, num_alloc_prof_>>
  /\ \A f \in Points : /\ prof_fifo_'[f].name_ = prof_fifo_[f].name_
                       /\ prof_fifo_'[f].chunks = prof_fifo_[f].chunks
                       /\ prof_fifo_'[f].ptr = prof_fifo_[f].ptr

LEMMA WorksIs ==
  ASSUME TypeInv, Places, NEW p \in Processes, Works(p)
  PROVE  /\ TypeInv' /\ Places' /\ Still
         /\ \A t \in traces' :
              \/ t \in traces
              \/ \E n \in DOMAIN FormatList : /\ sound[p] /\ t.id = proc[p].trace_id[n]
                                              /\ t.format = FormatList[n]
         /\ \A f \in Points : \A x \in prof_fifo_'[f].results :
              \/ x \in prof_fifo_[f].results
              \/ \E n \in DOMAIN PointList :
                   sound[p] /\ f = proc[p].profile_id[n] /\ x = PointList[n]
  <1>0. /\ proc[p].pc = "ready"
        /\ UNCHANGED <<formats, num_alloc_prof_, proc, history>>
        /\ prof_fifo_ \in [Points -> PointRecords]
    BY DEF Works, TypeInv
  <1>1. Places'
    BY <1>0 DEF Places, Placed, GotFormatOf, GotPointOf
  <1>2. CASE UNCHANGED <<prof_fifo_, traces>>
    <2>1. TypeInv'
      BY <1>0, <1>2 DEF TypeInv, formats, history
    <2> QED BY <1>0, <1>1, <1>2, <2>1 DEF Still
  <1>3. ASSUME NEW n \in DOMAIN FormatList, sound[p], UNCHANGED prof_fifo_,
               traces' = traces \cup {[id |-> proc[p].trace_id[n], format |-> FormatList[n]]}
        PROVE  /\ TypeInv' /\ Still
               /\ \A t \in traces' :
                    \/ t \in traces
                    \/ \E m \in DOMAIN FormatList : /\ sound[p] /\ t.id = proc[p].trace_id[m]
                                                    /\ t.format = FormatList[m]
    <2>1. proc[p].trace_id[n] \in Formats
      <3>1. GotFormatOf(p, n)
        BY <1>0 DEF GotFormatOf
      <3> QED BY <3>1 DEF Places, Placed
    <2>2. FormatList[n] \in ValuesOf(FormatList)
      BY DEF ValuesOf
    <2> DEFINE t0 == [id |-> proc[p].trace_id[n], format |-> FormatList[n]]
    <2>3. /\ t0 \in [id : Formats, format : ValuesOf(FormatList)]
          /\ t0.id = proc[p].trace_id[n] /\ t0.format = FormatList[n]
      BY <2>1, <2>2
    <2> HIDE DEF t0
    <2>4. traces' = traces \cup {t0}
      BY <1>3 DEF t0
    <2>5. traces' \subseteq [id : Formats, format : ValuesOf(FormatList)]
      <3>1. traces \subseteq [id : Formats, format : ValuesOf(FormatList)]
        BY DEF TypeInv
      <3> QED BY <2>3, <2>4, <3>1
    <2>6. TypeInv'
      BY <1>0, <1>3, <2>5 DEF TypeInv, formats, history
    <2>7. Still
      BY <1>0, <1>3 DEF Still
    <2>8. \A t \in traces' : t \in traces \/ t = t0
      BY <2>4
    <2> QED BY <1>3, <2>3, <2>6, <2>7, <2>8
  <1>4. ASSUME NEW R \in [Points -> SUBSET ValuesOf(PointList)], UNCHANGED traces,
               prof_fifo_' = [f \in Points |-> [prof_fifo_[f] EXCEPT !.results = R[f]]]
        PROVE  /\ TypeInv' /\ Still
               /\ \A f \in Points : prof_fifo_'[f].results = R[f]
    <2>1. ASSUME NEW f \in Points
          PROVE  /\ prof_fifo_'[f] \in PointRecords
                 /\ prof_fifo_'[f].name_ = prof_fifo_[f].name_
                 /\ prof_fifo_'[f].chunks = prof_fifo_[f].chunks
                 /\ prof_fifo_'[f].ptr = prof_fifo_[f].ptr
                 /\ prof_fifo_'[f].results = R[f]
      <3>1. prof_fifo_'[f] = [prof_fifo_[f] EXCEPT !.results = R[f]]
        BY <1>4
      <3>2. prof_fifo_[f] \in PointRecords /\ R[f] \in SUBSET ValuesOf(PointList)
        BY <1>0
      <3>3. PICK e : e = prof_fifo_'[f]
        OBVIOUS
      <3>4. PICK r \in PointRecords, S \in SUBSET ValuesOf(PointList) :
              r = prof_fifo_[f] /\ S = R[f]
        BY <3>2
      <3>5. e = [r EXCEPT !.results = S]
        BY <3>1, <3>3, <3>4
      <3>6. /\ e \in PointRecords
            /\ e.name_ = r.name_ /\ e.chunks = r.chunks /\ e.ptr = r.ptr /\ e.results = S
        BY <3>5 DEF PointRecords
      <3> QED BY <3>3, <3>4, <3>6
    <2>2. prof_fifo_' \in [Points -> PointRecords]
      <3>1. prof_fifo_' = [f \in Points |-> prof_fifo_'[f]]
        BY <1>4
      <3> QED BY <2>1, <3>1
    <2>3. TypeInv'
      BY <1>0, <1>4, <2>2 DEF TypeInv, formats, history
    <2> QED BY <1>0, <2>1, <2>3 DEF Still
  <1>5. CASE /\ UNCHANGED prof_fifo_
             /\ \/ UNCHANGED traces
                \/ \E n \in DOMAIN FormatList :
                     /\ sound[p]
                     /\ traces' = traces \cup
                          {[id |-> proc[p].trace_id[n], format |-> FormatList[n]]}
    BY <1>1, <1>2, <1>3, <1>5
  <1>6. CASE /\ UNCHANGED traces
             /\ \E R \in [Points -> SUBSET ValuesOf(PointList)] :
                  /\ prof_fifo_' = [f \in Points |-> [prof_fifo_[f] EXCEPT !.results = R[f]]]
                  /\ \A f \in Points : \A x \in R[f] :
                       \/ x \in prof_fifo_[f].results
                       \/ \E n \in DOMAIN PointList :
                            sound[p] /\ f = proc[p].profile_id[n] /\ x = PointList[n]
    <2>1. PICK R \in [Points -> SUBSET ValuesOf(PointList)] :
             /\ prof_fifo_' = [f \in Points |-> [prof_fifo_[f] EXCEPT !.results = R[f]]]
             /\ \A f \in Points : \A x \in R[f] :
                  \/ x \in prof_fifo_[f].results
                  \/ \E n \in DOMAIN PointList :
                       sound[p] /\ f = proc[p].profile_id[n] /\ x = PointList[n]
      BY <1>6
    <2>2. TypeInv' /\ Still /\ \A f \in Points : prof_fifo_'[f].results = R[f]
      BY <1>4, <1>6, <2>1
    <2>3. \A f \in Points : \A x \in prof_fifo_'[f].results :
              \/ x \in prof_fifo_[f].results
              \/ \E n \in DOMAIN PointList :
                   sound[p] /\ f = proc[p].profile_id[n] /\ x = PointList[n]
      BY <2>1, <2>2
    <2> QED BY <1>1, <1>6, <2>2, <2>3
  <1> QED BY <1>5, <1>6 DEF Works

(* The steps of the list of formats.                                       *)
LEMMA FormatsKeep ==
  ASSUME TypeInv, Places, NEW p \in Processes,
         FormatKnown(p) \/ FormatOther(p) \/ FormatWrite(p) \/ FormatLoad(p) \/ FormatStore(p)
  PROVE  TypeInv' /\ Places'
  <1>t. /\ proc \in [Processes -> Locals]
        /\ num_alloc_formats_ \in Nat \ {0} /\ num_alloc_prof_ \in Nat
        /\ trace_formats_ \in [Formats -> ValuesOf(FormatList) \cup {Default, ""}]
        /\ prof_fifo_ \in [Points -> PointRecords]
    BY DEF TypeInv
  <1>k. /\ proc[p].k \in DOMAIN FormatList /\ proc[p].pc \in FormatSteps
        /\ proc[p].addr \in Addresses
        /\ proc[p].i \in 0 .. MAX_TRACE_FORMATS
        /\ \A n \in DOMAIN FormatList : n < proc[p].k => proc[p].trace_id[n] \in Formats
    <2>1. proc[p].pc \in FormatSteps /\ proc[p].k \in DOMAIN FormatList
      BY Stepping
    <2>2. Placed(p) /\ proc[p].pc # "down"
      BY <2>1 DEF Places, FormatSteps
    <2> QED BY <2>1, <2>2 DEF Placed, GotFormatOf
  <1>g. ASSUME GotFormat(p), proc[p].i \in Formats
        PROVE  /\ Places' /\ proc' \in [Processes -> Locals]
    <2>1. /\ \A q \in Processes \ {p} : proc'[q] = proc[q]
          /\ proc' \in [Processes -> Locals]
          /\ IF proc[p].k = Len(FormatList)
             THEN proc'[p].pc = "point" /\ proc'[p].k = 1
             ELSE proc'[p].pc = "format" /\ proc'[p].k = proc[p].k + 1
          /\ proc'[p].addr = proc[p].addr /\ proc'[p].i = 0
          /\ \A n \in DOMAIN FormatList : proc'[p].trace_id[n] =
               IF n = proc[p].k THEN proc[p].i ELSE proc[p].trace_id[n]
      BY <1>t, <1>k, <1>g, GotFormatMoves
    <2>2. 0 \in 0 .. MAX_TRACE_FORMATS /\ 0 \in 0 .. PROF_GROUP_MAX
      BY Sizes
    <2>3. \A n \in DOMAIN FormatList : n <= proc[p].k => proc'[p].trace_id[n] \in Formats
      BY <1>k, <1>g, <2>1, Lengths
    <2>4. CASE proc[p].k = Len(FormatList)
      <3>1. proc'[p].pc = "point" /\ proc'[p].k = 1
        BY <2>1, <2>4
      <3>2. \A n \in DOMAIN FormatList : proc'[p].trace_id[n] \in Formats
        BY <2>3, <2>4, Lengths
      <3>3. \A n \in DOMAIN PointList : ~(n < 1)
        BY Lengths
      <3> QED BY <1>k, <2>1, <2>2, <3>1, <3>2, <3>3, Lengths, PlacedKept
              DEF Places, Placed, GotFormatOf, GotPointOf, FormatSteps, PointSteps, SetupSteps
    <2>5. CASE proc[p].k # Len(FormatList)
      <3>1. proc'[p].pc = "format" /\ proc'[p].k = proc[p].k + 1
        BY <2>1, <2>5
      <3>2. proc'[p].k \in DOMAIN FormatList
        BY <1>k, <2>5, <3>1, Lengths
      <3>3. \A n \in DOMAIN FormatList : n < proc'[p].k => proc'[p].trace_id[n] \in Formats
        BY <1>k, <2>3, <3>1, Lengths
      <3> QED BY <1>k, <2>1, <2>2, <3>1, <3>2, <3>3, PlacedKept
              DEF Places, Placed, GotFormatOf, GotPointOf, FormatSteps, PointSteps, SetupSteps
    <2> QED BY <2>1, <2>4, <2>5
  <1>1. CASE FormatKnown(p)
    <2>1. proc[p].i \in Formats /\ GotFormat(p) /\ UNCHANGED <<formats, traces, points, sound>>
      BY <1>1 DEF FormatKnown, history
    <2> QED BY <1>g, <2>1, SameTables
  <1>2. CASE FormatOther(p)
    <2>1. /\ proc[p].i \in Formats /\ Other(p) /\ UNCHANGED <<formats, traces, points, sound>>
          /\ proc[p].pc = "format"
      BY <1>2 DEF FormatOther, history
    <2>2. proc[p].i + 1 \in Indices /\ proc[p].i + 1 \in 0 .. MAX_TRACE_FORMATS
      BY <2>1, Sizes DEF Formats, Indices
    <2>3. /\ \A q \in Processes \ {p} : proc'[q] = proc[q]
          /\ proc' \in [Processes -> Locals]
          /\ proc'[p].pc = "format" /\ proc'[p].addr = proc[p].addr
          /\ proc'[p].k = proc[p].k
          /\ proc'[p].i = proc[p].i + 1
          /\ proc'[p].trace_id = proc[p].trace_id
      BY <1>t, <2>1, <2>2, OtherMoves
    <2>4. Places'
      BY <1>k, <2>1, <2>2, <2>3, PlacedKept
         DEF Places, Placed, GotFormatOf, GotPointOf, FormatSteps, PointSteps, SetupSteps
    <2> QED BY <2>1, <2>3, <2>4, SameTables
  <1>to. ASSUME NEW to \in {"format_load", "format_store"}, NEW n \in Nat, proc[p].i \in Formats,
                \/ Goto(p, to)
                \/ proc' = [proc EXCEPT ![p].pc = to, ![p].tmp = n]
         PROVE  Places' /\ proc' \in [Processes -> Locals]
    <2>1. to \in Steps
      BY DEF Steps, FormatSteps
    <2>2. /\ \A q \in Processes \ {p} : proc'[q] = proc[q]
          /\ proc' \in [Processes -> Locals]
          /\ proc'[p].pc = to /\ proc'[p].addr = proc[p].addr
          /\ proc'[p].k = proc[p].k /\ proc'[p].i = proc[p].i
          /\ proc'[p].trace_id = proc[p].trace_id
      <3>1. CASE Goto(p, to)
        BY <1>t, <2>1, <3>1, GotoMoves DEF Becomes
      <3>2. CASE proc' = [proc EXCEPT ![p].pc = to, ![p].tmp = n]
        BY <1>t, <2>1, <3>2, LoadMoves
      <3> QED BY <1>to, <3>1, <3>2
    <2> QED BY <1>k, <1>to, <2>2, PlacedKept
            DEF Places, Placed, GotFormatOf, GotPointOf, FormatSteps, PointSteps, SetupSteps
  <1>3. CASE FormatWrite(p) /\ num_alloc_formats_ < MAX_TRACE_FORMATS
    <2>1. /\ proc[p].i \in Formats \/ num_alloc_formats_ >= MAX_TRACE_FORMATS
          /\ trace_formats_' = [trace_formats_ EXCEPT ![proc[p].i] = FormatList[proc[p].k]]
          /\ Goto(p, "format_load")
          /\ UNCHANGED <<num_alloc_formats_, traces, points, sound>>
      BY <1>3 DEF FormatWrite, history
    <2>2. proc[p].i \in Formats
      <3>1. num_alloc_formats_ \in Nat /\ MAX_TRACE_FORMATS \in Nat
        BY <1>t, Sizes
      <3> QED BY <1>3, <2>1, <3>1
    <2>3. FormatList[proc[p].k] \in ValuesOf(FormatList)
      BY <1>k DEF ValuesOf
    <2>4. trace_formats_' \in [Formats -> ValuesOf(FormatList) \cup {Default, ""}]
      BY <1>t, <2>1, <2>3
    <2>5. Places' /\ proc' \in [Processes -> Locals]
      BY <1>to, <2>1, <2>2
    <2> QED BY <1>t, <2>1, <2>4, <2>5, WritesKeep DEF points
  <1>4. CASE FormatWrite(p) /\ ~(num_alloc_formats_ < MAX_TRACE_FORMATS)
    BY <1>4, RegistryDeaths, DiesIs
  <1>5. CASE FormatLoad(p)
    <2>1. /\ proc' = [proc EXCEPT ![p].pc = "format_store", ![p].tmp = num_alloc_formats_]
          /\ UNCHANGED <<formats, traces, points, sound>>
      BY <1>5 DEF FormatLoad, history
    <2> QED BY <1>5, <1>t, <1>to, <2>1, Stepping, SameTables
  <1>6. CASE FormatStore(p)
    <2>1. /\ num_alloc_formats_' = proc[p].tmp + 1 /\ GotFormat(p)
          /\ UNCHANGED <<trace_formats_, traces, points, sound>>
      BY <1>6 DEF FormatStore, history
    <2>2. Places' /\ proc' \in [Processes -> Locals]
      BY <1>6, <1>g, <2>1, Stepping
    <2>3. num_alloc_formats_' \in Nat \ {0}
      <3>1. proc[p].tmp \in Nat
        BY <1>t, FieldTypes
      <3> QED BY <2>1, <3>1
    <2> QED BY <1>t, <2>1, <2>2, <2>3, WritesKeep DEF points
  <1> QED BY <1>1, <1>2, <1>3, <1>4, <1>5, <1>6

(* The steps of the list of points.                                        *)
LEMMA PointsKeep ==
  ASSUME TypeInv, Places, NEW p \in Processes,
         \/ PointKnown(p) \/ PointOther(p) \/ PointLoad(p) \/ PointStore(p)
         \/ PointSetup(p) \/ PointName(p) \/ MemAlloc(p)
  PROVE  TypeInv' /\ Places'
  <1>t. /\ proc \in [Processes -> Locals]
        /\ num_alloc_formats_ \in Nat \ {0} /\ num_alloc_prof_ \in Nat
        /\ trace_formats_ \in [Formats -> ValuesOf(FormatList) \cup {Default, ""}]
        /\ prof_fifo_ \in [Points -> PointRecords]
    BY DEF TypeInv
  <1>k. /\ proc[p].k \in DOMAIN PointList /\ proc[p].pc \in PointSteps
        /\ proc[p].addr \in Addresses
        /\ proc[p].i \in 0 .. PROF_GROUP_MAX
        /\ \A n \in DOMAIN FormatList : proc[p].trace_id[n] \in Formats
        /\ \A n \in DOMAIN PointList : n < proc[p].k => proc[p].profile_id[n] \in Points
    <2>1. proc[p].pc \in PointSteps /\ proc[p].k \in DOMAIN PointList
      BY Stepping
    <2>2. Placed(p) /\ proc[p].pc # "down"
      BY <2>1 DEF Places, PointSteps, SetupSteps
    <2> QED BY <2>1, <2>2 DEF Placed, GotFormatOf, GotPointOf
  <1>g. ASSUME GotPoint(p), proc[p].i \in Points
        PROVE  /\ Places' /\ proc' \in [Processes -> Locals]
    <2>1. /\ \A q \in Processes \ {p} : proc'[q] = proc[q]
          /\ proc' \in [Processes -> Locals]
          /\ IF proc[p].k = Len(PointList)
             THEN proc'[p].pc = "finish"
             ELSE proc'[p].pc = "point" /\ proc'[p].k = proc[p].k + 1
          /\ proc'[p].addr = proc[p].addr /\ proc'[p].i = 0
          /\ \A n \in DOMAIN PointList : proc'[p].profile_id[n] =
               IF n = proc[p].k THEN proc[p].i ELSE proc[p].profile_id[n]
          /\ proc'[p].trace_id = proc[p].trace_id
      BY <1>t, <1>k, <1>g, GotPointMoves
    <2>2. 0 \in 0 .. PROF_GROUP_MAX
      BY Sizes
    <2>3. \A n \in DOMAIN PointList : n <= proc[p].k => proc'[p].profile_id[n] \in Points
      BY <1>k, <1>g, <2>1, Lengths
    <2>4. CASE proc[p].k = Len(PointList)
      <3>1. proc'[p].pc = "finish"
        BY <2>1, <2>4
      <3>2. \A n \in DOMAIN PointList : proc'[p].profile_id[n] \in Points
        BY <2>3, <2>4, Lengths
      <3> QED BY <1>k, <2>1, <2>2, <3>1, <3>2, PlacedKept
              DEF Places, Placed, GotFormatOf, GotPointOf, FormatSteps, PointSteps, SetupSteps
    <2>5. CASE proc[p].k # Len(PointList)
      <3>1. proc'[p].pc = "point" /\ proc'[p].k = proc[p].k + 1
        BY <2>1, <2>5
      <3>2. proc'[p].k \in DOMAIN PointList
        BY <1>k, <2>5, <3>1, Lengths
      <3>3. \A n \in DOMAIN PointList : n < proc'[p].k => proc'[p].profile_id[n] \in Points
        BY <1>k, <2>3, <3>1, Lengths
      <3> QED BY <1>k, <2>1, <2>2, <3>1, <3>2, <3>3, PlacedKept
              DEF Places, Placed, GotFormatOf, GotPointOf, FormatSteps, PointSteps, SetupSteps
    <2> QED BY <2>1, <2>4, <2>5
  <1>1. CASE PointKnown(p)
    <2>1. proc[p].i \in Points /\ GotPoint(p) /\ UNCHANGED <<formats, traces, points, sound>>
      BY <1>1 DEF PointKnown, history
    <2> QED BY <1>g, <2>1, SameTables
  <1>2. CASE PointOther(p)
    <2>1. /\ proc[p].i \in Points /\ Other(p) /\ UNCHANGED <<formats, traces, points, sound>>
          /\ proc[p].pc = "point"
      BY <1>2 DEF PointOther, MayScan, history
    <2>2. proc[p].i + 1 \in Indices /\ proc[p].i + 1 \in 0 .. PROF_GROUP_MAX
      BY <2>1, Sizes DEF Points, Indices
    <2>3. /\ \A q \in Processes \ {p} : proc'[q] = proc[q]
          /\ proc' \in [Processes -> Locals]
          /\ proc'[p].pc = "point" /\ proc'[p].addr = proc[p].addr
          /\ proc'[p].k = proc[p].k
          /\ proc'[p].i = proc[p].i + 1
          /\ proc'[p].trace_id = proc[p].trace_id
          /\ proc'[p].profile_id = proc[p].profile_id
      BY <1>t, <2>1, <2>2, OtherMoves
    <2>4. Places'
      BY <1>k, <2>1, <2>2, <2>3, PlacedKept
         DEF Places, Placed, GotFormatOf, GotPointOf, FormatSteps, PointSteps, SetupSteps
    <2> QED BY <2>1, <2>3, <2>4, SameTables
  <1>to. ASSUME NEW to \in {"point_store"} \cup SetupSteps, NEW n \in Nat,
                to \in {"point_name", "point_alloc"} => proc[p].i \in Points,
                \/ Goto(p, to)
                \/ proc' = [proc EXCEPT ![p].pc = to, ![p].tmp = n]
         PROVE  Places' /\ proc' \in [Processes -> Locals]
    <2>1. to \in Steps /\ to \in PointSteps
      BY DEF Steps, PointSteps, SetupSteps
    <2>2. /\ \A q \in Processes \ {p} : proc'[q] = proc[q]
          /\ proc' \in [Processes -> Locals]
          /\ proc'[p].pc = to /\ proc'[p].addr = proc[p].addr
          /\ proc'[p].k = proc[p].k /\ proc'[p].i = proc[p].i
          /\ proc'[p].trace_id = proc[p].trace_id
          /\ proc'[p].profile_id = proc[p].profile_id
      <3>1. CASE Goto(p, to)
        BY <1>t, <2>1, <3>1, GotoMoves DEF Becomes
      <3>2. CASE proc' = [proc EXCEPT ![p].pc = to, ![p].tmp = n]
        BY <1>t, <2>1, <3>2, LoadMoves
      <3> QED BY <1>to, <3>1, <3>2
    <2> QED BY <1>k, <1>to, <2>2, PlacedKept
            DEF Places, Placed, GotFormatOf, GotPointOf, FormatSteps, PointSteps, SetupSteps
  <1>3. CASE PointLoad(p)
    <2>1. /\ proc' = [proc EXCEPT ![p].pc = "point_store", ![p].tmp = num_alloc_prof_]
          /\ UNCHANGED <<formats, traces, points, sound>>
      BY <1>3 DEF PointLoad, history
    <2>2. Places' /\ proc' \in [Processes -> Locals]
      <3> DEFINE n == num_alloc_prof_
      <3>1. n \in Nat /\ proc' = [proc EXCEPT ![p].pc = "point_store", ![p].tmp = n]
        BY <1>t, <2>1
      <3>2. /\ "point_store" \in {"point_store"} \cup SetupSteps
            /\ "point_store" \notin {"point_name", "point_alloc"}
        OBVIOUS
      <3> HIDE DEF n
      <3> QED BY <1>to, <3>1, <3>2
    <2> QED BY <2>1, <2>2, SameTables
  <1>4. CASE PointStore(p)
    <2>1. /\ num_alloc_prof_' = proc[p].tmp + 1 /\ Goto(p, "point_setup")
          /\ UNCHANGED <<formats, prof_fifo_, traces, sound>>
      BY <1>4 DEF PointStore, history
    <2>2. Places' /\ proc' \in [Processes -> Locals]
      BY <1>to, <2>1, 0 \in Nat DEF SetupSteps
    <2>3. num_alloc_prof_' \in Nat
      <3>1. proc[p].tmp \in Nat
        BY <1>t, FieldTypes
      <3> QED BY <2>1, <3>1
    <2>4. UNCHANGED <<num_alloc_formats_, trace_formats_, prof_fifo_, traces, sound>>
      BY <2>1 DEF formats
    <2> QED BY <1>t, <2>2, <2>3, <2>4, WritesKeep
  <1>5. CASE PointSetup(p)
    <2>1. Goto(p, "point_name") /\ UNCHANGED <<formats, traces, num_alloc_prof_, sound>>
      BY <1>5 DEF PointSetup, history
    <2>2. proc[p].i \in Points /\ prof_fifo_' \in [Points -> PointRecords]
      BY <1>5, SetupWrites DEF Wrote
    <2>3. Places' /\ proc' \in [Processes -> Locals]
      BY <1>to, <2>1, <2>2, 0 \in Nat DEF SetupSteps
    <2> QED BY <1>t, <2>1, <2>2, <2>3, WritesKeep DEF formats
  <1>6. CASE PointName(p)
    <2>1. Goto(p, "point_alloc") /\ UNCHANGED <<formats, traces, num_alloc_prof_, sound>>
      BY <1>6 DEF PointName, history
    <2>2. proc[p].i \in Points /\ prof_fifo_' \in [Points -> PointRecords]
      BY <1>6, NameWrites DEF Wrote
    <2>3. Places' /\ proc' \in [Processes -> Locals]
      BY <1>to, <2>1, <2>2, 0 \in Nat DEF SetupSteps
    <2> QED BY <1>t, <2>1, <2>2, <2>3, WritesKeep DEF formats
  <1>7. CASE MemAlloc(p)
    <2>1. GotPoint(p) /\ UNCHANGED <<formats, traces, num_alloc_prof_, sound>>
      BY <1>7 DEF MemAlloc, history
    <2>2. proc[p].i \in Points /\ prof_fifo_' \in [Points -> PointRecords]
      BY <1>7, AllocWrites DEF Wrote
    <2>3. Places' /\ proc' \in [Processes -> Locals]
      BY <1>g, <2>1, <2>2
    <2> QED BY <1>t, <2>1, <2>2, <2>3, WritesKeep DEF formats
  <1> QED BY <1>1, <1>2, <1>3, <1>4, <1>5, <1>6, <1>7

(* The steps that begin, finish and end a process.                         *)
LEMMA TurnsKeep ==
  ASSUME TypeInv, Places, NEW p \in Processes, Start(p) \/ Finish(p) \/ End(p)
  PROVE  TypeInv' /\ Places'
  <1>t. proc \in [Processes -> Locals] /\ DOMAIN sound = Processes
    BY DEF TypeInv
  <1>s. ASSUME UNCHANGED <<formats, traces, points>>, DOMAIN sound' = Processes,
               proc' \in [Processes -> Locals]
        PROVE  TypeInv'
    BY <1>s DEF TypeInv, formats, points
  <1>1. CASE Start(p)
    <2>1. PICK a \in Addresses :
             proc' = [proc EXCEPT ![p].pc = "format", ![p].addr = a]
      BY <1>1 DEF Start
    <2>2. proc[p] = Down
      BY <1>1 DEF Start, Places, Placed
    <2>3. /\ \A q \in Processes \ {p} : proc'[q] = proc[q]
          /\ proc' \in [Processes -> Locals]
          /\ proc'[p].pc = "format" /\ proc'[p].addr = a /\ proc'[p].k = 1
          /\ proc'[p].i = 0
      BY <1>t, <2>1, <2>2, StartMoves
    <2>4. /\ 1 \in DOMAIN FormatList /\ \A n \in DOMAIN FormatList : ~(n < 1)
          /\ 0 \in 0 .. MAX_TRACE_FORMATS
      BY Lengths, Sizes
    <2>5. Places'
      BY <2>3, <2>4, PlacedKept
         DEF Places, Placed, GotFormatOf, GotPointOf, FormatSteps, PointSteps, SetupSteps
    <2>6. DOMAIN sound' = Processes /\ UNCHANGED <<formats, traces, points>>
      BY <1>1, <1>t DEF Start
    <2> QED BY <1>s, <2>3, <2>5, <2>6
  <1>2. CASE Finish(p)
    <2>1. proc[p].pc = "finish" /\ Goto(p, "ready") /\ "ready" \in Steps
      BY <1>2 DEF Finish, Steps, Resting
    <2>2. /\ \A q \in Processes \ {p} : proc'[q] = proc[q]
          /\ proc' \in [Processes -> Locals]
          /\ proc'[p].pc = "ready" /\ proc'[p].addr = proc[p].addr
          /\ proc'[p].trace_id = proc[p].trace_id
          /\ proc'[p].profile_id = proc[p].profile_id
      BY <1>t, <2>1, GotoMoves DEF Becomes
    <2>3. Places'
      BY <2>1, <2>2, PlacedKept
         DEF Places, Placed, GotFormatOf, GotPointOf, FormatSteps, PointSteps, SetupSteps
    <2>4. DOMAIN sound' = Processes /\ UNCHANGED <<formats, traces, points>>
      BY <1>2, <1>t DEF Finish
    <2> QED BY <1>s, <2>2, <2>3, <2>4
  <1>3. CASE End(p)
    <2>1. /\ \A q \in Processes \ {p} : proc'[q] = proc[q]
          /\ proc' \in [Processes -> Locals]
          /\ proc'[p] = Down /\ proc'[p].pc = "down"
      BY <1>3, <1>t, EndMoves
    <2>2. Places'
      BY <2>1, PlacedKept
         DEF Places, Placed, GotFormatOf, GotPointOf, FormatSteps, PointSteps, SetupSteps
    <2>3. DOMAIN sound' = Processes /\ UNCHANGED <<formats, traces, points>>
      BY <1>3, <1>t DEF End
    <2> QED BY <1>s, <2>1, <2>2, <2>3
  <1> QED BY <1>1, <1>2, <1>3

(* What a step is.                                                         *)
FormatStep(p) ==
  FormatKnown(p) \/ FormatOther(p) \/ FormatWrite(p) \/ FormatLoad(p) \/ FormatStore(p)
PointStep(p) ==
  \/ PointKnown(p) \/ PointOther(p) \/ PointLoad(p) \/ PointStore(p)
  \/ PointSetup(p) \/ PointName(p) \/ MemAlloc(p)

LEMMA StepIs ==
  ASSUME TypeInv, Places, NEW p \in Processes, Register(p) \/ Use(p) \/ End(p)
  PROVE  \/ Start(p) \/ FormatStep(p) \/ PointStep(p) \/ Finish(p) \/ End(p)
         \/ DiesSomehow(p) \/ Works(p)
  BY UseIs, RegistryDeaths DEF Register, FormatStep, PointStep

LEMMA TypeInvNext == TypeInv /\ Places /\ [Next]_vars => TypeInv' /\ Places'
  <1> SUFFICES ASSUME TypeInv, Places, [Next]_vars PROVE TypeInv' /\ Places'
    OBVIOUS
  <1>1. CASE UNCHANGED vars
    <2>1. TypeInv'
      BY <1>1 DEF TypeInv, vars, formats, points, history
    <2>2. Places'
      BY <1>1 DEF Places, Placed, GotFormatOf, GotPointOf, vars
    <2> QED BY <2>1, <2>2
  <1>2. ASSUME NEW p \in Processes, Register(p) \/ Use(p) \/ End(p)
        PROVE  TypeInv' /\ Places'
    BY <1>2, StepIs, FormatsKeep, PointsKeep, TurnsKeep, DiesIs, WorksIs
       DEF FormatStep, PointStep
  <1> QED BY <1>1, <1>2 DEF Next

-----------------------------------------------------------------------------
Step(p) == Register(p) \/ Use(p) \/ End(p)

(* The places of the processes tell which of them register.                *)
LEMMA Where ==
  ASSUME NEW q \in Processes
  PROVE  /\ proc[q].pc \in FormatSteps \cup PointSteps \cup {"finish"} => Registering(q)
         /\ proc[q].pc \in {"down", "ready"} \cup Dead => ~Registering(q)
  BY DEF Registering, Resting, Dead, FormatSteps, PointSteps, SetupSteps

LEMMA WhereNext ==
  ASSUME NEW q \in Processes
  PROVE  /\ proc'[q].pc \in FormatSteps \cup PointSteps \cup {"finish"} => Registering(q)'
         /\ proc'[q].pc \in {"down", "ready"} \cup Dead => ~Registering(q)'
         /\ proc'[q] = proc[q] => (Registering(q)' <=> Registering(q))
  BY DEF Registering, Resting, Dead, FormatSteps, PointSteps, SetupSteps

(* What the steps of the list of formats do to the locals of p.            *)
LEMMA FormatStepIs ==
  ASSUME TypeInv, Places, NEW p \in Processes, FormatStep(p), ~DiesSomehow(p)
  PROVE  /\ \A q \in Processes \ {p} : proc'[q] = proc[q]
         /\ proc[p].pc \in FormatSteps /\ proc[p].k \in DOMAIN FormatList
         /\ proc'[p].addr = proc[p].addr /\ proc'[p].profile_id = proc[p].profile_id
         /\ UNCHANGED <<traces, points, history>>
         /\ FormatKnown(p) \/ FormatStore(p) =>
              /\ proc[p].i \in Formats /\ proc'[p].i = 0
              /\ IF proc[p].k = Len(FormatList)
                 THEN proc'[p].pc = "point" /\ proc'[p].k = 1
                 ELSE proc'[p].pc = "format" /\ proc'[p].k = proc[p].k + 1
              /\ \A n \in DOMAIN FormatList : proc'[p].trace_id[n] =
                   IF n = proc[p].k THEN proc[p].i ELSE proc[p].trace_id[n]
         /\ FormatOther(p) =>
              /\ proc[p].i \in Formats
              /\ proc'[p].i = proc[p].i + 1 /\ proc'[p].pc = "format"
              /\ proc'[p].k = proc[p].k /\ proc'[p].trace_id = proc[p].trace_id
         /\ FormatWrite(p) =>
              /\ proc[p].i \in Formats
              /\ trace_formats_' = [trace_formats_ EXCEPT ![proc[p].i] = FormatList[proc[p].k]]
              /\ proc'[p].i = proc[p].i /\ proc'[p].pc = "format_load"
              /\ proc'[p].k = proc[p].k /\ proc'[p].trace_id = proc[p].trace_id
         /\ FormatLoad(p) =>
              /\ proc[p].i \in Formats
              /\ proc'[p].i = proc[p].i /\ proc'[p].pc = "format_store"
              /\ proc'[p].tmp = num_alloc_formats_
              /\ proc'[p].k = proc[p].k /\ proc'[p].trace_id = proc[p].trace_id
  <1>t. proc \in [Processes -> Locals] /\ num_alloc_formats_ \in Nat
    BY DEF TypeInv
  <1>k. proc[p].pc \in FormatSteps /\ proc[p].k \in DOMAIN FormatList
    BY Stepping DEF FormatStep
  <1>1. ASSUME FormatKnown(p) \/ FormatStore(p)
        PROVE  /\ \A q \in Processes \ {p} : proc'[q] = proc[q]
               /\ proc'[p].addr = proc[p].addr /\ proc'[p].profile_id = proc[p].profile_id
               /\ UNCHANGED <<traces, points, history>>
               /\ proc[p].i \in Formats /\ proc'[p].i = 0
               /\ IF proc[p].k = Len(FormatList)
                  THEN proc'[p].pc = "point" /\ proc'[p].k = 1
                  ELSE proc'[p].pc = "format" /\ proc'[p].k = proc[p].k + 1
               /\ \A n \in DOMAIN FormatList : proc'[p].trace_id[n] =
                    IF n = proc[p].k THEN proc[p].i ELSE proc[p].trace_id[n]
    <2>1. GotFormat(p) /\ proc[p].i \in Formats
      BY <1>1, Stepping DEF FormatKnown, FormatStore
    <2>2. UNCHANGED <<traces, points, history>>
      BY <1>1 DEF FormatKnown, FormatStore
    <2> QED BY <1>1, <1>t, <1>k, <2>1, <2>2, GotFormatMoves
  <1>2. ASSUME FormatOther(p)
        PROVE  /\ \A q \in Processes \ {p} : proc'[q] = proc[q]
               /\ proc'[p].addr = proc[p].addr /\ proc'[p].profile_id = proc[p].profile_id
               /\ UNCHANGED <<traces, points, history>>
               /\ proc[p].i \in Formats
               /\ proc'[p].i = proc[p].i + 1 /\ proc'[p].pc = "format"
               /\ proc'[p].k = proc[p].k /\ proc'[p].trace_id = proc[p].trace_id
    <2>1. /\ proc[p].i \in Formats /\ Other(p) /\ UNCHANGED <<traces, points, history>>
          /\ proc[p].pc = "format"
      BY <1>2 DEF FormatOther
    <2>2. proc[p].i + 1 \in Indices
      <3>1. proc[p].i + 1 \in 0 .. MAX_TRACE_FORMATS
        BY <2>1, Sizes DEF Formats
      <3> QED BY <3>1 DEF Indices
    <2> QED BY <1>2, <1>t, <1>k, <2>1, <2>2, OtherMoves
  <1>3. ASSUME FormatWrite(p)
        PROVE  /\ \A q \in Processes \ {p} : proc'[q] = proc[q]
               /\ proc'[p].addr = proc[p].addr /\ proc'[p].profile_id = proc[p].profile_id
               /\ UNCHANGED <<traces, points, history>>
               /\ proc[p].i \in Formats
               /\ trace_formats_' = [trace_formats_ EXCEPT ![proc[p].i] = FormatList[proc[p].k]]
               /\ proc'[p].i = proc[p].i /\ proc'[p].pc = "format_load"
               /\ proc'[p].k = proc[p].k /\ proc'[p].trace_id = proc[p].trace_id
    <2>1. num_alloc_formats_ < MAX_TRACE_FORMATS
      BY <1>3, RegistryDeaths
    <2>2. /\ proc[p].i \in Formats \/ num_alloc_formats_ >= MAX_TRACE_FORMATS
          /\ trace_formats_' = [trace_formats_ EXCEPT ![proc[p].i] = FormatList[proc[p].k]]
          /\ Goto(p, "format_load") /\ UNCHANGED <<traces, points, history>>
      BY <1>3, <2>1 DEF FormatWrite
    <2>3. proc[p].i \in Formats
      <3>1. num_alloc_formats_ \in Nat /\ MAX_TRACE_FORMATS \in Nat
        BY <1>t, Sizes
      <3> QED BY <2>1, <2>2, <3>1
    <2>4. "format_load" \in Steps
      BY DEF Steps, FormatSteps
    <2> QED BY <1>3, <1>t, <1>k, <2>2, <2>3, <2>4, GotoMoves DEF Becomes
  <1>4. ASSUME FormatLoad(p)
        PROVE  /\ \A q \in Processes \ {p} : proc'[q] = proc[q]
               /\ proc'[p].addr = proc[p].addr /\ proc'[p].profile_id = proc[p].profile_id
               /\ UNCHANGED <<traces, points, history>>
               /\ proc[p].i \in Formats
               /\ proc'[p].i = proc[p].i /\ proc'[p].pc = "format_store"
               /\ proc'[p].tmp = num_alloc_formats_
               /\ proc'[p].k = proc[p].k /\ proc'[p].trace_id = proc[p].trace_id
    <2>1. /\ proc' = [proc EXCEPT ![p].pc = "format_store", ![p].tmp = num_alloc_formats_]
          /\ UNCHANGED <<traces, points, history>>
      BY <1>4 DEF FormatLoad
    <2>2. proc[p].i \in Formats /\ "format_store" \in Steps
      BY <1>4, Stepping DEF Steps, FormatSteps
    <2>a. PICK n \in Nat, to \in Steps : n = num_alloc_formats_ /\ to = "format_store"
      BY <1>t, <2>2
    <2>3. proc' = [proc EXCEPT ![p].pc = to, ![p].tmp = n]
      BY <2>1, <2>a
    <2>4. /\ \A q \in Processes \ {p} : proc'[q] = proc[q]
          /\ proc'[p].pc = to /\ proc'[p].addr = proc[p].addr
          /\ proc'[p].k = proc[p].k /\ proc'[p].i = proc[p].i
          /\ proc'[p].trace_id = proc[p].trace_id
          /\ proc'[p].profile_id = proc[p].profile_id
      BY <1>t, <2>3, LoadMoves
    <2>5. proc'[p].tmp = n
      <3>1. proc'[p] = [proc[p] EXCEPT !.pc = to, !.tmp = n] /\ proc[p] \in Locals
        BY <1>t, <2>3
      <3> QED BY <3>1 DEF Locals
    <2> QED BY <1>4, <1>k, <2>1, <2>2, <2>4, <2>5, <2>a
  <1> QED BY <1>k, <1>1, <1>2, <1>3, <1>4, Zenon DEF FormatStep

(* What the steps of the list of points do to the locals of p.             *)
LEMMA PointStepIs ==
  ASSUME TypeInv, Places, NEW p \in Processes, PointStep(p)
  PROVE  /\ \A q \in Processes \ {p} : proc'[q] = proc[q]
         /\ proc[p].pc \in PointSteps /\ proc[p].k \in DOMAIN PointList
         /\ proc'[p].addr = proc[p].addr /\ proc'[p].trace_id = proc[p].trace_id
         /\ UNCHANGED <<formats, traces, history>>
         /\ PointKnown(p) \/ MemAlloc(p) =>
              /\ proc[p].i \in Points /\ proc'[p].i = 0
              /\ IF proc[p].k = Len(PointList)
                 THEN proc'[p].pc = "finish"
                 ELSE proc'[p].pc = "point" /\ proc'[p].k = proc[p].k + 1
              /\ \A n \in DOMAIN PointList : proc'[p].profile_id[n] =
                   IF n = proc[p].k THEN proc[p].i ELSE proc[p].profile_id[n]
         /\ PointOther(p) =>
              /\ proc[p].i \in Points
              /\ proc'[p].i = proc[p].i + 1 /\ proc'[p].pc = "point"
              /\ proc'[p].k = proc[p].k /\ proc'[p].profile_id = proc[p].profile_id
         /\ PointLoad(p) =>
              /\ proc'[p].i = proc[p].i
              /\ proc'[p].pc = "point_store" /\ proc'[p].tmp = num_alloc_prof_
              /\ proc'[p].k = proc[p].k /\ proc'[p].profile_id = proc[p].profile_id
         /\ PointStore(p) =>
              /\ proc'[p].i = proc[p].i /\ proc'[p].pc = "point_setup"
              /\ proc'[p].k = proc[p].k /\ proc'[p].profile_id = proc[p].profile_id
         /\ PointSetup(p) =>
              /\ proc[p].i \in Points
              /\ proc'[p].i = proc[p].i /\ proc'[p].pc = "point_name"
              /\ proc'[p].k = proc[p].k /\ proc'[p].profile_id = proc[p].profile_id
         /\ PointName(p) =>
              /\ proc[p].i \in Points
              /\ proc'[p].i = proc[p].i /\ proc'[p].pc = "point_alloc"
              /\ proc'[p].k = proc[p].k /\ proc'[p].profile_id = proc[p].profile_id
  <1>t. proc \in [Processes -> Locals] /\ num_alloc_prof_ \in Nat
    BY DEF TypeInv
  <1>k. proc[p].pc \in PointSteps /\ proc[p].k \in DOMAIN PointList
    BY Stepping DEF PointStep
  <1>1. ASSUME PointKnown(p) \/ MemAlloc(p)
        PROVE  /\ \A q \in Processes \ {p} : proc'[q] = proc[q]
               /\ proc'[p].addr = proc[p].addr /\ proc'[p].trace_id = proc[p].trace_id
               /\ UNCHANGED <<formats, traces, history>>
               /\ proc[p].i \in Points /\ proc'[p].i = 0
               /\ IF proc[p].k = Len(PointList)
                  THEN proc'[p].pc = "finish"
                  ELSE proc'[p].pc = "point" /\ proc'[p].k = proc[p].k + 1
               /\ \A n \in DOMAIN PointList : proc'[p].profile_id[n] =
                    IF n = proc[p].k THEN proc[p].i ELSE proc[p].profile_id[n]
    <2>1. GotPoint(p) /\ proc[p].i \in Points
      BY <1>1, Stepping DEF PointKnown, MemAlloc
    <2>2. UNCHANGED <<formats, traces, history>>
      BY <1>1 DEF PointKnown, MemAlloc
    <2> QED BY <1>1, <1>t, <1>k, <2>1, <2>2, GotPointMoves
  <1>2. ASSUME PointOther(p)
        PROVE  /\ \A q \in Processes \ {p} : proc'[q] = proc[q]
               /\ proc'[p].addr = proc[p].addr /\ proc'[p].trace_id = proc[p].trace_id
               /\ UNCHANGED <<formats, traces, history>>
               /\ proc[p].i \in Points
               /\ proc'[p].i = proc[p].i + 1 /\ proc'[p].pc = "point"
               /\ proc'[p].k = proc[p].k /\ proc'[p].profile_id = proc[p].profile_id
    <2>1. /\ proc[p].i \in Points /\ Other(p) /\ UNCHANGED <<formats, traces, history>>
          /\ proc[p].pc = "point"
      BY <1>2 DEF PointOther, MayScan
    <2>2. proc[p].i + 1 \in Indices
      <3>1. proc[p].i + 1 \in 0 .. PROF_GROUP_MAX
        BY <2>1, Sizes DEF Points
      <3> QED BY <3>1 DEF Indices
    <2> QED BY <1>2, <1>t, <1>k, <2>1, <2>2, OtherMoves
  <1>3. ASSUME PointLoad(p)
        PROVE  /\ \A q \in Processes \ {p} : proc'[q] = proc[q]
               /\ proc'[p].addr = proc[p].addr /\ proc'[p].trace_id = proc[p].trace_id
               /\ UNCHANGED <<formats, traces, history>>
               /\ proc'[p].i = proc[p].i
               /\ proc'[p].pc = "point_store" /\ proc'[p].tmp = num_alloc_prof_
               /\ proc'[p].k = proc[p].k /\ proc'[p].profile_id = proc[p].profile_id
    <2>1. /\ proc' = [proc EXCEPT ![p].pc = "point_store", ![p].tmp = num_alloc_prof_]
          /\ UNCHANGED <<formats, traces, history>>
      BY <1>3 DEF PointLoad
    <2>2. "point_store" \in Steps
      BY DEF Steps, PointSteps
    <2>a. PICK n \in Nat, to \in Steps : n = num_alloc_prof_ /\ to = "point_store"
      BY <1>t, <2>2
    <2>3. proc' = [proc EXCEPT ![p].pc = to, ![p].tmp = n]
      BY <2>1, <2>a
    <2>4. /\ \A q \in Processes \ {p} : proc'[q] = proc[q]
          /\ proc'[p].pc = to /\ proc'[p].addr = proc[p].addr
          /\ proc'[p].k = proc[p].k /\ proc'[p].i = proc[p].i
          /\ proc'[p].trace_id = proc[p].trace_id
          /\ proc'[p].profile_id = proc[p].profile_id
      BY <1>t, <2>3, LoadMoves
    <2>5. proc'[p].tmp = n
      <3>1. proc'[p] = [proc[p] EXCEPT !.pc = to, !.tmp = n] /\ proc[p] \in Locals
        BY <1>t, <2>3
      <3> QED BY <3>1 DEF Locals
    <2> QED BY <1>3, <1>k, <2>1, <2>4, <2>5, <2>a
  <1>4. ASSUME NEW to \in SetupSteps, Goto(p, to)
        PROVE  /\ \A q \in Processes \ {p} : proc'[q] = proc[q]
               /\ proc'[p].pc = to /\ proc'[p].addr = proc[p].addr
               /\ proc'[p].k = proc[p].k /\ proc'[p].i = proc[p].i
               /\ proc'[p].trace_id = proc[p].trace_id
               /\ proc'[p].profile_id = proc[p].profile_id
    <2>1. to \in Steps
      BY DEF Steps, PointSteps
    <2> QED BY <1>4, <1>t, <2>1, GotoMoves DEF Becomes
  <1>5. ASSUME PointStore(p)
        PROVE  /\ \A q \in Processes \ {p} : proc'[q] = proc[q]
               /\ proc'[p].addr = proc[p].addr /\ proc'[p].trace_id = proc[p].trace_id
               /\ UNCHANGED <<formats, traces, history>>
               /\ proc'[p].i = proc[p].i /\ proc'[p].pc = "point_setup"
               /\ proc'[p].k = proc[p].k /\ proc'[p].profile_id = proc[p].profile_id
    <2>1. Goto(p, "point_setup") /\ UNCHANGED <<formats, traces, history>>
      BY <1>5 DEF PointStore
    <2> QED BY <1>4, <1>5, <1>k, <2>1 DEF SetupSteps
  <1>6. ASSUME PointSetup(p)
        PROVE  /\ \A q \in Processes \ {p} : proc'[q] = proc[q]
               /\ proc'[p].addr = proc[p].addr /\ proc'[p].trace_id = proc[p].trace_id
               /\ UNCHANGED <<formats, traces, history>>
               /\ proc[p].i \in Points
               /\ proc'[p].i = proc[p].i /\ proc'[p].pc = "point_name"
               /\ proc'[p].k = proc[p].k /\ proc'[p].profile_id = proc[p].profile_id
    <2>1. /\ Goto(p, "point_name") /\ UNCHANGED <<formats, traces, history>>
          /\ proc[p].i \in Points
      BY <1>6 DEF PointSetup
    <2> QED BY <1>4, <1>6, <1>k, <2>1 DEF SetupSteps
  <1>7. ASSUME PointName(p)
        PROVE  /\ \A q \in Processes \ {p} : proc'[q] = proc[q]
               /\ proc'[p].addr = proc[p].addr /\ proc'[p].trace_id = proc[p].trace_id
               /\ UNCHANGED <<formats, traces, history>>
               /\ proc[p].i \in Points
               /\ proc'[p].i = proc[p].i /\ proc'[p].pc = "point_alloc"
               /\ proc'[p].k = proc[p].k /\ proc'[p].profile_id = proc[p].profile_id
    <2>1. /\ Goto(p, "point_alloc") /\ UNCHANGED <<formats, traces, history>>
          /\ proc[p].i \in Points
      BY <1>7, Stepping DEF PointName
    <2> QED BY <1>4, <1>7, <1>k, <2>1 DEF SetupSteps
  <1> QED BY <1>k, <1>1, <1>2, <1>3, <1>5, <1>6, <1>7, Zenon DEF PointStep

(* What a process that does not register, and does not begin to, does.     *)
LEMMA QuietStep ==
  ASSUME TypeInv, Places, NEW p \in Processes, Step(p), ~Start(p), ~Registering(p)
  PROVE  /\ Still /\ ~Registering(p)'
         /\ \A q \in Processes \ {p} : proc'[q] = proc[q]
         /\ UNCHANGED <<alone, creator, settled, sound, raced>> /\ (cut => cut')
         /\ \/ proc'[p] = Down
            \/ proc'[p].pc \in Dead /\ proc'[p].addr = proc[p].addr
            \/ proc' = proc
  <1>1. DiesSomehow(p) \/ Works(p) \/ End(p)
    <2>1. ~FormatStep(p) /\ ~PointStep(p) /\ ~Finish(p)
      BY Stepping, Where DEF FormatStep, PointStep, Finish
    <2> QED BY <2>1, StepIs DEF Step
  <1>2. CASE DiesSomehow(p)
    <2>1. /\ UNCHANGED <<formats, points, alone, creator, settled, sound, raced>>
          /\ cut' = (cut \/ Registering(p)) /\ proc'[p].pc \in Dead
          /\ proc'[p].addr = proc[p].addr
          /\ \A q \in Processes \ {p} : proc'[q] = proc[q]
      BY <1>2, DiesIs
    <2>2. Still /\ (cut => cut')
      BY <2>1 DEF Still, points
    <2> QED BY <2>1, <2>2, WhereNext
  <1>3. CASE Works(p)
    <2>1. proc' = proc /\ UNCHANGED history
      BY <1>3 DEF Works
    <2> QED BY <1>3, <2>1, WorksIs, WhereNext DEF history
  <1>4. CASE End(p)
    <2>1. /\ \A q \in Processes \ {p} : proc'[q] = proc[q]
          /\ proc'[p] = Down /\ proc'[p].pc = "down"
      BY <1>4, EndMoves DEF TypeInv
    <2>2. /\ UNCHANGED <<formats, points, alone, creator, settled, sound, raced>>
          /\ cut => cut'
      BY <1>4 DEF End
    <2>3. Still
      BY <2>2 DEF Still, points
    <2> QED BY <2>1, <2>2, <2>3, WhereNext
  <1> QED BY <1>1, <1>2, <1>3, <1>4

LEMMA OwnFormats ==
  ASSUME TypeInv, Places, NEW p \in Processes, FormatStep(p), ~DiesSomehow(p), Own(p)
  PROVE  Own(p)'
  <1>t. num_alloc_formats_ \in Nat /\ num_alloc_prof_ \in Nat /\ proc[p].i \in Nat
    BY FieldTypes DEF TypeInv
  <1>f. trace_formats_ \in [Formats -> ValuesOf(FormatList) \cup {Default, ""}]
    BY DEF TypeInv
  <1>o. /\ \A q \in Processes : Registering(q)' => q = p
        /\ num_alloc_prof_' = num_alloc_prof_
    BY FormatStepIs, WhereNext DEF Own, points
  <1>1. CASE FormatKnown(p) \/ FormatStore(p)
    <2>1. /\ proc'[p].i = 0
          /\ proc'[p].pc \in {"point", "format"}
      BY <1>1, FormatStepIs
      DEF FormatKnown, FormatOther, FormatWrite, FormatLoad, FormatStore
    <2>2. num_alloc_formats_' \in Nat
      <3>1. proc[p].tmp \in Nat
        BY FieldTypes DEF TypeInv
      <3>2. CASE FormatKnown(p)
        BY <1>t, <3>2 DEF FormatKnown, formats
      <3>3. CASE FormatStore(p)
        BY <3>1, <3>3 DEF FormatStore
      <3> QED BY <1>1, <3>2, <3>3
    <2>3. /\ proc'[p].i <= num_alloc_formats_' /\ proc'[p].i <= num_alloc_prof_'
          /\ ~(proc'[p].i > 0)
      BY <1>t, <1>o, <2>1, <2>2
    <2> QED BY <1>o, <2>1, <2>3 DEF Own, SetupSteps
  <1>2. CASE FormatOther(p)
    <2>1. /\ proc'[p].i = proc[p].i + 1 /\ proc'[p].pc = "format"
          /\ proc[p].i < num_alloc_formats_ /\ num_alloc_formats_' = num_alloc_formats_
      BY <1>2, FormatStepIs
      DEF FormatKnown, FormatOther, FormatWrite, FormatLoad, FormatStore,
          formats
    <2>2. proc'[p].i <= num_alloc_formats_'
      BY <1>t, <2>1
    <2> QED BY <1>o, <2>1, <2>2 DEF Own, SetupSteps
  <1>3. CASE FormatWrite(p)
    <2>1. /\ trace_formats_' = [trace_formats_ EXCEPT ![proc[p].i] = FormatList[proc[p].k]]
          /\ proc'[p].i = proc[p].i /\ proc'[p].pc = "format_load" /\ proc[p].i \in Formats
          /\ proc'[p].k = proc[p].k /\ num_alloc_formats_' = num_alloc_formats_
          /\ proc[p].i >= num_alloc_formats_ /\ proc[p].pc = "format"
      BY <1>3, FormatStepIs
      DEF FormatKnown, FormatOther, FormatWrite, FormatLoad, FormatStore
    <2>2. proc[p].i = num_alloc_formats_
      <3>1. proc[p].i <= num_alloc_formats_
        BY <2>1 DEF Own
      <3>2. num_alloc_formats_ \in Nat /\ proc[p].i \in Nat /\ proc[p].i >= num_alloc_formats_
        BY <1>t, <2>1
      <3> QED BY <3>1, <3>2
    <2>3. trace_formats_'[proc'[p].i] = FormatList[proc'[p].k]
      BY <1>f, <2>1
    <2>4. proc'[p].i = num_alloc_formats_'
      BY <2>1, <2>2
    <2> QED BY <1>o, <2>1, <2>3, <2>4 DEF Own, SetupSteps, SameFormat
  <1>4. CASE FormatLoad(p)
    <2>1. /\ proc'[p].i = proc[p].i /\ proc'[p].pc = "format_store"
          /\ proc'[p].tmp = num_alloc_formats_ /\ proc'[p].k = proc[p].k
          /\ num_alloc_formats_' = num_alloc_formats_ /\ trace_formats_' = trace_formats_
          /\ proc[p].pc = "format_load"
      BY <1>4, FormatStepIs
      DEF FormatKnown, FormatOther, FormatWrite, FormatLoad, FormatStore,
          formats
    <2>2. proc[p].i = num_alloc_formats_ /\ trace_formats_[proc[p].i] = FormatList[proc[p].k]
      BY <2>1 DEF Own, SameFormat
    <2>3. /\ proc'[p].i = num_alloc_formats_' /\ proc'[p].tmp = num_alloc_formats_'
          /\ trace_formats_'[proc'[p].i] = FormatList[proc'[p].k]
      BY <2>1, <2>2
    <2> QED BY <1>o, <2>1, <2>3 DEF Own, SetupSteps, SameFormat
  <1> QED BY <1>1, <1>2, <1>3, <1>4 DEF FormatStep

LEMMA OwnPoints ==
  ASSUME TypeInv, Places, NEW p \in Processes, PointStep(p), Own(p)
  PROVE  Own(p)'
  <1>t. /\ num_alloc_prof_ \in Nat /\ proc[p].i \in Nat
        /\ prof_fifo_ \in [Points -> PointRecords] /\ PROF_GROUP_MAX \in Nat
    BY FieldTypes, Sizes DEF TypeInv
  <1>o. \A q \in Processes : Registering(q)' => q = p
    BY PointStepIs, WhereNext DEF Own
  <1>n. \A f \in Points : f \in Nat /\ f < PROF_GROUP_MAX
    BY Ranges
  <1>1. CASE PointKnown(p) \/ MemAlloc(p)
    <2>1. /\ proc'[p].i = 0
          /\ proc'[p].pc \in {"point", "finish"}
          /\ proc[p].i \in Points
          /\ num_alloc_prof_' = num_alloc_prof_
      BY <1>1, PointStepIs
         DEF PointKnown, PointOther, PointLoad, PointStore, PointSetup, PointName, MemAlloc,
             MayScan, points
    <2>2. num_alloc_prof_ <= PROF_GROUP_MAX
      <3>1. CASE PointKnown(p)
        BY <1>t, <3>1 DEF PointKnown, MayScan, Own
      <3>2. CASE MemAlloc(p)
        <4>1. proc[p].i + 1 = num_alloc_prof_
          BY <3>2 DEF MemAlloc, Own, SetupSteps
        <4> QED BY <1>t, <1>n, <2>1, <4>1
      <3> QED BY <1>1, <3>1, <3>2
    <2> QED BY <1>t, <1>o, <2>1, <2>2 DEF Own, SetupSteps
  <1>2. CASE PointOther(p)
    <2>1. /\ proc'[p].i = proc[p].i + 1 /\ proc'[p].pc = "point"
          /\ proc[p].i < num_alloc_prof_ /\ num_alloc_prof_' = num_alloc_prof_
          /\ MayScan(p)
      BY <1>2, PointStepIs
         DEF PointKnown, PointOther, PointLoad, PointStore, PointSetup, PointName, MemAlloc,
             MayScan, points
    <2>2. num_alloc_prof_ <= PROF_GROUP_MAX
      BY <1>t, <2>1 DEF MayScan, Own
    <2> QED BY <1>t, <1>o, <2>1, <2>2 DEF Own, SetupSteps
  <1>3. CASE PointLoad(p)
    <2>1. /\ proc'[p].i = proc[p].i /\ proc'[p].pc = "point_store"
          /\ proc'[p].tmp = num_alloc_prof_ /\ proc[p].pc = "point"
          /\ proc[p].i >= num_alloc_prof_ /\ num_alloc_prof_' = num_alloc_prof_
      BY <1>3, PointStepIs
         DEF PointKnown, PointOther, PointLoad, PointStore, PointSetup, PointName, MemAlloc,
             MayScan, points
    <2>2. proc[p].i = num_alloc_prof_
      BY <1>t, <2>1 DEF Own
    <2> QED BY <1>o, <2>1, <2>2 DEF Own, SetupSteps
  <1>4. CASE PointStore(p)
    <2>1. /\ proc'[p].i = proc[p].i /\ proc'[p].pc = "point_setup"
          /\ num_alloc_prof_' = proc[p].tmp + 1
          /\ proc[p].tmp = num_alloc_prof_ /\ proc[p].i = num_alloc_prof_
      BY <1>4, PointStepIs
         DEF PointKnown, PointOther, PointLoad, PointStore, PointSetup, PointName, MemAlloc,
             MayScan, Own
    <2> QED BY <1>o, <2>1 DEF Own, SetupSteps
  <1>5. CASE PointSetup(p)
    <2>1. /\ proc'[p].i = proc[p].i /\ proc'[p].pc = "point_name"
          /\ num_alloc_prof_' = num_alloc_prof_ /\ proc[p].pc = "point_setup"
      BY <1>5, PointStepIs
         DEF PointKnown, PointOther, PointLoad, PointStore, PointSetup, PointName, MemAlloc,
             MayScan
    <2> QED BY <1>o, <2>1 DEF Own, SetupSteps
  <1>6. CASE PointName(p)
    <2>1. /\ proc'[p].i = proc[p].i /\ proc'[p].pc = "point_alloc"
          /\ proc'[p].k = proc[p].k
          /\ num_alloc_prof_' = num_alloc_prof_ /\ proc[p].pc = "point_name"
      BY <1>6, PointStepIs
         DEF PointKnown, PointOther, PointLoad, PointStore, PointSetup, PointName, MemAlloc,
             MayScan
    <2>2. prof_fifo_'[proc'[p].i].name_ = PointList[proc'[p].k]
      BY <1>6, <2>1, NameWrites DEF Wrote
    <2> QED BY <1>o, <2>1, <2>2 DEF Own, SetupSteps, SamePoint
  <1> QED BY <1>1, <1>2, <1>3, <1>4, <1>5, <1>6 DEF PointStep

LEMMA MineNext ==
  ASSUME TypeInv, Places, Mine, NEW p \in Processes, Step(p)
  PROVE  Mine'
  <1> SUFFICES ASSUME NEW q \in Processes, alone'[q], Registering(q)'
               PROVE  Own(q)'
    BY DEF Mine
  <1>d. ASSUME DiesSomehow(p)
        PROVE  /\ UNCHANGED <<formats, points, alone>> /\ proc'[p].pc \in Dead
               /\ \A r \in Processes \ {p} : proc'[r] = proc[r]
    BY <1>d, DiesIs
  <1>1. CASE Start(p)
    <2>1. PICK a \in Addresses :
             proc' = [proc EXCEPT ![p].pc = "format", ![p].addr = a]
      BY <1>1 DEF Start
    <2>2. proc[p] = Down
      BY <1>1 DEF Start, Places, Placed
    <2>3. /\ \A r \in Processes \ {p} : proc'[r] = proc[r]
          /\ proc'[p].pc = "format" /\ proc'[p].i = 0
      BY <2>1, <2>2, StartMoves DEF TypeInv
    <2>4. CASE q # p
      BY <1>1, <2>3, <2>4, WhereNext DEF Start
    <2>5. CASE q = p
      <3>1. \A r \in Processes : ~Registering(r)
        BY <1>1, <2>5 DEF Start
      <3>2. \A r \in Processes : Registering(r)' => r = p
        BY <2>3, <3>1, WhereNext
      <3>3. num_alloc_formats_' \in Nat
        BY <1>1 DEF Start, formats, TypeInv
      <3> QED BY <2>3, <2>5, <3>2, <3>3 DEF Own, SetupSteps
    <2> QED BY <2>4, <2>5
  <1>2. CASE ~Start(p) /\ ~Registering(p)
    <2>1. /\ Still /\ ~Registering(p)' /\ alone' = alone
          /\ \A r \in Processes \ {p} : proc'[r] = proc[r]
      BY <1>2, QuietStep
    <2>2. q # p /\ proc'[q] = proc[q] /\ Registering(q)
      BY <2>1, WhereNext
    <2>3. Own(q)
      BY <2>1, <2>2 DEF Mine
    <2>4. \A r \in Processes : Registering(r)' => r = q
      BY <2>1, <2>3, WhereNext DEF Own
    <2>5. /\ num_alloc_formats_' = num_alloc_formats_ /\ trace_formats_' = trace_formats_
          /\ num_alloc_prof_' = num_alloc_prof_
          /\ \A f \in Points : prof_fifo_'[f].name_ = prof_fifo_[f].name_
      BY <2>1 DEF Still, formats
    <2>6. proc[q].pc = "point_alloc" => proc[q].i \in Points
      BY DEF Places, Placed
    <2> QED BY <2>2, <2>3, <2>4, <2>5, <2>6 DEF Own, SameFormat, SamePoint
  <1>3. CASE ~Start(p) /\ Registering(p)
    <2>1. alone' = alone
      <3>1. Works(p) => FALSE
        BY <1>3, Where DEF Works
      <3>2. CASE FormatStep(p) /\ ~DiesSomehow(p)
        BY <3>2, FormatStepIs DEF history
      <3>3. CASE PointStep(p)
        BY <3>3, PointStepIs DEF history
      <3>4. CASE Finish(p) \/ End(p)
        BY <3>4 DEF Finish, End
      <3> QED BY <1>3, <1>d, <3>1, <3>2, <3>3, <3>4, StepIs DEF Step
    <2>2. \A r \in Processes \ {p} : proc'[r] = proc[r]
      <3>1. Works(p) => FALSE
        BY <1>3, Where DEF Works
      <3>2. CASE FormatStep(p) /\ ~DiesSomehow(p)
        BY <3>2, FormatStepIs
      <3>3. CASE PointStep(p)
        BY <3>3, PointStepIs
      <3>4. CASE Finish(p)
        BY <3>4, GotoMoves DEF Finish, TypeInv, Becomes, Steps, Resting
      <3>5. CASE End(p)
        BY <3>5, EndMoves DEF TypeInv
      <3> QED BY <1>3, <1>d, <3>1, <3>2, <3>3, <3>4, <3>5, StepIs DEF Step
    <2>3. CASE q # p
      BY <1>3, <2>1, <2>2, <2>3, WhereNext DEF Mine, Own
    <2>4. CASE q = p
      <3>1. Own(p)
        BY <1>3, <2>1, <2>4 DEF Mine
      <3>2. CASE FormatStep(p) /\ ~DiesSomehow(p)
        BY <2>4, <3>1, <3>2, OwnFormats
      <3>3. CASE PointStep(p)
        BY <2>4, <3>1, <3>3, OwnPoints
      <3>4. CASE DiesSomehow(p) \/ Finish(p) \/ End(p)
        <4>1. CASE DiesSomehow(p)
          BY <1>d, <2>4, <4>1, WhereNext
        <4>2. CASE Finish(p)
          <5>1. proc'[p].pc = "ready"
            BY <4>2, GotoMoves DEF Finish, TypeInv, Steps, Resting
          <5> QED BY <2>4, <5>1, WhereNext
        <4>3. CASE End(p)
          <5>1. proc'[p].pc = "down"
            BY <4>3, EndMoves DEF TypeInv
          <5> QED BY <2>4, <5>1, WhereNext
        <4> QED BY <3>4, <4>1, <4>2, <4>3
      <3>5. ~Works(p)
        BY <1>3, Where DEF Works
      <3> QED BY <1>3, <3>2, <3>3, <3>4, <3>5, StepIs DEF Step
    <2> QED BY <2>3, <2>4
  <1> QED BY <1>1, <1>2, <1>3

-----------------------------------------------------------------------------
(* Once settled, the tables stay as they are, but for results.             *)
LEMMA Closed ==
  ASSUME TypeInv, Places, Settled, settled, NEW p \in Processes, Step(p)
  PROVE  /\ Still
         /\ FormatStep(p) => FormatKnown(p) \/ FormatOther(p)
         /\ PointStep(p) => PointKnown(p) \/ PointOther(p)
         /\ ~PointAsserts(p) /\ ~Overrun(p)
  <1>t. /\ num_alloc_formats_ \in Nat /\ num_alloc_prof_ \in Nat /\ proc[p].i \in Nat
        /\ MAX_TRACE_FORMATS \in Nat /\ PROF_GROUP_MAX \in Nat
    BY FieldTypes, Sizes DEF TypeInv
  <1>r. Registering(p) => proc[p].pc \in {"format", "point", "finish"}
    BY DEF Settled, Finds
  <1>f. ASSUME proc[p].pc = "format"
        PROVE  proc[p].i < num_alloc_formats_ /\ proc[p].i \in Formats
    <2>1. PICK f \in Formats : f >= proc[p].i /\ FormatAt(f, FormatList[proc[p].k])
      BY <1>f, Where DEF Settled, Finds, FormatSteps
    <2>2. f < num_alloc_formats_ /\ f \in Nat /\ f < MAX_TRACE_FORMATS
      BY <2>1, Ranges DEF FormatAt
    <2>3. proc[p].i < num_alloc_formats_ /\ proc[p].i < MAX_TRACE_FORMATS
      BY <1>t, <2>1, <2>2
    <2> QED BY <1>t, <2>3, Ranges
  <1>p. ASSUME proc[p].pc = "point"
        PROVE  proc[p].i < num_alloc_prof_ /\ proc[p].i \in Points
    <2>1. PICK f \in Points : f >= proc[p].i /\ PointAt(f, PointList[proc[p].k])
      BY <1>p, Where DEF Settled, Finds, PointSteps
    <2>2. f < num_alloc_prof_ /\ f \in Nat /\ f < PROF_GROUP_MAX
      BY <2>1, Ranges DEF PointAt
    <2>3. proc[p].i < num_alloc_prof_ /\ proc[p].i < PROF_GROUP_MAX
      BY <1>t, <2>1, <2>2
    <2> QED BY <1>t, <2>3, Ranges
  <1>1. FormatStep(p) => FormatKnown(p) \/ FormatOther(p)
    <2>1. ~FormatLoad(p) /\ ~FormatStore(p)
      BY <1>r, Where DEF FormatLoad, FormatStore, FormatSteps
    <2>2. ~FormatWrite(p)
      <3>1. SUFFICES ASSUME FormatWrite(p) PROVE FALSE
        OBVIOUS
      <3>2. proc[p].i >= num_alloc_formats_ /\ proc[p].pc = "format"
        BY <3>1 DEF FormatWrite
      <3>3. proc[p].i < num_alloc_formats_
        BY <1>f, <3>2
      <3> QED BY <1>t, <3>2, <3>3
    <2> QED BY <2>1, <2>2 DEF FormatStep
  <1>2. PointStep(p) => PointKnown(p) \/ PointOther(p)
    <2>1. ~PointStore(p) /\ ~PointSetup(p) /\ ~PointName(p) /\ ~MemAlloc(p)
      BY <1>r, Where
      DEF PointStore, PointSetup, PointName, MemAlloc, PointSteps, SetupSteps
    <2>2. ~PointLoad(p)
      <3>1. SUFFICES ASSUME PointLoad(p) PROVE FALSE
        OBVIOUS
      <3>2. proc[p].i >= num_alloc_prof_ /\ proc[p].pc = "point"
        BY <3>1 DEF PointLoad, MayScan
      <3>3. proc[p].i < num_alloc_prof_
        BY <1>p, <3>2
      <3> QED BY <1>t, <3>2, <3>3
    <2> QED BY <2>1, <2>2 DEF PointStep
  <1>3. ~PointAsserts(p)
    <2>1. SUFFICES ASSUME PointAsserts(p) PROVE FALSE
      OBVIOUS
    <2>2. num_alloc_prof_ > PROF_GROUP_MAX
      BY <2>1 DEF PointAsserts
    <2>3. num_alloc_prof_ <= PROF_GROUP_MAX
      BY DEF Settled, Complete
    <2> QED BY <1>t, <2>2, <2>3
  <1>4. ~Overrun(p)
    <2>1. ~(proc[p].pc = "point_setup")
      BY <1>r, Where DEF PointSteps, SetupSteps
    <2> QED BY <1>f, <1>p, <2>1 DEF Overrun, MayScan
  <1>5. Still
    <2>1. CASE Start(p) \/ Finish(p) \/ End(p)
      BY <2>1 DEF Start, Finish, End, Still, points
    <2>2. CASE DiesSomehow(p)
      BY <2>2 DEF DiesSomehow, Still, points
    <2>3. CASE Works(p)
      BY <2>3, WorksIs
    <2>4. CASE FormatKnown(p) \/ FormatOther(p)
      BY <2>4 DEF FormatKnown, FormatOther, Still, points
    <2>5. CASE PointKnown(p) \/ PointOther(p)
      BY <2>5 DEF PointKnown, PointOther, Still, points
    <2> QED BY <1>1, <1>2, <2>1, <2>2, <2>3, <2>4, <2>5, StepIs DEF Step
  <1> QED BY <1>1, <1>2, <1>3, <1>4, <1>5

(* A step of p moves no other process.                                     *)
LEMMA OthersStay ==
  ASSUME TypeInv, Places, NEW p \in Processes, Step(p)
  PROVE  /\ \A q \in Processes \ {p} : proc'[q] = proc[q]
         /\ \A q \in Processes \ {p} : sound'[q] = sound[q]
         /\ \A q \in Processes \ {p} : alone'[q] => alone[q]
         /\ \A q \in Processes \ {p} : creator'[q] => creator[q]
         /\ (cut => cut') /\ (raced => raced') /\ (settled => settled')
  <1>1. CASE Start(p)
    <2>1. PICK a \in Addresses :
             proc' = [proc EXCEPT ![p].pc = "format", ![p].addr = a]
      BY <1>1 DEF Start
    <2>2. proc[p] = Down
      BY <1>1 DEF Start, Places, Placed
    <2>3. \A r \in Processes \ {p} : proc'[r] = proc[r]
      BY <2>1, <2>2, StartMoves DEF TypeInv
    <2>4. DOMAIN sound = Processes
      BY DEF TypeInv
    <2> QED BY <1>1, <2>3, <2>4 DEF Start
  <1>2. CASE FormatStep(p) /\ ~DiesSomehow(p)
    BY <1>2, FormatStepIs DEF history
  <1>3. CASE PointStep(p)
    BY <1>3, PointStepIs DEF history
  <1>4. CASE Finish(p)
    <2>1. \A r \in Processes \ {p} : proc'[r] = proc[r]
      BY <1>4, GotoMoves DEF Finish, TypeInv, Becomes, Steps, Resting
    <2>2. DOMAIN sound = Processes
      BY DEF TypeInv
    <2> QED BY <1>4, <2>1, <2>2 DEF Finish
  <1>5. CASE End(p)
    <2>1. \A r \in Processes \ {p} : proc'[r] = proc[r]
      BY <1>5, EndMoves DEF TypeInv
    <2> QED BY <1>5, <2>1 DEF End
  <1>6. CASE DiesSomehow(p)
    <2>1. /\ UNCHANGED <<alone, creator, settled, sound, raced>>
          /\ cut' = (cut \/ Registering(p))
          /\ \A q \in Processes \ {p} : proc'[q] = proc[q]
      BY <1>6, DiesIs
    <2> QED BY <2>1
  <1>7. CASE Works(p)
    BY <1>7 DEF Works, history
  <1> QED BY <1>1, <1>2, <1>3, <1>4, <1>5, <1>6, <1>7, StepIs DEF Step

(* FormatAt and PointAt after the step, for what they were asked before it. *)
FormatAtNext(f, x) == f \in Formats /\ f < num_alloc_formats_' /\ trace_formats_'[f] = x
PointAtNext(f, x) == f \in Points /\ f < num_alloc_prof_' /\ prof_fifo_'[f].name_ = x

LEMMA StillKeepsNames ==
  ASSUME Still
  PROVE  /\ \A f, x : FormatAtNext(f, x) <=> FormatAt(f, x)
         /\ \A f, x : PointAtNext(f, x) <=> PointAt(f, x)
  BY DEF Still, FormatAt, PointAt, FormatAtNext, PointAtNext, formats

LEMMA HandlesNext ==
  ASSUME NEW q \in Processes,
         \A n \in DOMAIN FormatList :
           GotFormatOf(q, n)' => FormatAtNext(proc'[q].trace_id[n], FormatList[n]),
         \A n \in DOMAIN PointList :
           GotPointOf(q, n)' =>
             /\ PointAtNext(proc'[q].profile_id[n], PointList[n])
             /\ proc'[q].pc \in SetupSteps => proc'[q].profile_id[n] # proc'[q].i
  PROVE  Handles(q)'
  BY DEF Handles, FormatAt, PointAt, FormatAtNext, PointAtNext

LEMMA HandlesKept ==
  ASSUME Still, NEW q \in Processes, proc'[q] = proc[q], Handles(q)
  PROVE  Handles(q)'
  <1>1. ASSUME NEW n \in DOMAIN FormatList, GotFormatOf(q, n)'
        PROVE  FormatAtNext(proc'[q].trace_id[n], FormatList[n])
    <2>1. GotFormatOf(q, n)
      BY <1>1 DEF GotFormatOf
    <2> QED BY <2>1, StillKeepsNames DEF Handles
  <1>2. ASSUME NEW n \in DOMAIN PointList, GotPointOf(q, n)'
        PROVE  /\ PointAtNext(proc'[q].profile_id[n], PointList[n])
               /\ proc'[q].pc \in SetupSteps => proc'[q].profile_id[n] # proc'[q].i
    <2>1. GotPointOf(q, n)
      BY <1>2 DEF GotPointOf
    <2> QED BY <2>1, StillKeepsNames DEF Handles
  <1> QED BY <1>1, <1>2, HandlesNext

(* A process in none of the places where handles are kept.                 *)
LEMMA HandlesNone ==
  ASSUME NEW q \in Processes, proc'[q].pc \in {"down"} \cup Dead
  PROVE  Handles(q)'
  BY DEF Handles, GotFormatOf, GotPointOf, Dead, FormatSteps, PointSteps,
     SetupSteps

LEMMA HandlesFormats ==
  ASSUME TypeInv, Places, NEW p \in Processes, FormatStep(p), ~DiesSomehow(p), Handles(p),
         FormatKnown(p) \/ FormatOther(p) \/ Own(p)
  PROVE  Handles(p)'
  <1>t. num_alloc_formats_ \in Nat /\ proc[p].i \in Nat
    BY FieldTypes DEF TypeInv
  <1>f. trace_formats_ \in [Formats -> ValuesOf(FormatList) \cup {Default, ""}]
    BY DEF TypeInv
  <1>n. \A f \in Formats : f \in Nat
    BY Ranges
  <1>k. proc[p].pc \in FormatSteps /\ proc[p].k \in DOMAIN FormatList
    BY FormatStepIs
  <1>h. \A n \in DOMAIN FormatList : n < proc[p].k =>
          FormatAt(proc[p].trace_id[n], FormatList[n])
    BY <1>k DEF Handles, GotFormatOf
  <1>p. proc'[p].pc \in FormatSteps \cup {"point"} /\ (proc'[p].pc = "point" => proc'[p].k = 1)
    BY FormatStepIs DEF FormatStep, FormatSteps
  <1>q. \A n \in DOMAIN PointList : ~GotPointOf(p, n)'
    <2>1. \A n \in DOMAIN PointList : ~(n < 1)
      BY Lengths
    <2> QED BY <1>p, <2>1 DEF GotPointOf, FormatSteps, PointSteps, SetupSteps
  <1>1. ASSUME NEW f, NEW x, FormatAt(f, x)
        PROVE  FormatAtNext(f, x)
    <2>1. CASE FormatKnown(p) \/ FormatOther(p) \/ FormatLoad(p)
      BY <1>1, <2>1
         DEF FormatKnown, FormatOther, FormatLoad, FormatAt, FormatAtNext, formats
    <2>2. CASE FormatWrite(p) /\ Own(p)
      <3>1. proc[p].i >= num_alloc_formats_ /\ num_alloc_formats_' = num_alloc_formats_
        BY <2>2 DEF FormatWrite
      <3>2. f # proc[p].i
        <4>1. f \in Nat /\ f < num_alloc_formats_
          BY <1>1, <1>n DEF FormatAt
        <4> QED BY <1>t, <3>1, <4>1
      <3>3. trace_formats_' = [trace_formats_ EXCEPT ![proc[p].i] = FormatList[proc[p].k]]
        BY <2>2, FormatStepIs
      <3> QED BY <1>1, <1>f, <3>1, <3>2, <3>3 DEF FormatAt, FormatAtNext
    <2>3. CASE FormatStore(p) /\ Own(p)
      <3>1. /\ num_alloc_formats_' = num_alloc_formats_ + 1
            /\ trace_formats_' = trace_formats_
        BY <2>3 DEF FormatStore, Own
      <3>2. f \in Nat /\ f < num_alloc_formats_
        BY <1>1, <1>n DEF FormatAt
      <3>3. f < num_alloc_formats_'
        BY <1>t, <3>1, <3>2
      <3> QED BY <1>1, <3>1, <3>3 DEF FormatAt, FormatAtNext
    <2>4. FormatWrite(p) \/ FormatStore(p) => ~FormatKnown(p) /\ ~FormatOther(p)
      BY <1>t DEF FormatKnown, FormatOther, FormatWrite, FormatStore
    <2> QED BY <2>1, <2>2, <2>3, <2>4 DEF FormatStep
  <1>2. CASE FormatKnown(p) \/ FormatStore(p)
    <2>1. FormatAtNext(proc[p].i, FormatList[proc[p].k])
      <3>1. proc[p].i \in Formats
        BY <1>2, FormatStepIs
      <3>2. CASE FormatKnown(p)
        BY <3>1, <3>2 DEF FormatKnown, SameFormat, FormatAtNext, formats
      <3>3. CASE FormatStore(p)
        <4>1. Own(p)
          BY <1>t, <3>3 DEF FormatKnown, FormatOther, FormatStore
        <4>2. /\ proc[p].i = num_alloc_formats_ /\ SameFormat(proc[p].i, p)
              /\ num_alloc_formats_' = num_alloc_formats_ + 1
              /\ trace_formats_' = trace_formats_
          BY <3>3, <4>1 DEF FormatStore, Own
        <4>3. proc[p].i < num_alloc_formats_'
          BY <1>t, <4>2
        <4> QED BY <3>1, <4>2, <4>3 DEF SameFormat, FormatAtNext
      <3> QED BY <1>2, <3>2, <3>3
    <2>2. /\ IF proc[p].k = Len(FormatList)
             THEN proc'[p].pc = "point" /\ proc'[p].k = 1
             ELSE proc'[p].pc = "format" /\ proc'[p].k = proc[p].k + 1
          /\ \A n \in DOMAIN FormatList : proc'[p].trace_id[n] =
               IF n = proc[p].k THEN proc[p].i ELSE proc[p].trace_id[n]
      BY <1>2, FormatStepIs
    <2>3. ASSUME NEW n \in DOMAIN FormatList, GotFormatOf(p, n)'
          PROVE  FormatAtNext(proc'[p].trace_id[n], FormatList[n])
      <3>1. n <= proc[p].k
        <4>1. n \in Nat /\ n <= Len(FormatList) /\ proc[p].k \in Nat /\ Len(FormatList) \in Nat
          BY <1>k, Lengths
        <4>2. CASE proc[p].k = Len(FormatList)
          BY <4>1, <4>2
        <4>3. CASE proc[p].k # Len(FormatList)
          <5>1. proc'[p].pc = "format" /\ proc'[p].k = proc[p].k + 1
            BY <2>2, <4>3
          <5>2. n < proc'[p].k
            BY <2>3, <5>1 DEF GotFormatOf, FormatSteps, PointSteps, SetupSteps
          <5> QED BY <4>1, <5>1, <5>2
        <4> QED BY <4>2, <4>3
      <3>2. CASE n = proc[p].k
        BY <2>1, <2>2, <3>2
      <3>3. CASE n # proc[p].k
        <4>1. n < proc[p].k
          BY <1>k, <3>1, <3>3, Lengths
        <4> QED BY <1>1, <1>h, <2>2, <3>3, <4>1
      <3> QED BY <3>2, <3>3
    <2> QED BY <1>q, <2>3, HandlesNext
  <1>3. CASE FormatOther(p) \/ FormatWrite(p) \/ FormatLoad(p)
    <2>1. /\ proc'[p].k = proc[p].k /\ proc'[p].trace_id = proc[p].trace_id
          /\ proc'[p].pc \in FormatSteps
      BY <1>3, FormatStepIs DEF FormatSteps
    <2>2. ASSUME NEW n \in DOMAIN FormatList, GotFormatOf(p, n)'
          PROVE  FormatAtNext(proc'[p].trace_id[n], FormatList[n])
      <3>1. n < proc[p].k
        BY <2>1, <2>2 DEF GotFormatOf, FormatSteps, PointSteps, SetupSteps
      <3> QED BY <1>1, <1>h, <2>1, <3>1
    <2> QED BY <1>q, <2>2, HandlesNext
  <1> QED BY <1>2, <1>3 DEF FormatStep

LEMMA HandlesPoints ==
  ASSUME TypeInv, Places, NEW p \in Processes, PointStep(p), Handles(p),
         PointKnown(p) \/ PointOther(p) \/ Own(p)
  PROVE  Handles(p)'
  <1>t. num_alloc_prof_ \in Nat /\ proc[p].i \in Nat
    BY FieldTypes DEF TypeInv
  <1>n. \A f \in Points : f \in Nat
    BY Ranges
  <1>k. proc[p].pc \in PointSteps /\ proc[p].k \in DOMAIN PointList
    BY PointStepIs
  <1>h. \A n \in DOMAIN PointList : n < proc[p].k =>
          /\ PointAt(proc[p].profile_id[n], PointList[n])
          /\ proc[p].pc \in SetupSteps => proc[p].profile_id[n] # proc[p].i
    BY <1>k DEF Handles, GotPointOf
  <1>q. \A n \in DOMAIN FormatList : FormatAtNext(proc'[p].trace_id[n], FormatList[n])
    <2>1. \A n \in DOMAIN FormatList : FormatAt(proc[p].trace_id[n], FormatList[n])
      BY <1>k DEF Handles, GotFormatOf
    <2>2. proc'[p].trace_id = proc[p].trace_id /\ UNCHANGED formats
      BY PointStepIs
    <2> QED BY <2>1, <2>2 DEF FormatAt, FormatAtNext, formats
  <1>l. ASSUME PointLoad(p) \/ PointStore(p) \/ PointSetup(p) \/ PointName(p) \/ MemAlloc(p)
        PROVE  Own(p)
    <2>1. CASE PointLoad(p)
      BY <1>t, <2>1 DEF PointLoad, PointKnown, PointOther
    <2>2. CASE PointStore(p) \/ PointSetup(p) \/ PointName(p) \/ MemAlloc(p)
      BY <2>2
      DEF PointStore, PointSetup, PointName, MemAlloc, PointKnown, PointOther,
          MayScan
    <2> QED BY <1>l, <2>1, <2>2
  <1>1. ASSUME NEW f, NEW x, PointAt(f, x),
               proc[p].pc \in SetupSteps => f # proc[p].i
        PROVE  PointAtNext(f, x) /\ (PointStore(p) => f # proc[p].i)
    <2>1. CASE PointKnown(p) \/ PointOther(p) \/ PointLoad(p)
      BY <1>1, <2>1
         DEF PointKnown, PointOther, PointLoad, PointStore, MayScan, PointAt, PointAtNext, points
    <2>2. CASE PointStore(p)
      <3>1. /\ num_alloc_prof_' = num_alloc_prof_ + 1 /\ proc[p].i = num_alloc_prof_
            /\ prof_fifo_' = prof_fifo_
        BY <1>l, <2>2 DEF PointStore, Own
      <3>2. f \in Nat /\ f < num_alloc_prof_
        BY <1>1, <1>n DEF PointAt
      <3>3. f < num_alloc_prof_' /\ f # proc[p].i
        BY <1>t, <3>1, <3>2
      <3> QED BY <1>1, <3>1, <3>3 DEF PointAt, PointAtNext
    <2>3. CASE PointSetup(p) \/ PointName(p) \/ MemAlloc(p)
      <3>1. f # proc[p].i /\ num_alloc_prof_' = num_alloc_prof_ /\ ~PointStore(p)
        BY <1>1, <2>3
        DEF PointStore, PointSetup, PointName, MemAlloc, SetupSteps
      <3>2. \A g \in Points \ {proc[p].i} : prof_fifo_'[g] = prof_fifo_[g]
        BY <2>3, SetupWrites, NameWrites, AllocWrites DEF Wrote
      <3> QED BY <1>1, <3>1, <3>2 DEF PointAt, PointAtNext
    <2> QED BY <2>1, <2>2, <2>3 DEF PointStep
  <1>2. CASE PointKnown(p) \/ MemAlloc(p)
    <2>1. PointAtNext(proc[p].i, PointList[proc[p].k])
      <3>1. proc[p].i \in Points
        BY <1>2, PointStepIs
      <3>2. CASE PointKnown(p)
        BY <3>1, <3>2 DEF PointKnown, SamePoint, PointAtNext, points
      <3>3. CASE MemAlloc(p)
        <4>1. /\ proc[p].i + 1 = num_alloc_prof_ /\ SamePoint(proc[p].i, p)
              /\ num_alloc_prof_' = num_alloc_prof_
          BY <1>l, <3>3 DEF MemAlloc, Own, SetupSteps
        <4>2. proc[p].i < num_alloc_prof_'
          BY <1>t, <4>1
        <4>3. prof_fifo_'[proc[p].i].name_ = prof_fifo_[proc[p].i].name_
          BY <3>3, AllocWrites DEF Wrote
        <4> QED BY <3>1, <4>1, <4>2, <4>3 DEF SamePoint, PointAtNext
      <3> QED BY <1>2, <3>2, <3>3
    <2>2. /\ IF proc[p].k = Len(PointList)
             THEN proc'[p].pc = "finish"
             ELSE proc'[p].pc = "point" /\ proc'[p].k = proc[p].k + 1
          /\ \A n \in DOMAIN PointList : proc'[p].profile_id[n] =
               IF n = proc[p].k THEN proc[p].i ELSE proc[p].profile_id[n]
      BY <1>2, PointStepIs
    <2>3. ASSUME NEW n \in DOMAIN PointList, GotPointOf(p, n)'
          PROVE  PointAtNext(proc'[p].profile_id[n], PointList[n])
      <3>1. n <= proc[p].k
        <4>1. n \in Nat /\ n <= Len(PointList) /\ proc[p].k \in Nat /\ Len(PointList) \in Nat
          BY <1>k, Lengths
        <4>2. CASE proc[p].k = Len(PointList)
          BY <4>1, <4>2
        <4>3. CASE proc[p].k # Len(PointList)
          <5>1. proc'[p].pc = "point" /\ proc'[p].k = proc[p].k + 1
            BY <2>2, <4>3
          <5>2. n < proc'[p].k
            BY <2>3, <5>1 DEF GotPointOf, PointSteps, SetupSteps
          <5> QED BY <4>1, <5>1, <5>2
        <4> QED BY <4>2, <4>3
      <3>2. CASE n = proc[p].k
        BY <2>1, <2>2, <3>2
      <3>3. CASE n # proc[p].k
        <4>1. n < proc[p].k
          BY <1>k, <3>1, <3>3, Lengths
        <4> QED BY <1>1, <1>h, <2>2, <3>3, <4>1
      <3> QED BY <3>2, <3>3
    <2>4. proc'[p].pc \notin SetupSteps
      BY <2>2 DEF SetupSteps
    <2> QED BY <1>q, <2>3, <2>4, HandlesNext
  <1>3. CASE PointOther(p) \/ PointLoad(p) \/ PointStore(p) \/ PointSetup(p) \/ PointName(p)
    <2>1. /\ proc'[p].k = proc[p].k /\ proc'[p].profile_id = proc[p].profile_id
          /\ proc'[p].pc \in PointSteps
          /\ proc'[p].pc \in SetupSteps =>
               /\ proc'[p].i = proc[p].i
               /\ proc[p].pc \in SetupSteps \/ PointStore(p)
      BY <1>3, PointStepIs DEF PointSteps, SetupSteps, PointSetup, PointName
    <2>2. ASSUME NEW n \in DOMAIN PointList, GotPointOf(p, n)'
          PROVE  /\ PointAtNext(proc'[p].profile_id[n], PointList[n])
                 /\ proc'[p].pc \in SetupSteps => proc'[p].profile_id[n] # proc'[p].i
      <3>1. n < proc[p].k
        BY <2>1, <2>2 DEF GotPointOf, PointSteps, SetupSteps
      <3> QED BY <1>1, <1>h, <2>1, <3>1
    <2> QED BY <1>q, <2>2, HandlesNext
  <1> QED BY <1>2, <1>3 DEF PointStep

LEMMA HandlesRightNext ==
  ASSUME TypeInv, Places, Mine, Settled, HandlesRight, NEW p \in Processes, Step(p)
  PROVE  HandlesRight'
  <1> SUFFICES ASSUME NEW q \in Processes, Sure(q)' PROVE Handles(q)'
    BY DEF HandlesRight
  <1>1. CASE q # p
    <2>1. proc'[q] = proc[q] /\ sound'[q] = sound[q] /\ (alone'[q] => alone[q])
      BY <1>1, OthersStay
    <2>2. Sure(q) /\ (sound[q] \/ (alone'[q] /\ alone[q] /\ Registering(q)))
      BY <2>1, WhereNext DEF Sure
    <2>3. Still
      <3>1. CASE settled
        BY <3>1, Closed
      <3>2. CASE ~settled
        <4>1. alone'[q] /\ alone[q] /\ Registering(q)
          BY <2>2, <3>2 DEF Settled
        <4>2. ~Registering(p)
          BY <1>1, <4>1 DEF Mine, Own
        <4>3. ~Start(p)
          BY <1>1, <4>1 DEF Start
        <4> QED BY <4>2, <4>3, QuietStep
      <3> QED BY <3>1, <3>2
    <2> QED BY <2>1, <2>2, <2>3, HandlesKept DEF HandlesRight
  <1>2. CASE q = p
    <2>1. CASE Start(p)
      <3>1. PICK a \in Addresses :
               proc' = [proc EXCEPT ![p].pc = "format", ![p].addr = a]
        BY <2>1 DEF Start
      <3>2. proc[p] = Down
        BY <2>1 DEF Start, Places, Placed
      <3>3. proc'[p].pc = "format" /\ proc'[p].k = 1
        BY <3>1, <3>2, StartMoves DEF TypeInv
      <3>4. \A n \in DOMAIN FormatList : ~(n < 1)
        BY Lengths
      <3> QED BY <1>2, <3>3, <3>4
              DEF Handles, GotFormatOf, GotPointOf, FormatSteps, PointSteps, SetupSteps
    <2>2. CASE FormatStep(p) /\ ~DiesSomehow(p)
      <3>1. Registering(p) /\ UNCHANGED <<sound, alone>>
        BY <2>2, FormatStepIs, Where DEF history
      <3>2. Sure(p) /\ (sound[p] \/ alone[p])
        BY <1>2, <3>1 DEF Sure
      <3>3. FormatKnown(p) \/ FormatOther(p) \/ Own(p)
        <4>1. CASE sound[p]
          BY <2>2, <4>1, Closed DEF Settled
        <4>2. CASE alone[p]
          BY <3>1, <4>2 DEF Mine
        <4> QED BY <3>2, <4>1, <4>2
      <3> QED BY <1>2, <2>2, <3>2, <3>3, HandlesFormats DEF HandlesRight
    <2>3. CASE PointStep(p)
      <3>1. Registering(p) /\ UNCHANGED <<sound, alone>>
        BY <2>3, PointStepIs, Where DEF history
      <3>2. Sure(p) /\ (sound[p] \/ alone[p])
        BY <1>2, <3>1 DEF Sure
      <3>3. PointKnown(p) \/ PointOther(p) \/ Own(p)
        <4>1. CASE sound[p]
          BY <2>3, <4>1, Closed DEF Settled
        <4>2. CASE alone[p]
          BY <3>1, <4>2 DEF Mine
        <4> QED BY <3>2, <4>1, <4>2
      <3> QED BY <1>2, <2>3, <3>2, <3>3, HandlesPoints DEF HandlesRight
    <2>4. CASE Finish(p)
      <3>1. /\ proc'[p].pc = "ready" /\ proc'[p].trace_id = proc[p].trace_id
            /\ proc'[p].profile_id = proc[p].profile_id
        BY <2>4, GotoMoves DEF Finish, TypeInv, Steps, Resting
      <3>2. proc[p].pc = "finish" /\ Still
        BY <2>4 DEF Finish, Still, points
      <3>3. Sure(p)
        <4>1. sound'[p] => sound[p] \/ alone[p]
          BY <2>4 DEF Finish, TypeInv
        <4>2. ~Registering(p)' /\ Registering(p)
          BY <3>1, <3>2, Where, WhereNext
        <4> QED BY <1>2, <4>1, <4>2 DEF Sure
      <3>4. Handles(p)
        BY <3>3 DEF HandlesRight
      <3>5. /\ \A n \in DOMAIN FormatList : FormatAt(proc[p].trace_id[n], FormatList[n])
            /\ \A n \in DOMAIN PointList : PointAt(proc[p].profile_id[n], PointList[n])
        BY <3>2, <3>4 DEF Handles, GotFormatOf, GotPointOf
      <3>6. proc'[p].pc \notin SetupSteps
        BY <3>1 DEF SetupSteps
      <3> QED BY <1>2, <3>1, <3>2, <3>5, <3>6, StillKeepsNames, HandlesNext
    <2>5. CASE End(p) \/ DiesSomehow(p)
      <3>1. proc'[p].pc \in {"down"} \cup Dead
        BY <2>5, EndMoves, DiesIs DEF TypeInv
      <3> QED BY <1>2, <3>1, HandlesNone
    <2>6. CASE Works(p)
      <3>1. proc' = proc /\ UNCHANGED <<sound, alone>> /\ Still
        BY <2>6, WorksIs DEF Works, history
      <3>2. Sure(p)
        BY <1>2, <3>1, WhereNext DEF Sure
      <3> QED BY <1>2, <3>1, <3>2, HandlesKept DEF HandlesRight
    <2> QED BY <2>1, <2>2, <2>3, <2>4, <2>5, <2>6, StepIs DEF Step
  <1> QED BY <1>1, <1>2

LEMMA CompleteKept ==
  ASSUME Still, Complete
  PROVE  Complete'
  BY DEF Complete, Still, FormatAt, PointAt, formats

LEMMA FindsKept ==
  ASSUME Still, NEW q \in Processes, proc'[q] = proc[q], sound'[q] = sound[q], Finds(q)
  PROVE  Finds(q)'
  BY DEF Finds, Still, FormatAt, PointAt, formats

LEMMA FindsNext ==
  ASSUME NEW q \in Processes, sound'[q],
         proc'[q].pc \in {"format", "point", "finish"},
         proc'[q].pc = "format" =>
           \E f \in Formats : f >= proc'[q].i /\ FormatAtNext(f, FormatList[proc'[q].k]),
         proc'[q].pc = "point" =>
           \E f \in Points : f >= proc'[q].i /\ PointAtNext(f, PointList[proc'[q].k])
  PROVE  Finds(q)'
  BY DEF Finds, FormatAt, PointAt, FormatAtNext, PointAtNext

LEMMA FindsRegistered ==
  ASSUME TypeInv, Places, Settled, settled, NEW p \in Processes, Step(p), Registering(p)'
  PROVE  Finds(p)'
  <1>1. Still /\ Complete
    BY Closed DEF Settled
  <1>2. /\ \A f \in Formats : f \in Nat
        /\ \A f \in Points : f \in Nat
    BY Ranges
  <1>3. /\ \A n \in DOMAIN FormatList :
             \E f \in Formats : f >= 0 /\ FormatAtNext(f, FormatList[n])
        /\ \A n \in DOMAIN PointList :
             \E f \in Points : f >= 0 /\ PointAtNext(f, PointList[n])
    BY <1>1, <1>2, StillKeepsNames DEF Complete
  <1>t. proc[p].i \in Nat
    BY FieldTypes DEF TypeInv
  <1>4. CASE Start(p)
    <2>1. PICK a \in Addresses :
             proc' = [proc EXCEPT ![p].pc = "format", ![p].addr = a]
      BY <1>4 DEF Start
    <2>2. proc[p] = Down
      BY <1>4 DEF Start, Places, Placed
    <2>3. proc'[p].pc = "format" /\ proc'[p].k = 1 /\ proc'[p].i = 0
      BY <2>1, <2>2, StartMoves DEF TypeInv
    <2>4. sound'[p] /\ 1 \in DOMAIN FormatList
      BY <1>4, Lengths DEF Start, TypeInv
    <2> QED BY <1>3, <2>3, <2>4, FindsNext
  <1>5. CASE FormatStep(p) /\ ~DiesSomehow(p)
    <2>1. /\ FormatKnown(p) \/ FormatOther(p)
          /\ proc[p].k \in DOMAIN FormatList /\ proc[p].pc = "format"
          /\ sound' = sound
      BY <1>5, Closed, FormatStepIs DEF FormatKnown, FormatOther, history
    <2>2. Finds(p) /\ sound'[p]
      BY <2>1, Where DEF Settled, Finds, FormatSteps
    <2>3. CASE FormatKnown(p)
      <3>1. /\ proc'[p].i = 0
            /\ IF proc[p].k = Len(FormatList)
               THEN proc'[p].pc = "point" /\ proc'[p].k = 1
               ELSE proc'[p].pc = "format" /\ proc'[p].k = proc[p].k + 1
        BY <1>5, <2>3, FormatStepIs
      <3>2. CASE proc[p].k = Len(FormatList)
        <4>1. 1 \in DOMAIN PointList
          BY Lengths
        <4> QED BY <1>3, <2>2, <3>1, <3>2, <4>1, FindsNext
      <3>3. CASE proc[p].k # Len(FormatList)
        <4>1. proc'[p].k \in DOMAIN FormatList
          BY <2>1, <3>1, <3>3, Lengths
        <4> QED BY <1>3, <2>2, <3>1, <3>3, <4>1, FindsNext
      <3> QED BY <3>2, <3>3
    <2>4. CASE FormatOther(p)
      <3>1. /\ proc'[p].i = proc[p].i + 1 /\ proc'[p].pc = "format"
            /\ proc'[p].k = proc[p].k
        BY <1>5, <2>4, FormatStepIs
      <3>2. PICK f \in Formats : f >= proc[p].i /\ FormatAt(f, FormatList[proc[p].k])
        BY <2>1, <2>2 DEF Finds
      <3>3. f # proc[p].i
        BY <2>4, <3>2 DEF FormatOther, SameFormat, FormatAt
      <3>4. f >= proc'[p].i
        BY <1>2, <1>t, <3>1, <3>2, <3>3
      <3>5. FormatAtNext(f, FormatList[proc'[p].k])
        BY <1>1, <3>1, <3>2, StillKeepsNames
      <3> QED BY <2>2, <3>1, <3>4, <3>5, FindsNext
    <2> QED BY <2>1, <2>3, <2>4
  <1>6. CASE PointStep(p)
    <2>1. /\ PointKnown(p) \/ PointOther(p)
          /\ proc[p].k \in DOMAIN PointList /\ proc[p].pc = "point"
          /\ sound' = sound
      BY <1>6, Closed, PointStepIs DEF PointKnown, PointOther, MayScan, history
    <2>2. Finds(p) /\ sound'[p]
      BY <2>1, Where DEF Settled, Finds, PointSteps
    <2>3. CASE PointKnown(p)
      <3>1. /\ proc'[p].i = 0
            /\ IF proc[p].k = Len(PointList)
               THEN proc'[p].pc = "finish"
               ELSE proc'[p].pc = "point" /\ proc'[p].k = proc[p].k + 1
        BY <1>6, <2>3, PointStepIs
      <3>2. CASE proc[p].k = Len(PointList)
        BY <2>2, <3>1, <3>2, FindsNext
      <3>3. CASE proc[p].k # Len(PointList)
        <4>1. proc'[p].k \in DOMAIN PointList
          BY <2>1, <3>1, <3>3, Lengths
        <4> QED BY <1>3, <2>2, <3>1, <3>3, <4>1, FindsNext
      <3> QED BY <3>2, <3>3
    <2>4. CASE PointOther(p)
      <3>1. /\ proc'[p].i = proc[p].i + 1 /\ proc'[p].pc = "point"
            /\ proc'[p].k = proc[p].k
        BY <1>6, <2>4, PointStepIs
      <3>2. PICK f \in Points : f >= proc[p].i /\ PointAt(f, PointList[proc[p].k])
        BY <2>1, <2>2 DEF Finds
      <3>3. f # proc[p].i
        BY <2>4, <3>2 DEF PointOther, SamePoint, PointAt
      <3>4. f >= proc'[p].i
        BY <1>2, <1>t, <3>1, <3>2, <3>3
      <3>5. PointAtNext(f, PointList[proc'[p].k])
        BY <1>1, <3>1, <3>2, StillKeepsNames
      <3> QED BY <2>2, <3>1, <3>4, <3>5, FindsNext
    <2> QED BY <2>1, <2>3, <2>4
  <1>7. ~Finish(p) /\ ~End(p) /\ ~DiesSomehow(p)
    <2>1. Finish(p) => proc'[p].pc = "ready"
      BY GotoMoves DEF Finish, TypeInv, Steps, Resting
    <2>2. End(p) => proc'[p].pc = "down"
      BY EndMoves DEF TypeInv
    <2>3. DiesSomehow(p) => proc'[p].pc \in Dead
      BY DiesIs
    <2> QED BY <2>1, <2>2, <2>3, WhereNext
  <1>8. ~Works(p)
    <2>1. Works(p) => proc'[p] = proc[p] /\ proc[p].pc = "ready"
      BY DEF Works
    <2> QED BY <2>1, WhereNext, Where
  <1> QED BY <1>4, <1>5, <1>6, <1>7, <1>8, StepIs DEF Step

LEMMA SettledNext ==
  ASSUME TypeInv, Places, Mine, Settled, HandlesRight, NEW p \in Processes, Step(p)
  PROVE  Settled'
  <1>s. /\ settled => settled'
        /\ Finish(p) \/ settled' = settled
        /\ Start(p) \/ Finish(p) \/ sound' = sound
    <2>1. CASE Start(p) \/ End(p)
      <3>1. settled' = settled /\ (End(p) => sound' = sound)
        BY <2>1 DEF Start, End
      <3> QED BY <2>1, <3>1
    <2>6. CASE Finish(p)
      <3>1. settled => settled'
        BY <2>6 DEF Finish
      <3> QED BY <2>6, <3>1
    <2>2. CASE FormatStep(p) /\ ~DiesSomehow(p)
      BY <2>2, FormatStepIs DEF history
    <2>3. CASE PointStep(p)
      BY <2>3, PointStepIs DEF history
    <2>4. CASE DiesSomehow(p)
      BY <2>4, DiesIs
    <2>5. CASE Works(p)
      BY <2>5 DEF Works, history
    <2> QED BY <2>1, <2>2, <2>3, <2>4, <2>5, <2>6, StepIs DEF Step
  <1>1. ASSUME NEW q \in Processes, sound'[q] PROVE settled'
    <2>1. CASE Start(p)
      BY <1>1, <1>s, <2>1, OthersStay DEF Start, Settled, TypeInv
    <2>2. CASE Finish(p)
      BY <1>1, <1>s, <2>2, OthersStay DEF Finish, Settled, TypeInv
    <2>3. CASE sound' = sound
      BY <1>1, <1>s, <2>3 DEF Settled
    <2> QED BY <1>s, <2>1, <2>2, <2>3
  <1>2. CASE settled
    <2>1. Still /\ Complete
      BY <1>2, Closed DEF Settled
    <2>2. Complete'
      BY <2>1, CompleteKept
    <2>3. ASSUME NEW q \in Processes, Registering(q)' PROVE Finds(q)'
      <3>1. CASE q = p
        BY <1>2, <2>3, <3>1, FindsRegistered
      <3>2. CASE q # p
        <4>1. proc'[q] = proc[q] /\ sound'[q] = sound[q]
          BY <3>2, OthersStay
        <4>2. Finds(q)
          BY <1>2, <2>3, <4>1, WhereNext DEF Settled
        <4> QED BY <2>1, <4>1, <4>2, FindsKept
      <3> QED BY <3>1, <3>2
    <2> QED BY <1>1, <1>2, <1>s, <2>2, <2>3 DEF Settled
  <1>3. CASE ~settled /\ settled'
    <2>1. Finish(p) /\ alone[p] /\ proc[p].pc = "finish" /\ Still
      BY <1>3, <1>s DEF Finish, Still, points
    <2>2. Own(p) /\ Sure(p)
      BY <2>1, Where DEF Mine, Sure
    <2>3. /\ \A n \in DOMAIN FormatList : FormatAt(proc[p].trace_id[n], FormatList[n])
          /\ \A n \in DOMAIN PointList : PointAt(proc[p].profile_id[n], PointList[n])
      BY <2>1, <2>2 DEF HandlesRight, Handles, GotFormatOf, GotPointOf
    <2>4. Complete
      BY <2>1, <2>2, <2>3 DEF Complete, Own, FormatAt, PointAt
    <2>5. \A q \in Processes : ~Registering(q)'
      <3>1. proc'[p].pc = "ready"
        BY <2>1, GotoMoves DEF Finish, TypeInv, Steps, Resting
      <3>2. \A q \in Processes \ {p} : proc'[q] = proc[q] /\ ~Registering(q)
        BY <2>2, OthersStay DEF Own
      <3> QED BY <3>1, <3>2, WhereNext
    <2> QED BY <1>1, <1>3, <2>1, <2>4, <2>5, CompleteKept DEF Settled
  <1>4. CASE ~settled'
    <2>0. /\ ~settled /\ \A q \in Processes : ~sound[q]
          /\ traces = {} /\ \A f \in Points : prof_fifo_[f].results = {}
      BY <1>4, <1>s DEF Settled
    <2>1. CASE Start(p) \/ Finish(p) \/ End(p) \/ DiesSomehow(p)
      <3>1. UNCHANGED <<traces, prof_fifo_>>
        BY <2>1 DEF Start, Finish, End, DiesSomehow, points
      <3> QED BY <1>1, <1>4, <2>0, <3>1 DEF Settled
    <2>2. CASE FormatStep(p) /\ ~DiesSomehow(p)
      <3>1. UNCHANGED <<traces, prof_fifo_>>
        BY <2>2, FormatStepIs DEF points
      <3> QED BY <1>1, <1>4, <2>0, <3>1 DEF Settled
    <2>3. CASE PointStep(p)
      <3>1. UNCHANGED traces
        BY <2>3, PointStepIs
      <3>2. \A f \in Points : prof_fifo_'[f].results = {}
        <4>1. CASE PointKnown(p) \/ PointOther(p) \/ PointLoad(p) \/ PointStore(p)
          BY <2>0, <4>1
          DEF PointKnown, PointOther, PointLoad, PointStore, points
        <4>2. CASE PointSetup(p) \/ PointName(p) \/ MemAlloc(p)
          <5>1. /\ proc[p].i \in Points
                /\ prof_fifo_'[proc[p].i].results \in {{}, prof_fifo_[proc[p].i].results}
                /\ \A g \in Points \ {proc[p].i} : prof_fifo_'[g] = prof_fifo_[g]
            BY <4>2, SetupWrites, NameWrites, AllocWrites DEF Wrote
          <5> QED BY <2>0, <5>1
        <4> QED BY <2>3, <4>1, <4>2 DEF PointStep
      <3> QED BY <1>1, <1>4, <2>0, <3>1, <3>2 DEF Settled
    <2>4. CASE Works(p)
      <3>1. /\ \A t \in traces' : t \in traces
            /\ \A f \in Points : \A x \in prof_fifo_'[f].results : x \in prof_fifo_[f].results
        BY <2>0, <2>4, WorksIs
      <3>2. traces' = {} /\ \A f \in Points : prof_fifo_'[f].results = {}
        BY <2>0, <3>1
      <3> QED BY <1>1, <1>4, <3>2 DEF Settled
    <2> QED BY <2>1, <2>2, <2>3, <2>4, StepIs DEF Step
  <1> QED BY <1>2, <1>3, <1>4

-----------------------------------------------------------------------------
(* Once settled only the use of handles touches traces and points.         *)
LEMMA ClosedTables ==
  ASSUME TypeInv, Places, Settled, settled, NEW p \in Processes, Step(p), ~Works(p)
  PROVE  UNCHANGED <<traces, prof_fifo_>>
  <1>1. CASE Start(p) \/ Finish(p) \/ End(p) \/ DiesSomehow(p)
    BY <1>1 DEF Start, Finish, End, DiesSomehow, points
  <1>2. CASE FormatKnown(p) \/ FormatOther(p)
    BY <1>2 DEF FormatKnown, FormatOther, points
  <1>3. CASE PointKnown(p) \/ PointOther(p)
    BY <1>3 DEF PointKnown, PointOther, points
  <1> QED BY <1>1, <1>2, <1>3, Closed, StepIs DEF Step

(* What may be in the traces and the results after a step once settled.    *)
LEMMA Grows ==
  ASSUME TypeInv, Places, Settled, settled, HandlesRight, NEW p \in Processes, Step(p)
  PROVE  /\ \A t \in traces' : t \in traces \/ FormatAt(t.id, t.format)
         /\ \A f \in Points : \A x \in prof_fifo_'[f].results :
              x \in prof_fifo_[f].results \/ PointAt(f, x)
  <1>1. CASE Works(p)
    <2>1. ASSUME sound[p]
          PROVE  /\ \A n \in DOMAIN FormatList : FormatAt(proc[p].trace_id[n], FormatList[n])
                 /\ \A n \in DOMAIN PointList : PointAt(proc[p].profile_id[n], PointList[n])
      BY <1>1, <2>1
      DEF Works, HandlesRight, Handles, Sure, GotFormatOf, GotPointOf
    <2> QED BY <1>1, <2>1, WorksIs
  <1>2. CASE UNCHANGED <<traces, prof_fifo_>>
    BY <1>2
  <1>3. ~Works(p) => UNCHANGED <<traces, prof_fifo_>>
    BY ClosedTables
  <1> QED BY <1>1, <1>2, <1>3

LEMMA RightNext ==
  ASSUME TypeInv, Places, Mine, Settled, HandlesRight, FormatsRight, ReportsRight,
         NEW p \in Processes, Step(p)
  PROVE  FormatsRight' /\ ReportsRight'
  <1>1. CASE settled
    <2>1. Still
      BY <1>1, Closed
    <2>2. ASSUME NEW t \in traces'
          PROVE  t.id < num_alloc_formats_' /\ trace_formats_'[t.id] = t.format
      BY <1>1, <2>1, Grows DEF FormatsRight, FormatAt, Still, formats
    <2>3. ASSUME NEW f \in Points, NEW x \in prof_fifo_'[f].results
          PROVE  f < num_alloc_prof_' /\ prof_fifo_'[f].name_ = x
      BY <1>1, <2>1, <2>3, Grows DEF ReportsRight, PointAt, Still
    <2> QED BY <2>2, <2>3 DEF FormatsRight, ReportsRight
  <1>2. CASE ~settled
    <2>1. traces' = {} /\ \A f \in Points : prof_fifo_'[f].results = {}
      <3>1. CASE ~settled'
        BY <3>1, SettledNext DEF Settled
      <3>2. CASE settled'
        <4>1. Finish(p)
          <5>1. Start(p) \/ End(p) => settled' = settled
            BY DEF Start, End
          <5>2. FormatStep(p) /\ ~DiesSomehow(p) => settled' = settled
            BY FormatStepIs DEF history
          <5>3. PointStep(p) => settled' = settled
            BY PointStepIs DEF history
          <5>4. DiesSomehow(p) => settled' = settled
            BY DiesIs
          <5>5. Works(p) => settled' = settled
            BY DEF Works, history
          <5> QED BY <1>2, <3>2, <5>1, <5>2, <5>3, <5>4, <5>5, StepIs DEF Step
        <4> QED BY <1>2, <4>1 DEF Finish, Settled, points
      <3> QED BY <3>1, <3>2
    <2> QED BY <2>1 DEF FormatsRight, ReportsRight
  <1> QED BY <1>1, <1>2

(* What a process that is ready may die of.                                *)
LEMMA UseDeaths ==
  ASSUME TypeInv, Places, NEW p \in Processes, Use(p), ~Works(p)
  PROVE  /\ proc[p].pc = "ready" /\ proc'[p].addr = proc[p].addr
         /\ \/ /\ proc'[p].pc = "aborted"
               /\ \/ \E n \in DOMAIN FormatList :
                       ~(proc[p].trace_id[n] < num_alloc_formats_)
                  \/ \E n \in DOMAIN PointList : proc[p].profile_id[n] >= num_alloc_prof_
            \/ proc'[p].pc = "overrun" /\ num_alloc_prof_ > PROF_GROUP_MAX
            \/ /\ proc'[p].pc = "divided"
               /\ \/ \E n \in DOMAIN PointList : prof_fifo_[proc[p].profile_id[n]].chunks = 0
                  \/ \E f \in Points : f < num_alloc_prof_ /\ prof_fifo_[f].chunks = 0
            \/ /\ proc'[p].pc = "strayed"
               /\ \E n \in DOMAIN PointList :
                    prof_fifo_[proc[p].profile_id[n]].ptr # proc[p].addr
  <1>t. proc \in [Processes -> Locals]
    BY DEF TypeInv
  <1>d. ASSUME NEW how \in Dead, Dies(p, how)
        PROVE  proc'[p].pc = how /\ proc'[p].addr = proc[p].addr
    <2>1. how \in Steps
      BY DEF Steps, Resting
    <2> QED BY <1>d, <1>t, <2>1, GotoMoves DEF Dies
  <1>e. {"aborted", "overrun", "divided", "strayed"} = Dead
    BY DEF Dead
  <1>1. ASSUME NEW n \in DOMAIN FormatList, AddTrace(p, n)
        PROVE  /\ proc[p].pc = "ready" /\ proc'[p].addr = proc[p].addr
               /\ proc'[p].pc = "aborted" /\ ~(proc[p].trace_id[n] < num_alloc_formats_)
    <2>1. CASE proc[p].trace_id[n] < num_alloc_formats_
      <3>1. Works(p)
        BY <1>1, <2>1 DEF AddTrace, Works, points, formats
      <3> QED BY <3>1
    <2>2. CASE ~(proc[p].trace_id[n] < num_alloc_formats_)
      BY <1>1, <1>d, <1>e, <2>2 DEF AddTrace
    <2> QED BY <2>1, <2>2
  <1>2. ASSUME NEW n \in DOMAIN PointList, SaveResult(p, n), DiesSomehow(p)
        PROVE  /\ proc[p].pc = "ready" /\ proc'[p].addr = proc[p].addr
               /\ \/ /\ proc'[p].pc = "divided"
                     /\ prof_fifo_[proc[p].profile_id[n]].chunks = 0
                  \/ /\ proc'[p].pc = "strayed"
                     /\ prof_fifo_[proc[p].profile_id[n]].ptr # proc[p].addr
    <2> DEFINE f == proc[p].profile_id[n]
    <2>0. proc[p].pc = "ready"
      BY <1>2 DEF SaveResult
    <2>1. CASE prof_fifo_[f].chunks = 0
      <3>1. Dies(p, "divided")
        BY <1>2, <2>1 DEF SaveResult
      <3> QED BY <1>d, <1>e, <2>0, <2>1, <3>1
    <2>2. CASE prof_fifo_[f].chunks # 0 /\ prof_fifo_[f].ptr # proc[p].addr
      <3>1. Dies(p, "strayed")
        BY <1>2, <2>2 DEF SaveResult
      <3> QED BY <1>d, <1>e, <2>0, <2>2, <3>1
    <2>3. CASE prof_fifo_[f].chunks # 0 /\ ~(prof_fifo_[f].ptr # proc[p].addr)
      <3>1. proc' = proc
        BY <1>2, <2>3 DEF SaveResult
      <3>2. proc'[p].pc \in Dead
        BY <1>2, DiesIs
      <3> QED BY <2>0, <3>1, <3>2 DEF Dead
    <2> QED BY <2>1, <2>2, <2>3
  <1>3. ASSUME NEW n \in DOMAIN PointList, GetProfData(p, n), DiesSomehow(p)
        PROVE  /\ proc[p].pc = "ready" /\ proc'[p].addr = proc[p].addr
               /\ \/ /\ proc'[p].pc = "aborted"
                     /\ proc[p].profile_id[n] >= num_alloc_prof_
                  \/ /\ proc'[p].pc = "divided"
                     /\ prof_fifo_[proc[p].profile_id[n]].chunks = 0
    <2> DEFINE f == proc[p].profile_id[n]
    <2>0. proc[p].pc = "ready"
      BY <1>3 DEF GetProfData
    <2>1. CASE f >= num_alloc_prof_
      <3>0. ~(f < num_alloc_prof_)
        <4>1. f \in Points
          BY <2>0 DEF Places, Placed, GotPointOf
        <4>2. f \in Nat
          BY <4>1, Ranges
        <4>3. num_alloc_prof_ \in Nat
          BY DEF TypeInv
        <4> HIDE DEF f
        <4> QED BY <2>1, <4>2, <4>3
      <3>1. Dies(p, "aborted")
        BY <1>3, <2>1, <3>0 DEF GetProfData
      <3> QED BY <1>d, <1>e, <2>0, <2>1, <3>1
    <2>2. CASE ~(f >= num_alloc_prof_) /\ f < num_alloc_prof_ /\ prof_fifo_[f].chunks = 0
      <3>1. Dies(p, "divided")
        BY <1>3, <2>2 DEF GetProfData
      <3> QED BY <1>d, <1>e, <2>0, <2>2, <3>1
    <2>3. CASE ~(f >= num_alloc_prof_) /\ ~(f < num_alloc_prof_ /\ prof_fifo_[f].chunks = 0)
      <3>1. proc' = proc
        BY <1>3, <2>3 DEF GetProfData
      <3>2. proc'[p].pc \in Dead
        BY <1>3, DiesIs
      <3> QED BY <2>0, <3>1, <3>2 DEF Dead
    <2> QED BY <2>1, <2>2, <2>3
  <1>4. ASSUME Extract(p), DiesSomehow(p)
        PROVE  /\ proc[p].pc = "ready" /\ proc'[p].addr = proc[p].addr
               /\ \/ proc'[p].pc = "overrun" /\ num_alloc_prof_ > PROF_GROUP_MAX
                  \/ /\ proc'[p].pc = "divided"
                     /\ \E f \in Points : f < num_alloc_prof_ /\ prof_fifo_[f].chunks = 0
    <2>0. proc[p].pc = "ready"
      BY <1>4 DEF Extract
    <2>1. CASE num_alloc_prof_ > PROF_GROUP_MAX
      <3>1. Dies(p, "overrun")
        BY <1>4, <2>1 DEF Extract
      <3> QED BY <1>d, <1>e, <2>0, <2>1, <3>1
    <2>2. CASE /\ ~(num_alloc_prof_ > PROF_GROUP_MAX)
               /\ \E f \in Points : f < num_alloc_prof_ /\ prof_fifo_[f].chunks = 0
      <3>1. Dies(p, "divided")
        BY <1>4, <2>2 DEF Extract
      <3> QED BY <1>d, <1>e, <2>0, <2>2, <3>1
    <2>3. CASE /\ ~(num_alloc_prof_ > PROF_GROUP_MAX)
               /\ ~\E f \in Points : f < num_alloc_prof_ /\ prof_fifo_[f].chunks = 0
      <3>1. proc' = proc
        BY <1>4, <2>3 DEF Extract
      <3>2. proc'[p].pc \in Dead
        BY <1>4, DiesIs
      <3> QED BY <2>0, <3>1, <3>2 DEF Dead
    <2> QED BY <2>1, <2>2, <2>3
  <1>5. DiesSomehow(p)
    BY UseIs
  <1> QED BY <1>1, <1>2, <1>3, <1>4, <1>5 DEF Use

(* Which steps kill a process.                                             *)
LEMMA DeathIs ==
  ASSUME TypeInv, Places, NEW p \in Processes, Step(p), proc'[p].pc \in Dead,
         proc'[p] # proc[p]
  PROVE  \/ Use(p) \/ PointAsserts(p) \/ Overrun(p)
         \/ FormatWrite(p) /\ ~(num_alloc_formats_ < MAX_TRACE_FORMATS)
  <1>t. proc \in [Processes -> Locals] /\ num_alloc_formats_ \in Nat
    BY DEF TypeInv
  <1>d. /\ proc'[p].pc \notin FormatSteps \cup PointSteps \cup {"finish", "ready", "down"}
    BY DEF Dead, FormatSteps, PointSteps, SetupSteps
  <1>1. ~FormatKnown(p) /\ ~FormatStore(p)
    <2>1. SUFFICES ASSUME FormatKnown(p) \/ FormatStore(p) PROVE FALSE
      OBVIOUS
    <2>2. GotFormat(p) /\ proc[p].i \in Formats /\ proc[p].k \in DOMAIN FormatList
      BY <2>1, Stepping DEF FormatKnown, FormatStore
    <2>3. proc'[p].pc \in {"point", "format"}
      BY <1>t, <2>2, GotFormatMoves
    <2> QED BY <1>d, <2>3 DEF FormatSteps, PointSteps
  <1>2. ~FormatOther(p)
    <2>1. SUFFICES ASSUME FormatOther(p) PROVE FALSE
      OBVIOUS
    <2>2. Other(p) /\ proc[p].pc = "format" /\ proc[p].i \in Formats
      BY <2>1 DEF FormatOther
    <2>3. proc[p].i + 1 \in Indices
      <3>1. proc[p].i + 1 \in 0 .. MAX_TRACE_FORMATS
        BY <2>2, Sizes DEF Formats
      <3> QED BY <3>1 DEF Indices
    <2>4. proc'[p].pc = "format"
      BY <1>t, <2>2, <2>3, OtherMoves
    <2> QED BY <1>d, <2>4 DEF FormatSteps
  <1>3. FormatWrite(p) => ~(num_alloc_formats_ < MAX_TRACE_FORMATS)
    <2>1. SUFFICES ASSUME FormatWrite(p), num_alloc_formats_ < MAX_TRACE_FORMATS PROVE FALSE
      OBVIOUS
    <2>2. Goto(p, "format_load") /\ "format_load" \in Steps
      BY <2>1 DEF FormatWrite, Steps, FormatSteps
    <2>3. proc'[p].pc = "format_load"
      BY <1>t, <2>2, GotoMoves
    <2> QED BY <1>d, <2>3 DEF FormatSteps
  <1>4. ~FormatLoad(p)
    <2>1. SUFFICES ASSUME FormatLoad(p) PROVE FALSE
      OBVIOUS
    <2>a. PICK n \in Nat, to \in Steps : n = num_alloc_formats_ /\ to = "format_store"
      BY <1>t DEF Steps, FormatSteps
    <2>2. proc' = [proc EXCEPT ![p].pc = to, ![p].tmp = n]
      BY <2>1, <2>a DEF FormatLoad
    <2>3. proc'[p].pc = to
      BY <1>t, <2>2, LoadMoves
    <2> QED BY <1>d, <2>3, <2>a DEF FormatSteps
  <1>5. ~PointStep(p)
    <2>1. PointStep(p) => proc'[p].pc \in PointSteps \cup {"finish"}
      BY PointStepIs DEF PointStep, PointSteps, SetupSteps
    <2> QED BY <1>d, <2>1
  <1>6. ~Start(p)
    <2>1. SUFFICES ASSUME Start(p) PROVE FALSE
      OBVIOUS
    <2>2. PICK a \in Addresses :
             proc' = [proc EXCEPT ![p].pc = "format", ![p].addr = a]
      BY <2>1 DEF Start
    <2>3. proc[p] = Down
      BY <2>1 DEF Start, Places, Placed
    <2>4. proc'[p].pc = "format"
      BY <1>t, <2>2, <2>3, StartMoves
    <2> QED BY <1>d, <2>4 DEF FormatSteps
  <1>7. ~Finish(p) /\ ~End(p)
    <2>1. Finish(p) => proc'[p].pc = "ready"
      BY <1>t, GotoMoves DEF Finish, Steps, Resting
    <2>2. End(p) => proc'[p].pc = "down"
      BY <1>t, EndMoves
    <2> QED BY <1>d, <2>1, <2>2
  <1> QED BY <1>1, <1>2, <1>3, <1>4, <1>5, <1>6, <1>7 DEF Step, Register, PointStep

LEMMA SoundLivesNext ==
  ASSUME TypeInv, Places, Settled, HandlesRight, SoundLives, NEW p \in Processes, Step(p)
  PROVE  SoundLives'
  <1> SUFFICES ASSUME NEW q \in Processes, sound'[q], proc'[q].pc \in {"aborted", "overrun"}
               PROVE  FALSE
    BY DEF SoundLives
  <1>1. q = p
    BY OthersStay DEF SoundLives
  <1>2. proc'[p].pc \in Dead
    BY <1>1 DEF Dead
  <1>3. sound[p]
    <2>1. proc'[p].pc \notin {"format", "ready"}
      BY <1>1
    <2>2. ~Start(p)
      <3>1. SUFFICES ASSUME Start(p) PROVE FALSE
        OBVIOUS
      <3>2. PICK a \in Addresses :
               proc' = [proc EXCEPT ![p].pc = "format", ![p].addr = a]
        BY <3>1 DEF Start
      <3>3. proc[p] = Down
        BY <3>1 DEF Start, Places, Placed
      <3>4. proc'[p].pc = "format"
        BY <3>2, <3>3, StartMoves DEF TypeInv
      <3> QED BY <2>1, <3>4
    <2>3. ~Finish(p)
      BY <2>1, GotoMoves, ZenonT(30) DEF Finish, TypeInv, Steps, Resting
    <2>4. CASE FormatStep(p) /\ ~DiesSomehow(p)
      BY <1>1, <2>4, FormatStepIs DEF history
    <2>5. CASE PointStep(p)
      BY <1>1, <2>5, PointStepIs DEF history
    <2>6. CASE DiesSomehow(p)
      BY <1>1, <2>6, DiesIs
    <2>7. CASE Works(p)
      BY <1>1, <2>7 DEF Works, history
    <2>8. CASE End(p)
      BY <1>1, <2>8 DEF End
    <2> QED BY <2>2, <2>3, <2>4, <2>5, <2>6, <2>7, <2>8, StepIs DEF Step
  <1>4. settled /\ proc'[p] # proc[p]
    BY <1>1, <1>3 DEF Settled, SoundLives
  <1>5. Use(p) /\ ~Works(p)
    <2>1. ~PointAsserts(p) /\ ~Overrun(p)
      BY <1>4, Closed
    <2>2. ~FormatWrite(p)
      <3>1. FormatWrite(p) => FormatKnown(p) \/ FormatOther(p)
        BY <1>4, Closed DEF FormatStep
      <3>2. num_alloc_formats_ \in Nat /\ proc[p].i \in Nat
        BY FieldTypes DEF TypeInv
      <3> QED BY <3>1, <3>2 DEF FormatKnown, FormatOther, FormatWrite
    <2>3. Works(p) => proc'[p] = proc[p]
      BY DEF Works
    <2> QED BY <1>2, <1>4, <2>1, <2>2, <2>3, DeathIs
  <1>6. proc[p].pc = "ready"
    BY <1>5, UseDeaths
  <1>7. /\ \A n \in DOMAIN FormatList : FormatAt(proc[p].trace_id[n], FormatList[n])
        /\ \A n \in DOMAIN PointList : PointAt(proc[p].profile_id[n], PointList[n])
    BY <1>3, <1>6 DEF HandlesRight, Handles, Sure, GotFormatOf, GotPointOf
  <1>8. num_alloc_prof_ <= PROF_GROUP_MAX
    BY <1>4 DEF Settled, Complete
  <1>t. num_alloc_prof_ \in Nat /\ PROF_GROUP_MAX \in Nat
    BY Sizes DEF TypeInv
  <1>9. \A n \in DOMAIN PointList : ~(proc[p].profile_id[n] >= num_alloc_prof_)
    <2>1. ASSUME NEW n \in DOMAIN PointList
          PROVE  proc[p].profile_id[n] \in Nat /\ proc[p].profile_id[n] < num_alloc_prof_
      BY <1>7, Ranges DEF PointAt
    <2> QED BY <1>t, <2>1
  <1>10. ~(num_alloc_prof_ > PROF_GROUP_MAX)
    BY <1>8, <1>t
  <1> QED BY <1>1, <1>5, <1>7, <1>9, <1>10, UseDeaths DEF FormatAt

-----------------------------------------------------------------------------
(* What a step that neither races nor cuts anything off may be.            *)
LEMMA CalmStep ==
  ASSUME TypeInv, Places, NEW p \in Processes, Step(p), ~cut', ~raced'
  PROVE  /\ ~cut /\ ~raced
         /\ Start(p) => \A r \in Processes : ~Registering(r)
         /\ End(p) \/ DiesSomehow(p) => ~Registering(p)
  <1>1. ~cut /\ ~raced
    BY OthersStay
  <1>2. Start(p) => \A r \in Processes : ~Registering(r)
    BY DEF Start
  <1>3. End(p) \/ DiesSomehow(p) => ~Registering(p)
    BY DiesIs DEF End
  <1> QED BY <1>1, <1>2, <1>3

LEMMA StartIs ==
  ASSUME TypeInv, Places, NEW p \in Processes, Start(p)
  PROVE  /\ proc[p].pc = "down" /\ Still /\ UNCHANGED traces
         /\ proc'[p].pc = "format" /\ proc'[p].k = 1 /\ proc'[p].i = 0
         /\ sound'[p] = settled /\ settled' = settled
         /\ alone'[p] = \A r \in Processes : ~Registering(r)
  <1>1. PICK a \in Addresses :
           proc' = [proc EXCEPT ![p].pc = "format", ![p].addr = a]
    BY DEF Start
  <1>2. proc[p] = Down /\ proc[p].pc = "down"
    BY DEF Start, Places, Placed
  <1>3. proc'[p].pc = "format" /\ proc'[p].k = 1 /\ proc'[p].i = 0
    BY <1>1, <1>2, StartMoves DEF TypeInv
  <1>4. Still /\ UNCHANGED <<traces, settled>>
    BY DEF Start, Still, points
  <1>5. sound'[p] = settled
    BY DEF Start, TypeInv
  <1>6. alone'[p] = \A r \in Processes : ~Registering(r)
    BY DEF Start
  <1> QED BY <1>2, <1>3, <1>4, <1>5, <1>6

LEMMA FinishIs ==
  ASSUME TypeInv, Places, NEW p \in Processes, Finish(p)
  PROVE  /\ proc[p].pc = "finish" /\ Still /\ UNCHANGED <<traces, alone, creator>>
         /\ proc'[p].pc = "ready" /\ proc'[p].addr = proc[p].addr
         /\ sound'[p] <=> sound[p] \/ alone[p]
         /\ settled' <=> settled \/ alone[p]
  <1>1. proc'[p].pc = "ready" /\ proc'[p].addr = proc[p].addr
    BY GotoMoves DEF Finish, TypeInv, Steps, Resting
  <1>2. proc[p].pc = "finish" /\ Still /\ UNCHANGED <<traces, alone, creator>>
    BY DEF Finish, Still, points
  <1>3. sound'[p] <=> sound[p] \/ alone[p]
    BY DEF Finish, TypeInv
  <1>4. settled' <=> settled \/ alone[p]
    BY DEF Finish
  <1> QED BY <1>1, <1>2, <1>3, <1>4

(* Whoever registers does so alone, and whoever is ready is sound.         *)
LEMMA CalmAlone ==
  ASSUME TypeInv, Places, Orderly, NEW p \in Processes, Step(p), ~cut', ~raced'
  PROVE  /\ \A q \in Processes : Registering(q)' => alone'[q]
         /\ \A q \in Processes : proc'[q].pc = "ready" => sound'[q]
  <1>1. CASE Start(p)
    <2>1. \A r \in Processes : ~Registering(r)
      BY <1>1, CalmStep
    <2>2. alone'[p]
      BY <1>1, <2>1, StartIs
    <2>3. \A q \in Processes \ {p} : proc'[q] = proc[q] /\ sound'[q] = sound[q]
      BY OthersStay
    <2> QED BY <1>1, <2>1, <2>2, <2>3, StartIs, WhereNext, ZenonT(60) DEF Orderly
  <1>2. CASE FormatStep(p) /\ ~DiesSomehow(p)
    <2>1. /\ UNCHANGED <<alone, sound>> /\ Registering(p)
          /\ \A q \in Processes \ {p} : proc'[q] = proc[q]
      BY <1>2, FormatStepIs, Where DEF history
    <2>2. proc'[p].pc \in FormatSteps \cup {"point"}
      BY <1>2, FormatStepIs DEF FormatStep, FormatSteps
    <2> QED BY <2>1, <2>2, WhereNext DEF Orderly, FormatSteps
  <1>3. CASE PointStep(p)
    <2>1. /\ UNCHANGED <<alone, sound>> /\ Registering(p)
          /\ \A q \in Processes \ {p} : proc'[q] = proc[q]
      BY <1>3, PointStepIs, Where DEF history
    <2>2. proc'[p].pc \in PointSteps \cup {"finish"}
      BY <1>3, PointStepIs DEF PointStep, PointSteps, SetupSteps
    <2> QED BY <2>1, <2>2, WhereNext DEF Orderly, PointSteps, SetupSteps
  <1>4. CASE Finish(p)
    <2>1. alone[p]
      BY <1>4, FinishIs, Where DEF Orderly
    <2>2. /\ sound'[p] /\ alone' = alone /\ proc'[p].pc = "ready"
      BY <1>4, <2>1, FinishIs
    <2>3. \A q \in Processes \ {p} : proc'[q] = proc[q] /\ sound'[q] = sound[q]
      BY OthersStay
    <2> QED BY <2>2, <2>3, WhereNext DEF Orderly
  <1>5. CASE End(p) \/ DiesSomehow(p) \/ Works(p)
    <2>1. ~Registering(p) /\ ~Start(p)
      <3>1. CASE End(p) \/ DiesSomehow(p)
        <4>1. proc[p].pc # "down"
          BY <3>1 DEF End, DiesSomehow
        <4> QED BY <3>1, <4>1, CalmStep DEF Start
      <3>2. CASE Works(p)
        BY <3>2, Where DEF Works, Start
      <3> QED BY <1>5, <3>1, <3>2
    <2>2. /\ ~Registering(p)' /\ UNCHANGED <<alone, sound>>
          /\ \A q \in Processes \ {p} : proc'[q] = proc[q]
          /\ proc'[p] = Down \/ proc'[p].pc \in Dead \/ proc' = proc
      BY <2>1, QuietStep
    <2>3. proc'[p].pc = "ready" => proc[p].pc = "ready"
      BY <2>2 DEF Down, Dead
    <2> QED BY <2>2, <2>3, WhereNext DEF Orderly
  <1> QED BY <1>1, <1>2, <1>3, <1>4, <1>5, StepIs DEF Step

(* Once settled, nothing of this can change any more.                      *)
LEMMA CalmSettled ==
  ASSUME TypeInv, Places, Settled, HandlesRight, Orderly, settled,
         NEW p \in Processes, Step(p), ~cut', ~raced'
  PROVE  Orderly'
  <1>1. Still /\ settled'
    BY Closed, OthersStay
  <1>2. /\ num_alloc_formats_' = num_alloc_formats_ /\ num_alloc_prof_' = num_alloc_prof_
        /\ \A f \in Points : prof_fifo_'[f].chunks = prof_fifo_[f].chunks
    BY <1>1 DEF Still, formats
  <1>3. \A f \in Points : f < num_alloc_prof_ => prof_fifo_[f].chunks = 1
    <2>1. \A q \in Processes : proc[q].pc # "point_setup"
      <3>1. ASSUME NEW q \in Processes, proc[q].pc = "point_setup" PROVE FALSE
        <4>1. Registering(q)
          BY <3>1, Where DEF PointSteps, SetupSteps
        <4> QED BY <3>1, <4>1 DEF Settled, Finds
      <3> QED BY <3>1
    <2> QED BY <2>1 DEF Orderly, SetUpOf
  <1>4. ASSUME NEW q \in Processes PROVE proc'[q].pc # "divided"
    <2>1. SUFFICES ASSUME proc'[q].pc = "divided" PROVE FALSE
      OBVIOUS
    <2>2. q = p /\ proc'[p] # proc[p] /\ proc'[p].pc \in Dead
      BY <2>1, OthersStay DEF Orderly, Dead
    <2>3. Use(p) /\ ~Works(p)
      <3>1. ~PointAsserts(p) /\ ~Overrun(p)
        BY Closed
      <3>2. ~FormatWrite(p)
        <4>1. FormatWrite(p) => FormatKnown(p) \/ FormatOther(p)
          BY Closed DEF FormatStep
        <4>2. num_alloc_formats_ \in Nat /\ proc[p].i \in Nat
          BY FieldTypes DEF TypeInv
        <4> QED BY <4>1, <4>2 DEF FormatKnown, FormatOther, FormatWrite
      <3>3. Works(p) => proc'[p] = proc[p]
        BY DEF Works
      <3> QED BY <2>2, <3>1, <3>2, <3>3, DeathIs
    <2>4. proc[p].pc = "ready"
      BY <2>3, UseDeaths
    <2>5. \A n \in DOMAIN PointList : PointAt(proc[p].profile_id[n], PointList[n])
      BY <2>4 DEF Orderly, HandlesRight, Handles, Sure, GotPointOf
    <2>6. \/ \E n \in DOMAIN PointList : prof_fifo_[proc[p].profile_id[n]].chunks = 0
          \/ \E f \in Points : f < num_alloc_prof_ /\ prof_fifo_[f].chunks = 0
      BY <2>1, <2>2, <2>3, UseDeaths
    <2> QED BY <1>3, <2>5, <2>6 DEF PointAt
  <1>5. /\ num_alloc_formats_' <= Len(FormatList) + 1
        /\ num_alloc_prof_' <= Len(PointList)
    BY <1>2 DEF Orderly
  <1>6. \A f \in Points : f < num_alloc_prof_' => SetUpOf(f)'
    BY <1>2, <1>3 DEF SetUpOf
  <1> QED BY <1>1, <1>4, <1>5, <1>6, CalmAlone DEF Orderly

LEMMA CalmUnsettled ==
  ASSUME TypeInv, Places, Mine, Orderly, ~settled,
         NEW p \in Processes, Step(p), ~cut', ~raced'
  PROVE  Orderly'
  <1>t. /\ num_alloc_formats_ \in Nat /\ num_alloc_prof_ \in Nat
        /\ proc[p].i \in Nat /\ proc[p].k \in Nat
    BY FieldTypes DEF TypeInv
  <1>c. \A q \in Processes : Counted(q)
    BY DEF Orderly
  <1>o. \A q \in Processes \ {p} : proc'[q] = proc[q]
    BY OthersStay
  <1>0. \/ Start(p) \/ (FormatStep(p) /\ ~DiesSomehow(p)) \/ PointStep(p) \/ Finish(p)
    <2>1. End(p) \/ DiesSomehow(p) \/ Works(p) => proc[p].pc # "down"
      BY DEF End, DiesSomehow, Works
    <2>2. Works(p) => ~Registering(p)
      BY Where DEF Works
    <2> QED BY <1>c, <2>1, <2>2, CalmStep, StepIs DEF Step, Counted
  <1>1. ASSUME NEW q \in Processes \ {p} PROVE Counted(q)'
    <2>1. ~Registering(q)
      <3>1. CASE Start(p)
        BY <3>1, CalmStep
      <3>2. CASE ~Start(p)
        <4>1. Registering(p)
          BY <1>0, <3>2, FormatStepIs, PointStepIs, FinishIs, Where
        <4> QED BY <4>1 DEF Orderly, Mine, Own
      <3> QED BY <3>1, <3>2
    <2>2. proc'[q].pc = "down"
      BY <1>c, <1>o, <2>1 DEF Counted
    <2> QED BY <2>2 DEF Counted, FormatSteps, SetupSteps
  <1>2. CASE Start(p)
    <2>1. \A r \in Processes : ~Registering(r)
      BY <1>2, CalmStep
    <2>2. num_alloc_formats_ = 1 /\ num_alloc_prof_ = 0
      BY <2>1 DEF Orderly
    <2>3. /\ Still /\ settled' = settled
          /\ proc'[p].pc = "format" /\ proc'[p].k = 1
      BY <1>2, StartIs
    <2>4. num_alloc_formats_' = 1 /\ num_alloc_prof_' = 0
      BY <2>2, <2>3 DEF Still, formats
    <2>5. Registering(p)'
      BY <2>3, WhereNext DEF FormatSteps
    <2>6. Counted(p)'
      BY <2>3, <2>4, <2>5 DEF Counted, FormatSteps, SetupSteps
    <2>7. num_alloc_formats_' <= Len(FormatList) + 1 /\ num_alloc_prof_' <= Len(PointList)
      BY <2>4, Lengths
    <2>8. \A f \in Points : ~(f < num_alloc_prof_')
      BY <2>4, Ranges
    <2>9. \A q \in Processes : proc'[q].pc # "divided"
      BY <1>o, <2>3 DEF Orderly
    <2> QED BY <1>1, <2>5, <2>6, <2>7, <2>8, <2>9, CalmAlone DEF Orderly
  <1>3. CASE FormatStep(p) /\ ~DiesSomehow(p)
    <2>1. Own(p) /\ proc[p].pc \in FormatSteps /\ proc[p].k \in DOMAIN FormatList
      BY <1>3, FormatStepIs, Where DEF Orderly, Mine
    <2>2. num_alloc_formats_ <= proc[p].k /\ num_alloc_prof_ = 0
      BY <1>c, <2>1 DEF Counted
    <2>3. num_alloc_prof_' = 0
      BY <1>3, <2>2, FormatStepIs DEF points
    <2>4. proc'[p].pc \in FormatSteps \cup {"point"}
      BY <1>3, FormatStepIs DEF FormatStep, FormatSteps
    <2>5. Registering(p)'
      BY <2>4, WhereNext DEF PointSteps
    <2>6. /\ proc'[p].pc \in FormatSteps => num_alloc_formats_' <= proc'[p].k
          /\ proc'[p].pc = "point" => proc'[p].k = 1
          /\ num_alloc_formats_' <= Len(FormatList) + 1
      <3>1. CASE FormatKnown(p) \/ FormatStore(p)
        <4>1. num_alloc_formats_' \in {num_alloc_formats_, num_alloc_formats_ + 1}
          <5>1. CASE FormatKnown(p)
            BY <5>1 DEF FormatKnown, formats
          <5>2. CASE FormatStore(p)
            BY <2>1, <5>2 DEF FormatStore, Own
          <5> QED BY <3>1, <5>1, <5>2
        <4>2. IF proc[p].k = Len(FormatList)
              THEN proc'[p].pc = "point" /\ proc'[p].k = 1
              ELSE proc'[p].pc = "format" /\ proc'[p].k = proc[p].k + 1
          BY <1>3, <3>1, FormatStepIs
        <4>3. proc[p].k <= Len(FormatList) /\ Len(FormatList) \in Nat
          BY <2>1, Lengths
        <4>4. num_alloc_formats_' <= proc[p].k + 1 /\ num_alloc_formats_' <= Len(FormatList) + 1
          BY <1>t, <2>2, <4>1, <4>3
        <4> QED BY <4>2, <4>4 DEF FormatSteps
      <3>2. CASE FormatOther(p) \/ FormatWrite(p) \/ FormatLoad(p)
        <4>1. num_alloc_formats_' = num_alloc_formats_
          BY <3>2 DEF FormatOther, FormatWrite, FormatLoad, formats
        <4>2. proc'[p].k = proc[p].k /\ proc'[p].pc # "point"
          BY <1>3, <3>2, FormatStepIs
        <4> QED BY <2>2, <4>1, <4>2 DEF Orderly
      <3> QED BY <1>3, <3>1, <3>2 DEF FormatStep
    <2>7. Counted(p)'
      BY <2>3, <2>4, <2>5, <2>6 DEF Counted, FormatSteps, SetupSteps
    <2>8. num_alloc_prof_' <= Len(PointList) /\ \A f \in Points : ~(f < num_alloc_prof_')
      BY <2>3, Lengths, Ranges
    <2>9. \A q \in Processes : proc'[q].pc # "divided"
      BY <1>o, <2>4 DEF Orderly, FormatSteps
    <2> QED BY <1>1, <2>5, <2>6, <2>7, <2>8, <2>9, CalmAlone DEF Orderly
  <1>4. CASE PointStep(p)
    <2>1. Own(p) /\ proc[p].pc \in PointSteps /\ proc[p].k \in DOMAIN PointList
      BY <1>4, PointStepIs, Where DEF Orderly, Mine
    <2>2. /\ proc[p].pc \in {"point", "point_store"} => num_alloc_prof_ < proc[p].k
          /\ proc[p].pc \in SetupSteps => num_alloc_prof_ <= proc[p].k
      BY <1>c, <2>1 DEF Counted
    <2>3. num_alloc_formats_' <= Len(FormatList) + 1
      BY <1>4, PointStepIs DEF Orderly, formats
    <2>4. proc'[p].pc \in PointSteps \cup {"finish"}
      BY <1>4, PointStepIs DEF PointStep, PointSteps, SetupSteps
    <2>5. Registering(p)'
      BY <2>4, WhereNext
    <2>l. proc[p].k <= Len(PointList) /\ Len(PointList) \in Nat
      BY <2>1, Lengths
    <2>6. /\ proc'[p].pc \in {"point", "point_store"} => num_alloc_prof_' < proc'[p].k
          /\ proc'[p].pc \in SetupSteps => num_alloc_prof_' <= proc'[p].k
          /\ num_alloc_prof_' <= Len(PointList)
      <3>1. CASE PointKnown(p) \/ MemAlloc(p)
        <4>1. num_alloc_prof_' = num_alloc_prof_ /\ num_alloc_prof_ <= proc[p].k
          <5>1. CASE PointKnown(p)
            BY <1>t, <2>2, <5>1 DEF PointKnown, MayScan, points
          <5>2. CASE MemAlloc(p)
            BY <2>2, <5>2 DEF MemAlloc, SetupSteps
          <5> QED BY <3>1, <5>1, <5>2
        <4>2. IF proc[p].k = Len(PointList)
              THEN proc'[p].pc = "finish"
              ELSE proc'[p].pc = "point" /\ proc'[p].k = proc[p].k + 1
          BY <1>4, <3>1, PointStepIs
        <4>3. num_alloc_prof_' < proc[p].k + 1 /\ num_alloc_prof_' <= Len(PointList)
          BY <1>t, <2>l, <4>1
        <4> QED BY <4>2, <4>3 DEF SetupSteps
      <3>2. CASE PointOther(p) \/ PointLoad(p)
        <4>1. /\ num_alloc_prof_' = num_alloc_prof_ /\ proc[p].pc = "point"
          BY <3>2 DEF PointOther, PointLoad, MayScan, points
        <4>2. proc'[p].k = proc[p].k /\ proc'[p].pc \notin SetupSteps
          BY <1>4, <3>2, PointStepIs DEF SetupSteps
        <4> QED BY <2>2, <4>1, <4>2 DEF Orderly
      <3>3. CASE PointStore(p)
        <4>1. num_alloc_prof_' = num_alloc_prof_ + 1 /\ num_alloc_prof_ < proc[p].k
          BY <2>1, <2>2, <3>3 DEF PointStore, Own
        <4>2. proc'[p].k = proc[p].k /\ proc'[p].pc = "point_setup"
          BY <1>4, <3>3, PointStepIs
        <4>3. num_alloc_prof_' <= proc[p].k /\ num_alloc_prof_' <= Len(PointList)
          BY <1>t, <2>l, <4>1
        <4> QED BY <4>2, <4>3
      <3>4. CASE PointSetup(p) \/ PointName(p)
        <4>1. num_alloc_prof_' = num_alloc_prof_ /\ proc[p].pc \in SetupSteps
          BY <3>4 DEF PointSetup, PointName, SetupSteps
        <4>2. proc'[p].k = proc[p].k /\ proc'[p].pc \in {"point_name", "point_alloc"}
          BY <1>4, <3>4, PointStepIs
        <4> QED BY <2>2, <4>1, <4>2 DEF Orderly
      <3> QED BY <1>4, <3>1, <3>2, <3>3, <3>4 DEF PointStep
    <2>7. Counted(p)'
      BY <2>4, <2>5, <2>6 DEF Counted, FormatSteps, PointSteps, SetupSteps
    <2>8. ASSUME NEW f \in Points, f < num_alloc_prof_' PROVE SetUpOf(f)'
      <3>1. \A q \in Processes : proc[q].pc = "point_setup" => q = p
        <4>1. \A q \in Processes : proc[q].pc = "point_setup" => Registering(q)
          BY Where DEF PointSteps, SetupSteps
        <4> QED BY <2>1, <4>1 DEF Own
      <3>2. CASE PointKnown(p) \/ PointOther(p) \/ PointLoad(p)
        <4>1. /\ num_alloc_prof_' = num_alloc_prof_ /\ proc[p].pc = "point"
              /\ prof_fifo_' = prof_fifo_
          BY <3>2 DEF PointKnown, PointOther, PointLoad, MayScan, points
        <4>2. prof_fifo_[f].chunks = 1
          BY <2>8, <3>1, <4>1 DEF Orderly, SetUpOf
        <4> QED BY <4>1, <4>2 DEF SetUpOf
      <3>3. CASE PointStore(p)
        <4>1. /\ num_alloc_prof_' = num_alloc_prof_ + 1 /\ proc[p].i = num_alloc_prof_
              /\ proc[p].pc = "point_store" /\ prof_fifo_' = prof_fifo_
          BY <2>1, <3>3 DEF PointStore, Own
        <4>2. proc'[p].i = proc[p].i /\ proc'[p].pc = "point_setup"
          BY <1>4, <3>3, PointStepIs
        <4>3. f \in Nat
          BY Ranges
        <4>4. f < num_alloc_prof_ \/ f = num_alloc_prof_
          BY <1>t, <2>8, <4>1, <4>3
        <4>5. f < num_alloc_prof_ => prof_fifo_[f].chunks = 1
          BY <3>1, <4>1 DEF Orderly, SetUpOf
        <4> QED BY <4>1, <4>2, <4>4, <4>5 DEF SetUpOf
      <3>4. CASE PointSetup(p)
        <4>1. /\ num_alloc_prof_' = num_alloc_prof_ /\ proc[p].i \in Points
              /\ prof_fifo_'[proc[p].i].chunks = 1
              /\ \A g \in Points \ {proc[p].i} : prof_fifo_'[g] = prof_fifo_[g]
          BY <3>4, SetupWrites DEF PointSetup, Wrote
        <4>2. f # proc[p].i => prof_fifo_[f].chunks = 1
          BY <2>8, <3>1, <4>1 DEF Orderly, SetUpOf
        <4> QED BY <4>1, <4>2 DEF SetUpOf
      <3>5. CASE PointName(p) \/ MemAlloc(p)
        <4>1. /\ num_alloc_prof_' = num_alloc_prof_ /\ proc[p].i \in Points
              /\ prof_fifo_'[proc[p].i].chunks = prof_fifo_[proc[p].i].chunks
              /\ \A g \in Points \ {proc[p].i} : prof_fifo_'[g] = prof_fifo_[g]
              /\ proc[p].pc # "point_setup"
          BY <3>5, NameWrites, AllocWrites DEF PointName, MemAlloc, Wrote
        <4>2. prof_fifo_[f].chunks = 1
          BY <2>8, <3>1, <4>1 DEF Orderly, SetUpOf
        <4>3. prof_fifo_'[f].chunks = 1
          BY <4>1, <4>2
        <4> QED BY <4>3 DEF SetUpOf
      <3> QED BY <1>4, <3>2, <3>3, <3>4, <3>5 DEF PointStep
    <2>9. \A q \in Processes : proc'[q].pc # "divided"
      BY <1>o, <2>4 DEF Orderly, PointSteps, SetupSteps
    <2> QED BY <1>1, <2>3, <2>5, <2>6, <2>7, <2>8, <2>9, CalmAlone DEF Orderly
  <1>5. CASE Finish(p)
    <2>1. /\ proc[p].pc = "finish" /\ Still /\ proc'[p].pc = "ready"
          /\ settled' <=> settled \/ alone[p]
      BY <1>5, FinishIs
    <2>2. alone[p] /\ Own(p)
      BY <2>1, Where DEF Orderly, Mine
    <2>3. settled'
      BY <2>1, <2>2
    <2>4. /\ num_alloc_formats_' = num_alloc_formats_ /\ num_alloc_prof_' = num_alloc_prof_
          /\ \A f \in Points : prof_fifo_'[f].chunks = prof_fifo_[f].chunks
      BY <2>1 DEF Still, formats
    <2>5. \A q \in Processes : proc[q].pc # "point_setup"
      <3>1. \A q \in Processes : proc[q].pc = "point_setup" => Registering(q)
        BY Where DEF PointSteps, SetupSteps
      <3> QED BY <2>1, <2>2, <3>1 DEF Own
    <2>6. \A f \in Points : f < num_alloc_prof_' => SetUpOf(f)'
      BY <2>4, <2>5 DEF Orderly, SetUpOf
    <2>7. \A q \in Processes : proc'[q].pc # "divided"
      BY <1>o, <2>1 DEF Orderly
    <2> QED BY <2>3, <2>4, <2>6, <2>7, CalmAlone DEF Orderly
  <1> QED BY <1>0, <1>2, <1>3, <1>4, <1>5

LEMMA UndisturbedNext ==
  ASSUME TypeInv, Places, Mine, Settled, HandlesRight, Undisturbed,
         NEW p \in Processes, Step(p)
  PROVE  Undisturbed'
  <1> SUFFICES ASSUME ~cut', ~raced' PROVE Orderly'
    BY DEF Undisturbed
  <1>1. Orderly
    BY CalmStep DEF Undisturbed
  <1> QED BY <1>1, CalmSettled, CalmUnsettled

-----------------------------------------------------------------------------
(* Which steps write a name, an address or the count of points.            *)
LEMMA WhoWrites ==
  ASSUME TypeInv, Places, NEW p \in Processes, Step(p), NEW f \in Points
  PROVE  /\ \/ prof_fifo_'[f].name_ = prof_fifo_[f].name_
            \/ PointName(p) /\ f = proc[p].i
         /\ \/ prof_fifo_'[f].ptr = prof_fifo_[f].ptr
            \/ MemAlloc(p) /\ f = proc[p].i /\ prof_fifo_'[f].ptr = proc[p].addr
         /\ num_alloc_prof_' = num_alloc_prof_ \/ PointStore(p)
  <1>1. CASE Start(p) \/ Finish(p) \/ End(p) \/ DiesSomehow(p)
    BY <1>1 DEF Start, Finish, End, DiesSomehow, points
  <1>2. CASE FormatStep(p) /\ ~DiesSomehow(p)
    BY <1>2, FormatStepIs DEF points
  <1>3. CASE PointStep(p)
    <2>1. CASE PointKnown(p) \/ PointOther(p) \/ PointLoad(p) \/ PointStore(p)
      BY <2>1 DEF PointKnown, PointOther, PointLoad, PointStore, points
    <2>2. CASE PointSetup(p)
      BY <2>2, SetupWrites DEF Wrote, PointSetup
    <2>3. CASE PointName(p)
      BY <2>3, NameWrites DEF Wrote, PointName
    <2>4. CASE MemAlloc(p)
      BY <2>4, AllocWrites DEF Wrote, MemAlloc
    <2> QED BY <1>3, <2>1, <2>2, <2>3, <2>4 DEF PointStep
  <1>4. CASE Works(p)
    BY <1>4, WorksIs DEF Still
  <1> QED BY <1>1, <1>2, <1>3, <1>4, StepIs DEF Step

LEMMA LocatedNext ==
  ASSUME TypeInv, Places, Located, NEW p \in Processes, Step(p)
  PROVE  Located'
  <1> SUFFICES ASSUME ~cut', NEW f \in Points, prof_fifo_'[f].name_ # ""
               PROVE  \/ prof_fifo_'[f].ptr # NULL
                      \/ \E q \in Processes : proc'[q].pc = "point_alloc" /\ proc'[q].i = f
    BY DEF Located
  <1>1. CASE PointName(p) /\ f = proc[p].i
    BY <1>1, PointStepIs DEF PointStep
  <1>2. CASE ~(PointName(p) /\ f = proc[p].i)
    <2>1. prof_fifo_[f].name_ # "" /\ ~cut
      BY <1>2, WhoWrites, OthersStay
    <2>2. CASE MemAlloc(p) /\ f = proc[p].i
      <3>1. prof_fifo_'[f].ptr = proc[p].addr
        BY <2>2, AllocWrites DEF Wrote
      <3>2. proc[p].addr \in Addresses
        BY <2>2 DEF MemAlloc, Places, Placed
      <3> QED BY <3>1, <3>2, Sizes
    <2>3. CASE ~(MemAlloc(p) /\ f = proc[p].i)
      <3>1. prof_fifo_'[f].ptr = prof_fifo_[f].ptr
        BY <2>3, WhoWrites
      <3>2. ASSUME NEW q \in Processes, proc[q].pc = "point_alloc", proc[q].i = f
            PROVE  proc'[q] = proc[q]
        <4>1. SUFFICES ASSUME q = p PROVE FALSE
          BY OthersStay
        <4>2. proc[p].pc \in PointSteps \ (FormatSteps \cup {"finish", "down", "ready"})
          BY <3>2, <4>1 DEF PointSteps, SetupSteps, FormatSteps
        <4>3. Registering(p)
          BY <4>2, Where
        <4>4. ~Start(p) /\ ~Finish(p) /\ ~Works(p) /\ ~(FormatStep(p) /\ ~DiesSomehow(p))
          BY <4>2, FormatStepIs DEF Start, Finish, Works
        <4>5. ~End(p) /\ ~DiesSomehow(p)
          BY <4>3, DiesIs DEF End
        <4>6. ~PointStep(p)
          BY <2>3, <3>2, <4>1
          DEF PointStep, PointKnown, PointOther, PointLoad, PointStore,
                                  PointSetup, PointName, MayScan
        <4> QED BY <4>4, <4>5, <4>6, StepIs DEF Step
      <3> QED BY <2>1, <3>1, <3>2, ZenonT(30) DEF Located
    <2> QED BY <2>2, <2>3
  <1> QED BY <1>1, <1>2

LEMMA AtHomeOthers ==
  ASSUME TypeInv, Places, Mine, Settled, NEW p \in Processes, Step(p),
         NEW q \in Processes \ {p}, creator'[q], creator[q] => AtHome(q)
  PROVE  AtHome(q)'
  <1>1. proc'[q] = proc[q] /\ sound'[q] = sound[q] /\ creator[q] /\ AtHome(q)
    BY OthersStay
  <1>2. Registering(q)' <=> Registering(q)
    BY <1>1, WhereNext
  <1>3. CASE Registering(q)
    <2>1. alone[q] /\ ~settled
      BY <1>1, <1>3 DEF AtHome
    <2>2. ~Registering(p)
      BY <1>3, <2>1 DEF Mine, Own
    <2>3. ~Start(p)
      BY <1>3 DEF Start
    <2>4. Still /\ UNCHANGED <<alone, settled>>
      BY <2>2, <2>3, QuietStep
    <2> QED BY <1>1, <1>2, <2>4 DEF AtHome, Still
  <1>4. CASE ~Registering(q)
    <2>1. proc'[q].pc \notin FormatSteps
      BY <1>2, <1>4, WhereNext
    <2>2. sound[q] => Still
      BY Closed DEF Settled
    <2> QED BY <1>1, <1>2, <1>4, <2>1, <2>2 DEF AtHome, Still
  <1> QED BY <1>3, <1>4

LEMMA AtHomeNext ==
  ASSUME TypeInv, Places, Mine, Settled, NEW p \in Processes, Step(p),
         creator'[p], creator[p] => AtHome(p)
  PROVE  AtHome(p)'
  <1>t. num_alloc_prof_ \in Nat
    BY DEF TypeInv
  <1>n. \A f \in Points : f \in Nat /\ ~(f < 0)
    BY Ranges
  <1>1. CASE Start(p)
    <2>1. /\ alone'[p] /\ num_alloc_prof_ = 0
      BY <1>1 DEF Start
    <2>2. ~settled
      <3>1. settled => \E f \in Points : f < num_alloc_prof_
        BY Lengths DEF Settled, Complete, PointAt
      <3> QED BY <1>n, <2>1, <3>1
    <2>3. num_alloc_prof_' = 0 /\ ~settled' /\ proc'[p].pc = "format"
      BY <1>1, <2>1, <2>2, StartIs DEF Still
    <2> QED BY <1>n, <2>1, <2>3 DEF AtHome
  <1>2. CASE FormatStep(p) /\ ~DiesSomehow(p)
    <2>1. /\ proc[p].pc \in FormatSteps
          /\ UNCHANGED <<points, history>>
      BY <1>2, FormatStepIs
    <2>2. UNCHANGED <<num_alloc_prof_, alone, creator, settled>>
      BY <2>1 DEF points, history
    <2>3. Registering(p)
      BY <2>1, Where
    <2>4. AtHome(p)
      BY <2>2
    <2>5. alone[p] /\ ~settled /\ num_alloc_prof_ = 0
      BY <2>1, <2>3, <2>4 DEF AtHome
    <2>6. proc'[p].pc # "ready"
      BY <1>2, FormatStepIs DEF FormatStep
    <2> QED BY <1>n, <2>2, <2>5, <2>6 DEF AtHome
  <1>3. CASE PointStep(p)
    <2>1. /\ proc[p].pc \in PointSteps /\ proc'[p].addr = proc[p].addr
          /\ UNCHANGED history
      BY <1>3, PointStepIs
    <2>2. UNCHANGED <<alone, creator, settled>>
      BY <2>1 DEF history
    <2>3. Registering(p) /\ AtHome(p)
      BY <2>1, <2>2, Where
    <2>4. alone[p] /\ ~settled /\ Own(p)
      BY <2>3 DEF AtHome, Mine
    <2>5. \A f \in Points : f < num_alloc_prof_ =>
             prof_fifo_[f].ptr = proc[p].addr \/ (proc[p].pc \in SetupSteps /\ proc[p].i = f)
      BY <2>3 DEF AtHome
    <2>6. proc'[p].pc \in PointSteps \cup {"finish"}
      BY <1>3, PointStepIs DEF PointStep, PointSteps, SetupSteps
    <2>7. proc'[p].pc \notin FormatSteps \cup {"ready"}
      BY <2>6 DEF PointSteps, SetupSteps, FormatSteps
    <2>8. ASSUME NEW f \in Points, f < num_alloc_prof_'
          PROVE  \/ prof_fifo_'[f].ptr = proc'[p].addr
                 \/ proc'[p].pc \in SetupSteps /\ proc'[p].i = f
      <3>1. CASE PointKnown(p) \/ PointOther(p) \/ PointLoad(p)
        <4>1. proc[p].pc = "point" /\ UNCHANGED <<num_alloc_prof_, prof_fifo_>>
          BY <3>1 DEF PointKnown, PointOther, PointLoad, MayScan, points
        <4> QED BY <2>1, <2>5, <2>8, <4>1 DEF SetupSteps
      <3>2. CASE PointStore(p)
        <4>1. /\ num_alloc_prof_' = num_alloc_prof_ + 1 /\ proc[p].i = num_alloc_prof_
              /\ proc[p].pc = "point_store" /\ prof_fifo_' = prof_fifo_
          BY <2>4, <3>2 DEF PointStore, Own
        <4>2. proc'[p].i = proc[p].i /\ proc'[p].pc = "point_setup"
          BY <1>3, <3>2, PointStepIs
        <4>3. f < num_alloc_prof_ \/ f = num_alloc_prof_
          BY <1>n, <1>t, <2>8, <4>1
        <4>4. f < num_alloc_prof_ => prof_fifo_[f].ptr = proc[p].addr
          BY <2>5, <4>1 DEF SetupSteps
        <4> QED BY <2>1, <4>1, <4>2, <4>3, <4>4 DEF SetupSteps
      <3>3. CASE PointSetup(p) \/ PointName(p)
        <4>1. num_alloc_prof_' = num_alloc_prof_
          BY <3>3 DEF PointSetup, PointName
        <4>2. proc'[p].pc \in SetupSteps /\ proc'[p].i = proc[p].i
          BY <1>3, <3>3, PointStepIs DEF SetupSteps
        <4>3. ~MemAlloc(p)
          BY <3>3 DEF PointSetup, PointName, MemAlloc
        <4>4. prof_fifo_'[f].ptr = prof_fifo_[f].ptr
          BY <4>3, WhoWrites
        <4> QED BY <2>1, <2>5, <2>8, <4>1, <4>2, <4>4
      <3>4. CASE MemAlloc(p)
        <4>1. num_alloc_prof_' = num_alloc_prof_
          BY <3>4 DEF MemAlloc
        <4>2. f = proc[p].i => prof_fifo_'[f].ptr = proc[p].addr
          BY <3>4, AllocWrites DEF Wrote
        <4>3. f # proc[p].i => prof_fifo_'[f].ptr = prof_fifo_[f].ptr
          BY <3>4, AllocWrites DEF Wrote
        <4> QED BY <2>1, <2>5, <2>8, <4>1, <4>2, <4>3
      <3> QED BY <1>3, <3>1, <3>2, <3>3, <3>4 DEF PointStep
    <2> QED BY <2>2, <2>4, <2>7, <2>8 DEF AtHome
  <1>4. CASE Finish(p)
    <2>1. /\ proc[p].pc = "finish" /\ Still /\ UNCHANGED <<alone, creator>>
          /\ proc'[p].pc = "ready" /\ proc'[p].addr = proc[p].addr
      BY <1>4, FinishIs
    <2>2. Registering(p) /\ ~Registering(p)'
      BY <2>1, Where, WhereNext
    <2>3. \A f \in Points : f < num_alloc_prof_ => prof_fifo_[f].ptr = proc[p].addr
      BY <2>1, <2>2 DEF AtHome, SetupSteps
    <2> QED BY <2>1, <2>2, <2>3 DEF AtHome, Still, FormatSteps
  <1>5. CASE End(p) \/ DiesSomehow(p)
    <2>1. proc'[p].pc \in {"down"} \cup Dead
      BY <1>5, DiesIs, EndMoves DEF TypeInv, Down
    <2>2. ~Registering(p)'
      BY <2>1, WhereNext
    <2> QED BY <2>1, <2>2 DEF AtHome, FormatSteps, Dead
  <1>6. CASE Works(p)
    <2>1. Still /\ UNCHANGED <<proc, history>>
      BY <1>6, WorksIs DEF Works
    <2>2. UNCHANGED <<alone, creator, settled, sound>>
      BY <2>1 DEF history
    <2>3. Registering(p)' <=> Registering(p)
      BY <2>1, WhereNext
    <2> QED BY <2>1, <2>2, <2>3 DEF AtHome, Still
  <1> QED BY <1>1, <1>2, <1>3, <1>4, <1>5, <1>6, StepIs DEF Step

LEMMA HomesNext ==
  ASSUME TypeInv, Places, Mine, Settled, Homes, NEW p \in Processes, Step(p)
  PROVE  Homes'
  <1>1. Located'
    BY LocatedNext DEF Homes
  <1>2. ASSUME NEW q \in Processes, creator'[q] PROVE AtHome(q)'
    BY <1>2, AtHomeOthers, AtHomeNext DEF Homes
  <1> QED BY <1>1, <1>2 DEF Homes

(* A process that could not save its results, and why.                     *)
LEMMA StrayedStep ==
  ASSUME TypeInv, Places, Settled, HandlesRight, Homes, NEW p \in Processes, Step(p),
         proc'[p].pc = "strayed", proc'[p] # proc[p], sound'[p]
  PROVE  /\ ~creator'[p]
         /\ \E f \in Points : \/ prof_fifo_'[f].ptr \notin {NULL, proc'[p].addr}
                              \/ cut' /\ prof_fifo_'[f].ptr = NULL
  <1>1. Use(p) /\ ~Works(p)
    <2>1. proc'[p].pc \in Dead
      BY DEF Dead
    <2>2. ASSUME NEW how \in {"aborted", "overrun"}, Dies(p, how) PROVE FALSE
      BY <2>2, GotoMoves DEF Dies, TypeInv, Steps, Resting, Dead
    <2>3. ~PointAsserts(p) /\ ~Overrun(p)
      BY <2>2 DEF PointAsserts, Overrun
    <2>4. ~(FormatWrite(p) /\ ~(num_alloc_formats_ < MAX_TRACE_FORMATS))
      BY <2>2 DEF FormatWrite
    <2>5. Works(p) => proc'[p] = proc[p]
      BY DEF Works
    <2> QED BY <2>1, <2>3, <2>4, <2>5, DeathIs
  <1>2. /\ proc[p].pc = "ready" /\ proc'[p].addr = proc[p].addr
        /\ \E n \in DOMAIN PointList : prof_fifo_[proc[p].profile_id[n]].ptr # proc[p].addr
    BY <1>1, UseDeaths
  <1>3. PICK n \in DOMAIN PointList : prof_fifo_[proc[p].profile_id[n]].ptr # proc[p].addr
    BY <1>2
  <1>4. Still /\ UNCHANGED <<creator, sound>> /\ (cut => cut')
    <2>1. ~Registering(p) /\ ~Start(p)
      BY <1>2, Where DEF Start
    <2> QED BY <2>1, QuietStep
  <1>5. PICK f \in Points : f = proc[p].profile_id[n] /\ PointAt(f, PointList[n])
    BY <1>2, <1>4 DEF HandlesRight, Handles, Sure, GotPointOf, PointAt
  <1>6. prof_fifo_'[f].ptr # proc'[p].addr
    BY <1>2, <1>3, <1>4, <1>5 DEF Still
  <1>7. ~creator'[p]
    BY <1>2, <1>3, <1>4, <1>5 DEF Homes, AtHome, PointAt
  <1>8. prof_fifo_'[f].ptr = NULL => cut'
    <2>1. SUFFICES ASSUME prof_fifo_[f].ptr = NULL, ~cut PROVE FALSE
      BY <1>4 DEF Still
    <2>2. PICK q \in Processes : proc[q].pc = "point_alloc"
      BY <1>5, <2>1, Lists DEF Homes, Located, PointAt
    <2>3. Registering(q)
      BY <2>2, Where DEF PointSteps, SetupSteps
    <2>4. Finds(q)
      BY <1>4, <2>3 DEF Settled
    <2> QED BY <2>2, <2>4 DEF Finds
  <1> QED BY <1>6, <1>7, <1>8

LEMMA SavesAtHomeNext ==
  ASSUME TypeInv, Places, Settled, HandlesRight, Homes, SavesAtHome,
         NEW p \in Processes, Step(p)
  PROVE  SavesAtHome'
  <1> SUFFICES ASSUME NEW q \in Processes, proc'[q].pc = "strayed"
               PROVE  /\ ~(creator'[q] /\ sound'[q])
                      /\ sound'[q] => \E f \in Points :
                           \/ prof_fifo_'[f].ptr \notin {NULL, proc'[q].addr}
                           \/ cut' /\ prof_fifo_'[f].ptr = NULL
    BY DEF SavesAtHome
  <1>1. CASE proc'[q] # proc[q]
    <2>1. q = p
      BY <1>1, OthersStay
    <2> QED BY <1>1, <2>1, StrayedStep
  <1>2. CASE proc'[q] = proc[q]
    <2>1. (creator'[q] => creator[q]) /\ (sound'[q] => sound[q]) /\ (cut => cut')
      <3>1. CASE q # p
        BY <3>1, OthersStay
      <3>2. CASE q = p
        <4>1. ~Registering(p) /\ ~Start(p)
          BY <1>2, <3>2, Where DEF Start, Dead
        <4> QED BY <3>2, <4>1, QuietStep
      <3> QED BY <3>1, <3>2
    <2>2. sound[q] => Still
      BY Closed DEF Settled
    <2>3. /\ ~(creator[q] /\ sound[q])
          /\ sound[q] => \E f \in Points :
               \/ prof_fifo_[f].ptr \notin {NULL, proc[q].addr}
               \/ cut /\ prof_fifo_[f].ptr = NULL
      BY <1>2 DEF SavesAtHome
    <2> QED BY <1>2, <2>1, <2>2, <2>3 DEF Still
  <1> QED BY <1>1, <1>2

-----------------------------------------------------------------------------
(* Once settled, what a step does to the results that wait.                *)
LEMMA ResultsStay ==
  ASSUME TypeInv, Places, Settled, settled, NEW p \in Processes, Step(p), NEW f \in Points
  PROVE  \/ prof_fifo_[f].results \subseteq prof_fifo_'[f].results
         \/ Extract(p) \/ \E n \in DOMAIN PointList : GetProfData(p, n)
  <1>1. CASE ~Works(p)
    BY <1>1, ClosedTables
  <1>2. CASE Works(p)
    <2>1. proc[p].pc = "ready"
      BY <1>2 DEF Works
    <2>2. ~Register(p)
      BY <2>1
      DEF Register, Start, FormatKnown, FormatOther, FormatWrite, FormatLoad,
        FormatStore, PointAsserts, PointKnown, PointOther, PointLoad, PointStore, PointSetup,
        PointName, MemAlloc, Overrun, Finish, MayScan
    <2>3. CASE End(p)
      BY <2>3 DEF End, points
    <2>4. ASSUME NEW n \in DOMAIN FormatList, AddTrace(p, n)
          PROVE  prof_fifo_[f].results \subseteq prof_fifo_'[f].results
      BY <2>4 DEF AddTrace, points
    <2>5. ASSUME NEW n \in DOMAIN PointList, SaveResult(p, n)
          PROVE  prof_fifo_[f].results \subseteq prof_fifo_'[f].results
      <3> DEFINE g == proc[p].profile_id[n]
      <3>1. CASE prof_fifo_' = prof_fifo_
        BY <3>1
      <3>2. CASE prof_fifo_' = [prof_fifo_ EXCEPT ![g].results = Saved(g, n)]
        <4>1. prof_fifo_ \in [Points -> PointRecords]
          BY DEF TypeInv
        <4>2. f # g => prof_fifo_'[f] = prof_fifo_[f]
          BY <3>2, <4>1
        <4>3. f = g => prof_fifo_'[f].results = prof_fifo_[f].results \cup {PointList[n]}
          BY <3>2, <4>1 DEF Saved, PointRecords
        <4> QED BY <4>2, <4>3
      <3> QED BY <2>5, <3>1, <3>2 DEF SaveResult
    <2> QED BY <2>2, <2>3, <2>4, <2>5 DEF Step, Use
  <1> QED BY <1>1, <1>2

-----------------------------------------------------------------------------
IInv ==
  /\ TypeInv /\ Places /\ Mine /\ HandlesRight /\ Settled
  /\ SoundLives /\ Undisturbed /\ Homes

LEMMA IInvInit == Init => IInv /\ FormatsRight /\ ReportsRight /\ SavesAtHome
  <1> SUFFICES ASSUME Init PROVE IInv /\ FormatsRight /\ ReportsRight /\ SavesAtHome
    OBVIOUS
  <1>1. TypeInv /\ Places
    BY TypeInvInit
  <1>2. /\ \A p \in Processes : ~alone[p] /\ ~creator[p] /\ ~sound[p]
        /\ ~settled /\ traces = {}
    BY DEF Init
  <1>3. \A p \in Processes : proc[p].pc = "down"
    BY DEF Init, Down
  <1>4. \A p \in Processes : ~Registering(p)
    BY <1>3, Where
  <1>5. \A f \in Points : prof_fifo_[f].results = {} /\ prof_fifo_[f].name_ = ""
    BY DEF Init, NoPoint
  <1>6. Mine /\ HandlesRight /\ SoundLives
    BY <1>2 DEF Mine, HandlesRight, Sure, SoundLives
  <1>7. Settled
    BY <1>2, <1>5 DEF Settled
  <1>8. Homes
    BY <1>2, <1>5 DEF Homes, Located
  <1>9. Undisturbed
    <2>1. num_alloc_formats_ = 1 /\ num_alloc_prof_ = 0
      BY DEF Init
    <2>2. num_alloc_formats_ <= Len(FormatList) + 1 /\ num_alloc_prof_ <= Len(PointList)
      BY <2>1, Lengths
    <2>3. \A f \in Points : ~(f < num_alloc_prof_)
      BY <2>1, Ranges
    <2>4. \A p \in Processes : Counted(p)
      BY <1>3 DEF Counted, FormatSteps, SetupSteps
    <2> QED BY <1>3, <1>4, <2>1, <2>2, <2>3, <2>4 DEF Undisturbed, Orderly
  <1>10. FormatsRight /\ ReportsRight /\ SavesAtHome
    BY <1>2, <1>3, <1>5 DEF FormatsRight, ReportsRight, SavesAtHome
  <1> QED BY <1>1, <1>6, <1>7, <1>8, <1>9, <1>10 DEF IInv

LEMMA IInvNext == IInv /\ [Next]_vars => IInv'
  <1> SUFFICES ASSUME IInv, [Next]_vars PROVE IInv'
    OBVIOUS
  <1> USE DEF IInv
  <1>1. TypeInv' /\ Places'
    BY TypeInvNext
  <1>2. CASE UNCHANGED vars
    <2>1. /\ UNCHANGED <<num_alloc_formats_, trace_formats_, traces, num_alloc_prof_,
                         prof_fifo_, proc>>
          /\ UNCHANGED <<ends, alone, creator, settled, sound, cut, raced>>
      BY <1>2 DEF vars, formats, points, history
    <2>2. Mine'
      BY <2>1 DEF Mine, Own, Registering, SameFormat, SamePoint
    <2>3. HandlesRight'
      BY <2>1
      DEF HandlesRight, Handles, Sure, Registering, GotFormatOf, GotPointOf,
                  FormatAt, PointAt
    <2>4. Settled'
      BY <2>1 DEF Settled, Complete, Finds, Registering, FormatAt, PointAt
    <2>5. SoundLives'
      BY <2>1 DEF SoundLives
    <2>6. Undisturbed'
      BY <2>1 DEF Undisturbed, Orderly, Counted, SetUpOf, Registering
    <2>7. Homes'
      BY <2>1 DEF Homes, Located, AtHome, Registering
    <2> QED BY <1>1, <2>2, <2>3, <2>4, <2>5, <2>6, <2>7
  <1>3. ASSUME NEW p \in Processes, Step(p) PROVE IInv'
    BY <1>1, <1>3, MineNext, HandlesRightNext, SettledNext, SoundLivesNext,
       UndisturbedNext,
       HomesNext
  <1> QED BY <1>2, <1>3 DEF Next, Step

(* The invariant of the registration: what a process that registers alone  *)
(* counts is its own, and once one has, every name is in the tables, is    *)
(* found by whoever looks for it, and its handles stay right.              *)
THEOREM IInvAlways == Spec => []IInv
  <1>1. Init => IInv
    BY IInvInit
  <1> QED BY <1>1, IInvNext, PTL DEF Spec

(* The traces and the results of the processes that are sure of their      *)
(* handles are under the right format and the right name in every state    *)
(* that can be reached, whatever raced, ended or crashed before and since. *)
THEOREM FormatsRightAlways == Spec => []FormatsRight
  <1>1. IInv /\ FormatsRight /\ ReportsRight /\ [Next]_vars
          => FormatsRight' /\ ReportsRight'
    <2>1. ASSUME FormatsRight, ReportsRight, UNCHANGED vars
          PROVE  FormatsRight' /\ ReportsRight'
      BY <2>1 DEF FormatsRight, ReportsRight, vars, formats, points
    <2> QED BY <2>1, RightNext DEF IInv, Next, Step
  <1>2. Init => FormatsRight /\ ReportsRight
    BY IInvInit
  <1> QED BY <1>1, <1>2, IInvAlways, PTL DEF Spec

(* A result is reported under the name of the point it was measured at.    *)
THEOREM ReportsRightAlways == Spec => []ReportsRight
  <1>1. IInv /\ FormatsRight /\ ReportsRight /\ [Next]_vars
          => FormatsRight' /\ ReportsRight'
    <2>1. ASSUME FormatsRight, ReportsRight, UNCHANGED vars
          PROVE  FormatsRight' /\ ReportsRight'
      BY <2>1 DEF FormatsRight, ReportsRight, vars, formats, points
    <2> QED BY <2>1, RightNext DEF IInv, Next, Step
  <1>2. Init => FormatsRight /\ ReportsRight
    BY IInvInit
  <1> QED BY <1>1, <1>2, IInvAlways, PTL DEF Spec

(* The process that registered the points of a new group alone is never    *)
(* kept from saving its results; another sound one only by an address that *)
(* is not its own, or by a registration that was cut off before it stored  *)
(* one.                                                                    *)
THEOREM SavesAtHomeAlways == Spec => []SavesAtHome
  <1>1. IInv /\ SavesAtHome /\ [Next]_vars => SavesAtHome'
    <2>1. ASSUME SavesAtHome, UNCHANGED vars PROVE SavesAtHome'
      BY <2>1 DEF SavesAtHome, vars, formats, points, history
    <2> QED BY <2>1, SavesAtHomeNext DEF IInv, Next, Step
  <1>2. Init => SavesAtHome
    BY IInvInit
  <1> QED BY <1>1, <1>2, IInvAlways, PTL DEF Spec

(* Without a race and a registration that was cut off the tables hold each *)
(* name once, no counted point is without its chunks, and nobody dies of   *)
(* the registry; a sound process does not abort or overrun in any case.    *)
THEOREM DeathsExplainedAlways == Spec => []DeathsExplained
  <1>1. IInv => DeathsExplained
    <2> SUFFICES ASSUME IInv PROVE DeathsExplained
      OBVIOUS
    <2>1. TypeOK
      <3>1. ASSUME NEW p \in Processes
            PROVE  /\ proc[p].i \in 0 .. MAX_TRACE_FORMATS \cup 0 .. PROF_GROUP_MAX
                   /\ \A n \in DOMAIN FormatList : proc[p].trace_id[n] \in Formats \cup {-1}
                   /\ \A n \in DOMAIN PointList : proc[p].profile_id[n] \in Points \cup {-1}
        <4>1. /\ proc[p].i \in Indices
              /\ proc[p].trace_id \in [DOMAIN FormatList -> Formats \cup {-1}]
              /\ proc[p].profile_id \in [DOMAIN PointList -> Points \cup {-1}]
          BY FieldTypes DEF IInv, TypeInv
        <4> QED BY <4>1, Zenon DEF Indices
      <3> QED BY <3>1 DEF IInv, TypeInv, TypeOK, PointRecords
    <2>2. DividesOnlyIfUnfinished
      BY DEF IInv, Undisturbed, Orderly, DividesOnlyIfUnfinished
    <2>3. OverrunOnlyIfRaced
      <3>t. /\ num_alloc_formats_ \in Nat /\ num_alloc_prof_ \in Nat
            /\ Len(FormatList) \in Nat /\ Len(PointList) \in Nat
        BY Lengths DEF IInv, TypeInv
      <3>1. ~cut /\ ~raced => /\ num_alloc_formats_ <= Len(FormatList) + 1
                             /\ num_alloc_prof_ <= Len(PointList)
        BY DEF IInv, Undisturbed, Orderly
      <3> QED BY <3>t, <3>1 DEF IInv, SoundLives, OverrunOnlyIfRaced
    <2> QED BY <2>1, <2>2, <2>3 DEF DeathsExplained
  <1> QED BY <1>1, IInvAlways, PTL

(* From the first registration without another beside it on, no step       *)
(* writes a name, a count, the chunks or the address of a point, and only  *)
(* a report takes the last of its results.                                 *)
THEOREM RegistryKeptAlways == Spec => RegistryKept
  <1> DEFINE Kept(f) ==
        /\ UNCHANGED <<prof_fifo_[f].name_, prof_fifo_[f].chunks, prof_fifo_[f].ptr>>
        /\ \/ prof_fifo_[f].results \subseteq prof_fifo_'[f].results
           \/ \E p \in Processes :
                Extract(p) \/ \E n \in DOMAIN PointList : GetProfData(p, n)
  <1>1. ASSUME IInv, settled, NEW p \in Processes, Step(p)
        PROVE  UNCHANGED <<formats, num_alloc_prof_>> /\ \A f \in Points : Kept(f)
    <2>1. Still
      BY <1>1, Closed DEF IInv
    <2> QED BY <1>1, <2>1, ResultsStay DEF IInv, Still
  <1>2. IInv /\ [Next]_vars =>
          [settled => UNCHANGED <<formats, num_alloc_prof_>> /\ \A f \in Points : Kept(f)]_vars
    BY <1>1 DEF Next, Step
  <1> QED BY <1>2, IInvAlways, PTL DEF Spec, RegistryKept

=============================================================================
