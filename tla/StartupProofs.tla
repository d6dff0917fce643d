--------------------------- MODULE StartupProofs ----------------------------
(***************************************************************************)
(* Theorems about the start of processes and the registration of groups    *)
(* and counters, for any number of processes, any lists and any tables.    *)
(***************************************************************************)
EXTENDS Startup, SequenceTheorems, TLAPS

FileSteps == {"attach", "create", "truncate", "wipe", "reset", "start"}
GroupSteps == {"groups", "group_init"}
EventSteps == {"events", "event_count"}
Registering(p) == pc[p] \notin Resting

(* Has p got the index of group n, the place of counter e?                 *)
GotGroup(p, n) ==
  \/ pc[p] \in GroupSteps /\ n < k[p]
  \/ pc[p] \in EventSteps \cup {"finish", "ready"}
GotEvent(p, e) ==
  \/ pc[p] \in EventSteps /\ e < k[p]
  \/ pc[p] \in {"finish", "ready"}

(* Where a process is in its lists and in the tables.                      *)
Placed(p) ==
  /\ pc[p] \in {"down"} \cup FileSteps => k[p] = 1 /\ i[p] = 0
  /\ pc[p] \in GroupSteps => k[p] \in DOMAIN GroupList /\ i[p] \in 0 .. MAX_GROUP_NUM
  /\ pc[p] \in EventSteps => k[p] \in DOMAIN EventList /\ i[p] \in 0 .. NUM_COUNTERS
  /\ pc[p] = "event_count" => i[p] \in Places
  /\ Registering(p) /\ pc[p] \notin {"attach", "create", "truncate"} => size = "full"
  /\ \A n \in DOMAIN GroupList : GotGroup(p, n) => group_indexes[p][n] \in Indices
  /\ \A e \in DOMAIN EventList : GotEvent(p, e) => event_cnt[p][e] \in Places
AllPlaced == \A p \in Processes : Placed(p)

(* The place where a scan of the table finds a name.                       *)
FirstGroup(g, x) ==
  /\ g \in Indices /\ g < num_alloc_groups_ /\ group_name_[g] = x
  /\ \A h \in Indices : h < g => group_name_[h] # x
FirstCounter(g, c, x) ==
  /\ c \in Places /\ c < num_alloc_counters_[g] /\ rt_counters_[g][c].cnt_name = x
  /\ \A d \in Places : d < c => rt_counters_[g][d].cnt_name # x

(* What a process that starts alone has passed does not have the name, and *)
(* what it is about to fill or to count is its own.                        *)
NotBefore(p) ==
  /\ pc[p] \in GroupSteps =>
       \A h \in Indices : h < i[p] => group_name_[h] # GroupList[k[p]]
  /\ pc[p] \in EventSteps =>
       \A d \in Places : d < i[p] =>
         rt_counters_[InGroup(p)][d].cnt_name # EventList[k[p]].name
Exact(p) ==
  /\ NotBefore(p)
  /\ pc[p] = "groups" => i[p] <= num_alloc_groups_
  /\ pc[p] = "group_init" => i[p] + 1 = num_alloc_groups_
  /\ pc[p] = "events" => i[p] <= num_alloc_counters_[InGroup(p)]
  /\ pc[p] = "event_count" =>
       /\ i[p] = num_alloc_counters_[InGroup(p)]
       /\ EventFound(p)
Own(p) == Exact(p) /\ \A q \in Processes : Registering(q) => q = p
Mine == \A p \in Processes : alone[p] /\ Registering(p) => Own(p)

(* The handles of a process that starts alone, or did, or began after one  *)
(* that did.                                                               *)
Sure(p) == sound[p] \/ (alone[p] /\ Registering(p))
Handles(p) ==
  /\ \A n \in DOMAIN GroupList :
       GotGroup(p, n) =>
         /\ FirstGroup(group_indexes[p][n], GroupList[n])
         /\ pc[p] = "group_init" => group_indexes[p][n] < i[p]
  /\ \A e \in DOMAIN EventList :
       GotEvent(p, e) => FirstCounter(Group(p, e), event_cnt[p][e], EventList[e].name)
HandlesRight == \A p \in Processes : Sure(p) => Handles(p)

(* Once a process has started alone, every name is there and is found.     *)
Complete ==
  /\ \A n \in DOMAIN GroupList : \E g \in Indices : FirstGroup(g, GroupList[n])
  /\ \A e \in DOMAIN EventList : \A g \in Indices :
       FirstGroup(g, GroupList[EventList[e].group]) =>
         \E c \in Places : FirstCounter(g, c, EventList[e].name)
Finds(p) ==
  /\ sound[p] /\ pc[p] \in {"attach", "groups", "events", "finish"}
  /\ pc[p] = "groups" =>
       \E g \in Indices : g >= i[p] /\ FirstGroup(g, GroupList[k[p]])
  /\ pc[p] = "events" =>
       \E c \in Places : c >= i[p] /\ FirstCounter(InGroup(p), c, EventList[k[p]].name)
Settled ==
  /\ \A p \in Processes : sound[p] => settled
  /\ settled => /\ size = "full" /\ Complete
                /\ \A p \in Processes : Registering(p) => Finds(p)

(* Until a first start is done that raced with none and did not crash, the *)
(* table holds the names from the first of the list on, in its order.      *)
InOrder(g) == g + 1 \in DOMAIN GroupList /\ group_name_[g] = GroupList[g + 1] /\ setup[g]
Orderly ==
  /\ num_alloc_groups_ <= Len(GroupList)
  /\ \A g \in Indices : g < num_alloc_groups_ =>
       InOrder(g) \/ \E p \in Processes : pc[p] = "group_init" /\ i[p] = g
  /\ ~settled => \A p \in Processes :
       /\ Registering(p) => alone[p]
       /\ pc[p] = "groups" => i[p] < k[p] /\ k[p] <= num_alloc_groups_ + 1
       /\ pc[p] = "group_init" => i[p] + 1 = k[p] /\ k[p] = num_alloc_groups_
IInv ==
  /\ TypeOK /\ AllPlaced /\ Mine /\ HandlesRight /\ Settled /\ StartsSucceed
  /\ clean => Orderly

-----------------------------------------------------------------------------
LEMMA Sizes ==
  /\ MAX_GROUP_NUM \in Nat \ {0} /\ NUM_COUNTERS \in Nat \ {0}
  /\ \A m, n \in DOMAIN GroupList : GroupList[m] = GroupList[n] => m = n
  BY StartupAssumption, GroupNamesAssumption

LEMMA Ranges ==
  /\ \A g : g \in Indices <=> g \in Nat /\ g < MAX_GROUP_NUM
  /\ \A c : c \in Places <=> c \in Nat /\ c < NUM_COUNTERS
  BY Sizes DEF Indices, Places

LEMMA Lists ==
  /\ Len(GroupList) \in Nat \ {0} /\ DOMAIN GroupList = 1 .. Len(GroupList)
  /\ Len(EventList) \in Nat \ {0} /\ DOMAIN EventList = 1 .. Len(EventList)
  /\ \A e \in DOMAIN EventList : EventList[e].group \in DOMAIN GroupList
  <1>1. /\ GroupList \in Seq(STRING) /\ GroupList # << >>
        /\ EventList \in Seq([group : DOMAIN GroupList, name : STRING])
        /\ EventList # << >>
    BY StartupAssumption
  <1>2. /\ Len(GroupList) \in Nat /\ DOMAIN GroupList = 1 .. Len(GroupList)
    BY <1>1, LenProperties
  <1>3. Len(EventList) \in Nat /\ DOMAIN EventList = 1 .. Len(EventList)
    BY <1>1, LenProperties
  <1>4. Len(GroupList) # 0
    BY <1>1, EmptySeq
  <1>5. Len(EventList) # 0
    BY <1>1, EmptySeq
  <1>6. \A e \in DOMAIN EventList :
          EventList[e] \in [group : DOMAIN GroupList, name : STRING]
    BY <1>1, <1>3, ElementOfSeq
  <1> QED BY <1>2, <1>3, <1>4, <1>5, <1>6

LEMMA Lengths ==
  /\ Len(GroupList) \in Nat \ {0} /\ Len(EventList) \in Nat \ {0}
  /\ \A n : n \in DOMAIN GroupList <=> n \in Nat /\ 1 <= n /\ n <= Len(GroupList)
  /\ \A e : e \in DOMAIN EventList <=> e \in Nat /\ 1 <= e /\ e <= Len(EventList)
  /\ 1 \in DOMAIN GroupList /\ 1 \in DOMAIN EventList
  BY Lists
-----------------------------------------------------------------------------
(***************************************************************************)
(* Types                                                                   *)
(***************************************************************************)
Counters == [cnt_name : EventNames, val : {-1, 0, 1}]
Turns == 0 .. MAX_GROUP_NUM \cup 0 .. NUM_COUNTERS
Turned == DOMAIN GroupList \cup DOMAIN EventList
Steps == Resting \cup FileSteps \cup GroupSteps \cup EventSteps \cup {"finish"}

FileTyped ==
  /\ size \in {"none", "empty", "full"} /\ active_ \in BOOLEAN
  /\ num_alloc_groups_ \in Nat
  /\ group_name_ \in [Indices -> NamesOf(GroupList)]
  /\ setup \in [Indices -> BOOLEAN]
  /\ num_alloc_counters_ \in [Indices -> Nat]
  /\ rt_counters_ \in [Indices -> [Places -> Counters]]
LocalsTyped ==
  /\ pc \in [Processes -> Steps]
  /\ k \in [Processes -> Turned] /\ i \in [Processes -> Turns]
  /\ group_indexes \in [Processes -> [DOMAIN GroupList -> Indices \cup {-1}]]
  /\ event_cnt \in [Processes -> [DOMAIN EventList -> Places \cup {-1}]]
HistoryTyped ==
  /\ settled \in BOOLEAN /\ clean \in BOOLEAN
  /\ alone \in [Processes -> BOOLEAN] /\ sound \in [Processes -> BOOLEAN]

LEMMA TypesAre == TypeOK <=> FileTyped /\ LocalsTyped /\ HistoryTyped
  BY DEF TypeOK, FileTyped, LocalsTyped, HistoryTyped, Counters, Turns, Turned,
         Steps, Resting, FileSteps, GroupSteps, EventSteps

LEMMA TurnTypes ==
  /\ \A x \in Turned : x \in Nat \ {0}
  /\ \A x \in Turns : x \in Nat
  /\ 1 \in Turned /\ 0 \in Turns
  /\ DOMAIN GroupList \subseteq Turned /\ DOMAIN EventList \subseteq Turned
  /\ \A x : x \in 0 .. MAX_GROUP_NUM => x \in Turns
  /\ \A x : x \in 0 .. NUM_COUNTERS => x \in Turns
  BY Sizes, Lengths DEF Turned, Turns

LEMMA FieldTypes ==
  ASSUME LocalsTyped, NEW p \in Processes
  PROVE  /\ pc[p] \in Steps /\ k[p] \in Nat \ {0} /\ i[p] \in Nat
         /\ k[p] \in Turned /\ i[p] \in Turns
         /\ group_indexes[p] \in [DOMAIN GroupList -> Indices \cup {-1}]
         /\ event_cnt[p] \in [DOMAIN EventList -> Places \cup {-1}]
  <1>1. /\ pc[p] \in Steps /\ k[p] \in Turned /\ i[p] \in Turns
        /\ group_indexes[p] \in [DOMAIN GroupList -> Indices \cup {-1}]
        /\ event_cnt[p] \in [DOMAIN EventList -> Places \cup {-1}]
    BY DEF LocalsTyped
  <1> QED BY <1>1, TurnTypes

LEMMA NameWritten ==
  ASSUME rt_counters_ \in [Indices -> [Places -> Counters]],
         NEW g \in Indices, NEW c \in Places, NEW x \in EventNames,
         rt_counters_' = [rt_counters_ EXCEPT ![g][c].cnt_name = x]
  PROVE  /\ rt_counters_' \in [Indices -> [Places -> Counters]]
         /\ rt_counters_'[g][c].cnt_name = x
         /\ \A h \in Indices, d \in Places :
              h # g \/ d # c => rt_counters_'[h][d] = rt_counters_[h][d]
  <1> DEFINE r == [rt_counters_[g][c] EXCEPT !.cnt_name = x]
             f == [rt_counters_[g] EXCEPT ![c] = r]
  <1>1. rt_counters_[g] \in [Places -> Counters]
    OBVIOUS
  <1>2. rt_counters_[g][c] \in Counters
    BY <1>1
  <1>3. r \in Counters /\ r.cnt_name = x
    BY <1>2 DEF Counters
  <1>4. rt_counters_' = [rt_counters_ EXCEPT ![g] = f]
    BY DEF f, r
  <1> HIDE DEF r
  <1>5. f \in [Places -> Counters] /\ f[c] = r
        /\ \A d \in Places : d # c => f[d] = rt_counters_[g][d]
    BY <1>1, <1>3
  <1> HIDE DEF f
  <1>6. rt_counters_' \in [Indices -> [Places -> Counters]] /\ rt_counters_'[g] = f
        /\ \A h \in Indices : h # g => rt_counters_'[h] = rt_counters_[h]
    BY <1>4, <1>5
  <1> QED BY <1>3, <1>5, <1>6

(* The application writes one value and no name.                           *)
LEMMA ValueWritten ==
  ASSUME rt_counters_ \in [Indices -> [Places -> Counters]],
         NEW p \in Processes, NEW e \in DOMAIN EventList, SetCounter(p, e),
         Group(p, e) \in Indices, event_cnt[p][e] \in Places
  PROVE  /\ rt_counters_' \in [Indices -> [Places -> Counters]]
         /\ rt_counters_'[Group(p, e)][event_cnt[p][e]] =
              [cnt_name |-> rt_counters_[Group(p, e)][event_cnt[p][e]].cnt_name,
               val |-> 1]
         /\ \A h \in Indices, d \in Places :
              h # Group(p, e) \/ d # event_cnt[p][e] =>
                rt_counters_'[h][d] = rt_counters_[h][d]
  <1> DEFINE g == Group(p, e)
             c == event_cnt[p][e]
             r == [rt_counters_[g][c] EXCEPT !.val = 1]
             f == [rt_counters_[g] EXCEPT ![c] = r]
  <1>1. rt_counters_[g] \in [Places -> Counters]
    OBVIOUS
  <1>2. rt_counters_[g][c] \in Counters
    BY <1>1
  <1>3. r \in Counters /\ r = [cnt_name |-> rt_counters_[g][c].cnt_name, val |-> 1]
    BY <1>2 DEF Counters
  <1>4. rt_counters_' = [rt_counters_ EXCEPT ![g] = f]
    BY DEF SetCounter, f, r
  <1> HIDE DEF r
  <1>5. f \in [Places -> Counters] /\ f[c] = r
        /\ \A d \in Places : d # c => f[d] = rt_counters_[g][d]
    BY <1>1, <1>3
  <1> HIDE DEF f
  <1>6. rt_counters_' \in [Indices -> [Places -> Counters]] /\ rt_counters_'[g] = f
        /\ \A h \in Indices : h # g => rt_counters_'[h] = rt_counters_[h]
    BY <1>4, <1>5
  <1> QED BY <1>3, <1>5, <1>6

LEMMA FreeTyped ==
  /\ NoCounter \in Counters /\ FreeCounter \in Counters
  /\ [c \in Places |-> FreeCounter] \in [Places -> Counters]
  /\ [c \in Places |-> NoCounter] \in [Places -> Counters]
  BY DEF NoCounter, FreeCounter, Counters, EventNames

LEMMA TypesInit == Init => TypeOK /\ AllPlaced
  <1> SUFFICES ASSUME Init PROVE TypeOK /\ AllPlaced
    OBVIOUS
  <1>1. FileTyped
    BY FreeTyped DEF Init, FileTyped, NamesOf
  <1>2. LocalsTyped
    BY TurnTypes DEF Init, LocalsTyped, Steps, Resting, NoGroups, NoEvents
  <1>3. HistoryTyped
    BY DEF Init, HistoryTyped
  <1>4. AllPlaced
    BY DEF Init, AllPlaced, Placed, Registering, Resting, FileSteps, GroupSteps,
           EventSteps, GotGroup, GotEvent
  <1> QED BY <1>1, <1>2, <1>3, <1>4, TypesAre

LEMMA GotoIs ==
  ASSUME LocalsTyped, NEW p \in Processes, NEW to \in Steps, Goto(p, to)
  PROVE  /\ pc' \in [Processes -> Steps] /\ pc'[p] = to
         /\ \A q \in Processes : q # p => pc'[q] = pc[q]
  BY DEF LocalsTyped, Goto

LEMMA AdvanceIs ==
  ASSUME LocalsTyped, NEW p \in Processes, NEW list,
         list = GroupList \/ list = EventList,
         NEW here \in Steps, NEW next \in Steps, Advance(p, list, here, next)
  PROVE  /\ pc' \in [Processes -> Steps] /\ i' \in [Processes -> Turns]
         /\ i'[p] = 0
         /\ k[p] < Len(list) => k'[p] = k[p] + 1 /\ pc'[p] = here
         /\ ~(k[p] < Len(list)) => k'[p] = 1 /\ pc'[p] = next
         /\ \A q \in Processes :
              q # p => pc'[q] = pc[q] /\ k'[q] = k[q] /\ i'[q] = i[q]
         /\ k[p] \in DOMAIN list => k' \in [Processes -> Turned]
  <1>1. /\ i' = [i EXCEPT ![p] = 0]
        /\ i \in [Processes -> Turns] /\ k \in [Processes -> Turned]
        /\ pc \in [Processes -> Steps]
    BY DEF Advance, LocalsTyped
  <1>2. CASE k[p] < Len(list)
    <2>1. k' = [k EXCEPT ![p] = k[p] + 1] /\ pc' = [pc EXCEPT ![p] = here]
      BY <1>2 DEF Advance, Goto
    <2>2. ASSUME k[p] \in DOMAIN list PROVE k[p] + 1 \in Turned
      BY <1>2, <2>2, Lengths, TurnTypes
    <2> QED BY <1>1, <1>2, <2>1, <2>2, TurnTypes
  <1>3. CASE ~(k[p] < Len(list))
    <2>1. k' = [k EXCEPT ![p] = 1] /\ pc' = [pc EXCEPT ![p] = next]
      BY <1>3 DEF Advance, Goto
    <2> QED BY <1>1, <1>3, <2>1, TurnTypes
  <1> QED BY <1>2, <1>3

(* Processes other than p stay where they are.                             *)
Stays(q) ==
  /\ pc'[q] = pc[q] /\ k'[q] = k[q] /\ i'[q] = i[q]
  /\ group_indexes'[q] = group_indexes[q] /\ event_cnt'[q] = event_cnt[q]
  /\ sound'[q] = sound[q] /\ (alone'[q] => alone[q])

(* A step within a list, and one that is not.                              *)
ListStep(p) ==
  \/ GroupKnown(p) \/ GroupOther(p) \/ GroupCount(p) \/ GroupInit(p)
  \/ EventKnown(p) \/ EventOther(p) \/ EventName(p) \/ EventCount(p)
OtherStep(p) ==
  \/ RT_debug_init(p) \/ Attach(p) \/ Create(p) \/ Truncate(p) \/ Wipe(p)
  \/ ResetGroups(p) \/ RTDBG_Start(p) \/ GetDebugGrpAsserts(p) \/ Overrun(p)
  \/ Finish(p) \/ (\E e \in DOMAIN EventList : SetCounter(p, e)) \/ Crash(p)

LEMMA StepIs ==
  \A p \in Processes : Step(p) <=> ListStep(p) \/ OtherStep(p)
  BY DEF Step, ListStep, OtherStep

LEMMA OthersStay ==
  ASSUME TypeOK, NEW p \in Processes, Step(p)
  PROVE  \A q \in Processes : q # p => Stays(q)
  <1> SUFFICES ASSUME NEW q \in Processes, q # p PROVE Stays(q)
    OBVIOUS
  <1> USE DEF Stays
  <1>0. LocalsTyped /\ HistoryTyped
    BY TypesAre
  <1>1. /\ "groups" \in Steps /\ "events" \in Steps /\ "finish" \in Steps
    BY DEF Steps, GroupSteps, EventSteps
  <1>2. /\ group_indexes \in [Processes -> [DOMAIN GroupList -> Indices \cup {-1}]]
        /\ event_cnt \in [Processes -> [DOMAIN EventList -> Places \cup {-1}]]
        /\ pc \in [Processes -> Steps] /\ i \in [Processes -> Turns]
        /\ k \in [Processes -> Turned] /\ sound \in [Processes -> BOOLEAN]
        /\ alone \in [Processes -> BOOLEAN]
    BY <1>0 DEF LocalsTyped, HistoryTyped
  <1>3. CASE GroupKnown(p)
    <2>1. /\ Advance(p, GroupList, "groups", "events")
          /\ group_indexes' = [group_indexes EXCEPT ![p][k[p]] = i[p]]
          /\ UNCHANGED <<event_cnt, sound, alone>>
      BY <1>3 DEF GroupKnown, history
    <2>2. pc'[q] = pc[q] /\ k'[q] = k[q] /\ i'[q] = i[q]
      BY <1>0, <1>1, <2>1, AdvanceIs
    <2> QED BY <1>2, <2>1, <2>2
  <1>4. CASE GroupInit(p)
    <2>1. /\ Advance(p, GroupList, "groups", "events")
          /\ group_indexes' = [group_indexes EXCEPT ![p][k[p]] = i[p]]
          /\ UNCHANGED <<event_cnt, sound, alone>>
      BY <1>4 DEF GroupInit, history
    <2>2. pc'[q] = pc[q] /\ k'[q] = k[q] /\ i'[q] = i[q]
      BY <1>0, <1>1, <2>1, AdvanceIs
    <2> QED BY <1>2, <2>1, <2>2
  <1>5. CASE EventKnown(p)
    <2>1. /\ Advance(p, EventList, "events", "finish")
          /\ event_cnt' = [event_cnt EXCEPT ![p][k[p]] = i[p]]
          /\ UNCHANGED <<group_indexes, sound, alone>>
      BY <1>5 DEF EventKnown, history
    <2>2. pc'[q] = pc[q] /\ k'[q] = k[q] /\ i'[q] = i[q]
      BY <1>0, <1>1, <2>1, AdvanceIs
    <2> QED BY <1>2, <2>1, <2>2
  <1>6. CASE EventCount(p)
    <2>1. /\ Advance(p, EventList, "events", "finish")
          /\ event_cnt' = [event_cnt EXCEPT ![p][k[p]] = i[p]]
          /\ UNCHANGED <<group_indexes, sound, alone>>
      BY <1>6 DEF EventCount, history
    <2>2. pc'[q] = pc[q] /\ k'[q] = k[q] /\ i'[q] = i[q]
      BY <1>0, <1>1, <2>1, AdvanceIs
    <2> QED BY <1>2, <2>1, <2>2
  <1>7. CASE GroupOther(p) \/ EventOther(p)
    BY <1>2, <1>7 DEF GroupOther, EventOther, history
  <1>8. CASE GroupCount(p)
    BY <1>2, <1>8 DEF GroupCount, history, locals, Goto
  <1>9. CASE EventName(p)
    BY <1>2, <1>9 DEF EventName, history, locals, Goto
  <1>10. CASE RT_debug_init(p)
    <2>1. alone' = [r \in Processes |->
                 IF r = p THEN \A s \in Processes : pc[s] \in Resting
                          ELSE alone[r] /\ pc[r] \in Resting]
      BY <1>10 DEF RT_debug_init
    <2>2. alone'[q] => alone[q]
      BY <2>1, <1>2
    <2> QED BY <1>2, <1>10, <2>2 DEF RT_debug_init, locals, Goto
  <1>11. CASE \/ Attach(p) \/ Create(p) \/ Truncate(p) \/ Wipe(p) \/ ResetGroups(p)
              \/ RTDBG_Start(p) \/ GetDebugGrpAsserts(p)
    BY <1>2, <1>11
    DEF Attach, Create, Truncate, Wipe, ResetGroups, RTDBG_Start,
        GetDebugGrpAsserts, locals, history, Goto
  <1>12. CASE Overrun(p) \/ Finish(p)
    BY <1>2, <1>12 DEF Overrun, Finish, locals, Goto
  <1>13. CASE Crash(p)
    BY <1>2, <1>13 DEF Crash, Goto
  <1>14. CASE \E e \in DOMAIN EventList : SetCounter(p, e)
    BY <1>14 DEF SetCounter, locals, history
  <1> QED
    BY <1>3, <1>4, <1>5, <1>6, <1>7, <1>8, <1>9, <1>10, <1>11, <1>12, <1>13,
       <1>14
    DEF Step

(* A process that registers counters has its groups.                       *)
LEMMA GroupsGot ==
  ASSUME AllPlaced, NEW p \in Processes
  PROVE  /\ pc[p] \in EventSteps =>
              InGroup(p) \in Indices /\ k[p] \in DOMAIN EventList /\ i[p] \in Nat
         /\ pc[p] \in {"finish", "ready"} => \A e \in DOMAIN EventList :
              Group(p, e) \in Indices /\ event_cnt[p][e] \in Places
  <1>1. Placed(p)
    BY DEF AllPlaced
  <1>2. ASSUME pc[p] \in EventSteps
        PROVE  InGroup(p) \in Indices /\ k[p] \in DOMAIN EventList /\ i[p] \in Nat
    <2>1. k[p] \in DOMAIN EventList /\ i[p] \in 0 .. NUM_COUNTERS
      BY <1>1, <1>2 DEF Placed
    <2>2. EventList[k[p]].group \in DOMAIN GroupList
      BY <2>1, Lists
    <2>3. GotGroup(p, EventList[k[p]].group)
      BY <1>2 DEF GotGroup
    <2>4. group_indexes[p][EventList[k[p]].group] \in Indices
      BY <1>1, <2>2, <2>3 DEF Placed
    <2> QED BY <2>1, <2>4, Sizes DEF InGroup, Group
  <1>3. ASSUME pc[p] \in {"finish", "ready"}, NEW e \in DOMAIN EventList
        PROVE  Group(p, e) \in Indices /\ event_cnt[p][e] \in Places
    <2>1. EventList[e].group \in DOMAIN GroupList
      BY Lists
    <2>2. GotGroup(p, EventList[e].group) /\ GotEvent(p, e)
      BY <1>3 DEF GotGroup, GotEvent
    <2> QED BY <1>1, <2>1, <2>2 DEF Placed, Group
  <1> QED BY <1>2, <1>3

LEMMA FileTypesNext ==
  ASSUME TypeOK, AllPlaced, NEW p \in Processes, Step(p)
  PROVE  FileTyped'
  <1>1. FileTyped /\ LocalsTyped
    BY TypesAre
  <1>2. /\ size \in {"none", "empty", "full"} /\ active_ \in BOOLEAN
        /\ num_alloc_groups_ \in Nat
        /\ group_name_ \in [Indices -> NamesOf(GroupList)]
        /\ setup \in [Indices -> BOOLEAN]
        /\ num_alloc_counters_ \in [Indices -> Nat]
        /\ rt_counters_ \in [Indices -> [Places -> Counters]]
    BY <1>1 DEF FileTyped
  <1>3. Placed(p)
    BY DEF AllPlaced
  <1> USE DEF FileTyped
  <1>4. CASE \/ RT_debug_init(p) \/ Attach(p) \/ GroupKnown(p) \/ GroupOther(p)
             \/ GetDebugGrpAsserts(p) \/ EventKnown(p) \/ EventOther(p)
             \/ Overrun(p) \/ Crash(p)
    BY <1>2, <1>4
    DEF RT_debug_init, Attach, GroupKnown, GroupOther, GetDebugGrpAsserts,
        EventKnown, EventOther, Overrun, Crash, file
  <1>5. CASE Create(p) \/ Truncate(p) \/ RTDBG_Start(p) \/ Finish(p)
    BY <1>2, <1>5 DEF Create, Truncate, RTDBG_Start, Finish, file
  <1>6. CASE Wipe(p) \/ GroupCount(p)
    <2>1. num_alloc_groups_' = 0 \/ num_alloc_groups_' = num_alloc_groups_ + 1
      BY <1>6 DEF Wipe, GroupCount
    <2>2. num_alloc_groups_' \in Nat
      BY <1>2, <2>1
    <2>3. active_' \in BOOLEAN
      BY <1>2, <1>6 DEF Wipe, GroupCount
    <2> QED BY <1>2, <1>6, <2>2, <2>3 DEF Wipe, GroupCount
  <1>7. CASE ResetGroups(p)
    BY <1>2, <1>7, FreeTyped DEF ResetGroups
  <1>8. CASE GroupInit(p)
    <2>1. i[p] \in Indices /\ k[p] \in DOMAIN GroupList
      BY <1>3, <1>8 DEF GroupInit, Placed, GroupSteps
    <2>2. GroupList[k[p]] \in NamesOf(GroupList)
      BY <2>1 DEF NamesOf
    <2>3. /\ setup' = [setup EXCEPT ![i[p]] = TRUE]
          /\ num_alloc_counters_' = [num_alloc_counters_ EXCEPT ![i[p]] = 0]
          /\ rt_counters_' =
               [rt_counters_ EXCEPT ![i[p]] = [c \in Places |-> FreeCounter]]
          /\ group_name_' = [group_name_ EXCEPT ![i[p]] = GroupList[k[p]]]
          /\ UNCHANGED <<size, active_, num_alloc_groups_>>
      BY <1>8 DEF GroupInit
    <2> QED BY <1>2, <2>1, <2>2, <2>3, FreeTyped
  <1>9. CASE EventName(p)
    <2>1. pc[p] \in EventSteps
      BY <1>9 DEF EventName, MayScan, EventSteps
    <2>2. InGroup(p) \in Indices /\ k[p] \in DOMAIN EventList /\ i[p] \in Nat
      BY <2>1, GroupsGot
    <2>3. EventList[k[p]].name \in EventNames
      BY <2>2 DEF EventNames
    <2>4. rt_counters_' \in [Indices -> [Places -> Counters]]
      <3>1. CASE num_alloc_counters_[InGroup(p)] < NUM_COUNTERS - 1
        <4>1. i[p] \in Places
          BY <3>1, <2>2, <1>2, <1>9, Sizes DEF EventName
        <4>2. rt_counters_' = [rt_counters_ EXCEPT
                ![InGroup(p)][i[p]].cnt_name = EventList[k[p]].name]
          BY <3>1, <1>9 DEF EventName
        <4> QED BY <1>2, <2>2, <2>3, <4>1, <4>2, NameWritten
      <3>2. CASE ~(num_alloc_counters_[InGroup(p)] < NUM_COUNTERS - 1)
        BY <1>2, <3>2, <1>9 DEF EventName
      <3> QED BY <3>1, <3>2
    <2> QED BY <1>2, <1>9, <2>4 DEF EventName
  <1>10. CASE EventCount(p)
    <2>1. InGroup(p) \in Indices
      BY <1>10, GroupsGot DEF EventCount, EventSteps
    <2> QED BY <1>2, <1>10, <2>1 DEF EventCount
  <1>11. ASSUME NEW e \in DOMAIN EventList, SetCounter(p, e)
         PROVE  FileTyped'
    <2>1. Group(p, e) \in Indices /\ event_cnt[p][e] \in Places
      BY <1>11, GroupsGot DEF SetCounter
    <2>2. rt_counters_ \in [Indices -> [Places -> Counters]]
      BY <1>2
    <2>3. rt_counters_' \in [Indices -> [Places -> Counters]]
      BY <1>11, <2>1, <2>2, ValueWritten
    <2> QED BY <1>2, <1>11, <2>3 DEF SetCounter
  <1> QED
    BY <1>4, <1>5, <1>6, <1>7, <1>8, <1>9, <1>10, <1>11 DEF Step

LEMMA HistoryTypesNext ==
  ASSUME HistoryTyped, NEW p \in Processes, Step(p)
  PROVE  HistoryTyped'
  <1>1. /\ settled \in BOOLEAN /\ clean \in BOOLEAN
        /\ alone \in [Processes -> BOOLEAN] /\ sound \in [Processes -> BOOLEAN]
    BY DEF HistoryTyped
  <1> USE DEF HistoryTyped
  <1>2. CASE \/ Attach(p) \/ Create(p) \/ Truncate(p) \/ Wipe(p) \/ ResetGroups(p)
             \/ RTDBG_Start(p) \/ GetDebugGrpAsserts(p) \/ ListStep(p)
             \/ \E e \in DOMAIN EventList : SetCounter(p, e)
    BY <1>1, <1>2
    DEF Attach, Create, Truncate, Wipe, ResetGroups, RTDBG_Start,
        GetDebugGrpAsserts, ListStep, GroupKnown, GroupOther, GroupCount,
        GroupInit, EventKnown, EventOther, EventName, EventCount, SetCounter,
        history
  <1>3. CASE RT_debug_init(p)
    <2>1. alone' \in [Processes -> BOOLEAN]
      <3>1. alone' = [r \in Processes |->
                 IF r = p THEN \A s \in Processes : pc[s] \in Resting
                          ELSE alone[r] /\ pc[r] \in Resting]
        BY <1>3 DEF RT_debug_init
      <3> QED BY <3>1, Zenon
    <2>2. clean' \in BOOLEAN
      BY <1>3 DEF RT_debug_init
    <2> QED BY <1>1, <1>3, <2>1, <2>2 DEF RT_debug_init
  <1>4. CASE Overrun(p)
    BY <1>1, <1>4 DEF Overrun
  <1>5. CASE Finish(p)
    <2>1. sound[p] \/ alone[p] \in BOOLEAN
      OBVIOUS
    <2> QED BY <1>1, <1>5 DEF Finish
  <1>6. CASE Crash(p)
    <2>1. clean' \in BOOLEAN
      BY <1>6 DEF Crash
    <2> QED BY <1>1, <1>6, <2>1 DEF Crash
  <1> QED BY <1>2, <1>3, <1>4, <1>5, <1>6, StepIs DEF OtherStep

(* p has found or made its group, its counter, and goes on.                *)
TookGroup(p) ==
  /\ i'[p] = 0
  /\ group_indexes'[p] = [group_indexes[p] EXCEPT ![k[p]] = i[p]]
  /\ event_cnt'[p] = event_cnt[p]
  /\ \/ pc'[p] = "groups" /\ k'[p] = k[p] + 1 /\ k'[p] \in DOMAIN GroupList
     \/ pc'[p] = "events" /\ k'[p] = 1 /\ k[p] = Len(GroupList)
  /\ \A n \in DOMAIN GroupList : GotGroup(p, n)' <=> GotGroup(p, n) \/ n = k[p]
  /\ \A e \in DOMAIN EventList : ~GotEvent(p, e)'
TookCounter(p) ==
  /\ i'[p] = 0
  /\ group_indexes'[p] = group_indexes[p]
  /\ event_cnt'[p] = [event_cnt[p] EXCEPT ![k[p]] = i[p]]
  /\ \/ pc'[p] = "events" /\ k'[p] = k[p] + 1 /\ k'[p] \in DOMAIN EventList
     \/ pc'[p] = "finish"
  /\ \A n \in DOMAIN GroupList : GotGroup(p, n) /\ GotGroup(p, n)'
  /\ \A e \in DOMAIN EventList : GotEvent(p, e)' <=> GotEvent(p, e) \/ e = k[p]

LEMMA GroupTaken ==
  ASSUME LocalsTyped, NEW p \in Processes, Placed(p), pc[p] \in GroupSteps,
         i[p] \in Indices, Advance(p, GroupList, "groups", "events"),
         group_indexes' = [group_indexes EXCEPT ![p][k[p]] = i[p]],
         UNCHANGED event_cnt
  PROVE  LocalsTyped' /\ TookGroup(p)
  <1>1. k[p] \in DOMAIN GroupList
    BY DEF Placed
  <1>2. "groups" \in Steps /\ "events" \in Steps
    BY DEF Steps, GroupSteps, EventSteps
  <1>3. /\ pc' \in [Processes -> Steps] /\ i' \in [Processes -> Turns] /\ i'[p] = 0
        /\ k[p] < Len(GroupList) => k'[p] = k[p] + 1 /\ pc'[p] = "groups"
        /\ ~(k[p] < Len(GroupList)) => k'[p] = 1 /\ pc'[p] = "events"
        /\ k' \in [Processes -> Turned]
    BY <1>1, <1>2, AdvanceIs
  <1>4. /\ group_indexes \in [Processes -> [DOMAIN GroupList -> Indices \cup {-1}]]
        /\ event_cnt \in [Processes -> [DOMAIN EventList -> Places \cup {-1}]]
    BY DEF LocalsTyped
  <1>5. group_indexes' \in [Processes -> [DOMAIN GroupList -> Indices \cup {-1}]]
        /\ group_indexes'[p] = [group_indexes[p] EXCEPT ![k[p]] = i[p]]
    BY <1>1, <1>4
  <1>6. LocalsTyped'
    BY <1>3, <1>4, <1>5 DEF LocalsTyped
  <1>7. \/ pc'[p] = "groups" /\ k'[p] = k[p] + 1 /\ k'[p] \in DOMAIN GroupList
        \/ pc'[p] = "events" /\ k'[p] = 1 /\ k[p] = Len(GroupList)
    BY <1>1, <1>3, Lengths
  <1>8. \A n \in DOMAIN GroupList : GotGroup(p, n)' <=> GotGroup(p, n) \/ n = k[p]
    <2> SUFFICES ASSUME NEW n \in DOMAIN GroupList
                 PROVE  GotGroup(p, n)' <=> GotGroup(p, n) \/ n = k[p]
      OBVIOUS
    <2>1. n \in Nat /\ n <= Len(GroupList) /\ k[p] \in Nat /\ k[p] <= Len(GroupList)
      BY <1>1, Lengths
    <2>2. GotGroup(p, n) <=> n < k[p]
      BY DEF GotGroup, GroupSteps, EventSteps
    <2>3. CASE pc'[p] = "groups" /\ k'[p] = k[p] + 1
      BY <2>1, <2>2, <2>3 DEF GotGroup, GroupSteps, EventSteps
    <2>4. CASE pc'[p] = "events" /\ k[p] = Len(GroupList)
      BY <2>1, <2>2, <2>4 DEF GotGroup, GroupSteps, EventSteps
    <2> QED BY <2>3, <2>4, <1>7
  <1>9. \A e \in DOMAIN EventList : ~GotEvent(p, e)'
    BY <1>7, Lengths DEF GotEvent, EventSteps
  <1>10. event_cnt'[p] = event_cnt[p]
    OBVIOUS
  <1> QED BY <1>3, <1>5, <1>6, <1>7, <1>8, <1>9, <1>10 DEF TookGroup

LEMMA CounterTaken ==
  ASSUME LocalsTyped, NEW p \in Processes, Placed(p), pc[p] \in EventSteps,
         i[p] \in Places, Advance(p, EventList, "events", "finish"),
         event_cnt' = [event_cnt EXCEPT ![p][k[p]] = i[p]],
         UNCHANGED group_indexes
  PROVE  LocalsTyped' /\ TookCounter(p)
  <1>1. k[p] \in DOMAIN EventList
    BY DEF Placed
  <1>2. "events" \in Steps /\ "finish" \in Steps
    BY DEF Steps, EventSteps
  <1>3. /\ pc' \in [Processes -> Steps] /\ i' \in [Processes -> Turns] /\ i'[p] = 0
        /\ k[p] < Len(EventList) => k'[p] = k[p] + 1 /\ pc'[p] = "events"
        /\ ~(k[p] < Len(EventList)) => k'[p] = 1 /\ pc'[p] = "finish"
        /\ k' \in [Processes -> Turned]
    BY <1>1, <1>2, AdvanceIs
  <1>4. /\ group_indexes \in [Processes -> [DOMAIN GroupList -> Indices \cup {-1}]]
        /\ event_cnt \in [Processes -> [DOMAIN EventList -> Places \cup {-1}]]
    BY DEF LocalsTyped
  <1>5. event_cnt' \in [Processes -> [DOMAIN EventList -> Places \cup {-1}]]
        /\ event_cnt'[p] = [event_cnt[p] EXCEPT ![k[p]] = i[p]]
    BY <1>1, <1>4
  <1>6. LocalsTyped'
    BY <1>3, <1>4, <1>5 DEF LocalsTyped
  <1>7. \/ pc'[p] = "events" /\ k'[p] = k[p] + 1 /\ k'[p] \in DOMAIN EventList
        \/ pc'[p] = "finish" /\ k[p] = Len(EventList)
    BY <1>1, <1>3, Lengths
  <1>8. \A e \in DOMAIN EventList : GotEvent(p, e)' <=> GotEvent(p, e) \/ e = k[p]
    <2> SUFFICES ASSUME NEW e \in DOMAIN EventList
                 PROVE  GotEvent(p, e)' <=> GotEvent(p, e) \/ e = k[p]
      OBVIOUS
    <2>1. e \in Nat /\ e <= Len(EventList) /\ k[p] \in Nat /\ k[p] <= Len(EventList)
      BY <1>1, Lengths
    <2>2. GotEvent(p, e) <=> e < k[p]
      BY DEF GotEvent, EventSteps
    <2>3. CASE pc'[p] = "events" /\ k'[p] = k[p] + 1
      BY <2>1, <2>2, <2>3 DEF GotEvent, EventSteps
    <2>4. CASE pc'[p] = "finish" /\ k[p] = Len(EventList)
      BY <2>1, <2>2, <2>4 DEF GotEvent, EventSteps
    <2> QED BY <2>3, <2>4, <1>7
  <1>9. \A n \in DOMAIN GroupList : GotGroup(p, n) /\ GotGroup(p, n)'
    BY <1>7 DEF GotGroup, EventSteps
  <1>10. group_indexes'[p] = group_indexes[p]
    OBVIOUS
  <1> QED BY <1>3, <1>5, <1>6, <1>7, <1>8, <1>9, <1>10 DEF TookCounter

LEMMA SizeKept ==
  ASSUME NEW p \in Processes, Step(p), size = "full"
  PROVE  size' = "full"
  <1>1. CASE ListStep(p)
    BY <1>1
    DEF ListStep, GroupKnown, GroupOther, GroupCount, GroupInit, EventKnown,
        EventOther, EventName, EventCount
  <1>2. CASE OtherStep(p)
    BY <1>2
    DEF OtherStep, RT_debug_init, Attach, Create, Truncate, Wipe, ResetGroups,
        RTDBG_Start, GetDebugGrpAsserts, Overrun, Finish, SetCounter, Crash
  <1> QED BY <1>1, <1>2, StepIs

LEMMA PlacedKept ==
  ASSUME NEW q \in Processes, Placed(q), Stays(q),
         size = "full" => size' = "full"
  PROVE  Placed(q)'
  BY DEF Placed, Stays, Registering, GotGroup, GotEvent

LEMMA TookPlaced ==
  ASSUME NEW p \in Processes, Placed(p), LocalsTyped,
         Registering(p), pc[p] \notin {"attach", "create", "truncate"},
         size = "full" => size' = "full",
         \/ TookGroup(p) /\ i[p] \in Indices /\ k[p] \in DOMAIN GroupList
         \/ TookCounter(p) /\ i[p] \in Places /\ k[p] \in DOMAIN EventList
  PROVE  Placed(p)'
  <1>0. /\ group_indexes[p] \in [DOMAIN GroupList -> Indices \cup {-1}]
        /\ event_cnt[p] \in [DOMAIN EventList -> Places \cup {-1}]
    BY FieldTypes
  <1>1. size' = "full"
    BY DEF Placed
  <1>2. CASE TookGroup(p) /\ i[p] \in Indices /\ k[p] \in DOMAIN GroupList
    <2>1. ASSUME NEW n \in DOMAIN GroupList, GotGroup(p, n)'
          PROVE  group_indexes'[p][n] \in Indices
      <3>1. GotGroup(p, n) \/ n = k[p]
        BY <2>1, <1>2 DEF TookGroup
      <3>2. GotGroup(p, n) => group_indexes[p][n] \in Indices
        BY DEF Placed
      <3>3. group_indexes'[p] = [group_indexes[p] EXCEPT ![k[p]] = i[p]]
        BY <1>2 DEF TookGroup
      <3> QED BY <3>1, <3>2, <3>3, <1>0, <1>2
    <2>2. \/ pc'[p] = "groups" /\ k'[p] \in DOMAIN GroupList
          \/ pc'[p] = "events" /\ k'[p] = 1
      BY <1>2 DEF TookGroup
    <2>3. i'[p] = 0 /\ \A e \in DOMAIN EventList : ~GotEvent(p, e)'
      BY <1>2 DEF TookGroup
    <2>4. 0 \in 0 .. MAX_GROUP_NUM /\ 0 \in 0 .. NUM_COUNTERS
      BY Sizes
    <2> QED BY <1>1, <2>1, <2>2, <2>3, <2>4, Lengths
            DEF Placed, FileSteps, GroupSteps, EventSteps
  <1>3. CASE TookCounter(p) /\ i[p] \in Places /\ k[p] \in DOMAIN EventList
    <2>1. ASSUME NEW e \in DOMAIN EventList, GotEvent(p, e)'
          PROVE  event_cnt'[p][e] \in Places
      <3>1. GotEvent(p, e) \/ e = k[p]
        BY <2>1, <1>3 DEF TookCounter
      <3>2. GotEvent(p, e) => event_cnt[p][e] \in Places
        BY DEF Placed
      <3>3. event_cnt'[p] = [event_cnt[p] EXCEPT ![k[p]] = i[p]]
        BY <1>3 DEF TookCounter
      <3> QED BY <3>1, <3>2, <3>3, <1>0, <1>3
    <2>2. \/ pc'[p] = "events" /\ k'[p] \in DOMAIN EventList
          \/ pc'[p] = "finish"
      BY <1>3 DEF TookCounter
    <2>3. /\ i'[p] = 0 /\ group_indexes'[p] = group_indexes[p]
          /\ \A n \in DOMAIN GroupList : GotGroup(p, n)
      BY <1>3 DEF TookCounter
    <2>4. \A n \in DOMAIN GroupList : group_indexes'[p][n] \in Indices
      BY <2>3 DEF Placed
    <2>5. 0 \in 0 .. NUM_COUNTERS
      BY Sizes
    <2> QED BY <1>1, <2>1, <2>2, <2>3, <2>4, <2>5
            DEF Placed, FileSteps, GroupSteps, EventSteps
  <1> QED BY <1>2, <1>3

LEMMA ListStepTypes ==
  ASSUME TypeOK, AllPlaced, NEW p \in Processes, ListStep(p)
  PROVE  LocalsTyped' /\ Placed(p)'
  <1>0. FileTyped /\ LocalsTyped /\ Placed(p) /\ (size = "full" => size' = "full")
    BY TypesAre, SizeKept, StepIs DEF AllPlaced
  <1>1. /\ pc \in [Processes -> Steps]
        /\ k \in [Processes -> Turned] /\ i \in [Processes -> Turns]
        /\ group_indexes \in [Processes -> [DOMAIN GroupList -> Indices \cup {-1}]]
        /\ event_cnt \in [Processes -> [DOMAIN EventList -> Places \cup {-1}]]
    BY <1>0 DEF LocalsTyped
  <1>2. CASE GroupKnown(p)
    <2>1. /\ pc[p] = "groups" /\ i[p] \in Indices
          /\ group_indexes' = [group_indexes EXCEPT ![p][k[p]] = i[p]]
          /\ Advance(p, GroupList, "groups", "events") /\ event_cnt' = event_cnt
      BY <1>2 DEF GroupKnown
    <2>2. k[p] \in DOMAIN GroupList
      BY <1>0, <2>1 DEF Placed, GroupSteps
    <2>3. LocalsTyped' /\ TookGroup(p)
      BY <1>0, <2>1, GroupTaken DEF GroupSteps
    <2> QED BY <1>0, <2>1, <2>2, <2>3, TookPlaced DEF Registering, Resting
  <1>3. CASE GroupInit(p)
    <2>1. /\ pc[p] = "group_init" /\ i[p] \in Indices
          /\ group_indexes' = [group_indexes EXCEPT ![p][k[p]] = i[p]]
          /\ Advance(p, GroupList, "groups", "events") /\ event_cnt' = event_cnt
      BY <1>3 DEF GroupInit
    <2>2. k[p] \in DOMAIN GroupList
      BY <1>0, <2>1 DEF Placed, GroupSteps
    <2>3. LocalsTyped' /\ TookGroup(p)
      BY <1>0, <2>1, GroupTaken DEF GroupSteps
    <2> QED BY <1>0, <2>1, <2>2, <2>3, TookPlaced DEF Registering, Resting
  <1>4. CASE EventKnown(p)
    <2>1. /\ pc[p] = "events" /\ i[p] \in Places
          /\ event_cnt' = [event_cnt EXCEPT ![p][k[p]] = i[p]]
          /\ Advance(p, EventList, "events", "finish") /\ group_indexes' = group_indexes
      BY <1>4 DEF EventKnown, MayScan
    <2>2. k[p] \in DOMAIN EventList
      BY <1>0, <2>1 DEF Placed, EventSteps
    <2>3. LocalsTyped' /\ TookCounter(p)
      BY <1>0, <2>1, CounterTaken DEF EventSteps
    <2> QED BY <1>0, <2>1, <2>2, <2>3, TookPlaced DEF Registering, Resting
  <1>5. CASE EventCount(p)
    <2>1. /\ pc[p] = "event_count"
          /\ event_cnt' = [event_cnt EXCEPT ![p][k[p]] = i[p]]
          /\ Advance(p, EventList, "events", "finish") /\ group_indexes' = group_indexes
      BY <1>5 DEF EventCount
    <2>2. k[p] \in DOMAIN EventList /\ i[p] \in Places
      BY <1>0, <2>1 DEF Placed, EventSteps
    <2>3. LocalsTyped' /\ TookCounter(p)
      BY <1>0, <2>1, <2>2, CounterTaken DEF EventSteps
    <2> QED BY <1>0, <2>1, <2>2, <2>3, TookPlaced DEF Registering, Resting
  <1>6. CASE GroupOther(p)
    <2>1. /\ pc[p] = "groups" /\ i[p] \in Indices /\ i' = [i EXCEPT ![p] = i[p] + 1]
          /\ UNCHANGED <<size, pc, k, group_indexes, event_cnt>>
      BY <1>6 DEF GroupOther
    <2>2. i[p] + 1 \in 0 .. MAX_GROUP_NUM
      BY <2>1, Ranges, Sizes
    <2>3. i' \in [Processes -> Turns] /\ i'[p] = i[p] + 1
      BY <1>1, <2>1, <2>2, TurnTypes
    <2>4. LocalsTyped'
      BY <1>1, <2>1, <2>3 DEF LocalsTyped
    <2> QED BY <1>0, <2>1, <2>2, <2>3, <2>4
            DEF Placed, Registering, GotGroup, GotEvent, FileSteps, EventSteps
  <1>7. CASE EventOther(p)
    <2>1. /\ pc[p] = "events" /\ i[p] \in Places /\ i' = [i EXCEPT ![p] = i[p] + 1]
          /\ UNCHANGED <<size, pc, k, group_indexes, event_cnt>>
      BY <1>7 DEF EventOther, MayScan
    <2>2. i[p] + 1 \in 0 .. NUM_COUNTERS
      BY <2>1, Ranges, Sizes
    <2>3. i' \in [Processes -> Turns] /\ i'[p] = i[p] + 1
      BY <1>1, <2>1, <2>2, TurnTypes
    <2>4. LocalsTyped'
      BY <1>1, <2>1, <2>3 DEF LocalsTyped
    <2> QED BY <1>0, <2>1, <2>2, <2>3, <2>4
            DEF Placed, Registering, GotGroup, GotEvent, FileSteps, GroupSteps
  <1>8. CASE GroupCount(p)
    <2>1. /\ pc[p] = "groups" /\ UNCHANGED <<size, k, i, group_indexes, event_cnt>>
          /\ \/ pc' = [pc EXCEPT ![p] = "group_init"]
             \/ pc' = [pc EXCEPT ![p] = "aborted"]
      BY <1>8 DEF GroupCount, Goto, locals
    <2>2. pc'[p] \in {"group_init", "aborted"} /\ pc' \in [Processes -> Steps]
      BY <1>1, <2>1 DEF Steps, GroupSteps, Resting
    <2>3. LocalsTyped'
      BY <1>1, <2>1, <2>2 DEF LocalsTyped
    <2> QED BY <1>0, <2>1, <2>2, <2>3
            DEF Placed, Registering, Resting, GotGroup, GotEvent, FileSteps,
                GroupSteps, EventSteps
  <1>9. CASE EventName(p)
    <2>1. /\ pc[p] = "events" /\ UNCHANGED <<size, k, i, group_indexes, event_cnt>>
          /\ \/ i[p] \in Places /\ pc' = [pc EXCEPT ![p] = "event_count"]
             \/ pc' = [pc EXCEPT ![p] = "aborted"]
      <3>1. pc[p] = "events" /\ UNCHANGED <<size, k, i, group_indexes, event_cnt>>
        BY <1>9 DEF EventName, MayScan, locals
      <3>2. InGroup(p) \in Indices
        BY <3>1, GroupsGot DEF EventSteps
      <3>3. num_alloc_counters_[InGroup(p)] \in Nat
        BY <1>0, <3>2 DEF FileTyped
      <3>4. CASE num_alloc_counters_[InGroup(p)] < NUM_COUNTERS - 1
        BY <1>9, <3>1, <3>3, <3>4, Sizes DEF EventName, Goto
      <3>5. CASE ~(num_alloc_counters_[InGroup(p)] < NUM_COUNTERS - 1)
        BY <1>9, <3>1, <3>5 DEF EventName, Goto
      <3> QED BY <3>4, <3>5
    <2>2. /\ pc'[p] \in {"event_count", "aborted"} /\ pc' \in [Processes -> Steps]
          /\ pc'[p] = "event_count" => i[p] \in Places
      BY <1>1, <2>1 DEF Steps, EventSteps, Resting
    <2>3. LocalsTyped'
      BY <1>1, <2>1, <2>2 DEF LocalsTyped
    <2> QED BY <1>0, <2>1, <2>2, <2>3
            DEF Placed, Registering, Resting, GotGroup, GotEvent, FileSteps,
                GroupSteps, EventSteps
  <1> QED BY <1>2, <1>3, <1>4, <1>5, <1>6, <1>7, <1>8, <1>9 DEF ListStep

LEMMA OtherStepTypes ==
  ASSUME TypeOK, AllPlaced, NEW p \in Processes, OtherStep(p)
  PROVE  LocalsTyped' /\ Placed(p)'
  <1>0. FileTyped /\ LocalsTyped /\ Placed(p) /\ (size = "full" => size' = "full")
    BY TypesAre, SizeKept, StepIs DEF AllPlaced
  <1>1. /\ pc \in [Processes -> Steps]
        /\ k \in [Processes -> Turned] /\ i \in [Processes -> Turns]
        /\ group_indexes \in [Processes -> [DOMAIN GroupList -> Indices \cup {-1}]]
        /\ event_cnt \in [Processes -> [DOMAIN EventList -> Places \cup {-1}]]
    BY <1>0 DEF LocalsTyped
  <1> DEFINE Same == UNCHANGED <<k, i, group_indexes, event_cnt>>
  (* p only moves on.                                                      *)
  <1>2. ASSUME NEW to \in Steps, pc' = [pc EXCEPT ![p] = to], Same,
               to \in {"down"} \cup FileSteps => k[p] = 1 /\ i[p] = 0,
               to \in GroupSteps => k[p] = 1 /\ i[p] = 0,
               to \notin EventSteps \cup {"finish", "ready"}
                 \/ (pc[p] = "finish" /\ to = "ready"),
               to \in Resting \cup {"attach", "create", "truncate"} \/ size' = "full"
        PROVE  LocalsTyped' /\ Placed(p)'
    <2>1. pc' \in [Processes -> Steps] /\ pc'[p] = to
      BY <1>1, <1>2
    <2>2. LocalsTyped'
      BY <1>1, <1>2, <2>1 DEF LocalsTyped
    <2>3. \A n \in DOMAIN GroupList : GotGroup(p, n)' => group_indexes'[p][n] \in Indices
      <3> SUFFICES ASSUME NEW n \in DOMAIN GroupList, GotGroup(p, n)'
                   PROVE  group_indexes'[p][n] \in Indices
        OBVIOUS
      <3>1. n >= 1
        BY Lengths
      <3>2. to \notin GroupSteps
        BY <1>2, <2>1, <3>1, Lengths DEF GotGroup, GroupSteps, EventSteps
      <3>3. GotGroup(p, n)
        BY <1>2, <2>1, <3>2 DEF GotGroup, GroupSteps, EventSteps
      <3> QED BY <1>0, <1>2, <3>3 DEF Placed
    <2>4. \A e \in DOMAIN EventList : GotEvent(p, e)' => event_cnt'[p][e] \in Places
      <3> SUFFICES ASSUME NEW e \in DOMAIN EventList, GotEvent(p, e)'
                   PROVE  event_cnt'[p][e] \in Places
        OBVIOUS
      <3>1. GotEvent(p, e)
        BY <1>2, <2>1 DEF GotEvent, EventSteps
      <3> QED BY <1>0, <1>2, <3>1 DEF Placed
    <2>5. /\ pc'[p] \in {"down"} \cup FileSteps => k'[p] = 1 /\ i'[p] = 0
          /\ pc'[p] \in GroupSteps => k'[p] \in DOMAIN GroupList
                                      /\ i'[p] \in 0 .. MAX_GROUP_NUM
          /\ pc'[p] \notin EventSteps
      BY <1>2, <2>1, Lengths, Sizes DEF EventSteps
    <2>6. Registering(p)' /\ pc'[p] \notin {"attach", "create", "truncate"} => size' = "full"
      BY <1>2, <2>1 DEF Registering
    <2> QED BY <2>2, <2>3, <2>4, <2>5, <2>6 DEF Placed, EventSteps
  <1>3. CASE RT_debug_init(p)
    <2>1. /\ pc[p] = "down" /\ Same
          /\ \/ pc' = [pc EXCEPT ![p] = "attach"]
             \/ pc' = [pc EXCEPT ![p] = "create"]
      BY <1>3 DEF RT_debug_init, Goto, locals
    <2>2. k[p] = 1 /\ i[p] = 0
      BY <1>0, <2>1 DEF Placed
    <2> QED BY <1>2, <2>1, <2>2 DEF Steps, FileSteps, GroupSteps, EventSteps
  <1>4. CASE Attach(p)
    <2>1. /\ pc[p] = "attach" /\ Same /\ size' = size
          /\ \/ pc' = [pc EXCEPT ![p] = "groups"] /\ size = "full"
             \/ pc' = [pc EXCEPT ![p] = "failed"]
      BY <1>4 DEF Attach, Goto, locals
    <2>2. k[p] = 1 /\ i[p] = 0
      BY <1>0, <2>1 DEF Placed, FileSteps
    <2> QED BY <1>2, <2>1, <2>2 DEF Steps, FileSteps, GroupSteps, EventSteps, Resting
  <1>5. CASE Create(p)
    <2>1. pc[p] = "create" /\ Same /\ pc' = [pc EXCEPT ![p] = "truncate"]
      BY <1>5 DEF Create, Goto, locals
    <2>2. k[p] = 1 /\ i[p] = 0
      BY <1>0, <2>1 DEF Placed, FileSteps
    <2> QED BY <1>2, <2>1, <2>2 DEF Steps, FileSteps, GroupSteps, EventSteps
  <1>6. CASE Truncate(p)
    <2>1. /\ pc[p] = "truncate" /\ Same /\ pc' = [pc EXCEPT ![p] = "wipe"]
          /\ size' = "full"
      BY <1>6 DEF Truncate, Goto, locals
    <2>2. k[p] = 1 /\ i[p] = 0
      BY <1>0, <2>1 DEF Placed, FileSteps
    <2> QED BY <1>2, <2>1, <2>2 DEF Steps, FileSteps, GroupSteps, EventSteps
  <1>7. CASE Wipe(p) \/ ResetGroups(p) \/ RTDBG_Start(p)
    <2>1. /\ pc[p] \in {"wipe", "reset", "start"} /\ Same /\ size' = size
          /\ \/ pc' = [pc EXCEPT ![p] = "reset"]
             \/ pc' = [pc EXCEPT ![p] = "start"]
             \/ pc' = [pc EXCEPT ![p] = "groups"]
      BY <1>7 DEF Wipe, ResetGroups, RTDBG_Start, Goto, locals
    <2>2. k[p] = 1 /\ i[p] = 0 /\ size = "full"
      BY <1>0, <2>1 DEF Placed, FileSteps, Registering, Resting
    <2> QED BY <1>2, <2>1, <2>2 DEF Steps, FileSteps, GroupSteps, EventSteps
  <1>8. CASE GetDebugGrpAsserts(p) \/ Overrun(p)
    <2>1. /\ Same
          /\ \/ pc' = [pc EXCEPT ![p] = "aborted"]
             \/ pc' = [pc EXCEPT ![p] = "overrun"]
      BY <1>8 DEF GetDebugGrpAsserts, Overrun, Goto, locals
    <2> QED BY <1>2, <2>1 DEF Steps, FileSteps, GroupSteps, EventSteps, Resting
  <1>9. CASE Finish(p)
    <2>1. pc[p] = "finish" /\ Same /\ pc' = [pc EXCEPT ![p] = "ready"]
      BY <1>9 DEF Finish, Goto, locals
    <2> QED BY <1>2, <2>1 DEF Steps, FileSteps, GroupSteps, EventSteps, Resting
  <1>10. ASSUME NEW e \in DOMAIN EventList, SetCounter(p, e)
         PROVE  LocalsTyped' /\ Placed(p)'
    <2>1. UNCHANGED <<size, pc, k, i, group_indexes, event_cnt>>
      BY <1>10 DEF SetCounter, locals
    <2> QED BY <1>0, <1>1, <2>1
            DEF LocalsTyped, Placed, Registering, GotGroup, GotEvent
  <1>11. CASE Crash(p)
    <2>1. /\ pc' = [pc EXCEPT ![p] = "down"]
          /\ k' = [k EXCEPT ![p] = 1] /\ i' = [i EXCEPT ![p] = 0]
          /\ group_indexes' = [group_indexes EXCEPT ![p] = NoGroups]
          /\ event_cnt' = [event_cnt EXCEPT ![p] = NoEvents]
      BY <1>11 DEF Crash, Goto
    <2>2. pc'[p] = "down" /\ k'[p] = 1 /\ i'[p] = 0
      BY <1>1, <2>1
    <2>3. LocalsTyped'
      <3>1. /\ NoGroups \in [DOMAIN GroupList -> Indices \cup {-1}]
            /\ NoEvents \in [DOMAIN EventList -> Places \cup {-1}]
            /\ "down" \in Steps
        BY DEF NoGroups, NoEvents, Steps, Resting
      <3> QED BY <1>1, <2>1, <3>1, TurnTypes DEF LocalsTyped
    <2> QED BY <2>2, <2>3
            DEF Placed, Registering, Resting, GotGroup, GotEvent, FileSteps,
                GroupSteps, EventSteps
  <1> QED BY <1>3, <1>4, <1>5, <1>6, <1>7, <1>8, <1>9, <1>10, <1>11 DEF OtherStep

LEMMA TypesNext ==
  ASSUME TypeOK, AllPlaced, [Next]_vars
  PROVE  TypeOK' /\ AllPlaced'
  <1>1. CASE UNCHANGED vars
    BY <1>1
    DEF vars, file, locals, history, TypeOK, AllPlaced, Placed, Registering,
        GotGroup, GotEvent
  <1>2. ASSUME NEW p \in Processes, Step(p)
        PROVE  TypeOK' /\ AllPlaced'
    <2>1. FileTyped' /\ HistoryTyped'
      BY <1>2, FileTypesNext, HistoryTypesNext, TypesAre
    <2>2. LocalsTyped' /\ Placed(p)'
      BY <1>2, StepIs, ListStepTypes, OtherStepTypes
    <2>3. TypeOK'
      BY <2>1, <2>2, TypesAre
      DEF TypeOK, FileTyped, LocalsTyped, HistoryTyped, Counters, Turns, Turned,
          Steps, Resting, FileSteps, GroupSteps, EventSteps
    <2>4. \A q \in Processes : q # p => Placed(q)'
      BY <1>2, OthersStay, PlacedKept, SizeKept DEF AllPlaced
    <2> QED BY <2>2, <2>3, <2>4 DEF AllPlaced
  <1> QED BY <1>1, <1>2 DEF Next

-----------------------------------------------------------------------------
(***************************************************************************)
(* What is found in the tables                                             *)
(***************************************************************************)
SameTables ==
  /\ UNCHANGED <<num_alloc_groups_, group_name_, num_alloc_counters_>>
  /\ \A g \in Indices, c \in Places :
       rt_counters_'[g][c].cnt_name = rt_counters_[g][c].cnt_name

FirstGroupNext(g, x) ==
  /\ g \in Indices /\ g < num_alloc_groups_' /\ group_name_'[g] = x
  /\ \A h \in Indices : h < g => group_name_'[h] # x
FirstCounterNext(g, c, x) ==
  /\ c \in Places /\ c < num_alloc_counters_'[g] /\ rt_counters_'[g][c].cnt_name = x
  /\ \A d \in Places : d < c => rt_counters_'[g][d].cnt_name # x

LEMMA FirstKept ==
  ASSUME SameTables
  PROVE  /\ \A g, x : FirstGroupNext(g, x) <=> FirstGroup(g, x)
         /\ \A g \in Indices : \A c, x : FirstCounterNext(g, c, x) <=> FirstCounter(g, c, x)
  <1>1. \A g, x : FirstGroupNext(g, x) <=> FirstGroup(g, x)
    BY DEF SameTables, FirstGroupNext, FirstGroup
  <1>2. \A g \in Indices : \A c, x : FirstCounterNext(g, c, x) <=> FirstCounter(g, c, x)
    BY DEF SameTables, FirstCounterNext, FirstCounter
  <1> QED BY <1>1, <1>2

(* A name is found at one place.                                           *)
LEMMA FirstIsOne ==
  /\ \A x : \A g, h \in Indices : FirstGroup(g, x) /\ FirstGroup(h, x) => g = h
  /\ \A x, g : \A c, d \in Places :
       FirstCounter(g, c, x) /\ FirstCounter(g, d, x) => c = d
  <1>1. ASSUME NEW x, NEW g \in Indices, NEW h \in Indices,
               FirstGroup(g, x), FirstGroup(h, x)
        PROVE  g = h
    <2>1. g \in Nat /\ h \in Nat
      BY Ranges
    <2>2. ~(g < h) /\ ~(h < g)
      BY <1>1 DEF FirstGroup
    <2> QED BY <2>1, <2>2
  <1>2. ASSUME NEW x, NEW g, NEW c \in Places, NEW d \in Places,
               FirstCounter(g, c, x), FirstCounter(g, d, x)
        PROVE  c = d
    <2>1. c \in Nat /\ d \in Nat
      BY Ranges
    <2>2. ~(c < d) /\ ~(d < c)
      BY <1>2 DEF FirstCounter
    <2> QED BY <2>1, <2>2
  <1> QED BY <1>1, <1>2

HandlesNext(p) ==
  /\ \A n \in DOMAIN GroupList :
       GotGroup(p, n)' =>
         /\ FirstGroupNext(group_indexes'[p][n], GroupList[n])
         /\ pc'[p] = "group_init" => group_indexes'[p][n] < i'[p]
  /\ \A e \in DOMAIN EventList :
       GotEvent(p, e)' =>
         FirstCounterNext(group_indexes'[p][EventList[e].group], event_cnt'[p][e],
                          EventList[e].name)

LEMMA HandlesPrime ==
  \A p \in Processes : Handles(p)' <=> HandlesNext(p)
  BY DEF Handles, HandlesNext, FirstGroup, FirstGroupNext, FirstCounter,
         FirstCounterNext, Group

(* Handles stay right while the tables stay as they are.                   *)
LEMMA HandlesStay ==
  ASSUME NEW p \in Processes, AllPlaced, Handles(p), SameTables,
         group_indexes'[p] = group_indexes[p], event_cnt'[p] = event_cnt[p],
         pc'[p] # "group_init" \/ (pc[p] = "group_init" /\ i'[p] = i[p]),
         \A n \in DOMAIN GroupList : GotGroup(p, n)' => GotGroup(p, n),
         \A e \in DOMAIN EventList : GotEvent(p, e)' => GotEvent(p, e)
  PROVE  HandlesNext(p)
  <1>1. ASSUME NEW n \in DOMAIN GroupList, GotGroup(p, n)'
        PROVE  /\ FirstGroupNext(group_indexes'[p][n], GroupList[n])
               /\ pc'[p] = "group_init" => group_indexes'[p][n] < i'[p]
    <2>1. /\ FirstGroup(group_indexes[p][n], GroupList[n])
          /\ pc[p] = "group_init" => group_indexes[p][n] < i[p]
      BY <1>1 DEF Handles
    <2> QED BY <2>1, FirstKept
  <1>2. ASSUME NEW e \in DOMAIN EventList, GotEvent(p, e)'
        PROVE  FirstCounterNext(group_indexes'[p][EventList[e].group], event_cnt'[p][e],
                                EventList[e].name)
    <2>1. FirstCounter(Group(p, e), event_cnt[p][e], EventList[e].name)
      BY <1>2 DEF Handles
    <2>2. Group(p, e) \in Indices
      <3>1. EventList[e].group \in DOMAIN GroupList
        BY Lists
      <3>2. GotGroup(p, EventList[e].group)
        BY <1>2 DEF GotEvent, GotGroup, EventSteps
      <3> QED BY <3>1, <3>2 DEF AllPlaced, Placed, Group
    <2> QED BY <2>1, <2>2, FirstKept DEF Group
  <1> QED BY <1>1, <1>2 DEF HandlesNext

(* What writes no table.                                                   *)
LEMMA TablesStay ==
  ASSUME TypeOK, AllPlaced, NEW p \in Processes, Step(p),
         pc[p] \notin {"wipe", "reset", "group_init", "event_count"},
         ~GroupCount(p), ~EventName(p)
  PROVE  /\ SameTables /\ UNCHANGED setup
         /\ pc[p] \notin {"create", "truncate"} => UNCHANGED size
  <1>1. CASE \/ GroupKnown(p) \/ GroupOther(p) \/ EventKnown(p) \/ EventOther(p)
             \/ RT_debug_init(p) \/ Attach(p) \/ GetDebugGrpAsserts(p) \/ Overrun(p)
             \/ Crash(p)
    BY <1>1
    DEF GroupKnown, GroupOther, EventKnown, EventOther, RT_debug_init, Attach,
        GetDebugGrpAsserts, Overrun, Crash, file, SameTables
  <1>2. CASE Create(p) \/ Truncate(p) \/ RTDBG_Start(p) \/ Finish(p)
    BY <1>2 DEF Create, Truncate, RTDBG_Start, Finish, file, SameTables
  <1>3. ASSUME NEW e \in DOMAIN EventList, SetCounter(p, e)
        PROVE  SameTables /\ UNCHANGED <<setup, size>>
    <2>1. Group(p, e) \in Indices /\ event_cnt[p][e] \in Places
      BY <1>3, GroupsGot DEF SetCounter
    <2>2. rt_counters_ \in [Indices -> [Places -> Counters]]
      BY TypesAre DEF FileTyped
    <2>3. /\ rt_counters_'[Group(p, e)][event_cnt[p][e]] =
               [cnt_name |-> rt_counters_[Group(p, e)][event_cnt[p][e]].cnt_name,
                val |-> 1]
          /\ \A h \in Indices, d \in Places :
               h # Group(p, e) \/ d # event_cnt[p][e] =>
                 rt_counters_'[h][d] = rt_counters_[h][d]
      BY <1>3, <2>1, <2>2, ValueWritten
    <2>4. /\ rt_counters_'[Group(p, e)][event_cnt[p][e]].cnt_name =
               rt_counters_[Group(p, e)][event_cnt[p][e]].cnt_name
          /\ \A h \in Indices, d \in Places :
               h # Group(p, e) \/ d # event_cnt[p][e] =>
                 rt_counters_'[h][d] = rt_counters_[h][d]
      BY <2>3
    <2> QED BY <1>3, <2>4 DEF SetCounter, SameTables
  <1>4. ~Wipe(p) /\ ~ResetGroups(p) /\ ~GroupInit(p) /\ ~EventCount(p)
    BY DEF Wipe, ResetGroups, GroupInit, EventCount
  <1>5. CASE \E e \in DOMAIN EventList : SetCounter(p, e)
    BY <1>3, <1>5
  <1> QED BY <1>1, <1>2, <1>4, <1>5 DEF Step

-----------------------------------------------------------------------------
(***************************************************************************)
(* A process that starts alone                                             *)
(***************************************************************************)
LEMMA OwnGroups ==
  ASSUME TypeOK, AllPlaced, NEW p \in Processes, Exact(p), Handles(p),
         GroupKnown(p) \/ GroupOther(p) \/ GroupCount(p)
  PROVE  Registering(p)' => Exact(p)' /\ HandlesNext(p)
  <1>0. FileTyped /\ LocalsTyped /\ Placed(p)
    BY TypesAre DEF AllPlaced
  <1>1. /\ pc[p] = "groups" /\ k[p] \in DOMAIN GroupList
        /\ i[p] \in Nat /\ num_alloc_groups_ \in Nat
        /\ \A g \in Indices : num_alloc_counters_[g] \in Nat
        /\ group_indexes[p] \in [DOMAIN GroupList -> Indices \cup {-1}]
    BY <1>0, FieldTypes
    DEF GroupKnown, GroupOther, GroupCount, Placed, GroupSteps, FileTyped
  <1>2. /\ \A h \in Indices : h < i[p] => group_name_[h] # GroupList[k[p]]
        /\ i[p] <= num_alloc_groups_
    BY <1>1 DEF Exact, NotBefore, GroupSteps
  <1>3. \A n \in DOMAIN GroupList : GotGroup(p, n) =>
          FirstGroup(group_indexes[p][n], GroupList[n])
    BY DEF Handles
  <1>4. CASE GroupKnown(p)
    <2>1. /\ i[p] \in Indices /\ i[p] < num_alloc_groups_
          /\ group_name_[i[p]] = GroupList[k[p]]
          /\ group_indexes' = [group_indexes EXCEPT ![p][k[p]] = i[p]]
          /\ Advance(p, GroupList, "groups", "events") /\ UNCHANGED event_cnt
      BY <1>4 DEF GroupKnown, GroupFound
    <2>2. TookGroup(p)
      BY <1>0, <1>1, <2>1, GroupTaken DEF GroupSteps
    <2>3. FirstGroup(i[p], GroupList[k[p]])
      BY <1>2, <2>1 DEF FirstGroup
    <2>4. SameTables /\ UNCHANGED <<num_alloc_groups_, num_alloc_counters_>>
      BY <1>4 DEF GroupKnown, file, SameTables
    <2>5. HandlesNext(p)
      <3>1. ASSUME NEW n \in DOMAIN GroupList, GotGroup(p, n)'
            PROVE  FirstGroupNext(group_indexes'[p][n], GroupList[n])
        <4>1. GotGroup(p, n) \/ n = k[p]
          BY <2>2, <3>1 DEF TookGroup
        <4>2. group_indexes'[p] = [group_indexes[p] EXCEPT ![k[p]] = i[p]]
          BY <2>2 DEF TookGroup
        <4>3. FirstGroup(group_indexes'[p][n], GroupList[n])
          BY <1>1, <1>3, <2>3, <4>1, <4>2
        <4> QED BY <2>4, <4>3, FirstKept
      <3>2. pc'[p] # "group_init" /\ \A e \in DOMAIN EventList : ~GotEvent(p, e)'
        BY <2>2 DEF TookGroup
      <3> QED BY <3>1, <3>2 DEF HandlesNext
    <2>6. Exact(p)'
      <3>1. i'[p] = 0 /\ pc'[p] \in {"groups", "events"}
        BY <2>2 DEF TookGroup
      <3>2. ASSUME pc'[p] = "events" PROVE InGroup(p)' \in Indices
        <4>1. AllPlaced'
          BY TypesNext, <1>4 DEF Next, Step
        <4>2. k'[p] = 1 /\ 1 \in DOMAIN EventList
          BY <2>2, <3>2, Lengths DEF TookGroup
        <4>3. EventList[1].group \in DOMAIN GroupList
          BY <4>2, Lists
        <4>4. GotGroup(p, EventList[1].group)'
          BY <3>2 DEF GotGroup, EventSteps
        <4>5. Placed(p)'
          BY <4>1 DEF AllPlaced
        <4>6. group_indexes'[p][EventList[1].group] \in Indices
          BY <4>3, <4>4, <4>5 DEF Placed
        <4> QED BY <4>2, <4>6 DEF InGroup, Group
      <3>3. pc'[p] = "events" => num_alloc_counters_'[InGroup(p)'] \in Nat
        BY <1>1, <2>4, <3>2
      <3>4. 0 <= num_alloc_groups_'
        BY <1>1, <2>4
      <3>5. (\A h \in Indices : ~(h < 0)) /\ (\A d \in Places : ~(d < 0))
        BY Ranges
      <3>6. NotBefore(p)'
        BY <3>1, <3>5 DEF NotBefore
      <3>7. pc'[p] = "events" => 0 <= num_alloc_counters_'[InGroup(p)']
        BY <3>3
      <3> QED BY <3>1, <3>4, <3>6, <3>7 DEF Exact
    <2> QED BY <2>5, <2>6
  <1>5. CASE GroupOther(p)
    <2>1. /\ i[p] \in Indices /\ i[p] < num_alloc_groups_
          /\ group_name_[i[p]] # GroupList[k[p]]
          /\ i' = [i EXCEPT ![p] = i[p] + 1]
          /\ UNCHANGED <<pc, k, group_indexes, event_cnt>>
          /\ SameTables
      BY <1>5 DEF GroupOther, GroupFound, file, SameTables
    <2>2. i'[p] = i[p] + 1
      BY <1>0, <2>1 DEF LocalsTyped
    <2>3. HandlesNext(p)
      BY <1>1, <2>1, HandlesStay DEF GotGroup, GotEvent
    <2>4. \A h \in Indices : h < i[p] + 1 => group_name_[h] # GroupList[k[p]]
      <3> SUFFICES ASSUME NEW h \in Indices, h < i[p] + 1
                   PROVE  group_name_[h] # GroupList[k[p]]
        OBVIOUS
      <3>1. h < i[p] \/ h = i[p]
        BY <1>1, Ranges
      <3> QED BY <1>2, <2>1, <3>1
    <2>5. i[p] + 1 <= num_alloc_groups_
      BY <1>1, <2>1
    <2>6. pc'[p] = "groups" /\ k'[p] = k[p] /\ group_name_' = group_name_
          /\ num_alloc_groups_' = num_alloc_groups_
      BY <1>1, <2>1 DEF SameTables
    <2>7. Exact(p)'
      BY <2>2, <2>4, <2>5, <2>6 DEF Exact, NotBefore, EventSteps
    <2> QED BY <2>3, <2>7
  <1>6. CASE GroupCount(p)
    <2>1. /\ i[p] >= num_alloc_groups_ /\ num_alloc_groups_' = num_alloc_groups_ + 1
          /\ UNCHANGED <<group_name_, k, i, group_indexes, event_cnt>>
          /\ \/ pc' = [pc EXCEPT ![p] = "group_init"]
             \/ pc' = [pc EXCEPT ![p] = "aborted"]
      BY <1>6 DEF GroupCount, Goto, locals
    <2>2. pc'[p] \in {"group_init", "aborted"} /\ i[p] = num_alloc_groups_
      <3>1. pc \in [Processes -> Steps]
        BY <1>0 DEF LocalsTyped
      <3>2. pc'[p] \in {"group_init", "aborted"}
        BY <2>1, <3>1
      <3>3. i[p] = num_alloc_groups_
        BY <1>1, <1>2, <2>1
      <3> QED BY <3>2, <3>3
    <2>3. ASSUME Registering(p)' PROVE pc'[p] = "group_init"
      BY <2>2, <2>3 DEF Registering, Resting
    <2>4. ASSUME pc'[p] = "group_init" PROVE Exact(p)'
      <3>1. i'[p] + 1 = num_alloc_groups_' /\ group_name_' = group_name_
            /\ i'[p] = i[p] /\ k'[p] = k[p]
        BY <2>1, <2>2
      <3> QED BY <1>2, <2>4, <3>1 DEF Exact, NotBefore, EventSteps
    <2>5. ASSUME pc'[p] = "group_init" PROVE HandlesNext(p)
      <3>1. ASSUME NEW n \in DOMAIN GroupList, GotGroup(p, n)'
            PROVE  /\ FirstGroupNext(group_indexes'[p][n], GroupList[n])
                   /\ group_indexes'[p][n] < i'[p]
        <4>1. GotGroup(p, n)
          BY <1>1, <2>1, <2>5, <3>1 DEF GotGroup, GroupSteps, EventSteps
        <4>2. FirstGroup(group_indexes[p][n], GroupList[n])
          BY <1>3, <4>1
        <4>3. /\ group_indexes[p][n] \in Nat
              /\ group_indexes[p][n] < num_alloc_groups_
          BY <4>2, Ranges DEF FirstGroup
        <4>4. group_indexes[p][n] < num_alloc_groups_'
          BY <1>1, <2>1, <4>3
        <4>5. group_name_' = group_name_ /\ group_indexes'[p][n] = group_indexes[p][n]
              /\ i'[p] = num_alloc_groups_
          BY <2>1, <2>2
        <4>6. FirstGroupNext(group_indexes[p][n], GroupList[n])
          BY <4>2, <4>4, <4>5 DEF FirstGroup, FirstGroupNext
        <4> QED BY <4>3, <4>5, <4>6
      <3>2. \A e \in DOMAIN EventList : ~GotEvent(p, e)'
        BY <2>5 DEF GotEvent, EventSteps
      <3> QED BY <3>1, <3>2 DEF HandlesNext
    <2> QED BY <2>3, <2>4, <2>5
  <1> QED BY <1>4, <1>5, <1>6

LEMMA OwnInit ==
  ASSUME TypeOK, AllPlaced, NEW p \in Processes, Exact(p), Handles(p), GroupInit(p)
  PROVE  Exact(p)' /\ HandlesNext(p)
  <1>0. FileTyped /\ LocalsTyped /\ Placed(p)
    BY TypesAre DEF AllPlaced
  <1>1. /\ pc[p] = "group_init" /\ k[p] \in DOMAIN GroupList
        /\ i[p] \in Indices /\ num_alloc_groups_ \in Nat
        /\ group_name_ \in [Indices -> NamesOf(GroupList)]
        /\ num_alloc_counters_ \in [Indices -> Nat]
        /\ group_indexes[p] \in [DOMAIN GroupList -> Indices \cup {-1}]
    BY <1>0, FieldTypes DEF GroupInit, Placed, GroupSteps, FileTyped
  <1>2. /\ \A h \in Indices : h < i[p] => group_name_[h] # GroupList[k[p]]
        /\ i[p] + 1 = num_alloc_groups_
    BY <1>1 DEF Exact, NotBefore, GroupSteps
  <1>3. \A n \in DOMAIN GroupList : GotGroup(p, n) =>
          FirstGroup(group_indexes[p][n], GroupList[n]) /\ group_indexes[p][n] < i[p]
    BY <1>1 DEF Handles
  <1>4. /\ group_indexes' = [group_indexes EXCEPT ![p][k[p]] = i[p]]
        /\ group_name_' = [group_name_ EXCEPT ![i[p]] = GroupList[k[p]]]
        /\ num_alloc_counters_' = [num_alloc_counters_ EXCEPT ![i[p]] = 0]
        /\ Advance(p, GroupList, "groups", "events")
        /\ UNCHANGED <<event_cnt, num_alloc_groups_>>
    BY DEF GroupInit
  <1>5. TookGroup(p)
    BY <1>0, <1>1, <1>4, GroupTaken DEF GroupSteps
  <1>6. /\ group_name_'[i[p]] = GroupList[k[p]]
        /\ \A h \in Indices : h # i[p] => group_name_'[h] = group_name_[h]
        /\ \A g \in Indices : num_alloc_counters_'[g] \in Nat
    BY <1>1, <1>4
  <1>7. \A h \in Indices : h \in Nat
    BY Ranges
  <1>8. HandlesNext(p)
    <2>1. ASSUME NEW n \in DOMAIN GroupList, GotGroup(p, n)'
          PROVE  FirstGroupNext(group_indexes'[p][n], GroupList[n])
      <3>0. group_indexes'[p] = [group_indexes[p] EXCEPT ![k[p]] = i[p]]
        BY <1>5 DEF TookGroup
      <3>1. CASE n = k[p]
        <4>1. group_indexes'[p][n] = i[p]
          BY <1>1, <3>0, <3>1
        <4>2. i[p] < num_alloc_groups_'
          BY <1>1, <1>2, <1>4, <1>7
        <4>3. \A h \in Indices : h < i[p] => group_name_'[h] # GroupList[n]
          BY <1>1, <1>2, <1>6, <1>7, <3>1
        <4> QED BY <1>1, <1>6, <3>1, <4>1, <4>2, <4>3 DEF FirstGroupNext
      <3>2. CASE n # k[p]
        <4>1. GotGroup(p, n)
          BY <1>5, <2>1, <3>2 DEF TookGroup
        <4>2. group_indexes'[p][n] = group_indexes[p][n]
          BY <1>1, <3>0, <3>2
        <4> DEFINE g == group_indexes[p][n]
        <4>3. FirstGroup(g, GroupList[n]) /\ g < i[p]
          BY <1>3, <4>1
        <4> HIDE DEF g
        <4>4. g \in Indices /\ g \in Nat /\ i[p] \in Nat
          BY <1>1, <1>7, <4>3 DEF FirstGroup
        <4>5. g < num_alloc_groups_'
          BY <1>4, <4>3 DEF FirstGroup
        <4>6. ASSUME NEW h \in Indices, h <= g
              PROVE  group_name_'[h] = group_name_[h]
          <5>1. h \in Nat
            BY <1>7
          <5>2. h # i[p]
            BY <4>3, <4>4, <4>6, <5>1
          <5> QED BY <1>6, <5>2
        <4>7. FirstGroupNext(g, GroupList[n])
          BY <1>7, <4>3, <4>4, <4>5, <4>6 DEF FirstGroup, FirstGroupNext
        <4> QED BY <4>2, <4>7 DEF g
      <3> QED BY <3>1, <3>2
    <2>2. pc'[p] # "group_init" /\ \A e \in DOMAIN EventList : ~GotEvent(p, e)'
      BY <1>5 DEF TookGroup
    <2> QED BY <2>1, <2>2 DEF HandlesNext
  <1>9. Exact(p)'
    <2>1. i'[p] = 0 /\ pc'[p] \in {"groups", "events"}
      BY <1>5 DEF TookGroup
    <2>2. ASSUME pc'[p] = "events" PROVE InGroup(p)' \in Indices
      <3>1. AllPlaced'
        BY TypesNext DEF Next, Step
      <3>2. k'[p] = 1 /\ 1 \in DOMAIN EventList
        BY <1>5, <2>2, Lengths DEF TookGroup
      <3>3. EventList[1].group \in DOMAIN GroupList
        BY <3>2, Lists
      <3>4. GotGroup(p, EventList[1].group)'
        BY <2>2 DEF GotGroup, EventSteps
      <3>5. Placed(p)'
        BY <3>1 DEF AllPlaced
      <3>6. group_indexes'[p][EventList[1].group] \in Indices
        BY <3>3, <3>4, <3>5 DEF Placed
      <3> QED BY <3>2, <3>6 DEF InGroup, Group
    <2>3. pc'[p] = "events" => 0 <= num_alloc_counters_'[InGroup(p)']
      BY <1>6, <2>2
    <2>4. 0 <= num_alloc_groups_'
      BY <1>1, <1>4
    <2>5. (\A h \in Indices : ~(h < 0)) /\ (\A d \in Places : ~(d < 0))
      BY Ranges
    <2>6. NotBefore(p)'
      BY <2>1, <2>5 DEF NotBefore
    <2> QED BY <2>1, <2>3, <2>4, <2>6 DEF Exact
  <1> QED BY <1>8, <1>9

LEMMA OwnEvents ==
  ASSUME TypeOK, AllPlaced, NEW p \in Processes, Exact(p), Handles(p),
         EventKnown(p) \/ EventOther(p) \/ EventName(p) \/ EventCount(p)
  PROVE  Registering(p)' => Exact(p)' /\ HandlesNext(p)
  <1>0. FileTyped /\ LocalsTyped /\ Placed(p)
    BY TypesAre DEF AllPlaced
  <1>1. /\ pc[p] \in EventSteps /\ k[p] \in DOMAIN EventList
        /\ i[p] \in Nat /\ InGroup(p) \in Indices
        /\ \A g \in Indices : num_alloc_counters_[g] \in Nat
        /\ event_cnt[p] \in [DOMAIN EventList -> Places \cup {-1}]
    BY <1>0, FieldTypes, GroupsGot
    DEF EventKnown, EventOther, EventName, EventCount, MayScan, EventSteps,
        FileTyped
  <1>2. /\ \A d \in Places : d < i[p] =>
             rt_counters_[InGroup(p)][d].cnt_name # EventList[k[p]].name
        /\ i[p] <= num_alloc_counters_[InGroup(p)]
    <2>1. \A d \in Places : d < i[p] =>
             rt_counters_[InGroup(p)][d].cnt_name # EventList[k[p]].name
      BY <1>1 DEF Exact, NotBefore
    <2>2. i[p] <= num_alloc_counters_[InGroup(p)]
      BY <1>1 DEF Exact, EventSteps
    <2> QED BY <2>1, <2>2
  <1>3. \A e \in DOMAIN EventList : GotEvent(p, e) =>
          FirstCounter(Group(p, e), event_cnt[p][e], EventList[e].name)
    BY DEF Handles
  <1>4. \A n \in DOMAIN GroupList :
          /\ GotGroup(p, n) /\ FirstGroup(group_indexes[p][n], GroupList[n])
          /\ group_indexes[p][n] \in Indices
    BY <1>1 DEF Handles, GotGroup, FirstGroup
  <1>5. \A e \in DOMAIN EventList : Group(p, e) \in Indices
    BY <1>4, Lists DEF Group
  <1>6. (\A d \in Places : ~(d < 0)) /\ (\A d \in Places : d \in Nat)
    BY Ranges
  (* The name stands at i[p], found or counted now.                        *)
  <1>7. ASSUME TookCounter(p), FirstCounterNext(InGroup(p), i[p], EventList[k[p]].name),
               UNCHANGED <<num_alloc_groups_, group_name_>>,
               \A e \in DOMAIN EventList : \A c, x :
                 FirstCounter(Group(p, e), c, x) => FirstCounterNext(Group(p, e), c, x)
        PROVE  Exact(p)' /\ HandlesNext(p)
    <2>1. /\ i'[p] = 0 /\ pc'[p] \in {"events", "finish"}
          /\ group_indexes'[p] = group_indexes[p]
          /\ event_cnt'[p] = [event_cnt[p] EXCEPT ![k[p]] = i[p]]
          /\ pc'[p] = "events" => k'[p] \in DOMAIN EventList
      BY <1>7 DEF TookCounter
    <2>2. ASSUME NEW n \in DOMAIN GroupList
          PROVE  FirstGroupNext(group_indexes'[p][n], GroupList[n])
      <3>1. FirstGroup(group_indexes[p][n], GroupList[n])
        BY <1>4
      <3> QED BY <1>7, <2>1, <3>1 DEF FirstGroup, FirstGroupNext
    <2>3. ASSUME NEW e \in DOMAIN EventList, GotEvent(p, e)'
          PROVE  FirstCounterNext(Group(p, e), event_cnt'[p][e], EventList[e].name)
      <3>1. GotEvent(p, e) \/ e = k[p]
        BY <1>7, <2>3 DEF TookCounter
      <3>2. CASE e = k[p]
        <4>1. event_cnt'[p][e] = i[p]
          BY <1>1, <2>1, <3>2
        <4> QED BY <1>7, <3>2, <4>1 DEF InGroup
      <3>3. CASE e # k[p]
        <4>1. event_cnt'[p][e] = event_cnt[p][e]
          BY <1>1, <2>1, <3>3
        <4> QED BY <1>3, <1>7, <3>1, <3>3, <4>1
      <3> QED BY <3>2, <3>3
    <2>4. HandlesNext(p)
      BY <2>1, <2>2, <2>3 DEF HandlesNext, Group
    <2>5. \A g \in Indices : num_alloc_counters_'[g] \in Nat
      <3>1. FileTyped'
        BY FileTypesNext DEF Step
      <3> QED BY <3>1 DEF FileTyped
    <2>6. pc'[p] = "events" => 0 <= num_alloc_counters_'[InGroup(p)']
      <3> SUFFICES ASSUME pc'[p] = "events"
                   PROVE  0 <= num_alloc_counters_'[InGroup(p)']
        OBVIOUS
      <3>1. EventList[k'[p]].group \in DOMAIN GroupList
        BY <2>1, Lists
      <3>2. InGroup(p)' \in Indices
        BY <1>4, <2>1, <3>1 DEF InGroup, Group
      <3> QED BY <2>5, <3>2
    <2>7. Exact(p)'
      BY <1>6, <2>1, <2>6 DEF Exact, NotBefore, GroupSteps
    <2> QED BY <2>4, <2>7
  <1>8. CASE EventKnown(p)
    <2>1. /\ i[p] \in Places /\ i[p] < num_alloc_counters_[InGroup(p)]
          /\ rt_counters_[InGroup(p)][i[p]].cnt_name = EventList[k[p]].name
          /\ event_cnt' = [event_cnt EXCEPT ![p][k[p]] = i[p]]
          /\ Advance(p, EventList, "events", "finish") /\ UNCHANGED group_indexes
      BY <1>8 DEF EventKnown, EventFound
    <2>2. TookCounter(p)
      BY <1>0, <1>1, <2>1, CounterTaken
    <2>3. FirstCounter(InGroup(p), i[p], EventList[k[p]].name)
      BY <1>2, <2>1 DEF FirstCounter
    <2>4. SameTables
      BY <1>8 DEF EventKnown, file, SameTables
    <2>5. \A g \in Indices : \A c, x : FirstCounterNext(g, c, x) <=> FirstCounter(g, c, x)
      BY <2>4, FirstKept
    <2>6. UNCHANGED <<num_alloc_groups_, group_name_>>
      BY <2>4 DEF SameTables
    <2> QED BY <1>1, <1>5, <1>7, <2>2, <2>3, <2>5, <2>6
  <1>9. CASE EventOther(p)
    <2>1. /\ i[p] \in Places /\ i[p] < num_alloc_counters_[InGroup(p)]
          /\ rt_counters_[InGroup(p)][i[p]].cnt_name # EventList[k[p]].name
          /\ i' = [i EXCEPT ![p] = i[p] + 1] /\ pc[p] = "events"
          /\ UNCHANGED <<pc, k, group_indexes, event_cnt>>
          /\ UNCHANGED <<num_alloc_counters_, rt_counters_>>
          /\ SameTables
      BY <1>9 DEF EventOther, MayScan, EventFound, file, SameTables
    <2>2. i'[p] = i[p] + 1
      BY <1>0, <2>1 DEF LocalsTyped
    <2>3. HandlesNext(p)
      BY <2>1, HandlesStay DEF GotGroup, GotEvent
    <2>4. ASSUME NEW d \in Places, d < i[p] + 1
          PROVE  rt_counters_[InGroup(p)][d].cnt_name # EventList[k[p]].name
      <3>1. d < i[p] \/ d = i[p]
        BY <1>1, <1>6, <2>4
      <3> QED BY <1>2, <2>1, <3>1
    <2>5. num_alloc_counters_[InGroup(p)] \in Nat
      BY <1>1
    <2>6. i[p] + 1 <= num_alloc_counters_[InGroup(p)]
      BY <1>1, <2>1, <2>5
    <2>7. InGroup(p)' = InGroup(p) /\ pc'[p] = "events" /\ k'[p] = k[p]
      BY <2>1 DEF InGroup, Group
    <2>8. Exact(p)'
      BY <2>1, <2>2, <2>4, <2>6, <2>7 DEF Exact, NotBefore, GroupSteps
    <2> QED BY <2>3, <2>8
  <1>10. CASE EventName(p)
    <2>1. /\ UNCHANGED <<num_alloc_groups_, group_name_, num_alloc_counters_>>
          /\ UNCHANGED <<k, i, group_indexes, event_cnt>>
          /\ i[p] >= num_alloc_counters_[InGroup(p)]
      BY <1>10 DEF EventName, locals
    <2>2. pc \in [Processes -> Steps] /\ pc[p] = "events"
      BY <1>0, <1>10 DEF LocalsTyped, EventName, MayScan
    <2>3. num_alloc_counters_[InGroup(p)] \in Nat
      BY <1>1
    <2>4. i[p] = num_alloc_counters_[InGroup(p)]
      BY <1>1, <1>2, <2>1, <2>3
    <2>5. CASE ~(num_alloc_counters_[InGroup(p)] < NUM_COUNTERS - 1)
      <3>1. pc'[p] = "aborted"
        BY <1>10, <2>2, <2>5 DEF EventName, Goto
      <3> QED BY <3>1 DEF Registering, Resting
    <2>6. CASE num_alloc_counters_[InGroup(p)] < NUM_COUNTERS - 1
      <3>1. pc'[p] = "event_count"
        BY <1>10, <2>2, <2>6 DEF EventName, Goto
      <3>2. i[p] \in Places
        BY <2>3, <2>4, <2>6, Ranges, Sizes
      <3>3. rt_counters_' = [rt_counters_ EXCEPT
              ![InGroup(p)][i[p]].cnt_name = EventList[k[p]].name]
        BY <1>10, <2>6 DEF EventName
      <3>4. EventList[k[p]].name \in EventNames
        BY <1>1 DEF EventNames
      <3>5. /\ rt_counters_'[InGroup(p)][i[p]].cnt_name = EventList[k[p]].name
            /\ \A h \in Indices, d \in Places :
                 h # InGroup(p) \/ d # i[p] => rt_counters_'[h][d] = rt_counters_[h][d]
        BY <1>0, <1>1, <3>2, <3>3, <3>4, NameWritten DEF FileTyped
      <3>6. InGroup(p)' = InGroup(p)
        BY <2>1 DEF InGroup, Group
      <3>7. \A d \in Places : d < i[p] => d # i[p]
        BY <1>1, <1>6
      <3>8. Exact(p)'
        <4>1. NotBefore(p)'
          BY <1>1, <1>2, <2>1, <3>1, <3>5, <3>6, <3>7 DEF NotBefore, GroupSteps
        <4>2. i'[p] = num_alloc_counters_'[InGroup(p)'] /\ EventFound(p)'
          BY <2>1, <2>4, <3>5, <3>6 DEF EventFound
        <4> QED BY <3>1, <4>1, <4>2 DEF Exact
      <3>9. HandlesNext(p)
        <4>1. ASSUME NEW n \in DOMAIN GroupList
              PROVE  FirstGroupNext(group_indexes'[p][n], GroupList[n])
          <5>1. FirstGroup(group_indexes[p][n], GroupList[n])
            BY <1>4
          <5> QED BY <2>1, <5>1 DEF FirstGroup, FirstGroupNext
        <4>2. ASSUME NEW e \in DOMAIN EventList, GotEvent(p, e)'
              PROVE  FirstCounterNext(Group(p, e), event_cnt'[p][e], EventList[e].name)
          <5>1. GotEvent(p, e)
            BY <2>1, <2>2, <3>1, <4>2 DEF GotEvent, EventSteps
          <5> DEFINE g == Group(p, e)  c == event_cnt[p][e]  x == EventList[e].name
          <5>2. FirstCounter(g, c, x) /\ g \in Indices
            BY <1>3, <1>5, <5>1
          <5>3. g = InGroup(p) => c < i[p]
            BY <2>4, <5>2 DEF FirstCounter
          <5>4. event_cnt'[p][e] = c
            BY <2>1
          <5> HIDE DEF g, c, x
          <5>5. c \in Places /\ c \in Nat
            BY <1>6, <5>2 DEF FirstCounter
          <5>6. ASSUME NEW d \in Places, d <= c
                PROVE  rt_counters_'[g][d] = rt_counters_[g][d]
            <6>1. d \in Nat
              BY <1>6
            <6>2. g = InGroup(p) => d # i[p]
              BY <1>1, <5>3, <5>5, <5>6, <6>1
            <6> QED BY <3>5, <5>2, <6>2
          <5>7. FirstCounterNext(g, c, x)
            BY <1>6, <2>1, <5>2, <5>5, <5>6 DEF FirstCounter, FirstCounterNext
          <5> QED BY <5>4, <5>7 DEF g, c, x
        <4> QED BY <2>1, <3>1, <4>1, <4>2 DEF HandlesNext, Group
      <3> QED BY <3>8, <3>9
    <2> QED BY <2>5, <2>6
  <1>11. CASE EventCount(p)
    <2>1. /\ pc[p] = "event_count"
          /\ num_alloc_counters_' = [num_alloc_counters_ EXCEPT
               ![InGroup(p)] = num_alloc_counters_[InGroup(p)] + 1]
          /\ event_cnt' = [event_cnt EXCEPT ![p][k[p]] = i[p]]
          /\ Advance(p, EventList, "events", "finish")
          /\ UNCHANGED <<num_alloc_groups_, group_name_, rt_counters_, group_indexes>>
      BY <1>11 DEF EventCount
    <2>2. i[p] \in Places
      BY <1>0, <2>1 DEF Placed
    <2>3. TookCounter(p)
      BY <1>0, <1>1, <2>1, <2>2, CounterTaken
    <2>4. /\ i[p] = num_alloc_counters_[InGroup(p)]
          /\ rt_counters_[InGroup(p)][i[p]].cnt_name = EventList[k[p]].name
      BY <2>1 DEF Exact, EventFound
    <2>5. num_alloc_counters_ \in [Indices -> Nat]
      BY <1>0 DEF FileTyped
    <2>6. /\ num_alloc_counters_'[InGroup(p)] = i[p] + 1
          /\ \A g \in Indices : num_alloc_counters_'[g] \in Nat
          /\ \A g \in Indices : num_alloc_counters_[g] <= num_alloc_counters_'[g]
      <3>1. num_alloc_counters_'[InGroup(p)] = num_alloc_counters_[InGroup(p)] + 1
        BY <1>1, <2>1, <2>5
      <3>2. \A g \in Indices : g # InGroup(p) =>
              num_alloc_counters_'[g] = num_alloc_counters_[g]
        BY <2>1, <2>5
      <3>3. ASSUME NEW g \in Indices
            PROVE  /\ num_alloc_counters_'[g] \in Nat
                   /\ num_alloc_counters_[g] <= num_alloc_counters_'[g]
        <4>1. num_alloc_counters_[g] \in Nat
          BY <1>1
        <4> QED BY <3>1, <3>2, <4>1
      <3> QED BY <2>4, <3>1, <3>3
    <2>7. FirstCounterNext(InGroup(p), i[p], EventList[k[p]].name)
      <3>1. i[p] < num_alloc_counters_'[InGroup(p)]
        BY <1>1, <2>6
      <3> QED BY <1>2, <2>1, <2>2, <2>4, <3>1 DEF FirstCounterNext
    <2>8. ASSUME NEW e \in DOMAIN EventList, NEW c, NEW x, FirstCounter(Group(p, e), c, x)
          PROVE  FirstCounterNext(Group(p, e), c, x)
      <3> DEFINE g == Group(p, e)
      <3>1. g \in Indices /\ FirstCounter(g, c, x)
        BY <1>5, <2>8
      <3> HIDE DEF g
      <3>2. c \in Nat /\ c < num_alloc_counters_[g]
        BY <1>6, <3>1 DEF FirstCounter
      <3>3. /\ num_alloc_counters_[g] \in Nat /\ num_alloc_counters_'[g] \in Nat
            /\ num_alloc_counters_[g] <= num_alloc_counters_'[g]
        BY <1>1, <2>6, <3>1
      <3>4. c < num_alloc_counters_'[g]
        BY <3>2, <3>3
      <3>5. FirstCounterNext(g, c, x)
        BY <2>1, <3>1, <3>4 DEF FirstCounter, FirstCounterNext
      <3> QED BY <3>5 DEF g
    <2> QED BY <1>7, <2>1, <2>3, <2>7, <2>8
  <1> QED BY <1>8, <1>9, <1>10, <1>11

(* Where the program counter of p goes.                                    *)
LEMMA PcMoves ==
  ASSUME TypeOK, AllPlaced, NEW p \in Processes, Step(p)
  PROVE  /\ pc'[p] = "ready" => Finish(p) \/ pc[p] = "ready"
         /\ ~Registering(p) =>
              \/ RT_debug_init(p) /\ pc[p] = "down" /\ pc'[p] \in {"attach", "create"}
              \/ (\E e \in DOMAIN EventList : SetCounter(p, e))
                   /\ pc[p] = "ready" /\ pc'[p] = "ready"
              \/ Crash(p) /\ pc'[p] = "down"
         /\ pc[p] # "down" => UNCHANGED alone
         /\ RT_debug_init(p) \/ Finish(p) \/ UNCHANGED sound
  <1>0. LocalsTyped /\ pc \in [Processes -> Steps] /\ Placed(p)
    BY TypesAre DEF LocalsTyped, AllPlaced
  <1> USE DEF Registering, Resting
  <1>1. CASE GroupKnown(p)
    <2>1. TookGroup(p) /\ pc[p] = "groups" /\ UNCHANGED <<alone, sound>>
      BY <1>0, <1>1, GroupTaken DEF GroupKnown, GroupSteps, history
    <2> QED BY <2>1 DEF TookGroup
  <1>2. CASE GroupInit(p)
    <2>1. TookGroup(p) /\ pc[p] = "group_init" /\ UNCHANGED <<alone, sound>>
      BY <1>0, <1>2, GroupTaken DEF GroupInit, GroupSteps, history
    <2> QED BY <2>1 DEF TookGroup
  <1>3. CASE EventKnown(p)
    <2>1. TookCounter(p) /\ pc[p] = "events" /\ UNCHANGED <<alone, sound>>
      BY <1>0, <1>3, CounterTaken DEF EventKnown, MayScan, EventSteps, history
    <2> QED BY <2>1 DEF TookCounter
  <1>4. CASE EventCount(p)
    <2>1. i[p] \in Places
      BY <1>0, <1>4 DEF EventCount, Placed
    <2>2. TookCounter(p) /\ pc[p] = "event_count" /\ UNCHANGED <<alone, sound>>
      BY <1>0, <1>4, <2>1, CounterTaken DEF EventCount, EventSteps, history
    <2> QED BY <2>2 DEF TookCounter
  <1>5. CASE \/ GroupOther(p) \/ GroupCount(p) \/ EventOther(p) \/ EventName(p)
             \/ GetDebugGrpAsserts(p)
    BY <1>0, <1>5
    DEF GroupOther, GroupCount, EventOther, EventName, MayScan,
        GetDebugGrpAsserts, Goto, history
  <1>6. CASE \/ Attach(p) \/ Create(p) \/ Truncate(p) \/ Wipe(p) \/ ResetGroups(p)
             \/ RTDBG_Start(p)
    BY <1>0, <1>6
    DEF Attach, Create, Truncate, Wipe, ResetGroups, RTDBG_Start, Goto, history
  <1>7. CASE Overrun(p)
    <2>1. pc'[p] = "overrun" /\ UNCHANGED <<alone, sound>>
      BY <1>0, <1>7 DEF Overrun, Goto
    <2>2. pc[p] \in {"groups", "group_init", "events"}
      BY <1>7 DEF Overrun, PastGroups, PastCounters, MayScan
    <2> QED BY <2>1, <2>2
  <1>8. CASE RT_debug_init(p)
    <2>1. pc[p] = "down" /\ pc'[p] \in {"attach", "create"}
      BY <1>0, <1>8 DEF RT_debug_init, Goto
    <2> QED BY <1>8, <2>1
  <1>9. CASE Finish(p)
    <2>1. pc[p] = "finish" /\ UNCHANGED alone
      BY <1>9 DEF Finish
    <2> QED BY <1>9, <2>1
  <1>10. ASSUME NEW e \in DOMAIN EventList, SetCounter(p, e)
         PROVE  pc[p] = "ready" /\ pc'[p] = "ready" /\ UNCHANGED <<alone, sound>>
    BY <1>10 DEF SetCounter, history
  <1>11. CASE Crash(p)
    <2>1. pc'[p] = "down" /\ UNCHANGED <<alone, sound>>
      BY <1>0, <1>11 DEF Crash, Goto
    <2> QED BY <1>11, <2>1
  <1> QED BY <1>1, <1>2, <1>3, <1>4, <1>5, <1>6, <1>7, <1>8, <1>9, <1>10, <1>11
          DEF Step

(* A process with nothing behind it that is wrong goes on that way.        *)
LEMMA StartStep ==
  ASSUME TypeOK, AllPlaced, NEW p \in Processes, Step(p), Registering(p),
         Exact(p), Handles(p)
  PROVE  /\ Registering(p)' => Exact(p)'
         /\ Registering(p)' \/ pc'[p] = "ready" => HandlesNext(p)
  <1>0. /\ FileTyped /\ LocalsTyped /\ Placed(p) /\ pc \in [Processes -> Steps]
        /\ num_alloc_groups_ \in Nat
    BY TypesAre DEF AllPlaced, LocalsTyped, FileTyped
  <1>1. CASE ListStep(p)
    <2>1. pc'[p] # "ready"
      <3>1. ~Finish(p)
        BY <1>1
        DEF ListStep, GroupKnown, GroupOther, GroupCount, GroupInit, EventKnown,
            EventOther, EventName, EventCount, MayScan, Finish
      <3> QED BY <3>1, PcMoves DEF Registering, Resting
    <2> QED BY <1>1, <2>1, OwnGroups, OwnInit, OwnEvents DEF ListStep
  <1>2. CASE \/ Attach(p) \/ Create(p) \/ Truncate(p) \/ Wipe(p) \/ ResetGroups(p)
             \/ RTDBG_Start(p)
    <2>1. /\ pc[p] \in FileSteps /\ UNCHANGED <<k, i>>
          /\ pc'[p] \in FileSteps \cup {"groups", "failed"}
          /\ pc'[p] = "groups" => UNCHANGED num_alloc_groups_
      BY <1>0, <1>2
      DEF Attach, Create, Truncate, Wipe, ResetGroups, RTDBG_Start, Goto,
          locals, file, FileSteps
    <2>2. k'[p] = 1 /\ i'[p] = 0
      BY <1>0, <2>1 DEF Placed
    <2>3. Exact(p)'
      <3>1. \A h \in Indices : ~(h < 0)
        BY Ranges
      <3>2. pc'[p] \notin EventSteps \cup {"group_init"}
        BY <2>1 DEF FileSteps, EventSteps
      <3>3. pc'[p] = "groups" => i'[p] <= num_alloc_groups_'
        BY <1>0, <2>1, <2>2
      <3> QED BY <2>2, <3>1, <3>2, <3>3 DEF Exact, NotBefore, EventSteps
    <2>4. HandlesNext(p)
      <3>1. \A n \in DOMAIN GroupList : ~(n < 1)
        BY Lengths
      <3>2. \A n \in DOMAIN GroupList : ~GotGroup(p, n)'
        BY <2>1, <2>2, <3>1 DEF GotGroup, FileSteps, EventSteps
      <3>3. \A e \in DOMAIN EventList : ~GotEvent(p, e)'
        BY <2>1 DEF GotEvent, FileSteps, EventSteps
      <3> QED BY <3>2, <3>3 DEF HandlesNext
    <2> QED BY <2>3, <2>4
  <1>3. CASE GetDebugGrpAsserts(p) \/ Overrun(p) \/ Crash(p)
    <2>1. pc'[p] \in {"aborted", "overrun", "down"}
      BY <1>0, <1>3 DEF GetDebugGrpAsserts, Overrun, Crash, Goto
    <2> QED BY <2>1 DEF Registering, Resting
  <1>4. CASE Finish(p)
    <2>1. /\ pc[p] = "finish" /\ pc'[p] = "ready" /\ SameTables
          /\ UNCHANGED <<group_indexes, event_cnt>>
      BY <1>0, <1>4 DEF Finish, Goto, locals, SameTables
    <2>2. \A n : GotGroup(p, n)
      BY <2>1 DEF GotGroup
    <2>3. \A e : GotEvent(p, e)
      BY <2>1 DEF GotEvent
    <2> QED BY <2>1, <2>2, <2>3, HandlesStay DEF Registering, Resting
  <1> QED BY <1>1, <1>2, <1>3, <1>4, StepIs
          DEF OtherStep, RT_debug_init, SetCounter, Registering, Resting

-----------------------------------------------------------------------------
(***************************************************************************)
(* Processes that start once one has started alone                         *)
(***************************************************************************)

(* A process that finds all it asks for has passed nothing it asks for.    *)
LEMMA FindsExact ==
  ASSUME TypeOK, AllPlaced, NEW p \in Processes, Registering(p), Finds(p)
  PROVE  /\ Exact(p)
         /\ pc[p] = "groups" => i[p] < num_alloc_groups_ /\ i[p] \in Indices
         /\ pc[p] = "events" => i[p] < num_alloc_counters_[InGroup(p)] /\ i[p] \in Places
  <1>0. FileTyped /\ LocalsTyped /\ i[p] \in Nat /\ num_alloc_groups_ \in Nat
    BY TypesAre, FieldTypes DEF FileTyped
  <1>1. pc[p] \in {"attach", "groups", "events", "finish"}
    BY DEF Finds
  <1>2. CASE pc[p] = "groups"
    <2>1. PICK g \in Indices : g >= i[p] /\ FirstGroup(g, GroupList[k[p]])
      BY <1>2 DEF Finds
    <2>2. g \in Nat /\ \A h \in Indices : h \in Nat
      BY Ranges
    <2>3. g < num_alloc_groups_
      BY <2>1 DEF FirstGroup
    <2>4. /\ i[p] < num_alloc_groups_ /\ i[p] \in Indices
          /\ \A h \in Indices : h < i[p] => h < g
      BY <1>0, <2>1, <2>2, <2>3, Ranges, Sizes
    <2>5. \A h \in Indices : h < i[p] => group_name_[h] # GroupList[k[p]]
      BY <2>1, <2>4 DEF FirstGroup
    <2>6. i[p] <= num_alloc_groups_
      BY <1>0, <2>4
    <2> QED BY <1>2, <2>4, <2>5, <2>6 DEF Exact, NotBefore, EventSteps
  <1>3. CASE pc[p] = "events"
    <2> DEFINE g == InGroup(p)
    <2>1. PICK c \in Places : c >= i[p] /\ FirstCounter(g, c, EventList[k[p]].name)
      BY <1>3 DEF Finds
    <2>2. c \in Nat /\ \A d \in Places : d \in Nat
      BY Ranges
    <2>3. g \in Indices
      BY <1>3, GroupsGot DEF EventSteps
    <2>4. num_alloc_counters_[g] \in Nat
      BY <1>0, <2>3 DEF FileTyped
    <2>5. c < num_alloc_counters_[g]
      BY <2>1 DEF FirstCounter
    <2>6. /\ i[p] < num_alloc_counters_[g] /\ i[p] <= num_alloc_counters_[g]
          /\ i[p] \in Places /\ \A d \in Places : d < i[p] => d < c
      <3> HIDE DEF g
      <3> QED BY <1>0, <2>1, <2>2, <2>4, <2>5, Ranges, Sizes
    <2>7. \A d \in Places : d < i[p] => rt_counters_[g][d].cnt_name # EventList[k[p]].name
      BY <2>1, <2>6 DEF FirstCounter
    <2> QED BY <1>3, <2>6, <2>7 DEF Exact, NotBefore, GroupSteps
  <1>4. CASE pc[p] \in {"attach", "finish"}
    BY <1>4 DEF Exact, NotBefore, GroupSteps, EventSteps
  <1> QED BY <1>1, <1>2, <1>3, <1>4

(* Once a process has started alone, no step changes what names are where. *)
LEMMA SettledSame ==
  ASSUME TypeOK, AllPlaced, Settled, settled, NEW p \in Processes, Step(p)
  PROVE  SameTables /\ UNCHANGED <<setup, size>>
  <1>0. /\ FileTyped /\ LocalsTyped /\ i[p] \in Nat /\ num_alloc_groups_ \in Nat
        /\ Placed(p)
    BY TypesAre, FieldTypes DEF FileTyped, AllPlaced
  <1>1. CASE Registering(p)
    <2>1. Finds(p)
      BY <1>1 DEF Settled
    <2>2. pc[p] \in {"attach", "groups", "events", "finish"}
      BY <2>1 DEF Finds
    <2>3. ASSUME GroupCount(p) PROVE FALSE
      <3>1. pc[p] = "groups" /\ i[p] >= num_alloc_groups_
        BY <2>3 DEF GroupCount
      <3> QED BY <1>0, <1>1, <2>1, <3>1, FindsExact
    <2>4. ASSUME EventName(p) PROVE FALSE
      <3>1. pc[p] = "events" /\ i[p] >= num_alloc_counters_[InGroup(p)]
        BY <2>4 DEF EventName, MayScan
      <3>2. InGroup(p) \in Indices
        BY <3>1, GroupsGot DEF EventSteps
      <3>3. num_alloc_counters_[InGroup(p)] \in Nat
        BY <1>0, <3>2 DEF FileTyped
      <3> QED BY <1>0, <1>1, <2>1, <3>1, <3>3, FindsExact
    <2> QED BY <2>2, <2>3, <2>4, TablesStay
  <1>2. CASE ~Registering(p)
    BY <1>2, TablesStay DEF Registering, Resting, GroupCount, EventName, MayScan
  <1> QED BY <1>1, <1>2

LEMMA ExactStays ==
  ASSUME AllPlaced, NEW q \in Processes, Exact(q), Stays(q), SameTables
  PROVE  Exact(q)'
  <1>1. /\ pc'[q] = pc[q] /\ k'[q] = k[q] /\ i'[q] = i[q] /\ InGroup(q)' = InGroup(q)
        /\ num_alloc_groups_' = num_alloc_groups_ /\ group_name_' = group_name_
        /\ num_alloc_counters_' = num_alloc_counters_
    BY DEF Stays, InGroup, Group, SameTables
  <1>2. ASSUME pc[q] \in EventSteps, NEW d \in Places
        PROVE  rt_counters_'[InGroup(q)][d].cnt_name = rt_counters_[InGroup(q)][d].cnt_name
    <2>1. InGroup(q) \in Indices
      BY <1>2, GroupsGot
    <2> QED BY <2>1 DEF SameTables
  <1>3. NotBefore(q)'
    BY <1>1, <1>2 DEF Exact, NotBefore
  <1>4. pc[q] = "event_count" => EventFound(q)'
    <2>1. pc[q] = "event_count" => i[q] \in Places
      BY DEF AllPlaced, Placed
    <2> QED BY <1>1, <1>2, <2>1 DEF Exact, EventFound, EventSteps
  <1> QED BY <1>1, <1>3, <1>4 DEF Exact

(* A process that starts alone stays so until it is done or another joins. *)
LEMMA MineNext ==
  ASSUME TypeOK, AllPlaced, Mine, HandlesRight, NEW p \in Processes, Step(p)
  PROVE  Mine'
  <1> SUFFICES ASSUME NEW q \in Processes, alone'[q], Registering(q)'
               PROVE  Own(q)'
    BY DEF Mine
  <1>1. \A r \in Processes : r # p => Stays(r)
    BY OthersStay
  <1>2. \A r \in Processes : r # p => (Registering(r)' <=> Registering(r))
    BY <1>1 DEF Stays, Registering
  <1>3. CASE q = p /\ Registering(p)
    <2>1. alone[p]
      BY <1>3, PcMoves DEF Registering, Resting
    <2>2. Own(p) /\ Handles(p)
      BY <1>3, <2>1 DEF Mine, HandlesRight, Sure
    <2>3. Exact(p)'
      BY <1>3, <2>2, StartStep DEF Own
    <2> QED BY <1>2, <1>3, <2>2, <2>3 DEF Own
  <1>4. CASE q = p /\ ~Registering(p)
    <2>1. RT_debug_init(p) /\ pc'[p] \in {"attach", "create"}
      BY <1>4, PcMoves DEF Registering, Resting
    <2>2. \A r \in Processes : ~Registering(r)
      BY <1>4, <2>1 DEF RT_debug_init, Registering
    <2>3. Exact(p)'
      BY <2>1 DEF Exact, NotBefore, GroupSteps, EventSteps
    <2> QED BY <1>2, <1>4, <2>2, <2>3 DEF Own
  <1>5. CASE q # p
    <2>1. alone[q] /\ Registering(q) /\ Stays(q)
      BY <1>1, <1>2, <1>5 DEF Stays
    <2>2. Own(q) /\ ~Registering(p)
      BY <1>5, <2>1 DEF Mine, Own
    <2>3. ~RT_debug_init(p)
      BY <1>5, <2>1 DEF RT_debug_init, Registering
    <2>4. pc'[p] \in {"ready", "down"}
      BY <2>2, <2>3, PcMoves
    <2>5. SameTables
      BY <2>2, TablesStay
      DEF Registering, Resting, GroupCount, EventName, MayScan
    <2>6. Exact(q)'
      BY <2>1, <2>2, <2>5, ExactStays DEF Own
    <2>7. \A r \in Processes : Registering(r)' => r = q
      BY <1>2, <2>2, <2>4 DEF Own, Registering, Resting
    <2> QED BY <2>6, <2>7 DEF Own
  <1> QED BY <1>3, <1>4, <1>5

(* How the history moves.                                                  *)
LEMMA HistoryMoves ==
  ASSUME TypeOK, NEW p \in Processes, Step(p)
  PROVE  /\ settled => settled'
         /\ settled' => settled \/ (Finish(p) /\ alone[p])
         /\ clean' => clean
         /\ pc[p] # "down" => (sound'[p] => sound[p] \/ (Finish(p) /\ alone[p]))
         /\ pc[p] # "down" => (sound[p] => sound'[p])
         /\ pc[p] = "down" /\ RT_debug_init(p) => sound'[p] = settled
         /\ sound'[p] => sound[p] \/ settled'
  <1>0. /\ settled \in BOOLEAN /\ clean \in BOOLEAN
        /\ alone \in [Processes -> BOOLEAN] /\ sound \in [Processes -> BOOLEAN]
    BY DEF TypeOK
  <1>1. CASE RT_debug_init(p)
    BY <1>0, <1>1 DEF RT_debug_init
  <1>2. CASE Finish(p)
    BY <1>0, <1>2 DEF Finish
  <1>3. CASE Overrun(p) \/ Crash(p)
    <2>1. pc[p] # "down"
      BY <1>3 DEF Overrun, Crash, PastGroups, PastCounters, MayScan
    <2>2. UNCHANGED <<settled, sound>> /\ (clean' => clean)
      BY <1>0, <1>3 DEF Overrun, Crash
    <2> QED BY <2>1, <2>2
  <1>4. CASE \/ Attach(p) \/ Create(p) \/ Truncate(p) \/ Wipe(p) \/ ResetGroups(p)
             \/ RTDBG_Start(p) \/ GetDebugGrpAsserts(p)
             \/ (\E e \in DOMAIN EventList : SetCounter(p, e))
    <2>1. UNCHANGED history /\ pc[p] # "down"
      BY <1>4
      DEF Attach, Create, Truncate, Wipe, ResetGroups, RTDBG_Start,
          GetDebugGrpAsserts, SetCounter
    <2> QED BY <2>1 DEF history
  <1>5. CASE ListStep(p)
    <2>1. UNCHANGED history /\ pc[p] # "down"
      BY <1>5
      DEF ListStep, GroupKnown, GroupOther, GroupCount, GroupInit, EventKnown,
          EventOther, EventName, EventCount, MayScan
    <2> QED BY <2>1 DEF history
  <1> QED BY <1>1, <1>2, <1>3, <1>4, <1>5, StepIs DEF OtherStep

(* What p has got is right, as far as it must be, after its own step.      *)
LEMMA OwnHandles ==
  ASSUME TypeOK, AllPlaced, Mine, HandlesRight, Settled, NEW p \in Processes, Step(p),
         Sure(p)'
  PROVE  HandlesNext(p)
  <1>1. CASE pc'[p] \notin GroupSteps \cup EventSteps \cup {"finish", "ready"}
    BY <1>1 DEF HandlesNext, GotGroup, GotEvent
  <1>2. CASE Registering(p) /\ (Registering(p)' \/ pc'[p] = "ready")
    <2>1. pc[p] # "down" /\ alone' = alone
      BY <1>2, PcMoves DEF Registering, Resting
    <2>2. sound[p] \/ alone[p]
      BY <2>1, HistoryMoves DEF Sure
    <2>3. Handles(p)
      BY <1>2, <2>2 DEF HandlesRight, Sure
    <2>4. Exact(p)
      <3>1. CASE alone[p]
        BY <1>2, <3>1 DEF Mine, Own
      <3>2. CASE sound[p]
        BY <1>2, <3>2, FindsExact DEF Settled
      <3> QED BY <2>2, <3>1, <3>2
    <2> QED BY <1>2, <2>3, <2>4, StartStep
  <1>3. ASSUME NEW e \in DOMAIN EventList, SetCounter(p, e), pc'[p] = "ready"
        PROVE  HandlesNext(p)
    <2>1. UNCHANGED <<pc, k, i, group_indexes, event_cnt, sound>>
      BY <1>3 DEF SetCounter, locals, history
    <2>2. sound[p]
      BY <1>3, <2>1 DEF Sure, Registering, Resting
    <2>3. Handles(p) /\ SameTables
      BY <2>2, SettledSame DEF HandlesRight, Sure, Settled
    <2> QED BY <2>1, <2>3, HandlesStay DEF GotGroup, GotEvent
  <1>4. ~Registering(p)' => pc'[p] = "ready" \/ pc'[p] \notin GroupSteps \cup EventSteps
          \cup {"finish", "ready"}
    BY DEF Registering, Resting, GroupSteps, EventSteps
  <1>5. CASE ~Registering(p)
    BY <1>1, <1>3, <1>5, PcMoves DEF GroupSteps, EventSteps
  <1> QED BY <1>1, <1>2, <1>4, <1>5

LEMMA HandlesRightNext ==
  ASSUME TypeOK, AllPlaced, Mine, HandlesRight, Settled, NEW p \in Processes, Step(p)
  PROVE  HandlesRight'
  <1> SUFFICES ASSUME NEW q \in Processes, Sure(q)' PROVE HandlesNext(q)
    BY HandlesPrime DEF HandlesRight
  <1>1. CASE q = p
    BY <1>1, OwnHandles
  <1>2. CASE q # p
    <2>1. Stays(q)
      BY <1>2, OthersStay
    <2>2. Sure(q) /\ Handles(q)
      BY <2>1 DEF Sure, Stays, Registering, HandlesRight
    <2>3. CASE sound[q]
      BY <2>1, <2>2, <2>3, SettledSame, HandlesStay
      DEF Settled, Stays, GotGroup, GotEvent
    <2>4. CASE alone[q] /\ Registering(q)
      <3>1. ~Registering(p)
        BY <1>2, <2>4 DEF Mine, Own
      <3>2. SameTables
        BY <3>1, TablesStay
        DEF Registering, Resting, GroupCount, EventName, MayScan
      <3> QED BY <2>1, <2>2, <3>2, HandlesStay DEF Stays, GotGroup, GotEvent
    <2> QED BY <2>2, <2>3, <2>4 DEF Sure
  <1> QED BY <1>1, <1>2

-----------------------------------------------------------------------------
(***************************************************************************)
(* Once a process has started alone                                        *)
(***************************************************************************)
CompleteNext ==
  /\ \A n \in DOMAIN GroupList : \E g \in Indices : FirstGroupNext(g, GroupList[n])
  /\ \A e \in DOMAIN EventList : \A g \in Indices :
       FirstGroupNext(g, GroupList[EventList[e].group]) =>
         \E c \in Places : FirstCounterNext(g, c, EventList[e].name)
FindsNext(p) ==
  /\ sound'[p] /\ pc'[p] \in {"attach", "groups", "events", "finish"}
  /\ pc'[p] = "groups" =>
       \E g \in Indices : g >= i'[p] /\ FirstGroupNext(g, GroupList[k'[p]])
  /\ pc'[p] = "events" =>
       \E c \in Places : c >= i'[p] /\
         FirstCounterNext(group_indexes'[p][EventList[k'[p]].group], c,
                          EventList[k'[p]].name)

LEMMA SettledPrimes ==
  /\ Complete' <=> CompleteNext
  /\ \A p \in Processes : Finds(p)' <=> FindsNext(p)
  <1>1. Complete' <=> CompleteNext
    BY DEF Complete, CompleteNext, FirstGroup, FirstGroupNext, FirstCounter,
           FirstCounterNext
  <1>2. ASSUME NEW p \in Processes PROVE Finds(p)' <=> FindsNext(p)
    BY DEF Finds, FindsNext, FirstGroup, FirstGroupNext, FirstCounter,
           FirstCounterNext, InGroup, Group
  <1> QED BY <1>1, <1>2

LEMMA CompleteKept ==
  ASSUME Complete, SameTables
  PROVE  CompleteNext
  BY FirstKept DEF Complete, CompleteNext

(* A process that is at the head of a table finds what it asks for.        *)
LEMMA FindsFromHead ==
  ASSUME NEW p \in Processes, CompleteNext, HandlesNext(p), AllPlaced', sound'[p],
         i'[p] = 0, pc'[p] \in {"groups", "events"}
  PROVE  FindsNext(p)
  <1>1. Placed(p)'
    BY DEF AllPlaced
  <1>2. CASE pc'[p] = "groups"
    <2>1. k'[p] \in DOMAIN GroupList
      BY <1>1, <1>2 DEF Placed, GroupSteps
    <2>2. PICK g \in Indices : FirstGroupNext(g, GroupList[k'[p]])
      BY <2>1 DEF CompleteNext
    <2>3. g >= 0
      BY Ranges
    <2> QED BY <1>2, <2>2, <2>3 DEF FindsNext
  <1>3. CASE pc'[p] = "events"
    <2>1. k'[p] \in DOMAIN EventList
      BY <1>1, <1>3 DEF Placed, EventSteps
    <2> DEFINE e == k'[p]  n == EventList[e].group  g == group_indexes'[p][n]
    <2>2. n \in DOMAIN GroupList
      BY <2>1, Lists
    <2>3. \A m \in DOMAIN GroupList : GotGroup(p, m)'
      BY <1>3 DEF GotGroup, EventSteps
    <2>4. FirstGroupNext(g, GroupList[n])
      BY <2>2, <2>3 DEF HandlesNext
    <2>5. g \in Indices
      BY <2>4 DEF FirstGroupNext
    <2>6. PICK c \in Places : FirstCounterNext(g, c, EventList[e].name)
      BY <2>1, <2>4, <2>5 DEF CompleteNext
    <2>7. c >= 0
      BY Ranges
    <2> QED BY <1>3, <2>6, <2>7 DEF FindsNext
  <1> QED BY <1>2, <1>3

(* A process that registers after another started alone goes on to find    *)
(* what it asks for, and nothing stops it.                                 *)
LEMMA FindsOwn ==
  ASSUME TypeOK, AllPlaced, AllPlaced', Mine, HandlesRight, Settled, settled,
         NEW p \in Processes, Step(p)
  PROVE  /\ Registering(p)' => FindsNext(p)
         /\ Registering(p) => pc'[p] \notin {"failed", "aborted", "overrun"}
  <1>0. /\ FileTyped /\ LocalsTyped /\ i[p] \in Nat /\ num_alloc_groups_ \in Nat
        /\ Placed(p) /\ pc \in [Processes -> Steps]
    BY TypesAre, FieldTypes DEF FileTyped, AllPlaced, LocalsTyped
  <1>1. /\ size = "full" /\ Complete /\ SameTables
    BY SettledSame DEF Settled
  <1>2. CompleteNext
    BY <1>1, CompleteKept
  <1>3. CASE ~Registering(p)
    <2>1. Registering(p)' => RT_debug_init(p) /\ pc[p] = "down" /\ pc'[p] # "down"
      BY <1>3, PcMoves DEF Registering, Resting
    <2>2. RT_debug_init(p) /\ pc[p] = "down" => pc'[p] = "attach" /\ sound'[p]
      BY <1>0, <1>1, HistoryMoves DEF RT_debug_init, Goto, file_exists
    <2> QED BY <1>3, <2>1, <2>2 DEF FindsNext
  <1>4. CASE Registering(p)
    <2>1. Finds(p) /\ sound[p] /\ Handles(p)
      BY <1>4 DEF Settled, Finds, HandlesRight, Sure
    <2>2. pc[p] # "down" /\ sound'[p]
      BY <1>4, <2>1, HistoryMoves DEF Registering, Resting
    <2>3. Sure(p)' /\ HandlesNext(p)
      BY <2>2, OwnHandles DEF Sure
    <2>4. Exact(p)
      BY <1>4, <2>1, FindsExact
    <2>5. CASE pc[p] = "attach"
      <3>1. Attach(p) \/ Crash(p)
        BY <2>5
        DEF Step, RT_debug_init, Create, Truncate, Wipe, ResetGroups,
            RTDBG_Start, GroupKnown, GroupOther, GroupCount, GroupInit,
            GetDebugGrpAsserts, EventKnown, EventOther, EventName, EventCount,
            MayScan, Overrun, PastGroups, PastCounters, Finish, SetCounter
      <3>2. CASE Attach(p)
        <4>1. pc'[p] = "groups" /\ i' = i
          BY <1>0, <1>1, <3>2 DEF Attach, Goto, locals
        <4>2. i[p] = 0
          BY <1>0, <2>5 DEF Placed, FileSteps
        <4> QED BY <1>2, <2>2, <2>3, <4>1, <4>2, FindsFromHead
      <3>3. CASE Crash(p)
        <4>1. pc'[p] = "down"
          BY <1>0, <3>3 DEF Crash, Goto
        <4> QED BY <4>1 DEF Registering, Resting
      <3> QED BY <3>1, <3>2, <3>3
    <2>6. CASE pc[p] = "groups"
      <3>1. i[p] < num_alloc_groups_ /\ i[p] \in Indices
        BY <1>4, <2>1, <2>6, FindsExact
      <3>2. GroupKnown(p) \/ GroupOther(p) \/ Crash(p)
        <4>1. ~GroupCount(p)
          BY <1>0, <3>1 DEF GroupCount
        <4> QED BY <2>6, <3>1, <4>1
                DEF Step, RT_debug_init, Attach, Create, Truncate, Wipe,
                    ResetGroups, RTDBG_Start, GroupInit, GetDebugGrpAsserts,
                    EventKnown, EventOther, EventName, EventCount, MayScan,
                    Overrun, PastGroups, PastCounters, Finish, SetCounter
      <3>3. CASE GroupKnown(p)
        <4>1. TookGroup(p)
          BY <1>0, <2>6, <3>3, GroupTaken DEF GroupKnown, GroupSteps
        <4>2. i'[p] = 0 /\ pc'[p] \in {"groups", "events"}
          BY <4>1 DEF TookGroup
        <4> QED BY <1>2, <2>2, <2>3, <4>2, FindsFromHead
      <3>4. CASE GroupOther(p)
        <4>1. PICK g \in Indices : g >= i[p] /\ FirstGroup(g, GroupList[k[p]])
          BY <2>1, <2>6 DEF Finds
        <4>2. /\ group_name_[i[p]] # GroupList[k[p]] /\ i' = [i EXCEPT ![p] = i[p] + 1]
              /\ pc' = pc /\ k' = k
          BY <3>4 DEF GroupOther, GroupFound
        <4>3. i'[p] = i[p] + 1
          BY <1>0, <4>2 DEF LocalsTyped
        <4>4. g # i[p] /\ FirstGroupNext(g, GroupList[k[p]])
          BY <1>1, <4>1, <4>2, FirstKept DEF FirstGroup
        <4>5. g >= i'[p]
          BY <1>0, <4>1, <4>3, <4>4, Ranges
        <4> QED BY <2>2, <2>6, <4>2, <4>4, <4>5 DEF FindsNext
      <3>5. CASE Crash(p)
        <4>1. pc'[p] = "down"
          BY <1>0, <3>5 DEF Crash, Goto
        <4> QED BY <4>1 DEF Registering, Resting
      <3> QED BY <3>2, <3>3, <3>4, <3>5
    <2>7. CASE pc[p] = "events"
      <3> DEFINE g == InGroup(p)
      <3>1. /\ i[p] < num_alloc_counters_[g] /\ i[p] \in Places
            /\ g \in Indices /\ k[p] \in DOMAIN EventList
        BY <1>4, <2>1, <2>7, FindsExact, GroupsGot DEF EventSteps
      <3>2. num_alloc_counters_[g] \in Nat
        BY <1>0, <3>1 DEF FileTyped
      <3>3. g < num_alloc_groups_
        <4>1. EventList[k[p]].group \in DOMAIN GroupList
          BY <3>1, Lists
        <4>2. GotGroup(p, EventList[k[p]].group)
          BY <2>7 DEF GotGroup, EventSteps
        <4> QED BY <2>1, <4>1, <4>2 DEF Handles, FirstGroup, InGroup, Group
      <3>4. EventKnown(p) \/ EventOther(p) \/ Crash(p)
        <4>1. ~EventName(p)
          BY <1>0, <3>1, <3>2 DEF EventName
        <4>2. ~GetDebugGrpAsserts(p)
          <5>1. g \in Nat
            BY <3>1, Ranges
          <5> QED BY <1>0, <3>3, <5>1 DEF GetDebugGrpAsserts
        <4> QED BY <2>7, <3>1, <4>1, <4>2
                DEF Step, RT_debug_init, Attach, Create, Truncate, Wipe,
                    ResetGroups, RTDBG_Start, GroupKnown, GroupOther,
                    GroupCount, GroupInit, EventCount, Overrun, PastGroups,
                    PastCounters, Finish, SetCounter
      <3>5. CASE EventKnown(p)
        <4>1. TookCounter(p)
          BY <1>0, <2>7, <3>5, CounterTaken DEF EventKnown, EventSteps
        <4>2. i'[p] = 0 /\ pc'[p] \in {"events", "finish"}
          BY <4>1 DEF TookCounter
        <4>3. CASE pc'[p] = "events"
          BY <1>2, <2>2, <2>3, <4>2, <4>3, FindsFromHead
        <4>4. CASE pc'[p] = "finish"
          BY <2>2, <4>4 DEF FindsNext
        <4> QED BY <4>2, <4>3, <4>4
      <3>6. CASE EventOther(p)
        <4> DEFINE x == EventList[k[p]].name
        <4>1. PICK c \in Places : c >= i[p] /\ FirstCounter(g, c, x)
          BY <2>1, <2>7 DEF Finds
        <4>2. /\ rt_counters_[g][i[p]].cnt_name # x /\ i' = [i EXCEPT ![p] = i[p] + 1]
              /\ pc' = pc /\ k' = k /\ group_indexes' = group_indexes
          BY <3>6 DEF EventOther, EventFound
        <4>3. i'[p] = i[p] + 1
          BY <1>0, <4>2 DEF LocalsTyped
        <4>4. c # i[p] /\ FirstCounterNext(g, c, x)
          BY <1>1, <3>1, <4>1, <4>2, FirstKept DEF FirstCounter
        <4>5. c >= i'[p]
          BY <1>0, <4>1, <4>3, <4>4, Ranges
        <4> QED BY <2>2, <2>7, <4>2, <4>4, <4>5 DEF FindsNext, InGroup, Group
      <3>7. CASE Crash(p)
        <4>1. pc'[p] = "down"
          BY <1>0, <3>7 DEF Crash, Goto
        <4> QED BY <4>1 DEF Registering, Resting
      <3> QED BY <3>4, <3>5, <3>6, <3>7
    <2>8. CASE pc[p] = "finish"
      <3>1. Finish(p) \/ Crash(p)
        BY <2>8
        DEF Step, RT_debug_init, Attach, Create, Truncate, Wipe, ResetGroups,
            RTDBG_Start, GroupKnown, GroupOther, GroupCount, GroupInit,
            GetDebugGrpAsserts, EventKnown, EventOther, EventName, EventCount,
            MayScan, Overrun, PastGroups, PastCounters, SetCounter
      <3>2. pc'[p] \in {"ready", "down"}
        BY <1>0, <3>1 DEF Finish, Crash, Goto
      <3> QED BY <3>2 DEF Registering, Resting
    <2> QED BY <2>1, <2>5, <2>6, <2>7, <2>8 DEF Finds
  <1> QED BY <1>3, <1>4

LEMMA SettledNext ==
  ASSUME TypeOK, AllPlaced, AllPlaced', Mine, HandlesRight, Settled,
         NEW p \in Processes, Step(p)
  PROVE  Settled'
  <1>1. \A q \in Processes : q # p => Stays(q)
    BY OthersStay
  <1>2. ASSUME NEW q \in Processes, sound'[q] PROVE settled'
    <2>1. CASE q = p
      BY <1>2, <2>1, HistoryMoves DEF Settled
    <2>2. CASE q # p
      BY <1>1, <1>2, <2>2, HistoryMoves DEF Settled, Stays
    <2> QED BY <2>1, <2>2
  <1>3. CASE settled
    <2>1. size' = "full" /\ CompleteNext /\ SameTables
      BY <1>3, SettledSame, CompleteKept DEF Settled
    <2>2. ASSUME NEW q \in Processes, Registering(q)' PROVE FindsNext(q)
      <3>1. CASE q = p
        BY <1>3, <2>2, <3>1, FindsOwn
      <3>2. CASE q # p
        <4>1. Stays(q)
          BY <1>1, <3>2
        <4>2. Registering(q) /\ Finds(q)
          BY <1>3, <2>2, <4>1 DEF Settled, Stays, Registering
        <4>3. pc[q] = "events" => InGroup(q) \in Indices
          BY GroupsGot DEF EventSteps
        <4> QED BY <2>1, <4>1, <4>2, <4>3, FirstKept
                DEF Stays, Finds, FindsNext, InGroup, Group
      <3> QED BY <3>1, <3>2
    <2> QED BY <1>2, <2>1, <2>2, SettledPrimes DEF Settled
  <1>4. CASE ~settled /\ ~settled'
    BY <1>2, <1>4 DEF Settled
  <1>5. CASE ~settled /\ settled'
    <2>1. Finish(p) /\ alone[p]
      BY <1>5, HistoryMoves
    <2>2. pc[p] = "finish" /\ pc'[p] = "ready"
      BY <2>1, TypesAre DEF Finish, Goto, LocalsTyped
    <2>3. Registering(p) /\ Placed(p)
      BY <2>2 DEF Registering, Resting, AllPlaced
    <2>4. Own(p) /\ Handles(p)
      BY <2>1, <2>3 DEF Mine, HandlesRight, Sure
    <2>5. SameTables /\ size' = "full"
      BY <2>1, <2>2, <2>3 DEF Finish, SameTables, Placed
    <2>6. Complete
      <3>1. ASSUME NEW n \in DOMAIN GroupList
            PROVE  /\ group_indexes[p][n] \in Indices
                   /\ FirstGroup(group_indexes[p][n], GroupList[n])
        BY <2>2, <2>3, <2>4 DEF GotGroup, Handles, Placed
      <3>2. ASSUME NEW e \in DOMAIN EventList, NEW g \in Indices,
                   FirstGroup(g, GroupList[EventList[e].group])
            PROVE  \E c \in Places : FirstCounter(g, c, EventList[e].name)
        <4>1. EventList[e].group \in DOMAIN GroupList
          BY Lists
        <4>2. g = Group(p, e)
          BY <3>1, <3>2, <4>1, FirstIsOne DEF Group
        <4>3. /\ event_cnt[p][e] \in Places
              /\ FirstCounter(Group(p, e), event_cnt[p][e], EventList[e].name)
          BY <2>2, <2>3, <2>4 DEF GotEvent, Handles, Placed
        <4> QED BY <4>2, <4>3
      <3> QED BY <3>1, <3>2 DEF Complete
    <2>7. \A q \in Processes : ~Registering(q)'
      BY <1>1, <2>2, <2>4 DEF Own, Stays, Registering, Resting
    <2> QED BY <1>2, <2>5, <2>6, <2>7, CompleteKept, SettledPrimes DEF Settled
  <1> QED BY <1>3, <1>4, <1>5

LEMMA StartsSucceedNext ==
  ASSUME TypeOK, AllPlaced, AllPlaced', Mine, HandlesRight, Settled, StartsSucceed,
         NEW p \in Processes, Step(p)
  PROVE  StartsSucceed'
  <1> SUFFICES ASSUME NEW q \in Processes, sound'[q]
               PROVE  pc'[q] \notin {"failed", "aborted", "overrun"}
    BY DEF StartsSucceed
  <1>1. CASE q # p
    <2>1. Stays(q)
      BY <1>1, OthersStay
    <2> QED BY <2>1 DEF Stays, StartsSucceed
  <1>2. CASE q = p /\ ~Registering(p)
    BY <1>2, PcMoves DEF Registering, Resting
  <1>3. CASE q = p /\ Registering(p)
    <2>1. sound[p] \/ Finish(p)
      BY <1>3, HistoryMoves DEF Registering, Resting
    <2>2. CASE sound[p]
      BY <1>3, <2>2, FindsOwn DEF Settled
    <2>3. CASE Finish(p)
      BY <1>3, <2>3, TypesAre DEF Finish, Goto, LocalsTyped
    <2> QED BY <2>1, <2>2, <2>3
  <1> QED BY <1>1, <1>2, <1>3

-----------------------------------------------------------------------------
(***************************************************************************)
(* Groups in the order of their list                                       *)
(***************************************************************************)
LEMMA OrderlySettled ==
  ASSUME TypeOK, AllPlaced, Settled, settled, Orderly, NEW p \in Processes, Step(p)
  PROVE  Orderly'
  <1>1. /\ settled' /\ num_alloc_groups_' = num_alloc_groups_
        /\ group_name_' = group_name_ /\ setup' = setup
    BY SettledSame, HistoryMoves DEF SameTables
  <1>2. \A q \in Processes : pc[q] # "group_init"
    BY DEF Settled, Finds, Registering, Resting
  <1>3. \A g \in Indices : g < num_alloc_groups_ => InOrder(g)
    BY <1>2 DEF Orderly
  <1> QED BY <1>1, <1>3 DEF Orderly, InOrder

(* What a process that starts alone does to the order of the groups.       *)
OrderStep(p) ==
  /\ num_alloc_groups_' <= Len(GroupList)
  /\ \A g \in Indices : g < num_alloc_groups_' =>
       \/ g + 1 \in DOMAIN GroupList /\ group_name_'[g] = GroupList[g + 1] /\ setup'[g]
       \/ pc'[p] = "group_init" /\ i'[p] = g
  /\ pc'[p] = "groups" => i'[p] < k'[p] /\ k'[p] <= num_alloc_groups_' + 1
  /\ pc'[p] = "group_init" => i'[p] + 1 = k'[p] /\ k'[p] = num_alloc_groups_'

LEMMA OrderStart ==
  ASSUME TypeOK, AllPlaced, NEW p \in Processes, Registering(p), Orderly, ~settled,
         \A q \in Processes : Registering(q) => q = p, Step(p), clean'
  PROVE  OrderStep(p) /\ ~Crash(p)
  <1>0. /\ FileTyped /\ LocalsTyped /\ i[p] \in Nat /\ num_alloc_groups_ \in Nat
        /\ Placed(p) /\ pc \in [Processes -> Steps]
    BY TypesAre, FieldTypes DEF FileTyped, AllPlaced, LocalsTyped
  <1>1. /\ num_alloc_groups_ <= Len(GroupList) /\ Len(GroupList) \in Nat
        /\ pc[p] = "groups" => i[p] < k[p] /\ k[p] <= num_alloc_groups_ + 1
        /\ pc[p] = "group_init" => i[p] + 1 = k[p] /\ k[p] = num_alloc_groups_
    BY Lengths DEF Orderly
  <1>2. \A g \in Indices : g < num_alloc_groups_ =>
          InOrder(g) \/ (pc[p] = "group_init" /\ i[p] = g)
    BY DEF Orderly, Registering, Resting
  <1>3. ~Crash(p) /\ ~Overrun(p)
    BY DEF Crash, Overrun, Registering
  <1>4. \A g \in Indices : g \in Nat /\ g < MAX_GROUP_NUM
    BY Ranges
  <1>5. CASE \/ Attach(p) \/ Create(p) \/ Truncate(p) \/ RTDBG_Start(p)
    <2>1. /\ pc[p] \in FileSteps /\ pc'[p] \in FileSteps \cup {"groups", "failed"}
          /\ UNCHANGED <<num_alloc_groups_, group_name_, setup, k, i>>
      BY <1>0, <1>5
      DEF Attach, Create, Truncate, RTDBG_Start, Goto, FileSteps, file, locals
    <2>2. k[p] = 1 /\ i[p] = 0
      BY <1>0, <2>1 DEF Placed
    <2>3. i'[p] < k'[p] /\ k'[p] <= num_alloc_groups_' + 1
      BY <1>0, <2>1, <2>2
    <2> QED BY <1>1, <1>2, <1>3, <2>1, <2>3 DEF OrderStep, InOrder, FileSteps
  <1>6. CASE Wipe(p)
    <2>1. num_alloc_groups_' = 0 /\ pc'[p] = "reset"
      BY <1>0, <1>6 DEF Wipe, Goto
    <2>2. \A g \in Indices : ~(g < 0)
      BY <1>4
    <2> QED BY <1>1, <1>3, <2>1, <2>2 DEF OrderStep
  <1>7. CASE ResetGroups(p)
    <2>1. /\ UNCHANGED <<num_alloc_groups_, group_name_>> /\ pc'[p] = "start"
          /\ \A g \in Indices : setup'[g] = TRUE
          /\ pc[p] = "reset"
      BY <1>0, <1>7 DEF ResetGroups, Goto
    <2> QED BY <1>1, <1>2, <1>3, <2>1 DEF OrderStep, InOrder
  <1>8. CASE GroupKnown(p) \/ GroupOther(p)
    <2>1. /\ pc[p] = "groups" /\ i[p] < num_alloc_groups_ /\ i[p] \in Indices
          /\ UNCHANGED <<num_alloc_groups_, group_name_, setup>>
      BY <1>8 DEF GroupKnown, GroupOther, file
    <2>2. InOrder(i[p])
      BY <1>2, <2>1
    <2>3. k[p] \in DOMAIN GroupList /\ k[p] \in Nat
      BY <1>0, <2>1, Lengths DEF Placed, GroupSteps
    <2>4. CASE GroupKnown(p)
      <3>1. group_name_[i[p]] = GroupList[k[p]]
        BY <2>4 DEF GroupKnown, GroupFound
      <3>2. i[p] + 1 = k[p]
        BY <2>2, <2>3, <3>1, Sizes DEF InOrder
      <3>3. TookGroup(p)
        BY <1>0, <2>1, <2>4, GroupTaken DEF GroupKnown, GroupSteps
      <3>4. i'[p] = 0 /\ (pc'[p] = "events" \/ (pc'[p] = "groups" /\ k'[p] = k[p] + 1))
        BY <3>3 DEF TookGroup
      <3>5. pc'[p] = "groups" => i'[p] < k'[p] /\ k'[p] <= num_alloc_groups_' + 1
        BY <1>0, <2>1, <2>3, <3>2, <3>4
      <3> QED BY <1>1, <1>2, <1>3, <2>1, <3>4, <3>5 DEF OrderStep, InOrder
    <2>5. CASE GroupOther(p)
      <3>1. /\ group_name_[i[p]] # GroupList[k[p]] /\ pc' = pc /\ k' = k
            /\ i' = [i EXCEPT ![p] = i[p] + 1]
        BY <2>5 DEF GroupOther, GroupFound
      <3>2. i'[p] = i[p] + 1
        BY <1>0, <3>1 DEF LocalsTyped
      <3>3. i[p] + 1 # k[p]
        BY <2>2, <3>1 DEF InOrder
      <3>4. i'[p] < k'[p] /\ k'[p] <= num_alloc_groups_' + 1
        BY <1>0, <1>1, <2>1, <2>3, <3>1, <3>2, <3>3
      <3> QED BY <1>1, <1>2, <1>3, <2>1, <3>1, <3>4 DEF OrderStep, InOrder
    <2> QED BY <1>8, <2>4, <2>5
  <1>9. CASE GroupCount(p)
    <2>1. /\ pc[p] = "groups" /\ i[p] >= num_alloc_groups_
          /\ num_alloc_groups_' = num_alloc_groups_ + 1
          /\ UNCHANGED <<group_name_, setup, k, i>>
      BY <1>9 DEF GroupCount, locals
    <2>2. k[p] \in Nat /\ k[p] <= Len(GroupList)
      BY <1>0, <2>1, Lengths DEF Placed, GroupSteps
    <2>3. i[p] = num_alloc_groups_ /\ k[p] = num_alloc_groups_ + 1
      BY <1>0, <1>1, <2>1, <2>2
    <2>4. IF num_alloc_groups_ + 1 <= MAX_GROUP_NUM THEN pc'[p] = "group_init"
                                                    ELSE pc'[p] = "aborted"
      <3>1. CASE num_alloc_groups_ + 1 <= MAX_GROUP_NUM
        BY <1>0, <1>9, <3>1 DEF GroupCount, Goto
      <3>2. CASE ~(num_alloc_groups_ + 1 <= MAX_GROUP_NUM)
        BY <1>0, <1>9, <3>2 DEF GroupCount, Goto
      <3> QED BY <3>1, <3>2
    <2>5. ASSUME NEW g \in Indices, g < num_alloc_groups_ + 1
          PROVE  InOrder(g) \/ (pc'[p] = "group_init" /\ i'[p] = g)
      <3>1. CASE g < num_alloc_groups_
        BY <1>2, <2>1, <3>1
      <3>2. CASE ~(g < num_alloc_groups_)
        <4>1. g = num_alloc_groups_ /\ num_alloc_groups_ + 1 <= MAX_GROUP_NUM
          BY <1>0, <1>4, <2>5, <3>2, Sizes
        <4> QED BY <2>1, <2>3, <2>4, <4>1
      <3> QED BY <3>1, <3>2
    <2>6. pc'[p] # "groups"
      BY <2>4
    <2>7. /\ num_alloc_groups_' <= Len(GroupList)
          /\ i'[p] + 1 = k'[p] /\ k'[p] = num_alloc_groups_'
      BY <1>0, <1>1, <2>1, <2>2, <2>3
    <2> QED BY <1>3, <2>1, <2>5, <2>6, <2>7 DEF OrderStep, InOrder
  <1>10. CASE GroupInit(p)
    <2>1. /\ pc[p] = "group_init" /\ i[p] \in Indices /\ UNCHANGED num_alloc_groups_
          /\ setup' = [setup EXCEPT ![i[p]] = TRUE]
          /\ group_name_' = [group_name_ EXCEPT ![i[p]] = GroupList[k[p]]]
      BY <1>10 DEF GroupInit
    <2>2. k[p] \in DOMAIN GroupList /\ k[p] \in Nat
      BY <1>0, <2>1, Lengths DEF Placed, GroupSteps
    <2>3. TookGroup(p)
      BY <1>0, <1>10, <2>1, GroupTaken DEF GroupInit, GroupSteps
    <2>4. i'[p] = 0 /\ (pc'[p] = "events" \/ (pc'[p] = "groups" /\ k'[p] = k[p] + 1))
      BY <2>3 DEF TookGroup
    <2>5. pc'[p] = "groups" => i'[p] < k'[p] /\ k'[p] <= num_alloc_groups_' + 1
      BY <1>0, <1>1, <2>1, <2>2, <2>4
    <2>6. setup \in [Indices -> BOOLEAN] /\ group_name_ \in [Indices -> NamesOf(GroupList)]
      BY <1>0 DEF FileTyped
    <2>7. ASSUME NEW g \in Indices, g < num_alloc_groups_
          PROVE  /\ g + 1 \in DOMAIN GroupList
                 /\ group_name_'[g] = GroupList[g + 1] /\ setup'[g]
      <3>1. CASE g = i[p]
        BY <1>1, <2>1, <2>2, <2>6, <3>1
      <3>2. CASE g # i[p]
        <4>1. InOrder(g)
          BY <1>2, <2>7, <3>2
        <4> QED BY <2>1, <2>6, <3>2, <4>1 DEF InOrder
      <3> QED BY <3>1, <3>2
    <2> QED BY <1>1, <1>3, <2>1, <2>4, <2>5, <2>7 DEF OrderStep
  <1>11. CASE \/ GetDebugGrpAsserts(p) \/ EventKnown(p) \/ EventOther(p) \/ EventName(p)
              \/ EventCount(p) \/ Finish(p)
    <2>1. /\ pc[p] \in EventSteps \cup {"finish"}
          /\ UNCHANGED <<num_alloc_groups_, group_name_, setup>>
      BY <1>11
      DEF GetDebugGrpAsserts, EventKnown, EventOther, EventName, EventCount,
          Finish, MayScan, EventSteps, file
    <2>2. pc'[p] \notin GroupSteps
      <3>1. CASE EventKnown(p) \/ EventCount(p)
        <4>1. pc[p] \in EventSteps /\ Advance(p, EventList, "events", "finish")
          BY <3>1 DEF EventKnown, EventCount, MayScan, EventSteps
        <4>2. "events" \in Steps /\ "finish" \in Steps
          BY DEF Steps, EventSteps
        <4>3. pc'[p] \in {"events", "finish"}
          BY <1>0, <4>1, <4>2, AdvanceIs
        <4> QED BY <4>3 DEF GroupSteps
      <3>2. CASE GetDebugGrpAsserts(p) \/ EventOther(p) \/ EventName(p) \/ Finish(p)
        BY <1>0, <3>2
        DEF GetDebugGrpAsserts, EventOther, EventName, MayScan, Finish, Goto,
            GroupSteps
      <3> QED BY <1>11, <3>1, <3>2
    <2> QED BY <1>1, <1>2, <1>3, <2>1, <2>2
            DEF OrderStep, InOrder, GroupSteps, EventSteps
  <1>12. ~RT_debug_init(p) /\ \A e \in DOMAIN EventList : ~SetCounter(p, e)
    BY DEF RT_debug_init, SetCounter, Registering, Resting
  <1> QED BY <1>3, <1>5, <1>6, <1>7, <1>8, <1>9, <1>10, <1>11, <1>12 DEF Step

LEMMA OrderlyNext ==
  ASSUME TypeOK, AllPlaced, Mine, Settled, clean => Orderly,
         NEW p \in Processes, Step(p), clean'
  PROVE  Orderly'
  <1>0. Orderly /\ pc \in [Processes -> Steps]
    BY HistoryMoves, TypesAre DEF LocalsTyped
  <1>1. \A q \in Processes : q # p => Stays(q)
    BY OthersStay
  <1>2. CASE settled
    BY <1>0, <1>2, OrderlySettled
  <1>3. CASE ~settled /\ Registering(p)
    <2>1. alone[p] /\ alone' = alone
      BY <1>0, <1>3, PcMoves DEF Orderly, Registering, Resting
    <2>2. \A q \in Processes : Registering(q) => q = p
      BY <1>3, <2>1 DEF Mine, Own
    <2>3. OrderStep(p)
      BY <1>0, <1>3, <2>2, OrderStart
    <2>4. \A q \in Processes : q # p => pc'[q] \in Resting
      BY <1>1, <2>2 DEF Stays, Registering
    <2>5. \A q \in Processes : q # p => pc'[q] # "groups" /\ pc'[q] # "group_init"
      BY <2>4 DEF Resting
    <2> QED BY <2>1, <2>3, <2>4, <2>5 DEF Orderly, OrderStep, InOrder, Registering
  <1>4. CASE ~settled /\ ~Registering(p)
    <2>1. UNCHANGED <<num_alloc_groups_, group_name_, setup>>
      BY <1>4, TablesStay
      DEF SameTables, Registering, Resting, GroupCount, EventName, MayScan
    <2>2. pc[p] \notin {"groups", "group_init"} /\ pc'[p] \notin {"groups", "group_init"}
      BY <1>4, PcMoves DEF Registering, Resting
    <2>3. \A q \in Processes : pc'[q] = "group_init" \/ pc'[q] = "groups"
                                 \/ pc[q] = "group_init" =>
            q # p /\ pc'[q] = pc[q] /\ i'[q] = i[q] /\ k'[q] = k[q]
      BY <1>1, <2>2 DEF Stays
    <2>4. CASE RT_debug_init(p)
      <3>1. /\ \A q \in Processes : pc[q] \in Resting
            /\ alone'[p]
        BY <1>0, <1>4, <2>4 DEF RT_debug_init
      <3>2. \A q \in Processes : Registering(q)' => q = p
        BY <1>1, <3>1 DEF Stays, Registering
      <3> QED BY <1>0, <1>4, <2>1, <2>3, <3>1, <3>2 DEF Orderly, InOrder
    <2>5. CASE ~RT_debug_init(p)
      <3>1. alone' = alone /\ pc'[p] \in Resting
        BY <1>4, <2>5, PcMoves DEF Resting, Crash
      <3>2. \A q \in Processes : Registering(q)' => Registering(q)
        BY <1>1, <3>1 DEF Stays, Registering
      <3> QED BY <1>0, <1>4, <2>1, <2>3, <3>1, <3>2 DEF Orderly, InOrder
    <2> QED BY <2>4, <2>5
  <1> QED BY <1>2, <1>3, <1>4

-----------------------------------------------------------------------------
(***************************************************************************)
(* The invariant and the theorems                                          *)
(***************************************************************************)
LEMMA IInvInit == Init => IInv
  <1> SUFFICES ASSUME Init PROVE IInv
    OBVIOUS
  <1>1. TypeOK /\ AllPlaced
    BY TypesInit
  <1>2. \A p \in Processes : pc[p] = "down" /\ alone[p] = FALSE /\ sound[p] = FALSE
    BY DEF Init
  <1>3. Mine /\ HandlesRight /\ StartsSucceed
    BY <1>2 DEF Mine, HandlesRight, Sure, StartsSucceed
  <1>4. Settled
    BY <1>2 DEF Init, Settled
  <1>5. Orderly
    <2>0. num_alloc_groups_ = 0
      BY DEF Init
    <2>1. num_alloc_groups_ <= Len(GroupList)
      BY <2>0, Lengths
    <2>2. \A g \in Indices : ~(g < 0)
      BY Ranges
    <2>3. \A p \in Processes :
            ~Registering(p) /\ pc[p] # "groups" /\ pc[p] # "group_init"
      BY <1>2 DEF Registering, Resting
    <2> QED BY <2>0, <2>1, <2>2, <2>3 DEF Orderly
  <1> QED BY <1>1, <1>3, <1>4, <1>5 DEF IInv

LEMMA IInvNext == IInv /\ [Next]_vars => IInv'
  <1> SUFFICES ASSUME IInv, [Next]_vars PROVE IInv'
    OBVIOUS
  <1> USE DEF IInv
  <1>1. CASE UNCHANGED vars
    <2> USE <1>1 DEF vars, file, locals, history
    <2>1. TypeOK' /\ AllPlaced'
      BY TypesNext
    <2>2. Mine'
      BY DEF Mine, Own, Exact, NotBefore, InGroup, Group, EventFound,
             Registering
    <2>3. HandlesRight'
      BY DEF HandlesRight, Handles, Sure, FirstGroup, FirstCounter, Group,
             GotGroup, GotEvent, Registering
    <2>4. Settled' /\ StartsSucceed'
      <3>1. Complete' <=> Complete
        BY DEF Complete, FirstGroup, FirstCounter
      <3>2. \A p \in Processes : Registering(p)' <=> Registering(p)
        BY DEF Registering
      <3>3. ASSUME NEW p \in Processes, Finds(p)
            PROVE  Finds(p)'
        BY <3>3 DEF Finds, FirstGroup, FirstCounter, InGroup, Group
      <3>4. Settled'
        BY <3>1, <3>2, <3>3 DEF Settled
      <3> QED BY <3>4 DEF StartsSucceed
    <2>5. clean' => Orderly'
      BY DEF Orderly, InOrder, Registering
    <2> QED BY <2>1, <2>2, <2>3, <2>4, <2>5
  <1>2. ASSUME NEW p \in Processes, Step(p) PROVE IInv'
    <2>1. TypeOK' /\ AllPlaced'
      BY TypesNext
    <2>2. Mine' /\ HandlesRight'
      BY <1>2, MineNext, HandlesRightNext
    <2>3. Settled' /\ StartsSucceed'
      BY <1>2, <2>1, SettledNext, StartsSucceedNext
    <2>4. clean' => Orderly'
      BY <1>2, OrderlyNext
    <2> QED BY <2>1, <2>2, <2>3, <2>4
  <1> QED BY <1>1, <1>2 DEF Next

(* What processes hold, what the table of groups and counters holds and    *)
(* how far each start is belong together, in every state a run of          *)
(* RT_debug_init by any number of processes can reach.                     *)
THEOREM IInvAlways == Spec => []IInv
  BY IInvInit, IInvNext, PTL DEF Spec

LEMMA HandlesAgree ==
  ASSUME IInv, NEW p \in Processes, NEW q \in Processes,
         sound[p], sound[q], pc[p] = "ready", pc[q] = "ready"
  PROVE  group_indexes[p] = group_indexes[q] /\ event_cnt[p] = event_cnt[q]
  <1>1. /\ LocalsTyped /\ Placed(p) /\ Placed(q) /\ Handles(p) /\ Handles(q)
    BY TypesAre DEF IInv, AllPlaced, HandlesRight, Sure
  <1>2. /\ \A n : GotGroup(p, n) /\ GotGroup(q, n)
        /\ \A e : GotEvent(p, e) /\ GotEvent(q, e)
    BY DEF GotGroup, GotEvent
  <1>3. ASSUME NEW n \in DOMAIN GroupList
        PROVE  group_indexes[p][n] = group_indexes[q][n]
    BY <1>1, <1>2, FirstIsOne DEF Handles, Placed
  <1>4. /\ group_indexes[p] \in [DOMAIN GroupList -> Indices \cup {-1}]
        /\ group_indexes[q] \in [DOMAIN GroupList -> Indices \cup {-1}]
        /\ event_cnt[p] \in [DOMAIN EventList -> Places \cup {-1}]
        /\ event_cnt[q] \in [DOMAIN EventList -> Places \cup {-1}]
    BY <1>1, FieldTypes
  <1>5. group_indexes[p] = group_indexes[q]
    BY <1>3, <1>4
  <1>6. ASSUME NEW e \in DOMAIN EventList
        PROVE  event_cnt[p][e] = event_cnt[q][e]
    <2>1. Group(p, e) = Group(q, e)
      BY <1>5 DEF Group
    <2> QED BY <1>1, <1>2, <2>1, FirstIsOne DEF Handles, Placed
  <1> QED BY <1>4, <1>5, <1>6

LEMMA HandlesHold ==
  ASSUME IInv, NEW p \in Processes, sound[p], pc[p] = "ready"
  PROVE  HandlesOf(p)
  <1>1. /\ FileTyped /\ LocalsTyped /\ Placed(p) /\ Handles(p) /\ num_alloc_groups_ \in Nat
    BY TypesAre DEF IInv, AllPlaced, HandlesRight, Sure, FileTyped
  <1>2. ASSUME NEW n \in DOMAIN GroupList
        PROVE  /\ group_indexes[p][n] \in 0 .. num_alloc_groups_ - 1
               /\ group_name_[group_indexes[p][n]] = GroupList[n]
    <2>1. FirstGroup(group_indexes[p][n], GroupList[n])
      BY <1>1 DEF Handles, GotGroup
    <2>2. group_indexes[p][n] \in Nat
      BY <2>1, Ranges DEF FirstGroup
    <2> QED BY <1>1, <2>1, <2>2 DEF FirstGroup
  <1>3. ASSUME NEW e \in DOMAIN EventList
        PROVE  /\ event_cnt[p][e] \in 0 .. num_alloc_counters_[Group(p, e)] - 1
               /\ rt_counters_[Group(p, e)][event_cnt[p][e]].cnt_name = EventList[e].name
    <2>1. FirstCounter(Group(p, e), event_cnt[p][e], EventList[e].name)
      BY <1>1 DEF Handles, GotEvent
    <2>2. event_cnt[p][e] \in Nat
      BY <2>1, Ranges DEF FirstCounter
    <2>3. Group(p, e) \in Indices
      BY GroupsGot DEF IInv
    <2>4. num_alloc_counters_[Group(p, e)] \in Nat
      BY <1>1, <2>3 DEF FileTyped
    <2> QED BY <2>1, <2>2, <2>4 DEF FirstCounter
  <1> QED BY <1>2, <1>3 DEF HandlesOf

(* RT_debug_init takes no lock, and processes may crash in it and race in  *)
(* it; but once one start had the file for itself from begin to end, every *)
(* later one succeeds, and its group and counter indices are valid and     *)
(* those of every other, for any number of processes, lists and tables.    *)
THEOREM HandlesSoundAlways == Spec => []HandlesSound
  <1>1. IInv => HandlesSound
    <2> SUFFICES ASSUME IInv PROVE HandlesSound
      OBVIOUS
    <2>1. HandlesValid
      BY HandlesHold DEF HandlesValid
    <2>2. ProcessesAgree
      BY HandlesAgree DEF ProcessesAgree
    <2> QED BY <2>1, <2>2 DEF HandlesSound, IInv
  <1> QED BY <1>1, IInvAlways, PTL

(* RT_debug_save_log numbers groups by the enum of groups.inc and not by   *)
(* what AllocDbgGrp returned: that is the group meant, and one with FIFOs, *)
(* if the first start neither crashed nor raced.                           *)
THEOREM LogsReachGroupAlways == Spec => []LogsReachGroup
  <1>1. IInv => LogsReachGroup
    <2> SUFFICES ASSUME IInv, NEW p \in Processes, clean, sound[p], pc[p] = "ready",
                        NEW n \in DOMAIN GroupList
                 PROVE  LogGroupOf(n) = group_indexes[p][n] /\ setup[LogGroupOf(n)]
      BY DEF LogsReachGroup
    <2> DEFINE g == group_indexes[p][n]
    <2>1. FirstGroup(g, GroupList[n])
      BY DEF IInv, HandlesRight, Sure, Handles, GotGroup
    <2>2. \A q \in Processes : pc[q] # "group_init"
      BY DEF IInv, Settled, Finds, Registering, Resting
    <2>3. g \in Indices /\ g \in Nat /\ g < num_alloc_groups_ /\ group_name_[g] = GroupList[n]
      BY <2>1, Ranges DEF FirstGroup
    <2>4. InOrder(g)
      BY <2>2, <2>3 DEF IInv, Orderly
    <2>5. g + 1 = n /\ n \in Nat /\ setup[g]
      BY <2>3, <2>4, Sizes, Lengths DEF InOrder
    <2> HIDE DEF g
    <2>6. n - 1 = g
      BY <2>3, <2>5
    <2> QED BY <2>5, <2>6 DEF LogGroupOf, g
  <1> QED BY <1>1, IInvAlways, PTL

(* A counter that has been counted in is written by nobody but the         *)
(* application, once a process has started alone.                          *)
LEMMA SavedStay ==
  ASSUME IInv, settled, NEW p \in Processes, Step(p), NEW g \in Indices, NEW c \in Places,
         rt_counters_[g][c].val = 1
  PROVE  rt_counters_'[g][c] = rt_counters_[g][c]
  <1>0. /\ rt_counters_ \in [Indices -> [Places -> Counters]] /\ SameTables
    BY SettledSame, TypesAre DEF IInv, FileTyped
  <1>1. CASE rt_counters_' = rt_counters_
    BY <1>1
  <1>2. ASSUME NEW e \in DOMAIN EventList, SetCounter(p, e)
        PROVE  rt_counters_'[g][c] = rt_counters_[g][c]
    <2> DEFINE h == Group(p, e)  d == event_cnt[p][e]
    <2>1. h \in Indices /\ d \in Places
      BY <1>2, GroupsGot DEF SetCounter, IInv
    <2>2. rt_counters_ \in [Indices -> [Places -> Counters]]
      BY <1>0
    <2>3. /\ rt_counters_'[h][d] = [cnt_name |-> rt_counters_[h][d].cnt_name, val |-> 1]
          /\ \A a \in Indices, b \in Places :
               a # h \/ b # d => rt_counters_'[a][b] = rt_counters_[a][b]
      BY <1>2, <2>1, <2>2, ValueWritten
    <2> HIDE DEF h, d
    <2>4. rt_counters_[g][c] \in Counters
      BY <1>0
    <2>5. rt_counters_[g][c] = [cnt_name |-> rt_counters_[g][c].cnt_name, val |-> 1]
      BY <2>4 DEF Counters
    <2> QED BY <2>3, <2>5
  <1>3. ASSUME ResetGroups(p) \/ GroupInit(p) \/ EventName(p)
        PROVE  FALSE
    <2>1. pc[p] \in {"reset", "group_init", "events"}
      BY <1>3 DEF ResetGroups, GroupInit, EventName, MayScan
    <2>2. Registering(p) /\ Finds(p)
      BY <2>1 DEF Registering, Resting, IInv, Settled
    <2>3. EventName(p) /\ pc[p] = "events" /\ i[p] >= num_alloc_counters_[InGroup(p)]
      BY <1>3, <2>1, <2>2 DEF Finds, ResetGroups, GroupInit, EventName
    <2>4. i[p] < num_alloc_counters_[InGroup(p)]
      BY <2>2, <2>3, FindsExact DEF IInv
    <2>5. i[p] \in Nat /\ InGroup(p) \in Indices
      BY <2>3, GroupsGot DEF IInv, EventSteps
    <2>6. num_alloc_counters_[InGroup(p)] \in Nat
      BY <2>5, TypesAre DEF IInv, FileTyped
    <2> QED BY <2>3, <2>4, <2>5, <2>6
  <1>4. CASE \/ RT_debug_init(p) \/ Attach(p) \/ Create(p) \/ Truncate(p) \/ Wipe(p)
             \/ RTDBG_Start(p) \/ GroupKnown(p) \/ GroupOther(p) \/ GroupCount(p)
             \/ GetDebugGrpAsserts(p) \/ EventKnown(p) \/ EventOther(p) \/ EventCount(p)
             \/ Overrun(p) \/ Finish(p) \/ Crash(p)
    <2>1. rt_counters_' = rt_counters_
      BY <1>4
      DEF RT_debug_init, Attach, Create, Truncate, Wipe, RTDBG_Start,
          GroupKnown, GroupOther, GroupCount, GetDebugGrpAsserts, EventKnown,
          EventOther, EventCount, Overrun, Finish, Crash, file
    <2> QED BY <2>1
  <1> QED BY <1>2, <1>3, <1>4 DEF Step

(* After a start that had the file for itself nothing is registered or     *)
(* cleared again: AllocDbgGrp and AllocCnt find what they look for, the    *)
(* file is never created anew, and counters keep what was saved in them    *)
(* through every later start and crash.                                    *)
THEOREM RegistrySettlesAlways == Spec => RegistrySettles
  <1>1. ASSUME IInv, [Next]_vars, settled
        PROVE  /\ UNCHANGED <<size, num_alloc_groups_, group_name_, num_alloc_counters_>>
               /\ \A g \in Indices, c \in Places :
                    rt_counters_[g][c].val = 1 => rt_counters_'[g][c] = rt_counters_[g][c]
    <2>1. CASE UNCHANGED vars
      BY <2>1 DEF vars, file
    <2>2. ASSUME NEW p \in Processes, Step(p)
          PROVE  /\ UNCHANGED <<size, num_alloc_groups_, group_name_, num_alloc_counters_>>
                 /\ \A g \in Indices, c \in Places :
                      rt_counters_[g][c].val = 1 =>
                        rt_counters_'[g][c] = rt_counters_[g][c]
      <3>1. SameTables /\ UNCHANGED size
        BY <1>1, <2>2, SettledSame DEF IInv
      <3> QED BY <1>1, <2>2, <3>1, SavedStay DEF SameTables
    <2> QED BY <1>1, <2>1, <2>2 DEF Next
  <1> QED BY <1>1, IInvAlways, PTL DEF Spec, RegistrySettles

=============================================================================
