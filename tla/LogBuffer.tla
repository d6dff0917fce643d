----------------------------- MODULE LogBuffer -----------------------------
(***************************************************************************)
(* What a log group promises its callers: the latest logs are kept, oldest *)
(* first.  Adding a log and reading one take effect at one instant between *)
(* call and return.  To make room a thread discards the oldest log, one    *)
(* each time it finds the group full.                                      *)
(***************************************************************************)
EXTENDS Naturals, Sequences

CONSTANTS
  Loggers, Readers,
  Logs,       \* what can be added
  NoLog,      \* what a reader has that was given none
  Capacity    \* largest number of logs the group keeps

VARIABLES
  kept,       \* the logs, oldest first
  doing,      \* doing[t]: where thread t is
  item,       \* item[t]: the log it adds, or was given
  added,      \* logs whose addition returned
  discarded,  \* logs discarded to make room
  delivered   \* logs that were read, in the order the readers returned

vars == <<kept, doing, item, added, discarded, delivered>>

Init ==
  /\ kept = << >>
  /\ doing = [t \in Loggers \cup Readers |-> "idle"]
  /\ item = [t \in Loggers \cup Readers |-> NoLog]
  /\ added = {} /\ discarded = {} /\ delivered = << >>

Moves(t, from, to) == doing[t] = from /\ doing' = [doing EXCEPT ![t] = to]

BeginAdd(t) ==
  /\ Moves(t, "idle", "adding")
  /\ \E e \in Logs : item' = [item EXCEPT ![t] = e]
  /\ UNCHANGED <<kept, added, discarded, delivered>>

Add(t) ==
  /\ Moves(t, "adding", "added")
  /\ Len(kept) < Capacity
  /\ kept' = Append(kept, item[t])
  /\ UNCHANGED <<item, added, discarded, delivered>>

FindFull(t) ==
  /\ Moves(t, "adding", "full")
  /\ Len(kept) = Capacity
  /\ UNCHANGED <<kept, item, added, discarded, delivered>>

(* Others may have emptied the group since t found it full.                *)
MakeRoom(t) ==
  /\ Moves(t, "full", "adding")
  /\ IF kept = << >> THEN UNCHANGED <<kept, discarded>>
     ELSE kept' = Tail(kept) /\ discarded' = discarded \cup {Head(kept)}
  /\ UNCHANGED <<item, added, delivered>>

EndAdd(t) ==
  /\ Moves(t, "added", "idle")
  /\ added' = added \cup {item[t]}
  /\ UNCHANGED <<kept, item, discarded, delivered>>

BeginRead(t) ==
  /\ Moves(t, "idle", "reading")
  /\ UNCHANGED <<kept, item, added, discarded, delivered>>

Read(t) ==
  /\ Moves(t, "reading", "read")
  /\ IF kept = << >> THEN UNCHANGED <<kept, item>>
     ELSE kept' = Tail(kept) /\ item' = [item EXCEPT ![t] = Head(kept)]
  /\ UNCHANGED <<added, discarded, delivered>>

EndRead(t) ==
  /\ Moves(t, "read", "idle")
  /\ delivered' = IF item[t] = NoLog THEN delivered ELSE Append(delivered, item[t])
  /\ item' = [item EXCEPT ![t] = NoLog]
  /\ UNCHANGED <<kept, added, discarded>>

Next ==
  \/ \E t \in Loggers : BeginAdd(t) \/ Add(t) \/ FindFull(t) \/ MakeRoom(t) \/ EndAdd(t)
  \/ \E t \in Readers : BeginRead(t) \/ Read(t) \/ EndRead(t)

Spec == Init /\ [][Next]_vars
=============================================================================
