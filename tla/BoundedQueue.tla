---------------------------- MODULE BoundedQueue ----------------------------
(***************************************************************************)
(* What the multi-threaded FIFO of CMemArea promises its callers: a        *)
(* bounded queue whose operations take effect at one instant between call  *)
(* and return.  A push fails only when the queue is full at that instant,  *)
(* a pop finds nothing only when it is empty at that instant.              *)
(***************************************************************************)
EXTENDS Naturals, Sequences

CONSTANTS
  Threads,    \* the threads that call the queue
  Values,     \* what can be pushed
  NoValue,    \* content of a caller's buffer that was never filled
  Capacity    \* largest number of values the queue holds

VARIABLES
  q,          \* the queue, oldest value first
  op,         \* op[t]: what thread t is doing
  val,        \* val[t]: the caller's buffer, argument of a push, result of a pop
  res         \* res[t]: did the last operation of t succeed

vars == <<q, op, val, res>>

Init ==
  /\ q = << >>
  /\ op = [t \in Threads |-> "idle"]
  /\ val = [t \in Threads |-> NoValue]
  /\ res = [t \in Threads |-> FALSE]

CallPush(t, v) ==
  /\ op[t] = "idle"
  /\ op' = [op EXCEPT ![t] = "push"]
  /\ val' = [val EXCEPT ![t] = v]
  /\ UNCHANGED <<q, res>>

CallPop(t) ==
  /\ op[t] = "idle"
  /\ op' = [op EXCEPT ![t] = "pop"]
  /\ UNCHANGED <<q, val, res>>

Finish(t, success) ==
  /\ op' = [op EXCEPT ![t] = "return"]
  /\ res' = [res EXCEPT ![t] = success]

Push(t) ==
  /\ op[t] = "push"
  /\ Len(q) < Capacity
  /\ q' = Append(q, val[t])
  /\ Finish(t, TRUE)
  /\ UNCHANGED val

PushFull(t) ==
  /\ op[t] = "push"
  /\ Len(q) = Capacity
  /\ Finish(t, FALSE)
  /\ UNCHANGED <<q, val>>

Pop(t) ==
  /\ op[t] = "pop"
  /\ q # << >>
  /\ q' = Tail(q)
  /\ val' = [val EXCEPT ![t] = Head(q)]
  /\ Finish(t, TRUE)

PopEmpty(t) ==
  /\ op[t] = "pop"
  /\ q = << >>
  /\ Finish(t, FALSE)
  /\ UNCHANGED <<q, val>>

Return(t) ==
  /\ op[t] = "return"
  /\ op' = [op EXCEPT ![t] = "idle"]
  /\ UNCHANGED <<q, val, res>>

Next ==
  \E t \in Threads :
    \/ \E v \in Values : CallPush(t, v)
    \/ CallPop(t)
    \/ Push(t) \/ PushFull(t)
    \/ Pop(t) \/ PopEmpty(t)
    \/ Return(t)

Spec == Init /\ [][Next]_vars
=============================================================================
