---------------------------- MODULE AbstractFifo ----------------------------
(***************************************************************************)
(* What fifo<T> (src/src/utils/fifo.h) promises the threads that share it: *)
(* one atomic queue.  A push is accepted until the queue is stopped, a     *)
(* consumer inside wait_and_pop returns with the oldest element, or with   *)
(* nullopt once the queue is stopped and drained, and a call that can      *)
(* return for good eventually does.  Fifo.tla is the detailed              *)
(* specification with the mutex and the condition variable.                *)
(***************************************************************************)
EXTENDS Naturals, Sequences

CONSTANTS T,          \* the values the queue carries
          Consumers,  \* the threads that call wait_and_pop
          MaxPushes   \* bound on the number of accepted pushes

VARIABLES items,    \* the elements in the queue, oldest first
          stopped,  \* stop() was called
          pending,  \* the consumers inside wait_and_pop
          taken     \* every element handed out so far, in order

avars == <<items, stopped, pending, taken>>

Init ==
  /\ items = <<>>
  /\ stopped = FALSE
  /\ pending = {}
  /\ taken = <<>>

Push(v) ==
  /\ ~stopped
  /\ Len(taken) + Len(items) < MaxPushes
  /\ items' = Append(items, v)
  /\ UNCHANGED <<stopped, pending, taken>>

Call(c) ==
  /\ c \notin pending
  /\ pending' = pending \cup {c}
  /\ UNCHANGED <<items, stopped, taken>>

ReturnItem(c) ==
  /\ c \in pending
  /\ items # <<>>
  /\ taken' = Append(taken, Head(items))
  /\ items' = Tail(items)
  /\ pending' = pending \ {c}
  /\ UNCHANGED stopped

ReturnNullopt(c) ==
  /\ c \in pending
  /\ items = <<>>
  /\ stopped
  /\ pending' = pending \ {c}
  /\ UNCHANGED <<items, stopped, taken>>

Return(c) == ReturnItem(c) \/ ReturnNullopt(c)

Stop ==
  /\ stopped' = TRUE
  /\ UNCHANGED <<items, pending, taken>>

Next ==
  \/ \E v \in T : Push(v)
  \/ \E c \in Consumers : Call(c) \/ Return(c)
  \/ Stop

SafeSpec == Init /\ [][Next]_avars

\* Fairness to every consumer, not only to the queue as a whole.
Spec == SafeSpec /\ \A c \in Consumers : WF_avars(Return(c))
=============================================================================
