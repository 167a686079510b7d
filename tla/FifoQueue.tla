----------------------------- MODULE FifoQueue ------------------------------
(***************************************************************************)
(* fifo<T> as the atomic queue of AbstractFifo, which Fifo is shown to     *)
(* implement: a value [items, stopped] and one operator per method, for    *)
(* the modules whose threads share a queue.  wait_and_pop is a guarded     *)
(* step of its caller: HasItem(q) and then Pop(q), or Drained(q), which is *)
(* its nullopt result.                                                     *)
(***************************************************************************)
EXTENDS Sequences

EmptyQueue == [items |-> <<>>, stopped |-> FALSE]

\* Mutant of Push: the element goes to the front.
PushFront(q, v) == IF q.stopped THEN q ELSE [q EXCEPT !.items = <<v>> \o @]

\* push: a stopped queue silently drops the element.
Push(q, v) == IF q.stopped THEN q ELSE [q EXCEPT !.items = Append(@, v)]

\* wait_and_pop returns the oldest element, also when the queue is stopped.
HasItem(q) == q.items # <<>>
Oldest(q) == Head(q.items)
Pop(q) == [q EXCEPT !.items = Tail(@)]

\* wait_and_pop returns nullopt.
Drained(q) == q.stopped /\ q.items = <<>>

\* stop: the elements stay in the queue.
StopQueue(q) == [q EXCEPT !.stopped = TRUE]
=============================================================================
