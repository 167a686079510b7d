-------------------------------- MODULE Fifo --------------------------------
(***************************************************************************)
(* fifo<T> of src/src/utils/fifo.h: the stoppable queue between the        *)
(* threads of the pipeline.  A critical section of mtx_ is one step.       *)
(* cv_.wait releases the mutex, so wait_and_pop takes several: a consumer  *)
(* is "runnable" while it contends for mtx_ to test the predicate (on      *)
(* entry, or after a wakeup) and "waiting" while it is blocked on cv_.     *)
(* The high-water-mark warning of push only logs and is left out.          *)
(***************************************************************************)
EXTENDS Naturals, Sequences, FiniteSets

CONSTANTS T,          \* the values the queue carries
          Consumers,  \* the threads that call wait_and_pop
          MaxPushes,  \* bound on the number of accepted pushes
          MaxDrops    \* bound on the calls of increment_drop_count

ASSUME ConsumersFinite == IsFiniteSet(Consumers)

VARIABLES
  queue_,         \* the elements, oldest first
  stopped_,       \* stop() was called
  peak_size_,     \* largest size since the last reset by get_stats
  total_pushed_,  \* accepted pushes
  total_popped_,  \* elements handed out
  drop_count_,    \* calls of increment_drop_count
  pc,             \* where each consumer is in wait_and_pop
  accepted,       \* history: every element push accepted, in order
  taken           \* history: every element wait_and_pop returned, in order

vars == <<queue_, stopped_, peak_size_, total_pushed_, total_popped_,
          drop_count_, pc, accepted, taken>>

Waiting  == {c \in Consumers : pc[c] = "waiting"}
Runnable == {c \in Consumers : pc[c] = "runnable"}

Init ==
  /\ queue_ = <<>>
  /\ stopped_ = FALSE
  /\ peak_size_ = 0
  /\ total_pushed_ = 0
  /\ total_popped_ = 0
  /\ drop_count_ = 0
  /\ pc = [c \in Consumers |-> "idle"]
  /\ accepted = <<>>
  /\ taken = <<>>

-----------------------------------------------------------------------------
\* Mutant of NotifyOne: wakes a consumer only when the queue was empty.
NotifyOneIfWasEmpty ==
  \/ (Waiting = {} \/ queue_ # <<>>) /\ UNCHANGED pc
  \/ queue_ = <<>> /\ \E c \in Waiting : pc' = [pc EXCEPT ![c] = "runnable"]

\* cv_.notify_one(): one waiting thread, any of them, leaves the wait.
NotifyOne ==
  \/ Waiting = {} /\ UNCHANGED pc
  \/ \E c \in Waiting : pc' = [pc EXCEPT ![c] = "runnable"]

\* Mutant of NotifyAll: stop() calls notify_one.
NotifyAllWakesOne ==
  \/ Waiting = {} /\ UNCHANGED pc
  \/ \E c \in Waiting : pc' = [pc EXCEPT ![c] = "runnable"]

\* cv_.notify_all()
NotifyAll == pc' = [c \in Consumers |-> IF pc[c] = "waiting" THEN "runnable" ELSE pc[c]]

\* Mutant of Push: the early return of a stopped queue is missing.
PushWhenStopped(v) ==
  /\ total_pushed_ < MaxPushes
  /\ queue_' = Append(queue_, v)
  /\ accepted' = Append(accepted, v)
  /\ total_pushed_' = total_pushed_ + 1
  /\ peak_size_' = IF Len(queue_) + 1 > peak_size_ THEN Len(queue_) + 1 ELSE peak_size_
  /\ NotifyOne
  /\ UNCHANGED <<stopped_, total_popped_, drop_count_, taken>>

\* push(value); on a stopped queue it returns early and nothing changes.
Push(v) ==
  /\ ~stopped_
  /\ total_pushed_ < MaxPushes
  /\ queue_' = Append(queue_, v)
  /\ accepted' = Append(accepted, v)
  /\ total_pushed_' = total_pushed_ + 1
  /\ peak_size_' = IF Len(queue_) + 1 > peak_size_ THEN Len(queue_) + 1 ELSE peak_size_
  /\ NotifyOne
  /\ UNCHANGED <<stopped_, total_popped_, drop_count_, taken>>

\* A thread calls wait_and_pop and contends for mtx_.
Call(c) ==
  /\ pc[c] = "idle"
  /\ pc' = [pc EXCEPT ![c] = "runnable"]
  /\ UNCHANGED <<queue_, stopped_, peak_size_, total_pushed_, total_popped_,
                 drop_count_, accepted, taken>>

\* Mutant of PopFront: the newest element is handed out.
PopBack(c) ==
  /\ pc[c] = "runnable"
  /\ queue_ # <<>>
  /\ taken' = Append(taken, queue_[Len(queue_)])
  /\ queue_' = SubSeq(queue_, 1, Len(queue_) - 1)
  /\ total_popped_' = total_popped_ + 1
  /\ pc' = [pc EXCEPT ![c] = "idle"]
  /\ UNCHANGED <<stopped_, peak_size_, total_pushed_, drop_count_, accepted>>

\* The predicate holds and the queue has an element: pop it and return it.
PopFront(c) ==
  /\ pc[c] = "runnable"
  /\ queue_ # <<>>
  /\ taken' = Append(taken, Head(queue_))
  /\ queue_' = Tail(queue_)
  /\ total_popped_' = total_popped_ + 1
  /\ pc' = [pc EXCEPT ![c] = "idle"]
  /\ UNCHANGED <<stopped_, peak_size_, total_pushed_, drop_count_, accepted>>

\* The queue is stopped and drained: return nullopt.
ReturnNullopt(c) ==
  /\ pc[c] = "runnable"
  /\ queue_ = <<>>
  /\ stopped_
  /\ pc' = [pc EXCEPT ![c] = "idle"]
  /\ UNCHANGED <<queue_, stopped_, peak_size_, total_pushed_, total_popped_,
                 drop_count_, accepted, taken>>

\* The predicate is false: block on cv_, releasing mtx_.
Wait(c) ==
  /\ pc[c] = "runnable"
  /\ queue_ = <<>>
  /\ ~stopped_
  /\ pc' = [pc EXCEPT ![c] = "waiting"]
  /\ UNCHANGED <<queue_, stopped_, peak_size_, total_pushed_, total_popped_,
                 drop_count_, accepted, taken>>

\* One turn of a consumer that holds mtx_: test the predicate and act on it.
WaitAndPop(c) == PopFront(c) \/ ReturnNullopt(c) \/ Wait(c)

\* cv_.wait may return without a notification; the predicate is tested again.
SpuriousWakeup(c) ==
  /\ pc[c] = "waiting"
  /\ pc' = [pc EXCEPT ![c] = "runnable"]
  /\ UNCHANGED <<queue_, stopped_, peak_size_, total_pushed_, total_popped_,
                 drop_count_, accepted, taken>>

\* Mutant of Stop: the flag is set but nobody is notified.
StopWithoutNotify ==
  /\ stopped_' = TRUE
  /\ UNCHANGED <<queue_, peak_size_, total_pushed_, total_popped_, drop_count_,
                 pc, accepted, taken>>

\* stop(); Worker, Publisher and their destructors call it more than once.
Stop ==
  /\ stopped_' = TRUE
  /\ NotifyAll
  /\ UNCHANGED <<queue_, peak_size_, total_pushed_, total_popped_, drop_count_,
                 accepted, taken>>

\* Mutant of GetStats: the reset leaves one element out.
GetStatsOffByOne ==
  /\ peak_size_' = Len(queue_) - 1
  /\ UNCHANGED <<queue_, stopped_, total_pushed_, total_popped_, drop_count_,
                 pc, accepted, taken>>

\* get_stats(reset_peak = true); with FALSE nothing changes.
GetStats ==
  /\ peak_size_' = Len(queue_)
  /\ UNCHANGED <<queue_, stopped_, total_pushed_, total_popped_, drop_count_,
                 pc, accepted, taken>>

IncrementDropCount ==
  /\ drop_count_ < MaxDrops
  /\ drop_count_' = drop_count_ + 1
  /\ UNCHANGED <<queue_, stopped_, peak_size_, total_pushed_, total_popped_,
                 pc, accepted, taken>>

Next ==
  \/ \E v \in T : Push(v)
  \/ \E c \in Consumers : Call(c) \/ WaitAndPop(c) \/ SpuriousWakeup(c)
  \/ Stop
  \/ GetStats
  \/ IncrementDropCount

SafeSpec == Init /\ [][Next]_vars

\* A runnable thread is eventually scheduled and gets the mutex.  Nothing is
\* assumed of the callers (Push, Call, Stop) or of spurious wakeups.
Spec == SafeSpec /\ \A c \in Consumers : WF_vars(WaitAndPop(c))

-----------------------------------------------------------------------------
(* Types; in particular the counters get_stats reports never go negative.   *)
TypeOK ==
  /\ queue_ \in Seq(T)
  /\ stopped_ \in BOOLEAN
  /\ peak_size_ \in Nat
  /\ total_pushed_ \in Nat
  /\ total_popped_ \in Nat
  /\ drop_count_ \in Nat
  /\ pc \in [Consumers -> {"idle", "runnable", "waiting"}]
  /\ accepted \in Seq(T)
  /\ taken \in Seq(T)

(* push notifies one consumer per element and stop all of them: while there *)
(* is an element to take, or the queue is stopped, it never happens that    *)
(* consumers are blocked on cv_ and none of the others is on its way to     *)
(* test the predicate.                                                      *)
NoLostWakeup ==
  (queue_ # <<>> \/ stopped_) /\ Waiting # {} => Runnable # {}

(* The inductive form of NoLostWakeup: as long as a consumer is blocked,    *)
(* every element in the queue has a runnable consumer of its own, and a     *)
(* stopped queue has nobody blocked.                                        *)
WakeupsCoverItems ==
  /\ stopped_ => Waiting = {}
  /\ Waiting # {} => Len(queue_) <= Cardinality(Runnable)

(* Consumers together receive exactly what was accepted, once each and in   *)
(* the order of the pushes, and the counters of get_stats agree with it.    *)
FifoOrder ==
  /\ accepted = taken \o queue_
  /\ total_pushed_ = Len(accepted)
  /\ total_popped_ = Len(taken)
  /\ peak_size_ >= Len(queue_)

(* stop() unblocks every thread inside wait_and_pop, also the ones that     *)
(* must first hand out what is left in the queue.                           *)
StopReleasesConsumers ==
  \A c \in Consumers : (stopped_ /\ pc[c] # "idle") ~> (pc[c] = "idle")

\* The mutex and the condition variable together implement the atomic queue.
Abs == INSTANCE AbstractFifo WITH
         items <- queue_, stopped <- stopped_,
         pending <- Waiting \cup Runnable, taken <- taken

(* Every step of the queue is a step of AbstractFifo or a stutter, and the  *)
(* weak fairness of the runnable threads is enough for its promise to every *)
(* consumer: a call whose predicate stays true returns, although notify_one *)
(* may keep choosing other consumers.                                       *)
ImplementsAbstractFifo == Abs!Spec
=============================================================================
