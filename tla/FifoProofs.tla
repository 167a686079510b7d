----------------------------- MODULE FifoProofs -----------------------------
(***************************************************************************)
(* Proofs about Fifo, for any set of values, any finite set of consumers   *)
(* and any bound on the pushes.  The inductive invariant is                *)
(* TypeOK /\ WakeupsCoverItems /\ FifoOrder: NoLostWakeup alone is not     *)
(* inductive, because a pop by the only runnable consumer would break it   *)
(* if the queue held a second element nobody was notified of.              *)
(***************************************************************************)
EXTENDS Fifo, FiniteSetTheorems, SequenceTheorems, TLAPS

\* Appending to the right part of a concatenation appends to the whole.
LEMMA AppendConcat ==
  ASSUME NEW S, NEW s \in Seq(S), NEW t \in Seq(S), NEW e \in S
  PROVE  Append(s \o t, e) = s \o Append(t, e)
<1>1. s \o t \in Seq(S) /\ <<e>> \in Seq(S)
  BY ConcatProperties
<1>2. Append(s \o t, e) = (s \o t) \o <<e>>
  BY <1>1, AppendIsConcat
<1>3. Append(t, e) = t \o <<e>>
  BY AppendIsConcat
<1> QED
  BY <1>1, <1>2, <1>3, ConcatAssociative

\* Moving the head of the right part to the end of the left part.
LEMMA MoveHead ==
  ASSUME NEW S, NEW s \in Seq(S), NEW t \in Seq(S), t # <<>>
  PROVE  Append(s, Head(t)) \o Tail(t) = s \o t
<1>1. /\ Head(t) \in S
      /\ Tail(t) \in Seq(S)
      /\ <<Head(t)>> \in Seq(S)
  BY HeadTailProperties
<1>2. t = <<Head(t)>> \o Tail(t)
  BY <1>1, SMT
<1>3. Append(s, Head(t)) = s \o <<Head(t)>>
  BY <1>1, AppendIsConcat
<1>4. (s \o <<Head(t)>>) \o Tail(t) = s \o (<<Head(t)>> \o Tail(t))
  BY <1>1, ConcatAssociative
<1> QED
  BY <1>2, <1>3, <1>4

-----------------------------------------------------------------------------
\* A consumer that starts or stops being runnable changes the number of
\* runnable consumers by one.
LEMMA RunnableFinite ==
  IsFiniteSet(Runnable) /\ Cardinality(Runnable) \in Nat
<1>1. Runnable \in SUBSET Consumers
  BY DEF Runnable
<1> QED
  BY <1>1, ConsumersFinite, FS_Subset, FS_CardinalityType

\* A consumer that is notified, or finds an item, joins the runnable ones.
LEMMA BecomesRunnable ==
  ASSUME TypeOK, NEW c \in Consumers, pc[c] # "runnable",
         pc' = [pc EXCEPT ![c] = "runnable"]
  PROVE  /\ Cardinality(Runnable') = Cardinality(Runnable) + 1
         /\ Waiting' = Waiting \ {c}
<1>1. Runnable' = Runnable \cup {c} /\ c \notin Runnable
  BY DEF TypeOK, Runnable
<1>2. Waiting' = Waiting \ {c}
  BY DEF TypeOK, Waiting
<1> QED
  BY <1>1, <1>2, RunnableFinite, FS_AddElement

\* A consumer whose call of pop() returns leaves the runnable ones.
LEMMA LeavesRunnable ==
  ASSUME TypeOK, NEW c \in Consumers, pc[c] = "runnable",
         pc' = [pc EXCEPT ![c] = "idle"]
  PROVE  /\ Cardinality(Runnable') = Cardinality(Runnable) - 1
         /\ Waiting' = Waiting
<1>1. Runnable' = Runnable \ {c} /\ c \in Runnable
  BY DEF TypeOK, Runnable
<1>2. Waiting' = Waiting
  BY DEF TypeOK, Waiting
<1> QED
  BY <1>1, <1>2, RunnableFinite, FS_RemoveElement
-----------------------------------------------------------------------------
\* Every operation of fifo<T> keeps the types.
LEMMA TypeInductive == TypeOK /\ [Next]_vars => TypeOK'
<1> SUFFICES ASSUME TypeOK, [Next]_vars PROVE TypeOK'
  OBVIOUS
<1>1. ASSUME NEW v \in T, Push(v) PROVE TypeOK'
  <2>1. /\ queue_' \in Seq(T)
        /\ accepted' \in Seq(T)
    BY <1>1, AppendProperties DEF TypeOK, Push
  <2>2. pc' \in [Consumers -> {"idle", "runnable", "waiting"}]
    BY <1>1 DEF TypeOK, Push, NotifyOne, Waiting
  <2>3. /\ peak_size_' \in Nat
        /\ total_pushed_' \in Nat
    BY <1>1 DEF TypeOK, Push
  <2> QED
    BY <1>1, <2>1, <2>2, <2>3 DEF TypeOK, Push
<1>2. ASSUME NEW c \in Consumers, Call(c) PROVE TypeOK'
  BY <1>2 DEF TypeOK, Call
<1>3. ASSUME NEW c \in Consumers, WaitAndPop(c) PROVE TypeOK'
  <2>1. CASE PopFront(c)
    <3>1. Head(queue_) \in T /\ Tail(queue_) \in Seq(T)
      BY <2>1, HeadTailProperties DEF TypeOK, PopFront
    <3>2. taken' \in Seq(T)
      BY <2>1, <3>1, AppendProperties DEF TypeOK, PopFront
    <3> QED
      BY <2>1, <3>1, <3>2 DEF TypeOK, PopFront
  <2>2. CASE ReturnNullopt(c) \/ Wait(c)
    BY <2>2 DEF TypeOK, ReturnNullopt, Wait
  <2> QED
    BY <1>3, <2>1, <2>2 DEF WaitAndPop
<1>4. ASSUME NEW c \in Consumers, SpuriousWakeup(c) PROVE TypeOK'
  BY <1>4 DEF TypeOK, SpuriousWakeup
<1>5. CASE Stop
  BY <1>5 DEF TypeOK, Stop, NotifyAll
<1>6. CASE GetStats
  BY <1>6 DEF TypeOK, GetStats
<1>7. CASE IncrementDropCount
  BY <1>7 DEF TypeOK, IncrementDropCount
<1>8. CASE UNCHANGED vars
  BY <1>8 DEF TypeOK, vars
<1> QED
  BY <1>1, <1>2, <1>3, <1>4, <1>5, <1>6, <1>7, <1>8 DEF Next

\* A new fifo<T> has its types.
LEMMA TypeInit == Init => TypeOK
<1> SUFFICES ASSUME Init PROVE TypeOK
  OBVIOUS
<1>1. stopped_ \in BOOLEAN
  BY Zenon DEF Init
<1>2. pc \in [Consumers -> {"idle", "runnable", "waiting"}]
  BY DEF Init
<1>3. queue_ \in Seq(T) /\ accepted \in Seq(T) /\ taken \in Seq(T)
  BY EmptySeq DEF Init
<1>4. /\ peak_size_ \in Nat
      /\ total_pushed_ \in Nat
      /\ total_popped_ \in Nat
      /\ drop_count_ \in Nat
  BY DEF Init
<1> QED
  BY <1>1, <1>2, <1>3, <1>4 DEF TypeOK

(* The queue, the counters and the consumers of fifo<T> keep their types.   *)
THEOREM TypeCorrect == SafeSpec => []TypeOK
BY TypeInit, TypeInductive, PTL DEF SafeSpec

-----------------------------------------------------------------------------
\* While a consumer waits, every operation keeps as many consumers runnable as there are items.
LEMMA WakeupsInductive ==
  TypeOK /\ WakeupsCoverItems /\ [Next]_vars => WakeupsCoverItems'
<1> SUFFICES ASSUME TypeOK, WakeupsCoverItems, [Next]_vars
             PROVE  WakeupsCoverItems'
  OBVIOUS
<1>t. Len(queue_) \in Nat /\ Cardinality(Runnable) \in Nat
  BY RunnableFinite DEF TypeOK
<1>1. ASSUME NEW v \in T, Push(v) PROVE WakeupsCoverItems'
  <2>1. ~stopped_' /\ Len(queue_') = Len(queue_) + 1
    BY <1>1 DEF Push, TypeOK
  <2>2. CASE Waiting = {} /\ UNCHANGED pc
    BY <2>1, <2>2 DEF WakeupsCoverItems, Waiting
  <2>3. ASSUME NEW c \in Waiting, pc' = [pc EXCEPT ![c] = "runnable"]
        PROVE  WakeupsCoverItems'
    <3>1. c \in Consumers /\ pc[c] # "runnable" /\ Waiting # {}
      BY DEF Waiting
    <3>2. Cardinality(Runnable') = Cardinality(Runnable) + 1
      BY <2>3, <3>1, BecomesRunnable
    <3> QED
      BY <1>t, <2>1, <3>1, <3>2 DEF WakeupsCoverItems
  <2> QED
    BY <1>1, <2>2, <2>3 DEF Push, NotifyOne
<1>2. ASSUME NEW c \in Consumers, Call(c) PROVE WakeupsCoverItems'
  <2>1. pc[c] # "runnable" /\ pc' = [pc EXCEPT ![c] = "runnable"]
    BY <1>2 DEF Call
  <2>2. /\ Cardinality(Runnable') = Cardinality(Runnable) + 1
        /\ Waiting' = Waiting \ {c}
    BY <2>1, BecomesRunnable
  <2> QED
    BY <1>2, <1>t, <2>2 DEF Call, WakeupsCoverItems
<1>3. ASSUME NEW c \in Consumers, PopFront(c) PROVE WakeupsCoverItems'
  <2>1. Len(queue_') = Len(queue_) - 1 /\ stopped_' = stopped_
    BY <1>3 DEF PopFront, TypeOK
  <2>2. /\ Cardinality(Runnable') = Cardinality(Runnable) - 1
        /\ Waiting' = Waiting
    BY <1>3, LeavesRunnable DEF PopFront
  <2> QED
    BY <1>t, <2>1, <2>2 DEF WakeupsCoverItems
<1>4. ASSUME NEW c \in Consumers, ReturnNullopt(c) PROVE WakeupsCoverItems'
  <2>1. Waiting' = Waiting
    BY <1>4, LeavesRunnable DEF ReturnNullopt
  <2> QED
    BY <1>4, <2>1 DEF ReturnNullopt, WakeupsCoverItems
<1>5. ASSUME NEW c \in Consumers, Wait(c) PROVE WakeupsCoverItems'
  <2>1. ~stopped_' /\ Len(queue_') = 0
    BY <1>5 DEF Wait
  <2>2. Runnable' \in SUBSET Consumers
    BY DEF Runnable
  <2>3. Cardinality(Runnable') \in Nat
    BY <2>2, ConsumersFinite, FS_Subset, FS_CardinalityType
  <2> QED
    BY <2>1, <2>3 DEF WakeupsCoverItems
<1>6. ASSUME NEW c \in Consumers, SpuriousWakeup(c) PROVE WakeupsCoverItems'
  <2>1. /\ Waiting # {}
        /\ pc[c] # "runnable"
        /\ pc' = [pc EXCEPT ![c] = "runnable"]
    BY <1>6 DEF SpuriousWakeup, Waiting
  <2>2. /\ Cardinality(Runnable') = Cardinality(Runnable) + 1
        /\ Waiting' = Waiting \ {c}
    BY <2>1, BecomesRunnable
  <2> QED
    BY <1>6, <1>t, <2>1, <2>2 DEF SpuriousWakeup, WakeupsCoverItems
<1>7. CASE Stop
  <2>1. Waiting' = {}
    BY <1>7 DEF Stop, NotifyAll, Waiting, TypeOK
  <2> QED
    BY <2>1 DEF WakeupsCoverItems
<1>8. CASE GetStats \/ IncrementDropCount \/ UNCHANGED vars
  <2>1. UNCHANGED <<queue_, stopped_, pc>>
    BY <1>8 DEF GetStats, IncrementDropCount, vars
  <2>2. Waiting' = Waiting /\ Runnable' = Runnable
    BY <2>1 DEF Waiting, Runnable
  <2> QED
    BY <2>1, <2>2 DEF WakeupsCoverItems
<1> QED
  BY <1>1, <1>2, <1>3, <1>4, <1>5, <1>6, <1>7, <1>8 DEF Next, WaitAndPop

(* While a consumer is blocked on cv_, every element in the queue has a     *)
(* runnable consumer of its own, and a stopped queue has nobody blocked.    *)
THEOREM WakeupsCovered == SafeSpec => []WakeupsCoverItems
<1>1. Init => WakeupsCoverItems
  <2> SUFFICES ASSUME Init PROVE WakeupsCoverItems
    OBVIOUS
  <2>1. Waiting = {}
    BY DEF Init, Waiting
  <2> QED
    BY <2>1 DEF WakeupsCoverItems
<1> QED
  BY <1>1, TypeInit, TypeInductive, WakeupsInductive, PTL DEF SafeSpec

(* Notifying one consumer per push and all of them in stop loses no wakeup. *)
THEOREM NoWakeupLost == SafeSpec => []NoLostWakeup
<1>1. TypeOK /\ WakeupsCoverItems => NoLostWakeup
  <2> SUFFICES ASSUME TypeOK, WakeupsCoverItems, Waiting # {}, Runnable = {},
                      queue_ # <<>>
               PROVE  FALSE
    BY DEF WakeupsCoverItems, NoLostWakeup
  <2>1. Cardinality(Runnable) = 0
    BY FS_EmptySet
  <2>2. Len(queue_) \in Nat /\ Len(queue_) # 0
    BY DEF TypeOK
  <2> QED
    BY <2>1, <2>2 DEF WakeupsCoverItems
<1> QED
  BY <1>1, TypeCorrect, WakeupsCovered, PTL

-----------------------------------------------------------------------------
\* Every operation keeps what was accepted equal to what was taken, then what is queued.
LEMMA OrderInductive ==
  TypeOK /\ FifoOrder /\ [Next]_vars => FifoOrder'
<1> SUFFICES ASSUME TypeOK, FifoOrder, [Next]_vars PROVE FifoOrder'
  OBVIOUS
<1>1. ASSUME NEW v \in T, Push(v) PROVE FifoOrder'
  <2>1. accepted' = taken' \o queue_'
    <3>1. accepted' = Append(taken \o queue_, v)
      BY <1>1 DEF Push, FifoOrder
    <3>2. taken' \o queue_' = taken \o Append(queue_, v)
      BY <1>1 DEF Push
    <3> QED
      BY <3>1, <3>2, AppendConcat DEF TypeOK
  <2>2. Len(accepted') = Len(accepted) + 1 /\ Len(queue_') = Len(queue_) + 1
    BY <1>1, AppendProperties DEF Push, TypeOK
  <2>3. /\ total_pushed_' = Len(accepted')
        /\ total_popped_' = Len(taken')
        /\ peak_size_' >= Len(queue_')
    BY <1>1, <2>2 DEF Push, TypeOK, FifoOrder
  <2> QED
    BY <2>1, <2>3 DEF FifoOrder
<1>2. ASSUME NEW c \in Consumers, PopFront(c) PROVE FifoOrder'
  <2>1. accepted' = taken' \o queue_'
    <3>1. taken' \o queue_' = Append(taken, Head(queue_)) \o Tail(queue_)
      BY <1>2 DEF PopFront
    <3> QED
      BY <1>2, <3>1, MoveHead DEF PopFront, TypeOK, FifoOrder
  <2>2. Len(taken') = Len(taken) + 1 /\ Len(queue_') = Len(queue_) - 1
    BY <1>2, AppendProperties, HeadTailProperties DEF PopFront, TypeOK
  <2>3. /\ total_pushed_' = Len(accepted')
        /\ total_popped_' = Len(taken')
        /\ peak_size_' >= Len(queue_')
    BY <1>2, <2>2 DEF PopFront, TypeOK, FifoOrder
  <2> QED
    BY <2>1, <2>3 DEF FifoOrder
<1>3. CASE GetStats
  BY <1>3 DEF GetStats, TypeOK, FifoOrder
<1>4. CASE UNCHANGED <<queue_, peak_size_, total_pushed_, total_popped_,
                       accepted, taken>>
  BY <1>4 DEF FifoOrder
<1> QED
  BY <1>1, <1>2, <1>3, <1>4
  DEF Next, WaitAndPop, Call, ReturnNullopt, Wait, SpuriousWakeup, Stop,
      IncrementDropCount, vars

(* The consumers together receive exactly what push accepted, once each and *)
(* in the order of the pushes; total_pushed_, total_popped_ and peak_size_  *)
(* agree with it.                                                           *)
THEOREM OrderKept == SafeSpec => []FifoOrder
<1>1. Init => FifoOrder
  <2> SUFFICES ASSUME Init PROVE FifoOrder
    OBVIOUS
  <2>1. taken \o queue_ = <<>>
    BY TypeInit, ConcatEmptySeq DEF Init, TypeOK
  <2> QED
    BY <2>1, EmptySeq DEF Init, FifoOrder
<1> QED
  BY <1>1, TypeInit, TypeInductive, OrderInductive, PTL DEF SafeSpec

-----------------------------------------------------------------------------
\* Every operation is a step of the abstract queue, or leaves it alone.
LEMMA StepRefines == TypeOK /\ FifoOrder /\ [Next]_vars => [Abs!Next]_(Abs!avars)
<1> SUFFICES ASSUME TypeOK, FifoOrder, [Next]_vars
             PROVE  [Abs!Next]_(Abs!avars)
  OBVIOUS
<1> DEFINE pending == Waiting \cup Runnable
<1>0. ASSUME NEW c \in Consumers, pc[c] = "runnable",
             pc' = [pc EXCEPT ![c] = "idle"]
      PROVE  c \in pending /\ pending' = pending \ {c}
  BY <1>0 DEF TypeOK, Waiting, Runnable
<1>1. ASSUME NEW v \in T, Push(v) PROVE Abs!Push(v)
  <2>1. Len(taken) + Len(queue_) = total_pushed_
    BY ConcatProperties DEF TypeOK, FifoOrder
  <2>2. pending' = pending
    BY <1>1 DEF Push, NotifyOne, TypeOK, Waiting, Runnable
  <2> QED
    BY <1>1, <2>1, <2>2 DEF Push, Abs!Push
<1>2. ASSUME NEW c \in Consumers, Call(c) PROVE Abs!Call(c)
  <2>1. c \notin pending /\ pending' = pending \cup {c}
    BY <1>2 DEF Call, TypeOK, Waiting, Runnable
  <2> QED
    BY <1>2, <2>1 DEF Call, Abs!Call
<1>3. ASSUME NEW c \in Consumers, PopFront(c) PROVE Abs!ReturnItem(c)
  BY <1>0, <1>3 DEF PopFront, Abs!ReturnItem
<1>4. ASSUME NEW c \in Consumers, ReturnNullopt(c) PROVE Abs!ReturnNullopt(c)
  BY <1>0, <1>4 DEF ReturnNullopt, Abs!ReturnNullopt
<1>5. ASSUME NEW c \in Consumers, Wait(c) \/ SpuriousWakeup(c)
      PROVE  UNCHANGED Abs!avars
  <2>1. pending' = pending
    BY <1>5 DEF Wait, SpuriousWakeup, TypeOK, Waiting, Runnable
  <2> QED
    BY <1>5, <2>1 DEF Wait, SpuriousWakeup, Abs!avars
<1>6. CASE Stop
  <2>1. pending' = pending
    BY <1>6 DEF Stop, NotifyAll, TypeOK, Waiting, Runnable
  <2> QED
    BY <1>6, <2>1 DEF Stop, Abs!Stop, Abs!Next
<1>7. CASE GetStats \/ IncrementDropCount \/ UNCHANGED vars
  <2>1. UNCHANGED <<queue_, stopped_, pc, taken>>
    BY <1>7 DEF GetStats, IncrementDropCount, vars
  <2>2. pending' = pending
    BY <2>1 DEF Waiting, Runnable
  <2> QED
    BY <2>1, <2>2 DEF Abs!avars
<1> QED
  BY <1>1, <1>2, <1>3, <1>4, <1>5, <1>6, <1>7
  DEF Next, WaitAndPop, Abs!Next, Abs!Return

(* Every behaviour of the queue with its mutex and condition variable is,   *)
(* safety apart from fairness, a behaviour of the atomic queue that the     *)
(* models of Worker and Publisher use.                                      *)
THEOREM RefinesAbstractFifo == SafeSpec => Abs!SafeSpec
<1>1. Init => Abs!Init
  <2> SUFFICES ASSUME Init PROVE Abs!Init
    OBVIOUS
  <2>1. Waiting \cup Runnable = {}
    BY DEF Init, Waiting, Runnable
  <2> QED
    BY <2>1 DEF Init, Abs!Init
<1> QED
  BY <1>1, TypeCorrect, OrderKept, StepRefines, PTL DEF SafeSpec, Abs!SafeSpec
=============================================================================
