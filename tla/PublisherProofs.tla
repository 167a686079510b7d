-------------------------- MODULE PublisherProofs ---------------------------
(***************************************************************************)
(* Proofs about Publisher, for any number of publisher threads, streams,   *)
(* events, frames and lost replies and any batch sizes.                    *)
(***************************************************************************)
EXTENDS Publisher, SequenceTheorems, FiniteSetTheorems, FunctionTheorems,
        NaturalsInduction, WellFoundedInduction, TLAPS

\* The queues hold values of T.
Queue(T) == [items : Seq(T), stopped : BOOLEAN]

\* Every batch formed so far that is not forgotten.
Known == Batches \cup requeued \cup ToSet(lost_replies)

-----------------------------------------------------------------------------
(* Sequences and queues *)

\* Appending adds one element to the range of a sequence.
LEMMA ToSetAppend ==
  ASSUME NEW T, NEW s \in Seq(T), NEW e \in T
  PROVE  ToSet(Append(s, e)) = ToSet(s) \cup {e}
<1>1. PICK n : n = Len(s) + 1
  OBVIOUS
<1>2. /\ DOMAIN Append(s, e) = DOMAIN s \cup {n} /\ Append(s, e)[n] = e
      /\ \A i \in DOMAIN s : Append(s, e)[i] = s[i]
  BY <1>1, AppendProperties, LenProperties
<1> QED
  BY <1>2 DEF ToSet

\* The head and the tail make up the range.
LEMMA ToSetTail ==
  ASSUME NEW T, NEW s \in Seq(T), s # <<>>
  PROVE  ToSet(s) = ToSet(Tail(s)) \cup {Head(s)}
<1>1. /\ Tail(s) \in Seq(T) /\ Len(Tail(s)) = Len(s) - 1
      /\ \A i \in 1..Len(Tail(s)) : Tail(s)[i] = s[i + 1]
  BY HeadTailProperties
<1>2. Len(s) \in Nat \ {0} /\ Head(s) = s[1]
  BY EmptySeq
<1>3. DOMAIN s = 1..Len(s) /\ DOMAIN Tail(s) = 1..Len(Tail(s))
  BY <1>1, LenProperties
<1>4. \A i \in DOMAIN s : i = 1 \/ (i - 1 \in DOMAIN Tail(s) /\ Tail(s)[i - 1] = s[i])
  BY <1>1, <1>2, <1>3
<1>5. \A i \in DOMAIN Tail(s) : i + 1 \in DOMAIN s /\ Tail(s)[i] = s[i + 1]
  BY <1>1, <1>2, <1>3
<1>6. 1 \in DOMAIN s
  BY <1>2, <1>3
<1>7. ToSet(s) \subseteq ToSet(Tail(s)) \cup {Head(s)}
  BY <1>2, <1>4 DEF ToSet
<1>8. ToSet(Tail(s)) \cup {Head(s)} \subseteq ToSet(s)
  BY <1>2, <1>5, <1>6 DEF ToSet
<1> QED
  BY <1>7, <1>8

\* push on batch_queue_: appended when it is open, dropped when it is stopped.
LEMMA PushBatch ==
  ASSUME NEW b \in Seq(Frame), batch_queue_ \in Queue(Seq(Frame)),
         batch_queue_' = Push(batch_queue_, b)
  PROVE  /\ batch_queue_' \in Queue(Seq(Frame)) /\ batch_queue_'.stopped = batch_queue_.stopped
         /\ batch_queue_.stopped => batch_queue_' = batch_queue_
         /\ ~batch_queue_.stopped => batch_queue_'.items = Append(batch_queue_.items, b)
         /\ Queued \subseteq Queued' /\ Queued' \subseteq Queued \cup {b}
<1>1. batch_queue_.items \in Seq(Seq(Frame)) /\ batch_queue_.stopped \in BOOLEAN
  BY DEF Queue
<1>2. CASE batch_queue_.stopped
  BY <1>2 DEF Push, Queued
<1>3. CASE ~batch_queue_.stopped
  <2>1. batch_queue_' = [batch_queue_ EXCEPT !.items = Append(batch_queue_.items, b)]
    BY <1>3 DEF Push
  <2>2. batch_queue_'.items = Append(batch_queue_.items, b) /\ batch_queue_'.stopped = batch_queue_.stopped
    BY <2>1 DEF Queue
  <2>3. Append(batch_queue_.items, b) \in Seq(Seq(Frame))
    BY <1>1, AppendProperties
  <2>4. batch_queue_' \in Queue(Seq(Frame))
    BY <1>1, <2>1, <2>3 DEF Queue
  <2>5. ToSet(batch_queue_'.items) = ToSet(batch_queue_.items) \cup {b}
    BY <1>1, <2>2, ToSetAppend
  <2> QED
    BY <1>3, <2>2, <2>4, <2>5 DEF Queued
<1> QED
  BY <1>2, <1>3

\* push on processed_frame_queue_, which Arrive does only while it is open.
LEMMA PushFrame ==
  ASSUME NEW f \in Frame, processed_frame_queue_ \in Queue(Frame),
         ~processed_frame_queue_.stopped,
         processed_frame_queue_' = Push(processed_frame_queue_, f)
  PROVE  /\ processed_frame_queue_' \in Queue(Frame)
         /\ processed_frame_queue_'.stopped = processed_frame_queue_.stopped
         /\ processed_frame_queue_'.items = Append(processed_frame_queue_.items, f)
<1>1. processed_frame_queue_.items \in Seq(Frame) /\ processed_frame_queue_.stopped \in BOOLEAN
  BY DEF Queue
<1>2. processed_frame_queue_' =
        [processed_frame_queue_ EXCEPT !.items = Append(processed_frame_queue_.items, f)]
  BY DEF Push
<1>3. /\ processed_frame_queue_'.items = Append(processed_frame_queue_.items, f)
      /\ processed_frame_queue_'.stopped = processed_frame_queue_.stopped
  BY <1>2 DEF Queue
<1>4. Append(processed_frame_queue_.items, f) \in Seq(Frame)
  BY <1>1, AppendProperties
<1>5. processed_frame_queue_' \in Queue(Frame)
  BY <1>1, <1>2, <1>4 DEF Queue
<1> QED
  BY <1>3, <1>5

\* wait_and_pop takes the oldest element and leaves the rest in order.
LEMMA PopFacts ==
  ASSUME NEW T, NEW q \in Queue(T), HasItem(q)
  PROVE  /\ Pop(q) \in Queue(T) /\ Pop(q).stopped = q.stopped /\ Pop(q).items = Tail(q.items)
         /\ Oldest(q) \in T
         /\ ToSet(q.items) = ToSet(Pop(q).items) \cup {Oldest(q)}
<1>1. q.items \in Seq(T) /\ q.items # <<>> /\ q.stopped \in BOOLEAN
  BY DEF Queue, HasItem
<1>2. Head(q.items) \in T /\ Tail(q.items) \in Seq(T)
  BY <1>1, HeadTailProperties
<1>3. Pop(q) = [q EXCEPT !.items = Tail(q.items)]
  BY DEF Pop
<1>4. Pop(q).items = Tail(q.items) /\ Pop(q).stopped = q.stopped
  BY <1>3 DEF Queue
<1>5. Pop(q) \in Queue(T)
  BY <1>1, <1>2, <1>3 DEF Queue
<1>6. ToSet(q.items) = ToSet(Tail(q.items)) \cup {Head(q.items)}
  BY <1>1, ToSetTail
<1> QED
  BY <1>2, <1>4, <1>5, <1>6 DEF Oldest

\* stop() keeps the elements.
LEMMA StopFacts ==
  ASSUME NEW T, NEW q \in Queue(T)
  PROVE  StopQueue(q) \in Queue(T) /\ StopQueue(q).stopped = TRUE /\ StopQueue(q).items = q.items
  BY DEF StopQueue, Queue

\* Any set of keys has a first one: a minimal counterexample of well-foundedness.
LEMMA NatHasMin ==
  ASSUME NEW S \in SUBSET Nat, S # {}
  PROVE  \E x \in S : \A y \in S : x <= y
<1>1. IsWellFoundedOn(OpToRel(<, Nat), Nat)
  BY NatLessThanWellFounded
<1>2. PICK x \in S : \A y \in S : ~(<<y, x>> \in OpToRel(<, Nat))
  BY <1>1, WFMin, Zenon
<1>3. \A y \in S : ~(y < x)
  BY <1>2 DEF OpToRel
<1> QED
  BY <1>3

-----------------------------------------------------------------------------
(* Types *)

\* The constructor's state.
LEMMA TypeInitially == Init => TypeOK
<1> SUFFICES ASSUME Init PROVE TypeOK
  OBVIOUS
<1>1. /\ <<>> \in Seq(Frame) /\ <<>> \in Seq(Seq(Frame))
      /\ ToSet(<<>>) = {}
  BY EmptySeq DEF ToSet
<1>2. EmptyQueue \in Queue(Frame) /\ EmptyQueue \in Queue(Seq(Frame)) /\ EmptyQueue.items = <<>>
  BY <1>1 DEF EmptyQueue, Queue
<1>3. Known = {} /\ Partial = {}
  BY <1>1, <1>2 DEF Init, Known, Batches, Queued, Held, Stored, Partial
<1>4. joined \in 0..NumPublishers /\ arrived \in 0..MaxFrames /\ 1..joined = {}
  BY NumPublishersPos, BoundsNat DEF NumPublishersPos, BoundsNat, Init
<1>5. LocalsAgree
  BY <1>2, <1>3, <1>4 DEF Init, LocalsAgree, EmptyQueue
<1>6. /\ batcher \in {"loop", "pop", "frame", "flush", "exited"}
      /\ pc \in [Publishers -> {"loop", "pop", "send", "exited"}]
  BY DEF Init
<1> QED
  BY <1>1, <1>2, <1>3, <1>4, <1>5, <1>6 DEF Init, TypeOK, Known, Queue

\* The parts of TypeOK the proofs keep using.
LEMMA TypeFacts ==
  ASSUME TypeOK
  PROVE  /\ processed_frame_queue_ \in Queue(Frame) /\ batch_queue_ \in Queue(Seq(Frame))
         /\ \A b \in Known : IsBatch(b)
         /\ LocalsAgree
  BY DEF TypeOK, Queue, Known

\* What a step of publisher thread p leaves to show of TypeOK.
LEMMA SenderMoves ==
  ASSUME TypeOK, NEW p \in Publishers, pc[p] # "exited",
         batch_queue_' \in Queue(Seq(Frame)), batch_queue_'.stopped = batch_queue_.stopped,
         redis' \in Seq(Seq(Frame)), lost_replies' \in Seq(Seq(Frame)),
         Known' \subseteq Known,
         NEW to \in {"loop", "pop", "send", "exited"}, pc' = [pc EXCEPT ![p] = to],
         batch' \in [Publishers -> {NoBatch} \cup Seq(Frame)],
         \A q \in Publishers : q # p => batch'[q] = batch[q],
         batch'[p] # NoBatch <=> to = "send",
         connected' \in [Publishers -> BOOLEAN],
         UNCHANGED <<processed_frame_queue_, batcherVars, stop_requested, stopVars, arrived>>
  PROVE  TypeOK'
<1>1. LocalsAgree /\ pc \in [Publishers -> {"loop", "pop", "send", "exited"}]
      /\ joined \in 0..NumPublishers /\ \A b \in Known : IsBatch(b)
  BY TypeFacts DEF TypeOK
<1>2. /\ UNCHANGED <<batcher, d_frame, current_batches, batcher_stop>>
      /\ UNCHANGED <<stop_pc, joined, is_enabled_, dry_run_mode>>
  BY DEF batcherVars, stopVars
<1>3. /\ pc' \in [Publishers -> {"loop", "pop", "send", "exited"}]
      /\ pc'[p] = to /\ \A q \in Publishers : q # p => pc'[q] = pc[q]
  BY <1>1
<1>4. \A q \in 1..joined' : pc'[q] = "exited"
  BY <1>1, <1>2, <1>3, NumPublishersPos DEF NumPublishersPos, LocalsAgree, Publishers
<1>5. \A q \in Publishers : batch'[q] # NoBatch <=> pc'[q] = "send"
  BY <1>1, <1>3 DEF LocalsAgree
<1>6. d_frame' # NoFrame <=> batcher' = "frame"
  BY <1>1, <1>2 DEF LocalsAgree
<1>7. batch_queue_'.stopped => batcher' = "exited" /\ Partial' = {}
  BY <1>1, <1>2 DEF LocalsAgree, Partial
<1>8. LocalsAgree'
  BY <1>4, <1>5, <1>6, <1>7 DEF LocalsAgree
<1>9. \A b \in Known' : IsBatch(b)
  BY <1>1
<1> QED
  BY <1>2, <1>3, <1>8, <1>9 DEF TypeOK, Queue, Known

\* What a step of the batching thread leaves to show of TypeOK.
LEMMA BatcherMoves ==
  ASSUME TypeOK, batcher # "exited",
         processed_frame_queue_' \in Queue(Frame),
         batch_queue_' \in Queue(Seq(Frame)), batch_queue_'.stopped = batch_queue_.stopped,
         batcher' \in {"loop", "pop", "frame", "flush", "exited"},
         d_frame' \in {NoFrame} \cup Frame, d_frame' # NoFrame <=> batcher' = "frame",
         current_batches' \in [Keys -> Seq(Frame)],
         \A b \in Known' : IsBatch(b),
         UNCHANGED <<batcher_stop, senderVars, stopVars, arrived>>
  PROVE  TypeOK'
<1>1. LocalsAgree
  BY TypeFacts
<1>2. /\ UNCHANGED <<pc, batch, connected, stop_requested, redis, refused, dry_run>>
      /\ UNCHANGED <<requeued, lost_replies>>
      /\ UNCHANGED <<stop_pc, joined, is_enabled_, dry_run_mode>>
  BY DEF senderVars, stopVars
<1>3. LocalsAgree'
  BY <1>1, <1>2 DEF LocalsAgree
<1> QED
  BY <1>2, <1>3 DEF TypeOK, Queue, Known

\* The known batches depend on these variables only.
LEMMA KnownSame ==
  ASSUME UNCHANGED <<batch_queue_, batch, redis, refused, dry_run, requeued, lost_replies>>
  PROVE  Known' = Known
  BY DEF Known, Batches, Queued, Held, Stored

\* What a publisher thread does to the batches it holds.
LEMMA BatchKnown ==
  ASSUME TypeOK, NEW p \in Publishers, pc[p] = "send"
  PROVE  batch[p] \in Seq(Frame) /\ batch[p] # NoBatch /\ batch[p] \in Held /\ batch[p] \in Known
<1>1. batch[p] # NoBatch /\ batch[p] \in {NoBatch} \cup Seq(Frame)
  BY TypeFacts DEF TypeOK, LocalsAgree
<1> QED
  BY <1>1 DEF Known, Batches, Held

\* Releasing a batch takes it from the thread's hands.
LEMMA ReleaseHeld ==
  ASSUME TypeOK, NEW p \in Publishers, Release(p)
  PROVE  /\ Held' \subseteq Held
         /\ batch' \in [Publishers -> {NoBatch} \cup Seq(Frame)] /\ batch'[p] = NoBatch
         /\ \A q \in Publishers : q # p => batch'[q] = batch[q]
<1>1. /\ batch' \in [Publishers -> {NoBatch} \cup Seq(Frame)] /\ batch'[p] = NoBatch
      /\ \A q \in Publishers : q # p => batch'[q] = batch[q]
  BY DEF TypeOK, Release
<1> QED
  BY <1>1 DEF Held

\* A publisher thread keeps TypeOK and never makes a batch of its own.
LEMMA SenderPreserves ==
  ASSUME TypeOK, NEW p \in Publishers, publisher_loop(p)
  PROVE  TypeOK' /\ Known' \subseteq Known
<1>1. /\ batch_queue_ \in Queue(Seq(Frame)) /\ redis \in Seq(Seq(Frame))
      /\ lost_replies \in Seq(Seq(Frame)) /\ connected \in [Publishers -> BOOLEAN]
      /\ batch \in [Publishers -> {NoBatch} \cup Seq(Frame)] /\ LocalsAgree
  BY TypeFacts DEF TypeOK
<1>2. CASE CheckStop(p)
  <2>1. PICK to \in {"exited", "pop"} : pc' = [pc EXCEPT ![p] = to]
    BY <1>2 DEF CheckStop
  <2>2. /\ UNCHANGED <<batch_queue_, batch, connected, redis, refused, dry_run, requeued, lost_replies>>
        /\ UNCHANGED <<processed_frame_queue_, batcherVars, stop_requested, stopVars, arrived>>
        /\ pc[p] = "loop"
    BY <1>2 DEF CheckStop
  <2>3. batch[p] = NoBatch
    BY <1>1, <2>2 DEF LocalsAgree
  <2> QED
    BY <1>1, <2>1, <2>2, <2>3, KnownSame, SenderMoves
<1>3. CASE PopBatch(p)
  <2>1. /\ UNCHANGED <<connected, redis, refused, dry_run, requeued, lost_replies>>
        /\ UNCHANGED <<processed_frame_queue_, batcherVars, stop_requested, stopVars, arrived>>
        /\ pc[p] = "pop" /\ batch[p] = NoBatch
    BY <1>1, <1>3 DEF PopBatch, LocalsAgree
  <2>2. CASE HasItem(batch_queue_)
    <3>1. PICK b : b = Oldest(batch_queue_)
      OBVIOUS
    <3>2. /\ batch' = [batch EXCEPT ![p] = b] /\ batch_queue_' = Pop(batch_queue_)
          /\ pc' = [pc EXCEPT ![p] = "send"]
      BY <1>3, <2>2, <3>1 DEF PopBatch, Drained, HasItem
    <3>3. /\ batch_queue_' \in Queue(Seq(Frame)) /\ batch_queue_'.stopped = batch_queue_.stopped
          /\ b \in Seq(Frame) /\ Queued = Queued' \cup {b}
      BY <1>1, <2>2, <3>1, <3>2, PopFacts DEF Queued
    <3>4. /\ batch' \in [Publishers -> {NoBatch} \cup Seq(Frame)] /\ batch'[p] = b
          /\ \A q \in Publishers : q # p => batch'[q] = batch[q]
      BY <1>1, <3>2, <3>3
    <3>5. b # NoBatch
      BY <3>3, NoBatchFresh DEF NoBatchFresh
    <3>6. Held' \subseteq Held \cup {b}
      BY <3>4 DEF Held
    <3>7. Known' \subseteq Known
      BY <2>1, <3>3, <3>6 DEF Known, Batches, Stored
    <3> QED
      BY <1>1, <2>1, <3>2, <3>3, <3>4, <3>5, <3>7, SenderMoves
  <2>3. CASE ~HasItem(batch_queue_)
    <3>1. UNCHANGED <<batch_queue_, batch>> /\ pc' = [pc EXCEPT ![p] = "exited"]
      BY <1>3, <2>3 DEF PopBatch
    <3> QED
      BY <1>1, <2>1, <3>1, KnownSame, SenderMoves
  <2> QED
    BY <2>2, <2>3
<1>4. CASE Reconnect(p)
  <2>1. /\ UNCHANGED <<batch_queue_, batch, redis, refused, dry_run, requeued, lost_replies>>
        /\ UNCHANGED <<processed_frame_queue_, batcherVars, stop_requested, stopVars, arrived>>
        /\ pc[p] = "send" /\ pc' = [pc EXCEPT ![p] = "send"]
        /\ connected' \in [Publishers -> BOOLEAN]
    BY <1>1, <1>4 DEF Reconnect, TypeOK
  <2>2. batch[p] # NoBatch
    BY <2>1, BatchKnown
  <2> QED
    BY <1>1, <2>1, <2>2, KnownSame, SenderMoves
<1>5. ASSUME pc[p] = "send", Release(p),
             batch_queue_' \in {batch_queue_, Push(batch_queue_, batch[p])},
             redis' \in {redis, Append(redis, batch[p])},
             lost_replies' \in {lost_replies, Append(lost_replies, batch[p])},
             refused' \subseteq refused \cup {batch[p]},
             dry_run' \subseteq dry_run \cup {batch[p]},
             requeued' \subseteq requeued \cup {batch[p]},
             connected' \in [Publishers -> BOOLEAN]
      PROVE  TypeOK' /\ Known' \subseteq Known
  <2>1. batch[p] \in Seq(Frame) /\ batch[p] \in Known
    BY <1>5, BatchKnown
  <2>2. /\ batch_queue_' \in Queue(Seq(Frame)) /\ batch_queue_'.stopped = batch_queue_.stopped
        /\ Queued' \subseteq Queued \cup {batch[p]}
    <3>1. CASE batch_queue_' = batch_queue_
      BY <1>1, <3>1 DEF Queued
    <3>2. CASE batch_queue_' = Push(batch_queue_, batch[p])
      <4>1. PICK b \in Seq(Frame) : b = batch[p]
        BY <2>1
      <4>2. batch_queue_' = Push(batch_queue_, b)
        BY <3>2, <4>1
      <4> QED
        BY <1>1, <4>1, <4>2, PushBatch
    <3> QED
      BY <1>5, <3>1, <3>2
  <2>3. redis' \in Seq(Seq(Frame)) /\ Stored' \subseteq Stored \cup {batch[p]}
    <3>1. CASE redis' = redis
      BY <1>1, <3>1 DEF Stored
    <3>2. CASE redis' = Append(redis, batch[p])
      <4>1. Append(redis, batch[p]) \in Seq(Seq(Frame))
        BY <1>1, <2>1, AppendProperties
      <4>2. ToSet(Append(redis, batch[p])) = ToSet(redis) \cup {batch[p]}
        BY <1>1, <2>1, ToSetAppend
      <4> QED
        BY <3>2, <4>1, <4>2 DEF Stored
    <3> QED
      BY <1>5, <3>1, <3>2
  <2>4. /\ lost_replies' \in Seq(Seq(Frame))
        /\ ToSet(lost_replies') \subseteq ToSet(lost_replies) \cup {batch[p]}
    <3>1. CASE lost_replies' = lost_replies
      BY <1>1, <3>1
    <3>2. CASE lost_replies' = Append(lost_replies, batch[p])
      <4>1. Append(lost_replies, batch[p]) \in Seq(Seq(Frame))
        BY <1>1, <2>1, AppendProperties
      <4>2. ToSet(Append(lost_replies, batch[p])) = ToSet(lost_replies) \cup {batch[p]}
        BY <1>1, <2>1, ToSetAppend
      <4> QED
        BY <3>2, <4>1, <4>2
    <3> QED
      BY <1>5, <3>1, <3>2
  <2>5. /\ Held' \subseteq Held
        /\ batch' \in [Publishers -> {NoBatch} \cup Seq(Frame)] /\ batch'[p] = NoBatch
        /\ \A q \in Publishers : q # p => batch'[q] = batch[q]
    BY <1>5, ReleaseHeld
  <2>6. Known' \subseteq Known
    BY <1>5, <2>1, <2>2, <2>3, <2>4, <2>5 DEF Known, Batches
  <2>7. /\ pc' = [pc EXCEPT ![p] = "loop"]
        /\ UNCHANGED <<processed_frame_queue_, batcherVars, stop_requested, stopVars, arrived>>
    BY <1>5 DEF Release
  <2> QED
    BY <1>5, <2>2, <2>3, <2>4, <2>5, <2>6, <2>7, SenderMoves
<1>6. CASE DryRun(p)
  BY <1>1, <1>5, <1>6 DEF DryRun
<1>7. CASE ReconnectFails(p)
  BY <1>1, <1>5, <1>7 DEF ReconnectFails, Requeue
<1>8. CASE XaddStored(p)
  BY <1>1, <1>5, <1>8 DEF XaddStored, Sending
<1>9. CASE XaddErrorReply(p)
  BY <1>1, <1>5, <1>9 DEF XaddErrorReply, Sending
<1>10. CASE XaddNotSent(p)
  <2>1. connected' \in [Publishers -> BOOLEAN]
    BY <1>1, <1>10 DEF XaddNotSent
  <2> QED
    BY <1>5, <1>10, <2>1 DEF XaddNotSent, Sending, Requeue
<1>11. CASE XaddReplyLost(p)
  <2>1. connected' \in [Publishers -> BOOLEAN]
    BY <1>1, <1>11 DEF XaddReplyLost
  <2> QED
    BY <1>5, <1>11, <2>1 DEF XaddReplyLost, Sending, Requeue
<1> QED
  BY <1>2, <1>3, <1>4, <1>6, <1>7, <1>8, <1>9, <1>10, <1>11 DEF publisher_loop

\* A step that only appends b to batch_queue_ adds b to the known batches.
LEMMA KnownGrows ==
  ASSUME NEW b \in Seq(Frame), batch_queue_ \in Queue(Seq(Frame)),
         batch_queue_' = Push(batch_queue_, b),
         UNCHANGED <<batch, redis, refused, dry_run, requeued, lost_replies>>
  PROVE  Known' \subseteq Known \cup {b}
<1>1. Queued' \subseteq Queued \cup {b}
  BY PushBatch
<1> QED
  BY <1>1 DEF Known, Batches, Held, Stored

\* The first partial batch in the order of the map.
LEMMA FlushPicks ==
  ASSUME Partial # {}
  PROVE  (CHOOSE x \in Partial : \A y \in Partial : x <= y) \in Partial
<1>1. Partial \in SUBSET Nat
  BY KeysNat DEF KeysNat, Partial
<1>2. \E x \in Partial : \A y \in Partial : x <= y
  BY <1>1, NatHasMin
<1> QED
  BY <1>2

\* The batching thread keeps TypeOK.
LEMMA BatcherPreserves ==
  ASSUME TypeOK, batching_loop
  PROVE  TypeOK'
<1>1. /\ processed_frame_queue_ \in Queue(Frame) /\ batch_queue_ \in Queue(Seq(Frame))
      /\ current_batches \in [Keys -> Seq(Frame)] /\ d_frame \in {NoFrame} \cup Frame
      /\ LocalsAgree /\ \A b \in Known : IsBatch(b)
      /\ d_frame # NoFrame <=> batcher = "frame"
  BY TypeFacts DEF TypeOK, LocalsAgree
<1>2. CASE BatcherCheckStop
  <2>1. /\ UNCHANGED <<processed_frame_queue_, batch_queue_, d_frame, current_batches>>
        /\ UNCHANGED <<batcher_stop, senderVars, stopVars, arrived>>
        /\ batcher = "loop" /\ batcher' \in {"flush", "pop"}
    BY <1>2 DEF BatcherCheckStop
  <2>2. Known' = Known
    BY <2>1, KnownSame DEF senderVars
  <2> QED
    BY <1>1, <2>1, <2>2, BatcherMoves
<1>3. CASE BatcherPop
  <2>1. /\ UNCHANGED <<batch_queue_, current_batches, batcher_stop, senderVars, stopVars, arrived>>
        /\ batcher = "pop"
    BY <1>3 DEF BatcherPop
  <2>2. Known' = Known
    BY <2>1, KnownSame DEF senderVars
  <2>3. CASE HasItem(processed_frame_queue_)
    <3>1. /\ d_frame' = Oldest(processed_frame_queue_) /\ batcher' = "frame"
          /\ processed_frame_queue_' = Pop(processed_frame_queue_)
      BY <1>3, <2>3 DEF BatcherPop, Drained, HasItem
    <3>2. processed_frame_queue_' \in Queue(Frame) /\ d_frame' \in Frame
      BY <1>1, <2>3, <3>1, PopFacts
    <3>3. d_frame' # NoFrame
      BY <3>2, NoFrameFresh DEF NoFrameFresh
    <3> QED
      BY <1>1, <2>1, <2>2, <3>1, <3>2, <3>3, BatcherMoves
  <2>4. CASE ~HasItem(processed_frame_queue_)
    <3>1. UNCHANGED <<processed_frame_queue_, d_frame>> /\ batcher' = "flush"
      BY <1>3, <2>4 DEF BatcherPop
    <3> QED
      BY <1>1, <2>1, <2>2, <3>1, BatcherMoves
  <2> QED
    BY <2>3, <2>4
<1>4. CASE BatchFrame
  <2>1. PICK k, b : k = d_frame.key /\ b = Append(current_batches[k], d_frame)
    OBVIOUS
  <2>2. /\ batcher = "frame" /\ batcher' = "loop" /\ d_frame' = NoFrame
        /\ UNCHANGED <<processed_frame_queue_, batcher_stop, senderVars, stopVars, arrived>>
        /\ \/ /\ batch_queue_' = Push(batch_queue_, b)
              /\ current_batches' = [current_batches EXCEPT ![k] = <<>>]
           \/ /\ batch_queue_' = batch_queue_
              /\ current_batches' = [current_batches EXCEPT ![k] = b]
    BY <1>4, <2>1 DEF BatchFrame
  <2>3. d_frame \in Frame /\ k \in Keys
    BY <1>1, <2>1, <2>2 DEF Frame
  <2>4. b \in Seq(Frame) /\ b # <<>> /\ <<>> \in Seq(Frame)
    BY <1>1, <2>1, <2>3, AppendProperties, EmptySeq
  <2>5. current_batches' \in [Keys -> Seq(Frame)]
    BY <1>1, <2>2, <2>3, <2>4
  <2>6. UNCHANGED <<batch, redis, refused, dry_run, requeued, lost_replies>>
    BY <2>2 DEF senderVars
  <2>7. /\ batch_queue_' \in Queue(Seq(Frame)) /\ batch_queue_'.stopped = batch_queue_.stopped
        /\ Known' \subseteq Known \cup {b}
    <3>1. CASE batch_queue_' = Push(batch_queue_, b)
      BY <1>1, <2>4, <2>6, <3>1, PushBatch, KnownGrows
    <3>2. CASE batch_queue_' = batch_queue_
      BY <1>1, <2>6, <3>2, KnownSame
    <3> QED
      BY <2>2, <3>1, <3>2
  <2>8. \A c \in Known' : IsBatch(c)
    BY <1>1, <2>4, <2>7 DEF IsBatch
  <2> QED
    BY <1>1, <2>2, <2>5, <2>7, <2>8, BatcherMoves
<1>5. CASE FlushPartial
  <2>1. /\ batcher = "flush"
        /\ UNCHANGED <<processed_frame_queue_, d_frame, batcher_stop, senderVars, stopVars, arrived>>
    BY <1>5 DEF FlushPartial
  <2>2. UNCHANGED <<batch, redis, refused, dry_run, requeued, lost_replies>>
    BY <2>1 DEF senderVars
  <2>3. CASE Partial # {}
    <3>1. PICK k : k = CHOOSE x \in Partial : \A y \in Partial : x <= y
      OBVIOUS
    <3>2. PICK b : b = current_batches[k]
      OBVIOUS
    <3>3. /\ batch_queue_' = Push(batch_queue_, b) /\ batcher' = batcher
          /\ current_batches' = [current_batches EXCEPT ![k] = <<>>]
      BY <1>5, <2>3, <3>1, <3>2 DEF FlushPartial
    <3>4. k \in Keys /\ b # <<>>
      BY <2>3, <3>1, <3>2, FlushPicks DEF Partial
    <3>5. b \in Seq(Frame) /\ <<>> \in Seq(Frame)
      BY <1>1, <3>2, <3>4, EmptySeq
    <3>6. current_batches' \in [Keys -> Seq(Frame)]
      BY <1>1, <3>3, <3>4, <3>5
    <3>7. /\ batch_queue_' \in Queue(Seq(Frame)) /\ batch_queue_'.stopped = batch_queue_.stopped
          /\ Known' \subseteq Known \cup {b}
      BY <1>1, <2>2, <3>3, <3>5, PushBatch, KnownGrows
    <3>8. \A c \in Known' : IsBatch(c)
      BY <1>1, <3>4, <3>5, <3>7 DEF IsBatch
    <3> QED
      BY <1>1, <2>1, <3>3, <3>6, <3>7, <3>8, BatcherMoves
  <2>4. CASE Partial = {}
    <3>1. UNCHANGED <<batch_queue_, current_batches>> /\ batcher' = "exited"
      BY <1>5, <2>4 DEF FlushPartial
    <3>2. Known' = Known
      BY <2>2, <3>1, KnownSame
    <3> QED
      BY <1>1, <2>1, <3>1, <3>2, BatcherMoves
  <2> QED
    BY <2>3, <2>4
<1> QED
  BY <1>2, <1>3, <1>4, <1>5 DEF batching_loop

-----------------------------------------------------------------------------
(* The order of the shutdown *)

\* The input queue is stopped before the batching thread is asked to stop or
\* flushes, and batch_queue_ is reached only when it has flushed everything.
StopOrder ==
  /\ batcher = "exited" => Partial = {}
  /\ stop_pc = "batch_queue" => batcher = "exited"
  /\ stop_pc = "batcher" => processed_frame_queue_.stopped
  /\ batcher_stop => processed_frame_queue_.stopped
  /\ batcher = "flush" => processed_frame_queue_.stopped

\* The inductive invariant of the types.
Typed == TypeOK /\ StopOrder

\* The shutdown has not begun.
LEMMA TypedInitially == Init => Typed
<1> SUFFICES ASSUME Init PROVE Typed
  OBVIOUS
<1>1. TypeOK
  BY TypeInitially
<1>2. Partial = {}
  BY DEF Init, Partial
<1>3. batcher # "flush" /\ batcher_stop = FALSE /\ stop_pc = "no"
  BY DEF Init
<1> QED
  BY <1>1, <1>2, <1>3 DEF Typed, StopOrder

\* The batching thread flushes only after the stop, and ends with nothing left.
LEMMA BatcherKeepsOrder ==
  ASSUME Typed, batching_loop
  PROVE  StopOrder'
<1>1. processed_frame_queue_ \in Queue(Frame) /\ StopOrder /\ batcher_stop \in BOOLEAN
  BY TypeFacts DEF Typed, TypeOK
<1>2. UNCHANGED <<batcher_stop, stop_pc>> /\ batcher # "exited"
  BY DEF batching_loop, BatcherCheckStop, BatcherPop, BatchFrame, FlushPartial, stopVars
<1>3. processed_frame_queue_'.stopped = processed_frame_queue_.stopped
  <2>1. CASE processed_frame_queue_' = processed_frame_queue_
    BY <2>1
  <2>2. CASE HasItem(processed_frame_queue_) /\ processed_frame_queue_' = Pop(processed_frame_queue_)
    BY <1>1, <2>2, PopFacts
  <2> QED
    BY <2>1, <2>2 DEF batching_loop, BatcherCheckStop, BatcherPop, BatchFrame, FlushPartial
<1>4. batcher' = "exited" => Partial' = {}
  <2>1. SUFFICES ASSUME batcher' = "exited" PROVE Partial' = {}
    OBVIOUS
  <2>2. FlushPartial
    BY <2>1 DEF batching_loop, BatcherCheckStop, BatcherPop, BatchFrame
  <2>3. Partial = {} /\ current_batches' = current_batches
    BY <1>2, <2>1, <2>2 DEF FlushPartial
  <2> QED
    BY <2>3 DEF Partial
<1>5. batcher' = "flush" => processed_frame_queue_.stopped
  <2>1. CASE BatcherCheckStop
    BY <1>1, <2>1 DEF BatcherCheckStop, StopOrder
  <2>2. CASE BatcherPop
    BY <1>1, <2>2 DEF BatcherPop, Drained
  <2>3. CASE BatchFrame
    BY <2>3 DEF BatchFrame
  <2>4. CASE FlushPartial
    BY <1>1, <2>4 DEF FlushPartial, StopOrder
  <2> QED
    BY <2>1, <2>2, <2>3, <2>4 DEF batching_loop
<1> QED
  BY <1>1, <1>2, <1>3, <1>4, <1>5 DEF StopOrder

\* Each step of stop() keeps the types and the order of the shutdown.
LEMMA StopPreserves ==
  ASSUME Typed, StopProcessedQueue \/ stop
  PROVE  Typed' /\ Known' = Known
<1>1. TypeOK /\ StopOrder /\ LocalsAgree /\ processed_frame_queue_ \in Queue(Frame)
      /\ batch_queue_ \in Queue(Seq(Frame)) /\ \A b \in Known : IsBatch(b)
  BY TypeFacts DEF Typed
<1>2. CASE StopProcessedQueue
  <2>1. /\ UNCHANGED <<batch_queue_, joined, is_enabled_, dry_run_mode, arrived>>
        /\ UNCHANGED <<batcher, d_frame, current_batches, batcher_stop>>
        /\ UNCHANGED <<pc, batch, connected, stop_requested, redis>>
        /\ UNCHANGED <<refused, dry_run, requeued, lost_replies>>
    BY <1>2 DEF StopProcessedQueue, batcherVars, senderVars
  <2>2. /\ processed_frame_queue_' \in Queue(Frame)
        /\ processed_frame_queue_.stopped => processed_frame_queue_'.stopped
        /\ stop_pc' \in {"returned", "batcher"}
        /\ stop_pc' = "batcher" => processed_frame_queue_'.stopped
    <3>1. CASE processed_frame_queue_' = processed_frame_queue_ /\ stop_pc' = "returned"
      BY <1>1, <3>1
    <3>2. CASE processed_frame_queue_' = StopQueue(processed_frame_queue_) /\ stop_pc' = "batcher"
      BY <1>1, <3>2, StopFacts
    <3> QED
      BY <1>2, <3>1, <3>2 DEF StopProcessedQueue
  <2>3. Known' = Known /\ Partial' = Partial
    BY <2>1, KnownSame DEF Partial
  <2>4. LocalsAgree'
    BY <1>1, <2>1, <2>3 DEF LocalsAgree
  <2>5. StopOrder'
    BY <1>1, <2>1, <2>2, <2>3 DEF StopOrder
  <2>6. TypeOK'
    BY <1>1, <2>1, <2>2, <2>3, <2>4 DEF TypeOK, Queue, Known
  <2> QED
    BY <2>3, <2>5, <2>6 DEF Typed
<1>3. CASE RequestStopBatcher \/ JoinBatcher
  <2>1. /\ UNCHANGED <<processed_frame_queue_, batch_queue_, joined, is_enabled_, dry_run_mode, arrived>>
        /\ UNCHANGED <<batcher, d_frame, current_batches>>
        /\ UNCHANGED <<pc, batch, connected, stop_requested, redis>>
        /\ UNCHANGED <<refused, dry_run, requeued, lost_replies>>
        /\ stop_pc = "batcher" /\ stop_pc' \in {"batcher", "batch_queue"}
        /\ batcher_stop' \in {TRUE, batcher_stop}
        /\ stop_pc' = "batch_queue" => batcher = "exited"
    BY <1>3 DEF RequestStopBatcher, JoinBatcher, batcherVars, senderVars, stopVars
  <2>2. Known' = Known /\ Partial' = Partial
    BY <2>1, KnownSame DEF Partial
  <2>3. LocalsAgree'
    BY <1>1, <2>1, <2>2 DEF LocalsAgree
  <2>4. StopOrder'
    BY <1>1, <2>1, <2>2 DEF StopOrder
  <2>5. batcher_stop' \in BOOLEAN
    BY <1>1, <2>1 DEF TypeOK
  <2>6. TypeOK'
    BY <1>1, <2>1, <2>2, <2>3, <2>5 DEF TypeOK, Queue, Known
  <2> QED
    BY <2>2, <2>4, <2>6 DEF Typed
<1>4. CASE StopBatchQueue
  <2>1. /\ UNCHANGED <<processed_frame_queue_, joined, is_enabled_, dry_run_mode, arrived>>
        /\ UNCHANGED <<batcher, d_frame, current_batches, batcher_stop>>
        /\ UNCHANGED <<pc, batch, connected, stop_requested, redis>>
        /\ UNCHANGED <<refused, dry_run, requeued, lost_replies>>
        /\ stop_pc = "batch_queue" /\ stop_pc' = "clear"
        /\ batch_queue_' = StopQueue(batch_queue_)
    BY <1>4 DEF StopBatchQueue, batcherVars, senderVars
  <2>2. /\ batch_queue_' \in Queue(Seq(Frame)) /\ batch_queue_'.items = batch_queue_.items
    BY <1>1, <2>1, StopFacts
  <2>3. Known' = Known /\ Partial' = Partial
    BY <2>1, <2>2 DEF Partial, Known, Batches, Queued, Held, Stored
  <2>4. batcher = "exited" /\ Partial = {}
    BY <1>1, <2>1 DEF StopOrder
  <2>5. LocalsAgree'
    BY <1>1, <2>1, <2>3, <2>4 DEF LocalsAgree
  <2>6. StopOrder'
    BY <1>1, <2>1, <2>3 DEF StopOrder
  <2>7. TypeOK'
    BY <1>1, <2>1, <2>2, <2>3, <2>5 DEF TypeOK, Queue, Known
  <2> QED
    BY <2>3, <2>6, <2>7 DEF Typed
<1>5. CASE RequestStop \/ Join
  <2>1. /\ UNCHANGED <<processed_frame_queue_, batch_queue_, is_enabled_, dry_run_mode, arrived>>
        /\ UNCHANGED <<batcher, d_frame, current_batches, batcher_stop>>
        /\ UNCHANGED <<pc, batch, connected, redis>>
        /\ UNCHANGED <<refused, dry_run, requeued, lost_replies>>
        /\ stop_pc' \in {"clear", "returned"}
    BY <1>5 DEF RequestStop, Join, batcherVars, senderVars, stopVars
  <2>2. Known' = Known /\ Partial' = Partial
    BY <2>1, KnownSame DEF Partial
  <2>3. stop_requested' \in [Publishers -> BOOLEAN]
    BY <1>1, <1>5 DEF RequestStop, Join, senderVars, TypeOK
  <2>4. joined' \in 0..NumPublishers /\ \A q \in 1..joined' : pc[q] = "exited"
    BY <1>1, <1>5, NumPublishersPos
    DEF NumPublishersPos, RequestStop, Join, stopVars, TypeOK, LocalsAgree
  <2>5. LocalsAgree'
    BY <1>1, <2>1, <2>2, <2>4 DEF LocalsAgree
  <2>6. StopOrder'
    BY <1>1, <2>1, <2>2 DEF StopOrder
  <2>7. TypeOK'
    BY <1>1, <2>1, <2>2, <2>3, <2>4, <2>5 DEF TypeOK, Queue, Known
  <2> QED
    BY <2>2, <2>6, <2>7 DEF Typed
<1> QED
  BY <1>2, <1>3, <1>4, <1>5 DEF stop

\* A frame pushed by a worker has the type of a frame.
LEMMA ArrivePreserves ==
  ASSUME Typed, NEW e \in EventConfigs, Arrive(e[1], e[2])
  PROVE  Typed' /\ Known' = Known
<1>1. TypeOK /\ StopOrder /\ LocalsAgree /\ processed_frame_queue_ \in Queue(Frame)
      /\ \A b \in Known : IsBatch(b)
  BY TypeFacts DEF Typed
<1>2. /\ UNCHANGED <<batch_queue_, stop_pc, joined, is_enabled_, dry_run_mode>>
      /\ UNCHANGED <<batcher, d_frame, current_batches, batcher_stop>>
      /\ UNCHANGED <<pc, batch, connected, stop_requested, redis>>
      /\ UNCHANGED <<refused, dry_run, requeued, lost_replies>>
      /\ ~processed_frame_queue_.stopped
  BY DEF Arrive, publisherVars, batcherVars, senderVars, stopVars
<1>3. PICK f : f = [id |-> arrived + 1, key |-> e[1], batch_size |-> e[2]]
  OBVIOUS
<1>4. arrived' \in 0..MaxFrames /\ arrived + 1 \in 1..MaxFrames
  BY <1>1, BoundsNat DEF BoundsNat, Arrive, TypeOK
<1>5. e[1] \in Keys /\ e[2] \in {d[2] : d \in EventConfigs}
  BY EventConfigsTyped DEF EventConfigsTyped
<1>6. f \in Frame
  BY <1>3, <1>4, <1>5 DEF Frame
<1>7. processed_frame_queue_' = Push(processed_frame_queue_, f)
  BY <1>3 DEF Arrive
<1>8. /\ processed_frame_queue_' \in Queue(Frame)
      /\ processed_frame_queue_'.stopped = processed_frame_queue_.stopped
  BY <1>1, <1>2, <1>6, <1>7, PushFrame
<1>9. Known' = Known /\ Partial' = Partial
  BY <1>2, KnownSame DEF Partial
<1>10. LocalsAgree'
  BY <1>1, <1>2, <1>9 DEF LocalsAgree
<1>11. StopOrder'
  BY <1>1, <1>2, <1>8, <1>9 DEF StopOrder
<1>12. TypeOK'
  BY <1>1, <1>2, <1>4, <1>8, <1>9, <1>10 DEF TypeOK, Queue, Known
<1> QED
  BY <1>9, <1>11, <1>12 DEF Typed

\* TypeOK needs StopOrder to be inductive: LocalsAgree speaks of the closed queue.
LEMMA TypedPreserved == Typed /\ [Next]_vars => Typed'
<1> SUFFICES ASSUME Typed, [Next]_vars PROVE Typed'
  OBVIOUS
<1>1. CASE \E e \in EventConfigs : Arrive(e[1], e[2])
  BY <1>1, ArrivePreserves
<1>2. CASE batching_loop
  BY <1>2, BatcherPreserves, BatcherKeepsOrder DEF Typed
<1>3. ASSUME NEW p \in Publishers, publisher_loop(p) PROVE Typed'
  <2>1. TypeOK'
    BY <1>3, SenderPreserves DEF Typed
  <2>2. UNCHANGED <<processed_frame_queue_, batcherVars, stopVars>>
    BY <1>3 DEF publisher_loop, CheckStop, PopBatch, DryRun, Reconnect, ReconnectFails,
      XaddStored, XaddErrorReply, XaddNotSent, XaddReplyLost, Release
  <2>3. StopOrder'
    BY <2>2 DEF Typed, StopOrder, Partial, batcherVars, stopVars
  <2> QED
    BY <2>1, <2>3 DEF Typed
<1>4. CASE StopProcessedQueue \/ stop
  BY <1>4, StopPreserves
<1>5. CASE UNCHANGED vars
  <2>1. UNCHANGED <<processed_frame_queue_, batch_queue_, batcher, d_frame, current_batches>>
        /\ UNCHANGED <<batcher_stop, pc, batch, connected, stop_requested, redis, refused>>
        /\ UNCHANGED <<dry_run, requeued, lost_replies, stop_pc, joined, is_enabled_>>
        /\ UNCHANGED <<dry_run_mode, arrived>>
    BY <1>5 DEF vars, publisherVars, batcherVars, senderVars, stopVars
  <2>2. Known' = Known /\ Partial' = Partial
    BY <2>1, KnownSame DEF Partial
  <2>3. LocalsAgree'
    BY <2>1, <2>2 DEF Typed, TypeOK, LocalsAgree
  <2>4. StopOrder'
    BY <2>1, <2>2 DEF Typed, StopOrder
  <2>5. TypeOK'
    BY <2>1, <2>2, <2>3 DEF Typed, TypeOK, Known
  <2> QED
    BY <2>4, <2>5 DEF Typed
<1> QED
  BY <1>1, <1>2, <1>3, <1>4, <1>5 DEF Next, Terminated

(***************************************************************************)
(* Every queue, batch and Redis entry holds frames and no batch is empty;  *)
(* the threads hold a frame or a batch just while they handle one; and     *)
(* batch_queue_ is closed only after the batching thread has flushed its   *)
(* partial batches and ended, for any number of publisher threads, streams *)
(* and events.                                                             *)
(***************************************************************************)
THEOREM TypeCorrect == Spec => []TypeOK
<1>1. Typed => TypeOK
  BY DEF Typed
<1> QED
  BY <1>1, TypedInitially, TypedPreserved, PTL DEF Spec

-----------------------------------------------------------------------------
(* The batches *)

\* What is still ahead of the batching thread's next pop, and behind it.
Waiting == {f.id : f \in ToSet(processed_frame_queue_.items)} \cup {arrived + 1}
Older(f) == (\A w \in Waiting : f.id < w) /\ (d_frame # NoFrame => f.id < d_frame.id)

\* The parts of BatchesWellFormed about one batch and about two.
OneStream(b) == \A i, j \in DOMAIN b : b[i].key = b[j].key /\ (i < j => b[i].id < b[j].id)
ClosedByLast(b) == \A i \in 1..(Len(b) - 1) : i < b[i].batch_size
AllBefore(b, c) == \A i \in DOMAIN b, j \in DOMAIN c : b[i].id < c[j].id

\* The queue is in the order of arrival, and the frame the batching thread
\* holds came before it.
QueueInOrder ==
  /\ \A i, j \in DOMAIN processed_frame_queue_.items :
       i < j => processed_frame_queue_.items[i].id < processed_frame_queue_.items[j].id
  /\ \A i \in DOMAIN processed_frame_queue_.items : processed_frame_queue_.items[i].id <= arrived
  /\ d_frame # NoFrame => \A w \in Waiting : d_frame.id < w

\* Every frame of a batch was taken from the queue before.
KnownOlder == \A b \in Known : \A i \in DOMAIN b : Older(b[i])
CurrentOlder == \A k \in Keys : \A i \in DOMAIN current_batches[k] : Older(current_batches[k][i])

\* A batch being filled holds frames of its key and is not full.
CurrentFormed ==
  \A k \in Keys :
    /\ OneStream(current_batches[k])
    /\ \A i \in DOMAIN current_batches[k] :
         current_batches[k][i].key = k /\ i < current_batches[k][i].batch_size

\* A closed batch is well formed, and short only after the stop.
KnownFormed ==
  \A b \in Known :
    /\ OneStream(b) /\ ClosedByLast(b)
    /\ Len(b) < Last(b).batch_size => processed_frame_queue_.stopped

\* A batch holds older frames than a later one of its key.
KnownBeforeCurrent ==
  \A b \in Known : \A k \in Keys : b[1].key = k => AllBefore(b, current_batches[k])
KnownApart ==
  \A b, c \in Known : b # c /\ b[1].key = c[1].key => AllBefore(b, c) \/ AllBefore(c, b)

\* The inductive invariant of the batches.
Formed ==
  /\ QueueInOrder /\ KnownOlder /\ CurrentOlder
  /\ CurrentFormed /\ KnownFormed /\ KnownBeforeCurrent /\ KnownApart

\* The batches some publisher thread has taken from batch_queue_.
Tried == Held \cup Stored \cup requeued

\* Untried batches are younger than the tried ones of their key, and in order.
UntriedAfterTried ==
  \A b \in Queued \ requeued, c \in Tried : b[1].key = c[1].key => AllBefore(c, b)
UntriedInOrder ==
  \A i, j \in DOMAIN batch_queue_.items :
    LET b == batch_queue_.items[i] c == batch_queue_.items[j] IN
    i < j /\ b \notin requeued /\ c \notin requeued /\ b[1].key = c[1].key => AllBefore(b, c)
Untried == UntriedAfterTried /\ UntriedInOrder

\* The elements of a sequence are of its type.
LEMMA ElementOf ==
  ASSUME NEW T, NEW s \in Seq(T), NEW i \in DOMAIN s
  PROVE  s[i] \in T
  BY ElementOfSeq, LenProperties

\* The fields of a frame of a batch.
LEMMA FrameOf ==
  ASSUME NEW b \in Seq(Frame), NEW i \in DOMAIN b
  PROVE  b[i] \in Frame /\ b[i].id \in Int /\ b[i].key \in Keys /\ b[i].batch_size \in Int
<1>1. b[i] \in Frame
  BY ElementOf
<1>2. b[i].id \in Int /\ b[i].key \in Keys
  BY <1>1, BoundsNat DEF Frame, BoundsNat
<1>3. b[i].batch_size \in Int
  BY <1>1, EventConfigsTyped DEF Frame, EventConfigsTyped
<1> QED
  BY <1>1, <1>2, <1>3

\* The fields of a frame.
LEMMA FrameFields ==
  ASSUME NEW f \in Frame
  PROVE  f.id \in Int /\ f.key \in Keys /\ f.batch_size \in Int
<1>1. f.id \in Int /\ f.key \in Keys
  BY BoundsNat DEF Frame, BoundsNat
<1>2. f.batch_size \in Int
  BY EventConfigsTyped DEF Frame, EventConfigsTyped
<1> QED
  BY <1>1, <1>2

\* No batch yet.
LEMMA FormedInitially == Init => Formed
<1> SUFFICES ASSUME Init PROVE Formed
  OBVIOUS
<1>1. DOMAIN <<>> = {} /\ ToSet(<<>>) = {}
  BY EmptySeq DEF ToSet
<1>2. processed_frame_queue_.items = <<>> /\ batch_queue_.items = <<>>
  BY DEF Init, EmptyQueue
<1>3. Known = {} /\ \A k \in Keys : DOMAIN current_batches[k] = {}
  BY <1>1, <1>2 DEF Init, Known, Batches, Queued, Held, Stored
<1>4. d_frame = NoFrame
  BY DEF Init
<1>5. QueueInOrder
  BY <1>1, <1>2, <1>4 DEF QueueInOrder
<1>6. KnownOlder /\ KnownFormed /\ KnownBeforeCurrent /\ KnownApart
  BY <1>3 DEF KnownOlder, KnownFormed, KnownBeforeCurrent, KnownApart
<1>7. CurrentOlder /\ CurrentFormed
  BY <1>3 DEF CurrentOlder, CurrentFormed, OneStream
<1> QED
  BY <1>5, <1>6, <1>7 DEF Formed

\* Formed is BatchesWellFormed for every batch still known, and more.
LEMMA FormedMeans ==
  ASSUME TypeOK, Formed
  PROVE  BatchesWellFormed
<1>1. Batches \subseteq Known /\ \A b \in Known : b \in Seq(Frame) /\ b # <<>>
  BY TypeFacts DEF Known, IsBatch
<1>2. \A b \in Known : 1 \in DOMAIN b /\ Len(b) \in DOMAIN b /\ Last(b) = b[Len(b)]
  <2>1. SUFFICES ASSUME NEW b \in Known
                 PROVE 1 \in DOMAIN b /\ Len(b) \in DOMAIN b /\ Last(b) = b[Len(b)]
    OBVIOUS
  <2>2. Len(b) \in Nat /\ Len(b) # 0 /\ DOMAIN b = 1..Len(b)
    BY <1>1, EmptySeq, LenProperties
  <2> QED
    BY <2>2 DEF Last
<1>3. \A b \in Batches :
        /\ \A i, j \in DOMAIN b : b[i].key = b[j].key /\ (i < j => b[i].id < b[j].id)
        /\ \A i \in 1..(Len(b) - 1) : i < b[i].batch_size
        /\ Len(b) < Last(b).batch_size => processed_frame_queue_.stopped
  BY <1>1 DEF Formed, KnownFormed, OneStream, ClosedByLast
<1>4. \A b, c \in Batches :
        b # c /\ b[1].key = c[1].key => Last(b).id < c[1].id \/ Last(c).id < b[1].id
  BY <1>1, <1>2 DEF Formed, KnownApart, AllBefore
<1> QED
  BY <1>3, <1>4 DEF BatchesWellFormed

\* Steps that only move or forget batches.
LEMMA FormedKept ==
  ASSUME Formed, Known' \subseteq Known,
         processed_frame_queue_'.items = processed_frame_queue_.items,
         processed_frame_queue_.stopped => processed_frame_queue_'.stopped,
         UNCHANGED <<d_frame, current_batches, arrived>>
  PROVE  Formed'
<1>1. Waiting' = Waiting
  BY DEF Waiting
<1>2. QueueInOrder'
  BY <1>1 DEF Formed, QueueInOrder
<1>3. KnownOlder' /\ CurrentOlder'
  BY <1>1 DEF Formed, KnownOlder, CurrentOlder, Older
<1>4. CurrentFormed' /\ KnownFormed'
  BY DEF Formed, CurrentFormed, KnownFormed
<1>5. KnownBeforeCurrent' /\ KnownApart'
  BY DEF Formed, KnownBeforeCurrent, KnownApart
<1> QED
  BY <1>2, <1>3, <1>4, <1>5 DEF Formed

\* Frames that arrive, or that are popped, are younger than all taken so far.
LEMMA StillOlder ==
  ASSUME TypeOK, Formed, Known' = Known, UNCHANGED current_batches,
         QueueInOrder',
         processed_frame_queue_.stopped => processed_frame_queue_'.stopped,
         \A f \in Frame : Older(f) => Older(f)'
  PROVE  Formed'
<1>1. /\ \A b \in Known : b \in Seq(Frame)
      /\ \A k \in Keys : current_batches[k] \in Seq(Frame)
  BY TypeFacts DEF TypeOK, IsBatch
<1>2. KnownOlder'
  <2>1. SUFFICES ASSUME NEW b \in Known, NEW i \in DOMAIN b PROVE Older(b[i])'
    BY DEF KnownOlder
  <2>2. b[i] \in Frame /\ Older(b[i])
    BY <1>1, FrameOf DEF Formed, KnownOlder
  <2> QED
    BY <2>2
<1>3. CurrentOlder'
  <2>1. SUFFICES ASSUME NEW k \in Keys, NEW i \in DOMAIN current_batches[k]
                 PROVE Older(current_batches[k][i])'
    BY DEF CurrentOlder
  <2>2. PICK f : f = current_batches[k][i]
    OBVIOUS
  <2>3. f \in Frame /\ Older(f)
    BY <1>1, <2>2, FrameOf DEF Formed, CurrentOlder
  <2>4. Older(f)'
    BY <2>3
  <2> QED
    BY <2>2, <2>4 DEF Older
<1>4. CurrentFormed' /\ KnownFormed'
  BY DEF Formed, CurrentFormed, KnownFormed
<1>5. KnownBeforeCurrent' /\ KnownApart'
  BY DEF Formed, KnownBeforeCurrent, KnownApart
<1> QED
  BY <1>2, <1>3, <1>4, <1>5 DEF Formed

\* A frame that arrives gets the next id.
LEMMA ArriveFormed ==
  ASSUME Typed, Formed, NEW e \in EventConfigs, Arrive(e[1], e[2])
  PROVE  Formed'
<1>1. TypeOK /\ Known' = Known /\ TypeOK'
  BY ArrivePreserves DEF Typed
<1>2. PICK f : f = [id |-> arrived + 1, key |-> e[1], batch_size |-> e[2]]
  OBVIOUS
<1>3. UNCHANGED <<d_frame, current_batches>>
  BY DEF Arrive, publisherVars, batcherVars
<1>4. f \in Frame /\ f.id = arrived + 1 /\ arrived \in Int /\ arrived' = arrived + 1
  BY <1>1, <1>2, BoundsNat, EventConfigsTyped
  DEF BoundsNat, EventConfigsTyped, Arrive, TypeOK, Frame
<1>5. PICK s : s = processed_frame_queue_.items
  OBVIOUS
<1>6. /\ processed_frame_queue_'.stopped = processed_frame_queue_.stopped
      /\ processed_frame_queue_'.items = Append(s, f) /\ s \in Seq(Frame)
  BY <1>1, <1>2, <1>4, <1>5, TypeFacts, PushFrame DEF Arrive, Queue
<1>7. PICK n : n = Len(s) + 1
  OBVIOUS
<1>8. PICK t : t = Append(s, f)
  OBVIOUS
<1>9. /\ DOMAIN t = DOMAIN s \cup {n} /\ t[n] = f
      /\ \A i \in DOMAIN s : t[i] = s[i] /\ i < n /\ i \in Int
      /\ n \in Int
  BY <1>6, <1>7, <1>8, AppendProperties, LenProperties
<1>10. ToSet(t) = ToSet(s) \cup {f}
  BY <1>4, <1>6, <1>8, ToSetAppend
<1>11. Waiting' = Waiting \cup {arrived + 2}
  BY <1>4, <1>5, <1>6, <1>8, <1>10 DEF Waiting
<1>12. \A i \in DOMAIN s : s[i].id \in Int /\ s[i].id <= arrived
  BY <1>5, <1>6, FrameOf DEF Formed, QueueInOrder
<1>13. \A g \in Frame : Older(g) => Older(g)'
  <2>1. SUFFICES ASSUME NEW g \in Frame, Older(g) PROVE Older(g)'
    OBVIOUS
  <2>2. g.id \in Int /\ g.id < arrived + 1
    BY <2>1, FrameFields DEF Older, Waiting
  <2>3. g.id < arrived + 2
    BY <1>4, <2>2
  <2> QED
    BY <1>3, <1>11, <2>1, <2>3 DEF Older
<1>14. QueueInOrder'
  <2>1. \A i, j \in DOMAIN t : i < j => t[i].id < t[j].id
    <3>1. \A i, j \in DOMAIN s : i < j => s[i].id < s[j].id
      BY <1>5 DEF Formed, QueueInOrder
    <3> QED
      BY <1>4, <1>9, <1>12, <3>1
  <2>2. \A i \in DOMAIN t : t[i].id <= arrived'
    BY <1>4, <1>9, <1>12
  <2>3. d_frame' # NoFrame => \A w \in Waiting' : d_frame'.id < w
    <3>1. SUFFICES ASSUME d_frame # NoFrame PROVE \A w \in Waiting' : d_frame.id < w
      BY <1>3
    <3>2. d_frame \in Frame /\ \A w \in Waiting : d_frame.id < w
      BY <1>1, <3>1 DEF TypeOK, Formed, QueueInOrder
    <3>3. d_frame.id \in Int /\ d_frame.id < arrived + 1
      BY <3>2, FrameFields DEF Waiting
    <3>4. d_frame.id < arrived + 2
      BY <1>4, <3>3
    <3> QED
      BY <1>11, <3>2, <3>4
  <2> QED
    BY <1>6, <1>8, <2>1, <2>2, <2>3 DEF QueueInOrder
<1> QED
  BY <1>1, <1>3, <1>6, <1>13, <1>14, StillOlder

\* The frame popped is younger than all taken and older than the rest.
LEMMA PopFormed ==
  ASSUME Typed, Formed, BatcherPop, HasItem(processed_frame_queue_)
  PROVE  Formed'
<1>1. TypeOK /\ processed_frame_queue_ \in Queue(Frame)
  BY TypeFacts DEF Typed
<1>2. /\ UNCHANGED <<batch_queue_, current_batches, senderVars, arrived>>
      /\ d_frame' = Oldest(processed_frame_queue_)
      /\ processed_frame_queue_' = Pop(processed_frame_queue_) /\ d_frame = NoFrame
  BY <1>1, TypeFacts DEF BatcherPop, Drained, HasItem, LocalsAgree
<1>3. Known' = Known
  BY <1>2, KnownSame DEF senderVars
<1>4. PICK s : s = processed_frame_queue_.items
  OBVIOUS
<1>5. PICK t : t = Tail(s)
  OBVIOUS
<1>6. PICK f : f = Head(s)
  OBVIOUS
<1>7. /\ processed_frame_queue_'.stopped = processed_frame_queue_.stopped
      /\ processed_frame_queue_'.items = t /\ d_frame' = f
      /\ s \in Seq(Frame) /\ s # <<>>
  BY <1>1, <1>2, <1>4, <1>5, <1>6, PopFacts DEF Queue, Oldest, HasItem
<1>8. /\ t \in Seq(Frame) /\ Len(t) = Len(s) - 1 /\ f \in Frame
      /\ \A i \in 1..Len(t) : t[i] = s[i + 1]
  BY <1>5, <1>6, <1>7, HeadTailProperties
<1>9. Len(s) \in Nat \ {0} /\ f = s[1] /\ DOMAIN s = 1..Len(s) /\ DOMAIN t = 1..Len(t)
  BY <1>6, <1>7, <1>8, EmptySeq, LenProperties
<1>10. \A i \in DOMAIN t : t[i] = s[i + 1] /\ i + 1 \in DOMAIN s /\ i \in Int /\ 1 < i + 1
  BY <1>8, <1>9
<1>11. ToSet(s) = ToSet(t) \cup {f}
  BY <1>5, <1>6, <1>7, ToSetTail
<1>12. Waiting' \subseteq Waiting /\ f.id \in Waiting
  BY <1>2, <1>4, <1>7, <1>11 DEF Waiting
<1>13. \A i, j \in DOMAIN s : i < j => s[i].id < s[j].id
  BY <1>4 DEF Formed, QueueInOrder
<1>14. \A i \in DOMAIN s : s[i].id <= arrived /\ s[i].id \in Int
  BY <1>4, <1>7, FrameOf DEF Formed, QueueInOrder
<1>15. arrived \in Int /\ 1 \in DOMAIN s
  BY <1>1, <1>9, BoundsNat DEF TypeOK, BoundsNat
<1>16. QueueInOrder'
  <2>1. \A i, j \in DOMAIN t : i < j => t[i].id < t[j].id
    BY <1>10, <1>13
  <2>2. \A i \in DOMAIN t : t[i].id <= arrived /\ f.id < t[i].id
    BY <1>9, <1>10, <1>13, <1>14, <1>15
  <2>3. f.id < arrived + 1
    BY <1>9, <1>14, <1>15
  <2>4. \A w \in Waiting' : f.id < w
    BY <1>2, <1>7, <2>2, <2>3 DEF Waiting, ToSet
  <2> QED
    BY <1>2, <1>7, <2>1, <2>2, <2>4 DEF QueueInOrder
<1>17. \A g \in Frame : Older(g) => Older(g)'
  BY <1>7, <1>12 DEF Older
<1> QED
  BY <1>1, <1>2, <1>3, <1>7, <1>16, <1>17, StillOlder

\* What a step that takes no frame from the queue and leaves none with the
\* batching thread keeps.
LEMMA FrameBatched ==
  ASSUME Formed, UNCHANGED <<processed_frame_queue_, arrived>>, d_frame' = NoFrame
  PROVE  QueueInOrder' /\ \A f : Older(f) => Older(f)'
<1>1. Waiting' = Waiting
  BY DEF Waiting
<1>2. QueueInOrder'
  BY <1>1 DEF Formed, QueueInOrder
<1> QED
  BY <1>1, <1>2 DEF Older

\* A batch of key k is closed: it is the youngest of its key.
LEMMA PushedFormed ==
  ASSUME TypeOK, Formed, NEW k \in Keys, NEW b \in Seq(Frame), b # <<>>,
         OneStream(b), ClosedByLast(b), b[1].key = k,
         Len(b) < Last(b).batch_size => processed_frame_queue_.stopped,
         \A i \in DOMAIN b : Older(b[i])',
         \A c \in Known : c[1].key = k => AllBefore(c, b),
         Known' \subseteq Known \cup {b},
         current_batches' = [current_batches EXCEPT ![k] = <<>>],
         UNCHANGED <<processed_frame_queue_, arrived>>, d_frame' = NoFrame
  PROVE  Formed'
<1>1. QueueInOrder' /\ \A f : Older(f) => Older(f)'
  BY FrameBatched
<1>2. /\ current_batches'[k] = <<>> /\ DOMAIN <<>> = {}
      /\ \A l \in Keys : l # k => current_batches'[l] = current_batches[l]
  BY DEF TypeOK
<1>3. KnownOlder'
  BY <1>1 DEF Formed, KnownOlder
<1>4. CurrentOlder'
  <2>1. SUFFICES ASSUME NEW l \in Keys, NEW i \in DOMAIN current_batches'[l]
                 PROVE Older(current_batches[l][i])'
    BY DEF CurrentOlder
  <2>2. PICK f : f = current_batches[l][i]
    OBVIOUS
  <2>3. l # k /\ i \in DOMAIN current_batches[l] /\ current_batches'[l][i] = f
    BY <1>2, <2>2
  <2>4. Older(f)'
    BY <1>1, <2>2, <2>3 DEF Formed, CurrentOlder
  <2> QED
    BY <2>3, <2>4 DEF Older
<1>5. CurrentFormed'
  BY <1>2 DEF Formed, CurrentFormed, OneStream
<1>6. KnownFormed'
  BY DEF Formed, KnownFormed
<1>7. KnownBeforeCurrent'
  <2>1. SUFFICES ASSUME NEW c \in Known', NEW l \in Keys, c[1].key = l
                 PROVE AllBefore(c, current_batches'[l])
    BY DEF KnownBeforeCurrent, AllBefore
  <2>2. CASE l = k
    BY <1>2, <2>2 DEF AllBefore
  <2>3. CASE l # k
    <3>1. c \in Known
      BY <2>1, <2>3
    <3> QED
      BY <1>2, <2>1, <2>3, <3>1 DEF Formed, KnownBeforeCurrent
  <2> QED
    BY <2>2, <2>3
<1>8. KnownApart'
  BY DEF Formed, KnownApart
<1> QED
  BY <1>1, <1>3, <1>4, <1>5, <1>6, <1>7, <1>8 DEF Formed

\* A batch of key k grows and is not full yet.
LEMMA FilledFormed ==
  ASSUME TypeOK, Formed, NEW k \in Keys, NEW b \in Seq(Frame),
         OneStream(b), \A i \in DOMAIN b : b[i].key = k /\ i < b[i].batch_size,
         \A i \in DOMAIN b : Older(b[i])',
         \A c \in Known : c[1].key = k => AllBefore(c, b),
         Known' = Known,
         current_batches' = [current_batches EXCEPT ![k] = b],
         UNCHANGED <<processed_frame_queue_, arrived>>, d_frame' = NoFrame
  PROVE  Formed'
<1>1. QueueInOrder' /\ \A f : Older(f) => Older(f)'
  BY FrameBatched
<1>2. /\ current_batches'[k] = b
      /\ \A l \in Keys : l # k => current_batches'[l] = current_batches[l]
  BY DEF TypeOK
<1>3. KnownOlder'
  BY <1>1 DEF Formed, KnownOlder
<1>4. CurrentOlder'
  <2>1. SUFFICES ASSUME NEW l \in Keys, NEW i \in DOMAIN current_batches'[l]
                 PROVE Older(current_batches[l][i])'
    BY DEF CurrentOlder
  <2>2. PICK f : f = current_batches'[l][i]
    OBVIOUS
  <2>3. Older(f)'
    <3>1. CASE l = k
      BY <1>2, <2>2, <3>1
    <3>2. CASE l # k
      BY <1>1, <1>2, <2>2, <3>2 DEF Formed, CurrentOlder
    <3> QED
      BY <3>1, <3>2
  <2> QED
    BY <2>2, <2>3 DEF Older
<1>5. CurrentFormed'
  BY <1>2 DEF Formed, CurrentFormed
<1>6. KnownFormed'
  BY DEF Formed, KnownFormed
<1>7. KnownBeforeCurrent'
  BY <1>2 DEF Formed, KnownBeforeCurrent
<1>8. KnownApart'
  BY DEF Formed, KnownApart
<1> QED
  BY <1>1, <1>3, <1>4, <1>5, <1>6, <1>7, <1>8 DEF Formed

\* The batch the next frame is appended to.
LEMMA ExtendedBatch ==
  ASSUME TypeOK, Formed, d_frame \in Frame, d_frame # NoFrame, NEW k, k = d_frame.key,
         NEW b, b = Append(current_batches[k], d_frame)
  PROVE  /\ k \in Keys /\ b \in Seq(Frame) /\ b # <<>> /\ 1 \in DOMAIN b
         /\ Len(b) \in DOMAIN b /\ DOMAIN b = 1..Len(b) /\ b[Len(b)] = d_frame
         /\ OneStream(b) /\ ClosedByLast(b) /\ Last(b) = d_frame
         /\ \A i \in DOMAIN b : b[i].key = k /\ (i # Len(b) => i < b[i].batch_size)
         /\ \A c \in Known : c[1].key = k => AllBefore(c, b)
         /\ \A i \in DOMAIN b : b[i].id = d_frame.id \/ Older(b[i])
<1>1. k \in Keys /\ d_frame.id \in Int /\ d_frame.batch_size \in Int
  BY FrameFields
<1>2. PICK s : s = current_batches[k]
  OBVIOUS
<1>3. PICK n : n = Len(s) + 1
  OBVIOUS
<1>4. s \in Seq(Frame)
  BY <1>1, <1>2 DEF TypeOK
<1>5. /\ b \in Seq(Frame) /\ b # <<>> /\ Len(b) = n /\ b[n] = d_frame
      /\ Len(s) \in Nat /\ DOMAIN s = 1..Len(s) /\ DOMAIN b = 1..Len(b)
      /\ \A i \in DOMAIN s : b[i] = s[i]
  BY <1>2, <1>3, <1>4, AppendProperties, LenProperties
<1>6. /\ 1 \in DOMAIN b /\ n \in DOMAIN b /\ n \in Int /\ 1..(n - 1) = DOMAIN s
      /\ \A i \in DOMAIN b : i = n \/ i \in DOMAIN s
      /\ \A i \in DOMAIN s : i < n /\ i \in Int
  BY <1>3, <1>5
<1>7. \A i \in DOMAIN s : /\ s[i].key = k /\ i < s[i].batch_size /\ s[i].id < d_frame.id
                          /\ s[i].id \in Int /\ Older(s[i])
  BY <1>1, <1>2, <1>4, FrameOf DEF Formed, CurrentFormed, CurrentOlder, Older
<1>8. \A i \in DOMAIN b : b[i].key = k /\ (i # n => i < b[i].batch_size)
  BY <1>5, <1>6, <1>7
<1>9. OneStream(b)
  <2>1. \A i, j \in DOMAIN s : i < j => s[i].id < s[j].id
    BY <1>1, <1>2 DEF Formed, CurrentFormed, OneStream
  <2>2. \A i, j \in DOMAIN b : i < j => b[i].id < b[j].id
    BY <1>5, <1>6, <1>7, <2>1
  <2> QED
    BY <1>8, <2>2 DEF OneStream
<1>10. ClosedByLast(b) /\ Last(b) = d_frame
  BY <1>5, <1>6, <1>7 DEF ClosedByLast, Last
<1>11. \A c \in Known : c[1].key = k => AllBefore(c, b)
  <2>1. SUFFICES ASSUME NEW c \in Known, c[1].key = k, NEW i \in DOMAIN c, NEW j \in DOMAIN b
                 PROVE c[i].id < b[j].id
    BY DEF AllBefore
  <2>2. CASE j = n
    BY <1>5, <2>1, <2>2 DEF Formed, KnownOlder, Older
  <2>3. CASE j \in DOMAIN s
    <3>1. AllBefore(c, s)
      BY <1>1, <1>2, <2>1 DEF Formed, KnownBeforeCurrent
    <3> QED
      BY <1>5, <2>1, <2>3, <3>1 DEF AllBefore
  <2> QED
    BY <1>6, <2>2, <2>3
<1>12. \A i \in DOMAIN b : b[i].id = d_frame.id \/ Older(b[i])
  BY <1>5, <1>6, <1>7
<1> QED
  BY <1>1, <1>5, <1>6, <1>8, <1>9, <1>10, <1>11, <1>12

\* BatchFrame closes or grows the batch of the frame's key.
LEMMA BatchFrameFormed ==
  ASSUME Typed, Formed, BatchFrame
  PROVE  Formed'
<1>1. TypeOK /\ LocalsAgree /\ batch_queue_ \in Queue(Seq(Frame))
  BY TypeFacts DEF Typed
<1>2. PICK k, b : k = d_frame.key /\ b = Append(current_batches[k], d_frame)
  OBVIOUS
<1>3. /\ d_frame' = NoFrame /\ batcher = "frame"
      /\ UNCHANGED <<processed_frame_queue_, senderVars, arrived>>
  BY DEF BatchFrame
<1>4. d_frame \in Frame /\ d_frame # NoFrame
  BY <1>1, <1>3 DEF TypeOK, LocalsAgree
<1>5. /\ k \in Keys /\ b \in Seq(Frame) /\ b # <<>> /\ 1 \in DOMAIN b
      /\ Len(b) \in DOMAIN b /\ DOMAIN b = 1..Len(b) /\ b[Len(b)] = d_frame
      /\ OneStream(b) /\ ClosedByLast(b) /\ Last(b) = d_frame
      /\ \A i \in DOMAIN b : b[i].key = k /\ (i # Len(b) => i < b[i].batch_size)
      /\ \A c \in Known : c[1].key = k => AllBefore(c, b)
      /\ \A i \in DOMAIN b : b[i].id = d_frame.id \/ Older(b[i])
  BY <1>1, <1>2, <1>4, ExtendedBatch
<1>6. \A i \in DOMAIN b : Older(b[i])'
  <2>1. Waiting' = Waiting /\ \A w \in Waiting : d_frame.id < w
    BY <1>3, <1>4 DEF Waiting, Formed, QueueInOrder
  <2>2. \A f : Older(f) => Older(f)'
    BY <1>3, FrameBatched
  <2> QED
    BY <1>3, <1>5, <2>1, <2>2 DEF Older
<1>7. UNCHANGED <<batch, redis, refused, dry_run, requeued, lost_replies>>
  BY <1>3 DEF senderVars
<1>8. CASE BatchFull(b, d_frame)
  <2>1. /\ batch_queue_' = Push(batch_queue_, b)
        /\ current_batches' = [current_batches EXCEPT ![k] = <<>>]
    BY <1>2, <1>8 DEF BatchFrame
  <2>2. Known' \subseteq Known \cup {b}
    BY <1>1, <1>5, <1>7, <2>1, KnownGrows
  <2>3. ~(Len(b) < Last(b).batch_size)
    <3>1. d_frame.batch_size \in Int /\ Len(b) \in Int
      BY <1>4, <1>5, FrameFields, LenProperties
    <3> QED
      BY <1>5, <1>8, <3>1 DEF BatchFull
  <2>4. b[1].key = k
    BY <1>5
  <2> QED
    BY <1>1, <1>3, <1>5, <1>6, <2>1, <2>2, <2>3, <2>4, PushedFormed
<1>9. CASE ~BatchFull(b, d_frame)
  <2>1. /\ batch_queue_' = batch_queue_
        /\ current_batches' = [current_batches EXCEPT ![k] = b]
    BY <1>2, <1>9 DEF BatchFrame
  <2>2. Known' = Known
    BY <1>7, <2>1, KnownSame
  <2>3. \A i \in DOMAIN b : b[i].key = k /\ i < b[i].batch_size
    <3>1. d_frame.batch_size \in Int /\ Len(b) \in Int
      BY <1>4, <1>5, FrameFields, LenProperties
    <3>2. Len(b) < d_frame.batch_size
      BY <1>9, <3>1 DEF BatchFull
    <3> QED
      BY <1>5, <3>2
  <2> QED
    BY <1>1, <1>3, <1>5, <1>6, <2>1, <2>2, <2>3, FilledFormed
<1> QED
  BY <1>8, <1>9

\* A flushed batch may be short: the input queue is stopped by then.
LEMMA FlushFormed ==
  ASSUME Typed, Formed, FlushPartial, Partial # {}
  PROVE  Formed'
<1>1. TypeOK /\ LocalsAgree /\ StopOrder /\ batch_queue_ \in Queue(Seq(Frame))
  BY TypeFacts DEF Typed
<1>2. PICK k : k = CHOOSE x \in Partial : \A y \in Partial : x <= y
  OBVIOUS
<1>3. PICK b : b = current_batches[k]
  OBVIOUS
<1>4. /\ batch_queue_' = Push(batch_queue_, b) /\ batcher = "flush"
      /\ current_batches' = [current_batches EXCEPT ![k] = <<>>]
      /\ UNCHANGED <<processed_frame_queue_, d_frame, senderVars, arrived>>
  BY <1>2, <1>3 DEF FlushPartial
<1>5. d_frame' = NoFrame /\ processed_frame_queue_.stopped
  BY <1>1, <1>4 DEF LocalsAgree, StopOrder
<1>6. k \in Keys /\ b \in Seq(Frame) /\ b # <<>>
  BY <1>1, <1>2, <1>3, FlushPicks DEF Partial, TypeOK
<1>7. Known' \subseteq Known \cup {b}
  <2>1. UNCHANGED <<batch, redis, refused, dry_run, requeued, lost_replies>>
    BY <1>4 DEF senderVars
  <2> QED
    BY <1>1, <1>4, <1>6, <2>1, KnownGrows
<1>8. /\ OneStream(b) /\ \A i \in DOMAIN b : b[i].key = k /\ i < b[i].batch_size
      /\ \A i \in DOMAIN b : Older(b[i])
      /\ \A c \in Known : c[1].key = k => AllBefore(c, b)
  BY <1>3, <1>6 DEF Formed, CurrentFormed, CurrentOlder, KnownBeforeCurrent
<1>9. DOMAIN b = 1..Len(b) /\ 1 \in DOMAIN b /\ Len(b) \in Nat
  BY <1>6, EmptySeq, LenProperties
<1>10. ClosedByLast(b) /\ b[1].key = k
  BY <1>8, <1>9 DEF ClosedByLast
<1>11. \A i \in DOMAIN b : Older(b[i])'
  BY <1>4, <1>5, <1>8, FrameBatched
<1> QED
  BY <1>1, <1>4, <1>5, <1>6, <1>7, <1>8, <1>10, <1>11, PushedFormed

\* One case per action of Next.
LEMMA FormedPreserved == Typed /\ Formed /\ [Next]_vars => Formed'
<1> SUFFICES ASSUME Typed, Formed, [Next]_vars PROVE Formed'
  OBVIOUS
<1>1. TypeOK /\ processed_frame_queue_ \in Queue(Frame)
  BY TypeFacts DEF Typed
<1>2. CASE \E e \in EventConfigs : Arrive(e[1], e[2])
  BY <1>2, ArriveFormed
<1>3. CASE batching_loop
  <2>1. CASE BatcherCheckStop
    <3>1. UNCHANGED <<processed_frame_queue_, batch_queue_, d_frame, current_batches, senderVars, arrived>>
      BY <2>1 DEF BatcherCheckStop
    <3>2. Known' = Known
      BY <3>1, KnownSame DEF senderVars
    <3> QED
      BY <3>1, <3>2, FormedKept
  <2>2. CASE BatcherPop
    <3>1. CASE HasItem(processed_frame_queue_)
      BY <2>2, <3>1, PopFormed
    <3>2. CASE ~HasItem(processed_frame_queue_)
      <4>1. UNCHANGED <<processed_frame_queue_, batch_queue_, d_frame, current_batches, senderVars, arrived>>
        BY <2>2, <3>2 DEF BatcherPop
      <4>2. Known' = Known
        BY <4>1, KnownSame DEF senderVars
      <4> QED
        BY <4>1, <4>2, FormedKept
    <3> QED
      BY <3>1, <3>2
  <2>3. CASE BatchFrame
    BY <2>3, BatchFrameFormed
  <2>4. CASE FlushPartial
    <3>1. CASE Partial # {}
      BY <2>4, <3>1, FlushFormed
    <3>2. CASE Partial = {}
      <4>1. UNCHANGED <<processed_frame_queue_, batch_queue_, d_frame, current_batches, senderVars, arrived>>
        BY <2>4, <3>2 DEF FlushPartial
      <4>2. Known' = Known
        BY <4>1, KnownSame DEF senderVars
      <4> QED
        BY <4>1, <4>2, FormedKept
    <3> QED
      BY <3>1, <3>2
  <2> QED
    BY <1>3, <2>1, <2>2, <2>3, <2>4 DEF batching_loop
<1>4. ASSUME NEW p \in Publishers, publisher_loop(p) PROVE Formed'
  <2>1. Known' \subseteq Known
    BY <1>1, <1>4, SenderPreserves
  <2>2. UNCHANGED <<processed_frame_queue_, d_frame, current_batches, arrived>>
    BY <1>4 DEF publisher_loop, CheckStop, PopBatch, DryRun, Reconnect, ReconnectFails,
      XaddStored, XaddErrorReply, XaddNotSent, XaddReplyLost, Release, batcherVars
  <2> QED
    BY <2>1, <2>2, FormedKept
<1>5. CASE StopProcessedQueue \/ stop
  <2>1. Known' = Known
    BY <1>5, StopPreserves
  <2>2. UNCHANGED <<d_frame, current_batches, arrived>>
    BY <1>5 DEF StopProcessedQueue, stop, RequestStopBatcher, JoinBatcher, StopBatchQueue,
      RequestStop, Join, batcherVars
  <2>3. /\ processed_frame_queue_'.items = processed_frame_queue_.items
        /\ processed_frame_queue_.stopped => processed_frame_queue_'.stopped
    <3>1. CASE processed_frame_queue_' = processed_frame_queue_
      BY <3>1
    <3>2. CASE processed_frame_queue_' = StopQueue(processed_frame_queue_)
      BY <1>1, <3>2, StopFacts
    <3> QED
      BY <1>5, <3>1, <3>2 DEF StopProcessedQueue, stop, RequestStopBatcher, JoinBatcher,
        StopBatchQueue, RequestStop, Join
  <2> QED
    BY <2>1, <2>2, <2>3, FormedKept
<1>6. CASE UNCHANGED vars
  <2>1. UNCHANGED <<processed_frame_queue_, batch_queue_, d_frame, current_batches, senderVars, arrived>>
    BY <1>6 DEF vars, publisherVars, batcherVars
  <2>2. Known' = Known
    BY <2>1, KnownSame DEF senderVars
  <2> QED
    BY <2>1, <2>2, FormedKept
<1> QED
  BY <1>2, <1>3, <1>4, <1>5, <1>6 DEF Next, Terminated

(***************************************************************************)
(* Every batch, whether queued, held by a thread, stored, refused or       *)
(* discarded, holds frames of one stream and event in the order of         *)
(* arrival, was closed by the first frame that saw it full (whatever batch *)
(* size each frame brought), is short only after stop() closed the input   *)
(* queue, and no two batches of a stream and event overlap. It holds for   *)
(* any number of publisher threads and any interleaving of retries.        *)
(***************************************************************************)
THEOREM BatchesFormed == Spec => []BatchesWellFormed
<1>1. Init => Typed /\ Formed
  BY TypedInitially, FormedInitially
<1>2. Typed /\ Formed /\ [Next]_vars => (Typed /\ Formed)'
  BY TypedPreserved, FormedPreserved
<1>3. Typed /\ Formed => BatchesWellFormed
  BY FormedMeans DEF Typed
<1> QED
  BY <1>1, <1>2, <1>3, PTL DEF Spec

-----------------------------------------------------------------------------
(* The order in which batches are first tried *)

\* batch_queue_ starts empty.
LEMMA UntriedInitially == Init => Untried
<1> SUFFICES ASSUME Init PROVE Untried
  OBVIOUS
<1>1. DOMAIN <<>> = {} /\ ToSet(<<>>) = {} /\ batch_queue_.items = <<>>
  BY EmptySeq DEF Init, EmptyQueue, ToSet
<1> QED
  BY <1>1 DEF Untried, UntriedAfterTried, UntriedInOrder, Queued

\* Stored batches are tried batches.
LEMMA UntriedMeans ==
  ASSUME TypeOK, Untried
  PROVE  NoOvertakingOfUntriedBatch
<1>1. SUFFICES ASSUME NEW b \in Queued \ requeued, NEW c \in Stored, b[1].key = c[1].key
               PROVE Last(c).id < b[1].id
  BY DEF NoOvertakingOfUntriedBatch
<1>2. AllBefore(c, b)
  BY <1>1 DEF Untried, UntriedAfterTried, Tried
<1>3. b \in Seq(Frame) /\ b # <<>> /\ c \in Seq(Frame) /\ c # <<>>
  BY TypeFacts DEF Known, Batches, IsBatch
<1>4. 1 \in DOMAIN b /\ Len(c) \in DOMAIN c
  <2>1. Len(b) \in Nat \ {0} /\ DOMAIN b = 1..Len(b) /\ Len(c) \in Nat \ {0} /\ DOMAIN c = 1..Len(c)
    BY <1>3, EmptySeq, LenProperties
  <2> QED
    BY <2>1
<1> QED
  BY <1>2, <1>4 DEF AllBefore, Last

\* Batches that stay where they are, or are put back.
LEMMA UntriedKept ==
  ASSUME Untried, batch_queue_ \in Queue(Seq(Frame)),
         Tried' \subseteq Tried, requeued \subseteq requeued',
         NEW b \in Seq(Frame), b \in requeued',
         batch_queue_'.items \in {batch_queue_.items, Append(batch_queue_.items, b)}
  PROVE  Untried'
<1>1. batch_queue_.items \in Seq(Seq(Frame))
  BY DEF Queue
<1>2. Queued' \subseteq Queued \cup {b}
  <2>1. ToSet(Append(batch_queue_.items, b)) = ToSet(batch_queue_.items) \cup {b}
    BY <1>1, ToSetAppend
  <2> QED
    BY <2>1 DEF Queued
<1>3. UntriedAfterTried'
  BY <1>2 DEF Untried, UntriedAfterTried
<1>4. UntriedInOrder'
  <2>1. CASE batch_queue_'.items = batch_queue_.items
    BY <2>1 DEF Untried, UntriedInOrder
  <2>2. CASE batch_queue_'.items = Append(batch_queue_.items, b)
    <3>1. PICK s, t, n : s = batch_queue_.items /\ t = Append(s, b) /\ n = Len(s) + 1
      OBVIOUS
    <3>2. /\ DOMAIN t = DOMAIN s \cup {n} /\ t[n] = b
          /\ \A i \in DOMAIN s : t[i] = s[i]
      BY <1>1, <3>1, AppendProperties, LenProperties
    <3>3. batch_queue_'.items = t
      BY <2>2, <3>1
    <3>4. SUFFICES ASSUME NEW i \in DOMAIN t, NEW j \in DOMAIN t, i < j,
                          t[i] \notin requeued', t[j] \notin requeued', t[i][1].key = t[j][1].key
                   PROVE AllBefore(t[i], t[j])
      BY <3>3 DEF UntriedInOrder, AllBefore
    <3>5. i \in DOMAIN s /\ j \in DOMAIN s
      BY <3>2, <3>4
    <3> QED
      BY <3>1, <3>2, <3>4, <3>5 DEF Untried, UntriedInOrder
  <2> QED
    BY <2>1, <2>2
<1> QED
  BY <1>3, <1>4 DEF Untried

\* Steps that move no batch in or out of batch_queue_.
LEMMA UntriedSame ==
  ASSUME Untried, Tried' \subseteq Tried, requeued \subseteq requeued',
         batch_queue_'.items = batch_queue_.items
  PROVE  Untried'
  BY DEF Untried, UntriedAfterTried, UntriedInOrder, Queued

\* A thread takes the oldest batch: the untried ones behind it are younger.
LEMMA UntriedPopped ==
  ASSUME TypeOK, Untried, HasItem(batch_queue_), batch_queue_' = Pop(batch_queue_),
         requeued' = requeued, Tried' \subseteq Tried \cup {Oldest(batch_queue_)}
  PROVE  Untried'
<1>1. batch_queue_ \in Queue(Seq(Frame))
  BY TypeFacts
<1>2. PICK s, t, b : s = batch_queue_.items /\ t = Tail(s) /\ b = Head(s)
  OBVIOUS
<1>3. /\ batch_queue_'.items = t /\ s \in Seq(Seq(Frame)) /\ s # <<>>
      /\ Queued = Queued' \cup {b}
  BY <1>1, <1>2, PopFacts DEF Queue, Oldest, HasItem, Queued
<1>4. /\ t \in Seq(Seq(Frame)) /\ Len(t) = Len(s) - 1
      /\ \A i \in 1..Len(t) : t[i] = s[i + 1]
  BY <1>2, <1>3, HeadTailProperties
<1>5. Len(s) \in Nat \ {0} /\ b = s[1] /\ DOMAIN s = 1..Len(s) /\ DOMAIN t = 1..Len(t)
  BY <1>2, <1>3, <1>4, EmptySeq, LenProperties
<1>6. /\ 1 \in DOMAIN s
      /\ \A i \in DOMAIN t : t[i] = s[i + 1] /\ i + 1 \in DOMAIN s /\ i \in Int /\ 1 < i + 1
  BY <1>4, <1>5
<1>7. \A i, j \in DOMAIN s : /\ i < j /\ s[i] \notin requeued /\ s[j] \notin requeued
                             /\ s[i][1].key = s[j][1].key
                             => AllBefore(s[i], s[j])
  BY <1>2 DEF Untried, UntriedInOrder
<1>8. UntriedInOrder'
  <2>1. SUFFICES ASSUME NEW i \in DOMAIN t, NEW j \in DOMAIN t, i < j,
                        t[i] \notin requeued, t[j] \notin requeued, t[i][1].key = t[j][1].key
                 PROVE AllBefore(t[i], t[j])
    BY <1>3 DEF UntriedInOrder, AllBefore
  <2>2. i + 1 < j + 1 /\ t[i] = s[i + 1] /\ t[j] = s[j + 1] /\ i + 1 \in DOMAIN s /\ j + 1 \in DOMAIN s
    BY <1>6, <2>1
  <2> QED
    BY <1>7, <2>1, <2>2
<1>9. UntriedAfterTried'
  <2>1. SUFFICES ASSUME NEW c \in Queued' \ requeued, NEW d \in Tried', c[1].key = d[1].key
                 PROVE AllBefore(d, c)
    BY DEF UntriedAfterTried, AllBefore
  <2>2. CASE d \in Tried
    BY <1>3, <2>1, <2>2 DEF Untried, UntriedAfterTried
  <2>3. CASE d = b /\ b \notin Tried
    <3>1. b \notin requeued
      BY <2>3 DEF Tried
    <3>2. PICK i \in DOMAIN t : c = t[i]
      BY <1>3, <2>1 DEF Queued, ToSet
    <3>3. c = s[i + 1] /\ i + 1 \in DOMAIN s /\ 1 < i + 1
      BY <1>6, <3>2
    <3> QED
      BY <1>5, <1>6, <1>7, <2>1, <2>3, <3>1, <3>3
  <2> QED
    BY <1>2, <2>1, <2>2, <2>3 DEF Oldest
<1> QED
  BY <1>8, <1>9 DEF Untried

\* A batch closed by the batching thread is younger than all of its key.
LEMMA UntriedPushed ==
  ASSUME TypeOK, Untried, NEW b \in Seq(Frame),
         \A c \in Known : c[1].key = b[1].key => AllBefore(c, b),
         batch_queue_' = Push(batch_queue_, b), requeued' = requeued, Tried' = Tried
  PROVE  Untried'
<1>1. /\ batch_queue_ \in Queue(Seq(Frame)) /\ Queued' \subseteq Queued \cup {b}
      /\ batch_queue_.stopped => batch_queue_' = batch_queue_
      /\ ~batch_queue_.stopped => batch_queue_'.items = Append(batch_queue_.items, b)
  BY TypeFacts, PushBatch
<1>2. Tried \subseteq Known /\ Queued \subseteq Known
  BY DEF Tried, Known, Batches
<1>3. CASE batch_queue_.stopped
  BY <1>1, <1>3, UntriedSame
<1>4. CASE ~batch_queue_.stopped
  <2>1. PICK s, t, n : s = batch_queue_.items /\ t = Append(s, b) /\ n = Len(s) + 1
    OBVIOUS
  <2>2. batch_queue_'.items = t /\ s \in Seq(Seq(Frame))
    BY <1>1, <1>4, <2>1 DEF Queue
  <2>3. /\ DOMAIN t = DOMAIN s \cup {n} /\ t[n] = b /\ n \in Int
        /\ \A i \in DOMAIN s : t[i] = s[i] /\ i \in Int /\ i < n /\ s[i] \in Queued
    BY <2>1, <2>2, AppendProperties, LenProperties DEF Queued, ToSet
  <2>4. UntriedInOrder'
    <3>1. SUFFICES ASSUME NEW i \in DOMAIN t, NEW j \in DOMAIN t, i < j,
                          t[i] \notin requeued, t[j] \notin requeued, t[i][1].key = t[j][1].key
                   PROVE AllBefore(t[i], t[j])
      BY <2>2 DEF UntriedInOrder, AllBefore
    <3>2. i \in DOMAIN s
      BY <2>3, <3>1
    <3>3. CASE j = n
      BY <1>2, <2>3, <3>1, <3>2, <3>3
    <3>4. CASE j \in DOMAIN s
      BY <2>1, <2>3, <3>1, <3>2, <3>4 DEF Untried, UntriedInOrder
    <3> QED
      BY <2>3, <3>3, <3>4
  <2>5. UntriedAfterTried'
    <3>1. SUFFICES ASSUME NEW c \in Queued' \ requeued, NEW d \in Tried, c[1].key = d[1].key
                   PROVE AllBefore(d, c)
      BY DEF UntriedAfterTried, AllBefore
    <3>2. CASE c \in Queued
      BY <3>1, <3>2 DEF Untried, UntriedAfterTried
    <3>3. CASE c = b
      BY <1>2, <3>1, <3>3
    <3> QED
      BY <1>1, <3>2, <3>3
  <2> QED
    BY <2>4, <2>5 DEF Untried
<1> QED
  BY <1>3, <1>4

\* The batching thread pushes at most one batch in a step: the youngest of its key.
LEMMA BatcherPushes ==
  ASSUME Typed, Formed, batching_loop
  PROVE  \/ batch_queue_' = batch_queue_
         \/ \E b \in Seq(Frame) : /\ batch_queue_' = Push(batch_queue_, b)
                                  /\ \A c \in Known : c[1].key = b[1].key => AllBefore(c, b)
<1>1. TypeOK /\ LocalsAgree
  BY TypeFacts DEF Typed
<1>2. CASE BatcherCheckStop \/ BatcherPop
  BY <1>2 DEF BatcherCheckStop, BatcherPop
<1>3. CASE BatchFrame
  <2>1. PICK k, b : k = d_frame.key /\ b = Append(current_batches[k], d_frame)
    OBVIOUS
  <2>2. d_frame \in Frame /\ d_frame # NoFrame
    BY <1>1, <1>3 DEF TypeOK, LocalsAgree, BatchFrame
  <2>3. /\ b \in Seq(Frame) /\ 1 \in DOMAIN b /\ \A i \in DOMAIN b : b[i].key = k
        /\ \A c \in Known : c[1].key = k => AllBefore(c, b)
    BY <1>1, <2>1, <2>2, ExtendedBatch
  <2>4. batch_queue_' = batch_queue_ \/ batch_queue_' = Push(batch_queue_, b)
    BY <1>3, <2>1 DEF BatchFrame
  <2> QED
    BY <2>3, <2>4
<1>4. CASE FlushPartial
  <2>1. CASE Partial = {}
    BY <1>4, <2>1 DEF FlushPartial
  <2>2. CASE Partial # {}
    <3>1. PICK k : k = CHOOSE x \in Partial : \A y \in Partial : x <= y
      OBVIOUS
    <3>2. PICK b : b = current_batches[k]
      OBVIOUS
    <3>3. batch_queue_' = Push(batch_queue_, b)
      BY <1>4, <2>2, <3>1, <3>2 DEF FlushPartial
    <3>4. k \in Keys /\ b \in Seq(Frame) /\ b # <<>>
      BY <1>1, <2>2, <3>1, <3>2, FlushPicks DEF Partial, TypeOK
    <3>5. 1 \in DOMAIN b
      BY <3>4, EmptySeq, LenProperties
    <3>6. b[1].key = k /\ \A c \in Known : c[1].key = k => AllBefore(c, b)
      BY <3>2, <3>4, <3>5 DEF Formed, CurrentFormed, KnownBeforeCurrent
    <3> QED
      BY <3>3, <3>4, <3>6
  <2> QED
    BY <2>1, <2>2
<1> QED
  BY <1>2, <1>3, <1>4 DEF batching_loop

\* A publisher thread tries a batch, and may put it back at the tail.
LEMMA SenderUntried ==
  ASSUME TypeOK, Untried, NEW p \in Publishers, publisher_loop(p)
  PROVE  Untried'
<1>1. /\ batch_queue_ \in Queue(Seq(Frame)) /\ redis \in Seq(Seq(Frame)) /\ LocalsAgree
      /\ batch \in [Publishers -> {NoBatch} \cup Seq(Frame)]
  BY TypeFacts DEF TypeOK
<1>2. CASE CheckStop(p) \/ Reconnect(p)
  <2>1. UNCHANGED <<batch_queue_, batch, redis, requeued>>
    BY <1>2 DEF CheckStop, Reconnect
  <2>2. Tried' = Tried
    BY <2>1 DEF Tried, Held, Stored
  <2> QED
    BY <2>1, <2>2, UntriedSame
<1>3. CASE PopBatch(p)
  <2>1. UNCHANGED <<redis, requeued>>
    BY <1>3 DEF PopBatch
  <2>2. CASE HasItem(batch_queue_)
    <3>1. PICK b : b = Oldest(batch_queue_)
      OBVIOUS
    <3>2. batch' = [batch EXCEPT ![p] = b] /\ batch_queue_' = Pop(batch_queue_)
      BY <1>3, <2>2, <3>1 DEF PopBatch, Drained, HasItem
    <3>3. batch'[p] = b /\ \A q \in Publishers : q # p => batch'[q] = batch[q]
      BY <1>1, <3>2
    <3>4. Held' \subseteq Held \cup {b}
      BY <3>3 DEF Held
    <3>5. Tried' \subseteq Tried \cup {b}
      BY <2>1, <3>4 DEF Tried, Stored
    <3> QED
      BY <2>1, <2>2, <3>1, <3>2, <3>5, UntriedPopped
  <2>3. CASE ~HasItem(batch_queue_)
    <3>1. UNCHANGED <<batch_queue_, batch>>
      BY <1>3, <2>3 DEF PopBatch
    <3>2. Tried' = Tried
      BY <2>1, <3>1 DEF Tried, Held, Stored
    <3> QED
      BY <2>1, <3>1, <3>2, UntriedSame
  <2> QED
    BY <2>2, <2>3
<1>4. ASSUME pc[p] = "send", Release(p), redis' \in {redis, Append(redis, batch[p])},
             \/ UNCHANGED <<batch_queue_, requeued>>
             \/ Requeue(p)
      PROVE  Untried'
  <2>1. PICK b \in Seq(Frame) : b = batch[p] /\ b \in Held
    BY <1>4, BatchKnown
  <2>2. Held' \subseteq Held
    BY <1>4, ReleaseHeld
  <2>3. Stored' \subseteq Stored \cup {b}
    <3>1. ToSet(Append(redis, b)) = ToSet(redis) \cup {b}
      BY <1>1, ToSetAppend
    <3> QED
      BY <1>4, <2>1, <3>1 DEF Stored
  <2>4. CASE UNCHANGED <<batch_queue_, requeued>>
    <3>1. Tried' \subseteq Tried
      BY <2>1, <2>2, <2>3, <2>4 DEF Tried
    <3> QED
      BY <2>4, <3>1, UntriedSame
  <2>5. CASE Requeue(p)
    <3>1. batch_queue_' = Push(batch_queue_, b) /\ requeued' = requeued \cup {b}
      BY <2>1, <2>5 DEF Requeue
    <3>2. Tried' \subseteq Tried
      BY <2>1, <2>2, <2>3, <3>1 DEF Tried
    <3>3. batch_queue_'.items \in {batch_queue_.items, Append(batch_queue_.items, b)}
      BY <1>1, <3>1, PushBatch DEF Queue
    <3> QED
      BY <1>1, <3>1, <3>2, <3>3, UntriedKept
  <2> QED
    BY <1>4, <2>4, <2>5
<1>5. CASE DryRun(p)
  BY <1>4, <1>5 DEF DryRun
<1>6. CASE ReconnectFails(p)
  BY <1>4, <1>6 DEF ReconnectFails
<1>7. CASE XaddStored(p)
  BY <1>4, <1>7 DEF XaddStored, Sending
<1>8. CASE XaddErrorReply(p)
  BY <1>4, <1>8 DEF XaddErrorReply, Sending
<1>9. CASE XaddNotSent(p)
  BY <1>4, <1>9 DEF XaddNotSent, Sending
<1>10. CASE XaddReplyLost(p)
  BY <1>4, <1>10 DEF XaddReplyLost, Sending
<1> QED
  BY <1>2, <1>3, <1>5, <1>6, <1>7, <1>8, <1>9, <1>10 DEF publisher_loop

\* One case per action of Next.
LEMMA UntriedPreserved == Typed /\ Formed /\ Untried /\ [Next]_vars => Untried'
<1> SUFFICES ASSUME Typed, Formed, Untried, [Next]_vars PROVE Untried'
  OBVIOUS
<1>1. TypeOK /\ batch_queue_ \in Queue(Seq(Frame))
  BY TypeFacts DEF Typed
<1>2. ASSUME UNCHANGED <<batch, redis, requeued>>, batch_queue_'.items = batch_queue_.items
      PROVE  Untried'
  <2>1. Tried' = Tried
    BY <1>2 DEF Tried, Held, Stored
  <2> QED
    BY <1>2, <2>1, UntriedSame
<1>3. CASE \E e \in EventConfigs : Arrive(e[1], e[2])
  BY <1>2, <1>3 DEF Arrive, publisherVars, senderVars
<1>4. CASE batching_loop
  <2>1. UNCHANGED <<batch, redis, requeued>>
    BY <1>4 DEF batching_loop, BatcherCheckStop, BatcherPop, BatchFrame, FlushPartial, senderVars
  <2>2. Tried' = Tried
    BY <2>1 DEF Tried, Held, Stored
  <2>3. CASE batch_queue_' = batch_queue_
    BY <1>2, <2>1, <2>3
  <2>4. CASE \E b \in Seq(Frame) : /\ batch_queue_' = Push(batch_queue_, b)
                                   /\ \A c \in Known : c[1].key = b[1].key => AllBefore(c, b)
    BY <1>1, <2>1, <2>2, <2>4, UntriedPushed
  <2> QED
    BY <1>4, <2>3, <2>4, BatcherPushes
<1>5. CASE \E p \in Publishers : publisher_loop(p)
  BY <1>1, <1>5, SenderUntried
<1>6. CASE StopBatchQueue
  <2>1. batch_queue_'.items = batch_queue_.items
    BY <1>1, <1>6, StopFacts DEF StopBatchQueue
  <2> QED
    BY <1>2, <1>6, <2>1 DEF StopBatchQueue, senderVars
<1>7. CASE StopProcessedQueue \/ RequestStopBatcher \/ JoinBatcher \/ RequestStop \/ Join
  BY <1>2, <1>7 DEF StopProcessedQueue, RequestStopBatcher, JoinBatcher, RequestStop, Join, senderVars
<1>8. CASE UNCHANGED vars
  BY <1>2, <1>8 DEF vars, publisherVars, senderVars
<1> QED
  BY <1>3, <1>4, <1>5, <1>6, <1>7, <1>8 DEF Next, stop, Terminated

(***************************************************************************)
(* However many publisher threads there are and however often batches are  *)
(* put back at the tail of batch_queue_, no batch is stored in Redis       *)
(* before an older one of the same stream and event that no thread has     *)
(* tried yet.                                                              *)
(***************************************************************************)
THEOREM UntriedFirst == Spec => []NoOvertakingOfUntriedBatch
<1>1. Init => Typed /\ Formed /\ Untried
  BY TypedInitially, FormedInitially, UntriedInitially
<1>2. Typed /\ Formed /\ Untried /\ [Next]_vars => (Typed /\ Formed /\ Untried)'
  BY TypedPreserved, FormedPreserved, UntriedPreserved
<1>3. Typed /\ Formed /\ Untried => NoOvertakingOfUntriedBatch
  BY UntriedMeans DEF Typed
<1> QED
  BY <1>1, <1>2, <1>3, PTL DEF Spec

-----------------------------------------------------------------------------
(* Counting *)

\* 1 for an element of T and 0 otherwise.
Indicator(e, T) == IF e \in T THEN 1 ELSE 0
\* How many positions of s hold an element of T.
CountOf(s, T) == Cardinality({j \in DOMAIN s : s[j] \in T})

\* An indicator is 0 or 1.
LEMMA IndicatorType ==
  ASSUME NEW e, NEW T
  PROVE  Indicator(e, T) \in {0, 1} /\ Indicator(e, T) \in Nat
  BY DEF Indicator

\* A count of positions is a natural number.
LEMMA CountType ==
  ASSUME NEW S, NEW s \in Seq(S), NEW T
  PROVE  CountOf(s, T) \in Nat /\ IsFiniteSet({j \in DOMAIN s : s[j] \in T})
<1>1. DOMAIN s = 1..Len(s) /\ Len(s) \in Int /\ 1 \in Int
  BY LenProperties
<1>2. IsFiniteSet(DOMAIN s)
  BY <1>1, FS_Interval
<1>3. IsFiniteSet({j \in DOMAIN s : s[j] \in T})
  BY <1>2, FS_Subset
<1> QED
  BY <1>3, FS_CardinalityType DEF CountOf

\* Appending an element counts it.
LEMMA CountAppend ==
  ASSUME NEW S, NEW s \in Seq(S), NEW e \in S, NEW T
  PROVE  CountOf(Append(s, e), T) = CountOf(s, T) + Indicator(e, T)
<1>1. PICK n, t, A : n = Len(s) + 1 /\ t = Append(s, e) /\ A = {j \in DOMAIN s : s[j] \in T}
  OBVIOUS
<1>2. DOMAIN t = DOMAIN s \cup {n} /\ t[n] = e /\ n \notin DOMAIN s
      /\ \A i \in DOMAIN s : t[i] = s[i]
  BY <1>1, AppendProperties, LenProperties
<1>3. IsFiniteSet(A) /\ Cardinality(A) \in Nat /\ CountOf(s, T) = Cardinality(A)
  BY <1>1, CountType DEF CountOf
<1>4. CASE e \in T
  <2>1. {j \in DOMAIN t : t[j] \in T} = A \cup {n} /\ n \notin A
    BY <1>1, <1>2, <1>4
  <2>2. Cardinality(A \cup {n}) = Cardinality(A) + 1
    BY <1>3, <2>1, FS_AddElement
  <2> QED
    BY <1>1, <1>3, <1>4, <2>1, <2>2 DEF CountOf, Indicator
<1>5. CASE e \notin T
  <2>1. {j \in DOMAIN t : t[j] \in T} = A
    BY <1>1, <1>2, <1>5
  <2>2. Indicator(e, T) = 0
    BY <1>5 DEF Indicator
  <2>3. CountOf(Append(s, e), T) = Cardinality(A)
    BY <1>1, <2>1 DEF CountOf
  <2> QED
    BY <1>3, <2>2, <2>3
<1> QED
  BY <1>4, <1>5

\* Taking the head uncounts it: the positions shift by one.
LEMMA CountTail ==
  ASSUME NEW S, NEW s \in Seq(S), s # <<>>, NEW T
  PROVE  CountOf(s, T) = CountOf(Tail(s), T) + Indicator(Head(s), T)
<1>1. PICK t, A, B : /\ t = Tail(s) /\ A = {j \in DOMAIN s : s[j] \in T}
                     /\ B = {j \in DOMAIN t : t[j] \in T}
  OBVIOUS
<1>2. /\ t \in Seq(S) /\ Len(t) = Len(s) - 1
      /\ \A i \in 1..Len(t) : t[i] = s[i + 1]
  BY <1>1, HeadTailProperties
<1>3. /\ Len(s) \in Nat \ {0} /\ Head(s) = s[1]
      /\ DOMAIN s = 1..Len(s) /\ DOMAIN t = 1..Len(t)
  BY <1>2, EmptySeq, LenProperties
<1>4. PICK f : f = [j \in B |-> j + 1]
  OBVIOUS
<1>5. f \in Bijection(B, A \ {1})
  <2>1. \A j \in B : j \in Int /\ f[j] = j + 1 /\ j + 1 \in A /\ j + 1 # 1
    BY <1>1, <1>2, <1>3, <1>4
  <2>2. f \in [B -> A \ {1}]
    BY <1>4, <2>1
  <2>3. \A a, b \in B : f[a] = f[b] => a = b
    BY <2>1
  <2>4. \A a \in A \ {1} : \E b \in B : f[b] = a
    <3>1. SUFFICES ASSUME NEW a \in A \ {1} PROVE \E b \in B : f[b] = a
      OBVIOUS
    <3>2. a - 1 \in 1..Len(t) /\ (a - 1) + 1 = a
      BY <1>1, <1>2, <1>3
    <3>3. a - 1 \in B
      BY <1>1, <1>2, <1>3, <3>2
    <3> QED
      BY <2>1, <3>2, <3>3
  <2>5. f \in Injection(B, A \ {1})
    BY <2>2, <2>3 DEF Injection, IsInjective
  <2>6. f \in Surjection(B, A \ {1})
    BY <2>2, <2>4 DEF Surjection
  <2> QED
    BY <2>5, <2>6 DEF Bijection
<1>6. /\ IsFiniteSet(B) /\ Cardinality(B) = CountOf(t, T) /\ CountOf(t, T) \in Nat
      /\ IsFiniteSet(A) /\ Cardinality(A) = CountOf(s, T) /\ CountOf(s, T) \in Nat
  BY <1>1, <1>2, CountType DEF CountOf
<1>7. Cardinality(A \ {1}) = Cardinality(B)
  BY <1>5, <1>6, FS_Bijection DEF ExistsBijection
<1>8. 1 \in A <=> Head(s) \in T
  BY <1>1, <1>3
<1>9. Cardinality(A \ {1}) = IF 1 \in A THEN Cardinality(A) - 1 ELSE Cardinality(A)
  BY <1>6, FS_RemoveElement
<1>10. PICK m : m = Indicator(Head(s), T)
  OBVIOUS
<1>11. Cardinality(A) = Cardinality(B) + m
  <2>1. CASE 1 \in A
    <3>1. m = 1
      BY <1>8, <1>10, <2>1 DEF Indicator
    <3> QED
      BY <1>6, <1>7, <1>9, <2>1, <3>1
  <2>2. CASE 1 \notin A
    <3>1. m = 0
      BY <1>8, <1>10, <2>2 DEF Indicator
    <3> QED
      BY <1>6, <1>7, <1>9, <2>2, <3>1
  <2> QED
    BY <2>1, <2>2
<1>12. CountOf(s, T) = CountOf(t, T) + m
  BY <1>6, <1>11
<1> QED
  BY <1>1, <1>10, <1>12, Zenon

\* Two sets that differ at most in k.
LEMMA CountExcept ==
  ASSUME NEW A, IsFiniteSet(A), NEW B, IsFiniteSet(B), NEW k, A \ {k} = B \ {k}
  PROVE  /\ Cardinality(A) \in Nat /\ Cardinality(B) \in Nat
         /\ Cardinality(B) + Indicator(k, A) = Cardinality(A) + Indicator(k, B)
<1>1. Cardinality(A) \in Nat /\ Cardinality(B) \in Nat
  BY FS_CardinalityType
<1>2. PICK n : n = Cardinality(A \ {k})
  OBVIOUS
<1>3. n = IF k \in A THEN Cardinality(A) - 1 ELSE Cardinality(A)
  BY <1>2, FS_RemoveElement
<1>4. n = IF k \in B THEN Cardinality(B) - 1 ELSE Cardinality(B)
  BY <1>2, FS_RemoveElement
<1>5. PICK x \in Nat, y \in Nat : x = Indicator(k, A) /\ y = Indicator(k, B)
  BY IndicatorType
<1>6. Cardinality(A) = n + x /\ n \in Int
  BY <1>1, <1>3, <1>5 DEF Indicator
<1>7. Cardinality(B) = n + y
  BY <1>1, <1>4, <1>5 DEF Indicator
<1>8. (n + y) + x = (n + x) + y
  BY <1>6
<1> QED
  BY <1>1, <1>5, <1>6, <1>7, <1>8

\* Adding an element to a set that lacks it counts it.
LEMMA CountAdd ==
  ASSUME NEW S, IsFiniteSet(S), NEW e, NEW T,
         NEW A, A = {b \in S : b \in T}, NEW B, B = {b \in S \cup {e} : b \in T}
  PROVE  /\ Cardinality(A) \in Nat /\ Cardinality(B) \in Nat
         /\ Cardinality(B) <= Cardinality(A) + Indicator(e, T)
         /\ e \notin S => Cardinality(B) = Cardinality(A) + Indicator(e, T)
<1>1. IsFiniteSet(A)
  BY FS_Subset
<1>2. Cardinality(A) \in Nat
  BY <1>1, FS_CardinalityType
<1>3. CASE e \in T
  <2>1. B = A \cup {e} /\ (e \notin S => e \notin A)
    BY <1>3
  <2>2. Cardinality(B) = IF e \in A THEN Cardinality(A) ELSE Cardinality(A) + 1
    BY <1>1, <2>1, FS_AddElement
  <2>3. Indicator(e, T) = 1
    BY <1>3 DEF Indicator
  <2>4. CASE e \in A
    <3>1. Cardinality(B) = Cardinality(A) /\ e \in S
      BY <2>1, <2>2, <2>4
    <3> QED
      BY <1>2, <2>3, <3>1
  <2>5. CASE e \notin A
    <3>1. Cardinality(B) = Cardinality(A) + 1
      BY <2>2, <2>5
    <3> QED
      BY <1>2, <2>3, <3>1
  <2> QED
    BY <2>4, <2>5
<1>4. CASE e \notin T
  <2>1. B = A
    BY <1>4
  <2>2. Indicator(e, T) = 0
    BY <1>4 DEF Indicator
  <2>3. Cardinality(B) = Cardinality(A)
    BY <2>1
  <2> QED
    BY <1>2, <2>2, <2>3
<1> QED
  BY <1>3, <1>4

-----------------------------------------------------------------------------
(* Where the copies of a frame are *)

\* The frames with id i, and the batches that hold one.
FramesOf(i) == {f \in Frame : f.id = i}
BatchesOf(i) == {b \in Seq(Frame) : Has(b, i)}

\* The places a copy of frame i can be, in the order it passes through them.
InQueue(i) == CountOf(processed_frame_queue_.items, FramesOf(i))
InThread(i) == Indicator(d_frame, FramesOf(i))
InCurrent(i) == Cardinality({k \in Keys : current_batches[k] \in BatchesOf(i)})
InBatchQueue(i) == CountOf(batch_queue_.items, BatchesOf(i))
InSender(i) == Cardinality({p \in Publishers : batch[p] \in BatchesOf(i)})
InRedis(i) == CountOf(redis, BatchesOf(i))
InEnded(i) == Cardinality({b \in refused \cup dry_run : b \in BatchesOf(i)})
InLost(i) == CountOf(lost_replies, BatchesOf(i))

Copies(i) == InQueue(i) + InThread(i) + InCurrent(i) + InBatchQueue(i) + InSender(i)
             + InRedis(i) + InEnded(i)

\* One copy, plus one for each stored batch whose reply was lost.
AccountOf(i) ==
  /\ Copies(i) <= 1 + InLost(i)
  /\ ~batch_queue_.stopped => Copies(i) = 1 + InLost(i)
  /\ InLost(i) <= InRedis(i)

\* The account of every frame that has arrived.
Accounted == IsFiniteSet(refused \cup dry_run) /\ \A i \in 1..arrived : AccountOf(i)

\* All counts are natural numbers.
LEMMA CountTypes ==
  ASSUME TypeOK, IsFiniteSet(refused \cup dry_run), NEW i
  PROVE  /\ InQueue(i) \in Nat /\ InThread(i) \in Nat /\ InCurrent(i) \in Nat
         /\ InBatchQueue(i) \in Nat /\ InSender(i) \in Nat /\ InRedis(i) \in Nat
         /\ InEnded(i) \in Nat /\ InLost(i) \in Nat
<1>1. /\ processed_frame_queue_.items \in Seq(Frame) /\ batch_queue_.items \in Seq(Seq(Frame))
      /\ redis \in Seq(Seq(Frame)) /\ lost_replies \in Seq(Seq(Frame))
  BY TypeFacts DEF TypeOK, Queue
<1>2. InQueue(i) \in Nat
  BY <1>1, CountType DEF InQueue
<1>3. InBatchQueue(i) \in Nat
  BY <1>1, CountType DEF InBatchQueue
<1>4. InRedis(i) \in Nat
  BY <1>1, CountType DEF InRedis
<1>5. InLost(i) \in Nat
  BY <1>1, CountType DEF InLost
<1>6. InThread(i) \in Nat
  BY IndicatorType DEF InThread
<1>7. InCurrent(i) \in Nat
  <2>1. IsFiniteSet({k \in Keys : current_batches[k] \in BatchesOf(i)})
    BY KeysNat, FS_Subset DEF KeysNat
  <2> QED
    BY <2>1, FS_CardinalityType DEF InCurrent
<1>8. InSender(i) \in Nat
  <2>1. IsFiniteSet(Publishers)
    BY NumPublishersPos, FS_Interval DEF NumPublishersPos, Publishers
  <2>2. IsFiniteSet({p \in Publishers : batch[p] \in BatchesOf(i)})
    BY <2>1, FS_Subset
  <2> QED
    BY <2>2, FS_CardinalityType DEF InSender
<1>9. InEnded(i) \in Nat
  <2>1. IsFiniteSet({b \in refused \cup dry_run : b \in BatchesOf(i)})
    BY FS_Subset
  <2> QED
    BY <2>1, FS_CardinalityType DEF InEnded
<1> QED
  BY <1>2, <1>3, <1>4, <1>5, <1>6, <1>7, <1>8, <1>9

\* CountIn of the properties is CountOf here.
LEMMA CountInIs ==
  ASSUME NEW s \in Seq(Seq(Frame)), NEW i
  PROVE  CountIn(s, i) = CountOf(s, BatchesOf(i))
<1>1. \A j \in DOMAIN s : s[j] \in Seq(Frame)
  BY ElementOf
<1>2. {j \in DOMAIN s : Has(s[j], i)} = {j \in DOMAIN s : s[j] \in BatchesOf(i)}
  BY <1>1 DEF BatchesOf
<1> QED
  BY <1>2 DEF CountIn, CountOf

\* The copies the properties count are the copies counted here.
LEMMA CopiesAre ==
  ASSUME TypeOK, IsFiniteSet(refused \cup dry_run), NEW i
  PROVE  /\ InFlight(i) + Finished(i) = Copies(i)
         /\ CountIn(lost_replies, i) = InLost(i)
         /\ Copies(i) \in Nat /\ InLost(i) \in Nat
<1>1. /\ processed_frame_queue_.items \in Seq(Frame) /\ batch_queue_.items \in Seq(Seq(Frame))
      /\ redis \in Seq(Seq(Frame)) /\ lost_replies \in Seq(Seq(Frame))
      /\ \A b \in Known : b \in Seq(Frame)
  BY TypeFacts DEF TypeOK, Queue, IsBatch
<1>2. CountIn(batch_queue_.items, i) = InBatchQueue(i)
  BY <1>1, CountInIs DEF InBatchQueue
<1>3. CountIn(redis, i) = InRedis(i)
  BY <1>1, CountInIs DEF InRedis
<1>4. CountIn(lost_replies, i) = InLost(i)
  BY <1>1, CountInIs DEF InLost
<1>5. Cardinality({j \in DOMAIN processed_frame_queue_.items :
                     processed_frame_queue_.items[j].id = i}) = InQueue(i)
  <2>1. \A j \in DOMAIN processed_frame_queue_.items : processed_frame_queue_.items[j] \in Frame
    BY <1>1, ElementOf
  <2>2. {j \in DOMAIN processed_frame_queue_.items : processed_frame_queue_.items[j].id = i}
        = {j \in DOMAIN processed_frame_queue_.items :
             processed_frame_queue_.items[j] \in FramesOf(i)}
    BY <2>1 DEF FramesOf
  <2> QED
    BY <2>2 DEF InQueue, CountOf
<1>6. (IF d_frame # NoFrame /\ d_frame.id = i THEN 1 ELSE 0) = InThread(i)
  <2>1. d_frame \in FramesOf(i) <=> d_frame # NoFrame /\ d_frame.id = i
    BY NoFrameFresh DEF NoFrameFresh, TypeOK, FramesOf
  <2> QED
    BY <2>1 DEF InThread, Indicator
<1>7. Cardinality({k \in Keys : Has(current_batches[k], i)}) = InCurrent(i)
  <2>1. \A k \in Keys : current_batches[k] \in Seq(Frame)
    BY DEF TypeOK
  <2>2. {k \in Keys : Has(current_batches[k], i)} = {k \in Keys : current_batches[k] \in BatchesOf(i)}
    BY <2>1 DEF BatchesOf
  <2> QED
    BY <2>2 DEF InCurrent
<1>8. Cardinality({p \in Publishers : batch[p] # NoBatch /\ Has(batch[p], i)}) = InSender(i)
  <2>1. \A p \in Publishers : batch[p] \in Seq(Frame) <=> batch[p] # NoBatch
    BY NoBatchFresh DEF NoBatchFresh, TypeOK
  <2>2. {p \in Publishers : batch[p] # NoBatch /\ Has(batch[p], i)}
        = {p \in Publishers : batch[p] \in BatchesOf(i)}
    BY <2>1 DEF BatchesOf
  <2> QED
    BY <2>2 DEF InSender
<1>9. Cardinality({b \in refused \cup dry_run : Has(b, i)}) = InEnded(i)
  <2>1. \A b \in refused \cup dry_run : b \in Seq(Frame)
    BY <1>1 DEF Known, Batches
  <2>2. {b \in refused \cup dry_run : Has(b, i)} = {b \in refused \cup dry_run : b \in BatchesOf(i)}
    BY <2>1 DEF BatchesOf
  <2> QED
    BY <2>2 DEF InEnded
<1>10. InFlight(i) = InQueue(i) + InThread(i) + InCurrent(i) + InBatchQueue(i) + InSender(i)
  BY <1>2, <1>5, <1>6, <1>7, <1>8 DEF InFlight
<1>11. Finished(i) = InRedis(i) + InEnded(i)
  BY <1>3, <1>9 DEF Finished
<1> QED
  BY <1>4, <1>10, <1>11, CountTypes DEF Copies

\* The account of every frame gives both properties.
LEMMA AccountedMeans ==
  ASSUME TypeOK, Accounted
  PROVE  DuplicatesOnlyAfterLostReply /\ NothingLostWhileOpen
<1>1. IsFiniteSet(refused \cup dry_run) /\ \A i \in 1..arrived : AccountOf(i)
  BY DEF Accounted
<1>2. \A i \in 1..arrived :
        /\ InFlight(i) + Finished(i) = Copies(i) /\ CountIn(lost_replies, i) = InLost(i)
        /\ Copies(i) \in Nat /\ InLost(i) \in Nat
  BY <1>1, CopiesAre
<1>3. DuplicatesOnlyAfterLostReply
  BY <1>1, <1>2 DEF AccountOf, DuplicatesOnlyAfterLostReply
<1>4. NothingLostWhileOpen
  <2>1. SUFFICES ASSUME ~batch_queue_.stopped, NEW i \in 1..arrived
                 PROVE Copies(i) >= 1 + InLost(i)
    BY <1>2 DEF NothingLostWhileOpen
  <2>2. Copies(i) = 1 + InLost(i)
    BY <1>1, <2>1 DEF AccountOf
  <2> QED
    BY <1>2, <2>2
<1> QED
  BY <1>3, <1>4

\* No frame has arrived.
LEMMA AccountedInitially == Init => Accounted
<1> SUFFICES ASSUME Init PROVE Accounted
  OBVIOUS
<1>1. 1..arrived = {} /\ refused \cup dry_run = {}
  BY DEF Init
<1> QED
  BY <1>1, FS_EmptySet DEF Accounted

\* How each place's count changes.
LEMMA SenderCount ==
  ASSUME TypeOK, NEW i, NEW k \in Publishers, NEW v, batch' = [batch EXCEPT ![k] = v]
  PROVE  /\ InSender(i)' \in Nat
         /\ InSender(i)' + Indicator(batch[k], BatchesOf(i)) = InSender(i) + Indicator(v, BatchesOf(i))
<1>1. IsFiniteSet(Publishers)
  BY NumPublishersPos, FS_Interval DEF NumPublishersPos, Publishers
<1>2. batch'[k] = v /\ \A q \in Publishers : q # k => batch'[q] = batch[q]
  BY DEF TypeOK
<1>3. PICK A, B : /\ A = {q \in Publishers : batch[q] \in BatchesOf(i)}
                  /\ B = {q \in Publishers : batch'[q] \in BatchesOf(i)}
  OBVIOUS
<1>4. IsFiniteSet(A) /\ IsFiniteSet(B)
  BY <1>1, <1>3, FS_Subset
<1>5. A \ {k} = B \ {k}
  BY <1>2, <1>3
<1>6. (k \in A <=> batch[k] \in BatchesOf(i)) /\ (k \in B <=> v \in BatchesOf(i))
  BY <1>2, <1>3
<1>7. /\ Indicator(k, A) = Indicator(batch[k], BatchesOf(i))
      /\ Indicator(k, B) = Indicator(v, BatchesOf(i))
  BY <1>6 DEF Indicator
<1>8. Cardinality(B) \in Nat /\ Cardinality(B) + Indicator(k, A) = Cardinality(A) + Indicator(k, B)
  BY <1>4, <1>5, CountExcept
<1>9. InSender(i) = Cardinality(A) /\ InSender(i)' = Cardinality(B)
  BY <1>3 DEF InSender
<1> QED
  BY <1>7, <1>8, <1>9

\* The same for current_batches.
LEMMA CurrentCount ==
  ASSUME TypeOK, NEW i, NEW k \in Keys, NEW v, current_batches' = [current_batches EXCEPT ![k] = v]
  PROVE  /\ InCurrent(i)' \in Nat
         /\ InCurrent(i)' + Indicator(current_batches[k], BatchesOf(i)) = InCurrent(i) + Indicator(v, BatchesOf(i))
<1>1. IsFiniteSet(Keys)
  BY KeysNat DEF KeysNat
<1>2. current_batches'[k] = v /\ \A q \in Keys : q # k => current_batches'[q] = current_batches[q]
  BY DEF TypeOK
<1>3. PICK A, B : /\ A = {q \in Keys : current_batches[q] \in BatchesOf(i)}
                  /\ B = {q \in Keys : current_batches'[q] \in BatchesOf(i)}
  OBVIOUS
<1>4. IsFiniteSet(A) /\ IsFiniteSet(B)
  BY <1>1, <1>3, FS_Subset
<1>5. A \ {k} = B \ {k}
  BY <1>2, <1>3
<1>6. (k \in A <=> current_batches[k] \in BatchesOf(i)) /\ (k \in B <=> v \in BatchesOf(i))
  BY <1>2, <1>3
<1>7. /\ Indicator(k, A) = Indicator(current_batches[k], BatchesOf(i))
      /\ Indicator(k, B) = Indicator(v, BatchesOf(i))
  BY <1>6 DEF Indicator
<1>8. Cardinality(B) \in Nat /\ Cardinality(B) + Indicator(k, A) = Cardinality(A) + Indicator(k, B)
  BY <1>4, <1>5, CountExcept
<1>9. InCurrent(i) = Cardinality(A) /\ InCurrent(i)' = Cardinality(B)
  BY <1>3 DEF InCurrent
<1> QED
  BY <1>7, <1>8, <1>9

\* The same for a push on batch_queue_, which drops when stopped.
LEMMA BatchQueueCount ==
  ASSUME TypeOK, NEW i, NEW b \in Seq(Frame), batch_queue_' = Push(batch_queue_, b)
  PROVE  /\ InBatchQueue(i)' \in Nat
         /\ InBatchQueue(i)' <= InBatchQueue(i) + Indicator(b, BatchesOf(i))
         /\ ~batch_queue_.stopped =>
              InBatchQueue(i)' = InBatchQueue(i) + Indicator(b, BatchesOf(i))
<1>1. /\ batch_queue_ \in Queue(Seq(Frame)) /\ batch_queue_.items \in Seq(Seq(Frame))
      /\ batch_queue_.stopped => batch_queue_' = batch_queue_
      /\ ~batch_queue_.stopped => batch_queue_'.items = Append(batch_queue_.items, b)
  BY TypeFacts, PushBatch DEF Queue
<1>2. Indicator(b, BatchesOf(i)) \in Nat /\ InBatchQueue(i) \in Nat
  BY <1>1, IndicatorType, CountType DEF InBatchQueue
<1>3. CASE batch_queue_.stopped
  <2>1. InBatchQueue(i)' = InBatchQueue(i)
    BY <1>1, <1>3 DEF InBatchQueue
  <2> QED
    BY <1>2, <1>3, <2>1
<1>4. CASE ~batch_queue_.stopped
  <2>1. CountOf(Append(batch_queue_.items, b), BatchesOf(i))
          = CountOf(batch_queue_.items, BatchesOf(i)) + Indicator(b, BatchesOf(i))
    BY <1>1, CountAppend
  <2>2. InBatchQueue(i)' = InBatchQueue(i) + Indicator(b, BatchesOf(i))
    BY <1>1, <1>4, <2>1 DEF InBatchQueue
  <2> QED
    BY <1>2, <2>2
<1> QED
  BY <1>3, <1>4

\* The same for a pop of batch_queue_.
LEMMA BatchPopCount ==
  ASSUME TypeOK, NEW i, HasItem(batch_queue_), batch_queue_' = Pop(batch_queue_)
  PROVE  /\ InBatchQueue(i)' \in Nat
         /\ InBatchQueue(i) = InBatchQueue(i)' + Indicator(Oldest(batch_queue_), BatchesOf(i))
<1>1. /\ batch_queue_ \in Queue(Seq(Frame)) /\ batch_queue_.items \in Seq(Seq(Frame))
      /\ batch_queue_.items # <<>>
  BY TypeFacts DEF Queue, HasItem
<1>2. batch_queue_'.items = Tail(batch_queue_.items) /\ batch_queue_'.items \in Seq(Seq(Frame))
  BY <1>1, PopFacts DEF Queue
<1>3. CountOf(batch_queue_.items, BatchesOf(i))
        = CountOf(Tail(batch_queue_.items), BatchesOf(i)) + Indicator(Head(batch_queue_.items), BatchesOf(i))
  BY <1>1, CountTail
<1>4. CountOf(batch_queue_'.items, BatchesOf(i)) \in Nat
  BY <1>2, CountType
<1> QED
  BY <1>2, <1>3, <1>4 DEF InBatchQueue, Oldest

\* The same for an entry stored.
LEMMA RedisCount ==
  ASSUME TypeOK, NEW i, NEW b \in Seq(Frame), redis' = Append(redis, b)
  PROVE  InRedis(i)' = InRedis(i) + Indicator(b, BatchesOf(i))
<1>1. redis \in Seq(Seq(Frame))
  BY DEF TypeOK
<1>2. CountOf(Append(redis, b), BatchesOf(i)) = CountOf(redis, BatchesOf(i)) + Indicator(b, BatchesOf(i))
  BY <1>1, CountAppend
<1> QED
  BY <1>2 DEF InRedis

\* The same for a lost reply.
LEMMA LostCount ==
  ASSUME TypeOK, NEW i, NEW b \in Seq(Frame), lost_replies' = Append(lost_replies, b)
  PROVE  InLost(i)' = InLost(i) + Indicator(b, BatchesOf(i))
<1>1. lost_replies \in Seq(Seq(Frame))
  BY DEF TypeOK
<1>2. CountOf(Append(lost_replies, b), BatchesOf(i))
        = CountOf(lost_replies, BatchesOf(i)) + Indicator(b, BatchesOf(i))
  BY <1>1, CountAppend
<1> QED
  BY <1>2 DEF InLost

\* The same for a batch refused or discarded.
LEMMA EndedCount ==
  ASSUME IsFiniteSet(refused \cup dry_run), NEW i, NEW b,
         refused' \cup dry_run' = (refused \cup dry_run) \cup {b}, b \notin refused \cup dry_run
  PROVE  InEnded(i)' = InEnded(i) + Indicator(b, BatchesOf(i))
<1>1. PICK S, A, B : /\ S = refused \cup dry_run
                     /\ A = {c \in S : c \in BatchesOf(i)}
                     /\ B = {c \in S \cup {b} : c \in BatchesOf(i)}
  OBVIOUS
<1>2. Cardinality(B) = Cardinality(A) + Indicator(b, BatchesOf(i))
  BY <1>1, CountAdd
<1>3. InEnded(i) = Cardinality(A) /\ InEnded(i)' = Cardinality(B)
  BY <1>1 DEF InEnded
<1> QED
  BY <1>2, <1>3

\* A batch a thread holds has not been refused or discarded: of any of its
\* frames there would be two copies.
LEMMA HeldNotEnded ==
  ASSUME TypeOK, Formed, Accounted, NEW p \in Publishers, pc[p] = "send"
  PROVE  batch[p] \notin refused \cup dry_run
<1>1. PICK b : b = batch[p]
  OBVIOUS
<1>2. b \in Seq(Frame) /\ b \in Known /\ b # <<>>
  BY <1>1, BatchKnown, TypeFacts DEF IsBatch
<1>3. 1 \in DOMAIN b
  BY <1>2, EmptySeq, LenProperties
<1>4. PICK m : m = b[1].id
  OBVIOUS
<1>5. m \in 1..arrived /\ b \in BatchesOf(m)
  <2>1. b[1] \in Frame /\ Older(b[1])
    BY <1>2, <1>3, FrameOf DEF Formed, KnownOlder
  <2>2. m \in 1..MaxFrames /\ m < arrived + 1
    BY <1>4, <2>1 DEF Frame, Older, Waiting
  <2>3. b \in BatchesOf(m)
    BY <1>2, <1>3, <1>4 DEF BatchesOf, Has
  <2> QED
    BY <2>2, <2>3, BoundsNat DEF BoundsNat, TypeOK
<1>6. IsFiniteSet(refused \cup dry_run) /\ AccountOf(m)
  BY <1>5 DEF Accounted
<1>7. /\ InQueue(m) \in Nat /\ InThread(m) \in Nat /\ InCurrent(m) \in Nat
      /\ InBatchQueue(m) \in Nat /\ InSender(m) \in Nat /\ InRedis(m) \in Nat
      /\ InEnded(m) \in Nat /\ InLost(m) \in Nat
  BY <1>6, CountTypes
<1>8. InSender(m) # 0
  <2>1. IsFiniteSet(Publishers)
    BY NumPublishersPos, FS_Interval DEF NumPublishersPos, Publishers
  <2>2. IsFiniteSet({q \in Publishers : batch[q] \in BatchesOf(m)})
    BY <2>1, FS_Subset
  <2>3. p \in {q \in Publishers : batch[q] \in BatchesOf(m)}
    BY <1>1, <1>5
  <2> QED
    BY <2>2, <2>3, FS_EmptySet DEF InSender
<1>9. InEnded(m) = 0
  <2>1. Copies(m) <= 1 + InLost(m) /\ InLost(m) <= InRedis(m)
    BY <1>6 DEF AccountOf
  <2>2. Copies(m) = InQueue(m) + InThread(m) + InCurrent(m) + InBatchQueue(m) + InSender(m)
                    + InRedis(m) + InEnded(m)
    BY DEF Copies
  <2>3. PICK a \in Nat, b1 \in Nat, c \in Nat, d \in Nat, e \in Nat, f \in Nat, g \in Nat, l \in Nat :
          /\ a = InQueue(m) /\ b1 = InThread(m) /\ c = InCurrent(m) /\ d = InBatchQueue(m)
          /\ e = InSender(m) /\ f = InRedis(m) /\ g = InEnded(m) /\ l = InLost(m)
    BY <1>7
  <2>4. a + b1 + c + d + e + f + g <= 1 + l /\ l <= f /\ e # 0
    BY <1>8, <2>1, <2>2, <2>3
  <2>5. g = 0
    BY <2>4
  <2> QED
    BY <2>3, <2>5
<1>10. {c \in refused \cup dry_run : c \in BatchesOf(m)} = {}
  <2>1. IsFiniteSet({c \in refused \cup dry_run : c \in BatchesOf(m)})
    BY <1>6, FS_Subset
  <2> QED
    BY <1>9, <2>1, FS_EmptySet DEF InEnded
<1> QED
  BY <1>1, <1>5, <1>10

\* A step that moves copies towards batch_queue_, and one of a publisher thread.
LEMMA BatcherBalance ==
  ASSUME TypeOK, IsFiniteSet(refused \cup dry_run), NEW i, AccountOf(i),
         InQueue(i)' \in Nat, InThread(i)' \in Nat, InCurrent(i)' \in Nat, InBatchQueue(i)' \in Nat,
         InQueue(i)' + InThread(i)' + InCurrent(i)' + InBatchQueue(i)'
           = InQueue(i) + InThread(i) + InCurrent(i) + InBatchQueue(i),
         UNCHANGED <<batch, redis, refused, dry_run, lost_replies>>,
         batch_queue_'.stopped = batch_queue_.stopped
  PROVE  AccountOf(i)'
<1>1. PICK q \in Nat, t \in Nat, c \in Nat, w \in Nat, s \in Nat, r \in Nat, e \in Nat, l \in Nat :
        /\ q = InQueue(i) /\ t = InThread(i) /\ c = InCurrent(i) /\ w = InBatchQueue(i)
        /\ s = InSender(i) /\ r = InRedis(i) /\ e = InEnded(i) /\ l = InLost(i)
  BY CountTypes
<1>2. PICK q1 \in Nat, t1 \in Nat, c1 \in Nat, w1 \in Nat :
        q1 = InQueue(i)' /\ t1 = InThread(i)' /\ c1 = InCurrent(i)' /\ w1 = InBatchQueue(i)'
  OBVIOUS
<1>3. InSender(i)' = s /\ InRedis(i)' = r /\ InEnded(i)' = e /\ InLost(i)' = l
  BY <1>1 DEF InSender, InRedis, InEnded, InLost
<1>4. Copies(i) = q + t + c + w + s + r + e /\ Copies(i)' = q1 + t1 + c1 + w1 + s + r + e
  BY <1>1, <1>2, <1>3 DEF Copies
<1>5. q1 + t1 + c1 + w1 = q + t + c + w
  BY <1>1, <1>2
<1>6. q1 + t1 + c1 + w1 + s + r + e = q + t + c + w + s + r + e
  BY <1>5
<1>7. Copies(i)' = Copies(i) /\ InLost(i)' = InLost(i) /\ InRedis(i)' = InRedis(i)
  BY <1>1, <1>3, <1>4, <1>6
<1> QED
  BY <1>7 DEF AccountOf

\* It may drop a copy once batch_queue_ is stopped, and store one without a reply.
LEMMA SenderBalance ==
  ASSUME TypeOK, IsFiniteSet(refused \cup dry_run), NEW i, AccountOf(i),
         InBatchQueue(i)' \in Nat, InSender(i)' \in Nat, InRedis(i)' \in Nat,
         InEnded(i)' \in Nat, InLost(i)' \in Nat,
         InBatchQueue(i)' + InSender(i)' + InRedis(i)' + InEnded(i)' + InLost(i)
           <= InBatchQueue(i) + InSender(i) + InRedis(i) + InEnded(i) + InLost(i)',
         ~batch_queue_.stopped =>
           InBatchQueue(i)' + InSender(i)' + InRedis(i)' + InEnded(i)' + InLost(i)
             = InBatchQueue(i) + InSender(i) + InRedis(i) + InEnded(i) + InLost(i)',
         InRedis(i) + InLost(i)' <= InRedis(i)' + InLost(i),
         UNCHANGED <<processed_frame_queue_, d_frame, current_batches>>,
         batch_queue_'.stopped = batch_queue_.stopped
  PROVE  AccountOf(i)'
<1>1. PICK q \in Nat, t \in Nat, c \in Nat, w \in Nat, s \in Nat, r \in Nat, e \in Nat, l \in Nat :
        /\ q = InQueue(i) /\ t = InThread(i) /\ c = InCurrent(i) /\ w = InBatchQueue(i)
        /\ s = InSender(i) /\ r = InRedis(i) /\ e = InEnded(i) /\ l = InLost(i)
  BY CountTypes
<1>2. PICK w1 \in Nat, s1 \in Nat, r1 \in Nat, e1 \in Nat, l1 \in Nat :
        /\ w1 = InBatchQueue(i)' /\ s1 = InSender(i)' /\ r1 = InRedis(i)'
        /\ e1 = InEnded(i)' /\ l1 = InLost(i)'
  OBVIOUS
<1>3. InQueue(i)' = q /\ InThread(i)' = t /\ InCurrent(i)' = c
  BY <1>1 DEF InQueue, InThread, InCurrent
<1>4. Copies(i) = q + t + c + w + s + r + e /\ Copies(i)' = q + t + c + w1 + s1 + r1 + e1
  BY <1>1, <1>2, <1>3 DEF Copies
<1>5. /\ q + t + c + w + s + r + e <= 1 + l /\ l <= r
      /\ ~batch_queue_.stopped => q + t + c + w + s + r + e = 1 + l
  BY <1>1, <1>4 DEF AccountOf
<1>6. /\ w1 + s1 + r1 + e1 + l <= w + s + r + e + l1 /\ r + l1 <= r1 + l
      /\ ~batch_queue_.stopped => w1 + s1 + r1 + e1 + l = w + s + r + e + l1
  BY <1>1, <1>2
<1>7. l1 <= r1 /\ q + t + c + w1 + s1 + r1 + e1 <= 1 + l1
  BY <1>5, <1>6
<1>8. ASSUME ~batch_queue_.stopped
      PROVE  q + t + c + w1 + s1 + r1 + e1 = 1 + l1
  BY <1>5, <1>6, <1>8
<1> QED
  BY <1>2, <1>4, <1>7, <1>8 DEF AccountOf

\* One case per action of publisher_loop.
LEMMA SenderAccounted ==
  ASSUME TypeOK, Formed, Accounted, NEW p \in Publishers, publisher_loop(p)
  PROVE  Accounted'
<1>1. /\ IsFiniteSet(refused \cup dry_run) /\ \A i \in 1..arrived : AccountOf(i)
      /\ batch_queue_ \in Queue(Seq(Frame)) /\ batch \in [Publishers -> {NoBatch} \cup Seq(Frame)]
      /\ LocalsAgree
  BY TypeFacts DEF Accounted, TypeOK
<1>2. /\ UNCHANGED <<processed_frame_queue_, d_frame, current_batches>> /\ arrived' = arrived
  BY DEF publisher_loop, CheckStop, PopBatch, DryRun, Reconnect, ReconnectFails,
    XaddStored, XaddErrorReply, XaddNotSent, XaddReplyLost, Release, batcherVars
<1>3. \A i : /\ InBatchQueue(i) \in Nat /\ InSender(i) \in Nat /\ InRedis(i) \in Nat
             /\ InEnded(i) \in Nat /\ InLost(i) \in Nat
  BY <1>1, CountTypes
<1>4. \A i : Indicator(NoBatch, BatchesOf(i)) = 0
  BY NoBatchFresh DEF NoBatchFresh, BatchesOf, Indicator
<1>5. CASE CheckStop(p) \/ Reconnect(p)
  <2>1. UNCHANGED <<batch_queue_, batch, redis, refused, dry_run, lost_replies>>
    BY <1>5 DEF CheckStop, Reconnect
  <2>2. \A i : AccountOf(i)' <=> AccountOf(i)
    BY <1>2, <2>1 DEF AccountOf, Copies, InQueue, InThread, InCurrent, InBatchQueue,
      InSender, InRedis, InEnded, InLost
  <2> QED
    BY <1>1, <1>2, <2>1, <2>2 DEF Accounted
<1>6. CASE PopBatch(p)
  <2>1. UNCHANGED <<redis, refused, dry_run, lost_replies>> /\ pc[p] = "pop"
    BY <1>6 DEF PopBatch
  <2>2. \A i : InRedis(i)' = InRedis(i) /\ InEnded(i)' = InEnded(i) /\ InLost(i)' = InLost(i)
    BY <2>1 DEF InRedis, InEnded, InLost
  <2>3. CASE HasItem(batch_queue_)
    <3>1. PICK b : b = Oldest(batch_queue_)
      OBVIOUS
    <3>2. batch' = [batch EXCEPT ![p] = b] /\ batch_queue_' = Pop(batch_queue_)
      BY <1>6, <2>3, <3>1 DEF PopBatch, Drained, HasItem
    <3>3. batch[p] = NoBatch /\ batch_queue_'.stopped = batch_queue_.stopped
      BY <1>1, <2>1, <2>3, <3>2, PopFacts DEF LocalsAgree
    <3>4. ASSUME NEW i \in 1..arrived PROVE AccountOf(i)'
      <4>1. PICK m \in Nat : m = Indicator(b, BatchesOf(i))
        BY IndicatorType
      <4>2. InBatchQueue(i)' \in Nat /\ InBatchQueue(i) = InBatchQueue(i)' + m
        BY <2>3, <3>1, <3>2, <4>1, BatchPopCount
      <4>3. InSender(i)' \in Nat /\ InSender(i)' + 0 = InSender(i) + m
        BY <1>4, <3>2, <3>3, <4>1, SenderCount
      <4>4. PICK w \in Nat, s \in Nat, r \in Nat, e \in Nat, l \in Nat, w1 \in Nat, s1 \in Nat :
              /\ w = InBatchQueue(i) /\ s = InSender(i) /\ r = InRedis(i) /\ e = InEnded(i)
              /\ l = InLost(i) /\ w1 = InBatchQueue(i)' /\ s1 = InSender(i)'
        BY <1>3, <4>2, <4>3
      <4>5. w = w1 + m /\ s1 = s + m
        BY <4>2, <4>3, <4>4
      <4>6. w1 + s1 + r + e + l = w + s + r + e + l
        BY <4>5
      <4>7. /\ InBatchQueue(i)' + InSender(i)' + InRedis(i)' + InEnded(i)' + InLost(i)
                 = InBatchQueue(i) + InSender(i) + InRedis(i) + InEnded(i) + InLost(i)'
            /\ InBatchQueue(i)' + InSender(i)' + InRedis(i)' + InEnded(i)' + InLost(i)
                 <= InBatchQueue(i) + InSender(i) + InRedis(i) + InEnded(i) + InLost(i)'
            /\ InRedis(i) + InLost(i)' <= InRedis(i)' + InLost(i)
        BY <2>2, <4>4, <4>6
      <4> QED
        BY <1>1, <1>2, <1>3, <2>2, <3>3, <4>2, <4>3, <4>7, SenderBalance
    <3> QED
      BY <1>1, <1>2, <2>1, <3>4 DEF Accounted
  <2>4. CASE ~HasItem(batch_queue_)
    <3>1. UNCHANGED <<batch_queue_, batch>>
      BY <1>6, <2>4 DEF PopBatch
    <3>2. \A i : AccountOf(i)' <=> AccountOf(i)
      BY <1>2, <2>1, <3>1 DEF AccountOf, Copies, InQueue, InThread, InCurrent, InBatchQueue,
        InSender, InRedis, InEnded, InLost
    <3> QED
      BY <1>1, <1>2, <2>1, <3>2 DEF Accounted
  <2> QED
    BY <2>3, <2>4
<1>7. ASSUME pc[p] = "send", Release(p),
             \A i : /\ InBatchQueue(i)' \in Nat /\ InRedis(i)' \in Nat
                    /\ InEnded(i)' \in Nat /\ InLost(i)' \in Nat,
             \A i : /\ InBatchQueue(i)' + InRedis(i)' + InEnded(i)' + InLost(i)
                         <= InBatchQueue(i) + InRedis(i) + InEnded(i) + InLost(i)'
                            + Indicator(batch[p], BatchesOf(i))
                    /\ ~batch_queue_.stopped =>
                         InBatchQueue(i)' + InRedis(i)' + InEnded(i)' + InLost(i)
                           = InBatchQueue(i) + InRedis(i) + InEnded(i) + InLost(i)'
                             + Indicator(batch[p], BatchesOf(i))
                    /\ InRedis(i) + InLost(i)' <= InRedis(i)' + InLost(i),
             refused' \cup dry_run' \subseteq (refused \cup dry_run) \cup {batch[p]},
             batch_queue_'.stopped = batch_queue_.stopped
      PROVE  Accounted'
  <2>1. IsFiniteSet(refused' \cup dry_run')
    <3>1. IsFiniteSet((refused \cup dry_run) \cup {batch[p]})
      BY <1>1, FS_AddElement
    <3> QED
      BY <1>7, <3>1, FS_Subset
  <2>2. batch' = [batch EXCEPT ![p] = NoBatch]
    BY <1>7 DEF Release
  <2>3. ASSUME NEW i \in 1..arrived PROVE AccountOf(i)'
    <3>1. PICK m \in Nat : m = Indicator(batch[p], BatchesOf(i))
      BY IndicatorType
    <3>2. InSender(i)' \in Nat /\ InSender(i)' + m = InSender(i) + 0
      BY <1>4, <2>2, <3>1, SenderCount
    <3>3. PICK w \in Nat, s \in Nat, r \in Nat, e \in Nat, l \in Nat :
            /\ w = InBatchQueue(i) /\ s = InSender(i) /\ r = InRedis(i) /\ e = InEnded(i)
            /\ l = InLost(i)
      BY <1>3
    <3>4. PICK w1 \in Nat, s1 \in Nat, r1 \in Nat, e1 \in Nat, l1 \in Nat :
            /\ w1 = InBatchQueue(i)' /\ s1 = InSender(i)' /\ r1 = InRedis(i)'
            /\ e1 = InEnded(i)' /\ l1 = InLost(i)'
      BY <1>7, <3>2
    <3>5. /\ s1 + m = s
          /\ w1 + r1 + e1 + l <= w + r + e + l1 + m /\ r + l1 <= r1 + l
          /\ ~batch_queue_.stopped => w1 + r1 + e1 + l = w + r + e + l1 + m
      BY <1>7, <3>1, <3>2, <3>3, <3>4
    <3>6. w1 + s1 + r1 + e1 + l <= w + s + r + e + l1
      BY <3>5
    <3>7. ASSUME ~batch_queue_.stopped PROVE w1 + s1 + r1 + e1 + l = w + s + r + e + l1
      BY <3>5, <3>7
    <3>8. /\ InBatchQueue(i)' + InSender(i)' + InRedis(i)' + InEnded(i)' + InLost(i)
               <= InBatchQueue(i) + InSender(i) + InRedis(i) + InEnded(i) + InLost(i)'
          /\ ~batch_queue_.stopped =>
               InBatchQueue(i)' + InSender(i)' + InRedis(i)' + InEnded(i)' + InLost(i)
                 = InBatchQueue(i) + InSender(i) + InRedis(i) + InEnded(i) + InLost(i)'
      BY <3>3, <3>4, <3>6, <3>7
    <3> QED
      BY <1>1, <1>2, <1>7, <3>2, <3>8, SenderBalance
  <2> QED
    BY <1>2, <2>1, <2>3 DEF Accounted
<1>8. ASSUME pc[p] = "send"
      PROVE  /\ batch[p] \in Seq(Frame) /\ batch[p] \notin refused \cup dry_run
             /\ \A i : Indicator(batch[p], BatchesOf(i)) \in Nat
  BY <1>8, BatchKnown, HeldNotEnded, IndicatorType
<1>9. CASE DryRun(p) \/ XaddErrorReply(p)
  <2>1. /\ pc[p] = "send" /\ Release(p) /\ UNCHANGED <<batch_queue_, redis, lost_replies>>
        /\ refused' \cup dry_run' = (refused \cup dry_run) \cup {batch[p]}
    BY <1>9 DEF DryRun, XaddErrorReply, Sending
  <2>2. \A i : /\ InBatchQueue(i)' = InBatchQueue(i) /\ InRedis(i)' = InRedis(i)
               /\ InLost(i)' = InLost(i)
    BY <2>1 DEF InBatchQueue, InRedis, InLost
  <2>3. \A i : InEnded(i)' = InEnded(i) + Indicator(batch[p], BatchesOf(i))
    BY <1>1, <1>8, <2>1, EndedCount
  <2>4. ASSUME NEW i
        PROVE  /\ InEnded(i)' \in Nat
               /\ InBatchQueue(i) + InRedis(i) + InEnded(i)' + InLost(i)
                    = InBatchQueue(i) + InRedis(i) + InEnded(i) + InLost(i)
                      + Indicator(batch[p], BatchesOf(i))
               /\ InBatchQueue(i) + InRedis(i) + InEnded(i)' + InLost(i)
                    <= InBatchQueue(i) + InRedis(i) + InEnded(i) + InLost(i)
                       + Indicator(batch[p], BatchesOf(i))
    <3>1. PICK m \in Nat, w \in Nat, r \in Nat, e \in Nat, l \in Nat :
            /\ w = InBatchQueue(i) /\ r = InRedis(i) /\ e = InEnded(i) /\ l = InLost(i)
            /\ m = Indicator(batch[p], BatchesOf(i))
      BY <1>3, <1>8, <2>1
    <3>2. InEnded(i)' = e + m
      BY <2>3, <3>1
    <3> QED
      BY <3>1, <3>2
  <2> QED
    BY <1>3, <1>7, <2>1, <2>2, <2>4
<1>10. CASE XaddStored(p)
  <2>1. /\ pc[p] = "send" /\ Release(p) /\ redis' = Append(redis, batch[p])
        /\ UNCHANGED <<batch_queue_, refused, dry_run, lost_replies>>
    BY <1>10 DEF XaddStored, Sending
  <2>2. \A i : /\ InBatchQueue(i)' = InBatchQueue(i) /\ InEnded(i)' = InEnded(i)
               /\ InLost(i)' = InLost(i)
    BY <2>1 DEF InBatchQueue, InEnded, InLost
  <2>3. \A i : InRedis(i)' = InRedis(i) + Indicator(batch[p], BatchesOf(i))
    BY <1>8, <2>1, RedisCount
  <2>4. ASSUME NEW i
        PROVE  /\ InRedis(i)' \in Nat
               /\ InBatchQueue(i) + InRedis(i)' + InEnded(i) + InLost(i)
                    = InBatchQueue(i) + InRedis(i) + InEnded(i) + InLost(i)
                      + Indicator(batch[p], BatchesOf(i))
               /\ InBatchQueue(i) + InRedis(i)' + InEnded(i) + InLost(i)
                    <= InBatchQueue(i) + InRedis(i) + InEnded(i) + InLost(i)
                       + Indicator(batch[p], BatchesOf(i))
               /\ InRedis(i) + InLost(i) <= InRedis(i)' + InLost(i)
    <3>1. PICK m \in Nat, w \in Nat, r \in Nat, e \in Nat, l \in Nat :
            /\ w = InBatchQueue(i) /\ r = InRedis(i) /\ e = InEnded(i) /\ l = InLost(i)
            /\ m = Indicator(batch[p], BatchesOf(i))
      BY <1>3, <1>8, <2>1
    <3>2. InRedis(i)' = r + m
      BY <2>3, <3>1
    <3> QED
      BY <3>1, <3>2
  <2> QED
    BY <1>3, <1>7, <2>1, <2>2, <2>4
<1>11. ASSUME pc[p] = "send", Requeue(p)
       PROVE  /\ batch_queue_'.stopped = batch_queue_.stopped
              /\ \A i : /\ InBatchQueue(i)' \in Nat
                        /\ InBatchQueue(i)' <= InBatchQueue(i) + Indicator(batch[p], BatchesOf(i))
                        /\ ~batch_queue_.stopped =>
                             InBatchQueue(i)' = InBatchQueue(i) + Indicator(batch[p], BatchesOf(i))
  <2>1. PICK b \in Seq(Frame) : b = batch[p]
    BY <1>8, <1>11
  <2>2. batch_queue_' = Push(batch_queue_, b)
    BY <1>11, <2>1 DEF Requeue
  <2>3. batch_queue_'.stopped = batch_queue_.stopped
    BY <1>1, <2>2, PushBatch
  <2> QED
    BY <2>1, <2>2, <2>3, BatchQueueCount
<1>12. CASE ReconnectFails(p) \/ XaddNotSent(p)
  <2>1. /\ pc[p] = "send" /\ Release(p) /\ Requeue(p)
        /\ UNCHANGED <<redis, refused, dry_run, lost_replies>>
    BY <1>12 DEF ReconnectFails, XaddNotSent, Sending
  <2>2. \A i : InRedis(i)' = InRedis(i) /\ InEnded(i)' = InEnded(i) /\ InLost(i)' = InLost(i)
    BY <2>1 DEF InRedis, InEnded, InLost
  <2>3. ASSUME NEW i
        PROVE  /\ InBatchQueue(i)' \in Nat
               /\ InBatchQueue(i)' + InRedis(i) + InEnded(i) + InLost(i)
                    <= InBatchQueue(i) + InRedis(i) + InEnded(i) + InLost(i)
                       + Indicator(batch[p], BatchesOf(i))
               /\ ~batch_queue_.stopped =>
                    InBatchQueue(i)' + InRedis(i) + InEnded(i) + InLost(i)
                      = InBatchQueue(i) + InRedis(i) + InEnded(i) + InLost(i)
                        + Indicator(batch[p], BatchesOf(i))
    <3>1. PICK m \in Nat, w \in Nat, r \in Nat, e \in Nat, l \in Nat, w1 \in Nat :
            /\ w = InBatchQueue(i) /\ r = InRedis(i) /\ e = InEnded(i) /\ l = InLost(i)
            /\ m = Indicator(batch[p], BatchesOf(i)) /\ w1 = InBatchQueue(i)'
      BY <1>3, <1>8, <1>11, <2>1
    <3>2. w1 <= w + m /\ (~batch_queue_.stopped => w1 = w + m)
      BY <1>11, <2>1, <3>1
    <3>3. w1 + r + e + l <= w + r + e + l + m
      BY <3>2
    <3>4. ASSUME ~batch_queue_.stopped PROVE w1 + r + e + l = w + r + e + l + m
      BY <3>2, <3>4
    <3> QED
      BY <3>1, <3>3, <3>4
  <2> QED
    BY <1>3, <1>7, <1>11, <2>1, <2>2, <2>3
<1>13. CASE XaddReplyLost(p)
  <2>1. /\ pc[p] = "send" /\ Release(p) /\ Requeue(p) /\ redis' = Append(redis, batch[p])
        /\ lost_replies' = Append(lost_replies, batch[p]) /\ UNCHANGED <<refused, dry_run>>
    BY <1>13 DEF XaddReplyLost, Sending
  <2>2. \A i : /\ InRedis(i)' = InRedis(i) + Indicator(batch[p], BatchesOf(i))
               /\ InLost(i)' = InLost(i) + Indicator(batch[p], BatchesOf(i))
    BY <1>8, <2>1, RedisCount, LostCount
  <2>3. \A i : InEnded(i)' = InEnded(i)
    BY <2>1 DEF InEnded
  <2>4. ASSUME NEW i
        PROVE  /\ InBatchQueue(i)' \in Nat /\ InRedis(i)' \in Nat /\ InLost(i)' \in Nat
               /\ InBatchQueue(i)' + InRedis(i)' + InEnded(i) + InLost(i)
                    <= InBatchQueue(i) + InRedis(i) + InEnded(i) + InLost(i)'
                       + Indicator(batch[p], BatchesOf(i))
               /\ ~batch_queue_.stopped =>
                    InBatchQueue(i)' + InRedis(i)' + InEnded(i) + InLost(i)
                      = InBatchQueue(i) + InRedis(i) + InEnded(i) + InLost(i)'
                        + Indicator(batch[p], BatchesOf(i))
               /\ InRedis(i) + InLost(i)' <= InRedis(i)' + InLost(i)
    <3>1. PICK m \in Nat, w \in Nat, r \in Nat, e \in Nat, l \in Nat, w1 \in Nat :
            /\ w = InBatchQueue(i) /\ r = InRedis(i) /\ e = InEnded(i) /\ l = InLost(i)
            /\ m = Indicator(batch[p], BatchesOf(i)) /\ w1 = InBatchQueue(i)'
      BY <1>3, <1>8, <1>11, <2>1
    <3>2. w1 <= w + m /\ (~batch_queue_.stopped => w1 = w + m)
      BY <1>11, <2>1, <3>1
    <3>3. InRedis(i)' = r + m /\ InLost(i)' = l + m
      BY <2>2, <3>1
    <3>4. w1 + (r + m) + e + l <= w + r + e + (l + m) + m /\ r + (l + m) <= (r + m) + l
      BY <3>2
    <3>5. ASSUME ~batch_queue_.stopped PROVE w1 + (r + m) + e + l = w + r + e + (l + m) + m
      BY <3>2, <3>5
    <3>6. r + m \in Nat /\ l + m \in Nat
      OBVIOUS
    <3> QED
      BY <3>1, <3>3, <3>4, <3>5, <3>6
  <2> QED
    BY <1>3, <1>7, <1>11, <2>1, <2>3, <2>4
<1> QED
  BY <1>5, <1>6, <1>9, <1>10, <1>12, <1>13 DEF publisher_loop

\* Appending the frame to its batch leaves one copy of it: the batch had none.
LEMMA ExtendedHas ==
  ASSUME TypeOK, Formed, d_frame \in Frame, d_frame # NoFrame, NEW k, k = d_frame.key,
         NEW b, b = Append(current_batches[k], d_frame), NEW i
  PROVE  Indicator(b, BatchesOf(i)) = Indicator(current_batches[k], BatchesOf(i)) + InThread(i)
<1>1. k \in Keys
  BY FrameFields
<1>2. PICK s : s = current_batches[k]
  OBVIOUS
<1>3. PICK n : n = Len(s) + 1
  OBVIOUS
<1>4. s \in Seq(Frame)
  BY <1>1, <1>2 DEF TypeOK
<1>5. /\ b \in Seq(Frame) /\ DOMAIN b = DOMAIN s \cup {n} /\ b[n] = d_frame
      /\ \A j \in DOMAIN s : b[j] = s[j]
  BY <1>2, <1>3, <1>4, AppendProperties, LenProperties
<1>6. Has(b, i) <=> Has(s, i) \/ d_frame.id = i
  BY <1>5 DEF Has
<1>7. ~(Has(s, i) /\ d_frame.id = i)
  <2>1. SUFFICES ASSUME NEW j \in DOMAIN s PROVE s[j].id # d_frame.id
    BY DEF Has
  <2>2. s[j].id < d_frame.id /\ s[j].id \in Int /\ d_frame.id \in Int
    BY <1>1, <1>2, <1>4, FrameOf, FrameFields DEF Formed, CurrentOlder, Older
  <2> QED
    BY <2>2
<1>8. b \in BatchesOf(i) <=> s \in BatchesOf(i) \/ d_frame \in FramesOf(i)
  BY <1>4, <1>5, <1>6 DEF BatchesOf, FramesOf
<1>9. ~(s \in BatchesOf(i) /\ d_frame \in FramesOf(i))
  BY <1>7 DEF BatchesOf, FramesOf
<1> QED
  BY <1>2, <1>8, <1>9 DEF InThread, Indicator

\* The empty batch and NoFrame hold no frame.
LEMMA EmptyCount ==
  ASSUME NEW i
  PROVE  Indicator(<<>>, BatchesOf(i)) = 0 /\ Indicator(NoFrame, FramesOf(i)) = 0
<1>1. <<>> \notin BatchesOf(i)
  BY EmptySeq DEF BatchesOf, Has
<1>2. NoFrame \notin FramesOf(i)
  BY NoFrameFresh DEF NoFrameFresh, FramesOf
<1> QED
  BY <1>1, <1>2 DEF Indicator

\* One case per action of batching_loop.
LEMMA BatcherAccounted ==
  ASSUME Typed, Formed, Accounted, batching_loop
  PROVE  Accounted'
<1>1. /\ IsFiniteSet(refused \cup dry_run) /\ \A i \in 1..arrived : AccountOf(i)
      /\ batch_queue_ \in Queue(Seq(Frame)) /\ processed_frame_queue_ \in Queue(Frame)
      /\ TypeOK /\ LocalsAgree
  BY TypeFacts DEF Typed, Accounted
<1>2. /\ UNCHANGED <<batch, redis, refused, dry_run, lost_replies>> /\ arrived' = arrived
      /\ batcher # "exited"
  BY DEF batching_loop, BatcherCheckStop, BatcherPop, BatchFrame, FlushPartial, senderVars
<1>3. \A i : /\ InQueue(i) \in Nat /\ InThread(i) \in Nat /\ InCurrent(i) \in Nat
             /\ InBatchQueue(i) \in Nat
  BY <1>1, CountTypes
<1>4. ~batch_queue_.stopped
  BY <1>1, <1>2 DEF LocalsAgree
<1>5. ASSUME UNCHANGED <<processed_frame_queue_, batch_queue_, d_frame, current_batches>>
      PROVE  Accounted'
  <2>1. \A i : AccountOf(i)' <=> AccountOf(i)
    BY <1>2, <1>5 DEF AccountOf, Copies, InQueue, InThread, InCurrent, InBatchQueue,
      InSender, InRedis, InEnded, InLost
  <2> QED
    BY <1>1, <1>2, <2>1 DEF Accounted
<1>6. ASSUME batch_queue_'.stopped = batch_queue_.stopped,
             \A i \in 1..arrived :
               /\ InQueue(i)' \in Nat /\ InThread(i)' \in Nat /\ InCurrent(i)' \in Nat
               /\ InBatchQueue(i)' \in Nat
               /\ InQueue(i)' + InThread(i)' + InCurrent(i)' + InBatchQueue(i)'
                    = InQueue(i) + InThread(i) + InCurrent(i) + InBatchQueue(i)
      PROVE  Accounted'
  <2>1. \A i \in 1..arrived : AccountOf(i)'
    BY <1>1, <1>2, <1>6, BatcherBalance
  <2> QED
    BY <1>1, <1>2, <2>1 DEF Accounted
<1>7. CASE BatcherCheckStop
  BY <1>5, <1>7 DEF BatcherCheckStop
<1>8. CASE BatcherPop
  <2>1. CASE ~HasItem(processed_frame_queue_)
    BY <1>5, <1>8, <2>1 DEF BatcherPop
  <2>2. CASE HasItem(processed_frame_queue_)
    <3>1. /\ UNCHANGED <<batch_queue_, current_batches>> /\ d_frame = NoFrame
          /\ d_frame' = Oldest(processed_frame_queue_)
          /\ processed_frame_queue_' = Pop(processed_frame_queue_)
      BY <1>1, <1>8, <2>2 DEF BatcherPop, Drained, HasItem, LocalsAgree
    <3>2. PICK s, t, f : s = processed_frame_queue_.items /\ t = Tail(s) /\ f = Head(s)
      OBVIOUS
    <3>3. /\ processed_frame_queue_'.items = t /\ d_frame' = f
          /\ s \in Seq(Frame) /\ s # <<>> /\ t \in Seq(Frame)
      BY <1>1, <2>2, <3>1, <3>2, PopFacts DEF Queue, Oldest, HasItem
    <3>4. ASSUME NEW i \in 1..arrived
          PROVE  /\ InQueue(i)' \in Nat /\ InThread(i)' \in Nat /\ InCurrent(i)' \in Nat
                 /\ InBatchQueue(i)' \in Nat
                 /\ InQueue(i)' + InThread(i)' + InCurrent(i)' + InBatchQueue(i)'
                      = InQueue(i) + InThread(i) + InCurrent(i) + InBatchQueue(i)
      <4>1. PICK m \in Nat : m = Indicator(f, FramesOf(i))
        BY IndicatorType
      <4>2. CountOf(s, FramesOf(i)) = CountOf(t, FramesOf(i)) + Indicator(f, FramesOf(i))
        BY <3>2, <3>3, CountTail
      <4>3. CountOf(t, FramesOf(i)) \in Nat
        BY <3>3, CountType
      <4>4. PICK q \in Nat, q1 \in Nat, c \in Nat, w \in Nat :
              q = InQueue(i) /\ q1 = InQueue(i)' /\ c = InCurrent(i) /\ w = InBatchQueue(i)
        BY <1>3, <3>3, <4>3 DEF InQueue
      <4>5. q = q1 + m
        BY <3>2, <3>3, <4>1, <4>2, <4>4 DEF InQueue
      <4>6. InThread(i) = 0 /\ InThread(i)' = m
        BY <3>1, <3>3, <4>1, EmptyCount DEF InThread
      <4>7. InCurrent(i)' = c /\ InBatchQueue(i)' = w
        BY <3>1, <4>4 DEF InCurrent, InBatchQueue
      <4>8. q1 + m + c + w = q + 0 + c + w
        BY <4>5
      <4> QED
        BY <4>4, <4>6, <4>7, <4>8
    <3> QED
      BY <1>6, <3>1, <3>4
  <2> QED
    BY <2>1, <2>2
<1>9. CASE BatchFrame
  <2>1. PICK k, b : k = d_frame.key /\ b = Append(current_batches[k], d_frame)
    OBVIOUS
  <2>2. /\ d_frame' = NoFrame /\ UNCHANGED processed_frame_queue_
        /\ d_frame \in Frame /\ d_frame # NoFrame
    BY <1>1, <1>9 DEF BatchFrame, TypeOK, LocalsAgree
  <2>3. k \in Keys /\ b \in Seq(Frame)
    BY <1>1, <2>1, <2>2, ExtendedBatch
  <2>4. \A i : Indicator(b, BatchesOf(i)) = Indicator(current_batches[k], BatchesOf(i)) + InThread(i)
    BY <1>1, <2>1, <2>2, ExtendedHas
  <2>5. \A i : InQueue(i)' = InQueue(i) /\ InThread(i)' = 0
    BY <2>2, EmptyCount DEF InQueue, InThread
  <2>6. CASE BatchFull(b, d_frame)
    <3>1. /\ batch_queue_' = Push(batch_queue_, b)
          /\ current_batches' = [current_batches EXCEPT ![k] = <<>>]
      BY <1>9, <2>1, <2>6 DEF BatchFrame
    <3>2. batch_queue_'.stopped = batch_queue_.stopped
      BY <1>1, <2>3, <3>1, PushBatch
    <3>3. ASSUME NEW i \in 1..arrived
          PROVE  /\ InQueue(i)' \in Nat /\ InThread(i)' \in Nat /\ InCurrent(i)' \in Nat
                 /\ InBatchQueue(i)' \in Nat
                 /\ InQueue(i)' + InThread(i)' + InCurrent(i)' + InBatchQueue(i)'
                      = InQueue(i) + InThread(i) + InCurrent(i) + InBatchQueue(i)
      <4>1. PICK x \in Nat, y \in Nat :
              x = Indicator(b, BatchesOf(i)) /\ y = Indicator(current_batches[k], BatchesOf(i))
        BY IndicatorType
      <4>2. InCurrent(i)' \in Nat /\ InCurrent(i)' + y = InCurrent(i) + 0
        BY <1>1, <2>3, <3>1, <4>1, CurrentCount, EmptyCount
      <4>3. InBatchQueue(i)' \in Nat /\ InBatchQueue(i)' = InBatchQueue(i) + x
        BY <1>1, <1>4, <2>3, <3>1, <4>1, BatchQueueCount
      <4>4. PICK q \in Nat, t \in Nat, c \in Nat, w \in Nat, c1 \in Nat, w1 \in Nat :
              /\ q = InQueue(i) /\ t = InThread(i) /\ c = InCurrent(i) /\ w = InBatchQueue(i)
              /\ c1 = InCurrent(i)' /\ w1 = InBatchQueue(i)'
        BY <1>3, <4>2, <4>3
      <4>5. c1 + y = c /\ w1 = w + x /\ x = y + t
        BY <2>4, <4>1, <4>2, <4>3, <4>4
      <4>6. q + 0 + c1 + w1 = q + t + c + w
        BY <4>5
      <4> QED
        BY <2>5, <4>4, <4>6
    <3> QED
      BY <1>6, <3>2, <3>3
  <2>7. CASE ~BatchFull(b, d_frame)
    <3>1. /\ batch_queue_' = batch_queue_
          /\ current_batches' = [current_batches EXCEPT ![k] = b]
      BY <1>9, <2>1, <2>7 DEF BatchFrame
    <3>2. ASSUME NEW i \in 1..arrived
          PROVE  /\ InQueue(i)' \in Nat /\ InThread(i)' \in Nat /\ InCurrent(i)' \in Nat
                 /\ InBatchQueue(i)' \in Nat
                 /\ InQueue(i)' + InThread(i)' + InCurrent(i)' + InBatchQueue(i)'
                      = InQueue(i) + InThread(i) + InCurrent(i) + InBatchQueue(i)
      <4>1. PICK x \in Nat, y \in Nat :
              x = Indicator(b, BatchesOf(i)) /\ y = Indicator(current_batches[k], BatchesOf(i))
        BY IndicatorType
      <4>2. InCurrent(i)' \in Nat /\ InCurrent(i)' + y = InCurrent(i) + x
        BY <1>1, <2>3, <3>1, <4>1, CurrentCount
      <4>3. InBatchQueue(i)' = InBatchQueue(i)
        BY <3>1 DEF InBatchQueue
      <4>4. PICK q \in Nat, t \in Nat, c \in Nat, w \in Nat, c1 \in Nat :
              /\ q = InQueue(i) /\ t = InThread(i) /\ c = InCurrent(i) /\ w = InBatchQueue(i)
              /\ c1 = InCurrent(i)'
        BY <1>3, <4>2
      <4>5. c1 + y = c + x /\ x = y + t
        BY <2>4, <4>1, <4>2, <4>4
      <4>6. q + 0 + c1 + w = q + t + c + w
        BY <4>5
      <4> QED
        BY <2>5, <4>3, <4>4, <4>6
    <3> QED
      BY <1>6, <3>1, <3>2
  <2> QED
    BY <2>6, <2>7
<1>10. CASE FlushPartial
  <2>1. CASE Partial = {}
    BY <1>5, <1>10, <2>1 DEF FlushPartial
  <2>2. CASE Partial # {}
    <3>1. PICK k : k = CHOOSE x \in Partial : \A y \in Partial : x <= y
      OBVIOUS
    <3>2. PICK b : b = current_batches[k]
      OBVIOUS
    <3>3. /\ batch_queue_' = Push(batch_queue_, b)
          /\ current_batches' = [current_batches EXCEPT ![k] = <<>>]
          /\ UNCHANGED <<processed_frame_queue_, d_frame>>
      BY <1>10, <2>2, <3>1, <3>2 DEF FlushPartial
    <3>4. k \in Keys /\ b \in Seq(Frame)
      BY <1>1, <2>2, <3>1, <3>2, FlushPicks DEF Partial, TypeOK
    <3>5. batch_queue_'.stopped = batch_queue_.stopped
      BY <1>1, <3>3, <3>4, PushBatch
    <3>6. \A i : InQueue(i)' = InQueue(i) /\ InThread(i)' = InThread(i)
      BY <3>3 DEF InQueue, InThread
    <3>7. ASSUME NEW i \in 1..arrived
          PROVE  /\ InQueue(i)' \in Nat /\ InThread(i)' \in Nat /\ InCurrent(i)' \in Nat
                 /\ InBatchQueue(i)' \in Nat
                 /\ InQueue(i)' + InThread(i)' + InCurrent(i)' + InBatchQueue(i)'
                      = InQueue(i) + InThread(i) + InCurrent(i) + InBatchQueue(i)
      <4>1. PICK x \in Nat : x = Indicator(b, BatchesOf(i))
        BY IndicatorType
      <4>2. InCurrent(i)' \in Nat /\ InCurrent(i)' + x = InCurrent(i) + 0
        BY <1>1, <3>2, <3>3, <3>4, <4>1, CurrentCount, EmptyCount
      <4>3. InBatchQueue(i)' \in Nat /\ InBatchQueue(i)' = InBatchQueue(i) + x
        BY <1>1, <1>4, <3>3, <3>4, <4>1, BatchQueueCount
      <4>4. PICK q \in Nat, t \in Nat, c \in Nat, w \in Nat, c1 \in Nat, w1 \in Nat :
              /\ q = InQueue(i) /\ t = InThread(i) /\ c = InCurrent(i) /\ w = InBatchQueue(i)
              /\ c1 = InCurrent(i)' /\ w1 = InBatchQueue(i)'
        BY <1>3, <4>2, <4>3
      <4>5. c1 + x = c /\ w1 = w + x
        BY <4>1, <4>2, <4>3, <4>4
      <4>6. q + t + c1 + w1 = q + t + c + w
        BY <4>5
      <4> QED
        BY <3>6, <4>4, <4>6
    <3> QED
      BY <1>6, <3>5, <3>7
  <2> QED
    BY <2>1, <2>2
<1> QED
  BY <1>7, <1>8, <1>9, <1>10 DEF batching_loop

\* There is no copy of a frame that has not arrived.
LEMMA NoCopyYet ==
  ASSUME TypeOK, Formed, NEW n, n = arrived + 1
  PROVE  /\ InQueue(n) = 0 /\ InThread(n) = 0 /\ InCurrent(n) = 0 /\ InBatchQueue(n) = 0
         /\ InSender(n) = 0 /\ InRedis(n) = 0 /\ InEnded(n) = 0 /\ InLost(n) = 0
<1>1. n \in Waiting /\ arrived \in Int /\ n \in Int
  BY BoundsNat DEF Waiting, TypeOK, BoundsNat
<1>2. \A f \in Frame : Older(f) => f.id # n
  BY <1>1, FrameFields DEF Older
<1>3. \A b \in Known : b \notin BatchesOf(n)
  <2>1. SUFFICES ASSUME NEW b \in Known, NEW j \in DOMAIN b, b \in Seq(Frame) PROVE b[j].id # n
    BY DEF BatchesOf, Has
  <2>2. b[j] \in Frame /\ Older(b[j])
    BY <2>1, FrameOf DEF Formed, KnownOlder
  <2> QED
    BY <1>2, <2>2
<1>4. Cardinality({}) = 0
  BY FS_EmptySet
<1>5. InQueue(n) = 0
  <2>1. processed_frame_queue_.items \in Seq(Frame)
    BY DEF TypeOK
  <2>2. ASSUME NEW j \in DOMAIN processed_frame_queue_.items
        PROVE  processed_frame_queue_.items[j] \notin FramesOf(n)
    <3>1. PICK f : f = processed_frame_queue_.items[j]
      OBVIOUS
    <3>2. f.id \in Int /\ f.id <= arrived
      BY <2>1, <3>1, FrameOf DEF Formed, QueueInOrder
    <3>3. f.id # n
      BY <1>1, <3>2
    <3> QED
      BY <3>1, <3>3 DEF FramesOf
  <2>3. {j \in DOMAIN processed_frame_queue_.items :
           processed_frame_queue_.items[j] \in FramesOf(n)} = {}
    BY <2>2
  <2> QED
    BY <1>4, <2>3 DEF InQueue, CountOf
<1>6. InThread(n) = 0
  <2>1. d_frame \notin FramesOf(n)
    <3>1. CASE d_frame = NoFrame
      BY <3>1, NoFrameFresh DEF NoFrameFresh, FramesOf
    <3>2. CASE d_frame # NoFrame
      <4>1. d_frame.id < n /\ d_frame \in Frame
        BY <1>1, <3>2 DEF Formed, QueueInOrder, TypeOK
      <4>2. d_frame.id # n
        BY <1>1, <4>1, FrameFields
      <4> QED
        BY <4>2 DEF FramesOf
    <3> QED
      BY <3>1, <3>2
  <2> QED
    BY <2>1 DEF InThread, Indicator
<1>7. InCurrent(n) = 0
  <2>1. ASSUME NEW k \in Keys PROVE current_batches[k] \notin BatchesOf(n)
    <3>1. PICK b : b = current_batches[k]
      OBVIOUS
    <3>2. SUFFICES ASSUME NEW j \in DOMAIN b PROVE b[j].id # n
      BY <3>1 DEF BatchesOf, Has
    <3>3. b[j] \in Frame /\ Older(b[j])
      BY <3>1, <3>2, FrameOf DEF Formed, CurrentOlder, TypeOK
    <3> QED
      BY <1>2, <3>3
  <2>2. {k \in Keys : current_batches[k] \in BatchesOf(n)} = {}
    BY <2>1
  <2> QED
    BY <1>4, <2>2 DEF InCurrent
<1>8. InBatchQueue(n) = 0
  <2>1. \A j \in DOMAIN batch_queue_.items : batch_queue_.items[j] \in Known
    BY DEF Known, Batches, Queued, ToSet
  <2>2. {j \in DOMAIN batch_queue_.items : batch_queue_.items[j] \in BatchesOf(n)} = {}
    BY <1>3, <2>1
  <2> QED
    BY <1>4, <2>2 DEF InBatchQueue, CountOf
<1>9. InSender(n) = 0
  <2>1. \A p \in Publishers : batch[p] = NoBatch \/ batch[p] \in Known
    BY DEF Known, Batches, Held
  <2>2. NoBatch \notin BatchesOf(n)
    BY NoBatchFresh DEF NoBatchFresh, BatchesOf
  <2>3. {p \in Publishers : batch[p] \in BatchesOf(n)} = {}
    BY <1>3, <2>1, <2>2
  <2> QED
    BY <1>4, <2>3 DEF InSender
<1>10. InRedis(n) = 0
  <2>1. \A j \in DOMAIN redis : redis[j] \in Known
    BY DEF Known, Batches, Stored, ToSet
  <2>2. {j \in DOMAIN redis : redis[j] \in BatchesOf(n)} = {}
    BY <1>3, <2>1
  <2> QED
    BY <1>4, <2>2 DEF InRedis, CountOf
<1>11. InEnded(n) = 0
  <2>1. {b \in refused \cup dry_run : b \in BatchesOf(n)} = {}
    BY <1>3 DEF Known, Batches
  <2> QED
    BY <1>4, <2>1 DEF InEnded
<1>12. InLost(n) = 0
  <2>1. \A j \in DOMAIN lost_replies : lost_replies[j] \in Known
    BY DEF Known, ToSet
  <2>2. {j \in DOMAIN lost_replies : lost_replies[j] \in BatchesOf(n)} = {}
    BY <1>3, <2>1
  <2> QED
    BY <1>4, <2>2 DEF InLost, CountOf
<1> QED
  BY <1>5, <1>6, <1>7, <1>8, <1>9, <1>10, <1>11, <1>12

\* A frame that arrives has one copy, in the input queue.
LEMMA ArriveAccounted ==
  ASSUME Typed, Formed, Accounted, NEW e \in EventConfigs, Arrive(e[1], e[2])
  PROVE  Accounted'
<1>1. /\ IsFiniteSet(refused \cup dry_run) /\ \A i \in 1..arrived : AccountOf(i)
      /\ processed_frame_queue_ \in Queue(Frame) /\ TypeOK
  BY TypeFacts DEF Typed, Accounted
<1>2. /\ UNCHANGED <<batch_queue_, d_frame, current_batches>>
      /\ UNCHANGED <<batch, redis, refused, dry_run, lost_replies>>
      /\ ~processed_frame_queue_.stopped
  BY DEF Arrive, publisherVars, batcherVars, senderVars
<1>3. PICK f : f = [id |-> arrived + 1, key |-> e[1], batch_size |-> e[2]]
  OBVIOUS
<1>4. f \in Frame /\ f.id = arrived + 1 /\ arrived \in Nat /\ arrived' = arrived + 1
  BY <1>1, <1>3, BoundsNat, EventConfigsTyped
  DEF BoundsNat, EventConfigsTyped, Arrive, TypeOK, Frame
<1>5. PICK s : s = processed_frame_queue_.items
  OBVIOUS
<1>6. processed_frame_queue_'.items = Append(s, f) /\ s \in Seq(Frame)
  BY <1>1, <1>2, <1>3, <1>4, <1>5, PushFrame DEF Arrive, Queue
<1>7. \A i : InQueue(i)' = InQueue(i) + Indicator(f, FramesOf(i))
  <2>1. \A i : CountOf(Append(s, f), FramesOf(i)) = CountOf(s, FramesOf(i)) + Indicator(f, FramesOf(i))
    BY <1>4, <1>6, CountAppend
  <2> QED
    BY <1>5, <1>6, <2>1 DEF InQueue
<1>8. \A i : /\ InThread(i)' = InThread(i) /\ InCurrent(i)' = InCurrent(i)
             /\ InBatchQueue(i)' = InBatchQueue(i) /\ InSender(i)' = InSender(i)
             /\ InRedis(i)' = InRedis(i) /\ InEnded(i)' = InEnded(i) /\ InLost(i)' = InLost(i)
  BY <1>2 DEF InThread, InCurrent, InBatchQueue, InSender, InRedis, InEnded, InLost
<1>9. ASSUME NEW i \in 1..arrived PROVE AccountOf(i)'
  <2>1. f \notin FramesOf(i)
    BY <1>4 DEF FramesOf
  <2>2. Indicator(f, FramesOf(i)) = 0
    BY <2>1 DEF Indicator
  <2>3. InQueue(i)' = InQueue(i)
    BY <1>1, <1>7, <2>2, CountTypes
  <2>4. Copies(i)' = Copies(i)
    BY <1>8, <2>3 DEF Copies
  <2> QED
    BY <1>1, <1>2, <1>8, <2>4 DEF AccountOf
<1>10. PICK n : n = arrived + 1
  OBVIOUS
<1>11. AccountOf(n)'
  <2>1. Indicator(f, FramesOf(n)) = 1
    BY <1>4, <1>10 DEF Indicator, FramesOf
  <2>2. /\ InQueue(n) = 0 /\ InThread(n) = 0 /\ InCurrent(n) = 0 /\ InBatchQueue(n) = 0
        /\ InSender(n) = 0 /\ InRedis(n) = 0 /\ InEnded(n) = 0 /\ InLost(n) = 0
    BY <1>1, <1>10, NoCopyYet
  <2>3. InQueue(n)' = 1
    BY <1>7, <2>1, <2>2
  <2>4. Copies(n)' = 1
    BY <1>8, <2>2, <2>3 DEF Copies
  <2> QED
    BY <1>8, <2>2, <2>4 DEF AccountOf
<1>12. 1..arrived' = (1..arrived) \cup {n}
  BY <1>4, <1>10
<1>13. \A i \in 1..arrived' : AccountOf(i)'
  BY <1>9, <1>11, <1>12
<1> QED
  BY <1>1, <1>2, <1>13 DEF Accounted

\* One case per action of Next.
LEMMA AccountedPreserved == Typed /\ Formed /\ Accounted /\ [Next]_vars => Accounted'
<1> SUFFICES ASSUME Typed, Formed, Accounted, [Next]_vars PROVE Accounted'
  OBVIOUS
<1>1. TypeOK /\ batch_queue_ \in Queue(Seq(Frame)) /\ processed_frame_queue_ \in Queue(Frame)
  BY TypeFacts DEF Typed
<1>2. ASSUME UNCHANGED <<d_frame, current_batches, arrived>>,
             UNCHANGED <<batch, redis, refused, dry_run, lost_replies>>,
             processed_frame_queue_'.items = processed_frame_queue_.items,
             batch_queue_'.items = batch_queue_.items,
             batch_queue_.stopped => batch_queue_'.stopped
      PROVE  Accounted'
  <2>1. \A i : /\ InQueue(i)' = InQueue(i) /\ InThread(i)' = InThread(i)
               /\ InCurrent(i)' = InCurrent(i) /\ InBatchQueue(i)' = InBatchQueue(i)
               /\ InSender(i)' = InSender(i) /\ InRedis(i)' = InRedis(i)
               /\ InEnded(i)' = InEnded(i) /\ InLost(i)' = InLost(i)
    BY <1>2 DEF InQueue, InThread, InCurrent, InBatchQueue, InSender, InRedis, InEnded, InLost
  <2>2. \A i : Copies(i)' = Copies(i)
    BY <2>1 DEF Copies
  <2>3. \A i : AccountOf(i) => AccountOf(i)'
    BY <1>2, <2>1, <2>2 DEF AccountOf
  <2> QED
    BY <1>2, <2>3 DEF Accounted
<1>3. CASE \E e \in EventConfigs : Arrive(e[1], e[2])
  BY <1>3, ArriveAccounted
<1>4. CASE batching_loop
  BY <1>4, BatcherAccounted
<1>5. CASE \E p \in Publishers : publisher_loop(p)
  BY <1>1, <1>5, SenderAccounted
<1>6. CASE StopBatchQueue
  <2>1. batch_queue_'.items = batch_queue_.items /\ batch_queue_'.stopped = TRUE
    BY <1>1, <1>6, StopFacts DEF StopBatchQueue
  <2> QED
    BY <1>2, <1>6, <2>1 DEF StopBatchQueue, batcherVars, senderVars
<1>7. CASE StopProcessedQueue
  <2>1. processed_frame_queue_'.items = processed_frame_queue_.items
    <3>1. CASE processed_frame_queue_' = processed_frame_queue_
      BY <3>1
    <3>2. CASE processed_frame_queue_' = StopQueue(processed_frame_queue_)
      BY <1>1, <3>2, StopFacts
    <3> QED
      BY <1>7, <3>1, <3>2 DEF StopProcessedQueue
  <2> QED
    BY <1>2, <1>7, <2>1 DEF StopProcessedQueue, batcherVars, senderVars
<1>8. CASE RequestStopBatcher \/ JoinBatcher \/ RequestStop \/ Join
  BY <1>2, <1>8 DEF RequestStopBatcher, JoinBatcher, RequestStop, Join, senderVars, batcherVars
<1>9. CASE UNCHANGED vars
  BY <1>2, <1>9 DEF vars, publisherVars, senderVars, batcherVars
<1> QED
  BY <1>3, <1>4, <1>5, <1>6, <1>7, <1>8, <1>9 DEF Next, stop, Terminated

\* The inductive invariant is Typed, Formed and Accounted together.
LEMMA AccountedAlways == Spec => [](TypeOK /\ Accounted)
<1>1. Init => Typed /\ Formed /\ Accounted
  BY TypedInitially, FormedInitially, AccountedInitially
<1>2. Typed /\ Formed /\ Accounted /\ [Next]_vars => (Typed /\ Formed /\ Accounted)'
  BY TypedPreserved, FormedPreserved, AccountedPreserved
<1>3. Typed /\ Formed /\ Accounted => TypeOK /\ Accounted
  BY DEF Typed
<1> QED
  BY <1>1, <1>2, <1>3, PTL DEF Spec

(***************************************************************************)
(* A frame is stored, or still on its way, in one copy plus one for each   *)
(* XADD that Redis executed but whose reply was lost: no retry, requeue,   *)
(* flush or reconnection of any publisher thread copies a frame, for any   *)
(* number of threads, frames and lost replies.                             *)
(***************************************************************************)
THEOREM DuplicatesBounded == Spec => []DuplicatesOnlyAfterLostReply
<1>1. TypeOK /\ Accounted => DuplicatesOnlyAfterLostReply
  BY AccountedMeans
<1> QED
  BY <1>1, AccountedAlways, PTL

(***************************************************************************)
(* As long as stop() has not closed batch_queue_, every frame that arrived *)
(* is in the input queue, with the batching thread, in a batch being       *)
(* filled, queued or held by a thread, or is stored, refused by Redis or   *)
(* discarded by the dry run: no failure of the connection loses it.        *)
(***************************************************************************)
THEOREM NothingLost == Spec => []NothingLostWhileOpen
<1>1. TypeOK /\ Accounted => NothingLostWhileOpen
  BY AccountedMeans
<1> QED
  BY <1>1, AccountedAlways, PTL
=============================================================================
