------------------------------ MODULE Publisher ------------------------------
(***************************************************************************)
(* The publisher of src/src/components/publisher/publisher.cpp: a batching *)
(* thread collects processed frames per stream and event and pushes full   *)
(* batches to batch_queue_; NumPublishers threads send them to Redis with  *)
(* XADD, putting a batch back at the tail of the queue when the connection *)
(* fails; stop() stops and joins the stages in turn.                       *)
(*                                                                         *)
(* A frame is a record with at least id, key (stream id and event name, a  *)
(* number so that std::map's order is defined) and batch_size.  A batch is *)
(* the sequence of its frames; their serialisation is left out.  Redis is  *)
(* external: "redis" is the sequence of entries XADD stored.               *)
(***************************************************************************)
EXTENDS Integers, FiniteSets, SequencesExt, FifoQueue

CONSTANTS NumPublishers,   \* FP_PUBLISHER_THREADS, at least 1
          Keys,            \* the stream_id and event_name pairs
          EventConfigs,    \* the keys paired with batch sizes their event may have
          NoFrame, NoBatch,
          MaxFrames,       \* bound on the number of processed frames
          MaxLostReplies   \* bound on XADDs executed whose reply is lost

ASSUME NumPublishersPos == NumPublishers \in Nat \ {0}
ASSUME KeysNat == Keys \subseteq Nat /\ IsFiniteSet(Keys)
ASSUME EventConfigsTyped == EventConfigs \subseteq Keys \X Int
ASSUME BoundsNat == MaxFrames \in Nat /\ MaxLostReplies \in Nat

VARIABLES
  processed_frame_queue_,  \* shared with Worker, which fills it
  batch_queue_,
  is_enabled_,      \* FP_REDIS_HOST is set
  dry_run_mode,     \* FP_PUBLISHER_DRY_RUN
  batcher,          \* pc of the batching thread: "loop", "pop", "frame", "flush", "exited"
  d_frame,          \* the frame the batching thread holds
  current_batches,  \* per key: the frames of the batch being filled, or <<>>
  pc,               \* per publisher thread: "loop", "pop", "send", "exited"
  batch,            \* per publisher thread: the batch it holds
  connected,        \* per publisher thread: redis_conn is valid
  batcher_stop, stop_requested,  \* the stop tokens of the jthreads
  stop_pc,          \* progress of stop()
  joined,           \* how many publisher threads are joined
  redis,            \* external: the batches XADD stored, in order
  refused,          \* history: batches answered with an error reply
  dry_run,          \* history: batches discarded in dry-run mode
  requeued,         \* history: batches put back at least once
  lost_replies,     \* history: batches stored without a reply, in order
  arrived           \* history: number of frames accepted from the workers

batcherVars == <<batcher, d_frame, current_batches, batcher_stop>>
senderVars == <<pc, batch, connected, stop_requested, redis, refused, dry_run,
                requeued, lost_replies>>
stopVars == <<stop_pc, joined, is_enabled_, dry_run_mode>>
publisherVars == <<batch_queue_, batcherVars, senderVars, stopVars>>
vars == <<processed_frame_queue_, publisherVars, arrived>>

Publishers == 1..NumPublishers

\* The constructor starts the threads only when a Redis host is configured.
\* Each publisher thread tries to connect before its loop.
Init ==
  /\ processed_frame_queue_ = EmptyQueue
  /\ batch_queue_ = EmptyQueue
  /\ is_enabled_ \in BOOLEAN
  /\ dry_run_mode \in BOOLEAN
  /\ batcher = IF is_enabled_ THEN "loop" ELSE "exited"
  /\ d_frame = NoFrame
  /\ current_batches = [k \in Keys |-> <<>>]
  /\ pc = [p \in Publishers |-> IF is_enabled_ THEN "loop" ELSE "exited"]
  /\ batch = [p \in Publishers |-> NoBatch]
  /\ connected \in [Publishers -> BOOLEAN]
  /\ batcher_stop = FALSE
  /\ stop_requested = [p \in Publishers |-> FALSE]
  /\ stop_pc = "no"
  /\ joined = 0
  /\ redis = <<>>
  /\ refused = {}
  /\ dry_run = {}
  /\ requeued = {}
  /\ lost_replies = <<>>
  /\ arrived = 0

-----------------------------------------------------------------------------
\* A worker pushes a processed frame; a stopped queue ignores it.
Arrive(k, n) ==
  /\ ~processed_frame_queue_.stopped
  /\ arrived < MaxFrames
  /\ arrived' = arrived + 1
  /\ processed_frame_queue_' =
       Push(processed_frame_queue_, [id |-> arrived + 1, key |-> k, batch_size |-> n])
  /\ UNCHANGED publisherVars

-----------------------------------------------------------------------------
(* batching_loop *)

BatcherCheckStop ==
  /\ batcher = "loop"
  /\ batcher' = IF batcher_stop THEN "flush" ELSE "pop"
  /\ UNCHANGED <<processed_frame_queue_, batch_queue_, d_frame, current_batches,
                 batcher_stop, senderVars, stopVars, arrived>>

BatcherPop ==
  /\ batcher = "pop"
  /\ \/ /\ HasItem(processed_frame_queue_)
        /\ d_frame' = Oldest(processed_frame_queue_)
        /\ processed_frame_queue_' = Pop(processed_frame_queue_)
        /\ batcher' = "frame"
     \/ /\ Drained(processed_frame_queue_)
        /\ batcher' = "flush"
        /\ UNCHANGED <<processed_frame_queue_, d_frame>>
  /\ UNCHANGED <<batch_queue_, current_batches, batcher_stop, senderVars, stopVars,
                 arrived>>

\* Mutant of BatchFull: a batch beyond its size is never full.
BatchFullAtSize(b, f) == Len(b) = f.batch_size

\* batch.frame_count >= event_cfg.batch_size, with the event_cfg of the frame
\* just added; a size below one publishes every frame on its own.
BatchFull(b, f) == Len(b) >= f.batch_size

\* Mutant of BatchFrame: the pushed batch is not erased.
BatchFrameNotErased ==
  LET f == d_frame
      b == Append(current_batches[f.key], f)
  IN
  /\ batcher = "frame"
  /\ batch_queue_' = IF BatchFull(b, f) THEN Push(batch_queue_, b) ELSE batch_queue_
  /\ current_batches' = [current_batches EXCEPT ![f.key] = b]
  /\ d_frame' = NoFrame
  /\ batcher' = "loop"
  /\ UNCHANGED <<processed_frame_queue_, batcher_stop, senderVars, stopVars, arrived>>

\* Append the frame to the batch of its stream and event; push it when full.
BatchFrame ==
  LET f == d_frame
      b == Append(current_batches[f.key], f)
  IN
  /\ batcher = "frame"
  /\ \/ /\ BatchFull(b, f)
        /\ batch_queue_' = Push(batch_queue_, b)
        /\ current_batches' = [current_batches EXCEPT ![f.key] = <<>>]
     \/ /\ ~BatchFull(b, f)
        /\ current_batches' = [current_batches EXCEPT ![f.key] = b]
        /\ UNCHANGED batch_queue_
  /\ d_frame' = NoFrame
  /\ batcher' = "loop"
  /\ UNCHANGED <<processed_frame_queue_, batcher_stop, senderVars, stopVars, arrived>>

Partial == {k \in Keys : current_batches[k] # <<>>}

\* After the loop: flush the partial batches in the order of the map.
FlushPartial ==
  /\ batcher = "flush"
  /\ \/ /\ Partial # {}
        /\ LET k == CHOOSE x \in Partial : \A y \in Partial : x <= y IN
           /\ batch_queue_' = Push(batch_queue_, current_batches[k])
           /\ current_batches' = [current_batches EXCEPT ![k] = <<>>]
        /\ UNCHANGED batcher
     \/ /\ Partial = {}
        /\ batcher' = "exited"
        /\ UNCHANGED <<batch_queue_, current_batches>>
  /\ UNCHANGED <<processed_frame_queue_, d_frame, batcher_stop, senderVars, stopVars,
                 arrived>>

batching_loop == BatcherCheckStop \/ BatcherPop \/ BatchFrame \/ FlushPartial

-----------------------------------------------------------------------------
(* publisher_loop *)

CheckStop(p) ==
  /\ pc[p] = "loop"
  /\ pc' = [pc EXCEPT ![p] = IF stop_requested[p] THEN "exited" ELSE "pop"]
  /\ UNCHANGED <<processed_frame_queue_, batch_queue_, batcherVars, batch, connected,
                 stop_requested, redis, refused, dry_run, requeued, lost_replies,
                 stopVars, arrived>>

PopBatch(p) ==
  /\ pc[p] = "pop"
  /\ \/ /\ HasItem(batch_queue_)
        /\ batch' = [batch EXCEPT ![p] = Oldest(batch_queue_)]
        /\ batch_queue_' = Pop(batch_queue_)
        /\ pc' = [pc EXCEPT ![p] = "send"]
     \/ /\ Drained(batch_queue_)
        /\ pc' = [pc EXCEPT ![p] = "exited"]
        /\ UNCHANGED <<batch_queue_, batch>>
  /\ UNCHANGED <<processed_frame_queue_, batcherVars, connected, stop_requested,
                 redis, refused, dry_run, requeued, lost_replies, stopVars, arrived>>

\* The batch leaves the thread, which goes back to the top of its loop.
Release(p) ==
  /\ pc' = [pc EXCEPT ![p] = "loop"]
  /\ batch' = [batch EXCEPT ![p] = NoBatch]
  /\ UNCHANGED <<processed_frame_queue_, batcherVars, stop_requested, stopVars, arrived>>

\* Dry-run mode: the batch is discarded after a delay.
DryRun(p) ==
  /\ pc[p] = "send"
  /\ dry_run_mode
  /\ dry_run' = dry_run \cup {batch[p]}
  /\ Release(p)
  /\ UNCHANGED <<batch_queue_, connected, redis, refused, requeued, lost_replies>>

\* A new connection replaces the missing one and the same batch is sent.
Reconnect(p) ==
  /\ pc[p] = "send"
  /\ ~dry_run_mode
  /\ ~connected[p]
  /\ connected' = [connected EXCEPT ![p] = TRUE]
  /\ UNCHANGED <<processed_frame_queue_, batch_queue_, batcherVars, pc, batch,
                 stop_requested, redis, refused, dry_run, requeued, lost_replies,
                 stopVars, arrived>>

\* Mutant of Requeue: the batch is dropped.
RequeueForgotten(p) == UNCHANGED batch_queue_ /\ requeued' = requeued \cup {batch[p]}

\* Put the batch back at the tail; a stopped queue drops it.
Requeue(p) ==
  /\ batch_queue_' = Push(batch_queue_, batch[p])
  /\ requeued' = requeued \cup {batch[p]}

\* No connection: requeue and wait 250 ms.
ReconnectFails(p) ==
  /\ pc[p] = "send"
  /\ ~dry_run_mode
  /\ ~connected[p]
  /\ Requeue(p)
  /\ Release(p)
  /\ UNCHANGED <<connected, redis, refused, dry_run, lost_replies>>

Sending(p) == pc[p] = "send" /\ ~dry_run_mode /\ connected[p]

XaddStored(p) ==
  /\ Sending(p)
  /\ redis' = Append(redis, batch[p])
  /\ Release(p)
  /\ UNCHANGED <<batch_queue_, connected, refused, dry_run, requeued, lost_replies>>

\* An error reply (out of memory, wrong type) is a non-null reply: it is freed
\* and the batch counts as published.
XaddErrorReply(p) ==
  /\ Sending(p)
  /\ refused' = refused \cup {batch[p]}
  /\ Release(p)
  /\ UNCHANGED <<batch_queue_, connected, redis, dry_run, requeued, lost_replies>>

\* The connection breaks before Redis executes the command: null reply.
XaddNotSent(p) ==
  /\ Sending(p)
  /\ connected' = [connected EXCEPT ![p] = FALSE]
  /\ Requeue(p)
  /\ Release(p)
  /\ UNCHANGED <<redis, refused, dry_run, lost_replies>>

\* Redis executes the command but the reply times out or is lost: null reply.
XaddReplyLost(p) ==
  /\ Sending(p)
  /\ Len(lost_replies) < MaxLostReplies
  /\ redis' = Append(redis, batch[p])
  /\ lost_replies' = Append(lost_replies, batch[p])
  /\ connected' = [connected EXCEPT ![p] = FALSE]
  /\ Requeue(p)
  /\ Release(p)
  /\ UNCHANGED <<refused, dry_run>>

publisher_loop(p) ==
  \/ CheckStop(p)
  \/ PopBatch(p)
  \/ DryRun(p)
  \/ Reconnect(p)
  \/ ReconnectFails(p)
  \/ XaddStored(p)
  \/ XaddErrorReply(p)
  \/ XaddNotSent(p)
  \/ XaddReplyLost(p)

-----------------------------------------------------------------------------
(* stop() *)

\* A disabled publisher returns at once; otherwise no more frames are taken.
StopProcessedQueue ==
  /\ stop_pc = "no"
  /\ \/ /\ ~is_enabled_
        /\ stop_pc' = "returned"
        /\ UNCHANGED processed_frame_queue_
     \/ /\ is_enabled_
        /\ stop_pc' = "batcher"
        /\ processed_frame_queue_' = StopQueue(processed_frame_queue_)
  /\ UNCHANGED <<batch_queue_, batcherVars, senderVars, joined, is_enabled_,
                 dry_run_mode, arrived>>

\* batching_thread_ = {}: the old jthread is asked to stop and joined.
RequestStopBatcher ==
  /\ stop_pc = "batcher"
  /\ ~batcher_stop
  /\ batcher_stop' = TRUE
  /\ UNCHANGED <<processed_frame_queue_, batch_queue_, batcher, d_frame,
                 current_batches, senderVars, stopVars, arrived>>

\* Mutant of JoinBatcher: stop() goes on while the last batches are flushed.
JoinBatcherNotAwaited ==
  /\ stop_pc = "batcher"
  /\ batcher_stop
  /\ stop_pc' = "batch_queue"
  /\ UNCHANGED <<processed_frame_queue_, batch_queue_, batcherVars, senderVars,
                 joined, is_enabled_, dry_run_mode, arrived>>

JoinBatcher ==
  /\ stop_pc = "batcher"
  /\ batcher_stop
  /\ batcher = "exited"
  /\ stop_pc' = "batch_queue"
  /\ UNCHANGED <<processed_frame_queue_, batch_queue_, batcherVars, senderVars,
                 joined, is_enabled_, dry_run_mode, arrived>>

\* Mutant of StopBatchQueue: the publisher threads are never woken up.
StopBatchQueueForgotten ==
  /\ stop_pc = "batch_queue"
  /\ stop_pc' = "clear"
  /\ UNCHANGED <<processed_frame_queue_, batch_queue_, batcherVars, senderVars,
                 joined, is_enabled_, dry_run_mode, arrived>>

StopBatchQueue ==
  /\ stop_pc = "batch_queue"
  /\ batch_queue_' = StopQueue(batch_queue_)
  /\ stop_pc' = "clear"
  /\ UNCHANGED <<processed_frame_queue_, batcherVars, senderVars, joined,
                 is_enabled_, dry_run_mode, arrived>>

\* publisher_threads_.clear(): request_stop and join, one thread at a time.
RequestStop ==
  /\ stop_pc = "clear"
  /\ joined < NumPublishers
  /\ ~stop_requested[joined + 1]
  /\ stop_requested' = [stop_requested EXCEPT ![joined + 1] = TRUE]
  /\ UNCHANGED <<processed_frame_queue_, batch_queue_, batcherVars, pc, batch,
                 connected, redis, refused, dry_run, requeued, lost_replies,
                 stopVars, arrived>>

Join ==
  /\ stop_pc = "clear"
  /\ joined < NumPublishers
  /\ stop_requested[joined + 1]
  /\ pc[joined + 1] = "exited"
  /\ joined' = joined + 1
  /\ stop_pc' = IF joined' = NumPublishers THEN "returned" ELSE "clear"
  /\ UNCHANGED <<processed_frame_queue_, batch_queue_, batcherVars, senderVars,
                 is_enabled_, dry_run_mode, arrived>>

stop == RequestStopBatcher \/ JoinBatcher \/ StopBatchQueue \/ RequestStop \/ Join

Terminated == stop_pc = "returned" /\ UNCHANGED vars

Next ==
  \/ \E e \in EventConfigs : Arrive(e[1], e[2])
  \/ batching_loop
  \/ \E p \in Publishers : publisher_loop(p)
  \/ StopProcessedQueue
  \/ stop
  \/ Terminated

\* The threads, and stop() once called, keep running.  Nothing is assumed of
\* Redis here: every command may fail.
Fairness ==
  /\ WF_vars(batching_loop)
  /\ \A p \in Publishers : WF_vars(publisher_loop(p))
  /\ WF_vars(stop)

Spec == Init /\ [][Next]_vars /\ Fairness

\* Redis comes back: a publisher thread that keeps trying is connected, and
\* answered with success, again and again.
RedisRecovers ==
  \A p \in Publishers : SF_vars(Reconnect(p)) /\ SF_vars(XaddStored(p))

SpecWithRedis == Spec /\ RedisRecovers

-----------------------------------------------------------------------------
Frame == [id : 1..MaxFrames, key : Keys, batch_size : {e[2] : e \in EventConfigs}]
ASSUME NoFrameFresh == NoFrame \notin Frame
ASSUME NoBatchFresh == NoBatch \notin Seq(Frame)

IsBatch(b) == b \in Seq(Frame) /\ b # <<>>

Queued == ToSet(batch_queue_.items)
Held == {batch[p] : p \in Publishers} \ {NoBatch}
Stored == ToSet(redis)
Batches == Queued \cup Held \cup Stored \cup refused \cup dry_run

\* What the locals of the threads and of stop() have to do with each other.
LocalsAgree ==
  /\ d_frame # NoFrame <=> batcher = "frame"
  /\ \A p \in Publishers : batch[p] # NoBatch <=> pc[p] = "send"
  /\ batch_queue_.stopped => batcher = "exited" /\ Partial = {}
  /\ \A p \in 1..joined : pc[p] = "exited"

(* Types, and what the locals of the threads and of stop() have to do with  *)
(* each other: a thread holds a frame or a batch just while it handles one, *)
(* batch_queue_ is closed only after the batching thread has flushed its    *)
(* partial batches and ended, and joined publisher threads are gone.        *)
TypeOK ==
  /\ processed_frame_queue_ \in [items : Seq(Frame), stopped : BOOLEAN]
  /\ batch_queue_ \in [items : Seq(Seq(Frame)), stopped : BOOLEAN]
  /\ redis \in Seq(Seq(Frame)) /\ lost_replies \in Seq(Seq(Frame))
  /\ \A b \in Batches \cup requeued \cup ToSet(lost_replies) : IsBatch(b)
  /\ is_enabled_ \in BOOLEAN /\ dry_run_mode \in BOOLEAN
  /\ batcher \in {"loop", "pop", "frame", "flush", "exited"}
  /\ d_frame \in {NoFrame} \cup Frame
  /\ current_batches \in [Keys -> Seq(Frame)]
  /\ pc \in [Publishers -> {"loop", "pop", "send", "exited"}]
  /\ batch \in [Publishers -> {NoBatch} \cup Seq(Frame)]
  /\ connected \in [Publishers -> BOOLEAN]
  /\ batcher_stop \in BOOLEAN /\ stop_requested \in [Publishers -> BOOLEAN]
  /\ stop_pc \in {"no", "batcher", "batch_queue", "clear", "returned"}
  /\ joined \in 0..NumPublishers
  /\ arrived \in 0..MaxFrames
  /\ LocalsAgree

\* Whether frame i is in the batch b, and in how many of a sequence of batches.
Has(b, i) == \E j \in DOMAIN b : b[j].id = i
CountIn(s, i) == Cardinality({j \in DOMAIN s : Has(s[j], i)})

\* The copies of frame i the publisher still has, and the ones it is done with.
InFlight(i) ==
  Cardinality({j \in DOMAIN processed_frame_queue_.items :
                 processed_frame_queue_.items[j].id = i})
  + (IF d_frame # NoFrame /\ d_frame.id = i THEN 1 ELSE 0)
  + Cardinality({k \in Keys : Has(current_batches[k], i)})
  + CountIn(batch_queue_.items, i)
  + Cardinality({p \in Publishers : batch[p] # NoBatch /\ Has(batch[p], i)})
Finished(i) ==
  CountIn(redis, i) + Cardinality({b \in refused \cup dry_run : Has(b, i)})

(* However often a batch is put back and retried, and by whichever thread,  *)
(* a frame is stored once, plus once for each XADD whose reply was lost:    *)
(* moving batches between current_batches, batch_queue_ and the threads     *)
(* never copies one.                                                        *)
DuplicatesOnlyAfterLostReply ==
  \A i \in 1..arrived :
    InFlight(i) + Finished(i) <= 1 + CountIn(lost_replies, i)

(* Until stop() closes batch_queue_, no connection failure, retry or flush  *)
(* loses a frame: it is in a queue, in a batch, with a thread, stored,      *)
(* discarded by the dry run, or refused by an error reply of Redis, which   *)
(* ends the batch and is logged as a success.  A failed command is retried  *)
(* without limit: FP_REDIS_RECONNECT_ATTEMPTS, the retries "before          *)
(* discarding the batch", is read by nothing, and no batch is discarded.    *)
NothingLostWhileOpen ==
  ~batch_queue_.stopped =>
    \A i \in 1..arrived :
      InFlight(i) + Finished(i) >= 1 + CountIn(lost_replies, i)

(* Every batch holds consecutive frames of one stream and event, in order,  *)
(* was closed by the first frame that saw it full, and is short of its      *)
(* batch size only when it was flushed after the input queue was stopped.   *)
BatchesWellFormed ==
  /\ \A b \in Batches :
       /\ \A i, j \in DOMAIN b : b[i].key = b[j].key /\ (i < j => b[i].id < b[j].id)
       /\ \A i \in 1..(Len(b) - 1) : i < b[i].batch_size
       /\ Len(b) < Last(b).batch_size => processed_frame_queue_.stopped
  /\ \A b, c \in Batches :
       b # c /\ b[1].key = c[1].key => Last(b).id < c[1].id \/ Last(c).id < b[1].id

(* Several publisher threads and the requeue at the tail reorder batches,   *)
(* but no batch is stored before an older one of the same stream and event  *)
(* that is still waiting in batch_queue_ for its first attempt.             *)
NoOvertakingOfUntriedBatch ==
  \A b \in Queued \ requeued, c \in Stored :
    b[1].key = c[1].key => Last(c).id < b[1].id

\* Frame i has left the batching thread in a batch.
Batched(i) ==
  /\ d_frame = NoFrame \/ d_frame.id # i
  /\ \A f \in ToSet(processed_frame_queue_.items) : f.id # i
  /\ \A k \in Keys : ~Has(current_batches[k], i)

(* As long as Redis recovers, every frame of a batch that reached           *)
(* batch_queue_ is stored, unless Redis answers with an error, the dry run  *)
(* discards it or stop() is called: retrying neither loses nor starves it,  *)
(* however many attempts it takes.  The limit config/fp.env documents for   *)
(* them, after which a batch would be discarded, does not exist.            *)
DeliveredEventually ==
  []<>(stop_pc # "no" \/ \A i \in 1..arrived : Batched(i) => Finished(i) > 0)
=============================================================================
