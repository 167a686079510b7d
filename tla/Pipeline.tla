------------------------------ MODULE Pipeline ------------------------------
(***************************************************************************)
(* The child process (app_logic in src/src/core/main.cpp): stream threads  *)
(* fill decode_frame_queue, the worker pool moves frames on to             *)
(* processed_frame_queue, the publisher batches and sends them, and on a   *)
(* signal the main thread stops the three in this order.  Worker and       *)
(* Publisher are composed over the queue they share.  Of StreamIoManager   *)
(* only its effect is here: which stream threads run (StreamIo.tla has the *)
(* rest), started and stopped by reloads and by stop_all.                  *)
(***************************************************************************)
EXTENDS Naturals, FiniteSets, SequencesExt, FifoQueue

CONSTANTS NumWorkers, NumPublishers, Keys, BatchSizes, Procs, Geoms,
          SaveProcessed, SaveIntervals, NoFrame, NoContext, NoBatch, MaxFrames, MaxLostReplies

ASSUME SizesNat == NumWorkers \in Nat /\ NumPublishers \in Nat \ {0}
ASSUME BoundsNat == Keys \subseteq Nat /\ MaxFrames \in Nat

\* A frame with what its configuration says of filtering and batching.
Frame == [id : 1..MaxFrames, key : Keys, proc : Procs, geom : Geoms,
          applied : {NoContext} \cup [proc : Procs, geom : Geoms, by : 1..MaxFrames],
          batch_size : BatchSizes]
ASSUME FreshValues == NoFrame \notin Frame /\ NoBatch \notin Seq(Frame)

VARIABLES
  decode_frame_queue, processed_frame_queue,
  live,      \* the streams, one per key, whose thread runs
  produced,  \* history: number of frames pushed by the stream threads
  main_pc,   \* app_logic: "running", "stop_all", "worker", "publisher", "done"
  \* the worker pool
  w_pc, w_frame, stream_contexts, w_stop_requested, w_stop_pc, w_joined, failed,
  \* the frame saver
  save_processed_enabled_, save_interval_, created_dirs_, frames_processed_local,
  call, saving, dirs, files, opened,
  \* the publisher
  batch_queue_, is_enabled_, dry_run_mode, batcher, b_frame, current_batches,
  p_pc, batch, connected, batcher_stop, p_stop_requested, p_stop_pc, p_joined,
  redis, refused, dry_run, requeued, lost_replies

W == INSTANCE Worker WITH
       NumThreads <- NumWorkers, StreamOf <- [k \in Keys |-> k],
       in_queue_ <- decode_frame_queue, out_queue_ <- processed_frame_queue,
       pc <- w_pc, d_frame <- w_frame, stop_requested <- w_stop_requested,
       stop_pc <- w_stop_pc, joined <- w_joined, arrived <- produced

P == INSTANCE Publisher WITH
       EventConfigs <- Keys \X BatchSizes,
       processed_frame_queue_ <- processed_frame_queue,
       d_frame <- b_frame, pc <- p_pc, stop_requested <- p_stop_requested,
       stop_pc <- p_stop_pc, joined <- p_joined, arrived <- produced

mainVars == <<live, main_pc>>
workerVars == <<w_pc, w_frame, stream_contexts, w_stop_requested, w_stop_pc,
                w_joined, failed, save_processed_enabled_, save_interval_,
                created_dirs_, frames_processed_local, call, saving, dirs, files, opened>>
publisherVars ==
  <<batch_queue_, is_enabled_, dry_run_mode, batcher, b_frame, current_batches,
    p_pc, batch, connected, batcher_stop, p_stop_requested, p_stop_pc, p_joined,
    redis, refused, dry_run, requeued, lost_replies>>
vars == <<decode_frame_queue, processed_frame_queue, produced, mainVars,
          workerVars, publisherVars>>

Init ==
  /\ W!Init
  /\ P!Init
  /\ live = {}
  /\ main_pc = "running"

-----------------------------------------------------------------------------
\* A worker thread or a step of Worker::stop: the publisher is not affected.
WorkerStep(A) == A /\ UNCHANGED <<mainVars, publisherVars>>

\* A thread or a step of stop() of the publisher.
PublisherStep(A) == A /\ UNCHANGED <<decode_frame_queue, mainVars, workerVars>>

\* run_stream pushes a frame with the configuration it was started with.
PushFrame(k, p, g, n) ==
  /\ k \in live
  /\ produced < MaxFrames
  /\ ~decode_frame_queue.stopped
  /\ produced' = produced + 1
  /\ decode_frame_queue' =
       Push(decode_frame_queue, [id |-> produced + 1, key |-> k, proc |-> p, geom |-> g,
                                 applied |-> NoContext, batch_size |-> n])
  /\ UNCHANGED <<processed_frame_queue, mainVars, workerVars, publisherVars>>

\* The update callback runs update_streams, also after stop_all has returned:
\* the reloader thread is only stopped by the destructor of ConfigManager.
UpdateStreams ==
  /\ main_pc # "stop_all"
  /\ main_pc # "done"
  /\ live' \in SUBSET Keys
  /\ live' # live
  /\ UNCHANGED <<decode_frame_queue, processed_frame_queue, produced, main_pc,
                 workerVars, publisherVars>>

-----------------------------------------------------------------------------
(* app_logic after its loop: each call returns before the next begins. *)

\* g_shutdown_request is seen and stop_all is called.
ShutdownRequested ==
  /\ main_pc = "running"
  /\ main_pc' = "stop_all"
  /\ UNCHANGED <<decode_frame_queue, processed_frame_queue, produced, live,
                 workerVars, publisherVars>>

\* stop_all holds the manager's mutex while it joins the stream threads.
JoinStream ==
  /\ main_pc = "stop_all"
  /\ \/ \E k \in live : live' = live \ {k} /\ UNCHANGED main_pc
     \/ live = {} /\ main_pc' = "worker" /\ UNCHANGED live
  /\ UNCHANGED <<decode_frame_queue, processed_frame_queue, produced,
                 workerVars, publisherVars>>

StopWorker ==
  /\ main_pc = "worker"
  /\ WorkerStep(W!StopInQueue \/ W!stop)

\* Mutant of WorkerStopped: the publisher is stopped while workers still run.
WorkerNotAwaited ==
  /\ main_pc = "worker"
  /\ main_pc' = "publisher"
  /\ UNCHANGED <<decode_frame_queue, processed_frame_queue, produced, live,
                 workerVars, publisherVars>>

WorkerStopped ==
  /\ main_pc = "worker"
  /\ w_stop_pc = "returned"
  /\ main_pc' = "publisher"
  /\ UNCHANGED <<decode_frame_queue, processed_frame_queue, produced, live,
                 workerVars, publisherVars>>

StopPublisher ==
  /\ main_pc = "publisher"
  /\ PublisherStep(P!StopProcessedQueue \/ P!stop)

PublisherStopped ==
  /\ main_pc = "publisher"
  /\ p_stop_pc = "returned"
  /\ main_pc' = "done"
  /\ UNCHANGED <<decode_frame_queue, processed_frame_queue, produced, live,
                 workerVars, publisherVars>>

app_logic ==
  JoinStream \/ StopWorker \/ WorkerStopped \/ StopPublisher \/ PublisherStopped

worker_loop(w) == WorkerStep(W!worker_loop(w))
batching_loop == PublisherStep(P!batching_loop)
publisher_loop(p) == PublisherStep(P!publisher_loop(p))

Done == main_pc = "done" /\ UNCHANGED vars

Next ==
  \/ \E k \in Keys, p \in Procs, g \in Geoms, n \in BatchSizes : PushFrame(k, p, g, n)
  \/ UpdateStreams
  \/ ShutdownRequested
  \/ app_logic
  \/ \E w \in 1..NumWorkers : worker_loop(w)
  \/ batching_loop
  \/ \E p \in 1..NumPublishers : publisher_loop(p)
  \/ Done

\* Every thread is scheduled.  Nothing is assumed of the streams, of Redis or
\* of the signal that starts the shutdown.
Fairness ==
  /\ WF_vars(app_logic)
  /\ \A w \in 1..NumWorkers : WF_vars(worker_loop(w))
  /\ WF_vars(batching_loop)
  /\ \A p \in 1..NumPublishers : WF_vars(publisher_loop(p))

Spec == Init /\ [][Next]_vars /\ Fairness

-----------------------------------------------------------------------------
FrameIds(s) == {s[i].id : i \in DOMAIN s}

\* Everything between the decoder and Redis.
InFlight ==
  FrameIds(decode_frame_queue.items)
  \cup {w_frame[w].id : w \in {x \in 1..NumWorkers : w_frame[x] # NoFrame}}
  \cup FrameIds(processed_frame_queue.items)
  \cup (IF b_frame = NoFrame THEN {} ELSE {b_frame.id})
  \cup (UNION {FrameIds(current_batches[k]) : k \in Keys})
  \cup (UNION {FrameIds(b) : b \in P!Queued \cup P!Held})

Delivery == INSTANCE FrameDelivery WITH
  inflight <- InFlight,
  published <- [i \in DOMAIN redis |-> FrameIds(redis[i])],
  dropped <- failed \cup UNION {FrameIds(b) : b \in refused \cup dry_run},
  unacked <- Len(lost_replies),
  closing <- decode_frame_queue.stopped

(* End to end, across three queues and all the threads, a frame is          *)
(* published once, plus once for each lost reply, and one that is not       *)
(* published was dropped for a known cause (an FFmpeg error, an error reply *)
(* of Redis, which the publisher logs as a success, or the dry run) or is   *)
(* lost by the shutdown, after Worker::stop closed the first queue, and     *)
(* never before.                                                            *)
ImplementsFrameDelivery == Delivery!Spec

(* Once a signal is seen the process finishes, also when Redis never        *)
(* answers, streams are reloaded meanwhile and queues are full: each stop   *)
(* unblocks the threads the next join waits for.                            *)
ShutdownCompletes == (main_pc = "stop_all") ~> (main_pc = "done")

(* app_logic returns, and its locals are destroyed, only after every worker *)
(* and publisher thread has left its loop, and no thread of the worker pool *)
(* is left when the publisher is being stopped.  It says nothing of the     *)
(* stream threads and the reloader, which may run until the destructors     *)
(* join them.                                                               *)
NoThreadOutlivesShutdown ==
  /\ main_pc \in {"publisher", "done"} => \A w \in 1..NumWorkers : w_pc[w] = "exited"
  /\ main_pc = "done" =>
       batcher = "exited" /\ \A p \in 1..NumPublishers : p_pc[p] = "exited"

=============================================================================
