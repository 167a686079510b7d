------------------------------- MODULE Worker -------------------------------
(***************************************************************************)
(* The worker pool of src/src/components/worker/worker.cpp: NumThreads     *)
(* threads take decoded frames from in_queue_, run each through the filter *)
(* graph cached for its stream and event, and push the result to           *)
(* out_queue_; stop() stops both queues and joins the threads one by one.  *)
(*                                                                         *)
(* A frame is a record with the fields id, key (stream id and event name), *)
(* proc (its ProcessingConfig) and geom: dims (width, height and pixel     *)
(* format) and sar (sample aspect ratio).  The worker adds "applied", what *)
(* the graph that produced the output was built for.  Pixels and timing    *)
(* are left out.  A worker saves the frames the FrameSaver selects before  *)
(* it pushes them.                                                         *)
(***************************************************************************)
EXTENDS Naturals, FiniteSets, SequencesExt, FifoQueue, FrameSaver

CONSTANTS Keys,        \* the stream_id and event_name pairs
          Procs,       \* processing configurations
          Geoms,       \* input geometries: records of dims and sar
          StreamOf,    \* the stream of a key
          NoFrame,     \* a worker holds no frame
          NoContext,   \* no filter graph
          MaxFrames    \* bound on the number of frames pushed by the streams

ASSUME StreamOfKeys == DOMAIN StreamOf = Keys
ASSUME MaxFramesNat == MaxFrames \in Nat

\* A filter graph: what it was built for, and (history) from which frame.
Contexts == [proc : Procs, geom : Geoms, by : 1..MaxFrames]

ASSUME NoContextFresh == NoContext \notin Contexts

VARIABLES
  in_queue_, out_queue_,  \* the queues shared with StreamIoManager and Publisher
  pc,               \* per worker: "loop", "pop", "frame", "save" or "exited"
  d_frame,          \* per worker: the frame being processed
  stream_contexts,  \* per worker and key: the cached filter graph
  stop_requested,   \* per worker: the stop token of its jthread
  stop_pc,          \* progress of stop()
  joined,           \* how many threads workers_.clear() has joined
  arrived,          \* history: number of frames in_queue_ accepted
  failed            \* history: ids of the frames dropped on an FFmpeg error

workerVars == <<pc, d_frame, stream_contexts, stop_requested, stop_pc, joined, failed,
                saverVars>>
vars == <<in_queue_, out_queue_, workerVars, arrived>>

\* The arguments of the buffer source, the aspect ratio among them, and the
\* filters of the configuration: the graph built from the frame f.
Settings(f) == [proc |-> f.proc, geom |-> f.geom, by |-> f.id]

Init ==
  /\ in_queue_ = EmptyQueue
  /\ out_queue_ = EmptyQueue
  /\ pc = [w \in Threads |-> "loop"]
  /\ d_frame = [w \in Threads |-> NoFrame]
  /\ stream_contexts = [w \in Threads |-> [k \in Keys |-> NoContext]]
  /\ stop_requested = [w \in Threads |-> FALSE]
  /\ stop_pc = "no"
  /\ joined = 0
  /\ arrived = 0
  /\ failed = {}
  /\ InitSaver

-----------------------------------------------------------------------------
\* A stream thread pushes a decoded frame (run_stream); once the queue is
\* stopped a push changes nothing.
Arrive(k, p, g) ==
  /\ ~in_queue_.stopped
  /\ arrived < MaxFrames
  /\ arrived' = arrived + 1
  /\ in_queue_' = Push(in_queue_, [id |-> arrived + 1, key |-> k, proc |-> p,
                                   geom |-> g, applied |-> NoContext])
  /\ UNCHANGED <<out_queue_, workerVars>>

\* while (!st.stop_requested())
CheckStop(w) ==
  /\ pc[w] = "loop"
  /\ pc' = [pc EXCEPT ![w] = IF stop_requested[w] THEN "exited" ELSE "pop"]
  /\ UNCHANGED <<in_queue_, out_queue_, d_frame, stream_contexts, stop_requested,
                 stop_pc, joined, arrived, failed, saverVars>>

\* in_queue_->wait_and_pop() returns a frame.
PopFrame(w) ==
  /\ pc[w] = "pop"
  /\ HasItem(in_queue_)
  /\ d_frame' = [d_frame EXCEPT ![w] = Oldest(in_queue_)]
  /\ in_queue_' = Pop(in_queue_)
  /\ pc' = [pc EXCEPT ![w] = "frame"]
  /\ UNCHANGED <<out_queue_, stream_contexts, stop_requested, stop_pc, joined,
                 arrived, failed, saverVars>>

\* in_queue_->wait_and_pop() returns nullopt: break.
PopNullopt(w) ==
  /\ pc[w] = "pop"
  /\ Drained(in_queue_)
  /\ pc' = [pc EXCEPT ![w] = "exited"]
  /\ UNCHANGED <<in_queue_, out_queue_, d_frame, stream_contexts, stop_requested,
                 stop_pc, joined, arrived, failed, saverVars>>

-----------------------------------------------------------------------------
\* Mutant of NeedsReinit: the dimensions of the input are not compared.
NeedsReinitProcOnly(w, f) ==
  LET ctx == stream_contexts[w][f.key] IN ~(ctx # NoContext /\ ctx.proc = f.proc)

\* No context for this stream and event, or one built for another configuration,
\* width, height or pixel format; the aspect ratio is not compared.
NeedsReinit(w, f) ==
  LET ctx == stream_contexts[w][f.key] IN
  ~(ctx # NoContext /\ ctx.proc = f.proc /\ ctx.geom.dims = f.geom.dims)

\* The context used for f: the cached one, or a new one that replaces it.
ContextFor(w, f) ==
  IF NeedsReinit(w, f) THEN Settings(f) ELSE stream_contexts[w][f.key]

\* create_processing_filter fails: continue; an older context stays cached.
CreateFilterFails(w) ==
  LET f == d_frame[w] IN
  /\ pc[w] = "frame"
  /\ NeedsReinit(w, f)
  /\ failed' = failed \cup {f.id}
  /\ d_frame' = [d_frame EXCEPT ![w] = NoFrame]
  /\ pc' = [pc EXCEPT ![w] = "loop"]
  /\ UNCHANGED <<in_queue_, out_queue_, stream_contexts, stop_requested, stop_pc,
                 joined, arrived, saverVars>>

\* av_frame_clone, av_buffersrc_add_frame or the first read of the sink fails:
\* the context is kept, nothing is pushed.
FilterFails(w) ==
  LET f == d_frame[w] IN
  /\ pc[w] = "frame"
  /\ stream_contexts' = [stream_contexts EXCEPT ![w][f.key] = ContextFor(w, f)]
  /\ failed' = failed \cup {f.id}
  /\ d_frame' = [d_frame EXCEPT ![w] = NoFrame]
  /\ pc' = [pc EXCEPT ![w] = "loop"]
  /\ UNCHANGED <<in_queue_, out_queue_, stop_requested, stop_pc, joined, arrived, saverVars>>

\* Mutant of ProcessFrame: the frame that builds the context is not processed.
ProcessFrameSkippingReinit(w) ==
  LET f == d_frame[w]
      ctx == ContextFor(w, f)
  IN
  /\ pc[w] = "frame"
  /\ stream_contexts' = [stream_contexts EXCEPT ![w][f.key] = ctx]
  /\ out_queue_' = IF NeedsReinit(w, f) THEN out_queue_
                   ELSE Push(out_queue_, [f EXCEPT !.applied = ctx])
  /\ d_frame' = [d_frame EXCEPT ![w] = NoFrame]
  /\ pc' = [pc EXCEPT ![w] = "loop"]
  /\ SkipSave(w)
  /\ UNCHANGED <<in_queue_, stop_requested, stop_pc, joined, arrived, failed>>

\* Crop, scale and null graphs emit one frame for the one fed to them: the
\* drain loop pushes it and its next read of the sink returns EAGAIN.
ProcessFrame(w) ==
  LET f == d_frame[w]
      ctx == ContextFor(w, f)
  IN
  /\ pc[w] = "frame"
  /\ stream_contexts' = [stream_contexts EXCEPT ![w][f.key] = ctx]
  /\ out_queue_' = Push(out_queue_, [f EXCEPT !.applied = ctx])
  /\ d_frame' = [d_frame EXCEPT ![w] = NoFrame]
  /\ pc' = [pc EXCEPT ![w] = "loop"]
  /\ SkipSave(w)
  /\ UNCHANGED <<in_queue_, stop_requested, stop_pc, joined, arrived, failed>>

\* The same for a frame to be saved: save_frame is called first ...
SaveFrame(w) ==
  LET f == d_frame[w]
      ctx == ContextFor(w, f)
  IN
  /\ pc[w] = "frame"
  /\ stream_contexts' = [stream_contexts EXCEPT ![w][f.key] = ctx]
  /\ d_frame' = [d_frame EXCEPT ![w].applied = ctx]
  /\ CallSave(w, f.id, StreamOf[f.key])
  /\ pc' = [pc EXCEPT ![w] = "save"]
  /\ UNCHANGED <<in_queue_, out_queue_, stop_requested, stop_pc, joined, arrived, failed>>

Saving(w) ==
  /\ pc[w] = "save"
  /\ save_frame(w)
  /\ UNCHANGED <<in_queue_, out_queue_, pc, d_frame, stream_contexts, stop_requested,
                 stop_pc, joined, arrived, failed>>

\* ... and the frame is pushed when it has returned, whatever it returned.
PushSaved(w) ==
  /\ pc[w] = "save"
  /\ call[w] = "none"
  /\ out_queue_' = Push(out_queue_, d_frame[w])
  /\ d_frame' = [d_frame EXCEPT ![w] = NoFrame]
  /\ pc' = [pc EXCEPT ![w] = "loop"]
  /\ UNCHANGED <<in_queue_, stream_contexts, stop_requested, stop_pc, joined, arrived,
                 failed, saverVars>>

worker_loop(w) ==
  \/ CheckStop(w)
  \/ PopFrame(w)
  \/ PopNullopt(w)
  \/ CreateFilterFails(w)
  \/ FilterFails(w)
  \/ ProcessFrame(w)
  \/ SaveFrame(w)
  \/ Saving(w)
  \/ PushSaved(w)

-----------------------------------------------------------------------------
\* Mutant of StopInQueue: the input queue is not stopped.
StopInQueueForgotten ==
  /\ stop_pc = "no"
  /\ stop_pc' = "out_queue"
  /\ UNCHANGED <<in_queue_, out_queue_, pc, d_frame, stream_contexts,
                 stop_requested, joined, arrived, failed, saverVars>>

StopInQueue ==
  /\ stop_pc = "no"
  /\ in_queue_' = StopQueue(in_queue_)
  /\ stop_pc' = "out_queue"
  /\ UNCHANGED <<out_queue_, pc, d_frame, stream_contexts, stop_requested,
                 joined, arrived, failed, saverVars>>

StopOutQueue ==
  /\ stop_pc = "out_queue"
  /\ out_queue_' = StopQueue(out_queue_)
  /\ stop_pc' = "clear"
  /\ UNCHANGED <<in_queue_, pc, d_frame, stream_contexts, stop_requested,
                 joined, arrived, failed, saverVars>>

\* workers_.clear() destroys the jthreads one after the other: request_stop,
\* then join, before the next one is asked to stop.
RequestStop ==
  /\ stop_pc = "clear"
  /\ joined < NumThreads
  /\ ~stop_requested[joined + 1]
  /\ stop_requested' = [stop_requested EXCEPT ![joined + 1] = TRUE]
  /\ UNCHANGED <<in_queue_, out_queue_, pc, d_frame, stream_contexts, stop_pc,
                 joined, arrived, failed, saverVars>>

\* Mutant of Join: the next thread is destroyed before this one has ended.
JoinWithoutWaiting ==
  /\ stop_pc = "clear"
  /\ joined < NumThreads
  /\ stop_requested[joined + 1]
  /\ joined' = joined + 1
  /\ UNCHANGED <<in_queue_, out_queue_, pc, d_frame, stream_contexts,
                 stop_requested, stop_pc, arrived, failed, saverVars>>

Join ==
  /\ stop_pc = "clear"
  /\ joined < NumThreads
  /\ stop_requested[joined + 1]
  /\ pc[joined + 1] = "exited"
  /\ joined' = joined + 1
  /\ UNCHANGED <<in_queue_, out_queue_, pc, d_frame, stream_contexts,
                 stop_requested, stop_pc, arrived, failed, saverVars>>

StopReturns ==
  /\ stop_pc = "clear"
  /\ joined = NumThreads
  /\ stop_pc' = "returned"
  /\ UNCHANGED <<in_queue_, out_queue_, pc, d_frame, stream_contexts,
                 stop_requested, joined, arrived, failed, saverVars>>

stop == StopOutQueue \/ RequestStop \/ Join \/ StopReturns

Terminated == stop_pc = "returned" /\ UNCHANGED vars

Next ==
  \/ \E k \in Keys, p \in Procs, g \in Geoms : Arrive(k, p, g)
  \/ \E w \in Threads : worker_loop(w)
  \/ StopInQueue
  \/ stop
  \/ Terminated

\* Every thread, and a call of stop() once it has begun, keeps running; the
\* call itself and the arrival of frames are the choice of the callers.
Fairness == (\A w \in Threads : WF_vars(worker_loop(w))) /\ WF_vars(stop)

Spec == Init /\ [][Next]_vars /\ Fairness

-----------------------------------------------------------------------------
Frame == [id : 1..MaxFrames, key : Keys, proc : Procs, geom : Geoms,
          applied : {NoContext} \cup Contexts]
ASSUME NoFrameFresh == NoFrame \notin Frame

\* What the locals of the threads and of stop() have to do with each other.
LocalsAgree ==
  /\ \A w \in Threads : d_frame[w] # NoFrame <=> pc[w] \in {"frame", "save"}
  /\ \A w \in Threads : call[w] # "none" => pc[w] = "save" /\ saving[w].id = d_frame[w].id
  /\ \A w \in 1..joined : pc[w] = "exited"
  /\ \A w \in Threads : stop_requested[w] => stop_pc \in {"clear", "returned"}

(* Types, and what the locals of the threads and of stop() have to do with  *)
(* each other: a worker holds a frame just while it processes one, and the  *)
(* threads stop() has joined are gone.                                      *)
TypeOK ==
  /\ in_queue_ \in [items : Seq(Frame), stopped : BOOLEAN]
  /\ out_queue_ \in [items : Seq(Frame), stopped : BOOLEAN]
  /\ pc \in [Threads -> {"loop", "pop", "frame", "save", "exited"}]
  /\ d_frame \in [Threads -> Frame \cup {NoFrame}]
  /\ stream_contexts \in [Threads -> [Keys -> {NoContext} \cup Contexts]]
  /\ stop_requested \in [Threads -> BOOLEAN]
  /\ stop_pc \in {"no", "out_queue", "clear", "returned"}
  /\ joined \in 0..NumThreads
  /\ arrived \in 0..MaxFrames
  /\ failed \subseteq 1..MaxFrames
  /\ call \in [Threads -> Calls] /\ frames_processed_local \in [Threads -> Nat]
  /\ LocalsAgree

(* worker_loop caches one filter graph per stream and event and compares it *)
(* with each frame: whatever configurations and resolutions the frames of a *)
(* stream went through before, and whatever errors left a context behind,   *)
(* every output was produced with the frame's own configuration, width,     *)
(* height and pixel format.  "The parameters used to create the context"    *)
(* are not all compared, though: the sample aspect ratio may be that of     *)
(* another frame, but only of one of the same stream and event that the     *)
(* graph was built from.                                                    *)
FilterMatchesFrame ==
  LET out == ToSet(out_queue_.items) IN
  \A f \in out :
    /\ f.applied.proc = f.proc /\ f.applied.geom.dims = f.geom.dims
    /\ \A g \in out : g.id = f.applied.by => g.key = f.key /\ f.applied = Settings(g)

Ids(q) == {q.items[i].id : i \in DOMAIN q.items}
Held == {d_frame[w].id : w \in {x \in Threads : d_frame[x] # NoFrame}}

(* No frame is processed twice or by two workers, none is both delivered    *)
(* and reported as failed, and until stop() is called a frame taken from    *)
(* the input queue is with a worker, delivered, or dropped after an error.  *)
EachFrameInOnePlace ==
  LET places == <<Ids(in_queue_), Held, Ids(out_queue_), failed>> IN
  /\ \A i, j \in 1..4 : i # j => places[i] \cap places[j] = {}
  /\ \A q \in {in_queue_, out_queue_} : Cardinality(Ids(q)) = Len(q.items)
  /\ \A v, w \in Threads : v # w /\ d_frame[v] # NoFrame => d_frame[v] # d_frame[w]
  /\ stop_pc = "no" => UNION ToSet(places) = 1..arrived

(* stop() always returns: stopping in_queue_ unblocks the workers waiting   *)
(* for a frame, so that each thread can be joined in turn.                  *)
StopTerminates == (stop_pc # "no") ~> (stop_pc = "returned")

(* What the comment on Worker::stop promises: "No frames are lost (all      *)
(* queued frames are processed)".  Every frame the input queue accepted is  *)
(* in the output queue, or was dropped after an FFmpeg error, when stop()   *)
(* returns.                                                                 *)
NoFramesLost ==
  stop_pc = "returned" => Ids(in_queue_) = {} /\ 1..arrived \subseteq Ids(out_queue_) \cup failed
=============================================================================
