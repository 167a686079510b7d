# A TLA+ model of Frame-Processor

Frame-Processor reads RTSP streams, decodes and filters their frames in a pool of
threads, batches them and publishes the batches to Redis. A parent process
supervises the child process that does the work. This directory specifies the
concurrent core of that program in TLA+, checks it with TLC on small instances,
and proves with TLAPS, for any number of threads, streams and frames, every safety
property that the runs check.

All paths below are relative to the root of the repository with `src/` in front,
as in `PROJECT.json`, which lists the components, the lines each definition
stands for, the runs, the mutants, the hazards and the findings.

## 1. The system and its parts

```
 ConfigManager --callback--> StreamIoManager (one thread per stream)
                                  | push
                          decode_frame_queue  (fifo)
                                  | wait_and_pop
                             Worker (N threads, filter graphs)
                                  | push
                         processed_frame_queue (fifo)
                                  | wait_and_pop
      Publisher: batching thread -> batch_queue_ (fifo) -> M threads -> Redis
 main thread of the child: app_logic     parent process: supervisor (main)
```

| Component | State | Operations | Talks to | What is hard | What makes it correct |
|---|---|---|---|---|---|
| `fifo` (`utils/fifo.h`) | list, `stopped_`, counters, mutex, condition variable | `push`, `wait_and_pop`, `stop`, `get_stats`, `increment_drop_count` | all threads | one `notify_one` per push with several consumers; stop against blocked consumers | no lost wakeup, order, exactly once, stop releases everybody |
| `Worker` | two shared queues, per-thread cache of filter graphs, stop tokens | `start`, `worker_loop`, `stop` | stream threads, Publisher | cached graphs against changing configurations, FFmpeg errors, stop while frames are in work | no stale graph, each frame handled once, stop returns, nothing lost |
| `Publisher` | current batches, `batch_queue_`, one connection per thread | `batching_loop`, `publisher_loop`, `stop` | Worker's queue, Redis | failing Redis, lost replies, requeueing at the tail by several threads, three-stage stop | no frame lost or copied but for lost replies, well-formed batches, delivery when Redis is back |
| `StreamIoManager` | threads and their configurations by id, a mutex | `update_streams`, `stop_all`, `run_stream` | reloader thread, main thread, decode queue | joins under the mutex, stop requests in any phase, sequences of reloads | one registered thread per stream, wanted streams run, unchanged ones undisturbed, calls return |
| `app_logic` (`core/main.cpp`) | the objects above | start, wait, stop in order | all | the whole shutdown; reloads meanwhile | shutdown finishes, frames are accounted for |
| Supervisor (`main`) | child pid, shutdown flag | fork, watch, relaunch, clean up, signal handlers | child, operating system | signals at any moment, zombies, relaunch | one child at a time, none left behind, failures relaunched, shutdown ends |
| `ConfigManager` | current configuration, local file, temporary file | initial load, reload cycle, API poll and merge, destructor | callback, disk, API | stale parser data, replacing a file an operator edits, crashes in between, several instances on one file | file never damaged, an operator's edit lost only to a merge it fell into, each stream owned once, a stable file is applied |
| `FrameSaver` | set of created directories, a frame index per thread | `save_frame` | workers, disk | the directory cache raced by two workers, file names shared by threads | no file without its directory, a file shared by no two frames of a thread |
| Stream filter graph (in `StreamIoManager`) | intervals, sinks by event name | `setup_multi_output_filter_graph`, push, drain and flush of `run_stream` | stream thread, decode queue | truncated rate quotients, unknown rates, events of one name, failing pulls, reconnects | selected frames once and in order, rates near their targets where the source tells its own, sinks drained |
| Logger, data types | - | - | - | - | formatting and RAII |

## 2. Modules

| Module | Role |
|---|---|
| `AbstractFifo` | what a queue promises: one atomic queue, fair to each consumer |
| `Fifo` | `fifo<T>` with mutex and condition variable; a critical section is a step, `cv_.wait` is several |
| `FifoProofs` | TLAPS proofs about `Fifo` |
| `FifoQueue` | the atomic queue as operators, for modules whose threads share queues (justified by `Fifo`'s refinement) |
| `FrameSaver` | `save_frame` as a small state machine per thread, over directories and files |
| `Worker` | worker pool: `worker_loop` of each thread, `stop()`; extends `FrameSaver` and calls it |
| `WorkerProofs` | TLAPS proofs about `Worker` and `FrameSaver` |
| `Publisher` | batching thread, publisher threads, `stop()`, Redis as an external sequence of entries |
| `PublisherProofs` | TLAPS proofs about `Publisher` |
| `StreamIo` | `update_streams`, `stop_all` and the life of stream threads |
| `StreamIoProofs` | TLAPS proofs about `StreamIo` |
| `StreamFrames` | the filter graph of a connection and the frames `run_stream` puts through it |
| `StreamFramesProofs` | TLAPS proofs about `StreamFrames` |
| `ConfigManager` | initial load, reloader thread, API merge, file replacement, crashes and relaunch |
| `ConfigProofs` | TLAPS proofs about `ConfigManager` |
| `FrameDelivery` | abstract: what happens to a frame from decoder to Redis |
| `Pipeline` | `Worker` and `Publisher` (by `INSTANCE`) composed over `processed_frame_queue`, with stream threads and the shutdown of `app_logic` |
| `PipelineProofs` | TLAPS proofs about `Pipeline` |
| `Supervisor` | parent process, children, signals |
| `SupervisorProofs` | TLAPS proofs about `Supervisor` |
| `MC*` | the modules TLC is run on |

Variables and actions keep the names of the code where TLA+ allows it
(`in_queue_`, `stream_contexts`, `current_batches`, `to_stop`, `g_child_pid`,
`worker_loop`, `batching_loop`, `update_streams`, `save_frame`, `reloader_loop`).
Between two accesses to shared
state (a queue, a stop token, a mutex, a file, Redis, a signal) a thread takes one step,
so an action covers what a thread does with one frame or one batch:
`Worker!ProcessFrame` is the cache lookup and the optional re-initialisation of
one frame, because the cache is private to the thread; saving and pushing it are
steps of their own, since other workers see the disk and the queue. A `std::jthread` destructor is two steps,
`request_stop` and `join`, and clearing a vector of them asks and joins one
thread after the other, as the library does. `join` is a guard: the thread has
left its function.

Definitions that start with "Mutant of" are plausible mistakes in the code.
They are not used by a specification; each shows that a property notices one.

### Abstractions

* A frame is a record (`id`, stream and event, configuration, geometry, batch
  size), a batch the sequence of its frames. Pixels, timestamps, serialised
  bytes, log output and the durations of sleeps are left out.
* The geometry of a frame is its dimensions (`dims`: width, height, pixel format),
  which a worker compares with those of its cached graph, and its sample aspect ratio
  (`sar`), from which the graph is built as well but which is not compared. A context
  of `stream_contexts` also carries the frame it was built for (`by`), a history the
  code does not have; only `FilterMatchesFrame` reads it.
* A worker's filter graph emits exactly one frame for one fed to it, as crop,
  scale and null filters do; failures of FFmpeg are a choice at each call.
* Redis is external. A connection attempt succeeds or fails; an XADD is stored
  and answered, refused with an error reply, not executed, or executed with its
  reply lost. hiredis reports the last two alike, by a null reply.
* A stream source is external too: an open, a decoder setup or a read may fail
  at any time. A stop request interrupts open and read (the interrupt callback).
* In `StreamIo` a stream configuration is one opaque value; stream ids fit into
  `int`.
* In `FrameSaver` the disk is external: directories, and files as the set of frames
  whose bytes they hold. JPEG encoding, creating a directory, opening and writing
  a file succeed or fail.
* In `ConfigManager` a document is a record of its two sections, `global_settings`
  and `streams`, or `Garbage` (missing or not JSON), or `Torn` (its first part). A
  missing section is `Absent`, a field that is missing or of a wrong type
  `Invalid`. The API answers with any document, with garbage or not at all. One
  simdjson parser parses the API's answer and then loads the local file; that
  reuses the memory `api_doc` refers to, so what is merged are the local sections
  (`FinalContent`) and the API's never reach the file. An operator's edit is
  atomic; the history `stale_content` keeps the content of a merge during which one
  happened. The process may crash anywhere and is relaunched; the files survive.
  `ToInt` and `Rem` are the narrowing and the signed remainder of C++.
  Environment values that cannot be parsed end the process before it gets here.
* In `StreamFrames` `split`, `select` and the sinks are external, modelled as
  FFmpeg documents them. Rates are integers in units of `1/Fps` and their quotient
  is exact. `video_stream` holds the two rates the container announces and the rate
  at which the source really delivers (`actual`), which the code never learns; an
  announced rate need not be true. A quotient beyond `int`, whose cast is undefined, gives any of the
  values the compiler may produce.
* `Pipeline` keeps of `StreamIoManager` which streams run. The reloader may change it
  until the process ends, except while `stop_all` holds the mutex.
* In `Supervisor` process ids are not reused, and a signal takes effect when it
  is sent.

## 3. Runs

| Run | Instance | Checks |
|---|---|---|
| `fifo` | 3 consumers, 4 pushes of 2 values | `NoLostWakeup` and its inductive form `WakeupsCoverItems`, `FifoOrder`, `StopReleasesConsumers`, refinement `ImplementsAbstractFifo` |
| `worker` | 2 threads, 2 frames of a stream, 2 configurations, 3 geometries (two of them differ in the aspect ratio only); saving off, of every and of every second frame | `FilterMatchesFrame`, `EachFrameInOnePlace`, `DirectoriesExist`, `OneFramePerWorkerAndFile`, `StopTerminates` |
| `worker_loss` | 2 threads, 2 frames | `NoFramesLost` is **violated** |
| `publisher` | 2 threads, 2 streams, 2 frames, batch sizes 0 and 2, one lost reply, Redis recovers | `DuplicatesOnlyAfterLostReply`, `NothingLostWhileOpen`, `BatchesWellFormed`, `NoOvertakingOfUntriedBatch`, `DeliveredEventually` |
| `pipeline` | 2 workers, 1 publisher thread, 2 frames, a batch of 2, saving off | `ImplementsFrameDelivery`, `ShutdownCompletes`, `NoThreadOutlivesShutdown` |
| `stream_io` | 2 ids, 2 configurations, 3 threads over time | `LiveThreadsRegistered`, `NoStaleStreamAfterUpdate`, `UnchangedStreamsUninterrupted`, `ManagerCallsReturn` |
| `stream_io_changed` | as above | `DesiredStreamsRun` is **violated** |
| `stream_io_shutdown` | as above | `ProducersStayStopped` is **violated** |
| `supervisor` | 3 launches, 2 signals | `ChildrenAccountedFor`, `ShutdownEnds`, `FailureIsRelaunched` |
| `supervisor_kill` | 2 launches, 1 signal | `GracefulChildNotKilled` is **violated** |
| `config_manager` | 4 documents, 3 scalings (alone, one of two, the last of three), 2 edits, 1 crash | `ConfigFileWhole`, `FileOnlyFromOperator`, `InstancesPartitionStreams`, `StableFileApplied`, `DestructorReturns` |
| `stream_frames` | 5 lists of up to 3 events, 3 average and 2 real announced rates (0 is unknown), 3 actual rates, 8 frames of a connection | `EachSelectedFrameOnce`, `RateKeptOnlyIfKnown`, `OnlyShadowedSinksPileUp` |

The runs with a module's name also check its type invariant `TypeOK` (all but
`pipeline`, whose state is typed by its parts).

**Why these bounds.** In the queue the interesting case is an element that wakes
one consumer and is stolen by another while a third waits: three consumers and
two elements at once. A stale filter graph needs a context, a change and a
second frame, a wrong one built by another thread two workers; the directory
race and a shared file name need two workers and a frame each. A reordered or
duplicated batch needs two threads and two batches of one stream, which the
size 0 gives with two frames (a frame closes its own batch), and a changed size
needs a frame before and one after; frames of a second stream may come in
between. In `stream_io` two
ids show that an unchanged stream is left alone while another changes, and three
threads allow a stream to be stopped and started again; the retry cycle is cut
to one backoff before the long pause (`MaxRetries` is 5 in the code). In
`supervisor` three launches let a relaunched child fail and be relaunched. In
`config_manager` two edits allow one before and one in the middle of a merge, and a
crash leaves a temporary file for the next life of the process to find; ids from
-1 to 4 against one to three instances meet every remainder, `IntSpan` is 64 so
that a batch size of 40 is narrowed. In `stream_frames` eight frames are enough
for the longest interval that is not the limit to pass on two, and `IntMax` is
small enough for a quotient to exceed it.
`MaxPushes`, `MaxDrops`, `MaxFrames`, `MaxLostReplies`, `MaxThreads`,
`MaxChildren`, `MaxSignals`, `MaxEdits` and `MaxCrashes` bound what the environment does, never what the
code does in reply; when `MaxChildren` is reached `fork` can still fail. Deadlock is
checked in all of them: a model only stops where the program has ended.

**Fairness.** Weak fairness of each thread's own steps: the operating system
schedules it, its waits are timed or ended by a notification, and its network
calls have timeouts. A call of `stop`, `update_streams` or `stop_all` that has
begun continues. No fairness is assumed of arrivals, reloads, signals,
streams, edits, crashes, the disk or Redis. The exception is the specification of
`publisher`, `SpecWithRedis`: `RedisRecovers` (strong fairness of connecting and of
a successful XADD per thread) is what "Redis is back" means; without it a batch is
requeued for ever. It only matters to `DeliveredEventually`, the invariants do not
depend on fairness. In `supervisor` nothing is assumed of the child; in
`config_manager` a failed or crashed process is relaunched, as the supervisor does.
`StreamFrames` states no fairness and no liveness.

**What the violated properties show** (the findings of `PROJECT.json`):

1. `Worker::stop` stops the output queue before the workers are done and the
   workers leave with frames in the input queue, so a shutdown loses frames,
   although its comment says that none are lost. `ImplementsFrameDelivery` shows the
   other half: before `Worker::stop` nothing is lost without a known cause (an FFmpeg
   error, the dry run, or an error reply of Redis, which the code logs as a success).
2. `update_streams` decides what to start before it stops anything, so a stream
   whose configuration changed is stopped and stays stopped until a later
   reload differs again.
3. The reloader outlives `stop_all`, so a reload during the shutdown starts
   producers after "Stop producers first".
4. The supervisor tests a child it has not waited for with `kill(pid, 0)`, which
   a zombie passes: every shutdown takes five seconds and ends in a SIGKILL.

**Where passing properties contradict a document.** Five properties hold of the code
and state something its documents deny. Each is a finding too, with the line quoted:

1. `FilterMatchesFrame`: a graph is used for a frame with another aspect ratio than
   the one it was built with, since the cached context does not store it;
   `worker.h:30` says that the parameters used to create the context are stored "to
   detect changes". Processing configuration and dimensions are always the frame's own.
2. `OneFramePerWorkerAndFile`: file names are numbered per worker thread, not per
   stream, so workers overwrite and mix each other's files; `frame_saver.h:11-13` and
   `:33` promise sequential names, thread safety and counters "atomic per stream".
   The promise (`SavedFramesKept`) is proved for a pool of one worker and fails for two.
3. `NothingLostWhileOpen` and `DeliveredEventually`: a failed batch is retried without
   end and never discarded; `config/fp.env:87` describes a number of retries "before
   discarding the batch", in a variable that nothing reads.
4. `FileOnlyFromOperator`: no answer of the API ever reaches the configuration file,
   because loading the local file invalidates the parsed answer;
   `config_manager.h:71` says "Merges changes from an API response into the local
   config file". An operator's edit made between the load and the rename is replaced
   by the older content.
5. `RateKeptOnlyIfKnown`: when the container announces no rate the source is taken for
   one of 1.0 frames per second and an event gets every frame, whatever its
   `target_fps`; `README.md:138` calls that the "Target frame rate for this event".

In the same way `config/fp.env:84` speaks of the attempts to connect to a stream
"before giving up", in a variable that nothing reads: a stream thread never gives up
on its own. It retries in cycles of `max_retries` with a long pause between them
(`NextRetry` of `StreamIo`) until it is stopped or its setup fails for good.

## 4. Proofs

Every proof is for all values of the constants that satisfy the named assumptions
of the module that declares them; TLC evaluates these assumptions on the
instances of section 3. They say what the constants are (the bounds are natural
numbers, `NoFrame`, `NoBatch`, `NoContext` and `NoConfig` are not values of what
they stand in for), and where they say more it is given below. The theorems about
safety leave fairness out of the argument, so they hold with and without it.

### The queue (`FifoProofs`)

For every set `T` of values, every *finite* set of consumers (`ConsumersFinite`)
and every bound on the pushes: `TypeCorrect`, `WakeupsCovered` and `NoWakeupLost` (no
wakeup is lost), `OrderKept` (`FifoOrder`: elements are handed out once and in
order) and `RefinesAbstractFifo` (`SafeSpec => Abs!SafeSpec`, the mutex and condition
variable implement the atomic queue).

`NoLostWakeup` alone is not inductive: with two elements in the queue, one runnable
consumer and one blocked, a pop by the runnable one leaves an element nobody is
coming for. The inductive invariant is `TypeOK /\ WakeupsCoverItems`: while a
consumer is blocked there are at least as many runnable consumers as elements. A
push adds one of each or finds nobody blocked; a pop removes one of each; a
consumer blocks only on an empty queue; `stop` leaves nobody blocked. The lemmas
`BecomesRunnable` and `LeavesRunnable` do the counting with the library's
cardinality theorems, `AppendConcat` and `MoveHead` the sequences. The refinement
uses `FifoOrder` to know how much was handed out, and goes action by action:
waiting, waking up and reading statistics are stutters.

### The worker pool and the frame saver (`WorkerProofs`)

`TypeCorrect`, `FilterIsCurrent` (`FilterMatchesFrame`), `FramesLocated`
(`EachFrameInOnePlace`), `NoMissingDirectory` (`DirectoriesExist`) and `OwnFilesKept`
(`OneFramePerWorkerAndFile`), for any number of threads, streams, configurations,
geometries and frames, and `SingleWorkerKeepsFrames` (`SavedFramesKept`) for a pool of one.

* Of the saver `SaverInv` is inductive. `DirectoriesExist` needs that a thread past
  `ensure_directory_exists` has a directory; `OneFramePerWorkerAndFile` needs
  `IndexesGrow` (the files a thread has opened carry indexes below its next one) and
  `WritesOnRecord` (a thread that writes a file has opened it for its own frame). With
  one thread the first of its conjuncts is `SavedFramesKept`.
  The saver's steps are proved once, in `SaverNext`, and reused by the worker's.
* `FilterMatchesFrame` is about the output queue; `Filtered` adds the frame that
  waits in a worker while it is being saved, and the cached graphs. A graph is
  `Known` when the frame it was built for has left the input queue and, wherever that
  frame is now, has the graph's key and settings. This uses `Located`, proved first:
  no other frame has that id.
* `Located` makes `EachFrameInOnePlace` inductive: the ids in each queue are
  distinct, no two workers hold the same one, the four places are disjoint, none
  holds an id that has not arrived, and the output queue is open until `stop` comes
  to it. Cardinalities come in only at the end.

### The publisher (`PublisherProofs`)

`TypeCorrect`, `BatchesFormed` (`BatchesWellFormed`), `UntriedFirst`
(`NoOvertakingOfUntriedBatch`), `DuplicatesBounded` (`DuplicatesOnlyAfterLostReply`) and
`NothingLost` (`NothingLostWhileOpen`), for any number of publisher threads, streams,
events, frames, batch sizes (any integer) and lost replies. The keys are a finite
set of naturals (`KeysNat`): the map that holds the batches is ordered and finite.

* `Typed` adds `StopOrder` to the types: `batch_queue_` is closed only after the
  batching thread has ended, so that no flushed batch is dropped.
* `Formed`: frames wait in order of arrival, everything in a batch is older than
  they are, closed batches are older than the one being filled for their key, and
  any two closed batches of a key are apart. `BatchesWellFormed` speaks of closed
  batches only; that a batch will be well formed when it is closed is in what
  holds of the open ones (`CurrentFormed`).
* `Untried`: a batch nobody has tried is younger than every tried batch of its key,
  and the untried ones stand in order in `batch_queue_`.
* `Accounted`, per frame: the copies of it, counted over all places and all
  threads, are at most one more than its lost replies, and exactly that while
  `batch_queue_` is open. `CountAppend`, `CountTail` and `CountExcept` say how a count
  changes with one step of a queue or a thread. The smallest key the flush takes
  exists by `NatHasMin`, from the library's well-foundedness of `<`.

### Streams (`StreamIoProofs`, `StreamFramesProofs`)

`StreamIoProofs`: `TypeCorrect`, `NoThreadEscapes` (`LiveThreadsRegistered`),
`NoStaleStream` (`NoStaleStreamAfterUpdate`) and the action property
`UnchangedStreamsKept` (`UnchangedStreamsUninterrupted`), for a finite set of integer
ids (`IdsAreInts`). The inductive invariant adds `MapsMatchThreads` (every
registered id has its own thread and that thread's configuration recorded, and a
live thread is the registered one of its id) and `UpdateProgress` (what `update_streams` has already
stopped, and what is left in `to_stop` and `to_start`, while it holds the mutex).

`StreamFramesProofs`: `TypeCorrect`, `SelectedOnce` (`EachSelectedFrameOnce`), `RateKept`
(`RateKeptOnlyIfKnown`) and `NothingElseWaits` (`OnlyShadowedSinksPileUp`), for any
lists of events, any announced and actual rates and any number of frames. The invariant adds
`GraphBuilt` (intervals are quotients of the rates, the sink registered for a name is
that of the last event of the name) and `DrainedSoFar` (the drain has emptied the
registered sinks it has passed). The frames a filter passes on are given in
closed form (`EveryNth`), and `EveryNthStep` shows that pushing one frame extends it
exactly when the interval divides the frame's number. The rate then is arithmetic
(`RateBounds`): with interval `k`, target `t` and source rate `s`,
`t * k <= s < t * (k + 1)`, and of `m` frames `c` are kept with
`k * (c - 1) < m <= k * c`. This bounds the rate an event gets only when `s` is the
actual rate, which is the theorem's condition; when no rate is announced `IntervalOne`
shows that the interval of a target above half a frame per second is 1, so that every
frame is kept. Of an announced rate that is wrong the theorem says nothing.

### The configuration (`ConfigProofs`)

`TypeCorrect`, `FileStaysWhole` (`ConfigFileWhole`: no crash or failure during a merge
damages the file, but for a short write the code does not notice), `OnlyEditsReachFile`
(`FileOnlyFromOperator`: whatever the API answers, an untorn file is the operator's last
edit, or the content of a merge that an edit fell into) and
`StreamsPartitioned` (`InstancesPartitionStreams`: each usable stream belongs to exactly
one instance).

Documents are records of the two sections (`DocsAreRecords`), `Garbage` and `Torn` are
not documents (`NoDocument`), the scaling variables are integers (`ScalingsTyped`,
they are read by `stoi`) and so are the ids that are valid (`IdsAreInts`). Neither of
the two properties of the file is inductive: what the rename puts in place was
loaded several steps earlier. `IInv` adds `MergeContent`: from load to rename the new
content is a document, namely the file in place or, once an edit came in between,
`stale_content`; an opened temporary file is empty, and one about to be moved is the new
content or known to be cut short. The partition needs no induction:
`OneOfEachRemainder` shows that of `n` consecutive slots from 0 or 1 exactly one has a
given remainder, and `OneSlot` carries that over to the signed remainder of C++. With
`FP_TOTAL_INSTANCES` below 1, where every instance loads everything, it says nothing.

### The processes (`SupervisorProofs`, `PipelineProofs`)

`SupervisorProofs`: `TypeCorrect` and `NoChildLeft` (`ChildrenAccountedFor`), for any number
of launches, signals and polls. After a failed `fork` `pid` is -1; that `main` does not
watch it then is part of `TypeOK`.

`PipelineProofs`: `NoThreadOutlives` (`NoThreadOutlivesShutdown`) and
`DeliveryImplemented` (`Spec => ImplementsFrameDelivery`: the three queues, the pool, the
batching thread and the publisher threads together implement `FrameDelivery`), for
any number of threads, streams, frames, batch sizes and lost replies. The keys are
naturals and a missing frame or batch is no frame or batch (`BoundsNat`,
`FreshValues`).

* `ShutdownOrder` is inductive: each `stop` has joined a prefix of its threads, all of
  them when it returns, and `app_logic` goes on only then. `NoThreadOutlivesShutdown`
  follows from it. It is about workers and publisher threads; the stream threads and the
  reloader are those of `StreamIo` and `ConfigManager`.
* The refinement needs `Flow` besides. The frames in flight are split into seven
  stages (`Parts`: the three queues, the workers, the frame of the batching thread, the
  batches being filled, the batches being sent). `Places` says that no id is at two
  stages and none is there that was not produced; without it a step that takes a frame
  out of one stage could leave a copy in another, and would not be a step of
  `FrameDelivery`. Each stage has its own conjunct (`DecodeOK`, `WorkersOK`, ...): its
  types, and no id twice within it. `ClosedInOrder` says that a stopped
  `processed_frame_queue` or `batch_queue_` means the first queue is stopped too, and that
  `batch_queue_` is stopped only after the batching thread has ended. This is what
  allows a swallowed push to count as a loss by the shutdown and never as one before it.
  `GraphsOK` types the cached filter graphs.
* The argument goes action by action. A move between two stages is a stutter
  (`FramesMove`, `FramesJoin` for a full batch), a frame or batch that leaves is
  published, dropped or lost (`FramesLeave` with `Publishes`, `Drops`, `Loses`),
  `PushFrame` is `Produce` and `StopInQueue` is `Close`. The lemmas `MemberGrows`,
  `MemberEmptied`, `MemberPasses` and `MemberLoses` do the set reasoning once for stages,
  threads and keys alike. `PublisherStopFlows` uses `ShutdownOrder`: the publisher is
  stopped only after `Worker::stop` has returned.

### Only model-checked

Liveness (`StopReleasesConsumers`, `StopTerminates`, `DeliveredEventually`,
`ShutdownCompletes`, `ManagerCallsReturn`, `ShutdownEnds`, `FailureIsRelaunched`,
`StableFileApplied`, `DestructorReturns`) and the fairness part of
`ImplementsAbstractFifo`: temporal reasoning about fairness is out of the prover's
reach.

## 5. Not modelled, and the plan

Done in this order: the queue and its proofs, `Worker`, `Publisher`, `Pipeline`,
`StreamIo`, `Supervisor`, `FrameSaver` inside `Worker`, `ConfigManager` and its
proofs, `StreamFrames`; then the proofs of `Supervisor`, `StreamIo`, `Worker`,
`Publisher`, `StreamFrames` and the partition of the streams, and the refinement of
`FrameDelivery` by `Pipeline`. What is left:

1. `StreamIo` composed with `Pipeline` in place of the abstract `live` set. The
   composed state space is out of TLC's reach with two ids and two workers, so this
   pays only together with a proof.

Not modelled, with the reason:

* the bytes of a serialised batch (plane offsets and sizes): memory layout with no
  state behind it, and no reader of the format in the repository to check against;
* `int` map keys for `long long` stream ids, and the narrowing of the number of
  workers to `int16_t` (listed as hazards): the models take values that fit;
* the Logger, whose output nothing reads back, and the RAII deleters;
* JPEG encoding, pixel conversion and the text of FFmpeg's filter strings: data
  transformations inside libraries, of which only success or failure matters here;
* `convert_frame_to_i420`, which nothing calls, and a stream's own `target_fps`,
  which is parsed and then read by nothing;
* undefined behaviour after `app_logic` has destroyed what the reload callback
  captured (listed as a hazard).
