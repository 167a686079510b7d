--------------------------- MODULE PipelineProofs ---------------------------
(***************************************************************************)
(* Proofs about Pipeline, for any number of worker and publisher threads,  *)
(* streams, frames and lost replies.                                       *)
(***************************************************************************)
EXTENDS Pipeline, SequenceTheorems, NaturalsInduction, WellFoundedInduction, TLAPS

-----------------------------------------------------------------------------
(* The order of the shutdown *)

\* Worker::stop has joined the first w_joined threads, all of them when it
\* returns, and app_logic goes on to the publisher only then.
WorkersJoined ==
  /\ DOMAIN w_pc = 1..NumWorkers
  /\ w_joined \in 0..NumWorkers
  /\ \A w \in 1..w_joined : w_pc[w] = "exited"
  /\ w_stop_pc = "returned" => w_joined = NumWorkers
  /\ main_pc \in {"publisher", "done"} => w_stop_pc = "returned"

\* A disabled publisher has no threads; Publisher::stop joins the batching
\* thread and then the publisher threads, and app_logic returns only then.
PublishersJoined ==
  /\ DOMAIN p_pc = 1..NumPublishers
  /\ p_joined \in 0..NumPublishers
  /\ ~is_enabled_ => batcher = "exited" /\ \A p \in 1..NumPublishers : p_pc[p] = "exited"
  /\ \A p \in 1..p_joined : p_pc[p] = "exited"
  /\ p_stop_pc \in {"batch_queue", "clear"} => batcher = "exited"
  /\ p_stop_pc = "returned" =>
       batcher = "exited" /\ \A p \in 1..NumPublishers : p_pc[p] = "exited"
  /\ main_pc = "done" => p_stop_pc = "returned"

ShutdownOrder == WorkersJoined /\ PublishersJoined

\* Before the shutdown nobody is joined.
LEMMA OrderInitially == Init => ShutdownOrder
<1> SUFFICES ASSUME Init PROVE ShutdownOrder
  OBVIOUS
<1>1. NumWorkers \in Nat /\ NumPublishers \in Nat
  BY SizesNat DEF SizesNat
<1>2. WorkersJoined
  BY <1>1 DEF Init, W!Init, W!Threads, WorkersJoined
<1>3. PublishersJoined
  BY <1>1 DEF Init, P!Init, P!Publishers, PublishersJoined
<1> QED
  BY <1>2, <1>3 DEF ShutdownOrder

\* A worker thread never leaves "exited".
LEMMA WorkerStays ==
  ASSUME WorkersJoined, NEW w \in 1..NumWorkers, worker_loop(w)
  PROVE  WorkersJoined'
<1>1. /\ w_pc[w] # "exited" /\ w_joined' = w_joined /\ w_stop_pc' = w_stop_pc /\ main_pc' = main_pc
      /\ w_pc' = w_pc \/ \E v : w_pc' = [w_pc EXCEPT ![w] = v]
  BY DEF worker_loop, WorkerStep, mainVars, W!worker_loop, W!CheckStop, W!PopFrame, W!PopNullopt,
         W!CreateFilterFails, W!FilterFails, W!ProcessFrame, W!SaveFrame, W!Saving, W!PushSaved
<1>2. DOMAIN w_pc' = DOMAIN w_pc /\ \A x \in DOMAIN w_pc : x # w => w_pc'[x] = w_pc[x]
  BY <1>1
<1>3. \A x \in 1..w_joined : x \in DOMAIN w_pc
  BY SizesNat DEF SizesNat, WorkersJoined
<1> QED
  BY <1>1, <1>2, <1>3 DEF WorkersJoined

\* Neither does a thread of the publisher.
LEMMA PublisherStays ==
  ASSUME PublishersJoined, batching_loop \/ \E p \in 1..NumPublishers : publisher_loop(p)
  PROVE  PublishersJoined'
<1>1. CASE batching_loop
  <2>1. /\ batcher # "exited" /\ p_pc' = p_pc /\ p_joined' = p_joined /\ p_stop_pc' = p_stop_pc
        /\ main_pc' = main_pc /\ is_enabled_' = is_enabled_
    BY <1>1 DEF batching_loop, PublisherStep, mainVars, P!batching_loop, P!BatcherCheckStop,
                P!BatcherPop, P!BatchFrame, P!FlushPartial, P!senderVars, P!stopVars
  <2> QED
    BY <2>1 DEF PublishersJoined
<1>2. CASE \E p \in 1..NumPublishers : publisher_loop(p)
  <2>1. PICK p \in 1..NumPublishers : publisher_loop(p)
    BY <1>2
  <2>2. /\ p_pc[p] # "exited" /\ batcher' = batcher /\ p_joined' = p_joined /\ p_stop_pc' = p_stop_pc
        /\ main_pc' = main_pc /\ is_enabled_' = is_enabled_
        /\ p_pc' = p_pc \/ \E v : p_pc' = [p_pc EXCEPT ![p] = v]
    BY <2>1 DEF publisher_loop, PublisherStep, mainVars, P!publisher_loop, P!CheckStop, P!PopBatch,
                P!DryRun, P!Reconnect, P!ReconnectFails, P!Sending, P!XaddStored, P!XaddErrorReply,
                P!XaddNotSent, P!XaddReplyLost, P!Release, P!batcherVars, P!stopVars
  <2>3. DOMAIN p_pc' = DOMAIN p_pc /\ \A x \in DOMAIN p_pc : x # p => p_pc'[x] = p_pc[x]
    BY <2>2
  <2>4. \A x \in 1..p_joined : x \in DOMAIN p_pc
    BY SizesNat DEF SizesNat, PublishersJoined
  <2> QED
    BY <2>2, <2>3, <2>4 DEF PublishersJoined
<1> QED
  BY <1>1, <1>2

\* A step of Worker::stop, or app_logic going on after it.
LEMMA WorkerStopStep ==
  ASSUME WorkersJoined, StopWorker \/ WorkerStopped
  PROVE  WorkersJoined'
<1>1. NumWorkers \in Nat
  BY SizesNat DEF SizesNat
<1>2. CASE StopWorker
  <2>1. /\ w_pc' = w_pc /\ main_pc' = "worker"
        /\ \/ w_joined' = w_joined /\ w_stop_pc' # "returned"
           \/ w_joined' = w_joined /\ w_joined = NumWorkers
           \/ /\ w_joined < NumWorkers /\ w_pc[w_joined + 1] = "exited" /\ w_joined' = w_joined + 1
              /\ w_stop_pc' # "returned"
    BY <1>2 DEF StopWorker, WorkerStep, mainVars, W!StopInQueue, W!stop, W!StopOutQueue,
                W!RequestStop, W!Join, W!StopReturns
  <2>2. w_joined' \in 0..NumWorkers /\ \A w \in 1..w_joined' : w_pc[w] = "exited"
    BY <1>1, <2>1 DEF WorkersJoined
  <2> QED
    BY <2>1, <2>2 DEF WorkersJoined
<1>3. CASE WorkerStopped
  BY <1>3 DEF WorkerStopped, workerVars, WorkersJoined
<1> QED
  BY <1>2, <1>3

\* A step of Publisher::stop, or app_logic returning after it.
LEMMA PublisherStopStep ==
  ASSUME PublishersJoined, StopPublisher \/ PublisherStopped
  PROVE  PublishersJoined'
<1>1. NumPublishers \in Nat
  BY SizesNat DEF SizesNat
<1>2. CASE StopPublisher
  <2>1. main_pc' = "publisher" /\ p_pc' = p_pc /\ batcher' = batcher /\ is_enabled_' = is_enabled_
    BY <1>2 DEF StopPublisher, PublisherStep, mainVars, P!StopProcessedQueue, P!stop,
                P!RequestStopBatcher, P!JoinBatcher, P!StopBatchQueue, P!RequestStop, P!Join,
                P!batcherVars, P!senderVars, P!stopVars
  <2>2. CASE P!Join
    <3>1. /\ p_stop_pc = "clear" /\ p_joined < NumPublishers /\ p_pc[p_joined + 1] = "exited"
          /\ p_joined' = p_joined + 1
          /\ p_stop_pc' = IF p_joined' = NumPublishers THEN "returned" ELSE "clear"
      BY <2>2 DEF P!Join
    <3>2. p_joined' \in 0..NumPublishers /\ \A p \in 1..p_joined' : p_pc[p] = "exited"
      BY <1>1, <3>1 DEF PublishersJoined
    <3> QED
      BY <2>1, <3>1, <3>2 DEF PublishersJoined
  <2>3. CASE ~P!Join
    <3>1. /\ p_joined' = p_joined
          /\ \/ p_stop_pc' = "returned" /\ ~is_enabled_
             \/ p_stop_pc' = "batcher"
             \/ p_stop_pc' = "batch_queue" /\ batcher = "exited"
             \/ p_stop_pc' = "clear" /\ p_stop_pc \in {"batch_queue", "clear"}
      BY <1>2, <2>3 DEF StopPublisher, PublisherStep, P!StopProcessedQueue, P!stop,
                P!RequestStopBatcher, P!JoinBatcher, P!StopBatchQueue, P!RequestStop, P!stopVars
    <3> QED
      BY <2>1, <3>1 DEF PublishersJoined
  <2> QED
    BY <2>2, <2>3
<1>3. CASE PublisherStopped
  BY <1>3 DEF PublisherStopped, publisherVars, PublishersJoined
<1> QED
  BY <1>2, <1>3

\* A step that leaves the pool alone and stays in its part of the shutdown.
LEMMA WorkersUntouched ==
  ASSUME WorkersJoined, UNCHANGED workerVars,
         main_pc' \in {"publisher", "done"} => main_pc \in {"publisher", "done"}
  PROVE  WorkersJoined'
  BY DEF WorkersJoined, workerVars

\* The same for the publisher.
LEMMA PublisherUntouched ==
  ASSUME PublishersJoined, UNCHANGED publisherVars, main_pc' = "done" => main_pc = "done"
  PROVE  PublishersJoined'
  BY DEF PublishersJoined, publisherVars

\* Every step keeps the order.
LEMMA OrderKept == ShutdownOrder /\ [Next]_vars => ShutdownOrder'
<1> SUFFICES ASSUME WorkersJoined, PublishersJoined, [Next]_vars
             PROVE  WorkersJoined' /\ PublishersJoined'
  BY DEF ShutdownOrder
<1>1. CASE \E w \in 1..NumWorkers : worker_loop(w)
  <2>1. UNCHANGED publisherVars /\ main_pc' = main_pc
    BY <1>1 DEF worker_loop, WorkerStep, mainVars
  <2> QED
    BY <1>1, <2>1, WorkerStays, PublisherUntouched
<1>2. CASE batching_loop \/ \E p \in 1..NumPublishers : publisher_loop(p)
  <2>1. UNCHANGED workerVars /\ main_pc' = main_pc
    BY <1>2 DEF batching_loop, publisher_loop, PublisherStep, mainVars
  <2> QED
    BY <1>2, <2>1, PublisherStays, WorkersUntouched
<1>3. CASE StopWorker \/ WorkerStopped
  <2>1. UNCHANGED publisherVars /\ main_pc' # "done"
    BY <1>3 DEF StopWorker, WorkerStopped, WorkerStep, mainVars
  <2> QED
    BY <1>3, <2>1, WorkerStopStep, PublisherUntouched
<1>4. CASE StopPublisher \/ PublisherStopped
  <2>1. UNCHANGED workerVars /\ main_pc = "publisher"
    BY <1>4 DEF StopPublisher, PublisherStopped, PublisherStep, mainVars
  <2> QED
    BY <1>4, <2>1, PublisherStopStep, WorkersUntouched
<1>5. CASE \/ \E k \in Keys, p \in Procs, g \in Geoms, n \in BatchSizes : PushFrame(k, p, g, n)
           \/ UpdateStreams \/ ShutdownRequested \/ JoinStream \/ Done \/ UNCHANGED vars
  <2>1. UNCHANGED <<workerVars, publisherVars>>
    BY <1>5 DEF PushFrame, UpdateStreams, ShutdownRequested, JoinStream, Done, vars
  <2>2. main_pc' = main_pc \/ main_pc' = "stop_all" \/ main_pc' = "worker"
    BY <1>5 DEF PushFrame, UpdateStreams, ShutdownRequested, JoinStream, Done, vars, mainVars
  <2> QED
    BY <2>1, <2>2, WorkersUntouched, PublisherUntouched
<1> QED
  BY <1>1, <1>2, <1>3, <1>4, <1>5 DEF Next, app_logic

(* app_logic returns only after every worker and publisher thread has left  *)
(* its loop, and the publisher is stopped only after every worker has, for  *)
(* any number of threads: no thread uses an object that is gone.            *)
THEOREM NoThreadOutlives == Spec => []NoThreadOutlivesShutdown
<1>1. Init => ShutdownOrder
  BY OrderInitially
<1>2. ShutdownOrder /\ [Next]_vars => ShutdownOrder'
  BY OrderKept
<1>3. ShutdownOrder => NoThreadOutlivesShutdown
  BY DEF ShutdownOrder, WorkersJoined, PublishersJoined, NoThreadOutlivesShutdown
<1> QED
  BY <1>1, <1>2, <1>3, PTL DEF Spec

-----------------------------------------------------------------------------
(* Frames in sequences and queues *)

Queue == [items : Seq(Frame), stopped : BOOLEAN]
BatchQueue == [items : Seq(Seq(Frame)), stopped : BOOLEAN]

\* No id occurs twice in a sequence of frames.
Distinct(s) == \A i, j \in DOMAIN s : s[i].id = s[j].id => i = j

\* The ids in a sequence of batches, and that no two of them share one.
AllIds(s) == UNION {FrameIds(s[i]) : i \in DOMAIN s}
ApartBatches(s) == \A i, j \in DOMAIN s : i # j => FrameIds(s[i]) \cap FrameIds(s[j]) = {}

\* The elements of an extended sequence.
LEMMA AppendElements ==
  ASSUME NEW T, NEW s \in Seq(T), NEW e \in T
  PROVE  \E n : /\ n \notin DOMAIN s /\ DOMAIN Append(s, e) = DOMAIN s \cup {n}
                /\ Append(s, e)[n] = e /\ \A i \in DOMAIN s : Append(s, e)[i] = s[i]
<1>1. PICK n : n = Len(s) + 1
  OBVIOUS
<1>2. /\ DOMAIN Append(s, e) = DOMAIN s \cup {n} /\ Append(s, e)[n] = e
      /\ \A i \in DOMAIN s : Append(s, e)[i] = s[i]
  BY <1>1, AppendProperties, LenProperties
<1>3. n \notin DOMAIN s
  BY <1>1, LenProperties
<1> QED
  BY <1>2, <1>3

\* The elements of a sequence and of its tail.
LEMMA TailElements ==
  ASSUME NEW T, NEW s \in Seq(T), s # <<>>
  PROVE  /\ Tail(s) \in Seq(T) /\ 1 \in DOMAIN s /\ Head(s) = s[1] /\ Head(s) \in T
         /\ \A i \in DOMAIN s : i = 1 \/ (i - 1 \in DOMAIN Tail(s) /\ Tail(s)[i - 1] = s[i])
         /\ \A i \in DOMAIN Tail(s) : i + 1 \in DOMAIN s /\ i + 1 # 1 /\ Tail(s)[i] = s[i + 1]
         /\ DOMAIN Tail(s) \subseteq Int
<1>1. /\ Tail(s) \in Seq(T) /\ Len(Tail(s)) = Len(s) - 1
      /\ \A i \in 1..Len(Tail(s)) : Tail(s)[i] = s[i + 1]
  BY HeadTailProperties
<1>2. Len(s) \in Nat \ {0} /\ Head(s) = s[1]
  BY EmptySeq
<1>3. DOMAIN s = 1..Len(s) /\ DOMAIN Tail(s) = 1..Len(Tail(s))
  BY <1>1, LenProperties
<1>4. \A i \in DOMAIN s : i = 1 \/ (i - 1 \in DOMAIN Tail(s) /\ Tail(s)[i - 1] = s[i])
  BY <1>1, <1>2, <1>3
<1>5. \A i \in DOMAIN Tail(s) : i + 1 \in DOMAIN s /\ i + 1 # 1 /\ Tail(s)[i] = s[i + 1]
  BY <1>1, <1>2, <1>3
<1>6. 1 \in DOMAIN s /\ s[1] \in T
  BY <1>2, <1>3, ElementOfSeq
<1>7. DOMAIN Tail(s) \subseteq Int
  BY <1>1, <1>2, <1>3
<1> QED
  BY <1>1, <1>2, <1>4, <1>5, <1>6, <1>7

\* One frame more.
LEMMA IdsAppend ==
  ASSUME NEW s \in Seq(Frame), NEW f \in Frame
  PROVE  /\ Append(s, f) \in Seq(Frame) /\ Append(s, f) # <<>>
         /\ FrameIds(Append(s, f)) = FrameIds(s) \cup {f.id}
         /\ Distinct(s) /\ f.id \notin FrameIds(s) => Distinct(Append(s, f))
<1>1. Append(s, f) \in Seq(Frame) /\ Append(s, f) # <<>>
  BY AppendProperties
<1>2. PICK n : /\ n \notin DOMAIN s /\ DOMAIN Append(s, f) = DOMAIN s \cup {n}
               /\ Append(s, f)[n] = f /\ \A i \in DOMAIN s : Append(s, f)[i] = s[i]
  BY AppendElements
<1>3. FrameIds(Append(s, f)) = FrameIds(s) \cup {f.id}
  BY <1>2 DEF FrameIds
<1>4. Distinct(s) /\ f.id \notin FrameIds(s) => Distinct(Append(s, f))
  BY <1>2 DEF FrameIds, Distinct
<1> QED
  BY <1>1, <1>3, <1>4

\* One frame less.
LEMMA IdsTail ==
  ASSUME NEW s \in Seq(Frame), s # <<>>, Distinct(s)
  PROVE  /\ Tail(s) \in Seq(Frame) /\ Head(s) \in Frame /\ Head(s).id \in FrameIds(s)
         /\ FrameIds(Tail(s)) = FrameIds(s) \ {Head(s).id} /\ Distinct(Tail(s))
<1>1. /\ Tail(s) \in Seq(Frame) /\ 1 \in DOMAIN s /\ Head(s) = s[1] /\ Head(s) \in Frame
      /\ \A i \in DOMAIN s : i = 1 \/ (i - 1 \in DOMAIN Tail(s) /\ Tail(s)[i - 1] = s[i])
      /\ \A i \in DOMAIN Tail(s) : i + 1 \in DOMAIN s /\ i + 1 # 1 /\ Tail(s)[i] = s[i + 1]
      /\ DOMAIN Tail(s) \subseteq Int
  BY TailElements
<1>2. Head(s).id \in FrameIds(s)
  BY <1>1 DEF FrameIds
<1>3. FrameIds(s) \subseteq FrameIds(Tail(s)) \cup {Head(s).id}
  <2>1. ASSUME NEW i \in DOMAIN s PROVE s[i].id \in FrameIds(Tail(s)) \cup {Head(s).id}
    <3>1. CASE i = 1
      BY <1>1, <3>1
    <3>2. CASE i # 1
      <4>1. i - 1 \in DOMAIN Tail(s) /\ Tail(s)[i - 1].id = s[i].id
        BY <1>1, <3>2
      <4> QED
        BY <4>1 DEF FrameIds
    <3> QED
      BY <3>1, <3>2
  <2> QED
    BY <2>1 DEF FrameIds
<1>4. ASSUME NEW i \in DOMAIN Tail(s) PROVE Tail(s)[i].id \in FrameIds(s) \ {Head(s).id}
  <2>1. i + 1 \in DOMAIN s /\ s[i + 1].id # s[1].id
    BY <1>1 DEF Distinct
  <2> QED
    BY <1>1, <2>1 DEF FrameIds
<1>5. FrameIds(Tail(s)) \subseteq FrameIds(s) \ {Head(s).id}
  BY <1>4 DEF FrameIds
<1>6. Distinct(Tail(s))
  <2> SUFFICES ASSUME NEW i \in DOMAIN Tail(s), NEW j \in DOMAIN Tail(s), Tail(s)[i].id = Tail(s)[j].id
               PROVE  i = j
    BY DEF Distinct
  <2>1. i + 1 = j + 1
    BY <1>1 DEF Distinct
  <2> QED
    BY <1>1, <2>1
<1> QED
  BY <1>1, <1>2, <1>3, <1>5, <1>6

\* One batch more.
LEMMA BatchesAppend ==
  ASSUME NEW s \in Seq(Seq(Frame)), NEW b \in Seq(Frame)
  PROVE  /\ Append(s, b) \in Seq(Seq(Frame))
         /\ AllIds(Append(s, b)) = AllIds(s) \cup FrameIds(b)
         /\ ApartBatches(s) /\ AllIds(s) \cap FrameIds(b) = {} => ApartBatches(Append(s, b))
         /\ (\A i \in DOMAIN s : s[i] # <<>>) /\ b # <<>> =>
              \A i \in DOMAIN Append(s, b) : Append(s, b)[i] # <<>>
<1>1. Append(s, b) \in Seq(Seq(Frame))
  BY AppendProperties
<1>2. PICK n : /\ n \notin DOMAIN s /\ DOMAIN Append(s, b) = DOMAIN s \cup {n}
               /\ Append(s, b)[n] = b /\ \A i \in DOMAIN s : Append(s, b)[i] = s[i]
  <2>1. PICK T : T = Seq(Frame)
    OBVIOUS
  <2>2. s \in Seq(T) /\ b \in T
    BY <2>1
  <2> QED
    BY <2>2, AppendElements
<1>3. AllIds(Append(s, b)) = AllIds(s) \cup FrameIds(b)
  BY <1>2 DEF AllIds
<1>4. ASSUME ApartBatches(s), AllIds(s) \cap FrameIds(b) = {} PROVE ApartBatches(Append(s, b))
  <2>1. \A i \in DOMAIN s : FrameIds(s[i]) \cap FrameIds(b) = {}
    BY <1>4 DEF AllIds
  <2> QED
    BY <1>2, <1>4, <2>1 DEF ApartBatches
<1>5. (\A i \in DOMAIN s : s[i] # <<>>) /\ b # <<>> =>
              \A i \in DOMAIN Append(s, b) : Append(s, b)[i] # <<>>
  BY <1>2
<1> QED
  BY <1>1, <1>3, <1>4, <1>5

\* One batch less.
LEMMA BatchesTail ==
  ASSUME NEW s \in Seq(Seq(Frame)), s # <<>>, ApartBatches(s), \A i \in DOMAIN s : s[i] # <<>>
  PROVE  /\ Tail(s) \in Seq(Seq(Frame)) /\ Head(s) \in Seq(Frame) /\ Head(s) # <<>>
         /\ FrameIds(Head(s)) \subseteq AllIds(s)
         /\ AllIds(Tail(s)) = AllIds(s) \ FrameIds(Head(s)) /\ ApartBatches(Tail(s))
         /\ \A i \in DOMAIN Tail(s) : Tail(s)[i] # <<>>
<1>1. /\ Tail(s) \in Seq(Seq(Frame)) /\ 1 \in DOMAIN s /\ Head(s) = s[1] /\ Head(s) \in Seq(Frame)
      /\ \A i \in DOMAIN s : i = 1 \/ (i - 1 \in DOMAIN Tail(s) /\ Tail(s)[i - 1] = s[i])
      /\ \A i \in DOMAIN Tail(s) : i + 1 \in DOMAIN s /\ i + 1 # 1 /\ Tail(s)[i] = s[i + 1]
      /\ DOMAIN Tail(s) \subseteq Int
  BY TailElements
<1>2. FrameIds(Head(s)) \subseteq AllIds(s)
  BY <1>1 DEF AllIds
<1>3. AllIds(s) \subseteq AllIds(Tail(s)) \cup FrameIds(Head(s))
  BY <1>1 DEF AllIds
<1>4. ASSUME NEW i \in DOMAIN Tail(s) PROVE FrameIds(Tail(s)[i]) \subseteq AllIds(s) \ FrameIds(Head(s))
  <2>1. i + 1 \in DOMAIN s /\ FrameIds(s[i + 1]) \cap FrameIds(s[1]) = {}
    BY <1>1 DEF ApartBatches
  <2> QED
    BY <1>1, <2>1 DEF AllIds
<1>5. AllIds(Tail(s)) \subseteq AllIds(s) \ FrameIds(Head(s))
  BY <1>4 DEF AllIds
<1>6. ApartBatches(Tail(s))
  <2> SUFFICES ASSUME NEW i \in DOMAIN Tail(s), NEW j \in DOMAIN Tail(s), i # j
               PROVE  FrameIds(Tail(s)[i]) \cap FrameIds(Tail(s)[j]) = {}
    BY DEF ApartBatches
  <2>1. i + 1 # j + 1
    BY <1>1
  <2> QED
    BY <1>1, <2>1 DEF ApartBatches
<1>7. Head(s) # <<>> /\ \A i \in DOMAIN Tail(s) : Tail(s)[i] # <<>>
  BY <1>1
<1> QED
  BY <1>1, <1>2, <1>3, <1>5, <1>6, <1>7

\* push of a frame: a stopped queue stays as it is.
LEMMA PushFacts ==
  ASSUME NEW q \in Queue, NEW f \in Frame, Distinct(q.items), f.id \notin FrameIds(q.items),
         NEW r, r = Push(q, f)
  PROVE  /\ r \in Queue /\ r.stopped = q.stopped /\ Distinct(r.items)
         /\ q.stopped => FrameIds(r.items) = FrameIds(q.items)
         /\ ~q.stopped => FrameIds(r.items) = FrameIds(q.items) \cup {f.id}
<1>1. q.items \in Seq(Frame) /\ q.stopped \in BOOLEAN /\ q = [items |-> q.items, stopped |-> q.stopped]
  BY DEF Queue
<1>2. CASE q.stopped
  BY <1>2 DEF Push
<1>3. CASE ~q.stopped
  <2>1. r = [items |-> Append(q.items, f), stopped |-> q.stopped]
    BY <1>1, <1>3 DEF Push
  <2>2. /\ Append(q.items, f) \in Seq(Frame) /\ Distinct(Append(q.items, f))
        /\ FrameIds(Append(q.items, f)) = FrameIds(q.items) \cup {f.id}
    BY <1>1, IdsAppend
  <2> QED
    BY <1>1, <1>3, <2>1, <2>2 DEF Queue
<1> QED
  BY <1>2, <1>3

\* wait_and_pop of a frame.
LEMMA PopFacts ==
  ASSUME NEW q \in Queue, Distinct(q.items), HasItem(q), NEW r, r = Pop(q)
  PROVE  /\ r \in Queue /\ r.stopped = q.stopped /\ Distinct(r.items)
         /\ Oldest(q) \in Frame /\ Oldest(q).id \in FrameIds(q.items)
         /\ FrameIds(r.items) = FrameIds(q.items) \ {Oldest(q).id}
<1>1. q.items \in Seq(Frame) /\ q.stopped \in BOOLEAN /\ q = [items |-> q.items, stopped |-> q.stopped]
  BY DEF Queue
<1>2. r = [items |-> Tail(q.items), stopped |-> q.stopped]
  BY <1>1 DEF Pop
<1>3. /\ Tail(q.items) \in Seq(Frame) /\ Oldest(q) \in Frame /\ Oldest(q).id \in FrameIds(q.items)
      /\ FrameIds(Tail(q.items)) = FrameIds(q.items) \ {Oldest(q).id} /\ Distinct(Tail(q.items))
  BY <1>1, IdsTail DEF HasItem, Oldest
<1> QED
  BY <1>1, <1>2, <1>3 DEF Queue

\* The same for batches.
LEMMA PushBatchFacts ==
  ASSUME NEW q \in BatchQueue, NEW b \in Seq(Frame), b # <<>>, ApartBatches(q.items),
         \A i \in DOMAIN q.items : q.items[i] # <<>>,
         AllIds(q.items) \cap FrameIds(b) = {}, NEW r, r = Push(q, b)
  PROVE  /\ r \in BatchQueue /\ r.stopped = q.stopped /\ ApartBatches(r.items)
         /\ \A i \in DOMAIN r.items : r.items[i] # <<>>
         /\ q.stopped => AllIds(r.items) = AllIds(q.items)
         /\ ~q.stopped => AllIds(r.items) = AllIds(q.items) \cup FrameIds(b)
<1>1. q.items \in Seq(Seq(Frame)) /\ q.stopped \in BOOLEAN /\ q = [items |-> q.items, stopped |-> q.stopped]
  BY DEF BatchQueue
<1>2. CASE q.stopped
  BY <1>2 DEF Push
<1>3. CASE ~q.stopped
  <2>1. r = [items |-> Append(q.items, b), stopped |-> q.stopped]
    BY <1>1, <1>3 DEF Push
  <2>2. /\ Append(q.items, b) \in Seq(Seq(Frame)) /\ ApartBatches(Append(q.items, b))
        /\ AllIds(Append(q.items, b)) = AllIds(q.items) \cup FrameIds(b)
        /\ \A i \in DOMAIN Append(q.items, b) : Append(q.items, b)[i] # <<>>
    BY <1>1, BatchesAppend
  <2> QED
    BY <1>1, <1>3, <2>1, <2>2 DEF BatchQueue
<1> QED
  BY <1>2, <1>3

\* What pop() takes from batch_queue_ and what it leaves there.
LEMMA PopBatchFacts ==
  ASSUME NEW q \in BatchQueue, ApartBatches(q.items), \A i \in DOMAIN q.items : q.items[i] # <<>>,
         HasItem(q), NEW r, r = Pop(q)
  PROVE  /\ r \in BatchQueue /\ r.stopped = q.stopped /\ ApartBatches(r.items)
         /\ \A i \in DOMAIN r.items : r.items[i] # <<>>
         /\ Oldest(q) \in Seq(Frame) /\ Oldest(q) # <<>> /\ FrameIds(Oldest(q)) \subseteq AllIds(q.items)
         /\ AllIds(r.items) = AllIds(q.items) \ FrameIds(Oldest(q))
<1>1. q.items \in Seq(Seq(Frame)) /\ q.stopped \in BOOLEAN /\ q = [items |-> q.items, stopped |-> q.stopped]
  BY DEF BatchQueue
<1>2. r = [items |-> Tail(q.items), stopped |-> q.stopped]
  BY <1>1 DEF Pop
<1>3. /\ Tail(q.items) \in Seq(Seq(Frame)) /\ Oldest(q) \in Seq(Frame) /\ Oldest(q) # <<>>
      /\ FrameIds(Oldest(q)) \subseteq AllIds(q.items)
      /\ AllIds(Tail(q.items)) = AllIds(q.items) \ FrameIds(Oldest(q)) /\ ApartBatches(Tail(q.items))
      /\ \A i \in DOMAIN Tail(q.items) : Tail(q.items)[i] # <<>>
  BY <1>1, BatchesTail DEF HasItem, Oldest
<1> QED
  BY <1>1, <1>2, <1>3 DEF BatchQueue

\* stop of either queue.
LEMMA StopFacts ==
  ASSUME NEW q, q \in Queue \/ q \in BatchQueue, NEW r, r = StopQueue(q)
  PROVE  /\ r.items = q.items /\ r.stopped = TRUE
         /\ (q \in Queue => r \in Queue) /\ (q \in BatchQueue => r \in BatchQueue)
<1>1. r = [items |-> q.items, stopped |-> TRUE]
  BY DEF Queue, BatchQueue, StopQueue
<1> QED
  BY <1>1 DEF Queue, BatchQueue

-----------------------------------------------------------------------------
(* Frames held by threads or by key: a family of sets of ids *)

Total(F, I) == UNION {F[i] : i \in I}
ApartIn(F, I) == \A i, j \in I : i # j => F[i] \cap F[j] = {}

\* G is F after member k took X, gave all it had, gave X, or gave X to member l.
Takes(F, G, I, k, X) ==
  /\ k \in I /\ G[k] = F[k] \cup X /\ X \cap Total(F, I) = {} /\ ApartIn(F, I)
  /\ \A i \in I : i # k => G[i] = F[i]
Empties(F, G, I, k) ==
  k \in I /\ G[k] = {} /\ ApartIn(F, I) /\ \A i \in I : i # k => G[i] = F[i]
Gives(F, G, I, k, X) ==
  /\ k \in I /\ X \subseteq F[k] /\ G[k] = F[k] \ X /\ ApartIn(F, I)
  /\ \A i \in I \ {k} : G[i] = F[i]
Passes(F, G, I, k, l, X) ==
  /\ k \in I /\ l \in I /\ k # l /\ X \subseteq F[k] /\ G[k] = F[k] \ X /\ G[l] = F[l] \cup X
  /\ ApartIn(F, I) /\ \A i \in I \ {k, l} : G[i] = F[i]

\* One member takes more.
LEMMA MemberGrows ==
  ASSUME NEW I, NEW F, NEW G, NEW k, NEW X, Takes(F, G, I, k, X)
  PROVE  Total(G, I) = Total(F, I) \cup X /\ ApartIn(G, I)
<1> USE DEF Takes
<1>1. \A i \in I : F[i] \subseteq Total(F, I)
  BY DEF Total
<1>2. ApartIn(G, I)
  BY <1>1 DEF ApartIn
<1>3. Total(G, I) = Total(F, I) \cup X
  BY DEF Total
<1> QED
  BY <1>2, <1>3

\* One member gives all it has.
LEMMA MemberEmptied ==
  ASSUME NEW I, NEW F, NEW G, NEW k, Empties(F, G, I, k)
  PROVE  Total(G, I) = Total(F, I) \ F[k] /\ ApartIn(G, I) /\ F[k] \subseteq Total(F, I)
<1> USE DEF Empties
<1>1. ApartIn(G, I)
  BY DEF ApartIn
<1>2. \A i \in I : i # k => F[i] \cap F[k] = {}
  BY DEF ApartIn
<1>3. Total(G, I) = Total(F, I) \ F[k]
  BY <1>2 DEF Total
<1> QED
  BY <1>1, <1>3 DEF Total

\* One member passes a part of what it has on to another.
LEMMA MemberPasses ==
  ASSUME NEW I, NEW F, NEW G, NEW i, NEW j, NEW X, Passes(F, G, I, i, j, X)
  PROVE  Total(G, I) = Total(F, I) /\ ApartIn(G, I)
<1> USE DEF Passes
<1>1. ASSUME NEW k \in I, k # i PROVE F[k] \cap X = {}
  BY <1>1 DEF ApartIn
<1>2. ASSUME NEW k \in I, NEW l \in I, k # l, NEW x, x \in G[k], x \in G[l] PROVE FALSE
  <2>1. CASE x \in X
    BY <1>1, <1>2, <2>1
  <2>2. CASE x \notin X
    <3>1. x \in F[k] /\ x \in F[l]
      BY <1>2, <2>2
    <3> QED
      BY <1>2, <3>1 DEF ApartIn
  <2> QED
    BY <2>1, <2>2
<1>3. ApartIn(G, I)
  BY <1>2 DEF ApartIn
<1>4. \A x : \A k \in I : x \in G[k] => \E l \in I : x \in F[l]
  OBVIOUS
<1>5. \A x : \A k \in I : x \in F[k] => \E l \in I : x \in G[l]
  OBVIOUS
<1>6. Total(G, I) = Total(F, I)
  BY <1>4, <1>5 DEF Total
<1> QED
  BY <1>3, <1>6

\* One member loses a part of what it has.
LEMMA MemberLoses ==
  ASSUME NEW I, NEW F, NEW G, NEW i, NEW X, Gives(F, G, I, i, X)
  PROVE  Total(G, I) = Total(F, I) \ X /\ ApartIn(G, I) /\ X \subseteq Total(F, I)
<1> USE DEF Gives
<1>1. ASSUME NEW k \in I, k # i PROVE F[k] \cap X = {}
  BY <1>1 DEF ApartIn
<1>2. ApartIn(G, I)
  BY DEF ApartIn
<1>3. \A x : \A k \in I : x \in G[k] => x \notin X /\ x \in F[k]
  BY <1>1
<1>4. \A x : \A k \in I : x \in F[k] /\ x \notin X => x \in G[k]
  OBVIOUS
<1>5. Total(G, I) = Total(F, I) \ X
  BY <1>3, <1>4 DEF Total
<1> QED
  BY <1>2, <1>5 DEF Total

-----------------------------------------------------------------------------
(* Where the frames are *)

WorkerIds == [w \in 1..NumWorkers |-> IF w_frame[w] = NoFrame THEN {} ELSE {w_frame[w].id}]
CurrentIds == [k \in Keys |-> FrameIds(current_batches[k])]
SenderIds == [p \in 1..NumPublishers |-> IF batch[p] = NoBatch THEN {} ELSE FrameIds(batch[p])]

\* The ids at each stage of the pipeline.
Parts ==
  [decode |-> FrameIds(decode_frame_queue.items),
   workers |-> Total(WorkerIds, 1..NumWorkers),
   processed |-> FrameIds(processed_frame_queue.items),
   batcher |-> IF b_frame = NoFrame THEN {} ELSE {b_frame.id},
   current |-> Total(CurrentIds, Keys),
   queue |-> AllIds(batch_queue_.items),
   senders |-> Total(SenderIds, 1..NumPublishers)]
Stages == {"decode", "workers", "processed", "batcher", "current", "queue", "senders"}

\* Each stage has its types and holds no frame twice; a thread holds a frame or
\* a batch just while it handles one.
DecodeOK == decode_frame_queue \in Queue /\ Distinct(decode_frame_queue.items)
ProcessedOK == processed_frame_queue \in Queue /\ Distinct(processed_frame_queue.items)
WorkersOK ==
  /\ w_pc \in [1..NumWorkers -> {"loop", "pop", "frame", "save", "exited"}]
  /\ w_frame \in [1..NumWorkers -> Frame \cup {NoFrame}]
  /\ \A w \in 1..NumWorkers : w_frame[w] # NoFrame <=> w_pc[w] \in {"frame", "save"}
  /\ ApartIn(WorkerIds, 1..NumWorkers)
BatcherOK ==
  /\ b_frame \in Frame \cup {NoFrame} /\ (b_frame # NoFrame <=> batcher = "frame")
  /\ current_batches \in [Keys -> Seq(Frame)]
  /\ ApartIn(CurrentIds, Keys)
QueueOK ==
  /\ batch_queue_ \in BatchQueue /\ ApartBatches(batch_queue_.items)
  /\ \A i \in DOMAIN batch_queue_.items : batch_queue_.items[i] # <<>>
SendersOK ==
  /\ p_pc \in [1..NumPublishers -> {"loop", "pop", "send", "exited"}]
  /\ batch \in [1..NumPublishers -> Seq(Frame) \cup {NoBatch}]
  /\ \A p \in 1..NumPublishers : batch[p] # <<>> /\ (batch[p] # NoBatch <=> p_pc[p] = "send")
  /\ ApartIn(SenderIds, 1..NumPublishers)
HistoryOK == redis \in Seq(Seq(Frame)) /\ lost_replies \in Seq(Seq(Frame))

\* The queues are closed one after the other, batch_queue_ when nothing fills it.
ClosedInOrder ==
  /\ w_stop_pc # "no" => decode_frame_queue.stopped
  /\ processed_frame_queue.stopped => decode_frame_queue.stopped
  /\ batch_queue_.stopped => decode_frame_queue.stopped /\ batcher = "exited"

\* No frame is at two stages, and none is there that was not produced.
Places ==
  /\ produced \in 0..MaxFrames
  /\ ApartIn(Parts, Stages) /\ Total(Parts, Stages) \subseteq 1..produced

Flow ==
  /\ DecodeOK /\ ProcessedOK /\ WorkersOK /\ BatcherOK /\ QueueOK /\ SendersOK /\ HistoryOK
  /\ ClosedInOrder /\ Places

\* What each stage holds.
LEMMA PartsValues ==
  /\ Parts.decode = FrameIds(decode_frame_queue.items)
  /\ Parts.workers = Total(WorkerIds, 1..NumWorkers)
  /\ Parts.processed = FrameIds(processed_frame_queue.items)
  /\ Parts.batcher = IF b_frame = NoFrame THEN {} ELSE {b_frame.id}
  /\ Parts.current = Total(CurrentIds, Keys)
  /\ Parts.queue = AllIds(batch_queue_.items)
  /\ Parts.senders = Total(SenderIds, 1..NumPublishers)
  BY DEF Parts

\* The same after a step.
LEMMA PartsValuesPrimed ==
  /\ Parts'.decode = FrameIds(decode_frame_queue'.items)
  /\ Parts'.workers = Total(WorkerIds', 1..NumWorkers)
  /\ Parts'.processed = FrameIds(processed_frame_queue'.items)
  /\ Parts'.batcher = IF b_frame' = NoFrame THEN {} ELSE {b_frame'.id}
  /\ Parts'.current = Total(CurrentIds', Keys)
  /\ Parts'.queue = AllIds(batch_queue_'.items)
  /\ Parts'.senders = Total(SenderIds', 1..NumPublishers)
  BY DEF Parts, Total, AllIds

\* A union over the stages.
LEMMA StagesTotal ==
  ASSUME NEW F
  PROVE  Total(F, Stages) = F["decode"] \cup F["workers"] \cup F["processed"] \cup F["batcher"]
                              \cup F["current"] \cup F["queue"] \cup F["senders"]
  BY DEF Total, Stages

\* The stages together are what is in flight.
LEMMA InFlightParts == InFlight = Total(Parts, Stages)
<1>1. Parts.workers = {w_frame[w].id : w \in {x \in 1..NumWorkers : w_frame[x] # NoFrame}}
  <2>1. Total(WorkerIds, 1..NumWorkers) =
          {w_frame[w].id : w \in {x \in 1..NumWorkers : w_frame[x] # NoFrame}}
    BY DEF Total, WorkerIds
  <2> QED
    BY <2>1, PartsValues
<1>2. Parts.current = UNION {FrameIds(current_batches[k]) : k \in Keys}
  <2>1. Total(CurrentIds, Keys) = UNION {FrameIds(current_batches[k]) : k \in Keys}
    BY DEF Total, CurrentIds
  <2> QED
    BY <2>1, PartsValues
<1>3. Parts.queue \cup Parts.senders = UNION {FrameIds(b) : b \in P!Queued \cup P!Held}
  <2>1. AllIds(batch_queue_.items) = UNION {FrameIds(b) : b \in P!Queued}
    BY DEF AllIds, P!Queued, P!ToSet
  <2>2. Total(SenderIds, 1..NumPublishers) = UNION {FrameIds(b) : b \in P!Held}
    BY DEF Total, SenderIds, P!Held, P!Publishers
  <2>3. UNION {FrameIds(b) : b \in P!Queued \cup P!Held} =
          (UNION {FrameIds(b) : b \in P!Queued}) \cup UNION {FrameIds(b) : b \in P!Held}
    OBVIOUS
  <2> QED
    BY <2>1, <2>2, <2>3, PartsValues
<1>4. PICK A, B, C, D, E, X :
        /\ A = FrameIds(decode_frame_queue.items)
        /\ B = {w_frame[w].id : w \in {x \in 1..NumWorkers : w_frame[x] # NoFrame}}
        /\ C = FrameIds(processed_frame_queue.items)
        /\ D = (IF b_frame = NoFrame THEN {} ELSE {b_frame.id})
        /\ E = UNION {FrameIds(current_batches[k]) : k \in Keys}
        /\ X = UNION {FrameIds(b) : b \in P!Queued \cup P!Held}
  OBVIOUS
<1>5. InFlight = A \cup B \cup C \cup D \cup E \cup X
  BY <1>4, Zenon DEF InFlight
<1>6. PICK F, G : F = Parts.queue /\ G = Parts.senders
  OBVIOUS
<1>7. /\ A = Parts.decode /\ B = Parts.workers /\ C = Parts.processed /\ D = Parts.batcher
      /\ E = Parts.current /\ X = F \cup G
  BY <1>1, <1>2, <1>3, <1>4, <1>6, PartsValues
<1>8. Total(Parts, Stages) = A \cup B \cup C \cup D \cup E \cup F \cup G
  BY <1>6, <1>7, StagesTotal
<1> QED
  BY <1>5, <1>7, <1>8

\* The same after a step.
LEMMA InFlightPartsPrimed == InFlight' = Total(Parts', Stages)
<1>1. (InFlight = Total(Parts, Stages))'
  BY InFlightParts, PTL
<1> QED
  BY <1>1 DEF Total, Stages
-----------------------------------------------------------------------------
(* How a step moves frames between the stages *)

\* Nothing moves.
LEMMA NothingMoves ==
  ASSUME Places, \A k \in Stages : Parts'[k] = Parts[k], produced' = produced
  PROVE  Places' /\ InFlight' = InFlight
<1>1. Total(Parts', Stages) = Total(Parts, Stages)
  BY DEF Total
<1>2. ApartIn(Parts', Stages)
  BY DEF ApartIn, Places
<1> QED
  BY <1>1, <1>2, InFlightParts, InFlightPartsPrimed DEF Places, ApartIn, Total

\* The ids X go from stage i to stage j.
LEMMA FramesMove ==
  ASSUME Places, NEW i \in Stages, NEW j \in Stages, i # j, NEW X, X \subseteq Parts[i],
         Parts'[i] = Parts[i] \ X, Parts'[j] = Parts[j] \cup X,
         \A k \in Stages \ {i, j} : Parts'[k] = Parts[k], produced' = produced
  PROVE  Places' /\ InFlight' = InFlight
<1>1. ApartIn(Parts, Stages)
  BY DEF Places
<1>2. Total(Parts', Stages) = Total(Parts, Stages) /\ ApartIn(Parts', Stages)
  <2>1. Passes(Parts, Parts', Stages, i, j, X)
    BY <1>1 DEF Passes
  <2> QED
    BY <2>1, MemberPasses
<1> QED
  BY <1>2, InFlightParts, InFlightPartsPrimed DEF Places, ApartIn, Total

\* The ids X leave stage i and the pipeline.
LEMMA FramesLeave ==
  ASSUME Places, NEW i \in Stages, NEW X, X \subseteq Parts[i], Parts'[i] = Parts[i] \ X,
         \A k \in Stages \ {i} : Parts'[k] = Parts[k], produced' = produced
  PROVE  Places' /\ InFlight' = InFlight \ X /\ X \subseteq InFlight
<1>1. ApartIn(Parts, Stages)
  BY DEF Places
<1>2. Total(Parts', Stages) = Total(Parts, Stages) \ X /\ ApartIn(Parts', Stages) /\ X \subseteq Total(Parts, Stages)
  <2>1. Gives(Parts, Parts', Stages, i, X)
    BY <1>1 DEF Gives
  <2> QED
    BY <2>1, MemberLoses
<1>3. Total(Parts', Stages) \subseteq 1..produced
  BY <1>2 DEF Places
<1> QED
  BY <1>2, <1>3, InFlightParts, InFlightPartsPrimed DEF Places, ApartIn, Total

-----------------------------------------------------------------------------
(* What FrameDelivery allows *)

\* Nothing that FrameDelivery speaks of changes.
LEMMA Stutters ==
  ASSUME InFlight' = InFlight, UNCHANGED <<redis, failed, refused, dry_run, lost_replies, produced>>,
         decode_frame_queue'.stopped = decode_frame_queue.stopped
  PROVE  [Delivery!Next]_Delivery!dvars
  BY DEF Delivery!dvars

\* Frames are dropped for a known cause.
LEMMA Drops ==
  ASSUME NEW X, X # {}, X \subseteq InFlight, InFlight' = InFlight \ X,
         UNCHANGED <<redis, lost_replies, produced>>,
         decode_frame_queue'.stopped = decode_frame_queue.stopped,
         \/ failed' = failed \cup X /\ UNCHANGED <<refused, dry_run>>
         \/ /\ failed' = failed
            /\ \E b : FrameIds(b) = X /\ refused' \cup dry_run' = refused \cup dry_run \cup {b}
  PROVE  [Delivery!Next]_Delivery!dvars
<1>1. failed' \cup UNION {FrameIds(b) : b \in refused' \cup dry_run'}
        = (failed \cup UNION {FrameIds(b) : b \in refused \cup dry_run}) \cup X
  OBVIOUS
<1>2. Delivery!Drop(X)
  BY <1>1 DEF Delivery!Drop
<1> QED
  BY <1>2 DEF Delivery!Next

\* The shutdown loses frames.
LEMMA Loses ==
  ASSUME NEW X, X # {}, X \subseteq InFlight, InFlight' = InFlight \ X,
         UNCHANGED <<redis, failed, refused, dry_run, lost_replies, produced>>,
         decode_frame_queue'.stopped = decode_frame_queue.stopped, decode_frame_queue.stopped
  PROVE  [Delivery!Next]_Delivery!dvars
<1>1. Delivery!Lose(X)
  BY DEF Delivery!Lose
<1> QED
  BY <1>1 DEF Delivery!Next

\* The entries of Redis after one more.
LEMMA EntryAdded ==
  ASSUME redis \in Seq(Seq(Frame)), NEW b \in Seq(Frame), redis' = Append(redis, b)
  PROVE  /\ redis' \in Seq(Seq(Frame))
         /\ [i \in DOMAIN redis' |-> FrameIds(redis'[i])] =
              Append([i \in DOMAIN redis |-> FrameIds(redis[i])], FrameIds(b))
<1>1. PICK T : T = Seq(Frame)
  OBVIOUS
<1>2. redis \in Seq(T) /\ b \in T
  BY <1>1
<1>3. redis' \in Seq(T)
  BY <1>2, AppendProperties
<1>4. PICK p : p = [i \in DOMAIN redis |-> FrameIds(redis[i])]
  OBVIOUS
<1>5. PICK n \in Nat : n = Len(redis) /\ DOMAIN redis = 1..n
  BY <1>2, LenProperties
<1>6. PICK S : S = {p[i] : i \in 1..n} \cup {FrameIds(b)}
  OBVIOUS
<1>7. Len(p) = n /\ DOMAIN p = 1..n
  BY <1>4, <1>5
<1>8. DOMAIN redis' = 1..(n + 1) /\ redis'[n + 1] = b /\ \A i \in 1..n : redis'[i] = redis[i]
  BY <1>2, <1>5, AppendProperties
<1>9. Append(p, FrameIds(b)) = [i \in 1..(n + 1) |-> IF i = n + 1 THEN FrameIds(b) ELSE p[i]]
  <2>1. p \in [1..n -> S] /\ FrameIds(b) \in S
    BY <1>4, <1>5, <1>6
  <2>2. p \in Seq(S)
    BY <2>1, SeqDef
  <2>3. PICK q : q = Append(p, FrameIds(b))
    OBVIOUS
  <2>4. q \in Seq(S) /\ Len(q) = n + 1 /\ (\A i \in 1..n : q[i] = p[i]) /\ q[n + 1] = FrameIds(b)
    BY <1>7, <2>1, <2>2, <2>3, AppendProperties
  <2>5. q \in [1..(n + 1) -> S]
    BY <2>4, LenProperties
  <2>6. \A i \in 1..(n + 1) : i = n + 1 \/ i \in 1..n
    OBVIOUS
  <2>7. q = [i \in 1..(n + 1) |-> IF i = n + 1 THEN FrameIds(b) ELSE p[i]]
    <3>1. \A i \in 1..(n + 1) : q[i] = IF i = n + 1 THEN FrameIds(b) ELSE p[i]
      BY <2>4, <2>6
    <3> QED
      BY <2>5, <3>1
  <2> QED
    BY <2>3, <2>7
<1>10. [i \in DOMAIN redis' |-> FrameIds(redis'[i])] =
        [i \in 1..(n + 1) |-> IF i = n + 1 THEN FrameIds(b) ELSE p[i]]
  BY <1>4, <1>5, <1>8
<1> QED
  BY <1>1, <1>3, <1>4, <1>9, <1>10

\* A batch is stored and answered.
LEMMA Publishes ==
  ASSUME redis \in Seq(Seq(Frame)), NEW b \in Seq(Frame), FrameIds(b) # {}, FrameIds(b) \subseteq InFlight,
         InFlight' = InFlight \ FrameIds(b), redis' = Append(redis, b),
         UNCHANGED <<failed, refused, dry_run, lost_replies, produced>>,
         decode_frame_queue'.stopped = decode_frame_queue.stopped
  PROVE  [Delivery!Next]_Delivery!dvars
<1>1. [i \in DOMAIN redis' |-> FrameIds(redis'[i])] =
        Append([i \in DOMAIN redis |-> FrameIds(redis[i])], FrameIds(b))
  BY EntryAdded
<1>2. Delivery!Publish(FrameIds(b))
  BY <1>1 DEF Delivery!Publish
<1> QED
  BY <1>2 DEF Delivery!Next

\* A batch is stored and the reply is lost: it stays in flight, unless the
\* shutdown loses it.
LEMMA PublishesUnanswered ==
  ASSUME redis \in Seq(Seq(Frame)), lost_replies \in Seq(Seq(Frame)), NEW b \in Seq(Frame),
         FrameIds(b) # {}, FrameIds(b) \subseteq InFlight,
         InFlight' = InFlight \/ (decode_frame_queue.stopped /\ InFlight' = InFlight \ FrameIds(b)),
         redis' = Append(redis, b), lost_replies' = Append(lost_replies, b),
         UNCHANGED <<failed, refused, dry_run, produced>>,
         decode_frame_queue'.stopped = decode_frame_queue.stopped
  PROVE  [Delivery!Next]_Delivery!dvars
<1>1. [i \in DOMAIN redis' |-> FrameIds(redis'[i])] =
        Append([i \in DOMAIN redis |-> FrameIds(redis[i])], FrameIds(b))
  BY EntryAdded
<1>2. Len(lost_replies') = Len(lost_replies) + 1
  BY AppendProperties
<1>3. Delivery!PublishUnacknowledged(FrameIds(b))
  BY <1>1, <1>2 DEF Delivery!PublishUnacknowledged
<1> QED
  BY <1>3 DEF Delivery!Next

-----------------------------------------------------------------------------
(* The stages one by one: what a step that leaves one alone, fills it or    *)
(* empties it does to its frames.                                           *)

\* A step that leaves decode_frame_queue alone keeps its frames in it.
LEMMA DecodeSame ==
  ASSUME UNCHANGED decode_frame_queue
  PROVE  Parts'.decode = Parts.decode /\ (DecodeOK => DecodeOK')
  BY PartsValues, PartsValuesPrimed DEF DecodeOK, Distinct

\* A step that leaves processed_frame_queue alone keeps its frames in it.
LEMMA ProcessedSame ==
  ASSUME UNCHANGED processed_frame_queue
  PROVE  Parts'.processed = Parts.processed /\ (ProcessedOK => ProcessedOK')
  BY PartsValues, PartsValuesPrimed DEF ProcessedOK, Distinct

\* A step of no worker keeps the frames that the workers hold.
LEMMA WorkersSame ==
  ASSUME UNCHANGED <<w_pc, w_frame>>
  PROVE  Parts'.workers = Parts.workers /\ (WorkersOK => WorkersOK')
<1>1. WorkerIds' = WorkerIds
  BY DEF WorkerIds
<1> QED
  BY <1>1, PartsValues, PartsValuesPrimed DEF WorkersOK, ApartIn

\* A step outside the batching thread keeps the frames it holds and its open batches.
LEMMA BatcherSame ==
  ASSUME UNCHANGED <<batcher, b_frame, current_batches>>
  PROVE  Parts'.batcher = Parts.batcher /\ Parts'.current = Parts.current /\ (BatcherOK => BatcherOK')
<1>1. CurrentIds' = CurrentIds
  BY DEF CurrentIds
<1> QED
  BY <1>1, PartsValues, PartsValuesPrimed DEF BatcherOK, ApartIn

\* A step that leaves batch_queue_ alone keeps its batches in it.
LEMMA QueueSame ==
  ASSUME UNCHANGED batch_queue_
  PROVE  Parts'.queue = Parts.queue /\ (QueueOK => QueueOK')
  BY PartsValues, PartsValuesPrimed DEF QueueOK, ApartBatches

\* A step of no publishing thread keeps the batches that they hold.
LEMMA SendersSame ==
  ASSUME UNCHANGED <<p_pc, batch>>
  PROVE  Parts'.senders = Parts.senders /\ (SendersOK => SendersOK')
<1>1. SenderIds' = SenderIds
  BY DEF SenderIds
<1> QED
  BY <1>1, PartsValues, PartsValuesPrimed DEF SendersOK, ApartIn

\* Worker w goes on to another place of its loop with the frame f or with none.
LEMMA WorkerSets ==
  ASSUME WorkersOK, NEW w \in 1..NumWorkers, NEW f \in Frame \cup {NoFrame},
         NEW v \in {"loop", "pop", "frame", "save", "exited"}, f # NoFrame <=> v \in {"frame", "save"},
         w_frame' = [w_frame EXCEPT ![w] = f], w_pc' = [w_pc EXCEPT ![w] = v]
  PROVE  /\ ApartIn(WorkerIds', 1..NumWorkers) => WorkersOK'
         /\ \A x \in 1..NumWorkers : x # w => WorkerIds'[x] = WorkerIds[x]
         /\ WorkerIds[w] = (IF w_frame[w] = NoFrame THEN {} ELSE {w_frame[w].id})
         /\ WorkerIds'[w] = (IF f = NoFrame THEN {} ELSE {f.id})
<1>1. /\ w_pc' \in [1..NumWorkers -> {"loop", "pop", "frame", "save", "exited"}]
      /\ w_frame' \in [1..NumWorkers -> Frame \cup {NoFrame}]
      /\ w_frame'[w] = f /\ w_pc'[w] = v
      /\ \A x \in 1..NumWorkers : x # w => w_frame'[x] = w_frame[x] /\ w_pc'[x] = w_pc[x]
  BY DEF WorkersOK
<1>2. \A x \in 1..NumWorkers : w_frame'[x] # NoFrame <=> w_pc'[x] \in {"frame", "save"}
  BY <1>1 DEF WorkersOK
<1>3. /\ \A x \in 1..NumWorkers : x # w => WorkerIds'[x] = WorkerIds[x]
      /\ WorkerIds[w] = (IF w_frame[w] = NoFrame THEN {} ELSE {w_frame[w].id})
      /\ WorkerIds'[w] = (IF f = NoFrame THEN {} ELSE {f.id})
  BY <1>1 DEF WorkerIds
<1> QED
  BY <1>1, <1>2, <1>3 DEF WorkersOK, ApartIn

\* A worker without a frame takes f.
LEMMA WorkerTakes ==
  ASSUME WorkersOK, NEW w \in 1..NumWorkers, w_pc[w] = "pop", NEW f \in Frame, f.id \notin Parts.workers,
         w_frame' = [w_frame EXCEPT ![w] = f], w_pc' = [w_pc EXCEPT ![w] = "frame"]
  PROVE  WorkersOK' /\ Parts'.workers = Parts.workers \cup {f.id}
<1>1. f # NoFrame /\ w_frame[w] = NoFrame
  BY FreshValues DEF FreshValues, WorkersOK
<1>2. /\ ApartIn(WorkerIds', 1..NumWorkers) => WorkersOK'
      /\ \A x \in 1..NumWorkers : x # w => WorkerIds'[x] = WorkerIds[x]
      /\ WorkerIds[w] = {} /\ WorkerIds'[w] = {f.id}
  BY <1>1, WorkerSets
<1>3. ApartIn(WorkerIds, 1..NumWorkers) /\ {f.id} \cap Total(WorkerIds, 1..NumWorkers) = {}
      /\ WorkerIds'[w] = WorkerIds[w] \cup {f.id}
  BY <1>2, PartsValues DEF WorkersOK
<1>4. /\ Total(WorkerIds', 1..NumWorkers) = Total(WorkerIds, 1..NumWorkers) \cup {f.id}
      /\ ApartIn(WorkerIds', 1..NumWorkers)
  <2>1. Takes(WorkerIds, WorkerIds', 1..NumWorkers, w, {f.id})
    BY <1>2, <1>3 DEF Takes
  <2> QED
    BY <2>1, MemberGrows
<1> QED
  BY <1>2, <1>4, PartsValues, PartsValuesPrimed

\* A worker gives its frame away.
LEMMA WorkerGives ==
  ASSUME WorkersOK, NEW w \in 1..NumWorkers, w_pc[w] \in {"frame", "save"},
         w_frame' = [w_frame EXCEPT ![w] = NoFrame], w_pc' = [w_pc EXCEPT ![w] = "loop"]
  PROVE  /\ WorkersOK' /\ w_frame[w] \in Frame /\ w_frame[w].id \in Parts.workers
         /\ Parts'.workers = Parts.workers \ {w_frame[w].id}
<1>1. w_frame[w] # NoFrame /\ w_frame[w] \in Frame
  BY DEF WorkersOK
<1>2. /\ ApartIn(WorkerIds', 1..NumWorkers) => WorkersOK'
      /\ \A x \in 1..NumWorkers : x # w => WorkerIds'[x] = WorkerIds[x]
      /\ WorkerIds[w] = {w_frame[w].id} /\ WorkerIds'[w] = {}
  BY <1>1, WorkerSets
<1>3. /\ ApartIn(WorkerIds, 1..NumWorkers) /\ WorkerIds'[w] = {}
      /\ \A x \in 1..NumWorkers : x # w => WorkerIds'[x] = WorkerIds[x]
  BY <1>2 DEF WorkersOK
<1>4. /\ Total(WorkerIds', 1..NumWorkers) = Total(WorkerIds, 1..NumWorkers) \ WorkerIds[w]
      /\ ApartIn(WorkerIds', 1..NumWorkers) /\ WorkerIds[w] \subseteq Total(WorkerIds, 1..NumWorkers)
  <2>1. Empties(WorkerIds, WorkerIds', 1..NumWorkers, w)
    BY <1>3 DEF Empties
  <2> QED
    BY <2>1, MemberEmptied
<1> QED
  BY <1>1, <1>2, <1>4, PartsValues, PartsValuesPrimed

\* A worker goes on with the same frame, which it may mark, or still with none.
LEMMA WorkerGoesOn ==
  ASSUME WorkersOK, NEW w \in 1..NumWorkers, NEW f \in Frame \cup {NoFrame},
         NEW v \in {"loop", "pop", "frame", "save", "exited"}, f # NoFrame <=> v \in {"frame", "save"},
         f = NoFrame <=> w_frame[w] = NoFrame, f # NoFrame => f.id = w_frame[w].id,
         w_frame' = [w_frame EXCEPT ![w] = f], w_pc' = [w_pc EXCEPT ![w] = v]
  PROVE  WorkersOK' /\ Parts'.workers = Parts.workers
<1>1. /\ ApartIn(WorkerIds', 1..NumWorkers) => WorkersOK'
      /\ \A x \in 1..NumWorkers : x # w => WorkerIds'[x] = WorkerIds[x]
      /\ WorkerIds'[w] = WorkerIds[w]
  BY WorkerSets
<1>2. \A x \in 1..NumWorkers : WorkerIds'[x] = WorkerIds[x]
  BY <1>1
<1>3. Total(WorkerIds', 1..NumWorkers) = Total(WorkerIds, 1..NumWorkers) /\ ApartIn(WorkerIds', 1..NumWorkers)
  BY <1>2 DEF WorkersOK, Total, ApartIn
<1> QED
  BY <1>1, <1>3, PartsValues, PartsValuesPrimed

\* A non-empty batch has ids.
LEMMA BatchHasIds ==
  ASSUME NEW b \in Seq(Frame), b # <<>>
  PROVE  FrameIds(b) # {}
<1>1. Head(b).id \in FrameIds(b)
  BY TailElements DEF FrameIds
<1> QED
  BY <1>1

\* Publisher thread p goes on to another place with the batch b or with none.
LEMMA SenderSets ==
  ASSUME SendersOK, NEW p \in 1..NumPublishers, NEW b \in Seq(Frame) \cup {NoBatch}, b # <<>>,
         NEW v \in {"loop", "pop", "send", "exited"}, b # NoBatch <=> v = "send",
         batch' = [batch EXCEPT ![p] = b], p_pc' = [p_pc EXCEPT ![p] = v]
  PROVE  /\ ApartIn(SenderIds', 1..NumPublishers) => SendersOK'
         /\ \A x \in 1..NumPublishers : x # p => SenderIds'[x] = SenderIds[x]
         /\ SenderIds[p] = (IF batch[p] = NoBatch THEN {} ELSE FrameIds(batch[p]))
         /\ SenderIds'[p] = (IF b = NoBatch THEN {} ELSE FrameIds(b))
<1>1. /\ p_pc' \in [1..NumPublishers -> {"loop", "pop", "send", "exited"}]
      /\ batch' \in [1..NumPublishers -> Seq(Frame) \cup {NoBatch}]
      /\ batch'[p] = b /\ p_pc'[p] = v
      /\ \A x \in 1..NumPublishers : x # p => batch'[x] = batch[x] /\ p_pc'[x] = p_pc[x]
  BY DEF SendersOK
<1>2. \A x \in 1..NumPublishers : batch'[x] # <<>> /\ (batch'[x] # NoBatch <=> p_pc'[x] = "send")
  BY <1>1 DEF SendersOK
<1>3. /\ \A x \in 1..NumPublishers : x # p => SenderIds'[x] = SenderIds[x]
      /\ SenderIds[p] = (IF batch[p] = NoBatch THEN {} ELSE FrameIds(batch[p]))
      /\ SenderIds'[p] = (IF b = NoBatch THEN {} ELSE FrameIds(b))
  BY <1>1 DEF SenderIds
<1> QED
  BY <1>1, <1>2, <1>3 DEF SendersOK, ApartIn

\* A publisher thread without a batch takes b.
LEMMA SenderTakes ==
  ASSUME SendersOK, NEW p \in 1..NumPublishers, p_pc[p] = "pop", NEW b \in Seq(Frame), b # <<>>,
         FrameIds(b) \cap Parts.senders = {},
         batch' = [batch EXCEPT ![p] = b], p_pc' = [p_pc EXCEPT ![p] = "send"]
  PROVE  SendersOK' /\ Parts'.senders = Parts.senders \cup FrameIds(b)
<1>1. b # NoBatch /\ batch[p] = NoBatch
  BY FreshValues DEF FreshValues, SendersOK
<1>2. /\ ApartIn(SenderIds', 1..NumPublishers) => SendersOK'
      /\ \A x \in 1..NumPublishers : x # p => SenderIds'[x] = SenderIds[x]
      /\ SenderIds[p] = {} /\ SenderIds'[p] = FrameIds(b)
  BY <1>1, SenderSets
<1>3. PICK X : X = FrameIds(b)
  OBVIOUS
<1>4. ApartIn(SenderIds, 1..NumPublishers) /\ X \cap Total(SenderIds, 1..NumPublishers) = {}
      /\ SenderIds'[p] = SenderIds[p] \cup X
      /\ \A x \in 1..NumPublishers : x # p => SenderIds'[x] = SenderIds[x]
  BY <1>2, <1>3, PartsValues DEF SendersOK
<1>5. /\ Total(SenderIds', 1..NumPublishers) = Total(SenderIds, 1..NumPublishers) \cup X
      /\ ApartIn(SenderIds', 1..NumPublishers)
  <2>1. Takes(SenderIds, SenderIds', 1..NumPublishers, p, X)
    BY <1>4 DEF Takes
  <2> QED
    BY <2>1, MemberGrows
<1> QED
  BY <1>2, <1>3, <1>5, PartsValues, PartsValuesPrimed

\* A publisher thread gives its batch away.
LEMMA SenderGives ==
  ASSUME SendersOK, NEW p \in 1..NumPublishers, p_pc[p] = "send",
         batch' = [batch EXCEPT ![p] = NoBatch], p_pc' = [p_pc EXCEPT ![p] = "loop"]
  PROVE  /\ SendersOK' /\ batch[p] \in Seq(Frame) /\ batch[p] # <<>> /\ FrameIds(batch[p]) # {}
         /\ FrameIds(batch[p]) \subseteq Parts.senders
         /\ Parts'.senders = Parts.senders \ FrameIds(batch[p])
<1>1. batch[p] # NoBatch /\ batch[p] \in Seq(Frame) /\ batch[p] # <<>>
  BY DEF SendersOK
<1>2. NoBatch # <<>>
  BY EmptySeq, FreshValues DEF FreshValues
<1>3. /\ ApartIn(SenderIds', 1..NumPublishers) => SendersOK'
      /\ \A x \in 1..NumPublishers : x # p => SenderIds'[x] = SenderIds[x]
      /\ SenderIds[p] = FrameIds(batch[p]) /\ SenderIds'[p] = {}
  BY <1>1, <1>2, SenderSets
<1>4. /\ ApartIn(SenderIds, 1..NumPublishers) /\ SenderIds'[p] = {}
      /\ \A x \in 1..NumPublishers : x # p => SenderIds'[x] = SenderIds[x]
  BY <1>3 DEF SendersOK
<1>5. /\ Total(SenderIds', 1..NumPublishers) = Total(SenderIds, 1..NumPublishers) \ SenderIds[p]
      /\ ApartIn(SenderIds', 1..NumPublishers) /\ SenderIds[p] \subseteq Total(SenderIds, 1..NumPublishers)
  <2>1. Empties(SenderIds, SenderIds', 1..NumPublishers, p)
    BY <1>4 DEF Empties
  <2> QED
    BY <2>1, MemberEmptied
<1>6. FrameIds(batch[p]) # {}
  BY <1>1, BatchHasIds
<1> QED
  BY <1>1, <1>3, <1>5, <1>6, PartsValues, PartsValuesPrimed

\* A publisher thread without a batch goes on.
LEMMA SenderGoesOn ==
  ASSUME SendersOK, NEW p \in 1..NumPublishers, p_pc[p] # "send", NEW v \in {"loop", "pop", "exited"},
         batch' = batch, p_pc' = [p_pc EXCEPT ![p] = v]
  PROVE  SendersOK' /\ Parts'.senders = Parts.senders
<1>1. /\ p_pc' \in [1..NumPublishers -> {"loop", "pop", "send", "exited"}]
      /\ \A x \in 1..NumPublishers : p_pc'[x] = "send" <=> p_pc[x] = "send"
  BY DEF SendersOK
<1>2. SenderIds' = SenderIds
  BY DEF SenderIds
<1>3. SendersOK'
  BY <1>1, <1>2 DEF SendersOK, ApartIn
<1> QED
  BY <1>2, <1>3, PartsValues, PartsValuesPrimed

\* The batch of key k becomes b.
LEMMA CurrentSets ==
  ASSUME current_batches \in [Keys -> Seq(Frame)], NEW k \in Keys, NEW b \in Seq(Frame),
         current_batches' = [current_batches EXCEPT ![k] = b]
  PROVE  /\ current_batches' \in [Keys -> Seq(Frame)]
         /\ \A x \in Keys : x # k => CurrentIds'[x] = CurrentIds[x]
         /\ CurrentIds[k] = FrameIds(current_batches[k]) /\ CurrentIds'[k] = FrameIds(b)
<1>1. /\ current_batches' \in [Keys -> Seq(Frame)] /\ current_batches'[k] = b
      /\ \A x \in Keys : x # k => current_batches'[x] = current_batches[x]
  OBVIOUS
<1> QED
  BY <1>1 DEF CurrentIds

\* No id is in the empty sequence.
LEMMA NoIds == FrameIds(<<>>) = {}
  BY EmptySeq DEF FrameIds

\* A frame joins the batch of its key.
LEMMA CurrentGrows ==
  ASSUME BatcherOK, NEW f \in Frame, f.id \notin Parts.current,
         current_batches' = [current_batches EXCEPT ![f.key] = Append(current_batches[f.key], f)]
  PROVE  /\ current_batches' \in [Keys -> Seq(Frame)] /\ ApartIn(CurrentIds', Keys)
         /\ Parts'.current = Parts.current \cup {f.id}
<1>1. f.key \in Keys /\ current_batches[f.key] \in Seq(Frame) /\ current_batches \in [Keys -> Seq(Frame)]
  BY DEF Frame, BatcherOK
<1>2. PICK k \in Keys : k = f.key
  BY <1>1
<1>3. PICK b \in Seq(Frame) : b = Append(current_batches[k], f) /\ FrameIds(b) = FrameIds(current_batches[k]) \cup {f.id}
  BY <1>1, <1>2, IdsAppend
<1>4. /\ current_batches' \in [Keys -> Seq(Frame)]
      /\ \A x \in Keys : x # k => CurrentIds'[x] = CurrentIds[x]
      /\ CurrentIds[k] = FrameIds(current_batches[k]) /\ CurrentIds'[k] = FrameIds(b)
  BY <1>1, <1>2, <1>3, CurrentSets
<1>5. /\ ApartIn(CurrentIds, Keys) /\ {f.id} \cap Total(CurrentIds, Keys) = {}
      /\ CurrentIds'[k] = CurrentIds[k] \cup {f.id}
      /\ \A x \in Keys : x # k => CurrentIds'[x] = CurrentIds[x]
  BY <1>3, <1>4, PartsValues DEF BatcherOK
<1>6. Total(CurrentIds', Keys) = Total(CurrentIds, Keys) \cup {f.id} /\ ApartIn(CurrentIds', Keys)
  <2>1. Takes(CurrentIds, CurrentIds', Keys, k, {f.id})
    BY <1>5 DEF Takes
  <2> QED
    BY <2>1, MemberGrows
<1> QED
  BY <1>4, <1>6, PartsValues, PartsValuesPrimed

\* The batch of a key is taken out.
LEMMA CurrentGives ==
  ASSUME BatcherOK, NEW k \in Keys, current_batches' = [current_batches EXCEPT ![k] = <<>>]
  PROVE  /\ current_batches' \in [Keys -> Seq(Frame)] /\ ApartIn(CurrentIds', Keys)
         /\ FrameIds(current_batches[k]) \subseteq Parts.current
         /\ Parts'.current = Parts.current \ FrameIds(current_batches[k])
<1>1. current_batches \in [Keys -> Seq(Frame)] /\ <<>> \in Seq(Frame)
  BY EmptySeq DEF BatcherOK
<1>2. /\ current_batches' \in [Keys -> Seq(Frame)]
      /\ \A x \in Keys : x # k => CurrentIds'[x] = CurrentIds[x]
      /\ CurrentIds[k] = FrameIds(current_batches[k]) /\ CurrentIds'[k] = {}
  BY <1>1, CurrentSets, NoIds
<1>3. /\ ApartIn(CurrentIds, Keys) /\ CurrentIds'[k] = {}
      /\ \A x \in Keys : x # k => CurrentIds'[x] = CurrentIds[x]
  BY <1>2 DEF BatcherOK
<1>4. /\ Total(CurrentIds', Keys) = Total(CurrentIds, Keys) \ CurrentIds[k] /\ ApartIn(CurrentIds', Keys)
      /\ CurrentIds[k] \subseteq Total(CurrentIds, Keys)
  <2>1. Empties(CurrentIds, CurrentIds', Keys, k)
    BY <1>3 DEF Empties
  <2> QED
    BY <2>1, MemberEmptied
<1> QED
  BY <1>2, <1>4, PartsValues, PartsValuesPrimed

\* Two stages share no id.
LEMMA StagesApart ==
  ASSUME Places, NEW i \in Stages, NEW j \in Stages, i # j, NEW x, x \in Parts[i]
  PROVE  x \notin Parts[j]
  BY DEF Places, ApartIn

\* A step of the publisher or of its queue leaves the first two stages alone.
LEMMA WorkerSideSame ==
  ASSUME Flow, UNCHANGED <<decode_frame_queue, workerVars>>
  PROVE  DecodeOK' /\ WorkersOK' /\ Parts'.decode = Parts.decode /\ Parts'.workers = Parts.workers
<1>1. UNCHANGED <<w_pc, w_frame>>
  BY DEF workerVars
<1> QED
  BY <1>1, DecodeSame, WorkersSame DEF Flow

\* A step of a worker or of a stream leaves the publisher alone.
LEMMA PublisherSideSame ==
  ASSUME Flow, UNCHANGED publisherVars
  PROVE  /\ BatcherOK' /\ QueueOK' /\ SendersOK' /\ HistoryOK'
         /\ Parts'.batcher = Parts.batcher /\ Parts'.current = Parts.current
         /\ Parts'.queue = Parts.queue /\ Parts'.senders = Parts.senders
<1>1. UNCHANGED <<batcher, b_frame, current_batches>> /\ UNCHANGED batch_queue_ /\ UNCHANGED <<p_pc, batch>>
      /\ UNCHANGED <<redis, lost_replies>>
  BY DEF publisherVars
<1>2. HistoryOK'
  BY <1>1 DEF Flow, HistoryOK
<1> QED
  BY <1>1, <1>2, BatcherSame, QueueSame, SendersSame DEF Flow

-----------------------------------------------------------------------------
(* The filter graphs *)

Graphs == [proc : Procs, geom : Geoms, by : 1..MaxFrames]

\* The cached graphs were built from frames.
GraphsOK == stream_contexts \in [1..NumWorkers -> [Keys -> {NoContext} \cup Graphs]]

\* The graph a worker uses for a frame.
LEMMA GraphUsed ==
  ASSUME GraphsOK, NEW w \in 1..NumWorkers, w_frame[w] \in Frame
  PROVE  W!ContextFor(w, w_frame[w]) \in Graphs
<1>1. W!Settings(w_frame[w]) \in Graphs /\ w_frame[w].key \in Keys
  BY DEF W!Settings, Graphs, Frame
<1>2. stream_contexts[w][w_frame[w].key] \in {NoContext} \cup Graphs
  BY <1>1 DEF GraphsOK
<1> QED
  BY <1>1, <1>2 DEF W!ContextFor, W!NeedsReinit

\* Every step keeps the graphs so.
LEMMA GraphsKept == GraphsOK /\ Flow /\ [Next]_vars => GraphsOK'
<1> SUFFICES ASSUME GraphsOK, Flow, [Next]_vars PROVE GraphsOK'
  OBVIOUS
<1>1. ASSUME NEW w \in 1..NumWorkers, W!FilterFails(w) \/ W!ProcessFrame(w) \/ W!SaveFrame(w)
      PROVE  GraphsOK'
  <2>1. /\ w_pc[w] = "frame"
        /\ stream_contexts' = [stream_contexts EXCEPT ![w][w_frame[w].key] = W!ContextFor(w, w_frame[w])]
    BY <1>1 DEF W!FilterFails, W!ProcessFrame, W!SaveFrame
  <2>2. w_frame[w] \in Frame
    BY <2>1 DEF Flow, WorkersOK
  <2>3. w_frame[w].key \in Keys /\ W!ContextFor(w, w_frame[w]) \in Graphs
    BY <2>2, GraphUsed DEF Frame
  <2> QED
    BY <2>1, <2>3 DEF GraphsOK
<1>2. CASE UNCHANGED stream_contexts
  BY <1>2 DEF GraphsOK
<1>3. ASSUME NEW w \in 1..NumWorkers, worker_loop(w) PROVE GraphsOK'
  BY <1>1, <1>2, <1>3 DEF worker_loop, WorkerStep, W!worker_loop, W!CheckStop, W!PopFrame, W!PopNullopt,
     W!CreateFilterFails, W!Saving, W!PushSaved
<1>4. CASE StopWorker
  BY <1>2, <1>4 DEF StopWorker, WorkerStep, W!StopInQueue, W!stop, W!StopOutQueue, W!RequestStop, W!Join,
     W!StopReturns
<1>5. CASE UNCHANGED workerVars
  BY <1>2, <1>5 DEF workerVars
<1>6. (\E w \in 1..NumWorkers : worker_loop(w)) \/ StopWorker \/ UNCHANGED workerVars
  BY DEF Next, app_logic, PushFrame, UpdateStreams, ShutdownRequested, JoinStream, WorkerStopped,
     StopPublisher, PublisherStopped, Done, batching_loop, publisher_loop, PublisherStep, vars
<1> QED
  BY <1>3, <1>4, <1>5, <1>6

-----------------------------------------------------------------------------
(* The steps of the workers *)

\* worker_loop between two frames, and while a frame is being saved.
LEMMA WorkerLoops ==
  ASSUME Flow, GraphsOK, NEW w \in 1..NumWorkers,
         WorkerStep(W!CheckStop(w) \/ W!PopNullopt(w) \/ W!SaveFrame(w) \/ W!Saving(w))
  PROVE  Flow' /\ [Delivery!Next]_Delivery!dvars
<1>1. /\ UNCHANGED <<decode_frame_queue, processed_frame_queue, produced, failed, w_stop_pc>>
      /\ UNCHANGED publisherVars
  BY DEF WorkerStep, W!CheckStop, W!PopNullopt, W!SaveFrame, W!Saving
<1>2. WorkersOK' /\ Parts'.workers = Parts.workers
  <2>1. CASE W!CheckStop(w) \/ W!PopNullopt(w)
    <3>1. PICK v \in {"pop", "exited"} : w_pc' = [w_pc EXCEPT ![w] = v]
      BY <2>1 DEF W!CheckStop, W!PopNullopt
    <3>2. w_pc[w] \notin {"frame", "save"} /\ w_frame' = w_frame
      BY <2>1 DEF W!CheckStop, W!PopNullopt
    <3>3. w_frame[w] = NoFrame /\ w_frame' = [w_frame EXCEPT ![w] = NoFrame]
      BY <3>2 DEF Flow, WorkersOK
    <3> QED
      BY <3>1, <3>3, WorkerGoesOn DEF Flow
  <2>2. CASE W!SaveFrame(w)
    <3>1. PICK c : c = W!ContextFor(w, w_frame[w])
      OBVIOUS
    <3>2. /\ w_pc[w] = "frame" /\ w_pc' = [w_pc EXCEPT ![w] = "save"]
          /\ w_frame' = [w_frame EXCEPT ![w] = [w_frame[w] EXCEPT !.applied = c]]
      BY <2>2, <3>1 DEF W!SaveFrame, Flow, WorkersOK
    <3>3. w_frame[w] # NoFrame /\ w_frame[w] \in Frame
      BY <3>2 DEF Flow, WorkersOK
    <3>4. c \in Graphs
      BY <3>1, <3>3, GraphUsed
    <3>5. PICK f : f = [w_frame[w] EXCEPT !.applied = c]
      OBVIOUS
    <3>6. f \in Frame /\ f.id = w_frame[w].id
      BY <3>3, <3>4, <3>5 DEF Frame, Graphs
    <3>7. f # NoFrame
      BY <3>6, FreshValues DEF FreshValues
    <3> QED
      BY <3>2, <3>3, <3>5, <3>6, <3>7, WorkerGoesOn DEF Flow
  <2>3. CASE W!Saving(w)
    <3>1. UNCHANGED <<w_pc, w_frame>>
      BY <2>3 DEF W!Saving
    <3> QED
      BY <3>1, WorkersSame DEF Flow
  <2> QED
    BY <2>1, <2>2, <2>3 DEF WorkerStep
<1>3. /\ DecodeOK' /\ ProcessedOK' /\ Parts'.decode = Parts.decode /\ Parts'.processed = Parts.processed
  BY <1>1, DecodeSame, ProcessedSame DEF Flow
<1>4. /\ BatcherOK' /\ QueueOK' /\ SendersOK' /\ HistoryOK'
      /\ Parts'.batcher = Parts.batcher /\ Parts'.current = Parts.current
      /\ Parts'.queue = Parts.queue /\ Parts'.senders = Parts.senders
  BY <1>1, PublisherSideSame
<1>5. Places' /\ InFlight' = InFlight
  BY <1>1, <1>2, <1>3, <1>4, NothingMoves DEF Flow, Stages
<1>6. ClosedInOrder'
  BY <1>1 DEF Flow, ClosedInOrder, publisherVars
<1> QED
  BY <1>1, <1>2, <1>3, <1>4, <1>5, <1>6, Stutters DEF Flow, publisherVars

\* wait_and_pop hands a frame to a worker.
LEMMA WorkerPops ==
  ASSUME Flow, NEW w \in 1..NumWorkers, WorkerStep(W!PopFrame(w))
  PROVE  Flow' /\ [Delivery!Next]_Delivery!dvars
<1>1. /\ UNCHANGED <<processed_frame_queue, produced, failed, w_stop_pc>> /\ UNCHANGED publisherVars
      /\ w_pc[w] = "pop" /\ HasItem(decode_frame_queue) /\ decode_frame_queue' = Pop(decode_frame_queue)
      /\ w_frame' = [w_frame EXCEPT ![w] = Oldest(decode_frame_queue)]
      /\ w_pc' = [w_pc EXCEPT ![w] = "frame"]
  BY DEF WorkerStep, W!PopFrame, W!HasItem, W!Pop, W!Oldest, HasItem, Pop, Oldest
<1>2. PICK f : f = Oldest(decode_frame_queue)
  OBVIOUS
<1>3. /\ decode_frame_queue' \in Queue /\ decode_frame_queue'.stopped = decode_frame_queue.stopped
      /\ Distinct(decode_frame_queue'.items) /\ f \in Frame /\ f.id \in Parts.decode
      /\ Parts'.decode = Parts.decode \ {f.id}
  BY <1>1, <1>2, PopFacts, PartsValues, PartsValuesPrimed DEF Flow, DecodeOK
<1>4. DecodeOK'
  BY <1>3 DEF DecodeOK, Distinct
<1>5. f.id \notin Parts.workers
  BY <1>3, StagesApart DEF Stages, Flow
<1>6. WorkersOK' /\ Parts'.workers = Parts.workers \cup {f.id}
  BY <1>1, <1>2, <1>3, <1>5, WorkerTakes DEF Flow
<1>7. ProcessedOK' /\ Parts'.processed = Parts.processed
  BY <1>1, ProcessedSame DEF Flow
<1>8. /\ BatcherOK' /\ QueueOK' /\ SendersOK' /\ HistoryOK'
      /\ Parts'.batcher = Parts.batcher /\ Parts'.current = Parts.current
      /\ Parts'.queue = Parts.queue /\ Parts'.senders = Parts.senders
  BY <1>1, PublisherSideSame
<1>9. Places' /\ InFlight' = InFlight
  <2>1. PICK X : X = {f.id}
    OBVIOUS
  <2>2. \A k \in Stages \ {"decode", "workers"} : Parts'[k] = Parts[k]
    BY <1>7, <1>8 DEF Stages
  <2>3. "decode" \in Stages /\ "workers" \in Stages
    BY DEF Stages
  <2>4. X \subseteq Parts["decode"] /\ Parts'["decode"] = Parts["decode"] \ X /\ Parts'["workers"] = Parts["workers"] \cup X
    BY <1>3, <1>6, <2>1
  <2> QED
    BY <1>1, <2>2, <2>3, <2>4, FramesMove DEF Flow
<1>10. ClosedInOrder'
  BY <1>1, <1>3 DEF Flow, ClosedInOrder, publisherVars
<1> QED
  BY <1>1, <1>3, <1>4, <1>6, <1>7, <1>8, <1>9, <1>10, Stutters DEF Flow, publisherVars

\* The filter cannot be created or fails: the frame is dropped.
LEMMA WorkerDrops ==
  ASSUME Flow, NEW w \in 1..NumWorkers, WorkerStep(W!CreateFilterFails(w) \/ W!FilterFails(w))
  PROVE  Flow' /\ [Delivery!Next]_Delivery!dvars
<1>1. PICK f : f = w_frame[w]
  OBVIOUS
<1>2. /\ UNCHANGED <<decode_frame_queue, processed_frame_queue, produced, w_stop_pc>>
      /\ UNCHANGED publisherVars /\ failed' = failed \cup {f.id}
      /\ w_pc[w] = "frame" /\ w_frame' = [w_frame EXCEPT ![w] = NoFrame]
      /\ w_pc' = [w_pc EXCEPT ![w] = "loop"]
  BY <1>1 DEF WorkerStep, W!CreateFilterFails, W!FilterFails
<1>3. WorkersOK' /\ f.id \in Parts.workers /\ Parts'.workers = Parts.workers \ {f.id}
  BY <1>1, <1>2, WorkerGives DEF Flow
<1>4. /\ DecodeOK' /\ ProcessedOK' /\ Parts'.decode = Parts.decode /\ Parts'.processed = Parts.processed
  BY <1>2, DecodeSame, ProcessedSame DEF Flow
<1>5. /\ BatcherOK' /\ QueueOK' /\ SendersOK' /\ HistoryOK'
      /\ Parts'.batcher = Parts.batcher /\ Parts'.current = Parts.current
      /\ Parts'.queue = Parts.queue /\ Parts'.senders = Parts.senders
  BY <1>2, PublisherSideSame
<1>6. PICK X : X = {f.id}
  OBVIOUS
<1>7. Places' /\ InFlight' = InFlight \ X /\ X \subseteq InFlight
  <2>1. \A k \in Stages \ {"workers"} : Parts'[k] = Parts[k]
    BY <1>4, <1>5 DEF Stages
  <2>2. "workers" \in Stages
    BY DEF Stages
  <2>3. X \subseteq Parts["workers"] /\ Parts'["workers"] = Parts["workers"] \ X
    BY <1>3, <1>6
  <2> QED
    BY <1>2, <2>1, <2>2, <2>3, FramesLeave DEF Flow
<1>8. ClosedInOrder'
  BY <1>2 DEF Flow, ClosedInOrder, publisherVars
<1>9. [Delivery!Next]_Delivery!dvars
  <2>1. X # {} /\ failed' = failed \cup X
    BY <1>2, <1>6
  <2>2. UNCHANGED <<redis, lost_replies, produced>> /\ UNCHANGED <<refused, dry_run>>
        /\ decode_frame_queue'.stopped = decode_frame_queue.stopped
    BY <1>2 DEF publisherVars
  <2> QED
    BY <1>7, <2>1, <2>2, Drops
<1> QED
  BY <1>3, <1>4, <1>5, <1>7, <1>8, <1>9 DEF Flow

\* push on processed_frame_queue.
LEMMA ProcessedPush ==
  ASSUME ProcessedOK, NEW f \in Frame, f.id \notin Parts.processed,
         processed_frame_queue' = Push(processed_frame_queue, f)
  PROVE  /\ ProcessedOK' /\ processed_frame_queue'.stopped = processed_frame_queue.stopped
         /\ processed_frame_queue.stopped => Parts'.processed = Parts.processed
         /\ ~processed_frame_queue.stopped => Parts'.processed = Parts.processed \cup {f.id}
<1>1. PICK q, r : q = processed_frame_queue /\ r = processed_frame_queue'
  OBVIOUS
<1>2. q \in Queue /\ Distinct(q.items) /\ f.id \notin FrameIds(q.items) /\ r = Push(q, f)
  BY <1>1, PartsValues DEF ProcessedOK
<1>3. /\ r \in Queue /\ r.stopped = q.stopped /\ Distinct(r.items)
      /\ q.stopped => FrameIds(r.items) = FrameIds(q.items)
      /\ ~q.stopped => FrameIds(r.items) = FrameIds(q.items) \cup {f.id}
  BY <1>2, PushFacts
<1>4. ProcessedOK'
  BY <1>1, <1>3 DEF ProcessedOK, Distinct
<1> QED
  BY <1>1, <1>3, <1>4, PartsValues, PartsValuesPrimed

\* The frame of a worker reaches processed_frame_queue, or a stopped queue
\* swallows it.
LEMMA WorkerPushes ==
  ASSUME Flow, NEW w \in 1..NumWorkers, NEW f \in Frame, f.id = w_frame[w].id,
         UNCHANGED <<decode_frame_queue, produced, failed, w_stop_pc>>, UNCHANGED publisherVars,
         processed_frame_queue' = Push(processed_frame_queue, f),
         w_pc[w] \in {"frame", "save"}, w_frame' = [w_frame EXCEPT ![w] = NoFrame],
         w_pc' = [w_pc EXCEPT ![w] = "loop"]
  PROVE  Flow' /\ [Delivery!Next]_Delivery!dvars
<1>1. WorkersOK' /\ f.id \in Parts.workers /\ Parts'.workers = Parts.workers \ {f.id}
  BY WorkerGives DEF Flow
<1>2. f.id \notin Parts.processed
  BY <1>1, StagesApart DEF Stages, Flow
<1>4. /\ ProcessedOK' /\ processed_frame_queue'.stopped = processed_frame_queue.stopped
      /\ processed_frame_queue.stopped => Parts'.processed = Parts.processed
      /\ ~processed_frame_queue.stopped => Parts'.processed = Parts.processed \cup {f.id}
  BY <1>2, ProcessedPush DEF Flow
<1>5. ProcessedOK'
  BY <1>4
<1>6. DecodeOK' /\ Parts'.decode = Parts.decode
  BY DecodeSame DEF Flow
<1>7. /\ BatcherOK' /\ QueueOK' /\ SendersOK' /\ HistoryOK'
      /\ Parts'.batcher = Parts.batcher /\ Parts'.current = Parts.current
      /\ Parts'.queue = Parts.queue /\ Parts'.senders = Parts.senders
  BY PublisherSideSame
<1>8. ClosedInOrder'
  BY <1>4 DEF Flow, ClosedInOrder, publisherVars
<1>9. PICK X : X = {f.id}
  OBVIOUS
<1>10. /\ "workers" \in Stages /\ "processed" \in Stages
       /\ X # {} /\ X \subseteq Parts["workers"] /\ Parts'["workers"] = Parts["workers"] \ X
       /\ \A k \in Stages \ {"workers", "processed"} : Parts'[k] = Parts[k]
  BY <1>1, <1>6, <1>7, <1>9 DEF Stages
<1>11. UNCHANGED <<redis, failed, refused, dry_run, lost_replies, produced>>
       /\ decode_frame_queue'.stopped = decode_frame_queue.stopped
  BY DEF publisherVars
<1>12. CASE processed_frame_queue.stopped
  <2>1. \A k \in Stages \ {"workers"} : Parts'[k] = Parts[k]
    BY <1>4, <1>10, <1>12
  <2>2. Places' /\ InFlight' = InFlight \ X /\ X \subseteq InFlight
    BY <1>10, <2>1, FramesLeave DEF Flow
  <2>3. decode_frame_queue.stopped
    BY <1>12 DEF Flow, ClosedInOrder
  <2>4. [Delivery!Next]_Delivery!dvars
    BY <1>10, <1>11, <2>2, <2>3, Loses
  <2> QED
    BY <1>1, <1>5, <1>6, <1>7, <1>8, <2>2, <2>4 DEF Flow
<1>13. CASE ~processed_frame_queue.stopped
  <2>1. Parts'["processed"] = Parts["processed"] \cup X
    BY <1>4, <1>9, <1>13
  <2>2. Places' /\ InFlight' = InFlight
    BY <1>10, <2>1, FramesMove DEF Flow
  <2>3. [Delivery!Next]_Delivery!dvars
    BY <1>11, <2>2, Stutters
  <2> QED
    BY <1>1, <1>5, <1>6, <1>7, <1>8, <2>2, <2>3 DEF Flow
<1> QED
  BY <1>12, <1>13

\* A frame is processed, and saved or not, and pushed.
LEMMA WorkerDelivers ==
  ASSUME Flow, GraphsOK, NEW w \in 1..NumWorkers, WorkerStep(W!ProcessFrame(w) \/ W!PushSaved(w))
  PROVE  Flow' /\ [Delivery!Next]_Delivery!dvars
<1>1. /\ UNCHANGED <<decode_frame_queue, produced, failed, w_stop_pc>> /\ UNCHANGED publisherVars
      /\ w_pc[w] \in {"frame", "save"} /\ w_frame' = [w_frame EXCEPT ![w] = NoFrame]
      /\ w_pc' = [w_pc EXCEPT ![w] = "loop"]
  BY DEF WorkerStep, W!ProcessFrame, W!PushSaved
<1>2. w_frame[w] \in Frame
  BY <1>1 DEF Flow, WorkersOK
<1>3. \E f \in Frame : f.id = w_frame[w].id /\ processed_frame_queue' = Push(processed_frame_queue, f)
  <2>1. CASE W!PushSaved(w)
    BY <1>2, <2>1 DEF W!PushSaved, W!Push, Push
  <2>2. CASE W!ProcessFrame(w)
    <3>1. PICK c : c = W!ContextFor(w, w_frame[w])
      OBVIOUS
    <3>2. processed_frame_queue' = Push(processed_frame_queue, [w_frame[w] EXCEPT !.applied = c])
      BY <2>2, <3>1 DEF W!ProcessFrame, W!Push, Push
    <3>3. c \in Graphs
      BY <1>2, <3>1, GraphUsed
    <3>4. PICK f : f = [w_frame[w] EXCEPT !.applied = c]
      OBVIOUS
    <3>5. f \in Frame /\ f.id = w_frame[w].id
      BY <1>2, <3>3, <3>4 DEF Frame, Graphs
    <3> QED
      BY <3>2, <3>4, <3>5
  <2> QED
    BY <2>1, <2>2 DEF WorkerStep
<1> QED
  BY <1>1, <1>3, WorkerPushes

\* All steps of a worker.
LEMMA WorkerFlows ==
  ASSUME Flow, GraphsOK, NEW w \in 1..NumWorkers, worker_loop(w)
  PROVE  Flow' /\ [Delivery!Next]_Delivery!dvars
  BY WorkerLoops, WorkerPops, WorkerDrops, WorkerDelivers DEF worker_loop, W!worker_loop, WorkerStep

-----------------------------------------------------------------------------
(* The steps of the batching thread *)

\* push on batch_queue_.
LEMMA QueuePush ==
  ASSUME QueueOK, NEW b \in Seq(Frame), b # <<>>, FrameIds(b) \cap Parts.queue = {},
         batch_queue_' = Push(batch_queue_, b)
  PROVE  /\ QueueOK' /\ batch_queue_'.stopped = batch_queue_.stopped
         /\ batch_queue_.stopped => Parts'.queue = Parts.queue
         /\ ~batch_queue_.stopped => Parts'.queue = Parts.queue \cup FrameIds(b)
<1>1. PICK q, r : q = batch_queue_ /\ r = batch_queue_'
  OBVIOUS
<1>2. /\ q \in BatchQueue /\ ApartBatches(q.items) /\ r = Push(q, b)
      /\ \A i \in DOMAIN q.items : q.items[i] # <<>>
      /\ AllIds(q.items) \cap FrameIds(b) = {}
  BY <1>1, PartsValues DEF QueueOK
<1>3. /\ r \in BatchQueue /\ r.stopped = q.stopped /\ ApartBatches(r.items)
      /\ \A i \in DOMAIN r.items : r.items[i] # <<>>
      /\ q.stopped => AllIds(r.items) = AllIds(q.items)
      /\ ~q.stopped => AllIds(r.items) = AllIds(q.items) \cup FrameIds(b)
  BY <1>2, PushBatchFacts
<1>4. QueueOK'
  <2>1. /\ r \in BatchQueue
        /\ \A i, j \in DOMAIN r.items : i # j => FrameIds(r.items[i]) \cap FrameIds(r.items[j]) = {}
        /\ \A i \in DOMAIN r.items : r.items[i] # <<>>
    BY <1>3, Zenon DEF ApartBatches
  <2> QED
    BY <1>1, <2>1, Zenon DEF QueueOK, ApartBatches
<1> QED
  BY <1>1, <1>3, <1>4, PartsValues, PartsValuesPrimed

\* What the batching thread leaves alone.
LEMMA SenderSideSame ==
  ASSUME Flow, UNCHANGED P!senderVars
  PROVE  /\ SendersOK' /\ HistoryOK' /\ Parts'.senders = Parts.senders
         /\ UNCHANGED <<redis, lost_replies, refused, dry_run>>
<1>1. UNCHANGED <<p_pc, batch>> /\ UNCHANGED <<redis, lost_replies, refused, dry_run>>
  BY DEF P!senderVars
<1> QED
  BY <1>1, SendersSame DEF Flow, HistoryOK

\* batching_loop between two frames, and at its end.
LEMMA BatcherLoops ==
  ASSUME Flow, UNCHANGED <<decode_frame_queue, processed_frame_queue, batch_queue_, current_batches,
                           b_frame, produced>>,
         UNCHANGED workerVars, UNCHANGED P!senderVars,
         batcher \notin {"frame", "exited"}, batcher' # "frame"
  PROVE  Flow' /\ [Delivery!Next]_Delivery!dvars
<1>1. DecodeOK' /\ WorkersOK' /\ Parts'.decode = Parts.decode /\ Parts'.workers = Parts.workers
  BY WorkerSideSame
<1>2. /\ SendersOK' /\ HistoryOK' /\ Parts'.senders = Parts.senders
      /\ UNCHANGED <<redis, lost_replies, refused, dry_run>>
  BY SenderSideSame
<1>3. ProcessedOK' /\ Parts'.processed = Parts.processed /\ QueueOK' /\ Parts'.queue = Parts.queue
  BY ProcessedSame, QueueSame DEF Flow
<1>4. BatcherOK' /\ Parts'.batcher = Parts.batcher /\ Parts'.current = Parts.current
  <2>1. CurrentIds' = CurrentIds
    BY DEF CurrentIds
  <2> QED
    BY <2>1, PartsValues, PartsValuesPrimed DEF Flow, BatcherOK, ApartIn
<1>5. Places' /\ InFlight' = InFlight
  BY <1>1, <1>2, <1>3, <1>4, NothingMoves DEF Flow, Stages
<1>6. ClosedInOrder' /\ UNCHANGED failed
  BY DEF Flow, ClosedInOrder, workerVars
<1> QED
  BY <1>1, <1>2, <1>3, <1>4, <1>5, <1>6, Stutters DEF Flow

\* wait_and_pop hands a frame to the batching thread.
LEMMA BatcherPops ==
  ASSUME Flow, UNCHANGED <<decode_frame_queue, batch_queue_, current_batches, produced>>,
         UNCHANGED workerVars, UNCHANGED P!senderVars, batcher = "pop", batcher' = "frame",
         HasItem(processed_frame_queue), b_frame' = Oldest(processed_frame_queue),
         processed_frame_queue' = Pop(processed_frame_queue)
  PROVE  Flow' /\ [Delivery!Next]_Delivery!dvars
<1>1. DecodeOK' /\ WorkersOK' /\ Parts'.decode = Parts.decode /\ Parts'.workers = Parts.workers
  BY WorkerSideSame
<1>2. /\ SendersOK' /\ HistoryOK' /\ Parts'.senders = Parts.senders
      /\ UNCHANGED <<redis, lost_replies, refused, dry_run>>
  BY SenderSideSame
<1>3. QueueOK' /\ Parts'.queue = Parts.queue
  BY QueueSame DEF Flow
<1>4. PICK f : f = b_frame'
  OBVIOUS
<1>5. /\ processed_frame_queue' \in Queue /\ processed_frame_queue'.stopped = processed_frame_queue.stopped
      /\ Distinct(processed_frame_queue'.items) /\ f \in Frame /\ f.id \in Parts.processed
      /\ Parts'.processed = Parts.processed \ {f.id}
  BY <1>4, PopFacts, PartsValues, PartsValuesPrimed DEF Flow, ProcessedOK
<1>6. ProcessedOK'
  BY <1>5 DEF ProcessedOK, Distinct
<1>7. b_frame = NoFrame /\ f # NoFrame
  BY <1>5, FreshValues DEF FreshValues, Flow, BatcherOK
<1>8. BatcherOK' /\ Parts'.batcher = Parts.batcher \cup {f.id} /\ Parts'.current = Parts.current
  <2>1. CurrentIds' = CurrentIds
    BY DEF CurrentIds
  <2>2. Parts'.batcher = {f.id} /\ Parts.batcher = {}
    BY <1>4, <1>7, PartsValues, PartsValuesPrimed
  <2>3. BatcherOK'
    BY <1>4, <1>5, <1>7, <2>1 DEF Flow, BatcherOK, ApartIn
  <2> QED
    BY <2>1, <2>2, <2>3, PartsValues, PartsValuesPrimed
<1>9. Places' /\ InFlight' = InFlight
  <2>1. PICK X : X = {f.id}
    OBVIOUS
  <2>2. \A k \in Stages \ {"processed", "batcher"} : Parts'[k] = Parts[k]
    BY <1>1, <1>2, <1>3, <1>8 DEF Stages
  <2>3. "processed" \in Stages /\ "batcher" \in Stages
    BY DEF Stages
  <2>4. /\ X \subseteq Parts["processed"] /\ Parts'["processed"] = Parts["processed"] \ X
        /\ Parts'["batcher"] = Parts["batcher"] \cup X
    BY <1>5, <1>8, <2>1
  <2> QED
    BY <2>2, <2>3, <2>4, FramesMove DEF Flow
<1>10. ClosedInOrder' /\ UNCHANGED failed
  BY <1>5 DEF Flow, ClosedInOrder, workerVars
<1> QED
  BY <1>1, <1>2, <1>3, <1>6, <1>8, <1>9, <1>10, Stutters DEF Flow

\* What a step of the batching thread that holds a frame or flushes leaves alone.
LEMMA BatcherContext ==
  ASSUME Flow, UNCHANGED <<decode_frame_queue, processed_frame_queue, produced>>,
         UNCHANGED workerVars, UNCHANGED P!senderVars, batcher # "exited",
         batch_queue_'.stopped = batch_queue_.stopped
  PROVE  /\ DecodeOK' /\ ProcessedOK' /\ WorkersOK' /\ SendersOK' /\ HistoryOK' /\ ClosedInOrder'
         /\ ~batch_queue_.stopped
         /\ Parts'.decode = Parts.decode /\ Parts'.workers = Parts.workers
         /\ Parts'.processed = Parts.processed /\ Parts'.senders = Parts.senders
         /\ UNCHANGED <<redis, failed, refused, dry_run, lost_replies, produced>>
         /\ decode_frame_queue'.stopped = decode_frame_queue.stopped
<1>1. DecodeOK' /\ WorkersOK' /\ Parts'.decode = Parts.decode /\ Parts'.workers = Parts.workers
  BY WorkerSideSame
<1>2. /\ SendersOK' /\ HistoryOK' /\ Parts'.senders = Parts.senders
      /\ UNCHANGED <<redis, lost_replies, refused, dry_run>>
  BY SenderSideSame
<1>3. ProcessedOK' /\ Parts'.processed = Parts.processed
  BY ProcessedSame DEF Flow
<1>4. ~batch_queue_.stopped
  BY DEF Flow, ClosedInOrder
<1>5. ClosedInOrder' /\ UNCHANGED failed
  BY <1>4 DEF Flow, ClosedInOrder, workerVars
<1> QED
  BY <1>1, <1>2, <1>3, <1>4, <1>5

\* A frame that does not fill its batch stays in current_batches.
LEMMA BatcherKeeps ==
  ASSUME Flow, UNCHANGED <<decode_frame_queue, processed_frame_queue, batch_queue_, produced>>,
         UNCHANGED workerVars, UNCHANGED P!senderVars, batcher = "frame", batcher' = "loop",
         b_frame' = NoFrame,
         current_batches' = [current_batches EXCEPT ![b_frame.key] = Append(current_batches[b_frame.key], b_frame)]
  PROVE  Flow' /\ [Delivery!Next]_Delivery!dvars
<1>1. /\ DecodeOK' /\ ProcessedOK' /\ WorkersOK' /\ SendersOK' /\ HistoryOK' /\ ClosedInOrder'
      /\ Parts'.decode = Parts.decode /\ Parts'.workers = Parts.workers
      /\ Parts'.processed = Parts.processed /\ Parts'.senders = Parts.senders
      /\ UNCHANGED <<redis, failed, refused, dry_run, lost_replies, produced>>
      /\ decode_frame_queue'.stopped = decode_frame_queue.stopped
  BY BatcherContext
<1>2. QueueOK' /\ Parts'.queue = Parts.queue
  BY QueueSame DEF Flow
<1>3. b_frame \in Frame /\ b_frame # NoFrame
  BY DEF Flow, BatcherOK
<1>4. Parts.batcher = {b_frame.id} /\ Parts'.batcher = {}
  BY <1>3, PartsValues, PartsValuesPrimed
<1>5. b_frame.id \notin Parts.current
  BY <1>4, StagesApart DEF Stages, Flow
<1>6. /\ current_batches' \in [Keys -> Seq(Frame)] /\ ApartIn(CurrentIds', Keys)
      /\ Parts'.current = Parts.current \cup {b_frame.id}
  BY <1>3, <1>5, CurrentGrows DEF Flow
<1>7. BatcherOK'
  BY <1>6 DEF BatcherOK, ApartIn
<1>8. PICK X : X = {b_frame.id}
  OBVIOUS
<1>9. Places' /\ InFlight' = InFlight
  <2>1. \A k \in Stages \ {"batcher", "current"} : Parts'[k] = Parts[k]
    BY <1>1, <1>2 DEF Stages
  <2>2. "batcher" \in Stages /\ "current" \in Stages
    BY DEF Stages
  <2>3. /\ X \subseteq Parts["batcher"] /\ Parts'["batcher"] = Parts["batcher"] \ X
        /\ Parts'["current"] = Parts["current"] \cup X
    BY <1>4, <1>6, <1>8
  <2> QED
    BY <1>1, <2>1, <2>2, <2>3, FramesMove DEF Flow
<1> QED
  BY <1>1, <1>2, <1>7, <1>9, Stutters DEF Flow

\* The frames of a full batch leave two stages for a third.
LEMMA FramesJoin ==
  ASSUME Places, NEW X, NEW Y, X \subseteq Parts.batcher, Y \subseteq Parts.current,
         Parts'.batcher = Parts.batcher \ X, Parts'.current = Parts.current \ Y,
         Parts'.queue = Parts.queue \cup (Y \cup X),
         \A k \in Stages \ {"batcher", "current", "queue"} : Parts'[k] = Parts[k], produced' = produced
  PROVE  Places' /\ InFlight' = InFlight
<1>1. PICK H : H = [k \in Stages |-> CASE k = "current" -> Parts[k] \ Y
                                       [] k = "queue" -> Parts[k] \cup Y
                                       [] OTHER -> Parts[k]]
  OBVIOUS
<1>2. /\ "batcher" \in Stages /\ "current" \in Stages /\ "queue" \in Stages
      /\ "batcher" # "current" /\ "current" # "queue" /\ "batcher" # "queue"
  BY DEF Stages
<1>3. /\ H["current"] = Parts["current"] \ Y /\ H["queue"] = Parts["queue"] \cup Y
      /\ \A k \in Stages \ {"current", "queue"} : H[k] = Parts[k]
  BY <1>1, <1>2
<1>4. ApartIn(Parts, Stages)
  BY DEF Places
<1>5. Total(H, Stages) = Total(Parts, Stages) /\ ApartIn(H, Stages)
  <2>1. Passes(Parts, H, Stages, "current", "queue", Y)
    BY <1>2, <1>3, <1>4 DEF Passes
  <2> QED
    BY <2>1, MemberPasses
<1>6. /\ X \subseteq H["batcher"] /\ Parts'["batcher"] = H["batcher"] \ X
      /\ Parts'["queue"] = H["queue"] \cup X /\ Parts'["current"] = H["current"]
  BY <1>2, <1>3
<1>7. \A k \in Stages \ {"batcher", "queue"} : Parts'[k] = H[k]
  BY <1>3, <1>6
<1>8. Total(Parts', Stages) = Total(H, Stages) /\ ApartIn(Parts', Stages)
  <2>1. Passes(H, Parts', Stages, "batcher", "queue", X)
    BY <1>2, <1>5, <1>6, <1>7 DEF Passes
  <2> QED
    BY <2>1, MemberPasses
<1> QED
  BY <1>5, <1>8, InFlightParts, InFlightPartsPrimed DEF Places, ApartIn, Total

\* A full batch is pushed to batch_queue_.
LEMMA BatcherPushes ==
  ASSUME Flow, UNCHANGED <<decode_frame_queue, processed_frame_queue, produced>>,
         UNCHANGED workerVars, UNCHANGED P!senderVars, batcher = "frame", batcher' = "loop",
         b_frame' = NoFrame,
         batch_queue_' = Push(batch_queue_, Append(current_batches[b_frame.key], b_frame)),
         current_batches' = [current_batches EXCEPT ![b_frame.key] = <<>>]
  PROVE  Flow' /\ [Delivery!Next]_Delivery!dvars
<1>1. b_frame \in Frame /\ b_frame # NoFrame
  BY DEF Flow, BatcherOK
<1>2. b_frame.key \in Keys /\ current_batches[b_frame.key] \in Seq(Frame)
  BY <1>1 DEF Frame, Flow, BatcherOK
<1>3. PICK k \in Keys : k = b_frame.key
  BY <1>2
<1>4. PICK b \in Seq(Frame) : b = Append(current_batches[k], b_frame) /\ b # <<>>
                              /\ FrameIds(b) = FrameIds(current_batches[k]) \cup {b_frame.id}
  BY <1>1, <1>2, <1>3, IdsAppend
<1>5. PICK X, Y : X = {b_frame.id} /\ Y = FrameIds(current_batches[k])
  OBVIOUS
<1>6. FrameIds(b) = Y \cup X
  BY <1>4, <1>5
<1>7. Parts.batcher = X /\ Parts'.batcher = {}
  BY <1>1, <1>5, PartsValues, PartsValuesPrimed
<1>8. /\ current_batches' \in [Keys -> Seq(Frame)] /\ ApartIn(CurrentIds', Keys)
      /\ Y \subseteq Parts.current /\ Parts'.current = Parts.current \ Y
  BY <1>3, <1>5, CurrentGives DEF Flow
<1>9. FrameIds(b) \cap Parts.queue = {}
  <2>1. \A x \in X : x \notin Parts["queue"]
    BY <1>7, StagesApart DEF Stages, Flow
  <2>2. \A x \in Y : x \notin Parts["queue"]
    BY <1>8, StagesApart DEF Stages, Flow
  <2> QED
    BY <1>6, <2>1, <2>2
<1>10. /\ QueueOK' /\ batch_queue_'.stopped = batch_queue_.stopped
       /\ ~batch_queue_.stopped => Parts'.queue = Parts.queue \cup FrameIds(b)
  BY <1>3, <1>4, <1>9, QueuePush DEF Flow
<1>11. /\ DecodeOK' /\ ProcessedOK' /\ WorkersOK' /\ SendersOK' /\ HistoryOK' /\ ClosedInOrder'
       /\ ~batch_queue_.stopped
       /\ Parts'.decode = Parts.decode /\ Parts'.workers = Parts.workers
       /\ Parts'.processed = Parts.processed /\ Parts'.senders = Parts.senders
       /\ UNCHANGED <<redis, failed, refused, dry_run, lost_replies, produced>>
       /\ decode_frame_queue'.stopped = decode_frame_queue.stopped
  BY <1>10, BatcherContext
<1>12. BatcherOK'
  BY <1>8 DEF BatcherOK, ApartIn
<1>13. Places' /\ InFlight' = InFlight
  <2>1. \A s \in Stages \ {"batcher", "current", "queue"} : Parts'[s] = Parts[s]
    BY <1>11 DEF Stages
  <2>2. Parts'.batcher = Parts.batcher \ X /\ X \subseteq Parts.batcher
    BY <1>7
  <2>3. Parts'.queue = Parts.queue \cup (Y \cup X)
    BY <1>6, <1>10, <1>11
  <2> QED
    BY <1>8, <1>11, <2>1, <2>2, <2>3, FramesJoin DEF Flow
<1> QED
  BY <1>10, <1>11, <1>12, <1>13, Stutters DEF Flow

\* A partial batch is flushed.
LEMMA BatcherFlushes ==
  ASSUME Flow, UNCHANGED <<decode_frame_queue, processed_frame_queue, produced, batcher, b_frame>>,
         UNCHANGED workerVars, UNCHANGED P!senderVars, batcher = "flush",
         NEW k \in Keys, current_batches[k] # <<>>,
         batch_queue_' = Push(batch_queue_, current_batches[k]),
         current_batches' = [current_batches EXCEPT ![k] = <<>>]
  PROVE  Flow' /\ [Delivery!Next]_Delivery!dvars
<1>1. PICK b \in Seq(Frame) : b = current_batches[k] /\ b # <<>>
  BY DEF Flow, BatcherOK
<1>2. PICK X : X = FrameIds(b)
  OBVIOUS
<1>3. /\ current_batches' \in [Keys -> Seq(Frame)] /\ ApartIn(CurrentIds', Keys)
      /\ X \subseteq Parts.current /\ Parts'.current = Parts.current \ X
  BY <1>1, <1>2, CurrentGives DEF Flow
<1>4. FrameIds(b) \cap Parts.queue = {}
  <2>1. \A x \in X : x \notin Parts["queue"]
    BY <1>3, StagesApart DEF Stages, Flow
  <2> QED
    BY <1>2, <2>1
<1>5. /\ QueueOK' /\ batch_queue_'.stopped = batch_queue_.stopped
      /\ ~batch_queue_.stopped => Parts'.queue = Parts.queue \cup FrameIds(b)
  BY <1>1, <1>4, QueuePush DEF Flow
<1>6. /\ DecodeOK' /\ ProcessedOK' /\ WorkersOK' /\ SendersOK' /\ HistoryOK' /\ ClosedInOrder'
      /\ ~batch_queue_.stopped
      /\ Parts'.decode = Parts.decode /\ Parts'.workers = Parts.workers
      /\ Parts'.processed = Parts.processed /\ Parts'.senders = Parts.senders
      /\ UNCHANGED <<redis, failed, refused, dry_run, lost_replies, produced>>
      /\ decode_frame_queue'.stopped = decode_frame_queue.stopped
  BY <1>5, BatcherContext
<1>7. BatcherOK' /\ Parts'.batcher = Parts.batcher
  BY <1>3, PartsValues, PartsValuesPrimed DEF Flow, BatcherOK, ApartIn
<1>8. Places' /\ InFlight' = InFlight
  <2>1. \A s \in Stages \ {"current", "queue"} : Parts'[s] = Parts[s]
    BY <1>6, <1>7 DEF Stages
  <2>2. "current" \in Stages /\ "queue" \in Stages
    BY DEF Stages
  <2>3. /\ X \subseteq Parts["current"] /\ Parts'["current"] = Parts["current"] \ X
        /\ Parts'["queue"] = Parts["queue"] \cup X
    BY <1>2, <1>3, <1>5, <1>6
  <2> QED
    BY <1>6, <2>1, <2>2, <2>3, FramesMove DEF Flow
<1> QED
  BY <1>5, <1>6, <1>7, <1>8, Stutters DEF Flow

\* A set of keys that is not empty has a first one.
LEMMA FirstKey ==
  ASSUME NEW S \in SUBSET Nat, S # {}
  PROVE  \E x \in S : \A y \in S : x <= y
<1>1. IsWellFoundedOn(OpToRel(<, Nat), Nat)
  BY NatLessThanWellFounded
<1>2. PICK x \in S : \A y \in S : ~(<<y, x>> \in OpToRel(<, Nat))
  BY <1>1, WFMin, Zenon
<1>3. \A y \in S : ~(y < x)
  BY <1>2 DEF OpToRel
<1> QED
  BY <1>3

\* All steps of the batching thread.
LEMMA BatcherFlows ==
  ASSUME Flow, batching_loop
  PROVE  Flow' /\ [Delivery!Next]_Delivery!dvars
<1>1. UNCHANGED decode_frame_queue /\ UNCHANGED workerVars /\ UNCHANGED produced /\ UNCHANGED P!senderVars
  BY DEF batching_loop, PublisherStep, P!batching_loop, P!BatcherCheckStop, P!BatcherPop, P!BatchFrame, P!FlushPartial
<1>2. CASE P!BatcherCheckStop
  <2>1. /\ UNCHANGED <<processed_frame_queue, batch_queue_, current_batches, b_frame>>
        /\ batcher \notin {"frame", "exited"} /\ batcher' # "frame"
    BY <1>2 DEF P!BatcherCheckStop
  <2> QED
    BY <1>1, <2>1, BatcherLoops
<1>3. CASE P!BatcherPop
  <2>1. CASE HasItem(processed_frame_queue)
    <3>1. /\ UNCHANGED <<batch_queue_, current_batches>> /\ batcher = "pop" /\ batcher' = "frame"
          /\ b_frame' = Oldest(processed_frame_queue) /\ processed_frame_queue' = Pop(processed_frame_queue)
      BY <1>3, <2>1 DEF P!BatcherPop, P!HasItem, P!Oldest, P!Pop, P!Drained, HasItem, Oldest, Pop
    <3> QED
      BY <1>1, <2>1, <3>1, BatcherPops
  <2>2. CASE ~HasItem(processed_frame_queue)
    <3>1. /\ UNCHANGED <<processed_frame_queue, batch_queue_, current_batches, b_frame>>
          /\ batcher \notin {"frame", "exited"} /\ batcher' # "frame"
      BY <1>3, <2>2 DEF P!BatcherPop, P!HasItem, HasItem
    <3> QED
      BY <1>1, <3>1, BatcherLoops
  <2> QED
    BY <2>1, <2>2
<1>4. CASE P!BatchFrame
  <2>1. UNCHANGED processed_frame_queue /\ batcher = "frame" /\ batcher' = "loop" /\ b_frame' = NoFrame
    BY <1>4 DEF P!BatchFrame
  <2>2. PICK b : b = Append(current_batches[b_frame.key], b_frame)
    OBVIOUS
  <2>3. CASE P!BatchFull(b, b_frame)
    <3>1. /\ batch_queue_' = Push(batch_queue_, Append(current_batches[b_frame.key], b_frame))
          /\ current_batches' = [current_batches EXCEPT ![b_frame.key] = <<>>]
      BY <1>4, <2>2, <2>3 DEF P!BatchFrame, P!Push, Push
    <3> QED
      BY <1>1, <2>1, <3>1, BatcherPushes
  <2>4. CASE ~P!BatchFull(b, b_frame)
    <3>1. /\ current_batches' = [current_batches EXCEPT ![b_frame.key] = Append(current_batches[b_frame.key], b_frame)]
          /\ UNCHANGED batch_queue_
      BY <1>4, <2>2, <2>4 DEF P!BatchFrame
    <3> QED
      BY <1>1, <2>1, <3>1, BatcherKeeps
  <2> QED
    BY <2>3, <2>4
<1>5. CASE P!FlushPartial
  <2>1. UNCHANGED <<processed_frame_queue, b_frame>> /\ batcher = "flush"
    BY <1>5 DEF P!FlushPartial
  <2>2. CASE P!Partial # {}
    <3>1. P!Partial \in SUBSET Nat
      BY BoundsNat DEF BoundsNat, P!Partial
    <3>2. PICK k \in P!Partial :
            k = CHOOSE x \in P!Partial : \A y \in P!Partial : x <= y
      BY <2>2, <3>1, FirstKey
    <3>3. k \in Keys /\ current_batches[k] # <<>>
      BY <3>2 DEF P!Partial
    <3>4. /\ batch_queue_' = Push(batch_queue_, current_batches[k])
          /\ current_batches' = [current_batches EXCEPT ![k] = <<>>] /\ UNCHANGED batcher
      BY <1>5, <2>2, <3>2 DEF P!FlushPartial, P!Push, Push
    <3> QED
      BY <1>1, <2>1, <3>3, <3>4, BatcherFlushes
  <2>3. CASE P!Partial = {}
    <3>1. UNCHANGED <<batch_queue_, current_batches>> /\ batcher' = "exited"
      BY <1>5, <2>3 DEF P!FlushPartial
    <3> QED
      BY <1>1, <2>1, <3>1, BatcherLoops
  <2> QED
    BY <2>2, <2>3
<1> QED
  BY <1>2, <1>3, <1>4, <1>5 DEF batching_loop, PublisherStep, P!batching_loop

-----------------------------------------------------------------------------
(* The steps of the publisher threads *)

\* What a publisher thread leaves alone.
LEMMA SenderContext ==
  ASSUME Flow, UNCHANGED <<decode_frame_queue, processed_frame_queue, produced>>,
         UNCHANGED workerVars, UNCHANGED P!batcherVars, batch_queue_'.stopped = batch_queue_.stopped
  PROVE  /\ DecodeOK' /\ ProcessedOK' /\ WorkersOK' /\ BatcherOK' /\ ClosedInOrder'
         /\ Parts'.decode = Parts.decode /\ Parts'.workers = Parts.workers
         /\ Parts'.processed = Parts.processed /\ Parts'.batcher = Parts.batcher
         /\ Parts'.current = Parts.current
         /\ UNCHANGED <<failed, produced>> /\ decode_frame_queue'.stopped = decode_frame_queue.stopped
<1>1. DecodeOK' /\ WorkersOK' /\ Parts'.decode = Parts.decode /\ Parts'.workers = Parts.workers
  BY WorkerSideSame
<1>2. ProcessedOK' /\ Parts'.processed = Parts.processed
  BY ProcessedSame DEF Flow
<1>3. BatcherOK' /\ Parts'.batcher = Parts.batcher /\ Parts'.current = Parts.current
  BY BatcherSame DEF Flow, P!batcherVars
<1>4. ClosedInOrder' /\ UNCHANGED failed
  BY DEF Flow, ClosedInOrder, workerVars, P!batcherVars
<1> QED
  BY <1>1, <1>2, <1>3, <1>4

\* publisher_loop between two batches, and while it connects.
LEMMA SenderLoops ==
  ASSUME Flow, UNCHANGED <<decode_frame_queue, processed_frame_queue, produced, batch_queue_, batch>>,
         UNCHANGED workerVars, UNCHANGED P!batcherVars,
         UNCHANGED <<redis, refused, dry_run, lost_replies>>,
         NEW p \in 1..NumPublishers,
         \/ UNCHANGED p_pc
         \/ p_pc[p] # "send" /\ \E v \in {"loop", "pop", "exited"} : p_pc' = [p_pc EXCEPT ![p] = v]
  PROVE  Flow' /\ [Delivery!Next]_Delivery!dvars
<1>1. /\ DecodeOK' /\ ProcessedOK' /\ WorkersOK' /\ BatcherOK' /\ ClosedInOrder'
      /\ Parts'.decode = Parts.decode /\ Parts'.workers = Parts.workers
      /\ Parts'.processed = Parts.processed /\ Parts'.batcher = Parts.batcher
      /\ Parts'.current = Parts.current
      /\ UNCHANGED <<failed, produced>> /\ decode_frame_queue'.stopped = decode_frame_queue.stopped
  BY SenderContext
<1>2. QueueOK' /\ Parts'.queue = Parts.queue
  BY QueueSame DEF Flow
<1>3. SendersOK' /\ Parts'.senders = Parts.senders
  <2>1. CASE UNCHANGED p_pc
    BY <2>1, SendersSame DEF Flow
  <2>2. CASE p_pc[p] # "send" /\ \E v \in {"loop", "pop", "exited"} : p_pc' = [p_pc EXCEPT ![p] = v]
    BY <2>2, SenderGoesOn DEF Flow
  <2> QED
    BY <2>1, <2>2
<1>4. HistoryOK'
  BY DEF Flow, HistoryOK
<1>5. Places' /\ InFlight' = InFlight
  BY <1>1, <1>2, <1>3, NothingMoves DEF Flow, Stages
<1> QED
  BY <1>1, <1>2, <1>3, <1>4, <1>5, Stutters DEF Flow

\* wait_and_pop on batch_queue_.
LEMMA QueuePop ==
  ASSUME QueueOK, HasItem(batch_queue_), NEW b, b = Oldest(batch_queue_), batch_queue_' = Pop(batch_queue_)
  PROVE  /\ QueueOK' /\ batch_queue_'.stopped = batch_queue_.stopped
         /\ b \in Seq(Frame) /\ b # <<>> /\ FrameIds(b) \subseteq Parts.queue
         /\ Parts'.queue = Parts.queue \ FrameIds(b)
<1>1. PICK q, r : q = batch_queue_ /\ r = batch_queue_'
  OBVIOUS
<1>2. /\ q \in BatchQueue /\ ApartBatches(q.items) /\ r = Pop(q) /\ HasItem(q)
      /\ \A i \in DOMAIN q.items : q.items[i] # <<>>
  BY <1>1 DEF QueueOK
<1>3. /\ r \in BatchQueue /\ r.stopped = q.stopped /\ ApartBatches(r.items)
      /\ \A i \in DOMAIN r.items : r.items[i] # <<>>
      /\ Oldest(q) \in Seq(Frame) /\ Oldest(q) # <<>> /\ FrameIds(Oldest(q)) \subseteq AllIds(q.items)
      /\ AllIds(r.items) = AllIds(q.items) \ FrameIds(Oldest(q))
  BY <1>2, PopBatchFacts
<1>4. QueueOK'
  <2>1. /\ r \in BatchQueue
        /\ \A i, j \in DOMAIN r.items : i # j => FrameIds(r.items[i]) \cap FrameIds(r.items[j]) = {}
        /\ \A i \in DOMAIN r.items : r.items[i] # <<>>
    BY <1>3, Zenon DEF ApartBatches
  <2> QED
    BY <1>1, <2>1, Zenon DEF QueueOK, ApartBatches
<1> QED
  BY <1>1, <1>3, <1>4, PartsValues, PartsValuesPrimed

\* wait_and_pop hands a batch to a publisher thread.
LEMMA SenderPops ==
  ASSUME Flow, UNCHANGED <<decode_frame_queue, processed_frame_queue, produced>>,
         UNCHANGED workerVars, UNCHANGED P!batcherVars,
         UNCHANGED <<redis, refused, dry_run, lost_replies>>,
         NEW p \in 1..NumPublishers, p_pc[p] = "pop", HasItem(batch_queue_),
         batch' = [batch EXCEPT ![p] = Oldest(batch_queue_)], batch_queue_' = Pop(batch_queue_),
         p_pc' = [p_pc EXCEPT ![p] = "send"]
  PROVE  Flow' /\ [Delivery!Next]_Delivery!dvars
<1>1. PICK b : b = Oldest(batch_queue_)
  OBVIOUS
<1>2. PICK X : X = FrameIds(b)
  OBVIOUS
<1>3. /\ QueueOK' /\ batch_queue_'.stopped = batch_queue_.stopped
      /\ b \in Seq(Frame) /\ b # <<>> /\ FrameIds(b) \subseteq Parts.queue
      /\ Parts'.queue = Parts.queue \ FrameIds(b)
  BY <1>1, QueuePop DEF Flow
<1>4. FrameIds(b) \cap Parts.senders = {}
  <2>1. \A x \in FrameIds(b) : x \notin Parts["senders"]
    BY <1>3, StagesApart DEF Stages, Flow
  <2> QED
    BY <2>1
<1>5. SendersOK' /\ Parts'.senders = Parts.senders \cup FrameIds(b)
  BY <1>1, <1>3, <1>4, SenderTakes DEF Flow
<1>6. /\ DecodeOK' /\ ProcessedOK' /\ WorkersOK' /\ BatcherOK' /\ ClosedInOrder'
      /\ Parts'.decode = Parts.decode /\ Parts'.workers = Parts.workers
      /\ Parts'.processed = Parts.processed /\ Parts'.batcher = Parts.batcher
      /\ Parts'.current = Parts.current
      /\ UNCHANGED <<failed, produced>> /\ decode_frame_queue'.stopped = decode_frame_queue.stopped
  BY <1>3, SenderContext
<1>7. HistoryOK'
  BY DEF Flow, HistoryOK
<1>8. Places' /\ InFlight' = InFlight
  <2>1. \A s \in Stages \ {"queue", "senders"} : Parts'[s] = Parts[s]
    BY <1>6 DEF Stages
  <2>2. "queue" \in Stages /\ "senders" \in Stages
    BY DEF Stages
  <2>3. /\ X \subseteq Parts["queue"] /\ Parts'["queue"] = Parts["queue"] \ X
        /\ Parts'["senders"] = Parts["senders"] \cup X
    BY <1>2, <1>3, <1>5
  <2> QED
    BY <1>6, <2>1, <2>2, <2>3, FramesMove DEF Flow
<1> QED
  BY <1>3, <1>5, <1>6, <1>7, <1>8, Stutters DEF Flow

\* A publisher thread is done with its batch.
LEMMA SenderFinishes ==
  ASSUME Flow, UNCHANGED <<decode_frame_queue, processed_frame_queue, produced, batch_queue_>>,
         UNCHANGED workerVars, UNCHANGED P!batcherVars,
         NEW p \in 1..NumPublishers, p_pc[p] = "send", NEW b, b = batch[p],
         batch' = [batch EXCEPT ![p] = NoBatch], p_pc' = [p_pc EXCEPT ![p] = "loop"], HistoryOK'
  PROVE  /\ Flow' /\ b \in Seq(Frame) /\ FrameIds(b) # {} /\ FrameIds(b) \subseteq InFlight
         /\ InFlight' = InFlight \ FrameIds(b) /\ UNCHANGED <<failed, produced>>
         /\ decode_frame_queue'.stopped = decode_frame_queue.stopped
<1>1. PICK X : X = FrameIds(b)
  OBVIOUS
<1>2. /\ SendersOK' /\ b \in Seq(Frame) /\ X # {} /\ X \subseteq Parts.senders
      /\ Parts'.senders = Parts.senders \ X
  BY <1>1, SenderGives DEF Flow
<1>3. QueueOK' /\ Parts'.queue = Parts.queue
  BY QueueSame DEF Flow
<1>4. /\ DecodeOK' /\ ProcessedOK' /\ WorkersOK' /\ BatcherOK' /\ ClosedInOrder'
      /\ Parts'.decode = Parts.decode /\ Parts'.workers = Parts.workers
      /\ Parts'.processed = Parts.processed /\ Parts'.batcher = Parts.batcher
      /\ Parts'.current = Parts.current
      /\ UNCHANGED <<failed, produced>> /\ decode_frame_queue'.stopped = decode_frame_queue.stopped
  BY SenderContext
<1>5. Places' /\ InFlight' = InFlight \ X /\ X \subseteq InFlight
  <2>1. \A s \in Stages \ {"senders"} : Parts'[s] = Parts[s]
    BY <1>3, <1>4 DEF Stages
  <2>2. "senders" \in Stages
    BY DEF Stages
  <2> QED
    BY <1>2, <1>4, <2>1, <2>2, FramesLeave DEF Flow
<1> QED
  BY <1>1, <1>2, <1>3, <1>4, <1>5 DEF Flow

\* A publisher thread puts its batch back; a stopped queue swallows it.
LEMMA SenderRequeues ==
  ASSUME Flow, UNCHANGED <<decode_frame_queue, processed_frame_queue, produced>>,
         UNCHANGED workerVars, UNCHANGED P!batcherVars,
         NEW p \in 1..NumPublishers, p_pc[p] = "send", NEW b, b = batch[p],
         batch_queue_' = Push(batch_queue_, b),
         batch' = [batch EXCEPT ![p] = NoBatch], p_pc' = [p_pc EXCEPT ![p] = "loop"], HistoryOK'
  PROVE  /\ Flow' /\ b \in Seq(Frame) /\ FrameIds(b) # {} /\ FrameIds(b) \subseteq InFlight
         /\ \/ InFlight' = InFlight
            \/ decode_frame_queue.stopped /\ InFlight' = InFlight \ FrameIds(b)
         /\ UNCHANGED <<failed, produced>> /\ decode_frame_queue'.stopped = decode_frame_queue.stopped
<1>1. PICK X : X = FrameIds(b)
  OBVIOUS
<1>2. /\ SendersOK' /\ b \in Seq(Frame) /\ b # <<>> /\ X # {} /\ X \subseteq Parts.senders
      /\ Parts'.senders = Parts.senders \ X
  BY <1>1, SenderGives DEF Flow
<1>3. FrameIds(b) \cap Parts.queue = {}
  <2>1. \A x \in X : x \notin Parts["queue"]
    BY <1>2, StagesApart DEF Stages, Flow
  <2> QED
    BY <1>1, <2>1
<1>4. /\ QueueOK' /\ batch_queue_'.stopped = batch_queue_.stopped
      /\ batch_queue_.stopped => Parts'.queue = Parts.queue
      /\ ~batch_queue_.stopped => Parts'.queue = Parts.queue \cup X
  BY <1>1, <1>2, <1>3, QueuePush DEF Flow
<1>5. /\ DecodeOK' /\ ProcessedOK' /\ WorkersOK' /\ BatcherOK' /\ ClosedInOrder'
      /\ Parts'.decode = Parts.decode /\ Parts'.workers = Parts.workers
      /\ Parts'.processed = Parts.processed /\ Parts'.batcher = Parts.batcher
      /\ Parts'.current = Parts.current
      /\ UNCHANGED <<failed, produced>> /\ decode_frame_queue'.stopped = decode_frame_queue.stopped
  BY <1>4, SenderContext
<1>6. /\ "senders" \in Stages /\ "queue" \in Stages
      /\ \A s \in Stages \ {"senders", "queue"} : Parts'[s] = Parts[s]
  BY <1>5 DEF Stages
<1>7. X \subseteq InFlight
  BY <1>2, <1>6, InFlightParts DEF Total
<1>8. /\ Places'
      /\ InFlight' = InFlight \/ (decode_frame_queue.stopped /\ InFlight' = InFlight \ X)
  <2>1. CASE batch_queue_.stopped
    <3>1. \A s \in Stages \ {"senders"} : Parts'[s] = Parts[s]
      BY <1>4, <1>6, <2>1
    <3>2. Places' /\ InFlight' = InFlight \ X
      BY <1>2, <1>5, <1>6, <3>1, FramesLeave DEF Flow
    <3> QED
      BY <2>1, <3>2 DEF Flow, ClosedInOrder
  <2>2. CASE ~batch_queue_.stopped
    BY <1>2, <1>4, <1>5, <1>6, <2>2, FramesMove DEF Flow
  <2> QED
    BY <2>1, <2>2
<1> QED
  BY <1>1, <1>2, <1>4, <1>5, <1>7, <1>8 DEF Flow

\* All steps of a publisher thread.
LEMMA SenderFlows ==
  ASSUME Flow, NEW p \in 1..NumPublishers, publisher_loop(p)
  PROVE  Flow' /\ [Delivery!Next]_Delivery!dvars
<1>1. /\ UNCHANGED decode_frame_queue /\ UNCHANGED workerVars /\ UNCHANGED P!batcherVars
      /\ UNCHANGED <<processed_frame_queue, produced>>
  BY DEF publisher_loop, PublisherStep, P!publisher_loop, P!CheckStop, P!PopBatch, P!DryRun, P!Reconnect,
         P!ReconnectFails, P!XaddStored, P!XaddErrorReply, P!XaddNotSent, P!XaddReplyLost, P!Release
<1>2. PICK b : b = batch[p]
  OBVIOUS
<1>3. redis \in Seq(Seq(Frame)) /\ lost_replies \in Seq(Seq(Frame))
  BY DEF Flow, HistoryOK
<1>4. CASE P!CheckStop(p) \/ P!Reconnect(p)
  <2>1. /\ UNCHANGED <<batch_queue_, batch>> /\ UNCHANGED <<redis, refused, dry_run, lost_replies>>
        /\ \/ UNCHANGED p_pc
           \/ p_pc[p] # "send" /\ \E v \in {"loop", "pop", "exited"} : p_pc' = [p_pc EXCEPT ![p] = v]
    BY <1>4 DEF P!CheckStop, P!Reconnect
  <2> QED
    BY <1>1, <2>1, SenderLoops
<1>5. CASE P!PopBatch(p)
  <2>1. p_pc[p] = "pop" /\ UNCHANGED <<redis, refused, dry_run, lost_replies>>
    BY <1>5 DEF P!PopBatch
  <2>2. CASE HasItem(batch_queue_)
    <3>1. /\ batch' = [batch EXCEPT ![p] = Oldest(batch_queue_)] /\ batch_queue_' = Pop(batch_queue_)
          /\ p_pc' = [p_pc EXCEPT ![p] = "send"]
      BY <1>5, <2>2 DEF P!PopBatch, P!HasItem, P!Oldest, P!Pop, P!Drained, HasItem, Oldest, Pop
    <3> QED
      BY <1>1, <2>1, <2>2, <3>1, SenderPops
  <2>3. CASE ~HasItem(batch_queue_)
    <3>1. UNCHANGED <<batch_queue_, batch>> /\ p_pc' = [p_pc EXCEPT ![p] = "exited"]
      BY <1>5, <2>3 DEF P!PopBatch, P!HasItem, HasItem
    <3>2. p_pc[p] # "send"
      BY <2>1
    <3> QED
      BY <1>1, <2>1, <3>1, <3>2, SenderLoops
  <2> QED
    BY <2>2, <2>3
<1>6. CASE P!DryRun(p) \/ P!XaddErrorReply(p)
  <2>1. /\ p_pc[p] = "send" /\ UNCHANGED batch_queue_ /\ UNCHANGED <<redis, lost_replies>>
        /\ refused' \cup dry_run' = refused \cup dry_run \cup {b}
        /\ batch' = [batch EXCEPT ![p] = NoBatch] /\ p_pc' = [p_pc EXCEPT ![p] = "loop"]
    BY <1>2, <1>6 DEF P!DryRun, P!XaddErrorReply, P!Sending, P!Release
  <2>2. HistoryOK'
    BY <1>3, <2>1 DEF HistoryOK
  <2>3. /\ Flow' /\ b \in Seq(Frame) /\ FrameIds(b) # {} /\ FrameIds(b) \subseteq InFlight
        /\ InFlight' = InFlight \ FrameIds(b) /\ UNCHANGED <<failed, produced>>
        /\ decode_frame_queue'.stopped = decode_frame_queue.stopped
    BY <1>1, <1>2, <2>1, <2>2, SenderFinishes
  <2>4. PICK X : X = FrameIds(b)
    OBVIOUS
  <2>5. \E c : FrameIds(c) = X /\ refused' \cup dry_run' = refused \cup dry_run \cup {c}
    BY <2>1, <2>4
  <2>6. X # {} /\ X \subseteq InFlight /\ InFlight' = InFlight \ X /\ UNCHANGED <<redis, lost_replies, produced>>
        /\ failed' = failed /\ decode_frame_queue'.stopped = decode_frame_queue.stopped
    BY <2>1, <2>3, <2>4
  <2> QED
    BY <2>3, <2>5, <2>6, Drops
<1>7. CASE P!XaddStored(p)
  <2>1. /\ p_pc[p] = "send" /\ UNCHANGED batch_queue_ /\ UNCHANGED <<refused, dry_run, lost_replies>>
        /\ redis' = Append(redis, b)
        /\ batch' = [batch EXCEPT ![p] = NoBatch] /\ p_pc' = [p_pc EXCEPT ![p] = "loop"]
    BY <1>2, <1>7 DEF P!XaddStored, P!Sending, P!Release
  <2>2. b \in Seq(Frame)
    BY <1>2, <2>1 DEF Flow, SendersOK
  <2>3. HistoryOK'
    BY <1>3, <2>1, <2>2, EntryAdded DEF HistoryOK
  <2>4. /\ Flow' /\ b \in Seq(Frame) /\ FrameIds(b) # {} /\ FrameIds(b) \subseteq InFlight
        /\ InFlight' = InFlight \ FrameIds(b) /\ UNCHANGED <<failed, produced>>
        /\ decode_frame_queue'.stopped = decode_frame_queue.stopped
    BY <1>1, <1>2, <2>1, <2>3, SenderFinishes
  <2> QED
    BY <1>3, <2>1, <2>4, Publishes
<1>8. CASE P!ReconnectFails(p) \/ P!XaddNotSent(p)
  <2>1. /\ p_pc[p] = "send" /\ UNCHANGED <<redis, refused, dry_run, lost_replies>>
        /\ batch_queue_' = Push(batch_queue_, b)
        /\ batch' = [batch EXCEPT ![p] = NoBatch] /\ p_pc' = [p_pc EXCEPT ![p] = "loop"]
    BY <1>2, <1>8 DEF P!ReconnectFails, P!XaddNotSent, P!Sending, P!Requeue, P!Release, P!Push, Push
  <2>2. HistoryOK'
    BY <1>3, <2>1 DEF HistoryOK
  <2>3. /\ Flow' /\ b \in Seq(Frame) /\ FrameIds(b) # {} /\ FrameIds(b) \subseteq InFlight
        /\ \/ InFlight' = InFlight
           \/ decode_frame_queue.stopped /\ InFlight' = InFlight \ FrameIds(b)
        /\ UNCHANGED <<failed, produced>> /\ decode_frame_queue'.stopped = decode_frame_queue.stopped
    BY <1>1, <1>2, <2>1, <2>2, SenderRequeues
  <2>4. CASE InFlight' = InFlight
    BY <2>1, <2>3, <2>4, Stutters
  <2>5. CASE decode_frame_queue.stopped /\ InFlight' = InFlight \ FrameIds(b)
    BY <2>1, <2>3, <2>5, Loses
  <2> QED
    BY <2>3, <2>4, <2>5
<1>9. CASE P!XaddReplyLost(p)
  <2>1. /\ p_pc[p] = "send" /\ UNCHANGED <<refused, dry_run>>
        /\ redis' = Append(redis, b) /\ lost_replies' = Append(lost_replies, b)
        /\ batch_queue_' = Push(batch_queue_, b)
        /\ batch' = [batch EXCEPT ![p] = NoBatch] /\ p_pc' = [p_pc EXCEPT ![p] = "loop"]
    BY <1>2, <1>9 DEF P!XaddReplyLost, P!Sending, P!Requeue, P!Release, P!Push, Push
  <2>2. b \in Seq(Frame)
    BY <1>2, <2>1 DEF Flow, SendersOK
  <2>3. HistoryOK'
    <3>1. lost_replies' \in Seq(Seq(Frame))
      BY <1>3, <2>1, <2>2, AppendProperties
    <3>2. redis' \in Seq(Seq(Frame))
      BY <1>3, <2>1, <2>2, EntryAdded
    <3> QED
      BY <3>1, <3>2 DEF HistoryOK
  <2>4. /\ Flow' /\ b \in Seq(Frame) /\ FrameIds(b) # {} /\ FrameIds(b) \subseteq InFlight
        /\ \/ InFlight' = InFlight
           \/ decode_frame_queue.stopped /\ InFlight' = InFlight \ FrameIds(b)
        /\ UNCHANGED <<failed, produced>> /\ decode_frame_queue'.stopped = decode_frame_queue.stopped
    BY <1>1, <1>2, <2>1, <2>3, SenderRequeues
  <2> QED
    BY <1>3, <2>1, <2>4, PublishesUnanswered
<1> QED
  BY <1>4, <1>5, <1>6, <1>7, <1>8, <1>9 DEF publisher_loop, PublisherStep, P!publisher_loop

-----------------------------------------------------------------------------
(* The streams and the shutdown *)

\* A stream thread pushes a frame with a new id.
LEMMA StreamFlows ==
  ASSUME Flow, NEW k \in Keys, NEW c \in Procs, NEW g \in Geoms, NEW n \in BatchSizes, PushFrame(k, c, g, n)
  PROVE  Flow' /\ [Delivery!Next]_Delivery!dvars
<1>1. PICK f : f = [id |-> produced + 1, key |-> k, proc |-> c, geom |-> g, applied |-> NoContext, batch_size |-> n]
  OBVIOUS
<1>2. /\ produced < MaxFrames /\ ~decode_frame_queue.stopped /\ produced' = produced + 1
      /\ decode_frame_queue' = Push(decode_frame_queue, f) /\ UNCHANGED processed_frame_queue
      /\ UNCHANGED workerVars /\ UNCHANGED publisherVars
  BY <1>1 DEF PushFrame
<1>3. PICK m \in 0..MaxFrames : m = produced /\ MaxFrames \in Nat
  BY BoundsNat DEF BoundsNat, Flow, Places
<1>4. m + 1 \in 1..MaxFrames /\ m + 1 \notin 1..m /\ 1..m \subseteq 1..(m + 1) /\ m + 1 \in 1..(m + 1)
  BY <1>2, <1>3
<1>5. f \in Frame /\ f.id = m + 1
  BY <1>1, <1>3, <1>4 DEF Frame
<1>6. f.id \notin Total(Parts, Stages)
  BY <1>3, <1>4, <1>5 DEF Flow, Places
<1>7. f.id \notin FrameIds(decode_frame_queue.items)
  BY <1>6, PartsValues DEF Total, Stages
<1>8. /\ decode_frame_queue' \in Queue /\ decode_frame_queue'.stopped = decode_frame_queue.stopped
      /\ Distinct(decode_frame_queue'.items) /\ Parts'.decode = Parts.decode \cup {f.id}
  <2>1. PICK q, r : q = decode_frame_queue /\ r = decode_frame_queue'
    OBVIOUS
  <2>2. q \in Queue /\ Distinct(q.items) /\ f.id \notin FrameIds(q.items) /\ r = Push(q, f) /\ ~q.stopped
    BY <1>2, <1>7, <2>1 DEF Flow, DecodeOK
  <2>3. f \in Frame
    BY <1>5
  <2>4. /\ r \in Queue /\ r.stopped = q.stopped /\ Distinct(r.items)
        /\ FrameIds(r.items) = FrameIds(q.items) \cup {f.id}
    BY <2>2, <2>3, PushFacts
  <2> QED
    BY <2>1, <2>4, PartsValues, PartsValuesPrimed
<1>9. DecodeOK'
  BY <1>8 DEF DecodeOK, Distinct
<1>10. ProcessedOK' /\ Parts'.processed = Parts.processed /\ WorkersOK' /\ Parts'.workers = Parts.workers
  BY <1>2, ProcessedSame, WorkersSame DEF Flow, workerVars
<1>11. /\ BatcherOK' /\ QueueOK' /\ SendersOK' /\ HistoryOK'
       /\ Parts'.batcher = Parts.batcher /\ Parts'.current = Parts.current
       /\ Parts'.queue = Parts.queue /\ Parts'.senders = Parts.senders
  BY <1>2, PublisherSideSame
<1>12. Total(Parts', Stages) = Total(Parts, Stages) \cup {f.id} /\ ApartIn(Parts', Stages)
  <2>1. PICK X : X = {f.id}
    OBVIOUS
  <2>2. /\ "decode" \in Stages /\ \A s \in Stages : s # "decode" => Parts'[s] = Parts[s]
        /\ Parts'["decode"] = Parts["decode"] \cup X /\ X \cap Total(Parts, Stages) = {}
    BY <1>6, <1>8, <1>10, <1>11, <2>1 DEF Stages
  <2>3. ApartIn(Parts, Stages)
    BY DEF Flow, Places
  <2>4. Total(Parts', Stages) = Total(Parts, Stages) \cup X /\ ApartIn(Parts', Stages)
    <3>1. Takes(Parts, Parts', Stages, "decode", X)
      BY <2>2, <2>3 DEF Takes
    <3> QED
      BY <3>1, MemberGrows
  <2> QED
    BY <2>1, <2>4
<1>13. Places'
  <2>1. Total(Parts, Stages) \subseteq 1..m
    BY <1>3 DEF Flow, Places
  <2>2. Total(Parts', Stages) \subseteq 1..(m + 1)
    BY <1>4, <1>5, <1>12, <2>1
  <2>3. produced' = m + 1 /\ m + 1 \in 0..MaxFrames
    BY <1>2, <1>3, <1>4
  <2> QED
    BY <1>12, <2>2, <2>3 DEF Places, ApartIn, Total
<1>14. InFlight' = InFlight \cup {produced + 1}
  BY <1>3, <1>5, <1>12, InFlightParts, InFlightPartsPrimed
<1>15. ClosedInOrder'
  BY <1>2, <1>8 DEF Flow, ClosedInOrder, workerVars, publisherVars
<1>16. Delivery!Produce
  BY <1>2, <1>8, <1>14 DEF Delivery!Produce, workerVars, publisherVars
<1> QED
  BY <1>9, <1>10, <1>11, <1>13, <1>15, <1>16 DEF Flow, Delivery!Next

\* Nothing moves, but a queue may be stopped.
LEMMA StopsFlow ==
  ASSUME Flow, UNCHANGED <<w_pc, w_frame, produced, batcher, b_frame, current_batches, p_pc, batch>>,
         UNCHANGED <<redis, failed, refused, dry_run, lost_replies>>,
         decode_frame_queue' = decode_frame_queue \/ decode_frame_queue' = StopQueue(decode_frame_queue),
         processed_frame_queue' = processed_frame_queue \/ processed_frame_queue' = StopQueue(processed_frame_queue),
         batch_queue_' = batch_queue_ \/ batch_queue_' = StopQueue(batch_queue_), ClosedInOrder'
  PROVE  Flow' /\ [Delivery!Next]_Delivery!dvars
<1>1. /\ decode_frame_queue' \in Queue /\ decode_frame_queue'.items = decode_frame_queue.items
      /\ decode_frame_queue'.stopped = decode_frame_queue.stopped \/ decode_frame_queue'.stopped = TRUE
  <2>1. decode_frame_queue \in Queue
    BY DEF Flow, DecodeOK
  <2> QED
    BY <2>1, StopFacts
<1>2. processed_frame_queue' \in Queue /\ processed_frame_queue'.items = processed_frame_queue.items
  <2>1. processed_frame_queue \in Queue
    BY DEF Flow, ProcessedOK
  <2> QED
    BY <2>1, StopFacts
<1>3. batch_queue_' \in BatchQueue /\ batch_queue_'.items = batch_queue_.items
  <2>1. batch_queue_ \in BatchQueue
    BY DEF Flow, QueueOK
  <2> QED
    BY <2>1, StopFacts
<1>4. DecodeOK' /\ Parts'.decode = Parts.decode
  <2>1. Parts'.decode = Parts.decode
    BY <1>1, PartsValues, PartsValuesPrimed
  <2> QED
    BY <1>1, <2>1 DEF Flow, DecodeOK, Distinct
<1>5. ProcessedOK' /\ Parts'.processed = Parts.processed
  <2>1. Parts'.processed = Parts.processed
    BY <1>2, PartsValues, PartsValuesPrimed
  <2> QED
    BY <1>2, <2>1 DEF Flow, ProcessedOK, Distinct
<1>6. QueueOK' /\ Parts'.queue = Parts.queue
  <2>1. Parts'.queue = Parts.queue
    BY <1>3, PartsValues, PartsValuesPrimed
  <2> QED
    BY <1>3, <2>1 DEF Flow, QueueOK, ApartBatches
<1>7. WorkersOK' /\ Parts'.workers = Parts.workers
  BY WorkersSame DEF Flow
<1>8. BatcherOK' /\ Parts'.batcher = Parts.batcher /\ Parts'.current = Parts.current
  BY BatcherSame DEF Flow
<1>9. SendersOK' /\ Parts'.senders = Parts.senders /\ HistoryOK'
  BY SendersSame DEF Flow, HistoryOK
<1>10. Places' /\ InFlight' = InFlight
  BY <1>4, <1>5, <1>6, <1>7, <1>8, <1>9, NothingMoves DEF Flow, Stages
<1>11. Flow'
  BY <1>4, <1>5, <1>6, <1>7, <1>8, <1>9, <1>10 DEF Flow
<1>12. CASE decode_frame_queue'.stopped = decode_frame_queue.stopped
  BY <1>10, <1>11, <1>12, Stutters
<1>13. CASE decode_frame_queue'.stopped = TRUE
  <2>1. Delivery!Close
    BY <1>10, <1>13 DEF Delivery!Close
  <2> QED
    BY <1>11, <2>1 DEF Delivery!Next
<1> QED
  BY <1>1, <1>12, <1>13

\* The steps of Worker::stop.
LEMMA WorkerStopFlows ==
  ASSUME Flow, StopWorker
  PROVE  Flow' /\ [Delivery!Next]_Delivery!dvars
<1>1. /\ UNCHANGED <<w_pc, w_frame, produced, failed>> /\ UNCHANGED publisherVars
      /\ \/ /\ decode_frame_queue' = StopQueue(decode_frame_queue) /\ UNCHANGED processed_frame_queue
         \/ /\ w_stop_pc # "no" /\ UNCHANGED decode_frame_queue
            /\ processed_frame_queue' = processed_frame_queue \/ processed_frame_queue' = StopQueue(processed_frame_queue)
  BY DEF StopWorker, WorkerStep, W!StopInQueue, W!stop, W!StopOutQueue, W!RequestStop, W!Join, W!StopReturns,
         W!StopQueue, StopQueue
<1>2. decode_frame_queue'.stopped
  <2>1. CASE decode_frame_queue' = StopQueue(decode_frame_queue)
    BY <2>1, StopFacts DEF Flow, DecodeOK
  <2>2. CASE w_stop_pc # "no" /\ UNCHANGED decode_frame_queue
    BY <2>2 DEF Flow, ClosedInOrder
  <2> QED
    BY <1>1, <2>1, <2>2
<1>3. ClosedInOrder'
  BY <1>1, <1>2 DEF Flow, ClosedInOrder, publisherVars
<1> QED
  BY <1>1, <1>3, StopsFlow DEF publisherVars

\* The steps of Publisher::stop, which is called when Worker::stop has returned.
LEMMA PublisherStopFlows ==
  ASSUME ShutdownOrder, Flow, StopPublisher
  PROVE  Flow' /\ [Delivery!Next]_Delivery!dvars
<1>1. /\ UNCHANGED decode_frame_queue /\ UNCHANGED workerVars
      /\ UNCHANGED <<p_pc, batch, redis, refused, dry_run, lost_replies>>
      /\ UNCHANGED <<batcher, b_frame, current_batches, produced>>
      /\ processed_frame_queue' = processed_frame_queue \/ processed_frame_queue' = StopQueue(processed_frame_queue)
      /\ batch_queue_' = batch_queue_ \/ (p_stop_pc = "batch_queue" /\ batch_queue_' = StopQueue(batch_queue_))
  BY DEF StopPublisher, PublisherStep, P!StopProcessedQueue, P!stop, P!RequestStopBatcher, P!JoinBatcher,
         P!StopBatchQueue, P!RequestStop, P!Join, P!batcherVars, P!stopVars, P!StopQueue, StopQueue, P!senderVars
<1>2. UNCHANGED <<w_pc, w_frame, w_stop_pc, failed>>
  BY <1>1 DEF workerVars
<1>3. decode_frame_queue.stopped
  BY DEF StopPublisher, ShutdownOrder, WorkersJoined, Flow, ClosedInOrder
<1>4. batch_queue_' = batch_queue_ \/ batcher = "exited"
  BY <1>1 DEF ShutdownOrder, PublishersJoined
<1>5. ClosedInOrder'
  BY <1>1, <1>2, <1>3, <1>4 DEF Flow, ClosedInOrder
<1> QED
  BY <1>1, <1>2, <1>5, StopsFlow

\* A step of app_logic between the two, or of the stream manager.
LEMMA OthersFlow ==
  ASSUME Flow, UNCHANGED <<decode_frame_queue, processed_frame_queue, produced>>,
         UNCHANGED workerVars, UNCHANGED publisherVars
  PROVE  Flow' /\ [Delivery!Next]_Delivery!dvars
<1>1. ClosedInOrder'
  BY DEF Flow, ClosedInOrder, workerVars, publisherVars
<1> QED
  BY <1>1, StopsFlow DEF workerVars, publisherVars

-----------------------------------------------------------------------------
(* The pipeline implements FrameDelivery *)

\* Nothing is anywhere at the start.
LEMMA FlowInitially == Init => Flow /\ Delivery!Init
<1> SUFFICES ASSUME Init PROVE Flow /\ Delivery!Init
  OBVIOUS
<1>1. /\ decode_frame_queue = [items |-> <<>>, stopped |-> FALSE]
      /\ processed_frame_queue = [items |-> <<>>, stopped |-> FALSE]
      /\ batch_queue_ = [items |-> <<>>, stopped |-> FALSE]
      /\ w_pc = [w \in 1..NumWorkers |-> "loop"] /\ w_frame = [w \in 1..NumWorkers |-> NoFrame]
      /\ w_stop_pc = "no" /\ produced = 0 /\ failed = {}
  BY DEF Init, W!Init, W!EmptyQueue, W!Threads, P!Init, P!EmptyQueue
<1>2. /\ b_frame = NoFrame /\ batcher # "frame" /\ current_batches = [k \in Keys |-> <<>>]
      /\ batch = [p \in 1..NumPublishers |-> NoBatch]
      /\ p_pc \in [1..NumPublishers -> {"loop", "exited"}]
      /\ redis = <<>> /\ lost_replies = <<>> /\ refused = {} /\ dry_run = {}
  BY DEF Init, P!Init, P!Publishers
<1>3. <<>> \in Seq(Frame) /\ <<>> \in Seq(Seq(Frame)) /\ NoBatch # <<>>
  BY EmptySeq, FreshValues DEF FreshValues
<1>4. DecodeOK /\ ProcessedOK /\ QueueOK
  BY <1>1, <1>3 DEF DecodeOK, ProcessedOK, QueueOK, Queue, BatchQueue, Distinct, ApartBatches
<1>5. \A w \in 1..NumWorkers : WorkerIds[w] = {}
  BY <1>1 DEF WorkerIds
<1>6. \A k \in Keys : CurrentIds[k] = {}
  BY <1>2, NoIds DEF CurrentIds
<1>7. \A p \in 1..NumPublishers : SenderIds[p] = {}
  BY <1>2 DEF SenderIds
<1>8. WorkersOK
  BY <1>1, <1>5 DEF WorkersOK, ApartIn
<1>9. BatcherOK
  BY <1>2, <1>3, <1>6 DEF BatcherOK, ApartIn
<1>10. SendersOK
  BY <1>2, <1>3, <1>7 DEF SendersOK, ApartIn
<1>11. HistoryOK /\ ClosedInOrder
  BY <1>1, <1>2, <1>3 DEF HistoryOK, ClosedInOrder
<1>12. \A s \in Stages : Parts[s] = {}
  <2>1. Parts.decode = {} /\ Parts.processed = {} /\ Parts.batcher = {}
    BY <1>1, <1>2, NoIds, PartsValues
  <2>2. Parts.queue = {}
    BY <1>1, PartsValues DEF AllIds
  <2>3. Parts.workers = {} /\ Parts.current = {} /\ Parts.senders = {}
    BY <1>5, <1>6, <1>7, PartsValues DEF Total
  <2> QED
    BY <2>1, <2>2, <2>3 DEF Stages
<1>13. ApartIn(Parts, Stages) /\ Total(Parts, Stages) = {}
  BY <1>12 DEF ApartIn, Total
<1>14. Places
  BY <1>1, <1>13, BoundsNat DEF Places, BoundsNat
<1>15. Delivery!Init
  <2>1. InFlight = {}
    BY <1>13, InFlightParts
  <2>2. [i \in DOMAIN redis |-> FrameIds(redis[i])] = <<>>
    BY <1>2
  <2>3. Len(lost_replies) = 0
    BY <1>2
  <2>4. failed \cup UNION {FrameIds(b) : b \in refused \cup dry_run} = {}
    BY <1>1, <1>2
  <2> QED
    BY <1>1, <2>1, <2>2, <2>3, <2>4 DEF Delivery!Init
<1> QED
  BY <1>4, <1>8, <1>9, <1>10, <1>11, <1>14, <1>15 DEF Flow

\* Every step keeps the frames in their places and is one of FrameDelivery.
LEMMA FlowStep ==
  ShutdownOrder /\ Flow /\ GraphsOK /\ [Next]_vars => Flow' /\ [Delivery!Next]_Delivery!dvars
<1> SUFFICES ASSUME ShutdownOrder, Flow, GraphsOK, [Next]_vars PROVE Flow' /\ [Delivery!Next]_Delivery!dvars
  OBVIOUS
<1>1. CASE \E k \in Keys, p \in Procs, g \in Geoms, n \in BatchSizes : PushFrame(k, p, g, n)
  BY <1>1, StreamFlows
<1>2. CASE \E w \in 1..NumWorkers : worker_loop(w)
  BY <1>2, WorkerFlows
<1>3. CASE batching_loop
  BY <1>3, BatcherFlows
<1>4. CASE \E p \in 1..NumPublishers : publisher_loop(p)
  BY <1>4, SenderFlows
<1>5. CASE StopWorker
  BY <1>5, WorkerStopFlows
<1>6. CASE StopPublisher
  BY <1>6, PublisherStopFlows
<1>7. CASE UpdateStreams \/ ShutdownRequested \/ JoinStream \/ WorkerStopped \/ PublisherStopped
           \/ Done \/ UNCHANGED vars
  <2>1. /\ UNCHANGED <<decode_frame_queue, processed_frame_queue, produced>>
        /\ UNCHANGED workerVars /\ UNCHANGED publisherVars
    BY <1>7 DEF UpdateStreams, ShutdownRequested, JoinStream, WorkerStopped, PublisherStopped, Done, vars
  <2> QED
    BY <2>1, OthersFlow
<1> QED
  BY <1>1, <1>2, <1>3, <1>4, <1>5, <1>6, <1>7 DEF Next, app_logic

(* End to end, for any number of threads, streams, frames, queue lengths and *)
(* retries: a frame is published once, plus once for each lost reply, or     *)
(* dropped for a known cause, and none disappears before Worker::stop        *)
(* has closed the first queue.                                               *)
THEOREM DeliveryImplemented == Spec => ImplementsFrameDelivery
<1>1. Init => ShutdownOrder /\ Flow /\ GraphsOK /\ Delivery!Init
  BY OrderInitially, FlowInitially DEF Init, W!Init, W!Threads, GraphsOK
<1>2. ShutdownOrder /\ Flow /\ GraphsOK /\ [Next]_vars
        => ShutdownOrder' /\ Flow' /\ GraphsOK' /\ [Delivery!Next]_Delivery!dvars
  BY OrderKept, FlowStep, GraphsKept
<1> QED
  BY <1>1, <1>2, PTL DEF Spec, ImplementsFrameDelivery, Delivery!Spec
=============================================================================
