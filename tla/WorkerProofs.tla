---------------------------- MODULE WorkerProofs ----------------------------
(***************************************************************************)
(* Proofs about Worker and the FrameSaver its threads share, for any       *)
(* number of threads, frames, streams, events and configurations.          *)
(***************************************************************************)
EXTENDS Worker, SequenceTheorems, FiniteSetTheorems, FunctionTheorems, TLAPS

-----------------------------------------------------------------------------
(* FrameSaver *)

\* Calls that have not opened their file yet.
BeforeOpen == {"check_dir", "create_dir", "mark_dir", "open"}

\* A thread's file index only grows, a call in progress has its latest value,
\* and no file of that index was opened by the thread before.
IndexesGrow ==
  /\ \A t \in Threads : call[t] # "none" => saving[t].index = frames_processed_local[t]
  /\ \A x \in opened : x[2] \in Threads /\ x[1][2] \in Nat /\ x[1][2] <= frames_processed_local[x[2]]
  /\ \A t \in Threads : call[t] \in BeforeOpen =>
       \A x \in opened : x[2] = t => x[1][2] < saving[t].index

\* A call that has opened its file is on record, and so are all files.
WritesOnRecord ==
  /\ \A t \in Threads : call[t] = "write" => <<Path(t), t, saving[t].id>> \in opened
  /\ DOMAIN files = {x[1] : x \in opened}

\* The types of the saver's variables that its proofs need.
SaverTypes ==
  /\ call \in [Threads -> Calls]
  /\ frames_processed_local \in [Threads -> Nat]
  /\ DOMAIN saving = Threads

\* The inductive invariant of the saver.
SaverInv ==
  SaverTypes /\ DirectoriesExist /\ IndexesGrow /\ WritesOnRecord /\ OneFramePerWorkerAndFile

\* What the workers do to the saver.
SaverNext ==
  \E t \in Threads :
    \/ call[t] = "none" /\ SkipSave(t)
    \/ call[t] = "none" /\ \E id, stream : CallSave(t, id, stream)
    \/ save_frame(t)

(***************************************************************************)
(* The invariant of the saver holds when it is constructed.                *)
(***************************************************************************)
LEMMA SaverInitially == InitSaver => SaverInv
  BY DEF InitSaver, SaverInv, SaverTypes, Calls, DirectoriesExist, IndexesGrow,
         WritesOnRecord, OneFramePerWorkerAndFile, BeforeOpen

(***************************************************************************)
(* The invariant of the saver is kept by every interleaving of the calls   *)
(* of any number of workers. DirectoriesExist needs the last conjunct of   *)
(* its own statement: a thread between the creation of a directory and its *)
(* entry in created_dirs_ knows that it exists. OneFramePerWorkerAndFile   *)
(* needs IndexesGrow: the names alone do not show that an index was not    *)
(* used before; and WritesOnRecord: what is written was opened.            *)
(***************************************************************************)
LEMMA SaverPreserved == SaverInv /\ [SaverNext]_saverVars => SaverInv'
<1> SUFFICES ASSUME SaverInv, [SaverNext]_saverVars PROVE SaverInv'
  OBVIOUS
<1> USE DEF SaverInv, SaverTypes
<1>1. CASE UNCHANGED saverVars
  BY <1>1 DEF saverVars, DirectoriesExist, IndexesGrow, WritesOnRecord, OneFramePerWorkerAndFile, Path
<1>2. ASSUME NEW t \in Threads, call[t] = "none", SkipSave(t) PROVE SaverInv'
  <2>1. /\ UNCHANGED <<call, saving, created_dirs_, dirs, opened, files>>
        /\ \A u \in Threads : u # t => frames_processed_local'[u] = frames_processed_local[u]
        /\ frames_processed_local[t] \in Nat
        /\ frames_processed_local' \in [Threads -> Nat]
        /\ frames_processed_local[t] <= frames_processed_local'[t]
    BY <1>2 DEF SkipSave
  <2>2. IndexesGrow'
    BY <1>2, <2>1 DEF IndexesGrow
  <2> QED
    BY <2>1, <2>2 DEF DirectoriesExist, WritesOnRecord, OneFramePerWorkerAndFile, Path
<1>3. ASSUME NEW t \in Threads, NEW id, NEW stream, call[t] = "none", CallSave(t, id, stream)
      PROVE  SaverInv'
  <2>1. /\ UNCHANGED <<created_dirs_, dirs, opened, files>>
        /\ frames_processed_local' = [frames_processed_local EXCEPT ![t] = frames_processed_local[t] + 1]
        /\ frames_processed_local' \in [Threads -> Nat]
    BY <1>3 DEF CallSave
  <2>2. /\ call' \in [Threads -> Calls] /\ DOMAIN saving' = Threads
        /\ call'[t] = "check_dir" /\ saving'[t].index = frames_processed_local[t] + 1
        /\ \A u \in Threads : u # t => call'[u] = call[u] /\ saving'[u] = saving[u]
    BY <1>3 DEF CallSave, Calls, NextIndex
  <2>3. IndexesGrow'
    BY <2>1, <2>2 DEF IndexesGrow, BeforeOpen
  <2> QED
    BY <2>1, <2>2, <2>3 DEF DirectoriesExist, WritesOnRecord, OneFramePerWorkerAndFile, Path
<1>4. ASSUME NEW t \in Threads, save_frame(t) PROVE SaverInv'
  <2>1. ASSUME NEW from \in Calls \ {"none"}, NEW to \in Calls, Step(t, from, to)
        PROVE  /\ SaverTypes'
               /\ call[t] = from /\ call'[t] = to
               /\ to # "none" => saving'[t] = saving[t]
               /\ \A u \in Threads : u # t => call'[u] = call[u] /\ saving'[u] = saving[u]
               /\ UNCHANGED frames_processed_local
    BY <2>1 DEF Step
  <2>2. ASSUME NEW from \in BeforeOpen, NEW to \in BeforeOpen \cup {"none"}, Step(t, from, to),
               UNCHANGED <<files, opened>>
        PROVE  SaverTypes' /\ IndexesGrow' /\ WritesOnRecord' /\ OneFramePerWorkerAndFile'
    <3>1. from \in Calls \ {"none"} /\ to \in Calls
      BY DEF BeforeOpen, Calls
    <3> QED
      BY <2>1, <2>2, <3>1 DEF IndexesGrow, BeforeOpen, WritesOnRecord, OneFramePerWorkerAndFile, Path
  <2>3. CASE CheckDirectory(t)
    <3>1. PICK to \in {"open", "mark_dir", "create_dir"} :
            /\ Step(t, "check_dir", to)
            /\ to # "create_dir" => saving[t].stream \in created_dirs_ \cup dirs
      BY <2>3 DEF CheckDirectory
    <3>2. UNCHANGED <<created_dirs_, dirs, files, opened>>
      BY <2>3 DEF CheckDirectory
    <3> QED
      BY <2>1, <2>2, <3>1, <3>2 DEF DirectoriesExist, BeforeOpen, Calls
  <2>4. CASE CreateDirectory(t)
    BY <2>1, <2>2, <2>4 DEF CreateDirectory, DirectoriesExist, BeforeOpen, Calls
  <2>5. CASE CreateFails(t)
    BY <2>1, <2>2, <2>5 DEF CreateFails, DirectoriesExist, BeforeOpen, Calls
  <2>6. CASE MarkDirectory(t)
    BY <2>1, <2>2, <2>6 DEF MarkDirectory, DirectoriesExist, BeforeOpen, Calls
  <2>7. CASE EncodeFails(t)
    BY <2>1, <2>2, <2>7 DEF EncodeFails, DirectoriesExist, BeforeOpen, Calls
  <2>8. CASE OpenFile(t)
    <3>1. Step(t, "open", "write") /\ UNCHANGED <<created_dirs_, dirs>>
      BY <2>8 DEF OpenFile
    <3>2. /\ SaverTypes' /\ call[t] = "open" /\ call'[t] = "write" /\ saving'[t] = saving[t]
          /\ \A u \in Threads : u # t => call'[u] = call[u] /\ saving'[u] = saving[u]
          /\ UNCHANGED frames_processed_local
      BY <2>1, <3>1 DEF Calls
    <3>3. PICK x : x = <<Path(t), t, saving[t].id>>
      OBVIOUS
    <3>4. x[2] = t /\ x[1][2] = saving[t].index
      BY <3>3 DEF Path
    <3>5. opened' = opened \cup {x}
      BY <2>8, <3>3 DEF OpenFile
    <3>6. saving[t].index = frames_processed_local[t] /\ \A y \in opened : y[2] = t => y[1][2] < saving[t].index
      BY <3>2 DEF IndexesGrow, BeforeOpen
    <3>7. IndexesGrow'
      BY <3>2, <3>4, <3>5, <3>6 DEF IndexesGrow, BeforeOpen
    <3>8. \A y \in opened : y[2] = t => y[1] # x[1]
      BY <3>4, <3>6 DEF IndexesGrow
    <3>9. /\ DOMAIN files' = DOMAIN files \cup {x[1]} /\ files'[x[1]] = {}
          /\ \A p \in DOMAIN files : p # x[1] => files'[p] = files[p]
      BY <2>8, <3>3 DEF OpenFile
    <3>10. WritesOnRecord'
      BY <3>2, <3>3, <3>5, <3>9 DEF WritesOnRecord, Path
    <3>11. OneFramePerWorkerAndFile'
      BY <3>4, <3>5, <3>8, <3>9 DEF OneFramePerWorkerAndFile
    <3> QED
      BY <3>1, <3>2, <3>7, <3>10, <3>11 DEF DirectoriesExist
  <2>9. CASE WriteFile(t)
    <3>1. Step(t, "write", "none") /\ UNCHANGED <<created_dirs_, dirs, opened>>
      BY <2>9 DEF WriteFile
    <3>2. /\ SaverTypes' /\ call[t] = "write" /\ call'[t] = "none"
          /\ \A u \in Threads : u # t => call'[u] = call[u] /\ saving'[u] = saving[u]
          /\ UNCHANGED frames_processed_local
      BY <2>1, <3>1 DEF Calls
    <3>3. PICK x \in opened : x = <<Path(t), t, saving[t].id>>
      BY <3>2 DEF WritesOnRecord
    <3>4. x[1] \in DOMAIN files /\ x[1] = Path(t) /\ x[3] = saving[t].id
      BY <3>3 DEF WritesOnRecord
    <3>5. /\ DOMAIN files' = DOMAIN files
          /\ \A p \in DOMAIN files : p # x[1] => files'[p] = files[p]
          /\ files'[x[1]] \subseteq files[x[1]] \cup {x[3]}
      BY <2>9, <3>4 DEF WriteFile
    <3>6. WritesOnRecord'
      BY <3>1, <3>2, <3>5 DEF WritesOnRecord, Path
    <3>7. OneFramePerWorkerAndFile'
      <4>1. \A p \in DOMAIN files' : files'[p] \subseteq {y[3] : y \in {o \in opened : o[1] = p}}
        BY <3>3, <3>4, <3>5 DEF OneFramePerWorkerAndFile
      <4> QED
        BY <3>1, <4>1 DEF OneFramePerWorkerAndFile
    <3> QED
      BY <3>1, <3>2, <3>6, <3>7 DEF BeforeOpen, IndexesGrow, DirectoriesExist
  <2> QED
    BY <1>4, <2>3, <2>4, <2>5, <2>6, <2>7, <2>8, <2>9 DEF save_frame
<1> QED
  BY <1>1, <1>2, <1>3, <1>4 DEF SaverNext

-----------------------------------------------------------------------------
(* Queues *)

\* The queues hold frames.
Queue == [items : Seq(Frame), stopped : BOOLEAN]
\* No frame is in the queue twice.
DistinctIds(q) == \A i, j \in DOMAIN q.items : q.items[i].id = q.items[j].id => i = j

(***************************************************************************)
(* The elements of a queue by position.                                    *)
(***************************************************************************)
LEMMA QueueFacts ==
  ASSUME NEW q \in Queue
  PROVE  /\ q.items \in Seq(Frame) /\ Len(q.items) \in Nat /\ DOMAIN q.items = 1..Len(q.items)
         /\ \A i \in 1..Len(q.items) : q.items[i] \in Frame
<1>1. q.items \in Seq(Frame)
  BY DEF Queue
<1> QED
  BY <1>1, LenProperties, ElementOfSeq

(***************************************************************************)
(* What push does to a queue, by position; a stopped queue stays as it is. *)
(***************************************************************************)
LEMMA PushFacts ==
  ASSUME NEW q \in Queue, NEW f \in Frame, NEW r, r = Push(q, f)
  PROVE  /\ r \in Queue /\ r.stopped = q.stopped
         /\ q.stopped => r = q
         /\ ~q.stopped => /\ Len(r.items) = Len(q.items) + 1
                          /\ r.items[Len(q.items) + 1] = f
                          /\ \A i \in 1..Len(q.items) : r.items[i] = q.items[i]
<1>1. CASE q.stopped
  BY <1>1 DEF Push
<1>2. CASE ~q.stopped
  <2>1. q.items \in Seq(Frame) /\ q.stopped \in BOOLEAN
    BY DEF Queue
  <2>2. r = [q EXCEPT !.items = Append(q.items, f)]
    BY <1>2 DEF Push
  <2>3. r.items = Append(q.items, f) /\ r.stopped = q.stopped
    BY <2>2 DEF Queue
  <2>4. Append(q.items, f) \in Seq(Frame)
    BY <2>1, AppendProperties
  <2>5. r \in Queue
    BY <2>1, <2>2, <2>4 DEF Queue
  <2>6. /\ Len(r.items) = Len(q.items) + 1 /\ r.items[Len(q.items) + 1] = f
        /\ \A i \in 1..Len(q.items) : r.items[i] = q.items[i]
    BY <2>1, <2>3, AppendProperties
  <2> QED
    BY <1>2, <2>3, <2>5, <2>6
<1> QED
  BY <1>1, <1>2 DEF Queue

(***************************************************************************)
(* What wait_and_pop takes and what it leaves, by position.                *)
(***************************************************************************)
LEMMA PopFacts ==
  ASSUME NEW q \in Queue, HasItem(q), NEW r, r = Pop(q)
  PROVE  /\ r \in Queue /\ r.stopped = q.stopped
         /\ Oldest(q) \in Frame /\ Oldest(q) = q.items[1] /\ Len(q.items) >= 1
         /\ Len(r.items) = Len(q.items) - 1
         /\ \A i \in 1..Len(r.items) : r.items[i] = q.items[i + 1]
<1>1. q.items \in Seq(Frame) /\ q.items # <<>> /\ q.stopped \in BOOLEAN
  BY DEF Queue, HasItem
<1>2. /\ Head(q.items) \in Frame /\ Tail(q.items) \in Seq(Frame)
      /\ Len(Tail(q.items)) = Len(q.items) - 1
      /\ \A i \in 1..Len(Tail(q.items)) : Tail(q.items)[i] = q.items[i + 1]
  BY <1>1, HeadTailProperties
<1>3. Len(q.items) >= 1 /\ Head(q.items) = q.items[1]
  BY <1>1, EmptySeq
<1>4. r = [q EXCEPT !.items = Tail(q.items)]
  BY DEF Pop
<1>5. r.items = Tail(q.items) /\ r.stopped = q.stopped
  BY <1>4 DEF Queue
<1>6. r \in Queue
  BY <1>1, <1>2, <1>4 DEF Queue
<1> QED
  BY <1>2, <1>3, <1>5, <1>6 DEF Oldest

(***************************************************************************)
(* stop keeps the elements.                                                *)
(***************************************************************************)
LEMMA StopFacts ==
  ASSUME NEW q \in Queue, NEW r, r = StopQueue(q)
  PROVE  r \in Queue /\ r.stopped = TRUE /\ r.items = q.items
  BY DEF StopQueue, Queue

-----------------------------------------------------------------------------
(* Worker *)

(***************************************************************************)
(* The graph a worker uses for a frame, cached or new, was built for the   *)
(* frame's configuration and dimensions.                                   *)
(***************************************************************************)
LEMMA ContextMatches ==
  ASSUME TypeOK, NEW w \in Threads, NEW f \in Frame
  PROVE  /\ ContextFor(w, f) \in Contexts /\ Settings(f) \in Contexts
         /\ ContextFor(w, f).proc = f.proc /\ ContextFor(w, f).geom.dims = f.geom.dims
<1>1. Settings(f) \in Contexts /\ Settings(f).proc = f.proc /\ Settings(f).geom = f.geom
  BY DEF Settings, Contexts, Frame
<1>2. f.key \in Keys
  BY DEF Frame
<1>3. stream_contexts[w][f.key] \in {NoContext} \cup Contexts
  BY <1>2 DEF TypeOK
<1> QED
  BY <1>1, <1>3 DEF ContextFor, NeedsReinit

(***************************************************************************)
(* The type invariant holds when the threads start.                        *)
(***************************************************************************)
LEMMA TypeInitially == Init => TypeOK
<1> SUFFICES ASSUME Init PROVE TypeOK
  OBVIOUS
<1>1. EmptyQueue \in Queue
  BY EmptySeq DEF EmptyQueue, Queue
<1>2. call \in [Threads -> Calls] /\ frames_processed_local \in [Threads -> Nat]
  BY DEF Init, InitSaver, Calls
<1>3. joined \in 0..NumThreads /\ arrived \in 0..MaxFrames /\ 1..joined = {}
  BY NumThreadsNat, MaxFramesNat DEF NumThreadsNat, MaxFramesNat, Init
<1>4. \A w \in Threads : call[w] = "none"
  BY DEF Init, InitSaver
<1> QED
  BY <1>1, <1>2, <1>3, <1>4 DEF Init, TypeOK, LocalsAgree, Queue

(***************************************************************************)
(* A step of one worker keeps the type invariant when its own locals keep  *)
(* their types and agree with each other: it is not among the joined       *)
(* threads, because those have exited.                                     *)
(***************************************************************************)
LEMMA WorkerMoves ==
  ASSUME TypeOK, NEW w \in Threads, pc[w] # "exited",
         in_queue_' \in Queue, out_queue_' \in Queue,
         pc' \in [Threads -> {"loop", "pop", "frame", "save", "exited"}],
         d_frame' \in [Threads -> Frame \cup {NoFrame}],
         stream_contexts' \in [Threads -> [Keys -> {NoContext} \cup Contexts]],
         failed' \subseteq 1..MaxFrames,
         call' \in [Threads -> Calls], frames_processed_local' \in [Threads -> Nat],
         \A v \in Threads : v # w => /\ pc'[v] = pc[v] /\ d_frame'[v] = d_frame[v]
                                     /\ call'[v] = call[v] /\ saving'[v] = saving[v],
         d_frame'[w] # NoFrame <=> pc'[w] \in {"frame", "save"},
         call'[w] # "none" => pc'[w] = "save" /\ saving'[w].id = d_frame'[w].id,
         UNCHANGED <<stop_requested, stop_pc, joined, arrived>>
  PROVE  TypeOK'
<1>1. LocalsAgree /\ joined \in 0..NumThreads
  BY DEF TypeOK
<1>2. \A v \in 1..joined' : pc'[v] = "exited"
  BY <1>1, NumThreadsNat DEF NumThreadsNat, LocalsAgree, Threads
<1>3. \A v \in Threads : d_frame'[v] # NoFrame <=> pc'[v] \in {"frame", "save"}
  BY <1>1 DEF LocalsAgree
<1>4. \A v \in Threads : call'[v] # "none" => pc'[v] = "save" /\ saving'[v].id = d_frame'[v].id
  BY <1>1 DEF LocalsAgree
<1>5. \A v \in Threads : stop_requested'[v] => stop_pc' \in {"clear", "returned"}
  BY <1>1 DEF LocalsAgree
<1>6. LocalsAgree'
  BY <1>2, <1>3, <1>4, <1>5 DEF LocalsAgree
<1> QED
  BY <1>6 DEF TypeOK, Queue

(***************************************************************************)
(* Every step keeps the type invariant.                                    *)
(***************************************************************************)
LEMMA TypePreserved == TypeOK /\ SaverTypes /\ [Next]_vars => TypeOK'
<1> SUFFICES ASSUME TypeOK, SaverTypes, [Next]_vars PROVE TypeOK'
  OBVIOUS
<1> DEFINE ctxs == [Threads -> [Keys -> {NoContext} \cup Contexts]]
<1>0. in_queue_ \in Queue /\ out_queue_ \in Queue
  BY DEF TypeOK, Queue
<1>17. LocalsAgree
  BY DEF TypeOK
<1>1. ASSUME NEW k \in Keys, NEW p \in Procs, NEW g \in Geoms, Arrive(k, p, g) PROVE TypeOK'
  <2> DEFINE f == [id |-> arrived + 1, key |-> k, proc |-> p, geom |-> g, applied |-> NoContext]
  <2>1. f \in Frame /\ arrived' \in 0..MaxFrames
    BY <1>1, MaxFramesNat DEF MaxFramesNat, Arrive, TypeOK, Frame
  <2>2. in_queue_' = Push(in_queue_, f)
    BY <1>1 DEF Arrive
  <2> HIDE DEF f
  <2>3. in_queue_' \in Queue
    BY <1>0, <2>1, <2>2, PushFacts
  <2> QED
    BY <1>1, <2>1, <2>3 DEF Arrive, TypeOK, LocalsAgree, workerVars, saverVars, Queue
<1>2. ASSUME NEW w \in Threads, CheckStop(w) \/ PopNullopt(w) PROVE TypeOK'
  <2>1. PICK to \in {"pop", "exited"} : pc' = [pc EXCEPT ![w] = to]
    BY <1>2 DEF CheckStop, PopNullopt
  <2>2. /\ pc' \in [Threads -> {"loop", "pop", "frame", "save", "exited"}]
        /\ pc'[w] \in {"pop", "exited"} /\ pc[w] \in {"loop", "pop"}
        /\ \A v \in Threads : v # w => pc'[v] = pc[v]
    BY <1>2, <2>1 DEF CheckStop, PopNullopt, TypeOK
  <2>3. /\ UNCHANGED <<in_queue_, out_queue_, d_frame, stream_contexts, failed>>
        /\ UNCHANGED <<stop_requested, stop_pc, joined, arrived>>
        /\ UNCHANGED <<call, saving, frames_processed_local>>
    BY <1>2 DEF CheckStop, PopNullopt, saverVars
  <2>4. d_frame[w] = NoFrame /\ call[w] = "none"
    BY <1>17, <2>2 DEF LocalsAgree
  <2> QED
    BY <1>0, <2>2, <2>3, <2>4, WorkerMoves DEF TypeOK
<1>3. ASSUME NEW w \in Threads, PopFrame(w) PROVE TypeOK'
  <2>1. in_queue_' \in Queue /\ Oldest(in_queue_) \in Frame
    BY <1>0, <1>3, PopFacts DEF PopFrame
  <2>2. d_frame' \in [Threads -> Frame \cup {NoFrame}] /\ d_frame'[w] # NoFrame
        /\ \A v \in Threads : v # w => d_frame'[v] = d_frame[v]
    BY <1>3, <2>1, NoFrameFresh DEF NoFrameFresh, PopFrame, TypeOK
  <2> QED
    BY <1>3, <2>1, <2>2 DEF PopFrame, TypeOK, LocalsAgree, saverVars, Queue
<1>4. ASSUME NEW w \in Threads, pc[w] = "frame"
      PROVE  d_frame[w] \in Frame /\ call[w] = "none" /\ ContextFor(w, d_frame[w]) \in Contexts
             /\ d_frame[w].id \in 1..MaxFrames /\ d_frame[w].key \in Keys
  <2>1. d_frame[w] \in Frame /\ call[w] = "none"
    BY <1>4 DEF TypeOK, LocalsAgree, Calls
  <2> QED
    BY <2>1, ContextMatches DEF Frame
<1>5. ASSUME NEW w \in Threads, CreateFilterFails(w) \/ FilterFails(w) PROVE TypeOK'
  <2>1. pc[w] = "frame"
    BY <1>5 DEF CreateFilterFails, FilterFails
  <2>2. stream_contexts' \in ctxs
    <3>1. CASE CreateFilterFails(w)
      BY <3>1 DEF CreateFilterFails, TypeOK
    <3>2. CASE FilterFails(w)
      <4>1. stream_contexts' = [stream_contexts EXCEPT ![w][d_frame[w].key] =
                                                    ContextFor(w, d_frame[w])]
        BY <3>2 DEF FilterFails
      <4> QED
        BY <1>4, <2>1, <4>1 DEF TypeOK
    <3> QED
      BY <1>5, <3>1, <3>2
  <2>3. /\ pc' = [pc EXCEPT ![w] = "loop"] /\ d_frame' = [d_frame EXCEPT ![w] = NoFrame]
        /\ failed' = failed \cup {d_frame[w].id}
        /\ UNCHANGED <<in_queue_, out_queue_>>
        /\ UNCHANGED <<stop_requested, stop_pc, joined, arrived>>
        /\ UNCHANGED <<call, saving, frames_processed_local>>
    BY <1>5 DEF CreateFilterFails, FilterFails, saverVars
  <2>4. /\ pc' \in [Threads -> {"loop", "pop", "frame", "save", "exited"}]
        /\ d_frame' \in [Threads -> Frame \cup {NoFrame}]
        /\ pc'[w] = "loop" /\ d_frame'[w] = NoFrame
        /\ \A v \in Threads : v # w => pc'[v] = pc[v] /\ d_frame'[v] = d_frame[v]
    BY <2>3 DEF TypeOK
  <2>5. failed' \subseteq 1..MaxFrames
    <3>1. failed \subseteq 1..MaxFrames /\ d_frame[w].id \in 1..MaxFrames
      BY <1>4, <2>1 DEF TypeOK
    <3> QED
      BY <2>3, <3>1, Zenon
  <2> QED
    BY <1>0, <1>4, <2>1, <2>2, <2>3, <2>4, <2>5, WorkerMoves DEF TypeOK
<1>6. ASSUME NEW w \in Threads, pc[w] = "frame", NEW f, f = [d_frame[w] EXCEPT !.applied = ContextFor(w, d_frame[w])]
      PROVE  f \in Frame /\ f.id = d_frame[w].id
  <2>1. ContextFor(w, d_frame[w]) \in Contexts /\ d_frame[w] \in Frame
    BY <1>4, <1>6
  <2> QED
    BY <1>6, <2>1 DEF Frame
<1>7. ASSUME NEW w \in Threads, ProcessFrame(w) PROVE TypeOK'
  <2>1. pc[w] = "frame"
    BY <1>7 DEF ProcessFrame
  <2>2. stream_contexts' \in ctxs
    BY <1>4, <1>7, <2>1 DEF ProcessFrame, TypeOK
  <2>3. PICK f \in Frame : f = [d_frame[w] EXCEPT !.applied = ContextFor(w, d_frame[w])]
    BY <1>6, <2>1
  <2>4. out_queue_' \in Queue
    BY <1>0, <1>7, <2>3, PushFacts DEF ProcessFrame
  <2>5. frames_processed_local' \in [Threads -> Nat] /\ UNCHANGED <<call, saving>>
    BY <1>7 DEF ProcessFrame, SkipSave, TypeOK
  <2> QED
    BY <1>4, <1>7, <2>1, <2>2, <2>4, <2>5 DEF ProcessFrame, TypeOK, LocalsAgree, Queue
<1>8. ASSUME NEW w \in Threads, SaveFrame(w) PROVE TypeOK'
  <2>1. pc[w] = "frame"
    BY <1>8 DEF SaveFrame
  <2>2. stream_contexts' \in ctxs
    BY <1>4, <1>8, <2>1 DEF SaveFrame, TypeOK
  <2>3. PICK f \in Frame : f = [d_frame[w] EXCEPT !.applied = ContextFor(w, d_frame[w])]
    BY <1>6, <2>1
  <2>4. d_frame' = [d_frame EXCEPT ![w] = f] /\ f.id = d_frame[w].id /\ f # NoFrame
    BY <1>6, <1>8, <2>1, <2>3, NoFrameFresh DEF NoFrameFresh, SaveFrame
  <2>5. /\ frames_processed_local' \in [Threads -> Nat] /\ call' \in [Threads -> Calls]
        /\ saving'[w].id = d_frame[w].id
        /\ \A v \in Threads : v # w => call'[v] = call[v] /\ saving'[v] = saving[v]
    BY <1>8 DEF SaveFrame, CallSave, TypeOK, Calls, SaverTypes
  <2>6. /\ pc' = [pc EXCEPT ![w] = "save"]
        /\ UNCHANGED <<in_queue_, out_queue_, failed>>
        /\ UNCHANGED <<stop_requested, stop_pc, joined, arrived>>
    BY <1>8 DEF SaveFrame
  <2>7. /\ pc' \in [Threads -> {"loop", "pop", "frame", "save", "exited"}]
        /\ d_frame' \in [Threads -> Frame \cup {NoFrame}]
        /\ pc'[w] = "save" /\ d_frame'[w] = f
        /\ \A v \in Threads : v # w => pc'[v] = pc[v] /\ d_frame'[v] = d_frame[v]
    BY <2>4, <2>6 DEF TypeOK
  <2> QED
    BY <1>0, <2>1, <2>2, <2>4, <2>5, <2>6, <2>7, WorkerMoves DEF TypeOK
<1>9. ASSUME NEW w \in Threads, Saving(w) PROVE TypeOK'
  <2>1. PICK to \in Calls : \E from \in Calls \ {"none"} : Step(w, from, to)
    BY <1>9 DEF Saving, save_frame, CheckDirectory, CreateDirectory, CreateFails, MarkDirectory,
                EncodeFails, OpenFile, WriteFile, Calls
  <2>2. /\ call' \in [Threads -> Calls] /\ UNCHANGED frames_processed_local
        /\ call[w] # "none"
        /\ call'[w] # "none" => saving'[w] = saving[w]
        /\ \A v \in Threads : v # w => call'[v] = call[v] /\ saving'[v] = saving[v]
    BY <2>1 DEF Step, SaverTypes
  <2>3. /\ UNCHANGED <<in_queue_, out_queue_, pc, d_frame, stream_contexts, failed>>
        /\ UNCHANGED <<stop_requested, stop_pc, joined, arrived>> /\ pc[w] = "save"
    BY <1>9 DEF Saving
  <2>4. d_frame[w] # NoFrame /\ saving[w].id = d_frame[w].id
    BY <1>17, <2>2, <2>3 DEF LocalsAgree
  <2> QED
    BY <1>0, <2>2, <2>3, <2>4, WorkerMoves DEF TypeOK
<1>10. ASSUME NEW w \in Threads, PushSaved(w) PROVE TypeOK'
  <2>1. d_frame[w] \in Frame
    BY <1>10 DEF PushSaved, TypeOK, LocalsAgree
  <2>2. out_queue_' \in Queue
    BY <1>0, <1>10, <2>1, PushFacts DEF PushSaved
  <2> QED
    BY <1>10, <2>2 DEF PushSaved, TypeOK, LocalsAgree, saverVars, Queue
<1>11. CASE StopInQueue
  BY <1>0, <1>11, StopFacts DEF StopInQueue, TypeOK, LocalsAgree, saverVars, Queue
<1>12. CASE StopOutQueue
  BY <1>0, <1>12, StopFacts DEF StopOutQueue, TypeOK, LocalsAgree, saverVars, Queue
<1>13. CASE RequestStop
  BY <1>13, NumThreadsNat DEF NumThreadsNat, RequestStop, TypeOK, LocalsAgree, saverVars
<1>14. CASE Join
  <2>1. joined' \in 0..NumThreads /\ 1..joined' = 1..joined \cup {joined + 1}
    BY <1>14, NumThreadsNat DEF NumThreadsNat, Join, TypeOK
  <2> QED
    BY <1>14, <2>1 DEF Join, TypeOK, LocalsAgree, saverVars
<1>15. CASE StopReturns
  BY <1>15 DEF StopReturns, TypeOK, LocalsAgree, saverVars
<1>16. CASE UNCHANGED vars
  BY <1>16 DEF vars, workerVars, saverVars, TypeOK, LocalsAgree
<1> QED
  BY <1>1, <1>2, <1>3, <1>5, <1>7, <1>8, <1>9, <1>10, <1>11, <1>12, <1>13, <1>14, <1>15, <1>16
  DEF Next, worker_loop, stop, Terminated

(***************************************************************************)
(* What the pool does to the saver: a worker counts or starts a call only  *)
(* when it has none in progress.                                           *)
(***************************************************************************)
LEMMA SaverSteps == TypeOK /\ [Next]_vars => [SaverNext]_saverVars
<1> SUFFICES ASSUME TypeOK, [Next]_vars PROVE [SaverNext]_saverVars
  OBVIOUS
<1>1. \A w \in Threads : pc[w] = "frame" => call[w] = "none"
  BY DEF TypeOK, LocalsAgree
<1>2. ASSUME NEW w \in Threads, worker_loop(w) PROVE [SaverNext]_saverVars
  <2>1. CASE ProcessFrame(w)
    BY <1>1, <2>1 DEF ProcessFrame, SaverNext
  <2>2. CASE SaveFrame(w)
    BY <1>1, <2>2 DEF SaveFrame, SaverNext
  <2>3. CASE Saving(w)
    BY <2>3 DEF Saving, SaverNext
  <2>4. CASE UNCHANGED saverVars
    BY <2>4
  <2> QED
    BY <1>2, <2>1, <2>2, <2>3, <2>4 DEF worker_loop, CheckStop, PopFrame, PopNullopt,
       CreateFilterFails, FilterFails, PushSaved
<1> QED
  BY <1>2 DEF Next, Arrive, workerVars, StopInQueue, stop, StopOutQueue, RequestStop, Join,
     StopReturns, Terminated, vars

(***************************************************************************)
(* The type invariant and the invariant of the saver hold in every         *)
(* reachable state.                                                        *)
(***************************************************************************)
LEMMA Invariant == Spec => [](TypeOK /\ SaverInv)
<1>1. Init => TypeOK /\ SaverInv
  BY TypeInitially, SaverInitially DEF Init
<1>2. TypeOK /\ SaverInv /\ [Next]_vars => TypeOK' /\ SaverInv'
  BY TypePreserved, SaverSteps, SaverPreserved DEF SaverInv
<1> QED
  BY <1>1, <1>2, PTL DEF Spec

(***************************************************************************)
(* Types, for any number of threads and frames, with the locals in step: a *)
(* worker holds a frame just while it processes one, a call of save_frame  *)
(* is about that frame, and the threads stop() has joined are gone.        *)
(***************************************************************************)
THEOREM TypeCorrect == Spec => []TypeOK
  BY Invariant, PTL

(***************************************************************************)
(* ensure_directory_exists with any number of threads: a directory         *)
(* recorded in created_dirs_ exists, and no file is opened in a missing    *)
(* one.                                                                    *)
(***************************************************************************)
THEOREM NoMissingDirectory == Spec => []DirectoriesExist
<1>1. SaverInv => DirectoriesExist
  BY DEF SaverInv
<1> QED
  BY <1>1, Invariant, PTL

(***************************************************************************)
(* No worker opens one of its own files a second time, whatever streams it *)
(* serves and whatever calls fail, and a file has bytes only of frames     *)
(* opened under its name, so that it stands for up to one frame of each    *)
(* worker.                                                                 *)
(***************************************************************************)
THEOREM OwnFilesKept == Spec => []OneFramePerWorkerAndFile
<1>1. SaverInv => OneFramePerWorkerAndFile
  BY DEF SaverInv
<1> QED
  BY <1>1, Invariant, PTL

(***************************************************************************)
(* The file names are unique, and no saved frame is overwritten, if the    *)
(* pool has one worker: the thread_local index is then the counter the     *)
(* saver's comments speak of.                                              *)
(***************************************************************************)
THEOREM SingleWorkerKeepsFrames ==
  ASSUME NumThreads = 1
  PROVE  Spec => []SavedFramesKept
<1>1. SaverInv => SavedFramesKept
  <2> SUFFICES ASSUME SaverInv, NEW x \in opened, NEW y \in opened, x[1] = y[1]
               PROVE  x[3] = y[3]
    BY DEF SavedFramesKept
  <2>1. x[2] = 1 /\ y[2] = 1
    BY DEF SaverInv, IndexesGrow, Threads
  <2> QED
    BY <2>1 DEF SaverInv, OneFramePerWorkerAndFile
<1> QED
  BY <1>1, Invariant, PTL

-----------------------------------------------------------------------------
(* Where a frame is *)

\* The frames with the workers have ids of their own.
DistinctHeld ==
  \A v, w \in Threads :
    d_frame[v] # NoFrame /\ d_frame[w] # NoFrame /\ d_frame[v].id = d_frame[w].id => v = w

\* The four places are pairwise disjoint.
Apart(in, held, out, lost) ==
  /\ in \cap held = {} /\ in \cap out = {} /\ in \cap lost = {}
  /\ held \cap out = {} /\ held \cap lost = {} /\ out \cap lost = {}

\* The inductive invariant: frames are distinct within and across the places,
\* none is invented, and none disappears before stop().
Located ==
  /\ DistinctIds(in_queue_) /\ DistinctIds(out_queue_) /\ DistinctHeld
  /\ Apart(Ids(in_queue_), Held, Ids(out_queue_), failed)
  /\ Ids(in_queue_) \cup Held \cup Ids(out_queue_) \cup failed \subseteq 1..arrived
  /\ stop_pc = "no" => 1..arrived \subseteq Ids(in_queue_) \cup Held \cup Ids(out_queue_) \cup failed
  /\ stop_pc \in {"no", "out_queue"} => ~out_queue_.stopped

(***************************************************************************)
(* push adds the id of the frame, or nothing once the queue is stopped.    *)
(***************************************************************************)
LEMMA PushIds ==
  ASSUME NEW q \in Queue, NEW f \in Frame, NEW r, r = Push(q, f),
         DistinctIds(q), f.id \notin Ids(q)
  PROVE  /\ DistinctIds(r) /\ r.stopped = q.stopped
         /\ Ids(q) \subseteq Ids(r) /\ Ids(r) \subseteq Ids(q) \cup {f.id}
         /\ ~q.stopped => Ids(r) = Ids(q) \cup {f.id}
<1>1. r \in Queue /\ r.stopped = q.stopped
  BY PushFacts
<1>2. /\ DOMAIN q.items = 1..Len(q.items) /\ DOMAIN r.items = 1..Len(r.items)
      /\ Len(q.items) \in Nat
  BY <1>1, QueueFacts
<1>3. CASE q.stopped
  BY <1>1, <1>3, PushFacts
<1>4. CASE ~q.stopped
  <2>1. /\ Len(r.items) = Len(q.items) + 1 /\ r.items[Len(q.items) + 1] = f
        /\ \A i \in 1..Len(q.items) : r.items[i] = q.items[i]
    BY <1>4, PushFacts
  <2>2. DOMAIN r.items = DOMAIN q.items \cup {Len(q.items) + 1}
    BY <1>2, <2>1
  <2>3. PICK n : n = Len(q.items) + 1
    OBVIOUS
  <2>4. /\ DOMAIN r.items = DOMAIN q.items \cup {n} /\ r.items[n] = f
        /\ \A i \in DOMAIN q.items : r.items[i] = q.items[i]
    BY <1>2, <2>1, <2>2, <2>3
  <2>5. Ids(r) = Ids(q) \cup {f.id}
    <3>1. Ids(r) \subseteq Ids(q) \cup {f.id}
      BY <2>4 DEF Ids
    <3>2. Ids(q) \cup {f.id} \subseteq Ids(r)
      BY <2>4 DEF Ids
    <3> QED
      BY <3>1, <3>2
  <2>6. \A i \in DOMAIN q.items : q.items[i].id # f.id
    BY DEF Ids
  <2>7. DistinctIds(r)
    BY <2>4, <2>6 DEF DistinctIds
  <2> QED
    BY <1>1, <2>5, <2>7
<1> QED
  BY <1>3, <1>4

(***************************************************************************)
(* wait_and_pop removes exactly the id of the frame it returns.            *)
(***************************************************************************)
LEMMA PopIds ==
  ASSUME NEW q \in Queue, HasItem(q), NEW r, r = Pop(q), DistinctIds(q)
  PROVE  /\ DistinctIds(r) /\ Ids(q) = Ids(r) \cup {Oldest(q).id} /\ Oldest(q).id \notin Ids(r)
<1>1. /\ r \in Queue /\ Oldest(q) = q.items[1] /\ Len(q.items) >= 1
      /\ Len(r.items) = Len(q.items) - 1
      /\ \A i \in 1..Len(r.items) : r.items[i] = q.items[i + 1]
  BY PopFacts
<1>2. /\ DOMAIN q.items = 1..Len(q.items) /\ DOMAIN r.items = 1..Len(r.items)
      /\ Len(q.items) \in Nat /\ Len(r.items) \in Nat
  BY <1>1, QueueFacts
<1>3. \A i \in DOMAIN q.items : i = 1 \/ (i - 1 \in DOMAIN r.items /\ r.items[i - 1] = q.items[i])
  BY <1>1, <1>2
<1>4. \A i \in DOMAIN r.items : i + 1 \in DOMAIN q.items /\ r.items[i] = q.items[i + 1] /\ i + 1 # 1
  BY <1>1, <1>2
<1>5. 1 \in DOMAIN q.items /\ DOMAIN r.items \subseteq Int
  BY <1>1, <1>2
<1>6. DistinctIds(r)
  <2> SUFFICES ASSUME NEW i \in DOMAIN r.items, NEW j \in DOMAIN r.items,
                      r.items[i].id = r.items[j].id
               PROVE  i = j
    BY DEF DistinctIds
  <2>1. i + 1 = j + 1
    BY <1>4 DEF DistinctIds
  <2> QED
    BY <1>5, <2>1
<1>7. Ids(q) \subseteq Ids(r) \cup {Oldest(q).id}
  BY <1>1, <1>3 DEF Ids
<1>8. Ids(r) \cup {Oldest(q).id} \subseteq Ids(q)
  BY <1>1, <1>4, <1>5 DEF Ids
<1>9. Oldest(q).id \notin Ids(r)
  BY <1>1, <1>4, <1>5 DEF Ids, DistinctIds
<1> QED
  BY <1>6, <1>7, <1>8, <1>9

(***************************************************************************)
(* A worker that lets go of its frame changes nobody else's.               *)
(***************************************************************************)
LEMMA HeldChanges ==
  ASSUME TypeOK, DistinctHeld, NEW w \in Threads, d_frame[w] # NoFrame,
         d_frame' = [d_frame EXCEPT ![w] = NoFrame]
  PROVE  DistinctHeld' /\ Held' = Held \ {d_frame[w].id} /\ d_frame[w].id \in Held
<1>1. /\ d_frame'[w] = NoFrame
      /\ \A v \in Threads : v # w => d_frame'[v] = d_frame[v]
  BY DEF TypeOK
<1>2. DistinctHeld'
  BY <1>1 DEF DistinctHeld
<1>3. \A v \in Threads : v # w /\ d_frame[v] # NoFrame => d_frame[v].id # d_frame[w].id
  BY DEF DistinctHeld
<1>4. Held' = Held \ {d_frame[w].id}
  BY <1>1, <1>3 DEF Held
<1> QED
  BY <1>2, <1>4 DEF Held

(***************************************************************************)
(* Every step moves a frame from one place to another, or loses it when    *)
(* the output queue is stopped.                                            *)
(***************************************************************************)
LEMMA LocatedPreserved == TypeOK /\ Located /\ [Next]_vars => Located'
<1> SUFFICES ASSUME TypeOK, Located, [Next]_vars PROVE Located'
  OBVIOUS
<1> DEFINE in == Ids(in_queue_)
           out == Ids(out_queue_)
<1>1. in_queue_ \in Queue /\ out_queue_ \in Queue /\ LocalsAgree /\ arrived \in Nat
  BY MaxFramesNat DEF MaxFramesNat, TypeOK, Queue
<1>2. ASSUME NEW w \in Threads, pc[w] \in {"frame", "save"}
      PROVE  d_frame[w] # NoFrame /\ d_frame[w] \in Frame /\ d_frame[w].id \in Held
  BY <1>1, <1>2 DEF LocalsAgree, TypeOK, Held
<1>3. ASSUME NEW k \in Keys, NEW p \in Procs, NEW g \in Geoms, Arrive(k, p, g) PROVE Located'
  <2>1. PICK f : f = [id |-> arrived + 1, key |-> k, proc |-> p, geom |-> g, applied |-> NoContext]
    OBVIOUS
  <2>2. f \in Frame /\ f.id = arrived + 1
    BY <1>3, <2>1, MaxFramesNat DEF MaxFramesNat, Arrive, TypeOK, Frame
  <2>3. in_queue_' = Push(in_queue_, f) /\ ~in_queue_.stopped /\ arrived' = arrived + 1
    BY <1>3, <2>1 DEF Arrive
  <2>4. 1..arrived' = 1..arrived \cup {f.id} /\ f.id \notin 1..arrived
    BY <1>1, <2>2, <2>3
  <2>5. DistinctIds(in_queue_') /\ Ids(in_queue_') = in \cup {f.id}
    BY <1>1, <2>2, <2>3, <2>4, PushIds DEF Located
  <2>6. UNCHANGED <<out_queue_, d_frame, failed, stop_pc>> /\ Held' = Held /\ DistinctHeld' = DistinctHeld
    BY <1>3 DEF Arrive, workerVars, Held, DistinctHeld
  <2> HIDE DEF in, out
  <2> QED
    BY <2>4, <2>5, <2>6 DEF Located, Apart, in, out
<1>4. ASSUME NEW w \in Threads, PopFrame(w) PROVE Located'
  <2>1. PICK f : f = Oldest(in_queue_)
    OBVIOUS
  <2>2. /\ DistinctIds(in_queue_') /\ in = Ids(in_queue_') \cup {f.id} /\ f.id \notin Ids(in_queue_')
        /\ f \in Frame
    BY <1>1, <1>4, <2>1, PopIds, PopFacts DEF PopFrame, Located
  <2>3. f # NoFrame /\ d_frame' = [d_frame EXCEPT ![w] = f] /\ d_frame[w] = NoFrame
    BY <1>1, <1>4, <2>1, <2>2, NoFrameFresh DEF NoFrameFresh, PopFrame, LocalsAgree
  <2>4. d_frame'[w] = f /\ \A v \in Threads : v # w => d_frame'[v] = d_frame[v]
    BY <2>3 DEF TypeOK
  <2>5. Held' = Held \cup {f.id}
    BY <2>3, <2>4 DEF Held
  <2>6. f.id \notin Held
    BY <2>2 DEF Located, Apart
  <2>7. DistinctHeld'
    BY <2>3, <2>4, <2>6 DEF DistinctHeld, Held, Located
  <2>8. UNCHANGED <<out_queue_, failed, stop_pc, arrived>>
    BY <1>4 DEF PopFrame
  <2> QED
    BY <2>2, <2>5, <2>7, <2>8 DEF Located, Apart
<1>5. ASSUME NEW w \in Threads, CreateFilterFails(w) \/ FilterFails(w) PROVE Located'
  <2>1. /\ pc[w] = "frame" /\ failed' = failed \cup {d_frame[w].id}
        /\ d_frame' = [d_frame EXCEPT ![w] = NoFrame]
        /\ UNCHANGED <<in_queue_, out_queue_, stop_pc, arrived>>
    BY <1>5 DEF CreateFilterFails, FilterFails
  <2>2. DistinctHeld' /\ Held' = Held \ {d_frame[w].id} /\ d_frame[w].id \in Held
    BY <1>2, <2>1, HeldChanges DEF Located
  <2> QED
    BY <2>1, <2>2 DEF Located, Apart
<1>6. ASSUME NEW w \in Threads, d_frame[w] # NoFrame, NEW f \in Frame, f.id = d_frame[w].id,
             out_queue_' = Push(out_queue_, f),
             d_frame' = [d_frame EXCEPT ![w] = NoFrame],
             UNCHANGED <<in_queue_, failed, stop_pc, arrived>>
      PROVE  Located'
  <2>1. DistinctHeld' /\ Held' = Held \ {f.id} /\ f.id \in Held
    BY <1>6, HeldChanges DEF Located
  <2>2. f.id \notin out
    BY <2>1 DEF Located, Apart
  <2>3. /\ DistinctIds(out_queue_') /\ out_queue_'.stopped = out_queue_.stopped
        /\ out \subseteq Ids(out_queue_') /\ Ids(out_queue_') \subseteq out \cup {f.id}
        /\ ~out_queue_.stopped => Ids(out_queue_') = out \cup {f.id}
    BY <1>1, <1>6, <2>2, PushIds DEF Located
  <2> QED
    BY <1>6, <2>1, <2>2, <2>3 DEF Located, Apart
<1>7. ASSUME NEW w \in Threads, pc[w] = "frame",
             NEW f, f = [d_frame[w] EXCEPT !.applied = ContextFor(w, d_frame[w])]
      PROVE  f \in Frame /\ f.id = d_frame[w].id
  <2>1. ContextFor(w, d_frame[w]) \in Contexts /\ d_frame[w] \in Frame
    BY <1>2, <1>7, ContextMatches
  <2> QED
    BY <1>7, <2>1 DEF Frame
<1>8. ASSUME NEW w \in Threads, ProcessFrame(w) PROVE Located'
  <2>1. PICK f : f = [d_frame[w] EXCEPT !.applied = ContextFor(w, d_frame[w])]
    OBVIOUS
  <2>2. f \in Frame /\ f.id = d_frame[w].id /\ d_frame[w] # NoFrame
    BY <1>2, <1>7, <1>8, <2>1 DEF ProcessFrame
  <2> QED
    BY <1>6, <1>8, <2>1, <2>2 DEF ProcessFrame
<1>9. ASSUME NEW w \in Threads, PushSaved(w) PROVE Located'
  BY <1>2, <1>6, <1>9 DEF PushSaved
<1>10. ASSUME NEW w \in Threads, SaveFrame(w) PROVE Located'
  <2>1. PICK f : f = [d_frame[w] EXCEPT !.applied = ContextFor(w, d_frame[w])]
    OBVIOUS
  <2>2. f \in Frame /\ f.id = d_frame[w].id /\ f # NoFrame /\ d_frame[w] # NoFrame
    BY <1>2, <1>7, <1>10, <2>1, NoFrameFresh DEF NoFrameFresh, SaveFrame
  <2>3. d_frame'[w] = f /\ \A v \in Threads : v # w => d_frame'[v] = d_frame[v]
    BY <1>10, <2>1 DEF SaveFrame, TypeOK
  <2>4. Held' = Held
    BY <2>2, <2>3 DEF Held
  <2>5. DistinctHeld'
    BY <2>2, <2>3 DEF DistinctHeld, Located
  <2> QED
    BY <1>10, <2>4, <2>5 DEF SaveFrame, Located
<1>11. ASSUME in_queue_' = in_queue_ \/ in_queue_' = StopQueue(in_queue_),
              out_queue_' = out_queue_ \/ (out_queue_' = StopQueue(out_queue_) /\ stop_pc' = "clear"),
              stop_pc' = "no" => stop_pc = "no",
              stop_pc' = "out_queue" => stop_pc \in {"no", "out_queue"},
              UNCHANGED <<d_frame, failed, arrived>>
       PROVE  Located'
  <2>1. in_queue_'.items = in_queue_.items /\ out_queue_'.items = out_queue_.items
    BY <1>1, <1>11, StopFacts
  <2>2. /\ Ids(in_queue_') = in /\ Ids(out_queue_') = out
        /\ DistinctIds(in_queue_') = DistinctIds(in_queue_) /\ DistinctIds(out_queue_') = DistinctIds(out_queue_)
    BY <2>1 DEF Ids, DistinctIds
  <2>3. Held' = Held /\ DistinctHeld' = DistinctHeld
    BY <1>11 DEF Held, DistinctHeld
  <2>4. stop_pc' \in {"no", "out_queue"} => ~out_queue_'.stopped
    BY <1>11 DEF Located
  <2> QED
    BY <1>11, <2>2, <2>3, <2>4 DEF Located
<1> QED
  BY <1>3, <1>4, <1>5, <1>8, <1>9, <1>10, <1>11 DEF Next, worker_loop, CheckStop, PopNullopt, Saving,
     StopInQueue, StopOutQueue, stop, RequestStop, Join, StopReturns, Terminated, vars, workerVars

(***************************************************************************)
(* A queue of distinct frames has as many ids as elements.                 *)
(***************************************************************************)
LEMMA IdCount ==
  ASSUME NEW q \in Queue, DistinctIds(q)
  PROVE  Cardinality(Ids(q)) = Len(q.items)
<1>1. DOMAIN q.items = 1..Len(q.items) /\ Len(q.items) \in Nat
  BY QueueFacts
<1> DEFINE n == Len(q.items)
           f == [i \in 1..n |-> q.items[i].id]
<1>2. f \in Bijection(1..n, Ids(q))
  BY <1>1, Fun_IsBij DEF DistinctIds, Ids
<1>3. IsFiniteSet(1..n) /\ Cardinality(1..n) = n
  BY <1>1, FS_Interval
<1> QED
  BY <1>2, <1>3, FS_Bijection DEF ExistsBijection

(***************************************************************************)
(* The frames are so in every reachable state.                             *)
(***************************************************************************)
LEMMA AlwaysLocated == Spec => []Located
<1>1. Init => Located
  BY DEF Init, Located, EmptyQueue, Apart, Ids, Held, DistinctIds, DistinctHeld
<1> QED
  BY <1>1, LocatedPreserved, TypeCorrect, PTL DEF Spec

(***************************************************************************)
(* No frame is processed twice or by two workers, none is both delivered   *)
(* and reported as failed, and none is lost before stop() is called, for   *)
(* any number of workers and frames.                                       *)
(***************************************************************************)
THEOREM FramesLocated == Spec => []EachFrameInOnePlace
<1>1. TypeOK /\ Located => EachFrameInOnePlace
  <2> SUFFICES ASSUME TypeOK, Located PROVE EachFrameInOnePlace
    OBVIOUS
  <2> DEFINE places == <<Ids(in_queue_), Held, Ids(out_queue_), failed>>
  <2>1. \A i, j \in 1..4 : i # j => places[i] \cap places[j] = {}
    BY DEF Located, Apart
  <2>2. \A q \in {in_queue_, out_queue_} : Cardinality(Ids(q)) = Len(q.items)
    BY IdCount DEF Located, TypeOK, Queue
  <2>3. \A v, w \in Threads : v # w /\ d_frame[v] # NoFrame => d_frame[v] # d_frame[w]
    BY DEF Located, DistinctHeld
  <2>4. UNION ToSet(places) = Ids(in_queue_) \cup Held \cup Ids(out_queue_) \cup failed
    <3>1. ToSet(places) = {Ids(in_queue_), Held, Ids(out_queue_), failed}
      BY DEF ToSet
    <3> QED
      BY <3>1
  <2>5. stop_pc = "no" => UNION ToSet(places) = 1..arrived
    BY <2>4 DEF Located
  <2> QED
    BY <2>1, <2>2, <2>3, <2>5 DEF EachFrameInOnePlace
<1> QED
  BY <1>1, AlwaysLocated, TypeCorrect, PTL

-----------------------------------------------------------------------------
(* Which graph a frame was processed with *)

\* The frames that have left the input queue and are still there.
Around ==
  {d_frame[w] : w \in {x \in Threads : d_frame[x] # NoFrame}}
    \cup {out_queue_.items[i] : i \in DOMAIN out_queue_.items}

Same(f, g) == f.id = g.id /\ f.key = g.key /\ f.proc = g.proc /\ f.geom = g.geom

\* The graph c was built from a frame of the stream and event k that has left
\* the input queue.
Known(k, c) ==
  /\ c.by \in 1..arrived /\ c.by \notin Ids(in_queue_)
  /\ \A g \in Around : g.id = c.by => g.key = k /\ c = Settings(g)

\* The frame f was processed by a graph for its own settings but the ratio.
Processed(f) ==
  /\ f.applied.proc = f.proc /\ f.applied.geom.dims = f.geom.dims
  /\ Known(f.key, f.applied)

\* The inductive invariant: for the cached graphs, the outputs, and the frames
\* held during a call of save_frame.
Filtered ==
  /\ \A w \in Threads, k \in Keys :
       stream_contexts[w][k] # NoContext => Known(k, stream_contexts[w][k])
  /\ \A i \in DOMAIN out_queue_.items : Processed(out_queue_.items[i])
  /\ \A w \in Threads : pc[w] = "save" => Processed(d_frame[w])

(***************************************************************************)
(* A graph stays known when the frames stay the same: a frame is new among *)
(* them only if it comes from the input queue, and a frame never goes back *)
(* there.                                                                  *)
(***************************************************************************)
LEMMA KnownKept ==
  ASSUME arrived \in Nat, arrived' \in Nat, arrived <= arrived',
         Ids(in_queue_)' \cap (1..arrived) \subseteq Ids(in_queue_),
         \A g \in Around' : g.id \in Ids(in_queue_) \/ \E h \in Around : Same(g, h),
         NEW k, NEW c, Known(k, c)
  PROVE  Known(k, c)'
<1>1. c.by \in 1..arrived' /\ c.by \notin Ids(in_queue_)'
  BY DEF Known
<1>2. ASSUME NEW g \in Around', g.id = c.by PROVE g.key = k /\ c = Settings(g)
  <2>1. PICK h \in Around : Same(g, h)
    BY <1>2 DEF Known
  <2> QED
    BY <1>2, <2>1 DEF Known, Same, Settings
<1> QED
  BY <1>1, <1>2 DEF Known, Settings

(***************************************************************************)
(* A worker that processes a frame knows the graph it builds from it: no   *)
(* other frame has its id.                                                 *)
(***************************************************************************)
LEMMA NewGraphKnown ==
  ASSUME TypeOK, Located, NEW w \in Threads, d_frame[w] # NoFrame
  PROVE  Known(d_frame[w].key, Settings(d_frame[w]))
<1>1. Settings(d_frame[w]).by = d_frame[w].id /\ d_frame[w].id \in Held
  BY DEF Settings, Held
<1>2. d_frame[w].id \in 1..arrived /\ d_frame[w].id \notin Ids(in_queue_)
      /\ d_frame[w].id \notin Ids(out_queue_)
  BY <1>1 DEF Located, Apart
<1>3. ASSUME NEW g \in Around, g.id = d_frame[w].id PROVE g = d_frame[w]
  <2>1. g.id \notin Ids(out_queue_)
    BY <1>2, <1>3
  <2>2. PICK v \in Threads : d_frame[v] # NoFrame /\ g = d_frame[v]
    BY <2>1 DEF Around, Ids
  <2> QED
    BY <1>3, <2>2 DEF Located, DistinctHeld
<1> QED
  BY <1>1, <1>2, <1>3 DEF Known

(***************************************************************************)
(* The elements of a queue after a push.                                   *)
(***************************************************************************)
LEMMA PushedOrOld ==
  ASSUME NEW q \in Queue, NEW f \in Frame, NEW r, r = Push(q, f)
  PROVE  \A i \in DOMAIN r.items : r.items[i] = f \/ \E j \in DOMAIN q.items : r.items[i] = q.items[j]
<1>1. r \in Queue
  BY PushFacts
<1>2. /\ DOMAIN q.items = 1..Len(q.items) /\ DOMAIN r.items = 1..Len(r.items)
      /\ Len(q.items) \in Nat
  BY <1>1, QueueFacts
<1>3. CASE q.stopped
  BY <1>3, PushFacts
<1>4. CASE ~q.stopped
  BY <1>2, <1>4, PushFacts
<1> QED
  BY <1>3, <1>4

(***************************************************************************)
(* The frame a worker makes of the one it holds.                           *)
(***************************************************************************)
LEMMA FrameMade ==
  ASSUME TypeOK, Located, Filtered, NEW w \in Threads, pc[w] = "frame",
         NEW f, f = [d_frame[w] EXCEPT !.applied = ContextFor(w, d_frame[w])]
  PROVE  /\ d_frame[w] \in Frame /\ d_frame[w] # NoFrame
         /\ Known(d_frame[w].key, ContextFor(w, d_frame[w]))
         /\ f \in Frame /\ Same(f, d_frame[w]) /\ Processed(f)
<1>1. d_frame[w] \in Frame /\ d_frame[w] # NoFrame
  BY DEF TypeOK, LocalsAgree
<1>2. /\ ContextFor(w, d_frame[w]) \in Contexts
      /\ ContextFor(w, d_frame[w]).proc = d_frame[w].proc
      /\ ContextFor(w, d_frame[w]).geom.dims = d_frame[w].geom.dims
  BY <1>1, ContextMatches
<1>3. Known(d_frame[w].key, ContextFor(w, d_frame[w]))
  <2>1. CASE NeedsReinit(w, d_frame[w])
    BY <1>1, <2>1, NewGraphKnown DEF ContextFor
  <2>2. CASE ~NeedsReinit(w, d_frame[w])
    <3>1. d_frame[w].key \in Keys
      BY <1>1 DEF Frame
    <3>2. ContextFor(w, d_frame[w]) = stream_contexts[w][d_frame[w].key]
      BY <2>2 DEF ContextFor
    <3>3. stream_contexts[w][d_frame[w].key] # NoContext
      BY <1>2, <3>2, NoContextFresh DEF NoContextFresh
    <3> QED
      BY <3>1, <3>2, <3>3 DEF Filtered
  <2> QED
    BY <2>1, <2>2
<1>4. /\ f \in Frame /\ Same(f, d_frame[w]) /\ f.applied = ContextFor(w, d_frame[w])
  BY <1>1, <1>2 DEF Frame, Same
<1> QED
  BY <1>1, <1>2, <1>3, <1>4 DEF Processed, Same

(***************************************************************************)
(* No step changes a frame but for "applied", or moves one back to the     *)
(* input queue.                                                            *)
(***************************************************************************)
LEMMA FramesStay ==
  ASSUME TypeOK, Located, Filtered, [Next]_vars
  PROVE  /\ arrived \in Nat /\ arrived' \in Nat /\ arrived <= arrived'
         /\ Ids(in_queue_)' \cap (1..arrived) \subseteq Ids(in_queue_)
         /\ \A g \in Around' : g.id \in Ids(in_queue_) \/ \E h \in Around : Same(g, h)
<1> DEFINE Stay == /\ arrived \in Nat /\ arrived' \in Nat /\ arrived <= arrived'
                   /\ Ids(in_queue_)' \cap (1..arrived) \subseteq Ids(in_queue_)
                   /\ \A g \in Around' : g.id \in Ids(in_queue_) \/ \E h \in Around : Same(g, h)
<1>1. in_queue_ \in Queue /\ out_queue_ \in Queue /\ arrived \in Nat
  BY MaxFramesNat DEF MaxFramesNat, TypeOK, Queue
<1>2. \A g : Same(g, g)
  BY DEF Same
<1>3. ASSUME NEW k \in Keys, NEW p \in Procs, NEW g \in Geoms, Arrive(k, p, g) PROVE Stay
  <2>1. PICK f : f = [id |-> arrived + 1, key |-> k, proc |-> p, geom |-> g, applied |-> NoContext]
    OBVIOUS
  <2>2. f \in Frame /\ f.id = arrived + 1
    BY <1>3, <2>1, MaxFramesNat DEF MaxFramesNat, Arrive, TypeOK, Frame
  <2>3. in_queue_' = Push(in_queue_, f) /\ arrived' = arrived + 1
    BY <1>3, <2>1 DEF Arrive
  <2>4. f.id \notin Ids(in_queue_) /\ f.id \notin 1..arrived
    BY <1>1, <2>2 DEF Located
  <2>5. Ids(in_queue_)' \subseteq Ids(in_queue_) \cup {f.id}
    <3>1. Ids(in_queue_') \subseteq Ids(in_queue_) \cup {f.id}
      BY <1>1, <2>2, <2>3, <2>4, PushIds DEF Located
    <3> QED
      BY <3>1 DEF Ids
  <2>6. Around' = Around
    BY <1>3 DEF Arrive, workerVars, Around
  <2> QED
    BY <1>1, <1>2, <2>3, <2>4, <2>5, <2>6
<1>4. ASSUME NEW w \in Threads, PopFrame(w) PROVE Stay
  <2>1. Ids(in_queue_) = Ids(in_queue_') \cup {Oldest(in_queue_).id}
    BY <1>1, <1>4, PopIds DEF PopFrame, Located
  <2>2. /\ d_frame'[w] = Oldest(in_queue_) /\ UNCHANGED <<out_queue_, arrived>>
        /\ \A v \in Threads : v # w => d_frame'[v] = d_frame[v]
    BY <1>4 DEF PopFrame, TypeOK
  <2>3. \A g \in Around' : g.id \in Ids(in_queue_) \/ g \in Around
    BY <2>1, <2>2 DEF Around
  <2>4. Ids(in_queue_)' \subseteq Ids(in_queue_)
    BY <2>1 DEF Ids
  <2> QED
    BY <1>1, <1>2, <2>2, <2>3, <2>4
<1>5. ASSUME NEW w \in Threads, d_frame[w] # NoFrame, NEW f \in Frame, Same(f, d_frame[w]),
             \/ d_frame' = [d_frame EXCEPT ![w] = NoFrame] /\ out_queue_' = Push(out_queue_, f)
             \/ d_frame' = [d_frame EXCEPT ![w] = NoFrame] /\ UNCHANGED out_queue_
             \/ d_frame' = [d_frame EXCEPT ![w] = f] /\ UNCHANGED out_queue_,
             UNCHANGED <<in_queue_, arrived>>
      PROVE  Stay
  <2>1. \A v \in Threads : d_frame'[v] \in {NoFrame, f, d_frame[v]}
    BY <1>5 DEF TypeOK
  <2>2. \A i \in DOMAIN out_queue_'.items :
          out_queue_'.items[i] = f \/ \E j \in DOMAIN out_queue_.items :
                                       out_queue_'.items[i] = out_queue_.items[j]
    BY <1>1, <1>5, PushedOrOld
  <2>3. \A g \in Around' : g = f \/ g \in Around
    BY <2>1, <2>2 DEF Around
  <2>4. d_frame[w] \in Around
    BY <1>5 DEF Around
  <2>5. Ids(in_queue_)' = Ids(in_queue_)
    BY <1>5 DEF Ids
  <2> QED
    BY <1>1, <1>2, <1>5, <2>3, <2>4, <2>5
<1>6. ASSUME NEW w \in Threads, ProcessFrame(w) \/ SaveFrame(w) PROVE Stay
  <2>1. PICK f : f = [d_frame[w] EXCEPT !.applied = ContextFor(w, d_frame[w])]
    OBVIOUS
  <2>2. f \in Frame /\ Same(f, d_frame[w]) /\ d_frame[w] # NoFrame
    BY <1>6, <2>1, FrameMade DEF ProcessFrame, SaveFrame
  <2>3. UNCHANGED <<in_queue_, arrived>>
    BY <1>6 DEF ProcessFrame, SaveFrame
  <2>4. \/ d_frame' = [d_frame EXCEPT ![w] = NoFrame] /\ out_queue_' = Push(out_queue_, f)
        \/ d_frame' = [d_frame EXCEPT ![w] = f] /\ UNCHANGED out_queue_
    BY <1>6, <2>1 DEF ProcessFrame, SaveFrame
  <2> QED
    BY <1>5, <2>2, <2>3, <2>4
<1>7. ASSUME NEW w \in Threads, CreateFilterFails(w) \/ FilterFails(w) \/ PushSaved(w) PROVE Stay
  <2>1. d_frame[w] # NoFrame /\ d_frame[w] \in Frame
    BY <1>7 DEF CreateFilterFails, FilterFails, PushSaved, TypeOK, LocalsAgree
  <2>2. /\ d_frame' = [d_frame EXCEPT ![w] = NoFrame]
        /\ out_queue_' = Push(out_queue_, d_frame[w]) \/ UNCHANGED out_queue_
        /\ UNCHANGED <<in_queue_, arrived>>
    BY <1>7 DEF CreateFilterFails, FilterFails, PushSaved
  <2> QED
    BY <1>2, <1>5, <2>1, <2>2
<1>8. ASSUME in_queue_' = in_queue_ \/ in_queue_' = StopQueue(in_queue_),
             out_queue_' = out_queue_ \/ out_queue_' = StopQueue(out_queue_),
             UNCHANGED <<d_frame, arrived>>
      PROVE  Stay
  <2>1. in_queue_'.items = in_queue_.items /\ out_queue_'.items = out_queue_.items
    BY <1>1, <1>8, StopFacts
  <2>2. Ids(in_queue_)' = Ids(in_queue_) /\ Around' = Around
    BY <1>8, <2>1 DEF Ids, Around
  <2> QED
    BY <1>1, <1>2, <1>8, <2>2
<1> QED
  BY <1>3, <1>4, <1>6, <1>7, <1>8 DEF Next, worker_loop, CheckStop, PopNullopt, Saving,
     StopInQueue, StopOutQueue, stop, RequestStop, Join, StopReturns, Terminated, vars, workerVars

(***************************************************************************)
(* Every step caches, pushes or holds only graphs that are known, and      *)
(* frames processed by them.                                               *)
(***************************************************************************)
LEMMA FilteredPreserved == TypeOK /\ Located /\ Filtered /\ [Next]_vars => Filtered'
<1> SUFFICES ASSUME TypeOK, Located, Filtered, [Next]_vars PROVE Filtered'
  OBVIOUS
<1> DEFINE GraphsKnown ==
             \A w \in Threads, k \in Keys :
               stream_contexts'[w][k] # NoContext => Known(k, stream_contexts'[w][k])
           OutputsKnown == \A i \in DOMAIN out_queue_'.items : Processed(out_queue_'.items[i])
           SavingKnown == \A w \in Threads : pc'[w] = "save" => Processed(d_frame'[w])
<1>1. out_queue_ \in Queue /\ LocalsAgree
  BY DEF TypeOK, Queue
<1>2. ASSUME NEW w \in Threads, NEW k \in Keys, NEW c, Known(k, c),
             stream_contexts' = [stream_contexts EXCEPT ![w][k] = c]
      PROVE  GraphsKnown
  <2>1. \A v \in Threads, x \in Keys :
          stream_contexts'[v][x] = IF v = w /\ x = k THEN c ELSE stream_contexts[v][x]
    BY <1>2 DEF TypeOK
  <2> QED
    BY <1>2, <2>1 DEF Filtered
<1>3. ASSUME NEW f \in Frame, Processed(f), out_queue_' = Push(out_queue_, f) PROVE OutputsKnown
  <2>1. \A i \in DOMAIN out_queue_'.items :
          out_queue_'.items[i] = f \/ \E j \in DOMAIN out_queue_.items :
                                       out_queue_'.items[i] = out_queue_.items[j]
    BY <1>1, <1>3, PushedOrOld
  <2> QED
    BY <1>3, <2>1 DEF Filtered
<1>4. ASSUME NEW w \in Threads, ProcessFrame(w) \/ SaveFrame(w) \/ FilterFails(w)
      PROVE  GraphsKnown /\ OutputsKnown /\ SavingKnown
  <2>1. PICK f : f = [d_frame[w] EXCEPT !.applied = ContextFor(w, d_frame[w])]
    OBVIOUS
  <2>2. pc[w] = "frame"
    BY <1>4 DEF ProcessFrame, SaveFrame, FilterFails
  <2>3. /\ d_frame[w] \in Frame /\ Known(d_frame[w].key, ContextFor(w, d_frame[w]))
        /\ f \in Frame /\ Processed(f)
    BY <2>1, <2>2, FrameMade
  <2>4. GraphsKnown
    <3>1. stream_contexts' = [stream_contexts EXCEPT ![w][d_frame[w].key] = ContextFor(w, d_frame[w])]
      BY <1>4 DEF ProcessFrame, SaveFrame, FilterFails
    <3>2. d_frame[w].key \in Keys
      BY <2>3 DEF Frame
    <3> HIDE DEF GraphsKnown
    <3> QED
      BY <1>2, <2>3, <3>1, <3>2
  <2>5. OutputsKnown
    <3>1. out_queue_' = Push(out_queue_, f) \/ UNCHANGED out_queue_
      BY <1>4, <2>1 DEF ProcessFrame, SaveFrame, FilterFails
    <3>2. CASE out_queue_' = Push(out_queue_, f)
      BY <1>3, <2>3, <3>2
    <3>3. CASE UNCHANGED out_queue_
      BY <3>3 DEF Filtered
    <3> QED
      BY <3>1, <3>2, <3>3
  <2>6. SavingKnown
    <3>1. /\ pc'[w] = "save" => d_frame'[w] = f
          /\ \A v \in Threads : v # w => pc'[v] = pc[v] /\ d_frame'[v] = d_frame[v]
      BY <1>4, <2>1 DEF ProcessFrame, SaveFrame, FilterFails, TypeOK
    <3> QED
      BY <2>3, <3>1 DEF Filtered
  <2> QED
    BY <2>4, <2>5, <2>6
<1>5. ASSUME NEW w \in Threads, PushSaved(w) PROVE GraphsKnown /\ OutputsKnown /\ SavingKnown
  <2>1. d_frame[w] \in Frame /\ Processed(d_frame[w])
    BY <1>1, <1>5 DEF PushSaved, Filtered, TypeOK, LocalsAgree
  <2>2. OutputsKnown
    BY <1>3, <1>5, <2>1 DEF PushSaved
  <2>3. /\ UNCHANGED stream_contexts /\ pc'[w] # "save"
        /\ \A v \in Threads : v # w => pc'[v] = pc[v] /\ d_frame'[v] = d_frame[v]
    BY <1>5 DEF PushSaved, TypeOK
  <2> QED
    BY <2>2, <2>3 DEF Filtered
<1>6. ASSUME NEW w \in Threads, CheckStop(w) \/ PopFrame(w) \/ PopNullopt(w) \/ CreateFilterFails(w)
      PROVE  GraphsKnown /\ OutputsKnown /\ SavingKnown
  <2>1. /\ UNCHANGED <<out_queue_, stream_contexts>> /\ pc'[w] # "save"
        /\ \A v \in Threads : v # w => pc'[v] = pc[v] /\ d_frame'[v] = d_frame[v]
    BY <1>6 DEF CheckStop, PopFrame, PopNullopt, CreateFilterFails, TypeOK
  <2> QED
    BY <2>1 DEF Filtered
<1>7. CASE StopOutQueue
  <2>1. out_queue_'.items = out_queue_.items /\ UNCHANGED <<stream_contexts, pc, d_frame>>
    BY <1>1, <1>7, StopFacts DEF StopOutQueue
  <2>2. GraphsKnown /\ OutputsKnown /\ SavingKnown
    BY <2>1 DEF Filtered
  <2> QED
    BY <2>2, KnownKept, FramesStay DEF Filtered, Processed
<1>8. CASE UNCHANGED <<out_queue_, pc, d_frame, stream_contexts>>
  <2>1. GraphsKnown /\ OutputsKnown /\ SavingKnown
    BY <1>8 DEF Filtered
  <2> QED
    BY <2>1, KnownKept, FramesStay DEF Filtered, Processed
<1>9. ASSUME GraphsKnown, OutputsKnown, SavingKnown PROVE Filtered'
  BY <1>9, KnownKept, FramesStay DEF Filtered, Processed
<1> HIDE DEF GraphsKnown, OutputsKnown, SavingKnown
<1> QED
  BY <1>4, <1>5, <1>6, <1>7, <1>8, <1>9 DEF Next, worker_loop, Saving, Arrive, workerVars,
     StopInQueue, stop, RequestStop, Join, StopReturns, Terminated, vars

(***************************************************************************)
(* Every output of the pool was produced with the configuration and the    *)
(* dimensions of its own frame, through any sequence of configurations,    *)
(* geometries and errors, and with the aspect ratio of the frame of the    *)
(* same stream and event that its graph was built from.                    *)
(***************************************************************************)
THEOREM FilterIsCurrent == Spec => []FilterMatchesFrame
<1>1. Init => Filtered
  BY EmptySeq DEF Init, Filtered, EmptyQueue
<1>2. Filtered => FilterMatchesFrame
  <2> SUFFICES ASSUME Filtered,
                      NEW i \in DOMAIN out_queue_.items, NEW j \in DOMAIN out_queue_.items
               PROVE  LET f == out_queue_.items[i]
                          g == out_queue_.items[j]
                      IN  /\ f.applied.proc = f.proc /\ f.applied.geom.dims = f.geom.dims
                          /\ g.id = f.applied.by => g.key = f.key /\ f.applied = Settings(g)
    BY DEF FilterMatchesFrame, ToSet
  <2>1. Processed(out_queue_.items[i]) /\ out_queue_.items[j] \in Around
    BY DEF Filtered, Around
  <2> QED
    BY <2>1 DEF Processed, Known
<1> QED
  BY <1>1, <1>2, FilteredPreserved, AlwaysLocated, TypeCorrect, PTL DEF Spec
=============================================================================
