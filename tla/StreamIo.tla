------------------------------ MODULE StreamIo ------------------------------
(***************************************************************************)
(* StreamIoManager of src/src/components/stream_io: one jthread per        *)
(* enabled stream, started and stopped by update_streams (the callback of  *)
(* a config reload) and stop_all (shutdown and destructor), both under     *)
(* manager_mutex_ and both joining the threads they stop; and the life of  *)
(* a stream thread, run_stream: connect with backoff, set up the decoder,  *)
(* read until an error, flush, reconnect.  The frames a thread pushes are  *)
(* in Pipeline.tla.  Stream ids are assumed to fit the int keys of the     *)
(* two maps, and a config is one opaque value compared with operator==.    *)
(***************************************************************************)
EXTENDS Integers, Sequences, FiniteSetsExt, Functions

CONSTANTS Ids,         \* stream ids
          Configs,     \* values a StreamConfig can take, its id apart
          MaxRetries,  \* max_retries
          MaxThreads   \* bound on the number of threads ever started

ASSUME IdsAreInts == Ids \subseteq Int /\ IsFiniteSet(Ids)
ASSUME BoundsNat == MaxRetries \in Nat /\ MaxThreads \in Nat

VARIABLES
  stream_threads_,         \* id -> number of the registered thread
  active_stream_configs_,  \* id -> the config that thread was started with
  threads,                 \* every thread started so far, in order
  manager_mutex_,          \* "free", or the operation that holds it
  desired_configs,         \* id -> config, from the last call of update_streams
  to_stop, to_start,       \* ids left to stop and to start by that operation
  main_pc                  \* "running", "stopped" after stop_all, "destroyed"

vars == <<stream_threads_, active_stream_configs_, threads, manager_mutex_,
          desired_configs, to_stop, to_start, main_pc>>

Started == DOMAIN threads
Live(t) == threads[t].pc # "exited"
Registered == DOMAIN stream_threads_
Without(f, x) == Restrict(f, DOMAIN f \ {x})
With(f, x, v) == [y \in DOMAIN f \cup {x} |-> IF y = x THEN v ELSE f[y]]

Init ==
  /\ stream_threads_ = <<>>
  /\ active_stream_configs_ = <<>>
  /\ threads = <<>>
  /\ manager_mutex_ = "free"
  /\ desired_configs = <<>>
  /\ to_stop = {}
  /\ to_start = {}
  /\ main_pc = "running"

-----------------------------------------------------------------------------
(* update_streams *)

\* Mutant of ToStop: a registered stream whose config changed is kept.
ToStopRemovedOnly(desired) == Registered \ DOMAIN desired

\* Mutant of ToStop: a reload restarts everything.
ToStopAll(desired) == Registered

\* Registered streams that are no longer wanted, or with another config.
ToStop(desired) ==
  {id \in Registered :
     id \notin DOMAIN desired \/ desired[id] # active_stream_configs_[id]}

\* Wanted streams without a thread, before anything is stopped.
ToStart(desired) == DOMAIN desired \ Registered

\* Lock the mutex and determine what needs to change.  The reloader thread
\* calls this until the manager is destroyed.
UpdateStreams(desired) ==
  /\ manager_mutex_ = "free"
  /\ main_pc # "destroyed"
  /\ Len(threads) + Cardinality(ToStart(desired)) <= MaxThreads
  /\ manager_mutex_' = "update_streams"
  /\ desired_configs' = desired
  /\ to_stop' = ToStop(desired)
  /\ to_start' = ToStart(desired)
  /\ UNCHANGED <<stream_threads_, active_stream_configs_, threads, main_pc>>

\* request_stop, in the order of the map.
RequestStop ==
  /\ manager_mutex_ = "update_streams"
  /\ to_stop # {}
  /\ LET t == stream_threads_[Min(to_stop)] IN
     /\ ~threads[t].stop
     /\ threads' = [threads EXCEPT ![t].stop = TRUE]
  /\ UNCHANGED <<stream_threads_, active_stream_configs_, manager_mutex_,
                 desired_configs, to_stop, to_start, main_pc>>

\* Mutant of JoinThread: the thread is detached instead of joined.
DetachThread ==
  /\ manager_mutex_ = "update_streams"
  /\ to_stop # {}
  /\ LET id == Min(to_stop) IN
     /\ threads[stream_threads_[id]].stop
     /\ stream_threads_' = Without(stream_threads_, id)
     /\ active_stream_configs_' = Without(active_stream_configs_, id)
     /\ to_stop' = to_stop \ {id}
  /\ UNCHANGED <<threads, manager_mutex_, desired_configs, to_start, main_pc>>

\* Erasing the jthread joins it; then its config is erased.
JoinThread ==
  /\ manager_mutex_ = "update_streams"
  /\ to_stop # {}
  /\ LET id == Min(to_stop) IN
     /\ threads[stream_threads_[id]].stop
     /\ ~Live(stream_threads_[id])
     /\ stream_threads_' = Without(stream_threads_, id)
     /\ active_stream_configs_' = Without(active_stream_configs_, id)
     /\ to_stop' = to_stop \ {id}
  /\ UNCHANGED <<threads, manager_mutex_, desired_configs, to_start, main_pc>>

NewThread(id, config) ==
  [id |-> id, config |-> config, pc |-> "loop", current_retry |-> 0, stop |-> FALSE]

StartThread ==
  /\ manager_mutex_ = "update_streams"
  /\ to_stop = {}
  /\ to_start # {}
  /\ LET id == Min(to_start) IN
     /\ active_stream_configs_' = With(active_stream_configs_, id, desired_configs[id])
     /\ threads' = Append(threads, NewThread(id, desired_configs[id]))
     /\ stream_threads_' = With(stream_threads_, id, Len(threads) + 1)
     /\ to_start' = to_start \ {id}
  /\ UNCHANGED <<manager_mutex_, desired_configs, to_stop, main_pc>>

UpdateReturns ==
  /\ manager_mutex_ = "update_streams"
  /\ to_stop = {}
  /\ to_start = {}
  /\ manager_mutex_' = "free"
  /\ UNCHANGED <<stream_threads_, active_stream_configs_, threads,
                 desired_configs, to_stop, to_start, main_pc>>

-----------------------------------------------------------------------------
(* stop_all, called by app_logic and again by the destructor *)

MainAfterStop == IF main_pc = "running" THEN "stopped" ELSE "destroyed"

StopAll ==
  /\ manager_mutex_ = "free"
  /\ main_pc # "destroyed"
  /\ \/ /\ Registered = {}
        /\ main_pc' = MainAfterStop
        /\ UNCHANGED manager_mutex_
     \/ /\ Registered # {}
        /\ manager_mutex_' = "stop_all"
        /\ UNCHANGED main_pc
  /\ UNCHANGED <<stream_threads_, active_stream_configs_, threads,
                 desired_configs, to_stop, to_start>>

Stopping == {id \in Registered : threads[stream_threads_[id]].stop}

\* stream_threads_.clear() destroys the jthreads one by one, in an order the
\* library chooses: request_stop ...
ClearRequestStop(id) ==
  /\ manager_mutex_ = "stop_all"
  /\ Stopping = {}
  /\ id \in Registered
  /\ threads' = [threads EXCEPT ![stream_threads_[id]].stop = TRUE]
  /\ UNCHANGED <<stream_threads_, active_stream_configs_, manager_mutex_,
                 desired_configs, to_stop, to_start, main_pc>>

\* ... and join.
ClearJoin(id) ==
  /\ manager_mutex_ = "stop_all"
  /\ id \in Stopping
  /\ ~Live(stream_threads_[id])
  /\ stream_threads_' = Without(stream_threads_, id)
  /\ UNCHANGED <<active_stream_configs_, threads, manager_mutex_,
                 desired_configs, to_stop, to_start, main_pc>>

StopAllReturns ==
  /\ manager_mutex_ = "stop_all"
  /\ Registered = {}
  /\ active_stream_configs_' = <<>>
  /\ manager_mutex_' = "free"
  /\ main_pc' = MainAfterStop
  /\ UNCHANGED <<stream_threads_, threads, desired_configs, to_stop, to_start>>

-----------------------------------------------------------------------------
(* run_stream *)

ConnectLoop == {"connect", "open", "backoff"}

\* Thread t goes from one place of the function to another.  current_retry
\* is a local of the connect loop, kept at 0 outside of it.
Goto(t, from, to) ==
  /\ threads[t].pc = from
  /\ threads' = [threads EXCEPT ![t].pc = to,
                   ![t].current_retry = IF to \in ConnectLoop THEN @ ELSE 0]
  /\ UNCHANGED <<stream_threads_, active_stream_configs_, manager_mutex_,
                 desired_configs, to_stop, to_start, main_pc>>

\* while (!st.stop_requested()): every turn starts with a fresh retry counter.
LoopStopped(t) == threads[t].stop /\ Goto(t, "loop", "exited")
StartTurn(t) == ~threads[t].stop /\ Goto(t, "loop", "connect")

\* The stop token is tested before each attempt, and once more after the
\* connect loop.  A stop request during avformat_open_input interrupts it, but
\* may also come too late to make it fail.
ConnectStopped(t) == threads[t].stop /\ Goto(t, "connect", "exited")
TryConnect(t) == ~threads[t].stop /\ Goto(t, "connect", "open")
AllocFails(t) == Goto(t, "open", "connect")
ConnectFails(t) == Goto(t, "open", "backoff")
Connected(t) == Goto(t, "open", "connected")

\* Mutant of NextRetry: the counter is not reset after the long pause.
NextRetryUnbounded(retry) == retry + 1

\* Six waits of 1, 2, 4, ... seconds, then one of 30 and the cycle restarts.
NextRetry(retry) == IF retry > MaxRetries THEN 0 ELSE retry + 1

\* The wait ends after its time or at once on a stop request.
BackoffEnds(t) ==
  /\ threads[t].pc = "backoff"
  /\ threads' = [threads EXCEPT ![t].pc = "connect",
                                ![t].current_retry = NextRetry(@)]
  /\ UNCHANGED <<stream_threads_, active_stream_configs_, manager_mutex_,
                 desired_configs, to_stop, to_start, main_pc>>

\* Test the stop token, then avformat_find_stream_info (failing: reconnect),
\* then the stream index, the decoder and the filter graph (failing: return,
\* with the thread left in the maps).
SetupStopped(t) == threads[t].stop /\ Goto(t, "connected", "exited")
StartSetup(t) == ~threads[t].stop /\ Goto(t, "connected", "setup")
StreamInfoFails(t) == Goto(t, "setup", "loop")
SetupFatal(t) == Goto(t, "setup", "exited")
SetupDone(t) == Goto(t, "setup", "read")

\* Mutant of ReadStopped: the read loop does not test the stop token.
ReadIgnoresStop(t) == FALSE /\ Goto(t, "read", "flush")

\* The read loop ends on a stop request or on a read, decoder or filter error.
ReadStopped(t) == threads[t].stop /\ Goto(t, "read", "flush")
ReadFails(t) == Goto(t, "read", "flush")

\* Flush the graph, wait 500 ms unless stopped, start over.
Flushed(t) == Goto(t, "flush", "loop")

\* What a thread does by itself ...
run_stream(t) ==
  \/ LoopStopped(t) \/ StartTurn(t)
  \/ ConnectStopped(t) \/ TryConnect(t) \/ AllocFails(t) \/ ConnectFails(t) \/ Connected(t)
  \/ BackoffEnds(t)
  \/ SetupStopped(t) \/ StartSetup(t) \/ StreamInfoFails(t) \/ SetupFatal(t) \/ SetupDone(t)
  \/ ReadStopped(t)
  \/ Flushed(t)

\* ... and what only the source of the stream decides.
SourceFails(t) == ReadFails(t)

-----------------------------------------------------------------------------
DesiredConfigs == UNION {[S -> Configs] : S \in SUBSET Ids}

update_streams == RequestStop \/ JoinThread \/ StartThread \/ UpdateReturns
stop_all ==
  (\E id \in Ids : ClearRequestStop(id) \/ ClearJoin(id)) \/ StopAllReturns

Destroyed == main_pc = "destroyed" /\ UNCHANGED vars

Next ==
  \/ \E desired \in DesiredConfigs : UpdateStreams(desired)
  \/ update_streams
  \/ StopAll
  \/ stop_all
  \/ \E t \in Started : run_stream(t) \/ SourceFails(t)
  \/ Destroyed

\* The caller that holds the mutex keeps running, and so does every stream
\* thread: its waits are timed and its I/O is interrupted by a stop request.
\* Whether a healthy stream ever fails is left open.
Fairness ==
  /\ WF_vars(update_streams)
  /\ WF_vars(stop_all)
  /\ \A t \in 1..MaxThreads : WF_vars(t \in Started /\ run_stream(t))

Spec == Init /\ [][Next]_vars /\ Fairness

-----------------------------------------------------------------------------
Thread == [id : Ids, config : Configs, current_retry : 0..(MaxRetries + 1),
           pc : ConnectLoop \cup {"loop", "connected", "setup", "read", "flush", "exited"},
           stop : BOOLEAN]

(* Types; in particular the backoff of run_stream stays within its cycle    *)
(* of max_retries + 2 attempts, so that 2^current_retry stays bounded.      *)
TypeOK ==
  /\ threads \in Seq(Thread) /\ Len(threads) <= MaxThreads
  /\ stream_threads_ \in UNION {[S -> Started] : S \in SUBSET Ids}
  /\ active_stream_configs_ \in DesiredConfigs
  /\ desired_configs \in DesiredConfigs
  /\ manager_mutex_ \in {"free", "update_streams", "stop_all"}
  /\ to_stop \subseteq Ids /\ to_start \subseteq Ids
  /\ main_pc \in {"running", "stopped", "destroyed"}

(* Through any sequence of reloads and failures, a running stream thread is *)
(* the one registered for its id, with the config it runs recorded as       *)
(* active: two threads never read one stream, and none escapes stop_all.    *)
LiveThreadsRegistered ==
  \A t \in Started : Live(t) =>
    LET id == threads[t].id IN
    /\ id \in Registered
    /\ stream_threads_[id] = t
    /\ active_stream_configs_[id] = threads[t].config

(* When update_streams has returned, no stream runs that the new            *)
(* configuration lacks or configures differently.                           *)
NoStaleStreamAfterUpdate ==
  manager_mutex_ = "free" =>
    \A id \in Registered :
      id \in DOMAIN desired_configs /\ active_stream_configs_[id] = desired_configs[id]

(* "No interruption of active streams that haven't changed": a reload asks  *)
(* a thread to stop only if its stream is gone from the new configuration   *)
(* or configured differently there.                                         *)
UnchangedStreamsUninterrupted ==
  [][manager_mutex_ = "update_streams" =>
       \A t \in Started :
         threads'[t].stop /\ ~threads[t].stop =>
           \/ threads[t].id \notin DOMAIN desired_configs
           \/ desired_configs[threads[t].id] # threads[t].config]_vars

(* update_streams and stop_all return although they join threads while they *)
(* hold the mutex: from wherever it is in connecting, backing off, setting  *)
(* up, reading or flushing, a thread reaches its exit after a stop request. *)
ManagerCallsReturn == (manager_mutex_ # "free") ~> (manager_mutex_ = "free")

(* What the comments on update_streams promise: it handles streams "to add, *)
(* remove, or update" and stops "removed/changed streams" to start them     *)
(* "with fresh configurations".  Every enabled stream of the configuration  *)
(* has a thread when it returns.                                            *)
DesiredStreamsRun ==
  manager_mutex_ = "free" /\ main_pc = "running" => DOMAIN desired_configs \subseteq Registered

(* What the comment in app_logic promises: "Stop producers first, then      *)
(* consumers".  No stream thread runs once stop_all has returned.           *)
ProducersStayStopped == main_pc # "running" => \A t \in Started : ~Live(t)
=============================================================================
