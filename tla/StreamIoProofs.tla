--------------------------- MODULE StreamIoProofs ---------------------------
(***************************************************************************)
(* Proofs about StreamIo, for any finite set of integer ids, any set of    *)
(* configurations and any number of threads and retries.                   *)
(***************************************************************************)
EXTENDS StreamIo, SequenceTheorems, FiniteSetTheorems, WellFoundedInduction, TLAPS

\* The std::map of the manager with values in T.
Maps(T) == UNION {[S -> T] : S \in SUBSET Ids}

\* The two maps describe the registered threads, and every live one is there.
MapsMatchThreads ==
  /\ \A id \in Registered :
       /\ threads[stream_threads_[id]].id = id
       /\ id \in DOMAIN active_stream_configs_
       /\ active_stream_configs_[id] = threads[stream_threads_[id]].config
  /\ \A t \in Started : Live(t) => threads[t].id \in Registered /\ stream_threads_[threads[t].id] = t

\* The registered thread of id runs what the last update_streams asked for.
Wanted(id) == id \in DOMAIN desired_configs /\ active_stream_configs_[id] = desired_configs[id]

\* What an update still has to do, and what it leaves alone.
UpdateProgress ==
  /\ to_stop \subseteq {id \in Registered : ~Wanted(id)}
  /\ \A id \in Registered \ to_stop : Wanted(id)
  /\ to_start \subseteq DOMAIN desired_configs \ Registered
  /\ Len(threads) + Cardinality(to_start) <= MaxThreads
  /\ manager_mutex_ # "update_streams" => to_stop = {} /\ to_start = {}

\* The inductive invariant.
IInv == TypeOK /\ MapsMatchThreads /\ UpdateProgress

-----------------------------------------------------------------------------
(***************************************************************************)
(* Min, which picks the next id in the order of the map, is a member of    *)
(* any finite non-empty set of integers and a lower bound of it. Shown by  *)
(* a smallest counterexample among the subsets.                            *)
(***************************************************************************)
LEMMA FiniteHasMin ==
  ASSUME NEW S \in SUBSET Int, IsFiniteSet(S), S # {}
  PROVE  Min(S) \in S /\ \A y \in S : Min(S) <= y
<1> DEFINE HasMin(U) == \E x \in U : \A y \in U : x <= y
           Bad == {U \in SUBSET S : U # {} /\ ~HasMin(U)}
<1>1. HasMin(S)
  <2> SUFFICES ASSUME ~HasMin(S) PROVE FALSE
    OBVIOUS
  <2>1. S \in Bad /\ Bad \subseteq FiniteSubsetsOf(S)
    BY FS_FiniteSubsetsOfFinite
  <2>2. IsWellFoundedOn(StrictSubsetOrdering(S), FiniteSubsetsOf(S))
    BY FS_StrictSubsetOrderingWellFounded
  <2>3. PICK U \in Bad : \A V \in Bad : ~(<<V, U>> \in StrictSubsetOrdering(S))
    <3> HIDE DEF Bad
    <3> QED
      BY <2>1, <2>2, WFMin, Zenon
  <2>4. PICK x \in U : TRUE
    BY <2>3
  <2>5. U \in SUBSET S /\ ~HasMin(U) /\ x \in Int
    BY <2>3, <2>4
  <2>6. U \ {x} # {}
    BY <2>4, <2>5
  <2>7. <<U \ {x}, U>> \in StrictSubsetOrdering(S)
    BY <2>4, <2>5 DEF StrictSubsetOrdering
  <2>8. HasMin(U \ {x})
    BY <2>3, <2>5, <2>6, <2>7
  <2>9. PICK m \in U \ {x} : \A y \in U \ {x} : m <= y
    BY <2>8
  <2>10. m \in Int /\ U \subseteq Int
    BY <2>5, <2>9
  <2> QED
    BY <2>4, <2>5, <2>9, <2>10
<1> QED
  BY <1>1 DEF Min

(***************************************************************************)
(* The empty map, as Init and stop_all leave it, is a map to any set.      *)
(***************************************************************************)
LEMMA EmptyMap == ASSUME NEW T PROVE <<>> \in Maps(T) /\ DOMAIN <<>> = {}
<1>1. <<>> \in [1..0 -> T]
  BY EmptySeq, LenProperties
<1> QED
  BY <1>1 DEF Maps

(***************************************************************************)
(* Keys of a map are ids, its values are in T.                             *)
(***************************************************************************)
LEMMA MapFacts ==
  ASSUME NEW T, NEW f \in Maps(T)
  PROVE  DOMAIN f \subseteq Ids /\ \A id \in DOMAIN f : f[id] \in T
  BY DEF Maps

(***************************************************************************)
(* A map into a set is a map into a larger one.                            *)
(***************************************************************************)
LEMMA MapWiden ==
  ASSUME NEW S, NEW T, S \subseteq T, NEW f \in Maps(S)
  PROVE  f \in Maps(T)
<1>1. PICK D \in SUBSET Ids : f \in [D -> S]
  BY DEF Maps
<1>2. f \in [D -> T]
  BY <1>1
<1> QED
  BY <1>2 DEF Maps

(***************************************************************************)
(* What erase leaves in a map.                                             *)
(***************************************************************************)
LEMMA WithoutFacts ==
  ASSUME NEW T, NEW f \in Maps(T), NEW x
  PROVE  /\ Without(f, x) \in Maps(T)
         /\ DOMAIN Without(f, x) = DOMAIN f \ {x}
         /\ \A y \in DOMAIN f \ {x} : Without(f, x)[y] = f[y]
<1>1. Without(f, x) = [y \in DOMAIN f \ {x} |-> f[y]]
  BY DEF Without, Restrict
<1>2. DOMAIN f \ {x} \in SUBSET Ids /\ \A y \in DOMAIN f : f[y] \in T
  BY MapFacts
<1>3. [y \in DOMAIN f \ {x} |-> f[y]] \in [DOMAIN f \ {x} -> T]
  BY <1>2
<1> QED
  BY <1>1, <1>2, <1>3 DEF Maps

(***************************************************************************)
(* The invariant holds before the first update_streams.                    *)
(***************************************************************************)
LEMMA Initially == Init => IInv
<1> SUFFICES ASSUME Init PROVE IInv
  OBVIOUS
<1>1. /\ threads \in Seq(Thread) /\ Len(threads) = 0 /\ Started = {} /\ Registered = {}
      /\ stream_threads_ \in Maps(Started) /\ active_stream_configs_ \in Maps(Configs)
      /\ desired_configs \in Maps(Configs)
  BY EmptySeq, EmptyMap DEF Init, Started, Registered
<1>2. TypeOK
  <2>1. stream_threads_ \in UNION {[S -> Started] : S \in SUBSET Ids}
    BY <1>1 DEF Maps
  <2>2. active_stream_configs_ \in DesiredConfigs /\ desired_configs \in DesiredConfigs
    BY <1>1 DEF Maps, DesiredConfigs
  <2> QED
    BY <1>1, <2>1, <2>2, BoundsNat DEF BoundsNat, Init, TypeOK
<1>3. MapsMatchThreads /\ UpdateProgress
  BY <1>1, BoundsNat, FS_EmptySet DEF BoundsNat, Init, MapsMatchThreads, UpdateProgress
<1> QED
  BY <1>2, <1>3 DEF IInv

\* Everything but the threads themselves.
managerVars == <<stream_threads_, active_stream_configs_, manager_mutex_, desired_configs,
                 to_stop, to_start, main_pc>>

(***************************************************************************)
(* The parts of the type invariant in the form the proofs use.             *)
(***************************************************************************)
LEMMA Facts ==
  ASSUME IInv
  PROVE  /\ threads \in Seq(Thread) /\ Len(threads) \in Nat /\ Started = 1..Len(threads)
         /\ \A t \in Started : threads[t] \in Thread
         /\ stream_threads_ \in Maps(Started) /\ Registered \subseteq Ids
         /\ \A id \in Registered : stream_threads_[id] \in Started
         /\ active_stream_configs_ \in Maps(Configs)
         /\ desired_configs \in Maps(Configs) /\ DOMAIN desired_configs \subseteq Ids
         /\ \A id \in DOMAIN desired_configs : desired_configs[id] \in Configs
         /\ IsFiniteSet(to_start) /\ IsFiniteSet(to_stop)
<1>1. /\ threads \in Seq(Thread) /\ Len(threads) \in Nat /\ Started = 1..Len(threads)
      /\ \A t \in Started : threads[t] \in Thread
  BY LenProperties, ElementOfSeq DEF IInv, TypeOK, Started
<1>2. /\ stream_threads_ \in Maps(Started)
      /\ active_stream_configs_ \in Maps(Configs) /\ desired_configs \in Maps(Configs)
  BY DEF IInv, TypeOK, Maps, DesiredConfigs
<1>3. /\ Registered \subseteq Ids /\ \A id \in Registered : stream_threads_[id] \in Started
      /\ DOMAIN desired_configs \subseteq Ids
      /\ \A id \in DOMAIN desired_configs : desired_configs[id] \in Configs
  BY <1>2, MapFacts DEF Registered
<1>4. IsFiniteSet(to_start) /\ IsFiniteSet(to_stop)
  BY IdsAreInts, FS_Subset DEF IdsAreInts, IInv, TypeOK
<1> QED
  BY <1>1, <1>2, <1>3, <1>4

(***************************************************************************)
(* A step of one thread that keeps its id and config, and does not revive  *)
(* it, keeps the invariant: the manager's maps say nothing about its pc,   *)
(* retry counter or stop token.                                            *)
(***************************************************************************)
LEMMA ThreadChanges ==
  ASSUME IInv, NEW t \in Started, NEW th \in Thread,
         th.id = threads[t].id, th.config = threads[t].config,
         th.pc # "exited" => Live(t),
         threads' = [threads EXCEPT ![t] = th],
         UNCHANGED managerVars
  PROVE  IInv'
<1> USE Facts
<1>1. /\ threads' \in Seq(Thread) /\ Len(threads') = Len(threads) /\ Started' = Started
      /\ \A u \in Started : threads'[u] = IF u = t THEN th ELSE threads[u]
  BY ExceptSeq, LenProperties DEF Started
<1>2. /\ UNCHANGED <<stream_threads_, active_stream_configs_, manager_mutex_, desired_configs>>
      /\ UNCHANGED <<to_stop, to_start, main_pc>> /\ Registered' = Registered
  BY DEF managerVars, Registered
<1>3. TypeOK'
  BY <1>1, <1>2 DEF IInv, TypeOK
<1>4. MapsMatchThreads'
  BY <1>1, <1>2 DEF IInv, MapsMatchThreads, Live
<1>5. UpdateProgress'
  BY <1>1, <1>2 DEF IInv, UpdateProgress, Wanted
<1> QED
  BY <1>3, <1>4, <1>5 DEF IInv

(***************************************************************************)
(* So does every move of run_stream from one place to another,             *)
(***************************************************************************)
LEMMA GotoPreserves ==
  ASSUME IInv, NEW t \in Started, NEW from, NEW to,
         from # "exited",
         to \in ConnectLoop \cup {"loop", "connected", "setup", "read", "flush", "exited"},
         Goto(t, from, to)
  PROVE  IInv'
<1> DEFINE retry == IF to \in ConnectLoop THEN threads[t].current_retry ELSE 0
           th == [threads[t] EXCEPT !.pc = to, !.current_retry = retry]
<1>1. threads[t] \in Thread
  BY Facts
<1>2. /\ th \in Thread
      /\ th.id = threads[t].id /\ th.config = threads[t].config
  <2>1. retry \in 0..(MaxRetries + 1)
    BY <1>1, BoundsNat DEF BoundsNat, Thread
  <2> HIDE DEF retry
  <2> QED
    BY <1>1, <2>1 DEF Thread
<1>3. threads' = [threads EXCEPT ![t] = th]
  BY <1>1 DEF Goto, Thread
<1>4. Live(t)
  BY DEF Goto, Live
<1>5. UNCHANGED managerVars
  BY DEF Goto, managerVars
<1> HIDE DEF th
<1> QED
  BY <1>2, <1>3, <1>4, <1>5, ThreadChanges

(***************************************************************************)
(* and so does run_stream as a whole, the backoff included.                *)
(***************************************************************************)
LEMMA RunStreamPreserves ==
  ASSUME IInv, NEW t \in Started, run_stream(t) \/ SourceFails(t)
  PROVE  IInv'
<1>1. CASE BackoffEnds(t)
  <2> DEFINE retry == NextRetry(threads[t].current_retry)
             th == [threads[t] EXCEPT !.pc = "connect", !.current_retry = retry]
  <2>1. threads[t] \in Thread
    BY Facts
  <2>2. retry \in 0..(MaxRetries + 1)
    BY <2>1, BoundsNat DEF BoundsNat, Thread, NextRetry
  <2>3. threads' = [threads EXCEPT ![t] = th]
    BY <1>1, <2>1 DEF BackoffEnds, Thread
  <2> HIDE DEF retry
  <2>4. th \in Thread /\ th.id = threads[t].id /\ th.config = threads[t].config
    BY <2>1, <2>2 DEF Thread, ConnectLoop
  <2>5. Live(t) /\ UNCHANGED managerVars
    BY <1>1 DEF BackoffEnds, Live, managerVars
  <2> HIDE DEF th
  <2> QED
    BY <2>3, <2>4, <2>5, ThreadChanges
<1>2. CASE \E from \in {"loop", "connect", "open", "connected", "setup", "read", "flush"},
              to \in ConnectLoop \cup {"loop", "connected", "setup", "read", "flush", "exited"} :
             Goto(t, from, to)
  BY <1>2, GotoPreserves
<1> QED
  BY <1>1, <1>2 DEF run_stream, SourceFails, LoopStopped, StartTurn, ConnectStopped,
     TryConnect, AllocFails, ConnectFails, Connected, SetupStopped, StartSetup,
     StreamInfoFails, SetupFatal, SetupDone, ReadStopped, ReadFails, Flushed, ConnectLoop

(***************************************************************************)
(* The stream that update_streams stops next is registered, and the        *)
(* registered thread reads that stream.                                    *)
(***************************************************************************)
LEMMA MinToStop ==
  ASSUME IInv, to_stop # {}
  PROVE  /\ Min(to_stop) \in to_stop /\ Min(to_stop) \in Registered
         /\ stream_threads_[Min(to_stop)] \in Started
         /\ threads[stream_threads_[Min(to_stop)]].id = Min(to_stop)
<1>1. to_stop \in SUBSET Int
  BY IdsAreInts DEF IdsAreInts, IInv, TypeOK
<1>2. Min(to_stop) \in to_stop
  BY <1>1, Facts, FiniteHasMin
<1> QED
  BY <1>2, Facts DEF IInv, UpdateProgress, MapsMatchThreads

(***************************************************************************)
(* A stop request keeps the invariant.                                     *)
(***************************************************************************)
LEMMA StopRequested ==
  ASSUME IInv, NEW t \in Started, threads' = [threads EXCEPT ![t].stop = TRUE],
         UNCHANGED managerVars
  PROVE  IInv'
<1> DEFINE th == [threads[t] EXCEPT !.stop = TRUE]
<1>1. threads[t] \in Thread
  BY Facts
<1>2. /\ th \in Thread /\ th.pc = threads[t].pc
      /\ th.id = threads[t].id /\ th.config = threads[t].config
  BY <1>1 DEF Thread
<1>3. threads' = [threads EXCEPT ![t] = th]
  BY <1>1
<1> HIDE DEF th
<1> QED
  BY <1>2, <1>3, ThreadChanges DEF Live

(***************************************************************************)
(* Erasing a thread that has ended from the maps keeps the invariant,      *)
(* whether its config is erased with it (update_streams) or later          *)
(* (stop_all).                                                             *)
(***************************************************************************)
LEMMA Unregister ==
  ASSUME IInv, NEW id \in Registered, ~Live(stream_threads_[id]),
         stream_threads_' = Without(stream_threads_, id),
         active_stream_configs_' \in {active_stream_configs_, Without(active_stream_configs_, id)},
         to_stop' = to_stop \ {id},
         UNCHANGED <<threads, manager_mutex_, desired_configs, to_start, main_pc>>
  PROVE  IInv'
<1> USE Facts
<1>1. /\ stream_threads_' \in Maps(Started) /\ Registered' = Registered \ {id}
      /\ \A x \in Registered \ {id} : stream_threads_'[x] = stream_threads_[x]
  BY WithoutFacts DEF Registered
<1>2. /\ active_stream_configs_' \in Maps(Configs)
      /\ \A x \in DOMAIN active_stream_configs_ \ {id} :
           x \in DOMAIN active_stream_configs_' /\ active_stream_configs_'[x] = active_stream_configs_[x]
  <2>1. CASE active_stream_configs_' = active_stream_configs_
    BY <2>1
  <2>2. CASE active_stream_configs_' = Without(active_stream_configs_, id)
    BY <2>2, WithoutFacts
  <2> QED
    BY <2>1, <2>2
<1>3. Started' = Started /\ threads' = threads /\ desired_configs' = desired_configs
  BY DEF Started
<1>4. TypeOK'
  BY <1>1, <1>2, <1>3 DEF IInv, TypeOK, Maps, DesiredConfigs
<1>5. MapsMatchThreads'
  BY <1>1, <1>2, <1>3 DEF IInv, MapsMatchThreads, Live
<1>6. UpdateProgress'
  <2>1. \A x \in Registered' : Wanted(x)' = Wanted(x)
    BY <1>1, <1>2, <1>3 DEF IInv, MapsMatchThreads, Wanted
  <2> QED
    BY <1>1, <1>3, <2>1 DEF IInv, UpdateProgress
<1> QED
  BY <1>4, <1>5, <1>6 DEF IInv

(***************************************************************************)
(* The active configs after a thread was started.                          *)
(***************************************************************************)
LEMMA ConfigRegistered ==
  ASSUME active_stream_configs_ \in Maps(Configs), NEW id \in Ids, NEW config \in Configs,
         active_stream_configs_' = With(active_stream_configs_, id, config)
  PROVE  /\ active_stream_configs_' \in Maps(Configs)
         /\ DOMAIN active_stream_configs_' = DOMAIN active_stream_configs_ \cup {id}
         /\ active_stream_configs_'[id] = config
         /\ \A x \in DOMAIN active_stream_configs_ \ {id} :
              active_stream_configs_'[x] = active_stream_configs_[x]
<1>1. DOMAIN active_stream_configs_ \in SUBSET Ids
      /\ \A x \in DOMAIN active_stream_configs_ : active_stream_configs_[x] \in Configs
  BY MapFacts
<1>2. /\ DOMAIN active_stream_configs_' = DOMAIN active_stream_configs_ \cup {id}
      /\ active_stream_configs_'[id] = config
      /\ \A x \in DOMAIN active_stream_configs_ \ {id} :
           active_stream_configs_'[x] = active_stream_configs_[x]
  BY DEF With
<1>3. active_stream_configs_' \in [DOMAIN active_stream_configs_ \cup {id} -> Configs]
  BY <1>1 DEF With
<1>4. DOMAIN active_stream_configs_ \cup {id} \in SUBSET Ids
  BY <1>1
<1> QED
  BY <1>2, <1>3, <1>4 DEF Maps

(***************************************************************************)
(* The registered threads after a thread was started.                      *)
(***************************************************************************)
LEMMA ThreadRegistered ==
  ASSUME stream_threads_ \in Maps(Started'), NEW id \in Ids, NEW t \in Started',
         stream_threads_' = With(stream_threads_, id, t)
  PROVE  /\ stream_threads_' \in Maps(Started') /\ Registered' = Registered \cup {id}
         /\ stream_threads_'[id] = t
         /\ \A x \in Registered \ {id} : stream_threads_'[x] = stream_threads_[x]
<1>1. Registered \in SUBSET Ids /\ \A x \in Registered : stream_threads_[x] \in Started'
  BY MapFacts DEF Registered
<1>2. /\ Registered' = Registered \cup {id}
      /\ stream_threads_'[id] = t
      /\ \A x \in Registered \ {id} : stream_threads_'[x] = stream_threads_[x]
  BY DEF With, Registered
<1>3. stream_threads_' \in [Registered \cup {id} -> Started']
  BY <1>1 DEF With, Registered
<1>4. Registered \cup {id} \in SUBSET Ids
  BY <1>1
<1> QED
  BY <1>2, <1>3, <1>4 DEF Maps

(***************************************************************************)
(* Starting the thread of a wanted stream that has none keeps the          *)
(* invariant: the new thread is the only live one of its id.               *)
(***************************************************************************)
LEMMA Register ==
  ASSUME IInv, manager_mutex_ = "update_streams", to_stop = {},
         NEW id \in to_start, NEW config, NEW t, NEW th,
         config = desired_configs[id], t = Len(threads) + 1, th = NewThread(id, config),
         active_stream_configs_' = With(active_stream_configs_, id, config),
         threads' = Append(threads, th),
         stream_threads_' = With(stream_threads_, id, t),
         to_start' = to_start \ {id},
         UNCHANGED <<manager_mutex_, desired_configs, to_stop, main_pc>>
  PROVE  IInv'
<1>1. id \in Ids /\ id \in DOMAIN desired_configs /\ id \notin Registered
  BY DEF IInv, TypeOK, UpdateProgress
<1>2. config \in Configs /\ th \in Thread /\ th.id = id /\ th.config = config
  BY <1>1, Facts, BoundsNat DEF BoundsNat, NewThread, Thread
<1>3. threads \in Seq(Thread) /\ Len(threads) \in Nat /\ Started = 1..Len(threads)
  BY Facts
<1>4. /\ threads' \in Seq(Thread) /\ Len(threads') = t /\ Started' = 1..t
      /\ \A u \in Started : threads'[u] = threads[u]
      /\ threads'[t] = th
  BY <1>2, <1>3, AppendProperties, LenProperties DEF Started
<1>5. /\ active_stream_configs_' \in Maps(Configs)
      /\ id \in DOMAIN active_stream_configs_' /\ active_stream_configs_'[id] = config
      /\ \A x \in DOMAIN active_stream_configs_ \ {id} :
           x \in DOMAIN active_stream_configs_' /\ active_stream_configs_'[x] = active_stream_configs_[x]
  <2>1. active_stream_configs_ \in Maps(Configs)
    BY Facts
  <2>2. /\ active_stream_configs_' \in Maps(Configs)
        /\ DOMAIN active_stream_configs_' = DOMAIN active_stream_configs_ \cup {id}
        /\ active_stream_configs_'[id] = config
        /\ \A x \in DOMAIN active_stream_configs_ \ {id} :
             active_stream_configs_'[x] = active_stream_configs_[x]
    BY <1>1, <1>2, <2>1, ConfigRegistered
  <2> QED
    BY <2>2
<1>6. /\ stream_threads_' \in Maps(Started') /\ Registered' = Registered \cup {id}
      /\ stream_threads_'[id] = t
      /\ \A x \in Registered : stream_threads_'[x] = stream_threads_[x]
  <2>1. stream_threads_ \in Maps(Started)
    BY Facts
  <2>2. Started \subseteq Started' /\ t \in Started'
    BY <1>3, <1>4
  <2>3. stream_threads_ \in Maps(Started')
    BY <2>1, <2>2, MapWiden
  <2>4. /\ stream_threads_' \in Maps(Started') /\ Registered' = Registered \cup {id}
        /\ stream_threads_'[id] = t
        /\ \A x \in Registered \ {id} : stream_threads_'[x] = stream_threads_[x]
    BY <1>1, <2>2, <2>3, ThreadRegistered
  <2> QED
    BY <1>1, <2>4
<1>7. Len(threads') + Cardinality(to_start') <= MaxThreads /\ Len(threads') <= MaxThreads
  <2>1. IsFiniteSet(to_start)
    BY Facts
  <2>2. Cardinality(to_start) \in Nat /\ Cardinality(to_start') \in Nat
    BY <2>1, FS_CardinalityType, FS_RemoveElement
  <2>3. Cardinality(to_start') = Cardinality(to_start) - 1
    BY <2>1, FS_RemoveElement
  <2>4. Len(threads) + Cardinality(to_start) <= MaxThreads
    BY DEF IInv, UpdateProgress
  <2> QED
    BY <1>3, <1>4, <2>2, <2>3, <2>4, BoundsNat DEF BoundsNat
<1>8. TypeOK'
  <2>1. stream_threads_' \in UNION {[S -> Started'] : S \in SUBSET Ids}
    BY <1>6 DEF Maps
  <2>2. active_stream_configs_' \in DesiredConfigs
    BY <1>5 DEF Maps, DesiredConfigs
  <2> QED
    BY <1>4, <1>7, <2>1, <2>2 DEF IInv, TypeOK
<1>9. MapsMatchThreads'
  <2>1. /\ \A x \in Registered : stream_threads_[x] \in Started
        /\ t \notin Started
    BY <1>3, Facts
  <2>2. ASSUME NEW x \in Registered'
        PROVE
          /\ threads'[stream_threads_'[x]].id = x
          /\ x \in DOMAIN active_stream_configs_'
          /\ active_stream_configs_'[x] = threads'[stream_threads_'[x]].config
    <3>1. CASE x = id
      BY <1>2, <1>4, <1>5, <1>6, <3>1
    <3>2. CASE x \in Registered
      <4>1. stream_threads_'[x] = stream_threads_[x] /\ stream_threads_[x] \in Started
        BY <1>6, <2>1, <3>2
      <4>2. threads'[stream_threads_'[x]] = threads[stream_threads_[x]]
        BY <1>4, <4>1
      <4> QED
        BY <1>1, <1>5, <3>2, <4>2 DEF IInv, MapsMatchThreads
    <3> QED
      BY <1>6, <3>1, <3>2
  <2>3. Started' = Started \cup {t}
    BY <1>3, <1>4
  <2>4. \A u \in Started' : Live(u)' =>
          threads'[u].id \in Registered' /\ stream_threads_'[threads'[u].id] = u
    BY <1>1, <1>2, <1>4, <1>6, <2>3 DEF IInv, MapsMatchThreads, Live
  <2> QED
    BY <2>2, <2>4 DEF MapsMatchThreads
<1>10. UpdateProgress'
  <2>1. \A x \in Registered : Wanted(x)' = Wanted(x)
    BY <1>1, <1>5 DEF IInv, MapsMatchThreads, Wanted
  <2>2. Wanted(id)'
    BY <1>1, <1>5 DEF Wanted
  <2>3. \A x \in Registered' \ to_stop' : Wanted(x)'
    BY <1>6, <2>1, <2>2 DEF IInv, UpdateProgress
  <2>4. to_start' \subseteq DOMAIN desired_configs' \ Registered'
    BY <1>6 DEF IInv, UpdateProgress
  <2> QED
    BY <1>7, <2>3, <2>4 DEF UpdateProgress
<1> QED
  BY <1>8, <1>9, <1>10 DEF IInv

(***************************************************************************)
(* The start of update_streams' next thread is such a step.                *)
(***************************************************************************)
LEMMA StartThreadPreserves == IInv /\ StartThread => IInv'
<1> SUFFICES ASSUME IInv, StartThread PROVE IInv'
  OBVIOUS
<1>1. to_start \in SUBSET Int /\ to_start # {}
  BY IdsAreInts DEF IdsAreInts, IInv, TypeOK, StartThread
<1>2. Min(to_start) \in to_start
  BY <1>1, Facts, FiniteHasMin
<1>3. PICK id \in to_start : id = Min(to_start)
  BY <1>2
<1>4. PICK config, t, th :
        config = desired_configs[id] /\ t = Len(threads) + 1 /\ th = NewThread(id, config)
  OBVIOUS
<1> QED
  BY <1>3, <1>4, Register DEF StartThread

(***************************************************************************)
(* Every step keeps the invariant.                                         *)
(***************************************************************************)
LEMMA Preserved == IInv /\ [Next]_vars => IInv'
<1> SUFFICES ASSUME IInv, [Next]_vars PROVE IInv'
  OBVIOUS
<1> USE Facts
<1>1. ASSUME NEW desired \in DesiredConfigs, UpdateStreams(desired) PROVE IInv'
  <2>1. /\ UNCHANGED <<threads, stream_threads_, active_stream_configs_, main_pc>>
        /\ Started' = Started /\ Registered' = Registered /\ desired_configs' = desired
        /\ manager_mutex_' = "update_streams"
    BY <1>1 DEF UpdateStreams, Started, Registered
  <2>2. to_stop' = {id \in Registered : ~Wanted(id)'} /\ to_start' = DOMAIN desired \ Registered
    BY <1>1, <2>1 DEF UpdateStreams, ToStop, ToStart, Wanted
  <2>3. DOMAIN desired \subseteq Ids
    BY DEF DesiredConfigs
  <2>4. TypeOK'
    BY <2>1, <2>2, <2>3 DEF IInv, TypeOK
  <2>5. MapsMatchThreads'
    BY <2>1 DEF IInv, MapsMatchThreads, Live
  <2>6. UpdateProgress'
    BY <1>1, <2>1, <2>2 DEF UpdateProgress, UpdateStreams, ToStart
  <2> QED
    BY <2>4, <2>5, <2>6 DEF IInv
<1>2. CASE RequestStop
  BY <1>2, MinToStop, StopRequested DEF RequestStop, managerVars
<1>3. CASE JoinThread
  BY <1>3, MinToStop, Unregister DEF JoinThread
<1>4. CASE StartThread
  BY <1>4, StartThreadPreserves
<1>5. CASE UpdateReturns
  <2>1. Started' = Started /\ Registered' = Registered
    BY <1>5 DEF UpdateReturns, Started, Registered
  <2>2. TypeOK'
    BY <1>5, <2>1 DEF UpdateReturns, IInv, TypeOK
  <2>3. MapsMatchThreads' /\ UpdateProgress'
    BY <1>5, <2>1 DEF UpdateReturns, IInv, MapsMatchThreads, UpdateProgress, Live, Wanted
  <2> QED
    BY <2>2, <2>3 DEF IInv
<1>6. CASE StopAll
  <2>1. Started' = Started /\ Registered' = Registered
    BY <1>6 DEF StopAll, Started, Registered
  <2>2. TypeOK'
    BY <1>6, <2>1 DEF StopAll, MainAfterStop, IInv, TypeOK
  <2>3. MapsMatchThreads' /\ UpdateProgress'
    BY <1>6, <2>1 DEF StopAll, IInv, MapsMatchThreads, UpdateProgress, Live, Wanted
  <2> QED
    BY <2>2, <2>3 DEF IInv
<1>7. ASSUME NEW id \in Ids, ClearRequestStop(id) PROVE IInv'
  BY <1>7, StopRequested DEF ClearRequestStop, managerVars
<1>8. ASSUME NEW id \in Ids, ClearJoin(id) PROVE IInv'
  <2>1. to_stop' = to_stop \ {id} /\ id \in Registered
    BY <1>8 DEF ClearJoin, Stopping, IInv, UpdateProgress
  <2> QED
    BY <1>8, <2>1, Unregister DEF ClearJoin
<1>9. CASE StopAllReturns
  <2>1. Started' = Started /\ Registered' = {} /\ Registered = {}
    BY <1>9 DEF StopAllReturns, Started, Registered
  <2>2. active_stream_configs_' \in DesiredConfigs
    BY <1>9, EmptyMap DEF StopAllReturns, Maps, DesiredConfigs
  <2>3. TypeOK'
    BY <1>9, <2>1, <2>2 DEF StopAllReturns, MainAfterStop, IInv, TypeOK
  <2>4. MapsMatchThreads' /\ UpdateProgress'
    BY <1>9, <2>1 DEF StopAllReturns, IInv, MapsMatchThreads, UpdateProgress, Live, Wanted
  <2> QED
    BY <2>3, <2>4 DEF IInv
<1>10. ASSUME NEW t \in Started, run_stream(t) \/ SourceFails(t) PROVE IInv'
  BY <1>10, RunStreamPreserves
<1>11. CASE UNCHANGED vars
  BY <1>11 DEF vars, IInv, TypeOK, MapsMatchThreads, UpdateProgress, Started, Registered,
               Live, Wanted
<1> QED
  BY <1>1, <1>2, <1>3, <1>4, <1>5, <1>6, <1>7, <1>8, <1>9, <1>10, <1>11
  DEF Next, update_streams, stop_all, Destroyed

(***************************************************************************)
(* The invariant holds in every reachable state.                           *)
(***************************************************************************)
LEMMA Invariant == Spec => []IInv
  BY Initially, Preserved, PTL DEF Spec

(***************************************************************************)
(* Types, for any number of ids, threads and retries; the backoff of       *)
(* run_stream stays within max_retries + 1, so that its 2^current_retry is *)
(* bounded.                                                                *)
(***************************************************************************)
THEOREM TypeCorrect == Spec => []TypeOK
<1>1. IInv => TypeOK
  BY DEF IInv
<1> QED
  BY <1>1, Invariant, PTL

(***************************************************************************)
(* A live stream thread is the registered one of its id, with the config   *)
(* it runs recorded as active, through any sequence of reloads, failures   *)
(* and shutdown: two threads never read one stream, and none escapes       *)
(* stop_all.                                                               *)
(***************************************************************************)
THEOREM NoThreadEscapes == Spec => []LiveThreadsRegistered
<1>1. IInv => LiveThreadsRegistered
  BY DEF IInv, MapsMatchThreads, LiveThreadsRegistered
<1> QED
  BY <1>1, Invariant, PTL

(***************************************************************************)
(* When update_streams has returned, every registered stream is one the    *)
(* new configuration asks for, with the same config.                       *)
(***************************************************************************)
THEOREM NoStaleStream == Spec => []NoStaleStreamAfterUpdate
<1>1. IInv => NoStaleStreamAfterUpdate
  BY DEF IInv, UpdateProgress, Wanted, NoStaleStreamAfterUpdate
<1> QED
  BY <1>1, Invariant, PTL

\* What a step of a reload may do to the stop token of a thread.
StopsOnlyUnwanted ==
  manager_mutex_ = "update_streams" =>
    \A t \in Started :
      threads'[t].stop /\ ~threads[t].stop =>
        \/ threads[t].id \notin DOMAIN desired_configs
        \/ desired_configs[threads[t].id] # threads[t].config

(***************************************************************************)
(* run_stream never changes a stop token.                                  *)
(***************************************************************************)
LEMMA StopKept ==
  ASSUME threads \in Seq(Thread), NEW t \in Started, NEW u \in Started,
         BackoffEnds(u) \/ \E from, to : Goto(u, from, to)
  PROVE  threads'[t].stop = threads[t].stop
<1>1. threads[t] \in Thread /\ threads[u] \in Thread /\ Started = 1..Len(threads)
  BY ElementOfSeq, LenProperties DEF Started
<1>2. CASE BackoffEnds(u)
  BY <1>1, <1>2 DEF BackoffEnds, Thread, Started
<1>3. ASSUME NEW from, NEW to, Goto(u, from, to) PROVE threads'[t].stop = threads[t].stop
  BY <1>1, <1>3 DEF Goto, Thread, Started
<1> QED
  BY <1>2, <1>3

(***************************************************************************)
(* A step under update_streams requests a stop only from threads of        *)
(* streams that are gone or configured differently.                        *)
(***************************************************************************)
LEMMA StepStopsOnlyUnwanted == IInv /\ [Next]_vars => StopsOnlyUnwanted
<1> SUFFICES ASSUME IInv, [Next]_vars, manager_mutex_ = "update_streams",
                    NEW t \in Started, threads'[t].stop, ~threads[t].stop
             PROVE  \/ threads[t].id \notin DOMAIN desired_configs
                    \/ desired_configs[threads[t].id] # threads[t].config
  BY DEF StopsOnlyUnwanted
<1>1. threads \in Seq(Thread) /\ threads[t] \in Thread
  BY Facts
<1>2. CASE RequestStop
  <2>1. t = stream_threads_[Min(to_stop)]
    BY <1>1, <1>2 DEF RequestStop
  <2>2. Min(to_stop) \in to_stop /\ Min(to_stop) \in Registered
    BY <1>2, MinToStop DEF RequestStop
  <2> QED
    BY <2>1, <2>2 DEF IInv, UpdateProgress, Wanted, MapsMatchThreads
<1>3. CASE StartThread
  BY <1>1, <1>3, AppendProperties, Facts DEF StartThread
<1>4. CASE UNCHANGED threads
  BY <1>4
<1>5. ASSUME NEW u \in Started, run_stream(u) \/ SourceFails(u) PROVE FALSE
  <2>1. BackoffEnds(u) \/ \E from, to : Goto(u, from, to)
    BY <1>5 DEF run_stream, SourceFails, LoopStopped, StartTurn, ConnectStopped,
       TryConnect, AllocFails, ConnectFails, Connected, SetupStopped, StartSetup,
       StreamInfoFails, SetupFatal, SetupDone, ReadStopped, ReadFails, Flushed
  <2> QED
    BY <1>1, <2>1, StopKept
<1> QED
  BY <1>2, <1>3, <1>4, <1>5 DEF Next, vars, update_streams, stop_all, UpdateStreams, JoinThread,
     UpdateReturns, StopAll, ClearRequestStop, ClearJoin, StopAllReturns, Destroyed

(***************************************************************************)
(* A reload does not interrupt a stream whose configuration did not        *)
(* change, for any configurations and at any time.                         *)
(***************************************************************************)
THEOREM UnchangedStreamsKept == Spec => UnchangedStreamsUninterrupted
<1>1. IInv /\ [Next]_vars => [StopsOnlyUnwanted]_vars
  BY StepStopsOnlyUnwanted
<1>2. Spec => [][StopsOnlyUnwanted]_vars
  BY <1>1, Invariant, PTL DEF Spec
<1> QED
  BY <1>2 DEF UnchangedStreamsUninterrupted, StopsOnlyUnwanted
=============================================================================
