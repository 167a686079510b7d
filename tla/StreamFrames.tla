---------------------------- MODULE StreamFrames ----------------------------
(***************************************************************************)
(* The frames of one stream thread of src/src/components/stream_io: the    *)
(* filter graph setup_multi_output_filter_graph builds for a connection,   *)
(* and the loop of run_stream that pushes decoded frames into it, drains   *)
(* one sink per event, and flushes it when the connection ends.            *)
(* Connecting and stopping the thread are in StreamIo.tla.                 *)
(*                                                                         *)
(* The graph is external: split copies each frame to one select filter per *)
(* event, which numbers its frames from 0 and passes the multiples of its  *)
(* interval on to its sink.  A frame is its number; rates are integers in  *)
(* units of 1/Fps frames per second, and their quotient is exact.          *)
(***************************************************************************)
EXTENDS Integers, FiniteSetsExt, SequencesExt

CONSTANTS EventLists,   \* config.events: sequences of [name, target_fps]
          AvgRates,     \* avg_frame_rate of a connection, 0 for unknown
          RealRates,    \* r_frame_rate, 0 for unknown
          ActualRates,  \* the rate at which a source really delivers frames
          Fps,          \* the rate 1.0
          IntMax,       \* the largest int
          MaxFrames     \* bound on the frames decoded from one connection

ASSUME EventsTyped == EventLists \subseteq Seq([name : STRING, target_fps : Int])

ASSUME RatesInt ==
  AvgRates \subseteq Int /\ RealRates \subseteq Int /\ ActualRates \subseteq Nat \ {0}

ASSUME BoundsNat == Fps \in Nat \ {0} /\ IntMax \in Nat \ {0} /\ MaxFrames \in Nat

VARIABLES
  events,         \* config.events, fixed for the life of the thread
  pc,             \* "setup", "read", "drain", "flush", or "returned"
  video_stream,   \* what the container says of the rate, and the actual rate
  source_fps,     \* what the graph is built for
  interval,       \* per event: the interval of its select filter
  sink_contexts,  \* event name -> number of the sink registered for it
  n,              \* frames pushed into the graph
  sinks,          \* per sink: the frames waiting in it
  event,          \* the event being drained
  delivered,      \* history: per name, the frames pushed to decoded_frame_queue_
  pull_failed     \* history: a pull of the last drain ended with an error

graphVars == <<video_stream, source_fps, interval, sink_contexts>>
vars == <<events, pc, graphVars, n, sinks, event, delivered, pull_failed>>

Names == {events[i].name : i \in DOMAIN events}
Named(name) == {i \in DOMAIN events : events[i].name = name}

Init ==
  /\ events \in EventLists
  /\ pc = "setup"
  /\ video_stream = [avg_frame_rate |-> 0, r_frame_rate |-> 0, actual |-> Fps]
  /\ source_fps = Fps
  /\ interval = <<>>
  /\ sink_contexts = <<>>
  /\ n = 0
  /\ sinks = <<>>
  /\ event = 1
  /\ delivered = <<>>
  /\ pull_failed = FALSE

-----------------------------------------------------------------------------
(* setup_multi_output_filter_graph *)

\* avg_frame_rate if it is known, else r_frame_rate, else 1.0: what the code
\* takes for the rate of the source, which need not be the actual one.
SourceFps(avg, r) == IF avg > 0 THEN avg ELSE IF r > 0 THEN r ELSE Fps

Target(e) == IF e.target_fps <= 0 THEN Fps ELSE e.target_fps

Overflows(e, source) == source \div Target(e) > IntMax

\* Mutant of Intervals: a target above the source rate is not caught.
IntervalsFromZero(e, source) == {source \div Target(e)}

\* Mutant of Intervals: rounded up.
IntervalsRoundedUp(e, source) == {Max({1, (source + Target(e) - 1) \div Target(e)})}

\* static_cast<int> of the quotient, at least 1.  The cast of a value that is
\* out of range is undefined: x86 gives INT_MIN, hence 1, others the bound.
Intervals(e, source) ==
  IF Overflows(e, source) THEN {1, IntMax} ELSE {Max({1, source \div Target(e)})}

\* The locals of one turn of run_stream, with a select filter and a sink per
\* event; sink_contexts[name] is assigned in order, so the last of a name wins.
Setup(avg, r, actual) ==
  /\ pc = "setup"
  /\ events # <<>>
  /\ video_stream' = [avg_frame_rate |-> avg, r_frame_rate |-> r, actual |-> actual]
  /\ source_fps' = SourceFps(avg, r)
  /\ interval' \in {f \in [DOMAIN events -> UNION {Intervals(events[i], source_fps') :
                                                      i \in DOMAIN events}] :
                      \A i \in DOMAIN events : f[i] \in Intervals(events[i], source_fps')}
  /\ sink_contexts' = [name \in Names |-> Max(Named(name))]
  /\ sinks' = [i \in DOMAIN events |-> <<>>]
  /\ delivered' = [name \in Names |-> <<>>]
  /\ n' = 0
  /\ event' = 1
  /\ pull_failed' = FALSE
  /\ pc' = "read"
  /\ UNCHANGED events

\* An FFmpeg call fails, as split does when there are no events: the thread
\* returns.
SetupFails ==
  /\ pc = "setup"
  /\ pc' = "returned"
  /\ UNCHANGED <<events, graphVars, n, sinks, event, delivered, pull_failed>>

-----------------------------------------------------------------------------
(* The read loop of run_stream *)

\* A frame is decoded and pushed into the graph.
PushFrame ==
  /\ pc = "read"
  /\ n < MaxFrames
  /\ sinks' = [i \in DOMAIN sinks |->
                 IF n % interval[i] = 0 THEN Append(sinks[i], n) ELSE sinks[i]]
  /\ n' = n + 1
  /\ event' = 1
  /\ pull_failed' = FALSE
  /\ pc' = "drain"
  /\ UNCHANGED <<events, graphVars, delivered>>

\* A stop request, or an error of the source, the decoder or the buffer source.
ReadEnds ==
  /\ pc = "read"
  /\ pc' = "flush"
  /\ UNCHANGED <<events, graphVars, n, sinks, event, delivered, pull_failed>>

\* Mutant of NextEvent: the last event is not drained.
NextEventSkipsLast ==
  /\ event' = event + 1
  /\ pc' = IF event >= Len(events) - 1 THEN "read" ELSE "drain"

\* The drain goes on with the next event, or back to reading after the last.
NextEvent ==
  /\ event' = event + 1
  /\ pc' = IF event = Len(events) THEN "read" ELSE "drain"

\* Mutant of Drain: the frame a pull fails on is gone.
DrainLosing(m) ==
  LET name == events[event].name
      sink == sink_contexts[name]
  IN
  /\ pc = "drain"
  /\ m <= Len(sinks[sink])
  /\ delivered' = [delivered EXCEPT ![name] = @ \o SubSeq(sinks[sink], 1, m)]
  /\ sinks' = [sinks EXCEPT ![sink] = SubSeq(@, m + 2, Len(@))]
  /\ pull_failed' = (pull_failed \/ m < Len(sinks[sink]))
  /\ NextEvent
  /\ UNCHANGED <<events, graphVars, n>>

\* m frames are pulled from the sink registered for the event's name and pushed
\* to decoded_frame_queue_, until it is empty or a pull fails.
Drain(m) ==
  LET name == events[event].name
      sink == sink_contexts[name]
  IN
  /\ pc = "drain"
  /\ m <= Len(sinks[sink])
  /\ delivered' = [delivered EXCEPT ![name] = @ \o SubSeq(sinks[sink], 1, m)]
  /\ sinks' = [sinks EXCEPT ![sink] = SubSeq(@, m + 1, Len(@))]
  /\ pull_failed' = (pull_failed \/ m < Len(sinks[sink]))
  /\ NextEvent
  /\ UNCHANGED <<events, graphVars, n>>

\* The sinks are emptied, the frames in them discarded, and the graph freed;
\* the next turn connects again unless the thread is to stop.
Flush ==
  /\ pc = "flush"
  /\ sinks' = <<>>
  /\ pc' \in {"setup", "returned"}
  /\ UNCHANGED <<events, graphVars, n, event, delivered, pull_failed>>

run_stream ==
  \/ \E avg \in AvgRates, r \in RealRates, actual \in ActualRates : Setup(avg, r, actual)
  \/ SetupFails
  \/ PushFrame
  \/ ReadEnds
  \/ \E m \in 0..MaxFrames : Drain(m)
  \/ Flush

Returned == pc = "returned" /\ UNCHANGED vars

Next == run_stream \/ Returned

Spec == Init /\ [][Next]_vars

-----------------------------------------------------------------------------
Connected == pc \in {"read", "drain", "flush"}

(* Types; while a connection lasts every event has a sink, a registered one *)
(* for its name, and an interval of at least 1, by which its filter divides.*)
TypeOK ==
  /\ events \in EventLists
  /\ pc \in {"setup", "read", "drain", "flush", "returned"}
  /\ n \in 0..MaxFrames
  /\ Connected =>
       /\ video_stream \in
            [avg_frame_rate : AvgRates, r_frame_rate : RealRates, actual : ActualRates]
       /\ source_fps \in Nat \ {0}
       /\ interval \in [DOMAIN events -> 1..IntMax]
       /\ sinks \in [DOMAIN events -> Seq(Nat)]
       /\ sink_contexts \in [Names -> DOMAIN events]
       /\ delivered \in [Names -> Seq(Nat)]
  /\ pc = "drain" => event \in DOMAIN events

\* Every k-th of the first m frames, in order: 0, k, 2k and so on.
EveryNth(k, m) == [j \in 1..((m + k - 1) \div k) |-> (j - 1) * k]

(* Under every event name the queue gets the frames its select filter       *)
(* chose, each once and in order, however pulls fail in between: what was   *)
(* not delivered is still in the sink.  Of events with one name only the    *)
(* last one's rate counts.                                                  *)
EachSelectedFrameOnce ==
  Connected =>
    \A name \in Names :
      LET i == Max(Named(name)) IN delivered[name] \o sinks[i] = EveryNth(interval[i], n)

RateUnknown == video_stream.avg_frame_rate <= 0 /\ video_stream.r_frame_rate <= 0

(* "Target frame rate for this event", against the rate at which the source *)
(* really delivers frames.  Where the container tells that rate, an event   *)
(* with a name of its own gets at least its target (or every frame) and     *)
(* less than twice of it plus one frame, with non-positive targets and the  *)
(* truncated interval; only a quotient beyond an int may exceed that.       *)
(* Where the container tells no rate the target is not kept: the code takes *)
(* the source for one of 1.0 frames per second, and an event with a target  *)
(* above half of that gets every frame, however many the source delivers.   *)
RateKeptOnlyIfKnown ==
  pc = "read" /\ ~pull_failed /\ n > 0 =>
    \A i \in DOMAIN events :
      LET kept == Len(delivered[events[i].name])
          target == Target(events[i])
          actual == video_stream.actual
      IN
      Named(events[i].name) = {i} /\ ~Overflows(events[i], source_fps) =>
        /\ source_fps = actual =>
             /\ kept * actual >= n * Min({target, actual})
             /\ (kept - 1) * actual <= 2 * target * (n - 1)
        /\ RateUnknown /\ 2 * target > Fps => kept = n

(* Between two reads frames wait only in the sink of an event whose name a  *)
(* later event took over, which nobody drains as long as the connection     *)
(* lasts, or behind a pull that has just failed.                            *)
OnlyShadowedSinksPileUp ==
  pc = "read" =>
    \A i \in DOMAIN sinks :
      sinks[i] # <<>> => pull_failed \/ i # Max(Named(events[i].name))
=============================================================================
