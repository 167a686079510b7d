--------------------------- MODULE FrameDelivery ----------------------------
(***************************************************************************)
(* What the pipeline as a whole promises about a decoded frame, however    *)
(* many threads and queues it passes through: it is in flight until it is  *)
(* published in one entry of Redis or dropped for a known cause (an FFmpeg *)
(* error, an error reply of Redis, the dry run), which need not be in the  *)
(* log: the publisher logs an error reply as a success.  Only a lost reply *)
(* leaves a published frame in flight, to be published again, and only a   *)
(* pipeline that is closing loses a frame without a cause.                 *)
(***************************************************************************)
EXTENDS Naturals, Sequences

VARIABLES
  inflight,   \* ids of the frames somewhere between decoder and Redis
  published,  \* the entries of Redis: the set of ids of each batch, in order
  dropped,    \* ids of the frames dropped for a known cause
  unacked,    \* number of entries stored whose reply was lost
  produced,   \* number of frames decoded so far
  closing     \* the shutdown reached the queues

dvars == <<inflight, published, dropped, unacked, produced, closing>>

Init ==
  /\ inflight = {}
  /\ published = <<>>
  /\ dropped = {}
  /\ unacked = 0
  /\ produced = 0
  /\ closing = FALSE

Produce ==
  /\ ~closing
  /\ produced' = produced + 1
  /\ inflight' = inflight \cup {produced + 1}
  /\ UNCHANGED <<published, dropped, unacked, closing>>

Publish(B) ==
  /\ published' = Append(published, B)
  /\ inflight' = inflight \ B
  /\ UNCHANGED <<dropped, unacked, produced, closing>>

PublishUnacknowledged(B) ==
  /\ published' = Append(published, B)
  /\ unacked' = unacked + 1
  /\ inflight' = inflight \/ (closing /\ inflight' = inflight \ B)
  /\ UNCHANGED <<dropped, produced, closing>>

Drop(B) ==
  /\ dropped' = dropped \cup B
  /\ inflight' = inflight \ B
  /\ UNCHANGED <<published, unacked, produced, closing>>

Lose(B) ==
  /\ closing
  /\ inflight' = inflight \ B
  /\ UNCHANGED <<published, dropped, unacked, produced, closing>>

Close ==
  /\ closing' = TRUE
  /\ UNCHANGED <<inflight, published, dropped, unacked, produced>>

Next ==
  \/ Produce
  \/ \E B \in SUBSET inflight :
       /\ B # {}
       /\ Publish(B) \/ PublishUnacknowledged(B) \/ Drop(B) \/ Lose(B)
  \/ Close

Spec == Init /\ [][Next]_dvars
=============================================================================
