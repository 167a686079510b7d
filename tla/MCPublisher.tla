---------------------------- MODULE MCPublisher -----------------------------
(***************************************************************************)
(* Instance of Publisher for TLC: two publisher threads and two streams,   *)
(* one with batches of two, one whose event is reconfigured between a      *)
(* batch size of two and the edge 0, which batch_size allows.              *)
(***************************************************************************)
EXTENDS Publisher

Events == {<<1, 0>>, <<1, 2>>, <<2, 2>>}
=============================================================================
