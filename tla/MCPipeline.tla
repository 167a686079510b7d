----------------------------- MODULE MCPipeline ------------------------------
(***************************************************************************)
(* Instance of Pipeline for TLC: two workers that share one stream, and    *)
(* one publisher thread; batches of two frames, one of them partial.       *)
(***************************************************************************)
EXTENDS Pipeline

OneGeometry == {[dims |-> "d1", sar |-> "s1"]}
=============================================================================
