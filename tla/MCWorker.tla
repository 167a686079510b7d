------------------------------ MODULE MCWorker ------------------------------
(***************************************************************************)
(* Instance of Worker for TLC: two threads, frames of one stream and event *)
(* whose processing configuration, dimensions and aspect ratio all change, *)
(* and a saver that is off, saves every frame or every second frame.       *)
(***************************************************************************)
EXTENDS Worker

Geometries == {[dims |-> "d1", sar |-> "s1"], [dims |-> "d1", sar |-> "s2"],
               [dims |-> "d2", sar |-> "s1"]}
OneGeometry == {[dims |-> "d1", sar |-> "s1"]}

OneStream == [k \in Keys |-> 1]
=============================================================================
