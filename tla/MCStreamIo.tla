----------------------------- MODULE MCStreamIo ------------------------------
(***************************************************************************)
(* Instance of StreamIo for TLC: two streams with two configurations each, *)
(* reloaded in any order, and one backoff step before the long pause.      *)
(***************************************************************************)
EXTENDS StreamIo
=============================================================================
