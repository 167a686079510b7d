---------------------------- MODULE MCSupervisor ----------------------------
(***************************************************************************)
(* Instance of Supervisor for TLC: three launches, so that a relaunched    *)
(* child fails too, and two signals from outside.                          *)
(***************************************************************************)
EXTENDS Supervisor
=============================================================================
