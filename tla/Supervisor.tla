----------------------------- MODULE Supervisor -----------------------------
(***************************************************************************)
(* The supervisor of src/src/core/main.cpp: the parent forks a child that  *)
(* runs app_logic, polls it with waitpid, relaunches it when it fails, and *)
(* on SIGINT or SIGTERM forwards the signal and ends the child.  Signals   *)
(* arrive between any two steps, from outside or from the parent's kill.   *)
(*                                                                         *)
(* A process id is the position of the process in "children"; ids are not  *)
(* reused.  A child is known by its phase: "inherited" after fork, still   *)
(* with the parent's handler; "default" with SIG_DFL; "app" with its own   *)
(* handler; "stopping" once g_shutdown_request is set; "zombie" when it    *)
(* has ended and "reaped" when the parent has waited for it.               *)
(***************************************************************************)
EXTENDS Integers, Sequences

CONSTANTS MaxChildren,  \* bound on the number of forks that succeed
          MaxSignals,   \* bound on the signals sent from outside
          MaxPolls      \* seconds the cleanup waits: 5 in the code

ASSUME BoundsNat == MaxChildren \in Nat /\ MaxSignals \in Nat /\ MaxPolls \in Nat

VARIABLES
  pc,                         \* where the parent is in main
  pid,                        \* its local: what the last fork returned
  g_child_pid,                \* the child the signal handler knows, or 0
  g_parent_shutdown_request,
  i,                          \* seconds waited in the cleanup
  children,                   \* every child ever forked
  fork_failed,                \* history: a fork failed
  killed,                     \* history: the child that got SIGKILL, as it was
  signals                     \* history: signals sent from outside

childVars == <<children, signals>>
vars == <<pc, pid, g_child_pid, g_parent_shutdown_request, i, fork_failed, killed,
          childVars>>

Pids == DOMAIN children
Alive(c) == children[c].phase \notin {"zombie", "reaped"}

Init ==
  /\ pc = "fork"
  /\ pid = 0
  /\ g_child_pid = 0
  /\ g_parent_shutdown_request = FALSE
  /\ i = 0
  /\ children = <<>>
  /\ fork_failed = FALSE
  /\ killed = <<>>
  /\ signals = 0

-----------------------------------------------------------------------------
(* Signals *)

\* The process c receives SIGINT or SIGTERM.  The inherited handler sets a flag
\* nobody reads in the child, and forwards to the id of the previous child.
Signalled(cs, c) ==
  [cs EXCEPT ![c] =
     CASE @.phase = "default" -> [phase |-> "zombie", status |-> "signal"]
       [] @.phase = "app"     -> [@ EXCEPT !.phase = "stopping"]
       [] OTHER               -> @]

\* kill(c, SIGTERM); there is no process with the id 0 or that of a reaped child.
Kill(c) == IF c \in Pids THEN Signalled(children, c) ELSE children

\* parent_signal_handler
SignalParent ==
  /\ pc # "returned"
  /\ signals < MaxSignals
  /\ signals' = signals + 1
  /\ g_parent_shutdown_request' = TRUE
  /\ children' = Kill(g_child_pid)
  /\ UNCHANGED <<pc, pid, g_child_pid, i, fork_failed, killed>>

\* A signal to the child alone, or its part of one to the process group.
SignalChild(c) ==
  /\ Alive(c)
  /\ signals < MaxSignals
  /\ signals' = signals + 1
  /\ children' = Signalled(children, c)
  /\ UNCHANGED <<pc, pid, g_child_pid, g_parent_shutdown_request, i, fork_failed, killed>>

-----------------------------------------------------------------------------
(* The child *)

ChildStep(c, from, child) ==
  /\ children[c].phase = from
  /\ children' = [children EXCEPT ![c] = child]
  /\ UNCHANGED <<pc, pid, g_child_pid, g_parent_shutdown_request, i, fork_failed,
                 killed, signals>>

\* signal(SIGTERM, SIG_DFL) after the fork, then the handlers of app_logic.
ResetHandlers(c) == ChildStep(c, "inherited", [phase |-> "default", status |-> "none"])
InstallHandlers(c) == ChildStep(c, "default", [phase |-> "app", status |-> "none"])

\* The configuration cannot be loaded, with or without a shutdown request
\* meanwhile: EXIT_FAILURE.
AppFails(c) ==
  \E phase \in {"app", "stopping"} :
    ChildStep(c, phase, [phase |-> "zombie", status |-> "failure"])

\* The shutdown of app_logic is over: EXIT_SUCCESS.
AppReturns(c) == ChildStep(c, "stopping", [phase |-> "zombie", status |-> "success"])

\* The child crashes, wherever it is.
Crash(c) ==
  /\ Alive(c)
  /\ ChildStep(c, children[c].phase, [phase |-> "zombie", status |-> "signal"])

-----------------------------------------------------------------------------
(* The parent *)

\* fork() succeeds: the child starts with the handlers of the parent.
Fork ==
  /\ pc = "fork"
  /\ Len(children) < MaxChildren
  /\ children' = Append(children, [phase |-> "inherited", status |-> "none"])
  /\ pid' = Len(children) + 1
  /\ pc' = "forked"
  /\ UNCHANGED <<g_child_pid, g_parent_shutdown_request, i, fork_failed, killed, signals>>

\* fork() fails: the first time main returns, after a relaunch it cleans up.
ForkFails ==
  /\ pc = "fork"
  /\ pid' = -1
  /\ fork_failed' = TRUE
  /\ pc' = IF children = <<>> THEN "returned" ELSE "cleanup"
  /\ UNCHANGED <<g_child_pid, g_parent_shutdown_request, i, killed, childVars>>

\* Mutant of RecordChild: only the first child is made known to the handler.
RecordFirstChild ==
  /\ pc = "forked"
  /\ g_child_pid' = IF g_child_pid = 0 THEN pid ELSE g_child_pid
  /\ pc' = "watch"
  /\ UNCHANGED <<pid, g_parent_shutdown_request, i, fork_failed, killed, childVars>>

RecordChild ==
  /\ pc = "forked"
  /\ g_child_pid' = pid
  /\ pc' = "watch"
  /\ UNCHANGED <<pid, g_parent_shutdown_request, i, fork_failed, killed, childVars>>

\* while (!g_parent_shutdown_request)
Watch ==
  /\ pc = "watch"
  /\ pc' = IF g_parent_shutdown_request THEN "cleanup" ELSE "wait"
  /\ UNCHANGED <<pid, g_child_pid, g_parent_shutdown_request, i, fork_failed, killed,
                 childVars>>

\* waitpid(pid, WNOHANG) returns 0: sleep for two seconds.
StillRunning ==
  /\ pc = "wait"
  /\ Alive(pid)
  /\ pc' = "watch"
  /\ UNCHANGED <<pid, g_child_pid, g_parent_shutdown_request, i, fork_failed, killed,
                 childVars>>

Reaped(c) == [children EXCEPT ![c].phase = "reaped"]

\* Mutant of ChildTerminated: an exit code is taken for a normal end.
ChildTerminatedByExit ==
  /\ pc = "wait"
  /\ children[pid].phase = "zombie"
  /\ children' = Reaped(pid)
  /\ pc' = IF children[pid].status = "signal" THEN "relaunch" ELSE "cleanup"
  /\ UNCHANGED <<pid, g_child_pid, g_parent_shutdown_request, i, fork_failed, killed, signals>>

\* waitpid returns pid: leave the loop after a normal exit.
ChildTerminated ==
  /\ pc = "wait"
  /\ children[pid].phase = "zombie"
  /\ children' = Reaped(pid)
  /\ pc' = IF children[pid].status = "success" THEN "cleanup" ELSE "relaunch"
  /\ UNCHANGED <<pid, g_child_pid, g_parent_shutdown_request, i, fork_failed, killed, signals>>

\* The flag is tested once more before the relaunch.
Relaunch ==
  /\ pc = "relaunch"
  /\ pc' = IF g_parent_shutdown_request THEN "cleanup" ELSE "fork"
  /\ UNCHANGED <<pid, g_child_pid, g_parent_shutdown_request, i, fork_failed, killed,
                 childVars>>

\* kill(g_child_pid, SIGTERM)
Cleanup ==
  /\ pc = "cleanup"
  /\ children' = Kill(g_child_pid)
  /\ pc' = "poll"
  /\ UNCHANGED <<pid, g_child_pid, g_parent_shutdown_request, i, fork_failed, killed, signals>>

\* kill(c, 0) == 0: the process exists, if only as a zombie.
Exists(c) == children[c].phase # "reaped"

Poll ==
  /\ pc = "poll"
  /\ i < MaxPolls
  /\ Exists(g_child_pid)
  /\ i' = i + 1
  /\ UNCHANGED <<pc, pid, g_child_pid, g_parent_shutdown_request, fork_failed, killed,
                 childVars>>

\* Mutant of ForceKill: no SIGKILL.
NoForceKill ==
  /\ pc = "poll"
  /\ i = MaxPolls \/ ~Exists(g_child_pid)
  /\ pc' = "reap"
  /\ UNCHANGED <<pid, g_child_pid, g_parent_shutdown_request, i, fork_failed, killed,
                 childVars>>

\* Leave the wait; SIGKILL if the process exists.
ForceKill ==
  /\ pc = "poll"
  /\ i = MaxPolls \/ ~Exists(g_child_pid)
  /\ pc' = "reap"
  /\ \/ /\ Exists(g_child_pid)
        /\ killed' = <<children[g_child_pid]>>
        /\ children' = [children EXCEPT ![g_child_pid].phase = "zombie",
                          ![g_child_pid].status = IF Alive(g_child_pid) THEN "signal" ELSE @]
     \/ /\ ~Exists(g_child_pid)
        /\ UNCHANGED <<killed, children>>
  /\ UNCHANGED <<pid, g_child_pid, g_parent_shutdown_request, i, fork_failed, signals>>

\* waitpid(g_child_pid) blocks until the child has ended; a child that was
\* reaped before makes it fail at once.
Reap ==
  /\ pc = "reap"
  /\ ~Alive(g_child_pid)
  /\ children' = Reaped(g_child_pid)
  /\ pc' = "returned"
  /\ UNCHANGED <<pid, g_child_pid, g_parent_shutdown_request, i, fork_failed, killed, signals>>

main ==
  \/ Fork \/ ForkFails \/ RecordChild
  \/ Watch \/ StillRunning \/ ChildTerminated \/ Relaunch
  \/ Cleanup \/ Poll \/ ForceKill \/ Reap

Returned == pc = "returned" /\ UNCHANGED vars

Next ==
  \/ main
  \/ SignalParent
  \/ \E c \in Pids :
       \/ SignalChild(c)
       \/ ResetHandlers(c) \/ InstallHandlers(c)
       \/ AppFails(c) \/ AppReturns(c) \/ Crash(c)
  \/ Returned

\* The parent is scheduled.  Nothing is assumed of the children: they may hang
\* in any phase and ignore every signal but SIGKILL.
Spec == Init /\ [][Next]_vars /\ WF_vars(main)

-----------------------------------------------------------------------------
Child == [phase : {"inherited", "default", "app", "stopping", "zombie", "reaped"},
          status : {"none", "success", "failure", "signal"}]

(* Types; g_child_pid is the last child, or until it is recorded the one    *)
(* before it; main never watches or forks with the -1 of a failed fork, and *)
(* the cleanup never starts without a child.                                *)
TypeOK ==
  /\ pc \in {"fork", "forked", "watch", "wait", "relaunch", "cleanup", "poll", "reap",
             "returned"}
  /\ children \in Seq(Child) /\ Len(children) <= MaxChildren
  /\ pid = IF fork_failed THEN -1 ELSE Len(children)
  /\ fork_failed => pc \in {"cleanup", "poll", "reap", "returned"}
  /\ g_child_pid = IF pc = "forked" THEN Len(children) - 1 ELSE Len(children)
  /\ g_parent_shutdown_request \in BOOLEAN
  /\ i \in 0..MaxPolls
  /\ fork_failed \in BOOLEAN
  /\ killed \in Seq(Child) /\ Len(killed) <= 1
  /\ signals \in 0..MaxSignals
  /\ pc \in {"cleanup", "poll", "reap"} => g_child_pid > 0

(* A child is relaunched only when the one before it has ended and is       *)
(* reaped, so two of them never read the same streams, and main returns     *)
(* with no child running or left as a zombie, whenever the signals came.    *)
ChildrenAccountedFor ==
  \A c \in Pids : children[c].phase # "reaped" => c = Len(children) /\ pc # "returned"

(* A shutdown request ends the supervisor although a signal may reach the   *)
(* child before it has a handler, be swallowed by the inherited one, or the *)
(* child may hang: the kill at the end does not depend on the child.        *)
ShutdownEnds == g_parent_shutdown_request ~> (pc = "returned")

(* "Restarts it on failure": a child that crashed or failed is followed by  *)
(* another one, unless a shutdown is requested or fork fails.               *)
FailureIsRelaunched ==
  \A c \in 1..MaxChildren :
    (c \in Pids /\ children[c].phase = "zombie" /\ children[c].status \in {"failure", "signal"})
      ~> (Len(children) > c \/ g_parent_shutdown_request \/ fork_failed)

(* What the comments of the cleanup promise: "Wait up to 5 seconds for      *)
(* graceful shutdown" and "Force kill if still alive".  SIGKILL is never    *)
(* sent to a child that has shut down gracefully and ended.                 *)
GracefulChildNotKilled == \A k \in DOMAIN killed : killed[k].status # "success"
=============================================================================
