-------------------------- MODULE SupervisorProofs --------------------------
(***************************************************************************)
(* Proofs about Supervisor, for any number of launches and signals and any *)
(* time the cleanup waits: whenever children crash and signals arrive,     *)
(* there is one child at a time and none is left behind.                   *)
(***************************************************************************)
EXTENDS Supervisor, SequenceTheorems, TLAPS

\* Only the last child may be there, and none is when the parent forks, is
\* about to, or has returned.
OnlyLastChild ==
  /\ \A c \in Pids : children[c].phase # "reaped" => c = Len(children)
  /\ pc \in {"fork", "relaunch", "returned"} => \A c \in Pids : children[c].phase = "reaped"
  /\ pc \notin {"fork", "returned"} => Len(children) > 0

\* The inductive invariant.
IInv == TypeOK /\ OnlyLastChild

\* What neither a signal nor a child changes.
others == <<pid, g_child_pid, i, fork_failed>>

(* The invariant holds before the first fork.                               *)
LEMMA Initially == Init => IInv
<1> SUFFICES ASSUME Init PROVE IInv
  OBVIOUS
<1>1. /\ children \in Seq(Child) /\ Len(children) = 0 /\ Pids = {}
      /\ killed \in Seq(Child) /\ Len(killed) = 0
  BY EmptySeq DEF Init, Pids
<1>2. TypeOK
  <2>1. i \in 0..MaxPolls /\ signals \in 0..MaxSignals /\ Len(children) <= MaxChildren
        /\ Len(killed) <= 1 /\ pid = Len(children) /\ g_child_pid = pid
    BY <1>1, BoundsNat DEF BoundsNat, Init
  <2>2. g_parent_shutdown_request \in BOOLEAN /\ fork_failed \in BOOLEAN
    BY DEF Init
  <2> QED
    BY <1>1, <2>1, <2>2 DEF Init, TypeOK
<1>3. OnlyLastChild
  BY <1>1 DEF Init, OnlyLastChild
<1> QED
  BY <1>2, <1>3 DEF IInv

(* A step that changes one child, by a signal, a crash or the child's own   *)
(* progress, preserves the invariant: a reaped child stays reaped.  The     *)
(* parent may move on in its cleanup meanwhile.                             *)
LEMMA ChildChanges ==
  ASSUME IInv, NEW c \in Pids, NEW child \in Child,
         children[c].phase = "reaped" => child.phase = "reaped",
         children' = [children EXCEPT ![c] = child],
         signals' \in 0..MaxSignals, g_parent_shutdown_request' \in BOOLEAN,
         killed' \in Seq(Child), Len(killed') <= 1,
         pc' = pc \/ (pc' \in {"poll", "reap"} /\ pc \in {"cleanup", "poll"}),
         UNCHANGED others
  PROVE  IInv'
<1>1. c \in 1..Len(children) /\ children \in Seq(Child)
  BY LenProperties DEF IInv, TypeOK, Pids
<1>2. /\ children' \in Seq(Child) /\ Len(children') = Len(children)
      /\ Pids' = Pids
      /\ \A d \in Pids : children'[d] = IF d = c THEN child ELSE children[d]
  BY <1>1, ExceptSeq, LenProperties DEF Pids
<1>3. TypeOK'
  BY <1>2 DEF IInv, TypeOK, others
<1>4. OnlyLastChild'
  BY <1>2 DEF IInv, OnlyLastChild, others
<1> QED
  BY <1>3, <1>4 DEF IInv

(* So does waiting for the last child, wherever the parent goes then.       *)
LEMMA LastReaped ==
  ASSUME IInv, Len(children) > 0, NEW child \in Child, child.phase = "reaped",
         children' = [children EXCEPT ![Len(children)] = child],
         \/ pc = "wait" /\ pc' \in {"cleanup", "relaunch"}
         \/ pc = "reap" /\ pc' = "returned",
         UNCHANGED <<others, killed, signals, g_parent_shutdown_request>>
  PROVE  IInv'
<1>1. Len(children) \in 1..Len(children) /\ children \in Seq(Child)
  BY LenProperties DEF IInv, TypeOK
<1>2. /\ children' \in Seq(Child) /\ Len(children') = Len(children)
      /\ Pids' = Pids /\ Pids = 1..Len(children)
      /\ \A d \in Pids : children'[d] = IF d = Len(children) THEN child ELSE children[d]
  BY <1>1, ExceptSeq, LenProperties DEF Pids
<1>3. TypeOK'
  BY <1>2 DEF IInv, TypeOK, others
<1>4. OnlyLastChild'
  BY <1>2 DEF IInv, OnlyLastChild
<1> QED
  BY <1>3, <1>4 DEF IInv

(* Reaping is a change of one child.                                        *)
LEMMA ReapedChild ==
  ASSUME NEW c \in Pids, children[c] \in Child
  PROVE  \E child \in Child :
           child.phase = "reaped" /\ Reaped(c) = [children EXCEPT ![c] = child]
<1> DEFINE child == [children[c] EXCEPT !.phase = "reaped"]
<1>1. child \in Child /\ child.phase = "reaped"
  BY DEF Child
<1>2. Reaped(c) = [children EXCEPT ![c] = child]
  BY DEF Reaped
<1> QED
  BY <1>1, <1>2

(* Delivering a signal changes one child and never revives a reaped one.    *)
LEMMA SignalKeepsChild ==
  ASSUME NEW c \in Pids, children \in Seq(Child)
  PROVE  \E child \in Child :
           /\ children[c].phase = "reaped" => child.phase = "reaped"
           /\ Signalled(children, c) = [children EXCEPT ![c] = child]
<1>1. children[c] \in Child
  BY LenProperties, ElementOfSeq DEF Pids
<1> DEFINE child == CASE children[c].phase = "default" -> [phase |-> "zombie", status |-> "signal"]
       [] children[c].phase = "app"     -> [children[c] EXCEPT !.phase = "stopping"]
       [] OTHER               -> children[c]
<1>2. child \in Child
  BY <1>1 DEF Child
<1>3. children[c].phase = "reaped" => child.phase = "reaped"
  BY <1>1 DEF Child
<1>4. Signalled(children, c) = [children EXCEPT ![c] = child]
  BY DEF Signalled
<1> QED
  BY <1>2, <1>3, <1>4

(* Every step of the parent, of a child and of the operating system         *)
(* preserves the invariant.                                                 *)
LEMMA Preserved == IInv /\ [Next]_vars => IInv'
<1> SUFFICES ASSUME IInv, [Next]_vars PROVE IInv'
  OBVIOUS
<1> USE BoundsNat DEF BoundsNat
<1>a. /\ children \in Seq(Child) /\ Pids = 1..Len(children) /\ Len(children) \in Nat
      /\ \A c \in Pids : children[c] \in Child
  BY LenProperties, ElementOfSeq DEF IInv, TypeOK, Pids
<1>b. signals \in 0..MaxSignals /\ (signals < MaxSignals => signals + 1 \in 0..MaxSignals)
  BY DEF IInv, TypeOK
<1>c. g_parent_shutdown_request \in BOOLEAN
  BY DEF IInv, TypeOK
<1>d. killed \in Seq(Child) /\ Len(killed) <= 1
  BY DEF IInv, TypeOK
<1>1. CASE Fork
  <2> DEFINE child == [phase |-> "inherited", status |-> "none"]
  <2>1. child \in Child
    BY DEF Child
  <2>2. /\ children' \in Seq(Child) /\ Len(children') = Len(children) + 1
        /\ Pids' = 1..(Len(children) + 1)
        /\ \A c \in Pids : children'[c] = children[c]
    BY <1>1, <1>a, <2>1, AppendProperties, LenProperties DEF Fork, Pids
  <2>3. TypeOK'
    BY <1>1, <1>a, <2>2 DEF Fork, IInv, TypeOK, Pids
  <2>4. OnlyLastChild'
    BY <1>1, <1>a, <2>2 DEF Fork, IInv, OnlyLastChild
  <2> QED
    BY <2>3, <2>4 DEF IInv
<1>2. CASE ForkFails
  <2>1. Len(children) = 0 <=> children = <<>>
    BY <1>a, EmptySeq
  <2> QED
    BY <1>2, <2>1, <1>a DEF ForkFails, IInv, TypeOK, OnlyLastChild, childVars, Pids
<1>3. CASE RecordChild
  BY <1>3 DEF RecordChild, IInv, TypeOK, OnlyLastChild, childVars, Pids
<1>4. CASE Watch
  BY <1>4, <1>a DEF Watch, IInv, TypeOK, OnlyLastChild, childVars, Pids
<1>5. CASE StillRunning
  BY <1>5, <1>a DEF StillRunning, IInv, TypeOK, OnlyLastChild, childVars, Pids
<1>6. CASE ChildTerminated
  <2>1. pid = Len(children) /\ pid \in Pids /\ g_child_pid = pid
    BY <1>6, <1>a DEF ChildTerminated, IInv, TypeOK, OnlyLastChild
  <2>2. PICK child \in Child : child.phase = "reaped" /\ Reaped(pid) = [children EXCEPT ![pid] = child]
    BY <1>a, <2>1, ReapedChild
  <2>3. children' = [children EXCEPT ![Len(children)] = child] /\ Len(children) > 0
    BY <1>6, <1>a, <2>1, <2>2 DEF ChildTerminated
  <2>4. pc = "wait" /\ pc' \in {"cleanup", "relaunch"}
    BY <1>6 DEF ChildTerminated
  <2>5. UNCHANGED <<others, killed, signals, g_parent_shutdown_request>>
    BY <1>6 DEF ChildTerminated, others
  <2> QED
    BY <2>2, <2>3, <2>4, <2>5, LastReaped
<1>7. CASE Relaunch
  BY <1>7, <1>a DEF Relaunch, IInv, TypeOK, OnlyLastChild, childVars, Pids
<1>8. CASE Cleanup
  <2>1. g_child_pid \in Pids
    BY <1>8, <1>a DEF Cleanup, IInv, TypeOK
  <2>2. PICK child \in Child :
          /\ children[g_child_pid].phase = "reaped" => child.phase = "reaped"
          /\ Signalled(children, g_child_pid) = [children EXCEPT ![g_child_pid] = child]
    BY <2>1, <1>a, SignalKeepsChild
  <2> QED
    BY <1>8, <2>1, <2>2, <1>b, <1>c, <1>d, ChildChanges DEF Cleanup, Kill, others
<1>9. CASE Poll
  BY <1>9, <1>a DEF Poll, IInv, TypeOK, OnlyLastChild, childVars, Pids
<1>10. CASE ForceKill
  <2>1. g_child_pid \in Pids
    BY <1>10, <1>a DEF ForceKill, IInv, TypeOK
  <2>2. CASE Exists(g_child_pid)
    <3> DEFINE child == [phase |-> "zombie",
                         status |-> IF Alive(g_child_pid) THEN "signal"
                                    ELSE children[g_child_pid].status]
    <3>1. child \in Child /\ children[g_child_pid] \in Child
      BY <2>1, <1>a DEF Child
    <3>2. children' = [children EXCEPT ![g_child_pid] = child]
      BY <1>10, <2>1, <2>2, <1>a, <3>1 DEF ForceKill, Child
    <3>3. killed' \in Seq(Child) /\ Len(killed') <= 1
      <4>1. killed' = <<children[g_child_pid]>>
        BY <1>10, <2>2 DEF ForceKill
      <4> QED
        BY <3>1, <4>1
    <3> QED
      BY <1>10, <2>1, <2>2, <3>1, <3>2, <3>3, <1>b, <1>c, <1>d, ChildChanges DEF ForceKill, Exists, others
  <2>3. CASE ~Exists(g_child_pid)
    BY <1>10, <2>1, <2>3, <1>a DEF ForceKill, IInv, TypeOK, OnlyLastChild, Pids
  <2> QED
    BY <2>2, <2>3
<1>11. CASE Reap
  <2>1. g_child_pid = Len(children) /\ g_child_pid \in Pids
    BY <1>11, <1>a DEF Reap, IInv, TypeOK, OnlyLastChild
  <2>2. PICK child \in Child :
          /\ child.phase = "reaped"
          /\ Reaped(g_child_pid) = [children EXCEPT ![g_child_pid] = child]
    BY <1>a, <2>1, ReapedChild
  <2>3. children' = [children EXCEPT ![Len(children)] = child] /\ Len(children) > 0
    BY <1>11, <1>a, <2>1, <2>2 DEF Reap
  <2>4. pc = "reap" /\ pc' = "returned"
    BY <1>11 DEF Reap
  <2>5. UNCHANGED <<others, killed, signals, g_parent_shutdown_request>>
    BY <1>11 DEF Reap, others
  <2> QED
    BY <2>2, <2>3, <2>4, <2>5, LastReaped
<1>12. CASE SignalParent
  <2>1. CASE g_child_pid \in Pids
    <3>1. PICK child \in Child :
            /\ children[g_child_pid].phase = "reaped" => child.phase = "reaped"
            /\ Signalled(children, g_child_pid) = [children EXCEPT ![g_child_pid] = child]
      BY <2>1, <1>a, SignalKeepsChild
    <3> QED
      BY <1>12, <2>1, <3>1, <1>b, <1>d, ChildChanges DEF SignalParent, Kill, others
  <2>2. CASE g_child_pid \notin Pids
    BY <1>12, <2>2, <1>b DEF SignalParent, Kill, IInv, TypeOK, OnlyLastChild, Pids
  <2> QED
    BY <2>1, <2>2
<1>13. ASSUME NEW c \in Pids, SignalChild(c) PROVE IInv'
  <2>1. PICK child \in Child :
          /\ children[c].phase = "reaped" => child.phase = "reaped"
          /\ Signalled(children, c) = [children EXCEPT ![c] = child]
    BY <1>a, SignalKeepsChild
  <2> QED
    BY <1>13, <2>1, <1>b, <1>c, <1>d, ChildChanges DEF SignalChild, others
<1>14. ASSUME NEW c \in Pids,
              ResetHandlers(c) \/ InstallHandlers(c) \/ AppFails(c) \/ AppReturns(c) \/ Crash(c)
       PROVE  IInv'
  <2>1. PICK child \in Child :
          /\ children[c].phase # "reaped"
          /\ ChildStep(c, children[c].phase, child)
    BY <1>14 DEF ResetHandlers, InstallHandlers, AppFails, AppReturns, Crash, ChildStep,
                 Alive, Child
  <2> QED
    BY <2>1, <1>b, <1>c, <1>d, ChildChanges DEF ChildStep, others
<1>15. CASE UNCHANGED vars
  BY <1>15 DEF vars, childVars, IInv, TypeOK, OnlyLastChild, Pids
<1> QED
  BY <1>1, <1>2, <1>3, <1>4, <1>5, <1>6, <1>7, <1>8, <1>9, <1>10, <1>11, <1>12, <1>13,
     <1>14, <1>15 DEF Next, main, Returned

(* The invariant holds throughout.                                          *)
LEMMA Invariant == Spec => []IInv
<1>1. Init => IInv
  BY Initially
<1>2. IInv /\ [Next]_vars => IInv'
  BY Preserved
<1> QED
  BY <1>1, <1>2, PTL DEF Spec

(* The variables of main keep their types; g_child_pid is the last child    *)
(* but for the moment after a fork, main never watches the -1 of a failed   *)
(* fork, and it never cleans up without a child.                            *)
THEOREM TypeCorrect == Spec => []TypeOK
<1>1. IInv => TypeOK
  BY DEF IInv
<1> QED
  BY <1>1, Invariant, PTL

(* However often the child fails and whenever a signal arrives, main forks  *)
(* only when the child before is reaped, and returns only when all are.     *)
THEOREM NoChildLeft == Spec => []ChildrenAccountedFor
<1>1. IInv => ChildrenAccountedFor
  BY DEF IInv, OnlyLastChild, ChildrenAccountedFor
<1> QED
  BY <1>1, Invariant, PTL
=============================================================================
