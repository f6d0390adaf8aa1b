---------------------------- MODULE ProcessGuard ----------------------------
(***************************************************************************)
(* One call of run_safe_subprocess (executors/subprocess_safety.py): a      *)
(* command runs with a tree of processes under it while the caller waits    *)
(* for its output, its end, a deadline, a cancellation or too much output,  *)
(* and then stops what is left. On POSIX the command leads a process group  *)
(* of its own; on Windows it is created inside a job object if one can be   *)
(* had, and else only the parent links of living processes lead to its     *)
(* descendants. The tree grows, exits, closes its pipes and leaves the      *)
(* group while it is being stopped.                                        *)
(***************************************************************************)
EXTENDS Integers, FiniteSets, Sequences

CONSTANTS
  Pids,       \* process identifiers of the tree; the command is Root
  Root,
  Hosts       \* the platforms and ways of the call that are explored

ASSUME GuardAssumption == Root \in Pids

VARIABLES
  host,       \* the platform and the way of capturing, fixed for a behaviour
  tree,       \* pid -> state, parent, group membership and whether it holds a pipe
  guard,      \* where the call is
  cause,      \* why the call stops the tree
  again,      \* the tree is terminated for the second time
  tracked,    \* the processes the termination knows of (Windows)
  flooded     \* more output than the capture limit was seen

guardVars == <<host, tree, guard, cause, again, tracked, flooded>>

Posix == host.platform = "posix"

Unborn == [state |-> "unborn", parent |-> Root, group |-> TRUE, pipe |-> FALSE]
Running == {p \in Pids : tree[p].state = "running"}
\* A process that has ended is seen by its pid until its parent has waited for it.
Visible == {p \in Pids : tree[p].state \in {"running", "zombie"}}

\* What becomes of a process that ends: the caller reaps the command alone,
\* and on Windows nothing is left of a process.
Ended(p) == IF Posix /\ p = Root THEN "zombie" ELSE "gone"
End(victims) ==
  [p \in Pids |-> IF p \in victims /\ p \in Running
                  THEN [tree[p] EXCEPT !.state = Ended(p), !.pipe = FALSE] ELSE tree[p]]
Reap == [tree EXCEPT ![Root].state = IF @ = "zombie" THEN "gone" ELSE @]

\* A snapshot of the system's processes: those reached from the command over
\* living parents. A child whose parent has ended is not reached.
RECURSIVE Reached(_)
Reached(known) ==
  LET more == {p \in Running \ known : tree[p].parent \in known} IN
    IF more = {} THEN known ELSE Reached(known \cup more)
Descendants == Reached({Root}) \ {Root}

PipesClosed == \A p \in Running : ~tree[p].pipe

-----------------------------------------------------------------------------
(* The tree itself. A child inherits the group and the pipes.              *)
Spawn(p, child) ==
  /\ p \in Running /\ tree[child].state = "unborn"
  /\ tree' = [tree EXCEPT ![child] = [tree[p] EXCEPT !.parent = p]]
  /\ UNCHANGED <<host, guard, cause, again, tracked, flooded>>

Exits(p) ==
  /\ p \in Running /\ tree' = End({p})
  /\ UNCHANGED <<host, guard, cause, again, tracked, flooded>>

ClosesPipe(p) ==
  /\ p \in Running /\ tree[p].pipe
  /\ tree' = [tree EXCEPT ![p].pipe = FALSE]
  /\ UNCHANGED <<host, guard, cause, again, tracked, flooded>>

\* setsid: a daemon leaves the group; the command itself leads it and cannot.
LeavesGroup(p) ==
  /\ Posix /\ p \in Running \ {Root} /\ tree[p].group
  /\ tree' = [tree EXCEPT ![p].group = FALSE]
  /\ UNCHANGED <<host, guard, cause, again, tracked, flooded>>

Floods ==
  /\ host.capture = "limited" /\ ~flooded /\ \E p \in Running : tree[p].pipe
  /\ flooded' = TRUE /\ UNCHANGED <<host, tree, guard, cause, again, tracked>>

Tree ==
  \/ \E p, child \in Pids : Spawn(p, child)
  \/ \E p \in Pids : Exits(p) \/ ClosesPipe(p) \/ LeavesGroup(p)
  \/ Floods

-----------------------------------------------------------------------------
(* The call.                                                               *)
GuardInit ==
  /\ host \in Hosts
  /\ tree = [p \in Pids |-> Unborn]
  /\ guard = "start" /\ cause = "none" /\ again = FALSE /\ tracked = {} /\ flooded = FALSE

StartCommand ==
  /\ guard = "start"
  /\ \/ /\ tree' = [tree EXCEPT ![Root].state = "running", ![Root].pipe = TRUE]
        /\ guard' = "wait" /\ cause' = cause
     \/ tree' = tree /\ guard' = "over" /\ cause' = "not_started"
  /\ UNCHANGED <<host, again, tracked, flooded>>

Stop(why) ==
  /\ cause' = why /\ guard' = "terminate"
  /\ UNCHANGED <<host, tree, again, tracked, flooded>>

\* communicate: every pipe is closed and the command has been waited for.
CollectsAll ==
  /\ guard = "wait" /\ host.capture = "plain"
  /\ PipesClosed /\ Root \notin Running
  /\ tree' = Reap /\ guard' = "barrier" /\ cause' = "ended"
  /\ UNCHANGED <<host, again, tracked, flooded>>

\* The bounded capture: the command has ended and so have both drains.
DrainsAll ==
  /\ guard = "wait" /\ host.capture = "limited"
  /\ Root \notin Running /\ PipesClosed /\ ~flooded
  /\ tree' = Reap /\ guard' = "barrier" /\ cause' = "ended"
  /\ UNCHANGED <<host, again, tracked, flooded>>

TimesOut == guard = "wait" /\ (Root \in Running \/ ~PipesClosed) /\ Stop("timeout")
OutputLimit == guard = "wait" /\ host.capture = "limited" /\ flooded /\ Stop("limit")
\* The caller's check, an interrupt, or the start callback raises.
Cancelled == guard = "wait" /\ Stop("cancelled")

-----------------------------------------------------------------------------
(* terminate_process_tree.                                                 *)

\* POSIX: the group is asked to end; each member may, at once or later.
TerminateGroup ==
  /\ guard = "terminate" /\ Posix
  /\ guard' = "grace"
  /\ UNCHANGED <<host, tree, cause, again, tracked, flooded>>

\* After the grace period the group as it is now is killed, and the command
\* with it, which is then reaped.
KilledLeader == {Root}
Killed == {p \in Running : tree[p].group} \cup {Root}
KillGroup ==
  /\ guard = "grace"
  /\ tree' = [End(Killed) EXCEPT ![Root].state = "gone"]
  /\ guard' = "verify" /\ UNCHANGED <<host, cause, again, tracked, flooded>>

\* Windows: the tree is captured before anything is killed. A job that the
\* call still owns ends with everything in it.
CaptureTree ==
  /\ guard = "terminate" /\ ~Posix
  /\ tracked' = {Root} \cup Descendants
  /\ tree' = IF host.job THEN End(Running) ELSE tree
  /\ guard' = "taskkill" /\ UNCHANGED <<host, cause, again, flooded>>

\* taskkill ends the processes it found, or fails; one that was born
\* meanwhile is not among them.
TaskKill ==
  /\ guard = "taskkill"
  /\ \/ tree' = End(tracked) /\ guard' = "verify"
     \/ tree' = tree /\ guard' = "fallback"
  /\ UNCHANGED <<host, cause, again, tracked, flooded>>

\* The captured processes are killed one by one with those that appeared since.
KillTracked ==
  /\ guard = "fallback"
  /\ tracked' = tracked \cup Descendants /\ tree' = End(tracked')
  /\ guard' = "verify" /\ UNCHANGED <<host, cause, again, flooded>>

\* The verification looks for what it knows of until nothing is visible or
\* its time is up. The first termination leaves the judgement to the barrier.
Verify ==
  /\ guard = "verify"
  /\ tracked' = IF Posix THEN tracked ELSE tracked \cup Descendants
  /\ guard' = IF again THEN "survivors" ELSE "barrier"
  /\ UNCHANGED <<host, tree, cause, again, flooded>>

-----------------------------------------------------------------------------
(* The barrier at the end of every call.                                   *)

\* What can still be seen of the tree.
Remains == (IF Posix THEN {Root} ELSE {Root} \cup Descendants) \cap Visible

\* A job that is still owned is emptied, or its last handle closed, which
\* kills what is in it. Without one, what is visible is terminated once more.
Barrier ==
  /\ guard = "barrier"
  /\ IF host.job /\ cause = "ended"
     THEN tree' = End(Running) /\ guard' = "over" /\ again' = again
     ELSE /\ tree' = tree /\ again' = (Remains # {})
          /\ guard' = IF Remains # {} THEN "terminate" ELSE "over"
  /\ UNCHANGED <<host, cause, tracked, flooded>>

\* Survivors of the second termination raise an error of their own.
Survivors ==
  /\ guard = "survivors"
  /\ cause' = IF Remains # {} THEN "survivors" ELSE cause
  /\ guard' = "over"
  /\ UNCHANGED <<host, tree, again, tracked, flooded>>

Call ==
  \/ StartCommand \/ CollectsAll \/ DrainsAll \/ TimesOut \/ OutputLimit \/ Cancelled
  \/ TerminateGroup \/ KillGroup \/ CaptureTree \/ TaskKill \/ KillTracked
  \/ Verify \/ Barrier \/ Survivors

GuardNext == Tree \/ Call

GuardSpec == GuardInit /\ [][GuardNext]_guardVars

-----------------------------------------------------------------------------
\* A call that stopped its command leaves nothing of it behind, whatever was
\* spawned, ended or orphaned while it was being stopped: on POSIX no member of
\* the command's group, in a job no process at all, and without a job nothing
\* that the command's living descendants lead to, unless the call raises the
\* cleanup error (subprocess_safety.py:543, 768). A daemon that has left the
\* group, and an orphan without a job, are beyond it.
StoppedTreeIsGone ==
  [][ guard' = "over" /\ guard # "over" /\ cause' \notin {"not_started", "survivors"}
      /\ (cause' = "ended" => ~Posix) =>
        \A p \in Running' :
          IF Posix THEN ~tree'[p].group
          ELSE ~host.job /\ p \notin {Root} \cup Descendants' ]_guardVars
=============================================================================
