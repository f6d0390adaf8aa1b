-------------------------- MODULE DependencyOrder --------------------------
(***************************************************************************)
(* What a production promises about the order of its tasks, independent of *)
(* attempts, counters and rows: work starts on accepted inputs, and an     *)
(* acceptance is withdrawn only together with everything built on it and   *)
(* only while none of that is under way.                                   *)
(***************************************************************************)
CONSTANTS Tasks, Parents

VARIABLE phase             \* "idle", "open" or "done" for every task

Init == phase = [t \in Tasks |-> "idle"]

InputsDone(t) == \A p \in Parents[t] : phase[p] = "done"

Start(t) ==
  /\ phase[t] = "idle" /\ InputsDone(t)
  /\ phase' = [phase EXCEPT ![t] = "open"]

Stop(t) ==
  /\ phase[t] = "open"
  /\ phase' = [phase EXCEPT ![t] = "idle"]

Complete(t) ==
  /\ phase[t] = "open"
  /\ phase' = [phase EXCEPT ![t] = "done"]

Withdraw(S) ==
  /\ \A t \in S : phase[t] # "open"
  /\ \A t \in Tasks : Parents[t] \cap S # {} => t \in S
  /\ phase' = [t \in Tasks |-> IF t \in S THEN "idle" ELSE phase[t]]

Next ==
  \/ \E t \in Tasks : Start(t) \/ Stop(t) \/ Complete(t)
  \/ \E S \in SUBSET Tasks : Withdraw(S)

Spec == Init /\ [][Next]_phase
=============================================================================
