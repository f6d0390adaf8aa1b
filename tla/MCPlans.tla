------------------------------ MODULE MCPlans ------------------------------
(***************************************************************************)
(* The two orders of work side by side: the steps of a filmmaking plan,     *)
(* which the plan executor runs, and the chain of tasks of a production     *)
(* store.  The two share no state; a behaviour is one of them at work, the  *)
(* other resting.                                                          *)
(***************************************************************************)
EXTENDS MCPlanExecutor, MCProductionStore

VARIABLE part  \* the component at work

PlansInit ==
  /\ part \in {"steps", "tasks"}
  /\ PlanInit /\ Init
  /\ part = "tasks" => mode = CHOOSE m \in Modes : TRUE

PlansNext ==
  /\ part' = part
  /\ \/ part = "steps" /\ PlanNext /\ UNCHANGED vars
     \/ part = "tasks" /\ Next /\ UNCHANGED planVars

plansVars == <<part, planVars, vars>>

\* Only the plan's own command is sure to go on.
FairPlansSpec ==
  /\ PlansInit /\ [][PlansNext]_plansVars
  /\ WF_plansVars(part = "steps" /\ Command /\ UNCHANGED <<part, vars>>)
=============================================================================
