----------------------------- MODULE MCSpending -----------------------------
(***************************************************************************)
(* What work is granted, side by side: money by the production store, and   *)
(* GPUs by the pool of a machine. The two share no state; a behaviour is    *)
(* one of them at work, the other resting.                                  *)
(***************************************************************************)
EXTENDS MCProductionStore, MCResourcePool

VARIABLE part  \* the component at work

SpendingInit == part \in {"money", "pool"} /\ Init /\ PoolInit

SpendingNext ==
  /\ part' = part
  /\ \/ part = "money" /\ Next /\ UNCHANGED poolVars
     \/ part = "pool" /\ PoolNext /\ UNCHANGED vars

SpendingSpec == SpendingInit /\ [][SpendingNext]_<<part, vars, poolVars>>
=============================================================================
