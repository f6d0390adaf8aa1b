-------------------------- MODULE BudgetAuthority --------------------------
(***************************************************************************)
(* What a production budget promises, independent of how a store keeps its *)
(* books: a charge is reserved at its worst case before any work is sent,  *)
(* it is replaced at most once by a bill not above the worst case, and     *)
(* nothing else frees money.  The commitments are sums over the charges    *)
(* themselves; there are no running totals that could drift.               *)
(***************************************************************************)
EXTENDS Integers, FiniteSets, Sums

CONSTANTS
  Charges,                 \* the charges that may ever be made
  Routes, ChargeRoute,     \* [Charges -> Routes]
  ChargeWorst,             \* [Charges -> Nat]
  ChargeFrames,            \* [Charges -> Nat]
  Total, Reserve, RouteCap, FrameCap

VARIABLES
  state,                   \* "open", "reserved" or "billed" for every charge
  bill                     \* the units of a billed charge

bvars == <<state, bill>>

Init ==
  /\ state = [ch \in Charges |-> "open"]
  /\ bill = [ch \in Charges |-> 0]

Taken == {ch \in Charges : state[ch] # "open"}

Units == [ch \in Charges |-> IF state[ch] = "billed" THEN bill[ch] ELSE ChargeWorst[ch]]

Committed(S) == SumOver(Units, S)

OnRoute(rt) == {ch \in Taken : ChargeRoute[ch] = rt}

FramesTaken == SumOver(ChargeFrames, Taken)

ReserveCharge(ch) ==
  /\ state[ch] = "open"
  /\ state' = [state EXCEPT ![ch] = "reserved"]
  /\ UNCHANGED bill
  /\ Committed(Taken) + ChargeWorst[ch] + Reserve <= Total
  /\ Committed(OnRoute(ChargeRoute[ch])) + ChargeWorst[ch] <= RouteCap[ChargeRoute[ch]]
  /\ FramesTaken + ChargeFrames[ch] <= FrameCap

BillCharge(ch) ==
  /\ state[ch] = "reserved"
  /\ \E units \in 0..ChargeWorst[ch] : bill' = [bill EXCEPT ![ch] = units]
  /\ state' = [state EXCEPT ![ch] = "billed"]

Next == \E ch \in Charges : ReserveCharge(ch) \/ BillCharge(ch)

Spec == Init /\ [][Next]_bvars
=============================================================================
