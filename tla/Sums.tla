-------------------------------- MODULE Sums --------------------------------
(* The sum of a column over some of its rows, as SQL's sum and Python's.    *)
EXTENDS Integers, Functions

SumOver(f, S) == FoldFunctionOnSet(+, 0, f, S)
=============================================================================
