------------------------------- MODULE Totals -------------------------------
(***************************************************************************)
(* The sum of a function over a finite set: what reduce((sum, x) => sum +  *)
(* f(x), 0) and SUM return.  MapThenSumSet takes an operator, which a      *)
(* theorem cannot be instantiated with; of a function's sum it can.        *)
(***************************************************************************)
EXTENDS Integers, FiniteSets, FiniteSetsExt

SumOver(f, S) == MapThenSumSet(LAMBDA x : f[x], S)
=============================================================================
