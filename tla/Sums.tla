-------------------------------- MODULE Sums --------------------------------
(***************************************************************************)
(* The sum of a function over a finite set, as the loops of the contracts  *)
(* add balances up.  It takes a function and not an operator, so that      *)
(* facts about it can be stated for every summand.                         *)
(***************************************************************************)
EXTENDS Integers, FiniteSets, FiniteSetsExt

SumOf(f, S) == MapThenSumSet(LAMBDA s : f[s], S)
=============================================================================
