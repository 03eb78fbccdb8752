---------------------------------- MODULE Sums ----------------------------------
(***************************************************************************)
(* The sum over a map or a sequence, as `.iter().map(..).sum()` has it.    *)
(***************************************************************************)
EXTENDS Integers, FiniteSetsExt

SumOf(f) == MapThenSumSet(LAMBDA x : f[x], DOMAIN f)
=============================================================================
