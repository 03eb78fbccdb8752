----------------------------- MODULE MCSpendLedger -----------------------------
(* A small instance of SpendLedger for TLC.                                *)
EXTENDS SpendLedger, TLC

CONSTANTS p1, p2

MCProcesses == {p1, p2}

Either == Permutations(MCProcesses)

(* Two that fill the budget to the last unit, one too large for one spend, *)
(* and one the policy does not list.                                       *)
MCRequests ==
  {[units |-> 6, listed |-> TRUE], [units |-> 4, listed |-> TRUE],
   [units |-> 8, listed |-> TRUE], [units |-> 4, listed |-> FALSE]}
=============================================================================
