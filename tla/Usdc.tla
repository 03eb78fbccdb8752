--------------------------------- MODULE Usdc ---------------------------------
(* Amounts of micro-USDC: scemadex-sdk's Usdc, a u64.                      *)
EXTENDS Integers

CONSTANT U64    \* 2^64 in the code; a small number for TLC

ASSUME U64Assumption == U64 \in Nat \ {0}

Amounts == 0 .. U64 - 1

(* What saturating arithmetic makes of a result too large for a u64.       *)
Saturated(x) == IF x < U64 THEN x ELSE U64 - 1
=============================================================================
