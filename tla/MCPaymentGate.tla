----------------------------- MODULE MCPaymentGate -----------------------------
(* A small instance of PaymentGate for TLC.                               *)
EXTENDS PaymentGate, TLC

CONSTANTS p1, p2, blank, f1, r1, r2

MCTwoPayments == {p1, p2}
MCTwoFillings == {blank, f1}
MCSome == {p2}
MCRequests == {r1, r2}

RequestSymmetry == Permutations({r1, r2})
=============================================================================
