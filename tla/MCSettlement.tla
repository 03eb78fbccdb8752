---------------------------- MODULE MCSettlement ----------------------------
(* A small instance of Settlement for TLC.                                *)
EXTENDS Settlement

CONSTANTS d1, d2, t1, driver

MCDigests == {d1, d2}
MCThreads == {t1}
MCDeadlines == {0, 1}
=============================================================================
