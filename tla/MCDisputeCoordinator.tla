------------------------- MODULE MCDisputeCoordinator -------------------------
(* A small instance of DisputeCoordinator for TLC.                        *)
EXTENDS DisputeCoordinator

CONSTANTS d1, d2, t1, t2, alice

MCTwoDigests == {d1, d2}
MCTwoThreads == {t1, t2}
MCOneChallenger == {alice}
MCOneDeadline == {1}
MCStakes == {0, 1, 3}
=============================================================================
