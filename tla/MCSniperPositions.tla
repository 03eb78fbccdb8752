-------------------------- MODULE MCSniperPositions --------------------------
(* A small instance of SniperPositions for TLC.                            *)
EXTENDS SniperPositions

CONSTANTS m1, w1, w2, nobody

MCMints == {m1}
MCWorkers == {w1, w2}
=============================================================================
