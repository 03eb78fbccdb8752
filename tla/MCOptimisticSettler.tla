------------------------ MODULE MCOptimisticSettler ------------------------
(* A small instance of OptimisticSettler for TLC.                         *)
EXTENDS OptimisticSettler

CONSTANTS d1, d2, t1, t2

MCDigests == {d1, d2}
MCTasks == {t1, t2}
MCOneDeadline == {1}

(* A bond of 10 in three shares and a zero one, with dust for the caller.  *)
MCRouting ==
  [s \in Shares |-> CASE s = "caller" -> 5500
                      [] s = "challengers" -> 2500
                      [] s = "insurance" -> 2000
                      [] OTHER -> 0]
=============================================================================
