--------------------------- MODULE MCDecisionAnchors ---------------------------
(* DecisionAnchors as it is: its constants are numbers.                    *)
EXTENDS DecisionAnchors
=============================================================================
