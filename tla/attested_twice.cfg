\* The same daemon, without challengers.
SPECIFICATION AnchorsSpec
CONSTANTS
  MaxDecisions = 3
  MaxUpsets = 1
  MaxChallenges = 0
INVARIANTS
  NoDecisionTwice
CHECK_DEADLOCK FALSE
