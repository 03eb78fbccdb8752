\* Three decisions, a crash or a rotated log, one challenge and its ruling.
SPECIFICATION AnchorsFairSpec
CONSTANTS
  MaxDecisions = 3
  MaxUpsets = 1
  MaxChallenges = 1
INVARIANTS
  NoSilentGap
  ClaimsAreChallengeable
  OnlyClaimsAreAccused
PROPERTIES
  EveryDecisionIsAnchored
CHECK_DEADLOCK FALSE
