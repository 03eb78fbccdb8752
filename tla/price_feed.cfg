\* Three reporters, two of them honest, one round, a clock to 2.
SPECIFICATION FeedSpec
CONSTANTS
  r1 = r1
  r2 = r2
  r3 = r3
  Reporters <- MCReporters
  Honest <- MCHonest
  HonestPrices <- MCHonestPrices
  OtherPrices <- MCOtherPrices
  Ages <- MCAges
  MaxReporters = 3
  InitialQuorum = 2
  MaxNow = 2
  MaxRounds = 1
INVARIANTS
  BooksAgree
  FreshRounds
  PivotIsBounded
PROPERTIES
  QuorumStaysReachable
CHECK_DEADLOCK FALSE
