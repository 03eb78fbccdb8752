\* One mint, two tasks, one buy at a time, two events at the pool, one upset
\* (a crash, an operator's file or a drawdown).
SPECIFICATION FairSpec
CONSTANTS
  m1 = m1
  w1 = w1
  w2 = w2
  nobody = nobody
  Mints <- MCMints
  Workers <- MCWorkers
  Nobody <- nobody
  OneAtATime = TRUE
  MaxOpen = 1
  MaxBuys = 1
  MaxEvents = 2
  MaxUpsets = 1
  MaxSends = 1
  Wrap = 16
INVARIANTS
  CounterBalanced
  BuysWithinLimit
  BuyLimitHasACloser
PROPERTIES
  BuyLimitLifts
  FlagFollowsFile
CHECK_DEADLOCK FALSE
