\* Two bonds, two threads and two challenges, zero stakes among them, and some
\* whose product with the pool saturates; bulk sweeps.
SPECIFICATION FairSpec
CONSTANTS
  d1 = d1
  d2 = d2
  t1 = t1
  t2 = t2
  alice = alice
  Digests <- MCTwoDigests
  Threads <- MCTwoThreads
  Challengers <- MCOneChallenger
  Deadlines <- MCOneDeadline
  Stakes <- MCStakes
  Pool = 4
  U64 = 11
  Window = 1
  FreshDigests = TRUE
  MaxTime = 1
  MaxChallenges = 2
INVARIANTS
  StakesConserved
  PoolFollowsSlash
  DecidedLeavesBook
PROPERTIES
  DoubtersAreMadeWhole
  StakesAreAwarded
