\* Two digests, each opened once, a caller and a driver whose clock reads and
\* lock acquisitions interleave; a sweep decides both bonds, one or neither.
SPECIFICATION FairSpec
CONSTANTS
  d1 = d1
  d2 = d2
  t1 = t1
  driver = driver
  Digests <- MCDigests
  Threads <- MCThreads
  Driver <- driver
  Deadlines <- MCDeadlines
  Window = 1
  MaxTime = 2
  FreshDigests = TRUE
INVARIANTS
  AuditTrail
PROPERTIES
  KeepsPromise
  MaturityReached
