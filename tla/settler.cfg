\* Two bonds, two tasks, calls repeated, one transfer that reports an error.
SPECIFICATION SettlerFairSpec
CONSTANTS
  d1 = d1
  d2 = d2
  t1 = t1
  t2 = t2
  Digests <- MCDigests
  Tasks <- MCTasks
  Deadlines <- MCOneDeadline
  Window = 1
  U64 = 1000000
  Amount = 10
  Routing <- MCRouting
  MaxTime = 2
  MaxCalls = 2
  MaxFaults = 1
INVARIANTS
  OkMeansPaid
  PaidPerAttempt
PROPERTIES
  SweptIsPaid
\* Everything may be settled and every bound used up: the model stops there.
CHECK_DEADLOCK FALSE
