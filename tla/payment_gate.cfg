\* Two payments, one of them uncollectible, each in two headers and one key in
\* common; two requests at a time and four in all, claims that are released and
\* forgotten, a restart.
SPECIFICATION Spec
CONSTANTS
  p1 = p1
  p2 = p2
  blank = blank
  f1 = f1
  r1 = r1
  r2 = r2
  Payments <- MCTwoPayments
  Fillings <- MCTwoFillings
  Blank = blank
  Uncollectible <- MCSome
  Requests <- MCRequests
  BlockLife = 2
  SpentTtl = 3
  Patience = 2
  MaxTime = 5
  MaxArrivals = 4
  MaxRestarts = 1
SYMMETRY RequestSymmetry
INVARIANTS
  OneHeaderOneAnswer
  AnsweredIsPaid
  WorkerHoldsClaim
\* The clock stops and the requests run out.
CHECK_DEADLOCK FALSE
