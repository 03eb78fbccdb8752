\* Two processes, four commands, two seconds.
SPECIFICATION Spec
CONSTANTS
  p1 = p1
  p2 = p2
  Processes <- MCProcesses
  Requests <- MCRequests
  PerTransaction = 7
  Budget = 10
  MaxTime = 1
  MaxCommands = 4
SYMMETRY Either
INVARIANTS
  LedgerAddsUp
  BudgetIsKept
  UnresolvedHoldsBudget
\* The commands run out.
CHECK_DEADLOCK FALSE
