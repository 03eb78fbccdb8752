\* Two mints, so two vaults in one another's mints; two depositors; a fee on
\* any transfer or none; dates that are extended up to the longest lock.
SPECIFICATION FairSpec
CONSTANTS
  scema = scema
  wbtc = wbtc
  alice = alice
  bob = bob
  Mints <- MCMints
  Depositors <- MCDepositors
  Nonces = {0}
  Asks <- MCAsks
  LockSecs <- MCLockSecs
  Fees <- MCFees
  Pairs <- MCPairs
  MinLock = 1
  MaxLock = 2
  U64 = 4
  Purse = 2
  MaxTime = 3
  LastCommit = 1
  MaxDeposits <- MCMaxDeposits
  MaxDonated <- MCMaxDonated
INVARIANTS
  LedgerMatchesPositions
  VaultIsSolvent
PROPERTIES
  LockIsKept
  OnlyDepositorsAreRepaid
  EveryPositionComesBack
\* Once every position is withdrawn and the clock stops, nothing is left to do.
CHECK_DEADLOCK FALSE
