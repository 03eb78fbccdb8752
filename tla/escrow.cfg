\* One address opened twice, a challenge by anybody, the agent and the payees
\* included, a stray transfer, terms the program accepts and refuses.
SPECIFICATION FairSpec
CONSTANTS
  b1 = b1
  ann = ann
  bob = bob
  cal = cal
  ina = ina
  lia = lia
  Bonds <- MCBonds
  Holders <- MCHolders
  Agent <- MCAgent
  Terms <- MCTerms
  Stakes <- MCStakes
  Destinations <- MCDestinations
  U64 = 1000000
  Purse = 7
  MaxTime = 5
  LastMark = 2
  MaxOpens = 2
  MaxStray = 1
INVARIANTS
  VaultBacksBond
  OutcomeIsEarned
PROPERTIES
  RightPartyIsMadeWhole
  EveryBondHasAWayOut
  KeepsPromise
\* Every bond may be settled and every bound used up: the model stops there.
CHECK_DEADLOCK FALSE
