SPECIFICATION FairSpec
CONSTANTS
  MaxMessage = 2
  Named = {1}
  Budget <- MCBudget
INVARIANTS TypeOK StoredOnce NothingMissed
PROPERTY EventuallyStored
CHECK_DEADLOCK FALSE
