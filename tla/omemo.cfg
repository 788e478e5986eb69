SPECIFICATION FairSpec
CONSTANTS
  Buddy = {1}
  Own = 0
  NoOne = none
  Device = {1, 2}
  Self = 2
  Message = {1}
  Recipients <- MCRecipients
  Lists <- MCLists
  Held <- MCHeld
  Budget <- MCBudget
INVARIANTS TypeOK WaitingIsEnded OnlyCrossingCrashes
PROPERTIES RemovedGetsNothing EventuallyCompleted
CHECK_DEADLOCK FALSE
