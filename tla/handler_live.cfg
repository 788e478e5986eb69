SPECIFICATION FairSpec
CONSTANTS
  Action = {11, 12, 21, 22, 31}
  Thread = {1, 2, 3}
  ThreadOf <- MCThreadOf
  Date <- MCDate
  Kind <- KindsAll
  Autologin = {TRUE}
  Wordless = {{}, {12, 21}}
  MaxCalls = 2
  Budget <- BudgetLive
INVARIANT NoCallForgotten
PROPERTIES SentInOrder EventuallyCompleted
CHECK_DEADLOCK FALSE
