SPECIFICATION FairSpec
CONSTANTS
  Action = {11}
  Thread = {1}
  ThreadOf <- MCThreadOf
  Date <- MCDate
  Kind <- KindsBuddy
  Autologin = {TRUE}
  Wordless = {{}}
  MaxCalls = 1
  Budget <- BudgetNone
PROPERTY LoginWakesWaiters
CHECK_DEADLOCK FALSE
