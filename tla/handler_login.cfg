SPECIFICATION Spec
CONSTANTS
  Action = {11, 21}
  Thread = {1, 2}
  ThreadOf <- MCThreadOf
  Date <- MCDate
  Kind <- KindsBuddy
  Autologin = {TRUE}
  Wordless = {{}}
  MaxCalls = 2
  Budget <- BudgetNone
INVARIANT EveryCallHeld
CHECK_DEADLOCK FALSE
