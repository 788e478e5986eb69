SPECIFICATION Spec
CONSTANTS
  Action = {11, 12}
  Thread = {1}
  ThreadOf <- MCThreadOf
  Date <- MCDate
  Kind <- KindsOTR
  Autologin = {TRUE}
  Wordless = {{}}
  MaxCalls = 2
  Budget <- BudgetOTR
PROPERTY TimeoutIsOwn
CHECK_DEADLOCK FALSE
