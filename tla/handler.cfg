SPECIFICATION Spec
CONSTANTS
  Action = {11, 12}
  Thread = {1}
  ThreadOf <- MCThreadOf
  Date <- MCDate
  Kind <- KindsDirect
  Autologin = {TRUE, FALSE}
  Wordless = {{}, {11, 12}}
  MaxCalls = 2
  Budget <- BudgetAll
INVARIANTS TypeOK CompletedOnce NoCallForgotten SentOnce GivenUpIsNotSent
PROPERTY SentInOrder
CHECK_DEADLOCK FALSE
