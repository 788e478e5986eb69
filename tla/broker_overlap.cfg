SPECIFICATION Spec
CONSTANTS
  Action = {11, 12}
  Queue = {1}
  QueueOf <- MCQueueOf
  Date <- MCDate
  Caller = {}
  Outcomes = {"success", "retryLater"}
  Leftover = {}
  Budget <- BudgetSaves2
INVARIANT OneAtATime
CHECK_DEADLOCK FALSE
