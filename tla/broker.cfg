SPECIFICATION FairSpec
CONSTANTS
  Action = {11, 12}
  Queue = {1}
  QueueOf <- MCQueueOf
  Date <- MCDate
  Caller = {"client"}
  Outcomes = {"success", "retryNow", "retryLater", "retryManually"}
  Leftover = {11}
  Budget <- BudgetOnce
INVARIANTS TypeOK StateIsBacked NoStall DrainsOneAtATime
PROPERTIES EventuallyServed ImplementsFairQueue
CHECK_DEADLOCK FALSE
