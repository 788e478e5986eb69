------------------------- MODULE MCTaskQueueBroker -------------------------
(* Small instances of TaskQueueBroker for TLC. *)
EXTENDS TaskQueueBroker

\* Actions 11, 12 belong to queue 1 and 21, 22 to queue 2, dated by number.
MCQueueOf == [a \in Action |-> a \div 10]
MCDate == [a \in Action |-> a % 10]

MCBudget(save, delete, relaunch, restart) ==
  [step \in EnvStep |-> CASE step = "save" -> save
                          [] step = "delete" -> delete
                          [] step = "relaunch" -> relaunch
                          [] step = "restart" -> restart]

BudgetOnce   == MCBudget(1, 1, 1, 1)
BudgetSaves2 == MCBudget(2, 0, 0, 0)
=============================================================================
