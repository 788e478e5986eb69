----------------------- MODULE MCMessageQueueHandler -----------------------
(* Small instances of MessageQueueHandler for TLC. *)
EXTENDS MessageQueueHandler

\* Actions 11, 12 belong to thread 1, 21, 22 to thread 2, dated by number.
MCThreadOf == [a \in Action |-> a \div 10]
MCDate == [a \in Action |-> a % 10]

MCBudget(delete, disconnect, session, overlap, any) ==
  [step \in EnvStep |-> CASE step = "delete" -> delete
                          [] step = "disconnect" -> disconnect
                          [] step = "session" -> session
                          [] step = "overlap" -> overlap
                          [] step = "any" -> any]

KindsBuddy  == [a \in Action |-> "addBuddy"]
KindsOTR    == [a \in Action |-> "OTR"]
KindsDirect == [a \in Action |-> IF a = 11 THEN "OTR" ELSE "OMEMO"]

\* A buddy (1), a room (2) and a buddy to be added (3).
KindsAll ==
  [a \in Action |-> CASE a = 11 -> "plaintext" [] a = 12 -> "OTR"
                      [] a = 21 -> "roomOMEMO" [] a = 22 -> "room"
                      [] OTHER -> "addBuddy"]

BudgetNone == MCBudget(0, 0, 0, 0, 0)
BudgetAll  == MCBudget(1, 1, 1, 1, 3)
BudgetOTR  == MCBudget(0, 0, 1, 0, 1)
BudgetLive == MCBudget(0, 1, 0, 0, 1)
=============================================================================
