------------------------ MODULE MCOmemoCoordinator ------------------------
(* A small instance of OmemoCoordinator for TLC. *)
EXTENDS OmemoCoordinator

\* A room that the buddy is in with two nicknames.
MCRecipients == [m \in Message |-> <<1, 1>>]

\* The buddy has a device or none.  The own list lacks the own device.
MCLists == [u \in User |-> IF u = Own THEN {{1}} ELSE {{}, {1}}]

\* Either the own device is known or that of the buddy.
MCHeld ==
  {[u \in User |-> IF u = Own THEN {Self} ELSE {}], [u \in User |-> IF u = Own THEN {} ELSE {1}]}

MCBudget == [step \in EnvStep |-> 1]
=============================================================================
