-------------------------- MODULE AtLeastOnceQueue --------------------------
(***************************************************************************)
(* What YapTaskQueue really promises its users: a persistent set of queues *)
(* from which actions are taken at least once, first in first out, until   *)
(* one attempt succeeds.  It does not promise that attempts exclude each   *)
(* other.                                                                  *)
(***************************************************************************)
EXTENDS Integers

CONSTANTS Action, Queue, QueueOf, Date, Leftover

VARIABLES
  store,    \* actions saved and not yet done
  attempts, \* open attempts at each action
  live,     \* the queues have been touched since the process started
  parked    \* queues whose user asked that they be left alone

vars == <<store, attempts, live, parked>>

In(q) == {a \in store : QueueOf[a] = q}
First(a) == a \in store /\ \A b \in In(QueueOf[a]) : Date[a] <= Date[b]
NobodyAt(q) == \A a \in Action : QueueOf[a] = q => attempts[a] = 0

Init ==
  /\ store \in SUBSET Leftover
  /\ attempts = [a \in Action |-> 0]
  /\ live = FALSE
  /\ parked = {}

Save(S) ==
  /\ S # {}
  /\ \A a \in S, b \in store : QueueOf[a] = QueueOf[b] => Date[b] < Date[a]
  /\ store' = store \cup S
  /\ live' = TRUE
  /\ UNCHANGED attempts

Delete(a) ==
  /\ a \in store
  /\ store' = store \ {a}
  /\ live' = TRUE
  /\ UNCHANGED attempts

\* An attempt begins only at the action that is first in its queue.
Begin(a) ==
  /\ First(a)
  /\ attempts' = [attempts EXCEPT ![a] = @ + 1]
  /\ UNCHANGED <<store, live>>

Fail(a) ==
  /\ attempts[a] > 0
  /\ attempts' = [attempts EXCEPT ![a] = @ - 1]
  /\ UNCHANGED <<store, live>>

\* Only the success of an attempt at it takes an action out of the store.
Succeed(a) ==
  /\ attempts[a] > 0
  /\ attempts' = [attempts EXCEPT ![a] = @ - 1]
  /\ store' = store \ {a}
  /\ live' = (live \/ a \in store)

Relaunch ==
  /\ attempts' = [a \in Action |-> 0]
  /\ live' = FALSE
  /\ UNCHANGED store

Step ==
  \/ \E S \in SUBSET Action : Save(S)
  \/ \E a \in Action : Delete(a) \/ Begin(a) \/ Fail(a) \/ Succeed(a)
  \/ Relaunch

\* With any step, or on its own, a queue may be set aside or taken up again.
Next ==
  /\ Step \/ UNCHANGED <<store, attempts, live>>
  /\ parked' \in SUBSET Queue

\* A queue nobody works at is attempted again, and attempts end.
BeginIdle(q) ==
  /\ live /\ NobodyAt(q) /\ q \notin parked
  /\ \E a \in In(q) : Begin(a)
  /\ parked' \in SUBSET Queue

End(a) == (Fail(a) \/ Succeed(a)) /\ parked' \in SUBSET Queue

Fairness ==
  /\ \A q \in Queue : WF_vars(BeginIdle(q))
  /\ \A a \in Action : WF_vars(End(a))

SafeSpec == Init /\ [][Next]_vars
Spec == SafeSpec /\ Fairness
=============================================================================
