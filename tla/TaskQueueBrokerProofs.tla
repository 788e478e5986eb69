----------------------- MODULE TaskQueueBrokerProofs -----------------------
(***************************************************************************)
(* Proofs about TaskQueueBroker for every choice of its constants: type    *)
(* correctness, that an entry of currentState never outlives what will     *)
(* remove it, that no queue stalls, and that a queue runs one action at a  *)
(* time while a single transaction has saved actions.                      *)
(***************************************************************************)
EXTENDS TaskQueueBroker, FiniteSetTheorems, TLAPS

\* Spending from the budget keeps its type.
LEMMA SpendType ==
  ASSUME TypeOK, NEW step \in EnvStep, Spend(step)
  PROVE  (budget \in [EnvStep -> Nat])'
BY DEF TypeOK, Spend

\* A commit that posts a notification keeps the types of what it touches.
LEMMA NotifyType ==
  ASSUME TypeOK, Notify
  PROVE  (notifications \in Nat)' /\ (changed \in BOOLEAN)'
BY DEF TypeOK, Notify

\* Queueing a block keeps the type of the workQueue.
LEMMA AppendType ==
  ASSUME TypeOK, NEW k \in {"scan", "check", "restart"}, NEW S \in SUBSET Queue,
         workQueue' = Append(workQueue, [kind |-> k, groups |-> S])
  PROVE  (workQueue \in Seq(Job))'
<1>1. [kind |-> k, groups |-> S] \in Job
  BY DEF Job
<1>2. QED
  BY <1>1 DEF TypeOK

\* The block at the head of the workQueue is a job over queues.
LEMMA HeadType ==
  ASSUME TypeOK, workQueue # <<>>
  PROVE  /\ Head(workQueue) \in Job
         /\ Head(workQueue).groups \in SUBSET Queue
         /\ Tail(workQueue) \in Seq(Job)
<1>1. workQueue \in Seq(Job) /\ Len(workQueue) > 0
  BY DEF TypeOK
<1>2. Head(workQueue) \in Job /\ Tail(workQueue) \in Seq(Job)
  BY <1>1
<1>3. QED
  BY <1>2 DEF Job

\* The states the broker writes are states.
LEMMA StateType ==
  ASSUME NEW a \in Action
  PROVE  /\ NoState \in QueueState
         /\ Processing(a) \in QueueState
         /\ Paused(a) \in QueueState
BY DEF NoState, Processing, Paused, QueueState

-----------------------------------------------------------------------------
\* Type correctness of the initial state.
LEMMA InitType == Init => TypeOK
<1> SUFFICES ASSUME Init PROVE TypeOK
  OBVIOUS
<1>1. db \subseteq Action /\ budget \in [EnvStep -> Nat]
  BY LeftoverType, BudgetType DEF Init
<1>2. queueState \in [Queue -> QueueState]
  BY DEF Init, QueueState
<1>3. workQueue \in Seq(Job)
  BY DEF Init
<1>4. /\ todo \in [Thread -> SUBSET Queue]
      /\ unpausing \in [Thread -> SUBSET Queue]
      /\ picked \in [Thread -> SUBSET Action]
  BY DEF Init, Nothing
<1>5. /\ running \in [Action -> Nat]
      /\ timers \in [Queue -> Nat]
      /\ rechecks \in [Queue -> Nat]
  BY DEF Init, Zero
<1>6. QED
  BY <1>1, <1>2, <1>3, <1>4, <1>5 DEF Init, TypeOK

\* Type correctness is preserved by every step.
LEMMA NextType == TypeOK /\ [Next]_vars => TypeOK'
<1> SUFFICES ASSUME TypeOK, [Next]_vars PROVE TypeOK'
  OBVIOUS
<1> USE QueueOfType
<1>1. CASE UNCHANGED vars
  BY <1>1 DEF vars, TypeOK
<1>2. ASSUME NEW S \in SUBSET Action, Save(S) PROVE TypeOK'
  <2>1. (budget \in [EnvStep -> Nat])'
    BY <1>2, SpendType DEF Save, EnvStep
  <2>2. (notifications \in Nat)' /\ (changed \in BOOLEAN)'
    BY <1>2, NotifyType DEF Save
  <2>3. (db \subseteq Action)'
    BY <1>2 DEF Save, TypeOK
  <2>4. QED
    BY <1>2, <2>1, <2>2, <2>3 DEF Save, TypeOK
<1>3. ASSUME NEW a \in Action, Delete(a) PROVE TypeOK'
  <2>1. (budget \in [EnvStep -> Nat])'
    BY <1>3, SpendType DEF Delete, EnvStep
  <2>2. (notifications \in Nat)' /\ (changed \in BOOLEAN)'
    BY <1>3, NotifyType DEF Delete
  <2>3. (db \subseteq Action)'
    BY <1>3 DEF Delete, TypeOK
  <2>4. QED
    BY <1>3, <2>1, <2>2, <2>3 DEF Delete, TypeOK
<1>4. CASE Relaunch
  <2>1. (budget \in [EnvStep -> Nat])' /\ (db \subseteq Action)'
    BY <1>4, SpendType DEF Relaunch, EnvStep, TypeOK
  <2>2. (queueState \in [Queue -> QueueState])' /\ (workQueue \in Seq(Job))'
    BY <1>4 DEF Relaunch, QueueState
  <2>3. /\ (todo \in [Thread -> SUBSET Queue])'
        /\ (unpausing \in [Thread -> SUBSET Queue])'
        /\ (picked \in [Thread -> SUBSET Action])'
    BY <1>4 DEF Relaunch, Nothing
  <2>4. /\ (running \in [Action -> Nat])'
        /\ (timers \in [Queue -> Nat])'
        /\ (rechecks \in [Queue -> Nat])'
    BY <1>4 DEF Relaunch, Zero
  <2>5. QED
    BY <1>4, <2>1, <2>2, <2>3, <2>4 DEF Relaunch, TypeOK
<1>5. ASSUME NEW t \in Thread, NEW q \in Queue, RestartQueues(t, q) PROVE TypeOK'
  <2>1. PausedIn({q}) \in SUBSET Queue /\ {q} \ PausedIn({q}) \in SUBSET Queue
    BY DEF PausedIn
  <2>2. QED
    BY <1>5, <2>1, SpendType DEF RestartQueues, RestartIfPaused, TypeOK, EnvStep
<1>6. CASE ReadGroups
  <2>1. Groups \in SUBSET Queue
    BY DEF Groups, TypeOK
  <2>2. (workQueue \in Seq(Job))'
    BY <1>6, <2>1, AppendType DEF ReadGroups
  <2>3. QED
    BY <1>6, <2>2 DEF ReadGroups, TypeOK
<1>7. CASE ScanGroups
  <2>1. (queueState \in [Queue -> QueueState])'
    BY <1>7 DEF ScanGroups, TypeOK, QueueState
  <2>2. QED
    BY <1>7, <2>1, HeadType DEF ScanGroups, TypeOK, Thread
<1>8. CASE TakeCheck
  BY <1>8, HeadType DEF TakeCheck, TypeOK, Thread
<1>9. CASE TakeRestart
  <2> DEFINE S == Head(workQueue).groups
  <2>1. PausedIn(S) \in SUBSET Queue /\ S \ PausedIn(S) \in SUBSET Queue
    BY <1>9, HeadType DEF PausedIn, TakeRestart
  <2>2. QED
    BY <1>9, <2>1, HeadType DEF TakeRestart, RestartIfPaused, TypeOK, Thread
<1>10. ASSUME NEW t \in Thread, NEW q \in Queue, Unpause(t, q) PROVE TypeOK'
  BY <1>10 DEF Unpause, TypeOK, QueueState
<1>11. ASSUME NEW t \in Thread, NEW q \in Queue, CheckQueue(t, q) PROVE TypeOK'
  <2>1. (queueState \in [Queue -> QueueState])'
    <3>1. CASE UNCHANGED queueState
      BY <3>1 DEF TypeOK
    <3>2. CASE queueState' = [queueState EXCEPT ![q] = NoState]
      BY <3>2 DEF TypeOK, QueueState
    <3>3. QED
      BY <1>11, <3>1, <3>2 DEF CheckQueue
  <2>2. (picked \in [Thread -> SUBSET Action])'
    <3>1. CASE UNCHANGED picked
      BY <3>1 DEF TypeOK
    <3>2. ASSUME NEW a \in db, NEW P \in SUBSET {a}, picked' = [picked EXCEPT ![t] = P]
          PROVE  (picked \in [Thread -> SUBSET Action])'
      BY <3>2 DEF TypeOK
    <3>3. QED
      BY <1>11, <3>1, <3>2 DEF CheckQueue
  <2>3. QED
    BY <1>11, <2>1, <2>2 DEF CheckQueue, TypeOK
<1>12. ASSUME NEW t \in Thread, NEW a \in Action, HandOver(t, a) PROVE TypeOK'
  BY <1>12, StateType DEF HandOver, TypeOK
<1>13. ASSUME NEW a \in Action, Succeed(a) PROVE TypeOK'
  <2>1. (notifications \in Nat)' /\ (changed \in BOOLEAN)'
    <3>1. CASE notifications' = notifications + 1 /\ changed' = TRUE
      BY <3>1 DEF TypeOK
    <3>2. CASE UNCHANGED <<notifications, changed>>
      BY <3>2 DEF TypeOK
    <3>3. QED
      BY <1>13, <3>1, <3>2, Zenon DEF Succeed, Notify
  <2>2. (queueState \in [Queue -> QueueState])'
    <3>1. queueState' = [queueState EXCEPT ![QueueOf[a]] = NoState]
      BY <1>13 DEF Succeed
    <3>2. QED
      BY <3>1 DEF TypeOK, QueueState
  <2>3. (running \in [Action -> Nat])' /\ (rechecks \in [Queue -> Nat])'
    BY <1>13 DEF Succeed, Return, TypeOK
  <2>4. QED
    BY <1>13, <2>1, <2>2, <2>3 DEF Succeed, TypeOK
<1>14. ASSUME NEW q \in Queue, Recheck(q) PROVE TypeOK'
  <2>1. (workQueue \in Seq(Job))'
    BY <1>14, AppendType DEF Recheck
  <2>2. QED
    BY <1>14, <2>1 DEF Recheck, TypeOK
<1>15. ASSUME NEW a \in Action, NEW t \in Thread, RetryNow(a, t) PROVE TypeOK'
  <2>1. {QueueOf[a]} \in SUBSET Queue
    OBVIOUS
  <2>2. QED
    BY <1>15, <2>1 DEF RetryNow, Return, TypeOK
<1>16. ASSUME NEW a \in Action, RetryLater(a) PROVE TypeOK'
  BY <1>16, StateType DEF RetryLater, Return, TypeOK
<1>17. ASSUME NEW a \in Action, RetryManually(a) PROVE TypeOK'
  BY <1>17, StateType DEF RetryManually, Return, TypeOK
<1>18. ASSUME NEW q \in Queue, TimerFires(q) PROVE TypeOK'
  <2>1. (workQueue \in Seq(Job))'
    BY <1>18, AppendType DEF TimerFires
  <2>2. QED
    BY <1>18, <2>1 DEF TimerFires, TypeOK
<1>19. QED
  BY <1>1, <1>2, <1>3, <1>4, <1>5, <1>6, <1>7, <1>8, <1>9, <1>10, <1>11,
     <1>12, <1>13, <1>14, <1>15, <1>16, <1>17, <1>18
     DEF Next, Environment, WorkStep, CheckerStep, Complete, Thread

\* Every reachable state of the broker is type correct.
THEOREM TypeCorrect == Spec => []TypeOK
BY InitType, NextType, PTL DEF Spec
-----------------------------------------------------------------------------
\* What queueing a block at the end of the workQueue does to what waits there.
LEMMA AppendJob ==
  ASSUME TypeOK, NEW k \in {"scan", "check", "restart"}, NEW S \in SUBSET Queue,
         workQueue' = Append(workQueue, [kind |-> k, groups |-> S])
  PROVE  /\ Len(workQueue') = Len(workQueue) + 1
         /\ Len(workQueue) \in Nat
         /\ \A i \in 1 .. Len(workQueue) : workQueue'[i] = workQueue[i]
         /\ workQueue'[Len(workQueue) + 1] = [kind |-> k, groups |-> S]
         /\ \A q : Queued(q) => Queued(q)'
         /\ \A q : RestartQueued(q) => RestartQueued(q)'
         /\ \A q \in S : Queued(q)'
         /\ k = "restart" => \A q \in S : RestartQueued(q)'
<1> DEFINE j == [kind |-> k, groups |-> S]
<1>1. j \in Job /\ j.kind = k /\ j.groups = S
  BY DEF Job
<1>2. workQueue \in Seq(Job) /\ Len(workQueue) \in Nat
  BY DEF TypeOK
<1> HIDE DEF j
<1>3. /\ Len(workQueue') = Len(workQueue) + 1
      /\ \A i \in 1 .. Len(workQueue) : workQueue'[i] = workQueue[i]
      /\ workQueue'[Len(workQueue) + 1] = j
  BY <1>1, <1>2 DEF j
<1>4. 1 .. Len(workQueue) \subseteq 1 .. Len(workQueue') /\ Len(workQueue) + 1 \in 1 .. Len(workQueue')
  BY <1>2, <1>3
<1>5. ASSUME NEW q, Queued(q) PROVE Queued(q)'
  BY <1>3, <1>4, <1>5 DEF Queued
<1>6. ASSUME NEW q, RestartQueued(q) PROVE RestartQueued(q)'
  BY <1>3, <1>4, <1>6 DEF RestartQueued
<1>7. ASSUME NEW q \in S PROVE Queued(q)' /\ (k = "restart" => RestartQueued(q)')
  BY <1>1, <1>3, <1>4 DEF Queued, RestartQueued
<1>8. QED
  BY <1>2, <1>3, <1>5, <1>6, <1>7 DEF j

\* What taking the block at the head does.
LEMMA TailJob ==
  ASSUME TypeOK, workQueue # <<>>, workQueue' = Tail(workQueue)
  PROVE  /\ Len(workQueue) \in Nat
         /\ Len(workQueue') = Len(workQueue) - 1
         /\ \A i \in 1 .. Len(workQueue') : workQueue'[i] = workQueue[i + 1]
         /\ \A q : Queued(q) => Queued(q)' \/ q \in Head(workQueue).groups
         /\ \A q : RestartQueued(q) =>
               \/ RestartQueued(q)'
               \/ Head(workQueue).kind = "restart" /\ q \in Head(workQueue).groups
<1>1. workQueue \in Seq(Job) /\ Len(workQueue) \in Nat /\ Len(workQueue) > 0
  BY DEF TypeOK
<1>2. /\ Len(workQueue') = Len(workQueue) - 1
      /\ \A i \in 1 .. Len(workQueue') : workQueue'[i] = workQueue[i + 1]
      /\ Head(workQueue) = workQueue[1]
  BY <1>1
<1>3. ASSUME NEW i \in 1 .. Len(workQueue)
      PROVE  i = 1 \/ (i - 1 \in 1 .. Len(workQueue') /\ workQueue'[i - 1] = workQueue[i])
  BY <1>1, <1>2
<1>4. ASSUME NEW q, Queued(q) PROVE Queued(q)' \/ q \in Head(workQueue).groups
  BY <1>2, <1>3, <1>4 DEF Queued
<1>5. ASSUME NEW q, RestartQueued(q)
      PROVE  \/ RestartQueued(q)'
             \/ Head(workQueue).kind = "restart" /\ q \in Head(workQueue).groups
  BY <1>2, <1>3, <1>5 DEF RestartQueued
<1>6. QED
  BY <1>1, <1>2, <1>4, <1>5

-----------------------------------------------------------------------------
\* How a step may change one entry of currentState.
LEMMA StateSteps ==
  ASSUME TypeOK, [Next]_vars, NEW q \in Queue
  PROVE  \/ queueState'[q] = queueState[q]
         \/ queueState'[q] = NoState
         \/ \E t \in Thread, a \in Action :
              HandOver(t, a) /\ QueueOf[a] = q /\ queueState'[q] = Processing(a)
         \/ \E a \in Action : /\ RetryLater(a) \/ RetryManually(a)
                              /\ QueueOf[a] = q /\ queueState'[q] = Paused(a)
<1> USE QueueOfType
<1>1. CASE UNCHANGED queueState
  BY <1>1
<1>2. CASE Relaunch
  BY <1>2 DEF Relaunch
<1>3. CASE ScanGroups
  BY <1>3 DEF ScanGroups
<1>4. ASSUME NEW t \in Thread, NEW p \in Queue, Unpause(t, p) \/ CheckQueue(t, p)
      PROVE  queueState'[q] = queueState[q] \/ queueState'[q] = NoState
  <2>1. UNCHANGED queueState \/ queueState' = [queueState EXCEPT ![p] = NoState]
    BY <1>4 DEF Unpause, CheckQueue
  <2>2. QED
    BY <2>1 DEF TypeOK
<1>5. ASSUME NEW t \in Thread, NEW a \in Action, HandOver(t, a)
      PROVE  \/ queueState'[q] = queueState[q]
             \/ QueueOf[a] = q /\ queueState'[q] = Processing(a)
  BY <1>5 DEF HandOver, TypeOK
<1>6. ASSUME NEW a \in Action, Succeed(a)
      PROVE  queueState'[q] = queueState[q] \/ queueState'[q] = NoState
  <2>1. queueState' = [queueState EXCEPT ![QueueOf[a]] = NoState]
    BY <1>6 DEF Succeed
  <2>2. QED
    BY <2>1 DEF TypeOK
<1>7. ASSUME NEW a \in Action, RetryLater(a) \/ RetryManually(a)
      PROVE  \/ queueState'[q] = queueState[q]
             \/ QueueOf[a] = q /\ queueState'[q] = Paused(a)
  <2>1. queueState' = [queueState EXCEPT ![QueueOf[a]] = Paused(a)]
    BY <1>7 DEF RetryLater, RetryManually
  <2>2. QED
    BY <2>1 DEF TypeOK
<1>8. \/ UNCHANGED queueState \/ Relaunch \/ ScanGroups
      \/ \E t \in Thread, p \in Queue : Unpause(t, p) \/ CheckQueue(t, p)
      \/ \E t \in Thread, a \in Action : HandOver(t, a)
      \/ \E a \in Action : Succeed(a) \/ RetryLater(a) \/ RetryManually(a)
  BY DEF Next, vars, Environment, WorkStep, CheckerStep, Complete, Thread,
         Save, Delete, RestartQueues, ReadGroups, TakeCheck, TakeRestart,
         RetryNow, Recheck, TimerFires
<1>9. QED
  BY <1>1, <1>2, <1>3, <1>4, <1>5, <1>6, <1>7, <1>8

\* An entry of currentState always names an action of its own queue.
LEMMA OwnItemStep == TypeOK /\ OwnItem /\ [Next]_vars => OwnItem'
<1> SUFFICES ASSUME TypeOK, OwnItem, [Next]_vars, NEW q \in Queue,
                    (queueState[q].mode # "none")'
             PROVE  (QueueOf[queueState[q].item] = q)'
  BY DEF OwnItem
<1>1. CASE queueState'[q] = queueState[q]
  BY <1>1 DEF OwnItem
<1>2. CASE queueState'[q] = NoState
  BY <1>2 DEF NoState
<1>3. ASSUME NEW a \in Action, QueueOf[a] = q,
             queueState'[q] = Processing(a) \/ queueState'[q] = Paused(a)
      PROVE  (QueueOf[queueState[q].item] = q)'
  BY <1>3 DEF Processing, Paused
<1>4. QED
  BY <1>1, <1>2, <1>3, StateSteps

-----------------------------------------------------------------------------
\* How a step may take away an open call of the handler: the process is killed,
\* or the call completes, each completion leaving its mark on currentState.
LEMMA RunningSteps ==
  ASSUME TypeOK, [Next]_vars, NEW a \in Action, running[a] > 0
  PROVE  \/ running'[a] > 0
         \/ queueState'[QueueOf[a]] = NoState
         \/ queueState'[QueueOf[a]] = Paused(a)
         \/ a \in abandoned'
<1> USE QueueOfType
<1>1. CASE UNCHANGED running
  BY <1>1
<1>2. CASE Relaunch
  BY <1>2 DEF Relaunch
<1>3. ASSUME NEW t \in Thread, NEW b \in Action, HandOver(t, b)
      PROVE  running'[a] > 0
  BY <1>3 DEF HandOver, TypeOK
<1>4. ASSUME NEW b \in Action, NEW o, Return(b, o), b # a
      PROVE  running'[a] > 0
  BY <1>4 DEF Return, TypeOK
<1>5. CASE Succeed(a)
  <2>1. queueState' = [queueState EXCEPT ![QueueOf[a]] = NoState]
    BY <1>5 DEF Succeed
  <2>2. QED
    BY <2>1 DEF TypeOK
<1>6. CASE RetryLater(a) \/ RetryManually(a)
  <2>1. queueState' = [queueState EXCEPT ![QueueOf[a]] = Paused(a)]
    BY <1>6 DEF RetryLater, RetryManually
  <2>2. QED
    BY <2>1 DEF TypeOK
<1>7. ASSUME NEW b \in Action, NEW t \in Thread, RetryNow(b, t)
      PROVE  running'[a] > 0 \/ a \in abandoned'
  <2>1. b # a => running'[a] > 0
    BY <1>4, <1>7 DEF RetryNow
  <2>2. b \in abandoned'
    BY <1>7 DEF RetryNow
  <2>3. QED
    BY <2>1, <2>2
<1>8. \/ UNCHANGED running \/ Relaunch
      \/ \E t \in Thread, b \in Action : HandOver(t, b) \/ RetryNow(b, t)
      \/ \E b \in Action : Succeed(b) \/ RetryLater(b) \/ RetryManually(b)
  BY DEF Next, vars, Environment, WorkStep, CheckerStep, Complete, Thread,
         Save, Delete, RestartQueues, ReadGroups, ScanGroups, TakeCheck,
         TakeRestart, Unpause, CheckQueue, Recheck, TimerFires
<1>9. ASSUME NEW b \in Action, Succeed(b) \/ RetryLater(b) \/ RetryManually(b)
      PROVE  \E o : Return(b, o)
  BY <1>9 DEF Succeed, RetryLater, RetryManually
<1>10. QED
  BY <1>1, <1>2, <1>3, <1>4, <1>5, <1>6, <1>7, <1>8, <1>9

\* What will end a pause without the caller's help.
PauseEnds(q) ==
  \/ timers[q] > 0
  \/ RestartQueued(q)
  \/ \E t \in Thread : q \in unpausing[t]

\* What ends a pause is passed on, from the timer to the workQueue to the
\* thread that clears the state, until the state is cleared.
LEMMA PauseEndsStep ==
  ASSUME TypeOK, [Next]_vars, NEW q \in Queue,
         queueState[q].mode = "paused", PauseEnds(q)
  PROVE  PauseEnds(q)' \/ queueState'[q] = NoState
<1> USE QueueOfType
<1>1. CASE UNCHANGED <<timers, workQueue, unpausing>>
  BY <1>1 DEF PauseEnds, RestartQueued
<1>2. CASE Relaunch
  BY <1>2 DEF Relaunch
<1>3. ASSUME NEW t \in Thread, NEW p \in Queue, RestartQueues(t, p)
      PROVE  PauseEnds(q)'
  <2>1. unpausing[t] = {} /\ UNCHANGED <<timers, workQueue>>
    BY <1>3 DEF RestartQueues, Idle
  <2>2. ASSUME NEW u \in Thread, q \in unpausing[u] PROVE q \in unpausing'[u]
    BY <1>3, <2>1, <2>2 DEF RestartQueues, RestartIfPaused, TypeOK
  <2>3. QED
    BY <2>1, <2>2 DEF PauseEnds, RestartQueued
<1>4. CASE ReadGroups \/ \E p \in Queue : Recheck(p)
  <2>1. UNCHANGED <<timers, unpausing>>
    BY <1>4 DEF ReadGroups, Recheck
  <2>2. CASE ReadGroups
    <3>1. Groups \in SUBSET Queue
      BY DEF Groups, TypeOK
    <3>2. RestartQueued(q) => RestartQueued(q)'
      BY <2>2, <3>1, AppendJob DEF ReadGroups
    <3>3. QED
      BY <2>1, <3>2 DEF PauseEnds
  <2>3. ASSUME NEW p \in Queue, Recheck(p) PROVE PauseEnds(q)'
    <3>1. RestartQueued(q) => RestartQueued(q)'
      BY <2>3, AppendJob DEF Recheck
    <3>2. QED
      BY <2>1, <3>1 DEF PauseEnds
  <2>4. QED
    BY <1>4, <2>2, <2>3
<1>5. CASE ScanGroups \/ TakeCheck
  <2>1. /\ UNCHANGED <<timers, unpausing>>
        /\ workQueue # <<>> /\ workQueue' = Tail(workQueue)
        /\ Head(workQueue).kind # "restart"
    BY <1>5 DEF ScanGroups, TakeCheck
  <2>2. RestartQueued(q) => RestartQueued(q)'
    BY <2>1, TailJob
  <2>3. QED
    BY <2>1, <2>2 DEF PauseEnds
<1>6. CASE TakeRestart
  <2> DEFINE S == Head(workQueue).groups
  <2>1. /\ UNCHANGED timers /\ unpausing["workQueue"] = {}
        /\ workQueue # <<>> /\ workQueue' = Tail(workQueue)
        /\ unpausing' = [unpausing EXCEPT !["workQueue"] = PausedIn(S)]
    BY <1>6 DEF TakeRestart, RestartIfPaused, Idle
  <2>2. "workQueue" \in Thread
    BY DEF Thread
  <2>3. RestartQueued(q) => RestartQueued(q)' \/ q \in S
    BY <2>1, TailJob
  <2>4. q \in S => q \in unpausing'["workQueue"]
    BY <2>1, <2>2 DEF PausedIn, TypeOK
  <2>5. ASSUME NEW u \in Thread, q \in unpausing[u] PROVE q \in unpausing'[u]
    BY <2>1, <2>5 DEF TypeOK
  <2>6. QED
    BY <2>1, <2>2, <2>3, <2>4, <2>5 DEF PauseEnds
<1>7. ASSUME NEW t \in Thread, NEW p \in Queue, Unpause(t, p)
      PROVE  PauseEnds(q)' \/ queueState'[q] = NoState
  <2>1. CASE p = q
    BY <1>7, <2>1 DEF Unpause, TypeOK
  <2>2. CASE p # q
    <3>1. ASSUME NEW u \in Thread, q \in unpausing[u] PROVE q \in unpausing'[u]
      BY <1>7, <2>2, <3>1 DEF Unpause, TypeOK
    <3>2. QED
      BY <1>7, <3>1 DEF Unpause, PauseEnds, RestartQueued
  <2>3. QED
    BY <2>1, <2>2
<1>8. ASSUME NEW a \in Action, RetryLater(a)
      PROVE  PauseEnds(q)'
  <2>1. timers[q] > 0 => timers'[q] > 0
    BY <1>8 DEF RetryLater, TypeOK
  <2>2. QED
    BY <1>8, <2>1 DEF RetryLater, PauseEnds, RestartQueued
<1>9. ASSUME NEW p \in Queue, TimerFires(p)
      PROVE  PauseEnds(q)'
  <2>1. workQueue' = Append(workQueue, [kind |-> "restart", groups |-> {p}])
    BY <1>9 DEF TimerFires
  <2>2. RestartQueued(q) => RestartQueued(q)'
    BY <2>1, AppendJob
  <2>3. RestartQueued(p)'
    BY <2>1, AppendJob
  <2>4. p # q => timers'[q] = timers[q]
    BY <1>9 DEF TimerFires, TypeOK
  <2>5. UNCHANGED unpausing
    BY <1>9 DEF TimerFires
  <2>6. QED
    BY <2>2, <2>3, <2>4, <2>5 DEF PauseEnds
<1>10. \/ UNCHANGED <<timers, workQueue, unpausing>> \/ Relaunch \/ ReadGroups
       \/ \E t \in Thread, p \in Queue : RestartQueues(t, p) \/ Unpause(t, p)
       \/ \E p \in Queue : Recheck(p) \/ TimerFires(p)
       \/ ScanGroups \/ TakeCheck \/ TakeRestart
       \/ \E a \in Action : RetryLater(a)
  BY DEF Next, vars, Environment, WorkStep, CheckerStep, Complete, Thread,
         Save, Delete, CheckQueue, HandOver, Succeed, RetryNow, RetryManually
<1>11. QED
  BY <1>1, <1>2, <1>3, <1>4, <1>5, <1>6, <1>7, <1>8, <1>9, <1>10

\* An action stays abandoned until it is handed over again.
LEMMA AbandonedSteps ==
  ASSUME TypeOK, [Next]_vars, NEW a \in abandoned, a \in Action
  PROVE  \/ a \in abandoned'
         \/ queueState'[QueueOf[a]] = NoState
         \/ \E t \in Thread : HandOver(t, a)
<1> USE QueueOfType
<1>1. CASE Relaunch
  BY <1>1 DEF Relaunch
<1>2. ASSUME NEW t \in Thread, NEW b \in Action, HandOver(t, b)
      PROVE  a \in abandoned' \/ b = a
  BY <1>2 DEF HandOver
<1>3. ASSUME NEW b \in Action,
             RetryManually(b) \/ \E t \in Thread : RetryNow(b, t)
      PROVE  a \in abandoned'
  BY <1>3 DEF RetryManually, RetryNow
<1>4. \/ UNCHANGED abandoned \/ Relaunch
      \/ \E t \in Thread, b \in Action : HandOver(t, b) \/ RetryNow(b, t)
      \/ \E b \in Action : RetryManually(b)
  BY DEF Next, vars, Environment, WorkStep, CheckerStep, Complete, Thread,
         Save, Delete, RestartQueues, ReadGroups, ScanGroups, TakeCheck,
         TakeRestart, Unpause, CheckQueue, Recheck, TimerFires, Succeed, RetryLater
<1>5. QED
  BY <1>1, <1>2, <1>3, <1>4

\* No step leaves an entry of currentState behind what would remove it.
LEMMA BackedStep == TypeOK /\ OwnItem /\ StateIsBacked /\ [Next]_vars => StateIsBacked'
<1> SUFFICES ASSUME TypeOK, OwnItem, StateIsBacked, [Next]_vars, NEW q \in Queue
             PROVE  /\ (queueState[q].mode = "processing" =>
                         \/ running[queueState[q].item] > 0
                         \/ queueState[q].item \in abandoned)'
                    /\ (queueState[q].mode = "paused" =>
                         PauseEnds(q) \/ queueState[q].item \in abandoned)'
  BY DEF StateIsBacked, PauseEnds
<1> USE QueueOfType
<1>1. CASE queueState'[q] = NoState
  BY <1>1 DEF NoState
<1>2. ASSUME queueState'[q] = queueState[q], queueState[q].mode = "processing",
             ~\E t \in Thread, a \in Action : HandOver(t, a) /\ QueueOf[a] = q
      PROVE  running'[queueState[q].item] > 0 \/ queueState[q].item \in abandoned'
  <2> DEFINE a == queueState[q].item
  <2>1. a \in Action /\ QueueOf[a] = q
    BY <1>2 DEF OwnItem, TypeOK, QueueState, NoState
  <2>2. running[a] > 0 \/ a \in abandoned
    BY <1>2 DEF StateIsBacked
  <2>3. queueState'[q] # Paused(a) /\ queueState'[q] # NoState
    BY <1>2 DEF Paused, NoState
  <2>4. QED
    BY <1>2, <2>1, <2>2, <2>3, RunningSteps, AbandonedSteps
<1>3. ASSUME queueState'[q] = queueState[q], queueState[q].mode = "paused",
             ~\E t \in Thread, a \in Action : HandOver(t, a) /\ QueueOf[a] = q
      PROVE  PauseEnds(q)' \/ queueState[q].item \in abandoned'
  <2> DEFINE a == queueState[q].item
  <2>1. a \in Action /\ QueueOf[a] = q
    BY <1>3 DEF OwnItem, TypeOK, QueueState, NoState
  <2>2. PauseEnds(q) \/ a \in abandoned
    BY <1>3 DEF StateIsBacked, PauseEnds
  <2>3. queueState'[q] # NoState
    BY <1>3 DEF NoState
  <2>4. CASE a \in abandoned
    BY <1>3, <2>1, <2>3, <2>4, AbandonedSteps
  <2>5. QED
    BY <1>3, <2>2, <2>3, <2>4, PauseEndsStep
<1>4. ASSUME NEW t \in Thread, NEW a \in Action, HandOver(t, a), QueueOf[a] = q
      PROVE  queueState'[q].mode = "processing" /\ running'[queueState'[q].item] > 0
  BY <1>4 DEF HandOver, Processing, TypeOK
<1>5. ASSUME NEW a \in Action, RetryLater(a) \/ RetryManually(a), QueueOf[a] = q,
             queueState'[q] = Paused(a)
      PROVE  /\ queueState'[q].mode = "paused"
             /\ PauseEnds(q)' \/ queueState'[q].item \in abandoned'
  <2>1. queueState'[q].mode = "paused" /\ queueState'[q].item = a
    BY <1>5 DEF Paused
  <2>2. CASE RetryLater(a)
    BY <2>1, <2>2, <1>5 DEF RetryLater, PauseEnds, TypeOK
  <2>3. CASE RetryManually(a)
    BY <2>1, <2>3 DEF RetryManually
  <2>4. QED
    BY <1>5, <2>1, <2>2, <2>3
<1>6. QED
  BY <1>1, <1>2, <1>3, <1>4, <1>5, StateSteps

\* OwnItem and StateIsBacked hold initially.
LEMMA InitBacked == Init => OwnItem /\ StateIsBacked
BY DEF Init, OwnItem, StateIsBacked, NoState

\* The broker never leaves a queue processing without an open call of the
\* handler, nor paused without what will restart it.
THEOREM EntriesAreBacked == Spec => []StateIsBacked
<1>1. Init => TypeOK /\ OwnItem /\ StateIsBacked
  BY InitType, InitBacked
<1>2. TypeOK /\ OwnItem /\ StateIsBacked /\ [Next]_vars
        => TypeOK' /\ OwnItem' /\ StateIsBacked'
  BY NextType, OwnItemStep, BackedStep
<1>3. QED
  BY <1>1, <1>2, PTL DEF Spec

-----------------------------------------------------------------------------
\* A step that changes what is stored posts a notification.
LEMMA ViewSteps ==
  ASSUME TypeOK, [Next]_vars, changed'
  PROVE  notifications' > 0 \/ (changed /\ UNCHANGED db)
<1>1. ASSUME NEW S, Save(S) PROVE notifications' > 0
  BY <1>1 DEF Save, Notify, TypeOK
<1>2. ASSUME NEW a, Delete(a) PROVE notifications' > 0
  BY <1>2 DEF Delete, Notify, TypeOK
<1>3. CASE Relaunch
  BY <1>3 DEF Relaunch
<1>4. ASSUME NEW a \in Action, Succeed(a)
      PROVE  notifications' > 0 \/ (changed /\ UNCHANGED db)
  <2>1. CASE a \in db
    BY <1>4, <2>1 DEF Succeed, Notify, TypeOK
  <2>2. CASE a \notin db
    <3>1. UNCHANGED <<notifications, changed>> /\ db' = db \ {a}
      BY <1>4, <2>2 DEF Succeed
    <3>2. QED
      BY <2>2, <3>1
  <2>3. QED
    BY <2>1, <2>2
<1>5. \/ UNCHANGED <<db, changed>> \/ Relaunch
      \/ \E S : Save(S)
      \/ \E a \in Action : Delete(a) \/ Succeed(a)
  BY DEF Next, vars, Environment, WorkStep, CheckerStep, Complete, Thread,
         RestartQueues, ReadGroups, ScanGroups, TakeCheck, TakeRestart,
         Unpause, CheckQueue, HandOver, RetryNow, RetryLater, RetryManually,
         Recheck, TimerFires
<1>6. QED
  BY <1>1, <1>2, <1>3, <1>4, <1>5

\* How a step changes the blocks on the workQueue and the posted notifications.
LEMMA QueueSteps ==
  ASSUME TypeOK, [Next]_vars
  PROVE  \/ Relaunch
         \/ notifications' > 0
         \/ UNCHANGED <<workQueue, notifications>>
         \/ ReadGroups
         \/ UNCHANGED notifications /\ \E q \in Queue, k \in {"check", "restart"} :
              workQueue' = Append(workQueue, [kind |-> k, groups |-> {q}])
         \/ UNCHANGED notifications /\ workQueue # <<>> /\ workQueue' = Tail(workQueue)
<1>1. ASSUME NEW S, Save(S) PROVE notifications' > 0
  BY <1>1 DEF Save, Notify, TypeOK
<1>2. ASSUME NEW a, Delete(a) PROVE notifications' > 0
  BY <1>2 DEF Delete, Notify, TypeOK
<1>3. ASSUME NEW a \in Action, Succeed(a)
      PROVE  notifications' > 0 \/ UNCHANGED <<workQueue, notifications>>
  BY <1>3 DEF Succeed, Notify, TypeOK
<1>4. ASSUME NEW q \in Queue, Recheck(q) \/ TimerFires(q)
      PROVE  UNCHANGED notifications /\ \E k \in {"check", "restart"} :
               workQueue' = Append(workQueue, [kind |-> k, groups |-> {q}])
  BY <1>4 DEF Recheck, TimerFires
<1>5. CASE ScanGroups \/ TakeCheck \/ TakeRestart
  BY <1>5 DEF ScanGroups, TakeCheck, TakeRestart
<1>6. \/ UNCHANGED <<workQueue, notifications>> \/ Relaunch \/ ReadGroups
      \/ \E S : Save(S)
      \/ \E a \in Action : Delete(a) \/ Succeed(a)
      \/ \E q \in Queue : Recheck(q) \/ TimerFires(q)
      \/ ScanGroups \/ TakeCheck \/ TakeRestart
  BY DEF Next, vars, Environment, WorkStep, CheckerStep, Complete, Thread,
         RestartQueues, Unpause, CheckQueue, HandOver, RetryNow, RetryLater,
         RetryManually
<1>7. QED
  BY <1>1, <1>2, <1>3, <1>4, <1>5, <1>6

\* A scan that misses a queue keeps being followed by a block that looks at it.
LEMMA MissedStep == TypeOK /\ NothingMissed /\ [Next]_vars => NothingMissed'
<1> DEFINE Missing(q, i) == workQueue[i].kind = "scan" /\ q \notin workQueue[i].groups
           Followed(q, i) == \E j \in i + 1 .. Len(workQueue) : q \in workQueue[j].groups
<1> SUFFICES ASSUME TypeOK, NothingMissed, [Next]_vars, changed',
                    NEW q \in Groups', NEW i \in 1 .. Len(workQueue'),
                    Missing(q, i)'
             PROVE  notifications' > 0 \/ Followed(q, i)'
  BY DEF NothingMissed
<1> SUFFICES ASSUME changed, UNCHANGED db, ~(notifications' > 0)
             PROVE  Followed(q, i)'
  BY ViewSteps
<1>1. q \in Groups /\ q \in Queue
  BY QueueOfType DEF Groups, TypeOK
<1>2. ASSUME NEW k \in 1 .. Len(workQueue), Missing(q, k)
      PROVE  notifications > 0 \/ Followed(q, k)
  BY <1>1, <1>2 DEF NothingMissed
<1>3. CASE Relaunch
  BY <1>3 DEF Relaunch
<1>4. CASE UNCHANGED <<workQueue, notifications>>
  BY <1>2, <1>4
<1>5. CASE ReadGroups
  <2>1. Groups \in SUBSET Queue
    BY QueueOfType DEF Groups, TypeOK
  <2>2. workQueue' = Append(workQueue, [kind |-> "scan", groups |-> Groups])
    BY <1>5 DEF ReadGroups
  <2>3. /\ Len(workQueue') = Len(workQueue) + 1 /\ Len(workQueue) \in Nat
        /\ workQueue'[Len(workQueue) + 1].groups = Groups
    BY <2>1, <2>2, AppendJob
  <2>4. i # Len(workQueue) + 1
    BY <1>1, <2>3
  <2>5. QED
    BY <1>1, <2>3, <2>4
<1>6. ASSUME UNCHANGED notifications, NEW p \in Queue, NEW k \in {"check", "restart"},
             workQueue' = Append(workQueue, [kind |-> k, groups |-> {p}])
      PROVE  Followed(q, i)'
  <2>1. /\ Len(workQueue') = Len(workQueue) + 1 /\ Len(workQueue) \in Nat
        /\ workQueue'[Len(workQueue) + 1].kind # "scan"
        /\ \A j \in 1 .. Len(workQueue) : workQueue'[j] = workQueue[j]
    BY <1>6, AppendJob
  <2>2. i \in 1 .. Len(workQueue) /\ workQueue'[i] = workQueue[i]
    BY <2>1
  <2>3. PICK j \in i + 1 .. Len(workQueue) : q \in workQueue[j].groups
    BY <1>2, <1>6, <2>2
  <2>4. workQueue'[j] = workQueue[j] /\ j \in i + 1 .. Len(workQueue')
    BY <2>1, <2>2
  <2>5. QED
    BY <2>3, <2>4
<1>7. CASE UNCHANGED notifications /\ workQueue # <<>> /\ workQueue' = Tail(workQueue)
  <2>1. /\ Len(workQueue') = Len(workQueue) - 1 /\ Len(workQueue) \in Nat
        /\ \A j \in 1 .. Len(workQueue') : workQueue'[j] = workQueue[j + 1]
    BY <1>7, TailJob
  <2>2. i + 1 \in 1 .. Len(workQueue) /\ workQueue'[i] = workQueue[i + 1]
    BY <2>1
  <2>3. PICK j \in i + 2 .. Len(workQueue) : q \in workQueue[j].groups
    BY <1>2, <1>7, <2>2
  <2>4. workQueue'[j - 1] = workQueue[j] /\ j - 1 \in i + 1 .. Len(workQueue')
    BY <2>1, <2>2
  <2>5. QED
    BY <2>3, <2>4
<1>8. QED
  BY <1>3, <1>4, <1>5, <1>6, <1>7, QueueSteps

-----------------------------------------------------------------------------
EntriesAttended ==
  \A q \in Queue : queueState[q].mode # "none" => Attended(q) \/ ParkedByHandler(q)

\* An entry of currentState is either going to be looked at again, or left
\* behind at the handler's wish.
LEMMA EntryAttended == TypeOK /\ OwnItem /\ StateIsBacked => EntriesAttended
<1> SUFFICES ASSUME TypeOK, OwnItem, StateIsBacked, NEW q \in Queue,
                    queueState[q].mode # "none"
             PROVE  Attended(q) \/ ParkedByHandler(q)
  BY DEF EntriesAttended
<1>1. queueState[q] \in [mode : {"processing", "paused"}, item : Action]
  BY DEF TypeOK, QueueState, NoState
<1>2. CASE queueState[q].mode = "processing"
  BY <1>1, <1>2 DEF StateIsBacked, OwnItem, Attended, ParkedByHandler
<1>3. CASE queueState[q].mode = "paused"
  <2>1. RestartQueued(q) => Queued(q)
    BY DEF RestartQueued, Queued
  <2>2. QED
    BY <1>3, <2>1 DEF StateIsBacked, Attended, ParkedByHandler
<1>4. QED
  BY <1>1, <1>2, <1>3

\* Whatever will look at a queue is passed on until it does, and then finds an
\* action to hand over or an entry of currentState that names the action.
LEMMA AttendedStep ==
  ASSUME TypeOK, [Next]_vars, NEW q \in Queue, q \in Groups, Attended(q),
         changed', UNCHANGED db, queueState'[q].mode = "none"
  PROVE  Attended(q)'
<1> USE QueueOfType
<1>1. CASE UNCHANGED vars
  BY <1>1 DEF vars, Attended, Queued
<1>2. ASSUME (\E S : Save(S)) \/ (\E a : Delete(a)) PROVE Attended(q)'
  BY <1>2 DEF Save, Delete, Notify, Attended, TypeOK
<1>3. CASE Relaunch
  BY <1>3 DEF Relaunch
<1>4. ASSUME NEW t \in Thread, NEW S \in SUBSET Queue, Idle(t), RestartIfPaused(t, S)
      PROVE  /\ q \in S => q \in todo'[t] \cup unpausing'[t]
             /\ \A u \in Thread : q \in todo[u] \cup unpausing[u]
                                   => q \in todo'[u] \cup unpausing'[u]
  BY <1>4 DEF Idle, RestartIfPaused, PausedIn, TypeOK
<1>5. ASSUME NEW t \in Thread, NEW p \in Queue, RestartQueues(t, p)
      PROVE  Attended(q)'
  <2>1. \A u \in Thread : q \in todo[u] \cup unpausing[u]
                           => q \in todo'[u] \cup unpausing'[u]
    BY <1>4, <1>5 DEF RestartQueues
  <2>2. QED
    BY <1>5, <2>1 DEF RestartQueues, Attended, Queued
<1>6. CASE ReadGroups
  <2>1. Groups \in SUBSET Queue
    BY DEF Groups, TypeOK
  <2>2. Queued(q)'
    BY <1>6, <2>1, AppendJob DEF ReadGroups
  <2>3. QED
    BY <2>2 DEF Attended
<1>7. CASE ScanGroups \/ TakeCheck
  <2> DEFINE S == Head(workQueue).groups
  <2>1. /\ workQueue # <<>> /\ workQueue' = Tail(workQueue)
        /\ todo' = [todo EXCEPT !["workQueue"] = S]
        /\ todo["workQueue"] = {}
        /\ UNCHANGED <<unpausing, picked, running, timers, rechecks, notifications>>
    BY <1>7 DEF ScanGroups, TakeCheck, Idle
  <2>2. "workQueue" \in Thread
    BY DEF Thread
  <2>3. q \in S => q \in todo'["workQueue"]
    BY <2>1, <2>2 DEF TypeOK
  <2>4. Queued(q) => Queued(q)' \/ q \in S
    BY <2>1, TailJob
  <2>5. \A u \in Thread : q \in todo[u] => q \in todo'[u]
    BY <2>1 DEF TypeOK
  <2> HIDE DEF S
  <2>6. QED
    BY <2>1, <2>2, <2>3, <2>4, <2>5 DEF Attended
<1>8. CASE TakeRestart
  <2> DEFINE S == Head(workQueue).groups
  <2>1. /\ workQueue # <<>> /\ workQueue' = Tail(workQueue)
        /\ Idle("workQueue") /\ RestartIfPaused("workQueue", S)
        /\ UNCHANGED <<picked, running, timers, rechecks, notifications>>
    BY <1>8 DEF TakeRestart
  <2>2. "workQueue" \in Thread /\ S \in SUBSET Queue
    BY <2>1, HeadType DEF Thread
  <2>3. Queued(q) => Queued(q)' \/ q \in S
    BY <2>1, TailJob
  <2> HIDE DEF S
  <2>4. /\ q \in S => q \in todo'["workQueue"] \cup unpausing'["workQueue"]
        /\ \A u \in Thread : q \in todo[u] \cup unpausing[u]
                              => q \in todo'[u] \cup unpausing'[u]
    BY <1>4, <2>1, <2>2
  <2>5. QED
    BY <2>1, <2>2, <2>3, <2>4 DEF Attended
<1>9. ASSUME NEW t \in Thread, NEW p \in Queue, Unpause(t, p)
      PROVE  Attended(q)'
  <2>1. \A u \in Thread : q \in todo[u] \cup unpausing[u]
                           => q \in todo'[u] \cup unpausing'[u]
    BY <1>9 DEF Unpause, TypeOK
  <2>2. QED
    BY <1>9, <2>1 DEF Unpause, Attended, Queued
<1>10. ASSUME NEW t \in Thread, NEW p \in Queue, CheckQueue(t, p)
       PROVE  Attended(q)'
  <2>1. CASE p = q
    <3>1. Stored(q) # {}
      BY DEF Groups, Stored
    <3>2. PICK a \in db : /\ QueueOf[a] = q
                          /\ picked' = [picked EXCEPT ![t] =
                               IF queueState[q] \in {Processing(a), Paused(a)}
                                 THEN {} ELSE {a}]
                          /\ UNCHANGED queueState
      BY <1>10, <2>1, <3>1 DEF CheckQueue, IsFirst, Stored
    <3>3. queueState[q] \notin {Processing(a), Paused(a)}
      BY <3>2 DEF Processing, Paused
    <3>4. a \in picked'[t]
      BY <3>2, <3>3 DEF TypeOK
    <3>5. QED
      BY <3>2, <3>4 DEF Attended
  <2>2. CASE p # q
    <3>1. \A u \in Thread : q \in todo[u] => q \in todo'[u]
      BY <1>10, <2>2 DEF CheckQueue, TypeOK
    <3>2. picked[t] = {}
      BY <1>10 DEF CheckQueue
    <3>3. \A u \in Thread : u # t => picked'[u] = picked[u]
      BY <1>10 DEF CheckQueue, TypeOK
    <3>4. \A u \in Thread : picked[u] \subseteq picked'[u]
      BY <3>2, <3>3
    <3>5. UNCHANGED <<workQueue, unpausing, running, timers, rechecks, notifications>>
      BY <1>10 DEF CheckQueue
    <3>6. QED
      BY <3>1, <3>4, <3>5 DEF Attended, Queued
  <2>3. QED
    BY <2>1, <2>2
<1>11. ASSUME NEW t \in Thread, NEW a \in Action, HandOver(t, a)
       PROVE  Attended(q)'
  <2>1. CASE QueueOf[a] = q
    BY <1>11, <2>1 DEF HandOver, Attended, TypeOK
  <2>2. CASE QueueOf[a] # q
    <3>1. \A u \in Thread : \A b \in picked[u] : b # a => b \in picked'[u]
      BY <1>11 DEF HandOver, TypeOK
    <3>2. \A b \in Action : b # a => running'[b] = running[b]
      BY <1>11 DEF HandOver, TypeOK
    <3>3. UNCHANGED <<workQueue, todo, unpausing, timers, rechecks, notifications>>
      BY <1>11 DEF HandOver
    <3>4. QED
      BY <2>2, <3>1, <3>2, <3>3 DEF Attended, Queued
  <2>3. QED
    BY <2>1, <2>2
<1>12. ASSUME NEW a \in Action, NEW o, Return(a, o)
       PROVE  \A b \in Action : b # a => running'[b] = running[b]
  BY <1>12 DEF Return, TypeOK
<1>13. ASSUME NEW a \in Action, Succeed(a) PROVE Attended(q)'
  <2>1. rechecks'[QueueOf[a]] > 0 /\ (rechecks[q] > 0 => rechecks'[q] > 0)
    BY <1>13 DEF Succeed, TypeOK
  <2>2. \A b \in Action : b # a => running'[b] = running[b]
    BY <1>12, <1>13 DEF Succeed
  <2>3. /\ notifications > 0 => notifications' > 0
        /\ UNCHANGED <<workQueue, todo, unpausing, picked, timers>>
    BY <1>13 DEF Succeed, Notify, TypeOK
  <2>4. QED
    BY <2>1, <2>2, <2>3 DEF Attended, Queued
<1>14. ASSUME NEW p \in Queue, Recheck(p) \/ TimerFires(p) PROVE Attended(q)'
  <2>1. (Queued(q) => Queued(q)') /\ Queued(p)'
    <3>1. PICK k \in {"scan", "check", "restart"} :
            workQueue' = Append(workQueue, [kind |-> k, groups |-> {p}])
      BY <1>14 DEF Recheck, TimerFires
    <3>2. QED
      BY ONLY TypeOK, <3>1, AppendJob
  <2>2. p # q => rechecks'[q] = rechecks[q] /\ timers'[q] = timers[q]
    BY <1>14 DEF Recheck, TimerFires, TypeOK
  <2>3. UNCHANGED <<todo, unpausing, picked, running, notifications>>
    BY <1>14 DEF Recheck, TimerFires
  <2>4. QED
    BY <2>1, <2>2, <2>3 DEF Attended
<1>15. ASSUME NEW a \in Action, NEW t \in Thread, RetryNow(a, t) PROVE Attended(q)'
  <2>1. /\ q = QueueOf[a] => q \in todo'[t]
        /\ \A u \in Thread : q \in todo[u] => q \in todo'[u]
    BY <1>15 DEF RetryNow, Idle, TypeOK
  <2>2. \A b \in Action : b # a => running'[b] = running[b]
    BY <1>12, <1>15 DEF RetryNow
  <2>3. UNCHANGED <<workQueue, unpausing, picked, timers, rechecks, notifications>>
    BY <1>15 DEF RetryNow
  <2>4. QED
    BY <2>1, <2>2, <2>3 DEF Attended, Queued
<1>16. ASSUME NEW a \in Action, RetryLater(a) \/ RetryManually(a) PROVE Attended(q)'
  <2>1. queueState' = [queueState EXCEPT ![QueueOf[a]] = Paused(a)]
    BY <1>16 DEF RetryLater, RetryManually
  <2>2. QueueOf[a] # q
    BY <2>1 DEF Paused, TypeOK
  <2>3. \A b \in Action : b # a => running'[b] = running[b]
    BY <1>12, <1>16 DEF RetryLater, RetryManually
  <2>4. timers'[q] = timers[q]
    BY <1>16, <2>2 DEF RetryLater, RetryManually, TypeOK
  <2>5. UNCHANGED <<workQueue, todo, unpausing, picked, rechecks, notifications>>
    BY <1>16 DEF RetryLater, RetryManually
  <2>6. QED
    BY <2>2, <2>3, <2>4, <2>5 DEF Attended, Queued
<1>17. \/ UNCHANGED vars \/ Relaunch \/ ReadGroups
       \/ (\E S : Save(S)) \/ (\E a : Delete(a))
       \/ ScanGroups \/ TakeCheck \/ TakeRestart
       \/ \E t \in Thread, p \in Queue :
            RestartQueues(t, p) \/ Unpause(t, p) \/ CheckQueue(t, p)
       \/ \E t \in Thread, a \in Action : HandOver(t, a) \/ RetryNow(a, t)
       \/ \E p \in Queue : Recheck(p) \/ TimerFires(p)
       \/ \E a \in Action : Succeed(a) \/ RetryLater(a) \/ RetryManually(a)
  BY DEF Next, Environment, WorkStep, CheckerStep, Complete, Thread
<1> HIDE QueueOfType
<1>18. CASE UNCHANGED vars \/ Relaunch \/ ReadGroups \/ ScanGroups \/ TakeCheck
              \/ TakeRestart \/ (\E S : Save(S)) \/ (\E a : Delete(a))
  BY <1>1, <1>2, <1>3, <1>6, <1>7, <1>8, <1>18
<1>19. CASE \E t \in Thread, p \in Queue :
              RestartQueues(t, p) \/ Unpause(t, p) \/ CheckQueue(t, p)
  BY <1>5, <1>9, <1>10, <1>19
<1>20. CASE \E t \in Thread, a \in Action : HandOver(t, a) \/ RetryNow(a, t)
  BY <1>11, <1>15, <1>20
<1>21. CASE \/ \E p \in Queue : Recheck(p) \/ TimerFires(p)
            \/ \E a \in Action : Succeed(a) \/ RetryLater(a) \/ RetryManually(a)
  BY <1>13, <1>14, <1>16, <1>21
<1>22. QED
  BY <1>17, <1>18, <1>19, <1>20, <1>21

\* No step makes the broker forget a queue that holds an action.
LEMMA NoStallStep == IInv /\ [Next]_vars => NoStall'
<1>1. TypeOK' /\ OwnItem' /\ StateIsBacked' => EntriesAttended'
  BY EntryAttended, PTL
<1> SUFFICES ASSUME IInv, [Next]_vars, changed', NEW q \in Groups'
             PROVE  Attended(q)' \/ ParkedByHandler(q)'
  BY DEF NoStall
<1>2. TypeOK' /\ EntriesAttended'
  BY <1>1, NextType, OwnItemStep, BackedStep DEF IInv
<1>3. q \in Queue
  BY <1>2, QueueOfType DEF Groups, TypeOK
<1>4. CASE queueState'[q].mode # "none"
  BY <1>2, <1>3, <1>4 DEF EntriesAttended
<1>5. CASE notifications' > 0
  BY <1>5 DEF Attended
<1>6. CASE queueState'[q].mode = "none" /\ ~(notifications' > 0)
  <2>1. changed /\ UNCHANGED db
    BY <1>6, ViewSteps DEF IInv
  <2>2. q \in Groups
    BY <2>1 DEF Groups
  <2>3. CASE Attended(q)
    BY <1>3, <1>6, <2>1, <2>2, <2>3, AttendedStep DEF IInv
  <2>4. CASE ScanGroups /\ q \notin Head(workQueue).groups
    <3>1. /\ 1 \in 1 .. Len(workQueue) /\ workQueue[1] = Head(workQueue)
          /\ workQueue[1].kind = "scan"
      BY <2>4 DEF ScanGroups, IInv, TypeOK
    <3>2. notifications > 0 \/ \E j \in 2 .. Len(workQueue) : q \in workQueue[j].groups
      BY <2>1, <2>2, <2>4, <3>1 DEF IInv, NothingMissed
    <3>3. Attended(q)
      BY <3>2 DEF Attended, Queued, IInv, TypeOK
    <3>4. QED
      BY <2>3, <3>3
  <2>5. CASE ~Attended(q) /\ ~(ScanGroups /\ q \notin Head(workQueue).groups)
    \* a parked queue whose entry is cleared
    <3>1. queueState[q].mode # "none" /\ Stored(q) # {}
      BY <2>1, <2>2, <2>5 DEF IInv, NoStall, ParkedByHandler, Groups, Stored
    <3>2. queueState'[q] # queueState[q]
      BY <1>6, <3>1
    <3>3. ASSUME NEW t \in Thread, NEW p \in Queue, Unpause(t, p) PROVE FALSE
      <4>1. p = q
        BY <3>2, <3>3, <1>3 DEF Unpause, IInv, TypeOK
      <4>2. QED
        BY <2>5, <3>3, <4>1 DEF Unpause, Attended
    <3>4. ASSUME NEW t \in Thread, NEW p \in Queue, CheckQueue(t, p) PROVE FALSE
      BY <1>3, <3>1, <3>2, <3>4 DEF CheckQueue, IInv, TypeOK
    <3>5. ASSUME NEW a \in Action, Succeed(a) PROVE FALSE
      <4>1. QueueOf[a] = q
        BY <3>2, <3>5, <1>3 DEF Succeed, IInv, TypeOK
      <4>2. QED
        BY <2>5, <3>5, <4>1 DEF Succeed, Return, Attended
    <3>6. CASE ScanGroups
      BY <2>5, <3>2, <3>6, <1>3 DEF ScanGroups, IInv, TypeOK
    <3>7. CASE Relaunch
      BY <3>7 DEF Relaunch
    <3>8. ASSUME NEW t \in Thread, NEW a \in Action, HandOver(t, a) PROVE FALSE
      <4>1. queueState' = [queueState EXCEPT ![QueueOf[a]] = Processing(a)]
        BY <3>8 DEF HandOver
      <4>2. QED
        BY <1>3, <1>6, <3>2, <4>1 DEF Processing, IInv, TypeOK
    <3>9. ASSUME NEW a \in Action, RetryLater(a) \/ RetryManually(a) PROVE FALSE
      <4>1. queueState' = [queueState EXCEPT ![QueueOf[a]] = Paused(a)]
        BY <3>9 DEF RetryLater, RetryManually
      <4>2. QED
        BY <1>3, <1>6, <3>2, <4>1 DEF Paused, IInv, TypeOK
    <3>10. \/ UNCHANGED queueState \/ Relaunch \/ ScanGroups
           \/ \E t \in Thread, p \in Queue : Unpause(t, p) \/ CheckQueue(t, p)
           \/ \E t \in Thread, a \in Action : HandOver(t, a)
           \/ \E a \in Action : Succeed(a) \/ RetryLater(a) \/ RetryManually(a)
      BY DEF Next, vars, Environment, WorkStep, CheckerStep, Complete, Thread,
             Save, Delete, RestartQueues, ReadGroups, TakeCheck, TakeRestart,
             RetryNow, Recheck, TimerFires
    <3>11. QED
      BY <3>2, <3>3, <3>4, <3>5, <3>6, <3>7, <3>8, <3>9, <3>10
  <2>6. QED
    BY <2>3, <2>4, <2>5
<1>7. QED
  BY <1>4, <1>5, <1>6

\* The strengthened invariant holds initially.
LEMMA InitInv == Init => IInv
BY InitType, InitBacked DEF IInv, Init, NothingMissed, NoStall

\* The strengthened invariant is inductive.
LEMMA NextInv == IInv /\ [Next]_vars => IInv'
BY NextType, OwnItemStep, BackedStep, MissedStep, NoStallStep DEF IInv

\* Once the view has changed since launch the broker forgets no queue that
\* holds an action, however saves, deletions, restarts, stale scans, timers and
\* completions interleave and however many threads run checkQueue.
THEOREM NoQueueStalls == Spec => []NoStall
<1>1. IInv => NoStall
  BY DEF IInv
<1>2. QED
  BY InitInv, NextInv, <1>1, PTL DEF Spec

-----------------------------------------------------------------------------
(* The broker implements the at-least-once queue: each of its steps is a  *)
(* step of AtLeastOnceQueue or leaves the abstract queue alone.            *)

\* The threads that have chosen an action and not handed it over yet.
PickedBy(a) == {t \in Thread : a \in picked[t]}

\* There are finitely many threads, so the attempts at an action are counted.
LEMMA AttemptsType ==
  TypeOK => /\ \A a \in Action : IsFiniteSet(PickedBy(a))
            /\ \A a \in Action : Cardinality(PickedBy(a)) \in Nat
            /\ Attempts = [a \in Action |-> running[a] + Cardinality(PickedBy(a))]
<1>1. IsFiniteSet(Thread)
  BY CallerType, FS_AddElement, FS_Singleton, FS_Union DEF Thread
<1>2. ASSUME NEW a \in Action
      PROVE  IsFiniteSet(PickedBy(a)) /\ Cardinality(PickedBy(a)) \in Nat
  <2>1. PickedBy(a) \subseteq Thread
    BY DEF PickedBy
  <2>2. QED
    BY <1>1, <2>1, FS_Subset, FS_CardinalityType
<1>3. Attempts = [a \in Action |-> running[a] + Cardinality(PickedBy(a))]
  BY DEF Attempts, PickedBy
<1>4. QED
  BY <1>2, <1>3

\* Choosing an action begins an attempt at it.
LEMMA AttemptsBegin ==
  ASSUME TypeOK, NEW t \in Thread, NEW a \in Action, picked[t] = {},
         picked' = [picked EXCEPT ![t] = {a}], UNCHANGED running
  PROVE  Attempts' = [Attempts EXCEPT ![a] = @ + 1]
<1>1. PickedBy(a)' = PickedBy(a) \cup {t} /\ t \notin PickedBy(a)
  BY DEF PickedBy, TypeOK
<1>2. \A b \in Action : b # a => PickedBy(b)' = PickedBy(b)
  BY DEF PickedBy, TypeOK
<1>3. Cardinality(PickedBy(a)') = Cardinality(PickedBy(a)) + 1
  BY <1>1, AttemptsType, FS_AddElement
<1>4. Attempts' = [b \in Action |-> running'[b] + Cardinality(PickedBy(b)')]
  BY DEF Attempts, PickedBy
<1>5. ASSUME NEW b \in Action
      PROVE  running'[b] + Cardinality(PickedBy(b)')
               = (IF b = a THEN running[b] + Cardinality(PickedBy(b)) + 1
                           ELSE running[b] + Cardinality(PickedBy(b)))
  <2>1. running[b] \in Nat /\ Cardinality(PickedBy(b)) \in Nat
    BY AttemptsType DEF TypeOK
  <2>2. QED
    BY <1>2, <1>3, <2>1
<1>6. QED
  BY <1>4, <1>5, AttemptsType

\* Handing an action over continues the attempt that chose it.
LEMMA AttemptsHandOver ==
  ASSUME TypeOK, NEW t \in Thread, NEW a \in Action, HandOver(t, a)
  PROVE  Attempts' = Attempts
<1>1. PickedBy(a)' = PickedBy(a) \ {t} /\ t \in PickedBy(a)
  BY DEF PickedBy, HandOver, TypeOK
<1>2. \A b \in Action : b # a => PickedBy(b)' = PickedBy(b)
  BY DEF PickedBy, HandOver, TypeOK
<1>3. Cardinality(PickedBy(a)') = Cardinality(PickedBy(a)) - 1
  BY <1>1, AttemptsType, FS_RemoveElement
<1>4. Attempts' = [b \in Action |-> running'[b] + Cardinality(PickedBy(b)')]
  BY DEF Attempts, PickedBy
<1>5. ASSUME NEW b \in Action
      PROVE  running'[b] + Cardinality(PickedBy(b)')
               = running[b] + Cardinality(PickedBy(b))
  <2>1. running[b] \in Nat /\ Cardinality(PickedBy(b)) \in Nat
    BY AttemptsType DEF TypeOK
  <2>2. running'[b] = IF b = a THEN running[b] + 1 ELSE running[b]
    BY DEF HandOver, TypeOK
  <2>3. QED
    BY <1>2, <1>3, <2>1, <2>2
<1>6. QED
  BY <1>4, <1>5, AttemptsType

\* A completion ends one attempt.
LEMMA AttemptsReturn ==
  ASSUME TypeOK, NEW a \in Action, NEW o, Return(a, o), UNCHANGED picked
  PROVE  Attempts[a] > 0 /\ Attempts' = [Attempts EXCEPT ![a] = @ - 1]
<1>1. \A b \in Action : PickedBy(b)' = PickedBy(b)
  BY DEF PickedBy
<1>2. Attempts' = [b \in Action |-> running'[b] + Cardinality(PickedBy(b)')]
  BY DEF Attempts, PickedBy
<1>3. ASSUME NEW b \in Action
      PROVE  running'[b] + Cardinality(PickedBy(b)')
               = (IF b = a THEN running[b] + Cardinality(PickedBy(b)) - 1
                           ELSE running[b] + Cardinality(PickedBy(b)))
  <2>1. running[b] \in Nat /\ Cardinality(PickedBy(b)) \in Nat
    BY AttemptsType DEF TypeOK
  <2>2. running'[b] = IF b = a THEN running[b] - 1 ELSE running[b]
    BY DEF Return, TypeOK
  <2>3. QED
    BY <1>1, <2>1, <2>2
<1>4. running[a] > 0 /\ running[a] \in Nat /\ Cardinality(PickedBy(a)) \in Nat
  BY AttemptsType DEF Return, TypeOK
<1>5. Attempts = [b \in Action |-> running[b] + Cardinality(PickedBy(b))]
  BY AttemptsType
<1>6. Attempts[a] > 0
  <2>1. Attempts[a] = running[a] + Cardinality(PickedBy(a))
    BY <1>5
  <2>2. QED
    BY <1>4, <2>1
<1>7. Attempts' = [Attempts EXCEPT ![a] = @ - 1]
  <2>1. \A b \in Action : Attempts'[b] = IF b = a THEN Attempts[b] - 1 ELSE Attempts[b]
    <3>1. \A b \in Action : running[b] \in Nat /\ Cardinality(PickedBy(b)) \in Nat
      BY AttemptsType DEF TypeOK
    <3>2. QED
      BY <1>2, <1>3, <1>5, <3>1
  <2>2. /\ Attempts' = [b \in Action |-> Attempts'[b]]
        /\ Attempts = [b \in Action |-> Attempts[b]]
    BY <1>2, <1>5
  <2>3. QED
    BY <2>1, <2>2
<1>8. QED
  BY <1>6, <1>7

\* The initial states are initial states of the abstract queue.
LEMMA RefinesInit == Init => Abstract!Init
<1> SUFFICES ASSUME Init PROVE Abstract!Init
  OBVIOUS
<1>1. \A a \in Action : PickedBy(a) = {}
  BY DEF PickedBy, Init, Nothing
<1>2. \A a \in Action : running[a] = 0 /\ Cardinality(PickedBy(a)) = 0
  <2>1. Cardinality({}) = 0
    BY FS_EmptySet
  <2>2. QED
    BY <1>1, <2>1 DEF Init, Zero
<1>3. Attempts = [a \in Action |-> 0]
  BY <1>2, InitType, AttemptsType
<1>4. Parked = {}
  BY DEF Parked, ParkedByHandler, Init, NoState
<1>5. QED
  BY <1>3, <1>4 DEF Init, Abstract!Init

\* Every step takes one of the steps of the abstract queue or leaves its actions
\* alone.
LEMMA RefinesStep ==
  TypeOK /\ [Next]_vars => Abstract!Step \/ UNCHANGED <<db, Attempts, changed>>
<1> SUFFICES ASSUME TypeOK, [Next]_vars
             PROVE  Abstract!Step \/ UNCHANGED <<db, Attempts, changed>>
  OBVIOUS
<1> USE QueueOfType
<1>1. CASE UNCHANGED <<db, running, picked, changed>>
  BY <1>1 DEF Attempts
<1>2. ASSUME NEW S \in SUBSET Action, Save(S) PROVE Abstract!Save(S)
  BY <1>2 DEF Save, Notify, Attempts, Abstract!Save
<1>3. ASSUME NEW a \in Action, Delete(a) PROVE Abstract!Delete(a)
  BY <1>3 DEF Delete, Notify, Attempts, Abstract!Delete
<1>4. CASE Relaunch
  <2>1. \A a \in Action : PickedBy(a)' = {}
    BY <1>4 DEF PickedBy, Relaunch, Nothing
  <2>2. \A a \in Action : running'[a] = 0 /\ Cardinality(PickedBy(a)') = 0
    <3>1. Cardinality({}) = 0
      BY FS_EmptySet
    <3>2. QED
      BY <1>4, <2>1, <3>1 DEF Relaunch, Zero
  <2>3. Attempts' = [b \in Action |-> running'[b] + Cardinality(PickedBy(b)')]
    BY DEF Attempts, PickedBy
  <2>4. Attempts' = [a \in Action |-> 0]
    BY <2>2, <2>3
  <2>5. QED
    BY <1>4, <2>4 DEF Relaunch, Abstract!Relaunch, Abstract!Step
<1>5. ASSUME NEW t \in Thread, NEW q \in Queue, CheckQueue(t, q)
      PROVE  Abstract!Step \/ UNCHANGED <<db, Attempts, changed>>
  <2>1. UNCHANGED <<db, running, changed>> /\ picked[t] = {}
    BY <1>5 DEF CheckQueue
  <2>2. ASSUME NEW a \in db, IsFirst(a, q), picked' = [picked EXCEPT ![t] = {a}]
        PROVE  Abstract!Begin(a)
    <3>1. a \in Action /\ QueueOf[a] = q
      BY <2>2 DEF IsFirst, Stored, TypeOK
    <3>2. Attempts' = [Attempts EXCEPT ![a] = @ + 1]
      BY <2>1, <2>2, <3>1, AttemptsBegin
    <3>3. QED
      BY <2>1, <2>2, <3>1, <3>2
         DEF IsFirst, Stored, Abstract!Begin, Abstract!First, Abstract!In
  <2>3. ASSUME picked' = [picked EXCEPT ![t] = {}] PROVE UNCHANGED picked
    BY <2>1, <2>3 DEF TypeOK
  <2>4. \/ UNCHANGED picked
        \/ picked' = [picked EXCEPT ![t] = {}]
        \/ \E a \in db : IsFirst(a, q) /\ picked' = [picked EXCEPT ![t] = {a}]
    BY <1>5 DEF CheckQueue
  <2>5. db \subseteq Action
    BY DEF TypeOK
  <2>6. QED
    BY <1>1, <2>1, <2>2, <2>3, <2>4, <2>5 DEF Abstract!Step
<1>6. ASSUME NEW t \in Thread, NEW a \in Action, HandOver(t, a)
      PROVE  UNCHANGED <<db, Attempts, changed>>
  BY <1>6, AttemptsHandOver DEF HandOver
<1>7. ASSUME NEW a \in Action, Succeed(a) PROVE Abstract!Succeed(a)
  <2>1. changed' = (changed \/ a \in db)
    <3>1. CASE a \in db
      BY <1>7, <3>1 DEF Succeed, Notify
    <3>2. CASE a \notin db
      BY <1>7, <3>2 DEF Succeed, TypeOK
    <3>3. QED
      BY <3>1, <3>2
  <2>2. Attempts[a] > 0 /\ Attempts' = [Attempts EXCEPT ![a] = @ - 1]
    BY <1>7, AttemptsReturn DEF Succeed
  <2>3. QED
    BY <1>7, <2>1, <2>2 DEF Succeed, Abstract!Succeed
<1>8. ASSUME NEW a \in Action,
             RetryLater(a) \/ RetryManually(a) \/ \E t \in Thread : RetryNow(a, t)
      PROVE  Abstract!Fail(a)
  <2>1. UNCHANGED <<db, picked, changed>> /\ \E o : Return(a, o)
    BY <1>8 DEF RetryLater, RetryManually, RetryNow
  <2>2. Attempts[a] > 0 /\ Attempts' = [Attempts EXCEPT ![a] = @ - 1]
    BY <2>1, AttemptsReturn
  <2>3. QED
    BY <2>1, <2>2 DEF Abstract!Fail
<1>9. \/ UNCHANGED <<db, running, picked, changed>> \/ Relaunch
      \/ \E S \in SUBSET Action : Save(S)
      \/ \E t \in Thread, q \in Queue : CheckQueue(t, q)
      \/ \E t \in Thread, a \in Action : HandOver(t, a)
      \/ \E a \in Action : Delete(a) \/ Succeed(a)
      \/ \E a \in Action : RetryLater(a) \/ RetryManually(a)
                           \/ \E t \in Thread : RetryNow(a, t)
  BY DEF Next, vars, Environment, WorkStep, CheckerStep, Complete, Thread,
         RestartQueues, ReadGroups, ScanGroups, TakeCheck, TakeRestart,
         Unpause, Recheck, TimerFires
<1>10. CASE \E a \in Action : Delete(a) \/ Succeed(a)
  BY <1>3, <1>7, <1>10 DEF Abstract!Step
<1>11. CASE \E a \in Action : RetryLater(a) \/ RetryManually(a)
                              \/ \E t \in Thread : RetryNow(a, t)
  BY <1>8, <1>11 DEF Abstract!Step
<1>12. CASE \E S \in SUBSET Action : Save(S)
  BY <1>2, <1>12 DEF Abstract!Step
<1>13. QED
  BY <1>1, <1>4, <1>5, <1>6, <1>9, <1>10, <1>11, <1>12

\* Which queues the handler's answers park is left open there.
LEMMA RefinesNext == TypeOK /\ [Next]_vars => [Abstract!Next]_(Abstract!vars)
<1>1. Parked' \in SUBSET Queue
  BY DEF Parked
<1>2. QED
  BY <1>1, RefinesStep DEF Abstract!Next, Abstract!vars

\* For every set of actions, queues and threads, the broker behaves as a
\* persistent queue from which each attempt takes the first action and only a
\* success of an attempt at it, or the application, removes an action.
THEOREM BrokerImplementsQueue == Spec => ImplementsQueue
<1>1. Spec => []TypeOK
  BY TypeCorrect
<1>2. QED
  BY <1>1, RefinesInit, RefinesNext, PTL DEF Spec, ImplementsQueue, Abstract!SafeSpec

-----------------------------------------------------------------------------
(* One action at a time: the broker after one transaction of saves, with    *)
(* nothing deleted, restarted or started again.                            *)

Quiet ==
  /\ budget["save"] >= Budget["save"] - 1
  /\ \A step \in EnvStep \ {"save"} : budget[step] = Budget[step]
Within == \A step \in EnvStep : budget[step] <= Budget[step]

\* Nothing moves before the view has changed.
AtRest ==
  /\ queueState = [q \in Queue |-> NoState] /\ workQueue = <<>>
  /\ todo = Nothing(Thread) /\ unpausing = Nothing(Thread) /\ picked = Nothing(Thread)
  /\ running = Zero(Action) /\ timers = Zero(Queue) /\ rechecks = Zero(Queue)
  /\ notifications = 0

RunsFirst ==
  \A a \in Action :
    running[a] > 0 => running[a] = 1 /\ queueState[QueueOf[a]] = Processing(a)

\* Only the workQueue chooses actions, and only where the queue is free.
PicksFree ==
  \A t \in Thread : \A a \in picked[t] :
    /\ t = "workQueue" /\ picked[t] = {a}
    /\ IsFirst(a, QueueOf[a]) /\ queueState[QueueOf[a]].mode = "none"

StandsAtFirst ==
  \A q \in Queue : queueState[q].mode # "none" => IsFirst(queueState[q].item, q)

UnpausesPaused ==
  \A t \in Thread : \A q \in unpausing[t] :
    t = "workQueue" /\ queueState[q].mode = "paused"

\* A caller looks at a queue after completion(false, 0) only, which leaves the
\* entry behind: it finds nothing to hand over.
CallersWait ==
  \A t \in Caller : \A q \in todo[t] :
    queueState[q].mode = "processing" /\ running[queueState[q].item] = 0

\* The groups of a scan were read when no queue had more actions than now, so
\* only entries of empty queues are cleared.
ScansNew ==
  \A i \in 1 .. Len(workQueue) :
    workQueue[i].kind = "scan" => Groups \subseteq workQueue[i].groups

Serving ==
  /\ RunsFirst /\ PicksFree /\ StandsAtFirst /\ UnpausesPaused /\ CallersWait
  /\ ScansNew

Draining ==
  /\ OwnItem /\ Within
  /\ Quiet => Serving /\ (budget["save"] = Budget["save"] => AtRest)

\* A queue has one first action.
LEMMA FirstIsOne ==
  ASSUME TypeOK, NEW q \in Queue, NEW a, NEW b, IsFirst(a, q), IsFirst(b, q)
  PROVE  a = b
<1>1. /\ a \in db /\ b \in db /\ QueueOf[a] = q /\ QueueOf[b] = q
      /\ Date[a] <= Date[b] /\ Date[b] <= Date[a]
  BY DEF IsFirst, Stored
<1>2. a \in Action /\ b \in Action /\ Date[a] \in Nat /\ Date[b] \in Nat
  BY <1>1, DateType DEF TypeOK
<1>3. Date[a] = Date[b]
  BY <1>1, <1>2
<1>4. QED
  BY <1>1, <1>2, <1>3, DateIsOrder

\* The first action of a queue stays first while it is there and none is added.
LEMMA FirstKept ==
  ASSUME NEW q, NEW a, IsFirst(a, q), db' \subseteq db, a \in db'
  PROVE  IsFirst(a, q)'
BY DEF IsFirst, Stored

\* A scan that lists every queue with actions still does when actions only leave.
LEMMA ScansKept ==
  ASSUME TypeOK, ScansNew, db' \subseteq db,
         \/ workQueue' = workQueue
         \/ workQueue # <<>> /\ workQueue' = Tail(workQueue)
         \/ \E k \in {"check", "restart"}, S \in SUBSET Queue :
              workQueue' = Append(workQueue, [kind |-> k, groups |-> S])
         \/ workQueue' = Append(workQueue, [kind |-> "scan", groups |-> Groups])
  PROVE  ScansNew'
<1>1. Groups' \subseteq Groups /\ Groups \in SUBSET Queue
  BY QueueOfType DEF Groups, TypeOK
<1>2. CASE workQueue' = workQueue
  BY <1>1, <1>2 DEF ScansNew
<1>3. CASE workQueue # <<>> /\ workQueue' = Tail(workQueue)
  <2>1. /\ Len(workQueue) \in Nat /\ Len(workQueue') = Len(workQueue) - 1
        /\ \A i \in 1 .. Len(workQueue') : workQueue'[i] = workQueue[i + 1]
    BY <1>3, TailJob
  <2>2. ASSUME NEW i \in 1 .. Len(workQueue'), workQueue'[i].kind = "scan"
        PROVE  Groups' \subseteq workQueue'[i].groups
    <3>1. i + 1 \in 1 .. Len(workQueue) /\ workQueue'[i] = workQueue[i + 1]
      BY <2>1
    <3>2. QED
      BY <1>1, <2>2, <3>1 DEF ScansNew
  <2>3. QED
    BY <2>2 DEF ScansNew
<1>4. ASSUME NEW k \in {"check", "restart", "scan"}, NEW S \in SUBSET Queue,
             workQueue' = Append(workQueue, [kind |-> k, groups |-> S]),
             k = "scan" => S = Groups
      PROVE  ScansNew'
  <2>1. /\ Len(workQueue') = Len(workQueue) + 1 /\ Len(workQueue) \in Nat
        /\ \A i \in 1 .. Len(workQueue) : workQueue'[i] = workQueue[i]
        /\ workQueue'[Len(workQueue) + 1] = [kind |-> k, groups |-> S]
    BY <1>4, AppendJob
  <2>2. ASSUME NEW i \in 1 .. Len(workQueue'), workQueue'[i].kind = "scan"
        PROVE  Groups' \subseteq workQueue'[i].groups
    <3>1. CASE i \in 1 .. Len(workQueue)
      BY <1>1, <2>1, <2>2, <3>1 DEF ScansNew
    <3>2. CASE i = Len(workQueue) + 1
      BY <1>1, <1>4, <2>1, <2>2, <3>2
    <3>3. QED
      BY <2>1, <3>1, <3>2
  <2>3. QED
    BY <2>2 DEF ScansNew
<1>5. QED
  BY <1>1, <1>2, <1>3, <1>4

\* Steps that only move jobs.
LEMMA ServingFrame ==
  ASSUME Serving, ScansNew', UNCHANGED <<db, queueState, unpausing, picked, running>>,
         \A t \in Caller : todo'[t] = todo[t]
  PROVE  Serving'
<1>1. \A a, q : IsFirst(a, q)' <=> IsFirst(a, q)
  BY DEF IsFirst, Stored
<1>2. QED
  BY <1>1 DEF Serving, RunsFirst, PicksFree, StandsAtFirst, UnpausesPaused, CallersWait

\* No budget is ever regained, and a step that spends is no quiet one, but for
\* the first save.
Internal ==
  \/ ReadGroups \/ ScanGroups \/ TakeCheck \/ TakeRestart
  \/ \E t \in Thread, q \in Queue : Unpause(t, q) \/ CheckQueue(t, q)
  \/ \E t \in Thread, a \in Action : HandOver(t, a)
  \/ \E q \in Queue : Recheck(q) \/ TimerFires(q)
  \/ \E a \in Action : Complete(a)

\* A quiet step is one of the broker itself, or the one save.
LEMMA QuietSteps ==
  ASSUME TypeOK, Within, [Next]_vars
  PROVE  /\ Within'
         /\ Quiet' => /\ Quiet
                      /\ \/ UNCHANGED vars
                         \/ UNCHANGED budget /\ Internal
                         \/ /\ \E S \in SUBSET Action : Save(S)
                            /\ budget["save"] = Budget["save"] /\ budget'["save"] # Budget["save"]
<1>1. \A step \in EnvStep : budget[step] \in Nat /\ Budget[step] \in Nat
  BY BudgetType DEF TypeOK
<1>2. ASSUME UNCHANGED budget PROVE Within' /\ (Quiet' => Quiet)
  BY <1>2 DEF Within, Quiet
<1>3. ASSUME NEW step \in EnvStep \ {"save"}, Spend(step) PROVE Within' /\ ~Quiet'
  <2>1. step # "save" /\ step \in EnvStep
    BY DEF EnvStep
  <2>2. /\ budget'[step] = budget[step] - 1 /\ budget[step] > 0
        /\ \A e \in EnvStep : budget'[e] <= budget[e]
    BY <1>1, <1>3, <2>1 DEF Spend, TypeOK
  <2>3. budget'[step] < Budget[step] /\ \A e \in EnvStep : budget'[e] \in Nat
    BY <1>1, <1>3, <2>1, <2>2 DEF Within, Spend, TypeOK
  <2>4. Within'
    BY <1>1, <2>2, <2>3 DEF Within
  <2>5. QED
    BY <1>1, <2>1, <2>3, <2>4 DEF Quiet
<1>4. ASSUME Spend("save")
      PROVE  Within' /\ (Quiet' => Quiet /\ budget["save"] = Budget["save"]
                                         /\ budget'["save"] # Budget["save"])
  BY <1>1, <1>4 DEF Within, Quiet, Spend, TypeOK, EnvStep
<1>5. CASE Environment
  BY <1>3, <1>4, <1>5 DEF Environment, Save, Delete, RestartQueues, Relaunch, EnvStep
<1>6. CASE Internal \/ UNCHANGED vars
  BY <1>2, <1>6
     DEF Internal, vars, ReadGroups, ScanGroups, TakeCheck, TakeRestart, Unpause, CheckQueue, HandOver,
         Recheck, TimerFires, Complete, Succeed, RetryLater, RetryManually, RetryNow
<1>7. QED
  BY <1>5, <1>6 DEF Next, WorkStep, CheckerStep, Internal, Thread

\* The entries of currentState are told apart by their mode.
LEMMA Modes ==
  /\ NoState.mode = "none"
  /\ \A a : /\ Processing(a).mode = "processing" /\ Processing(a).item = a
            /\ Paused(a).mode = "paused" /\ Paused(a).item = a
BY DEF NoState, Processing, Paused

\* A queue that stands at an action holds it.
LEMMA StandsStored ==
  ASSUME StandsAtFirst, NEW q \in Queue, queueState[q].mode # "none"
  PROVE  Stored(q) # {} /\ q \in Groups
BY DEF StandsAtFirst, IsFirst, Stored, Groups

\* A scan clears nothing but what is clear already.
LEMMA ServingScan ==
  ASSUME TypeOK, Serving, ScanGroups
  PROVE  Serving'
<1>1. ScansNew'
  BY ScansKept DEF ScanGroups, Serving
<1>2. workQueue # <<>> /\ Head(workQueue).kind = "scan" /\ Idle("workQueue")
  BY DEF ScanGroups
<1>3. Groups \subseteq Head(workQueue).groups
  <2>1. Head(workQueue) = workQueue[1] /\ 1 \in 1 .. Len(workQueue)
    BY <1>2 DEF TypeOK
  <2>2. QED
    BY <1>2, <2>1 DEF Serving, ScansNew
<1>4. queueState' = queueState
  <2>1. PICK keys \in SUBSET {q \in Queue : queueState[q].mode # "none"} :
          queueState' = [q \in Queue |->
                           IF q \in keys \ Head(workQueue).groups THEN NoState ELSE queueState[q]]
    BY DEF ScanGroups
  <2>2. \A q \in keys : q \in Head(workQueue).groups
    BY <1>3, <2>1, StandsStored DEF Serving
  <2>3. queueState' = [q \in Queue |-> queueState[q]]
    BY <2>1, <2>2
  <2>4. QED
    BY <2>3 DEF TypeOK
<1>5. \A t \in Caller : todo'[t] = todo[t]
  BY CallerType DEF ScanGroups, TypeOK, Thread
<1>6. QED
  BY <1>1, <1>4, <1>5, ServingFrame DEF ScanGroups

\* What the workQueue takes up keeps a queue served in turn.
LEMMA ServingJobs ==
  ASSUME TypeOK, Serving,
         ReadGroups \/ TakeCheck \/ \E q \in Queue : Recheck(q) \/ TimerFires(q)
  PROVE  Serving'
<1>1. UNCHANGED <<db, queueState, unpausing, picked, running>>
  BY DEF ReadGroups, TakeCheck, Recheck, TimerFires
<1>2. \A t \in Caller : todo'[t] = todo[t]
  BY CallerType DEF ReadGroups, TakeCheck, Recheck, TimerFires, TypeOK, Thread
<1>3. ScansNew'
  <2>1. CASE ReadGroups
    BY <2>1, ScansKept DEF ReadGroups, Serving
  <2>2. CASE TakeCheck
    BY <2>2, ScansKept DEF TakeCheck, Serving
  <2>3. ASSUME NEW q \in Queue, Recheck(q) \/ TimerFires(q) PROVE ScansNew'
    <3>1. PICK k \in {"check", "restart"} :
            workQueue' = Append(workQueue, [kind |-> k, groups |-> {q}])
      BY <2>3 DEF Recheck, TimerFires
    <3>2. {q} \in SUBSET Queue
      OBVIOUS
    <3>3. QED
      BY <1>1, <3>1, <3>2, ScansKept DEF Serving
  <2>4. QED
    BY <2>1, <2>2, <2>3
<1>4. QED
  BY <1>1, <1>2, <1>3, ServingFrame

\* A restart keeps a queue served in turn.
LEMMA ServingRestart ==
  ASSUME TypeOK, Serving, TakeRestart
  PROVE  Serving'
<1> DEFINE S == Head(workQueue).groups
<1>1. ScansNew'
  BY ScansKept DEF TakeRestart, Serving
<1>2. UNCHANGED <<db, queueState, picked, running>>
  BY DEF TakeRestart
<1>3. \A t \in Caller : todo'[t] = todo[t] /\ unpausing'[t] = unpausing[t]
  BY CallerType DEF TakeRestart, RestartIfPaused, TypeOK, Thread
<1>4. unpausing'["workQueue"] = PausedIn(S)
  BY DEF TakeRestart, RestartIfPaused, TypeOK, Thread
<1>5. UnpausesPaused'
  BY <1>2, <1>3, <1>4 DEF UnpausesPaused, Serving, PausedIn, Thread
<1>6. CallersWait'
  BY <1>2, <1>3 DEF CallersWait, Serving
<1>7. \A a, q : IsFirst(a, q)' <=> IsFirst(a, q)
  BY <1>2 DEF IsFirst, Stored
<1>8. RunsFirst' /\ PicksFree' /\ StandsAtFirst'
  BY <1>2, <1>7 DEF Serving, RunsFirst, PicksFree, StandsAtFirst
<1>9. QED
  BY <1>1, <1>5, <1>6, <1>8 DEF Serving

\* The end of a pause keeps a queue served in turn.
LEMMA ServingUnpause ==
  ASSUME TypeOK, Serving, NEW t \in Thread, NEW q \in Queue, Unpause(t, q)
  PROVE  Serving'
<1>1. /\ t = "workQueue" /\ queueState[q].mode = "paused"
      /\ UNCHANGED <<db, workQueue, picked, running>>
      /\ queueState' = [queueState EXCEPT ![q] = NoState]
  BY DEF Unpause, Serving, UnpausesPaused
<1>2. \A r \in Queue : r # q => queueState'[r] = queueState[r]
  BY <1>1 DEF TypeOK
<1>3. queueState'[q].mode = "none"
  BY <1>1 DEF TypeOK, NoState
<1>4. \A a, r : IsFirst(a, r)' <=> IsFirst(a, r)
  BY <1>1 DEF IsFirst, Stored
<1>5. RunsFirst'
  <2>1. \A a \in Action : running[a] > 0 => QueueOf[a] # q
    BY <1>1, Modes DEF Serving, RunsFirst
  <2>2. QED
    BY <1>1, <1>2, <2>1, QueueOfType DEF Serving, RunsFirst
<1>6. PicksFree'
  <2>1. \A r \in Thread : \A a \in picked[r] : QueueOf[a] \in Queue
    BY QueueOfType DEF TypeOK
  <2>2. \A r \in Thread : \A a \in picked[r] : queueState'[QueueOf[a]].mode = "none"
    BY <1>2, <1>3, <2>1 DEF Serving, PicksFree
  <2>3. QED
    BY <1>1, <1>4, <2>2 DEF Serving, PicksFree
<1>7. StandsAtFirst'
  BY <1>2, <1>3, <1>4 DEF Serving, StandsAtFirst
<1>8. UnpausesPaused'
  <2>1. /\ \A r \in Thread : r # t => unpausing'[r] = unpausing[r]
        /\ unpausing'[t] = unpausing[t] \ {q}
    BY DEF Unpause, TypeOK
  <2>2. \A r \in Thread : r # t => unpausing[r] = {}
    BY <1>1 DEF Serving, UnpausesPaused
  <2>3. \A r \in unpausing[t] : r \in Queue
    BY DEF TypeOK
  <2>4. QED
    BY <1>1, <1>2, <2>1, <2>2, <2>3 DEF Serving, UnpausesPaused
<1>9. CallersWait'
  <2>1. \A r \in Caller : todo'[r] = todo[r] /\ r \in Thread
    BY <1>1, CallerType DEF Unpause, TypeOK, Thread
  <2>2. \A r \in Caller : \A p \in todo[r] : p \in Queue /\ p # q
    BY <1>1, <2>1 DEF Serving, CallersWait, TypeOK
  <2>3. QED
    BY <1>1, <1>2, <2>1, <2>2 DEF Serving, CallersWait
<1>10. ScansNew'
  BY <1>1, ScansKept DEF Serving
<1>11. QED
  BY <1>5, <1>6, <1>7, <1>8, <1>9, <1>10 DEF Serving

\* A look at a queue keeps it served in turn.
LEMMA ServingCheck ==
  ASSUME TypeOK, OwnItem, Serving, NEW t \in Thread, NEW q \in Queue, CheckQueue(t, q)
  PROVE  Serving'
<1>1. UNCHANGED <<db, workQueue, unpausing, running>> /\ picked[t] = {}
  BY DEF CheckQueue
<1>2. \A a, r : IsFirst(a, r)' <=> IsFirst(a, r)
  BY <1>1 DEF IsFirst, Stored
<1>3. queueState' = queueState
  <2>1. CASE Stored(q) = {} /\ queueState' = [queueState EXCEPT ![q] = NoState]
    <3>1. queueState[q].mode = "none"
      BY <2>1, StandsStored DEF Serving
    <3>2. queueState[q] = NoState
      BY <3>1 DEF TypeOK, QueueState, NoState
    <3>3. QED
      BY <2>1, <3>2 DEF TypeOK
  <2>2. QED
    BY <2>1 DEF CheckQueue
<1>4. \/ picked' = picked
      \/ \E a \in db : /\ IsFirst(a, q) /\ picked' = [picked EXCEPT ![t] = {a}]
                      /\ queueState[q] \notin {Processing(a), Paused(a)}
  <2>1. [picked EXCEPT ![t] = {}] = picked
    BY <1>1 DEF TypeOK
  <2>2. QED
    BY <2>1 DEF CheckQueue
<1>5. \A r \in Caller : \A p \in todo'[r] : p \in todo[r]
  BY CallerType DEF CheckQueue, TypeOK, Thread
<1>6. RunsFirst' /\ StandsAtFirst' /\ UnpausesPaused'
  BY <1>1, <1>2, <1>3 DEF Serving, RunsFirst, StandsAtFirst, UnpausesPaused
<1>7. CallersWait'
  BY <1>1, <1>3, <1>5 DEF Serving, CallersWait
<1>8. ScansNew'
  BY <1>1, ScansKept DEF Serving
<1>9. PicksFree'
  <2>1. CASE picked' = picked
    BY <1>2, <1>3, <2>1 DEF Serving, PicksFree
  <2>2. ASSUME NEW a \in db, IsFirst(a, q), picked' = [picked EXCEPT ![t] = {a}],
               queueState[q] \notin {Processing(a), Paused(a)}
        PROVE  PicksFree'
    <3>1. QueueOf[a] = q
      BY <2>2 DEF IsFirst, Stored
    <3>2. queueState[q].mode = "none"
      <4> SUFFICES ASSUME queueState[q].mode # "none" PROVE FALSE
        OBVIOUS
      <4>1. IsFirst(queueState[q].item, q)
        BY DEF Serving, StandsAtFirst
      <4>2. queueState[q].item = a
        BY <2>2, <4>1, FirstIsOne
      <4>3. queueState[q] \in QueueState
        BY DEF TypeOK
      <4>4. queueState[q] = Processing(a) \/ queueState[q] = Paused(a)
        BY <4>2, <4>3, Modes DEF QueueState, Processing, Paused
      <4>5. QED
        BY <2>2, <4>4
    <3>3. t = "workQueue"
      <4> SUFFICES ASSUME t \in Caller PROVE FALSE
        BY DEF Thread
      <4>1. q \in todo[t]
        BY DEF CheckQueue
      <4>2. QED
        BY <3>2, <4>1 DEF Serving, CallersWait
    <3>4. picked'[t] = {a} /\ \A r \in Thread : r # t => picked'[r] = picked[r]
      BY <2>2 DEF TypeOK
    <3>5. QED
      BY <1>2, <1>3, <2>2, <3>1, <3>2, <3>3, <3>4 DEF Serving, PicksFree
  <2>3. QED
    BY <1>4, <2>1, <2>2
<1>10. QED
  BY <1>6, <1>7, <1>8, <1>9 DEF Serving

\* An action handed over keeps its queue served in turn.
LEMMA ServingHandOver ==
  ASSUME TypeOK, Serving, NEW t \in Thread, NEW a \in Action, HandOver(t, a)
  PROVE  Serving'
<1> DEFINE q == QueueOf[a]
<1>1. /\ UNCHANGED <<db, workQueue, todo, unpausing>> /\ a \in picked[t] /\ q \in Queue
      /\ queueState' = [queueState EXCEPT ![q] = Processing(a)]
      /\ running' = [running EXCEPT ![a] = @ + 1]
      /\ picked' = [picked EXCEPT ![t] = @ \ {a}]
  BY QueueOfType DEF HandOver
<1>2. t = "workQueue" /\ picked[t] = {a} /\ IsFirst(a, q) /\ queueState[q].mode = "none"
  BY <1>1 DEF Serving, PicksFree
<1> HIDE DEF q
<1>3. queueState'[q] = Processing(a) /\ \A r \in Queue : r # q => queueState'[r] = queueState[r]
  BY <1>1 DEF TypeOK
<1>4. \A b \in Action : QueueOf[b] = q => ~(running[b] > 0)
  BY <1>2, Modes DEF Serving, RunsFirst
<1>5. \A b, r : IsFirst(b, r)' <=> IsFirst(b, r)
  BY <1>1 DEF IsFirst, Stored
<1>6. RunsFirst'
  <2> SUFFICES ASSUME NEW b \in Action, running'[b] > 0
               PROVE  running'[b] = 1 /\ queueState'[QueueOf[b]] = Processing(b)
    BY DEF RunsFirst
  <2>1. CASE b = a
    <3>1. running[a] = 0 /\ QueueOf[a] = q
      BY <1>4 DEF q, TypeOK
    <3>2. running'[a] = 1
      BY <1>1, <3>1 DEF TypeOK
    <3>3. QED
      BY <1>3, <2>1, <3>1, <3>2
  <2>2. CASE b # a
    <3>1. running'[b] = running[b]
      BY <1>1, <2>2 DEF TypeOK
    <3>2. QueueOf[b] # q /\ QueueOf[b] \in Queue
      BY <1>4, <3>1, QueueOfType
    <3>3. QED
      BY <1>3, <3>1, <3>2 DEF Serving, RunsFirst
  <2>3. QED
    BY <2>1, <2>2
<1>7. PicksFree'
  <2>1. picked'[t] = {} /\ \A r \in Thread : r # t => picked'[r] = picked[r]
    BY <1>1, <1>2 DEF TypeOK
  <2>2. \A r \in Thread : r # t => picked[r] = {}
    BY <1>2 DEF Serving, PicksFree
  <2>3. QED
    BY <2>1, <2>2 DEF PicksFree
<1>8. StandsAtFirst'
  BY <1>2, <1>3, <1>5, Modes DEF Serving, StandsAtFirst
<1>9. UnpausesPaused'
  BY <1>1, <1>2, <1>3 DEF Serving, UnpausesPaused, TypeOK
<1>10. CallersWait'
  <2> SUFFICES ASSUME NEW r \in Caller, NEW p \in todo[r]
               PROVE  queueState'[p].mode = "processing" /\ running'[queueState'[p].item] = 0
    BY <1>1 DEF CallersWait
  <2>1. p \in Queue /\ queueState[p].mode = "processing" /\ running[queueState[p].item] = 0
    BY CallerType DEF Serving, CallersWait, TypeOK, Thread
  <2>2. queueState'[p] = queueState[p] /\ p # q
    BY <1>2, <1>3, <2>1
  <2>3. queueState[p].item # a
    BY <2>1, <2>2 DEF Serving, StandsAtFirst, IsFirst, Stored, q
  <2>4. running'[queueState[p].item] = running[queueState[p].item]
    BY <1>1, <2>3 DEF TypeOK
  <2>5. QED
    BY <2>1, <2>2, <2>4
<1>11. ScansNew'
  BY <1>1, ScansKept DEF Serving
<1>12. QED
  BY <1>6, <1>7, <1>8, <1>9, <1>10, <1>11 DEF Serving

\* What a completion does, whichever it is: the queue of the action becomes free,
\* is paused, or is left in the processing state and looked at once more.
LEMMA ServingReturn ==
  ASSUME TypeOK, Serving, NEW a \in Action, NEW o, Return(a, o),
         NEW q \in Queue, q = QueueOf[a], UNCHANGED <<workQueue, unpausing, picked>>,
         \/ /\ db' = db \ {a} /\ queueState' = [queueState EXCEPT ![q] = NoState]
            /\ \A r \in Caller : todo'[r] = todo[r]
         \/ /\ db' = db /\ queueState' = [queueState EXCEPT ![q] = Paused(a)]
            /\ \A r \in Caller : todo'[r] = todo[r]
         \/ /\ db' = db /\ queueState' = queueState
            /\ \A r \in Caller : todo'[r] = todo[r] \/ todo'[r] = {q}
  PROVE  Serving'
<1>1. /\ running[a] = 1 /\ queueState[q] = Processing(a)
      /\ running' = [running EXCEPT ![a] = @ - 1]
  BY DEF Return, Serving, RunsFirst
<1>2. /\ queueState'[q] \in {NoState, Paused(a), Processing(a)}
      /\ db' # db => queueState'[q] = NoState
      /\ queueState'[q] # NoState => db' = db
      /\ \A r \in Queue : r # q => queueState'[r] = queueState[r]
  BY <1>1, Modes DEF TypeOK
<1>3. /\ running'[a] = 0
      /\ \A b \in Action : b # a => running'[b] = running[b]
      /\ \A b \in Action : QueueOf[b] = q => running'[b] = 0
  <2>1. running'[a] = 0 /\ \A b \in Action : b # a => running'[b] = running[b]
    BY <1>1 DEF TypeOK
  <2>2. ASSUME NEW b \in Action, QueueOf[b] = q, b # a PROVE running[b] = 0
    <3>1. running[b] > 0 => queueState[q] = Processing(b)
      BY <2>2 DEF Serving, RunsFirst
    <3>2. Processing(b) # Processing(a)
      BY <2>2, Modes
    <3>3. running[b] \in Nat
      BY DEF TypeOK
    <3>4. QED
      BY <1>1, <3>1, <3>2, <3>3
  <2>3. QED
    BY <2>1, <2>2
<1>4. db' \subseteq db /\ \A b \in db : QueueOf[b] # q => b \in db'
  OBVIOUS
<1>5. RunsFirst'
  <2> SUFFICES ASSUME NEW b \in Action, running'[b] > 0
               PROVE  running'[b] = 1 /\ queueState'[QueueOf[b]] = Processing(b)
    BY DEF RunsFirst
  <2>1. QueueOf[b] # q /\ QueueOf[b] \in Queue
    BY <1>3, QueueOfType
  <2>2. b # a
    BY <2>1
  <2>3. QED
    BY <1>2, <1>3, <2>1, <2>2 DEF Serving, RunsFirst
<1>6. PicksFree'
  <2> SUFFICES ASSUME NEW r \in Thread, NEW b \in picked[r]
               PROVE  /\ r = "workQueue" /\ picked[r] = {b}
                      /\ IsFirst(b, QueueOf[b])' /\ queueState'[QueueOf[b]].mode = "none"
    BY DEF PicksFree
  <2>1. /\ r = "workQueue" /\ picked[r] = {b} /\ b \in Action
        /\ IsFirst(b, QueueOf[b]) /\ queueState[QueueOf[b]].mode = "none"
    BY DEF Serving, PicksFree, TypeOK
  <2>2. QueueOf[b] # q /\ QueueOf[b] \in Queue
    BY <1>1, <2>1, Modes, QueueOfType
  <2>3. b \in db'
    BY <1>4, <2>1, <2>2 DEF IsFirst, Stored
  <2>4. IsFirst(b, QueueOf[b])'
    BY <1>4, <2>1, <2>3 DEF IsFirst, Stored
  <2>5. QED
    BY <1>2, <2>1, <2>2, <2>4
<1>7. StandsAtFirst'
  <2> SUFFICES ASSUME NEW r \in Queue, queueState'[r].mode # "none",
                      NEW b, b = queueState'[r].item
               PROVE  IsFirst(b, r)'
    BY DEF StandsAtFirst, IsFirst, Stored
  <2>1. CASE r = q
    <3>1. b = a /\ db' = db
      BY <1>2, <2>1, Modes
    <3>2. IsFirst(a, q)
      BY <1>1, Modes DEF Serving, StandsAtFirst
    <3>3. QED
      BY <2>1, <3>1, <3>2 DEF IsFirst, Stored
  <2>2. CASE r # q
    <3>1. IsFirst(b, r)
      BY <1>2, <2>2 DEF Serving, StandsAtFirst
    <3>2. b \in db'
      BY <1>4, <2>2, <3>1 DEF IsFirst, Stored
    <3>3. QED
      BY <1>4, <3>1, <3>2, FirstKept
  <2>3. QED
    BY <2>1, <2>2
<1>8. UnpausesPaused'
  <2> SUFFICES ASSUME NEW r \in Thread, NEW p \in unpausing[r]
               PROVE  r = "workQueue" /\ queueState'[p].mode = "paused"
    BY DEF UnpausesPaused
  <2>1. r = "workQueue" /\ queueState[p].mode = "paused" /\ p \in Queue
    BY DEF Serving, UnpausesPaused, TypeOK
  <2>2. p # q
    BY <1>1, <2>1, Modes
  <2>3. QED
    BY <1>2, <2>1, <2>2
<1>9. CallersWait'
  <2> SUFFICES ASSUME NEW r \in Caller, NEW p \in todo'[r]
               PROVE  queueState'[p].mode = "processing" /\ running'[queueState'[p].item] = 0
    BY DEF CallersWait
  <2>1. CASE p \in todo[r]
    <3>1. p \in Queue /\ queueState[p].mode = "processing" /\ running[queueState[p].item] = 0
      BY <2>1, CallerType DEF Serving, CallersWait, TypeOK, Thread
    <3>2. p # q
      BY <1>1, <3>1, Modes
    <3>3. queueState'[p] = queueState[p]
      BY <1>2, <3>1, <3>2
    <3>4. queueState[p].item \in Action /\ QueueOf[queueState[p].item] = p
      BY <3>1 DEF Serving, StandsAtFirst, IsFirst, Stored, TypeOK
    <3>5. running'[queueState[p].item] = 0
      BY <1>3, <3>1, <3>2, <3>4
    <3>6. QED
      BY <3>1, <3>3, <3>5
  <2>2. CASE p \notin todo[r]
    <3>1. p = q /\ queueState' = queueState
      BY <2>2
    <3>2. QED
      BY <1>1, <1>3, <3>1, Modes
  <2>3. QED
    BY <2>1, <2>2
<1>10. ScansNew'
  BY <1>4, ScansKept DEF Serving
<1>11. QED
  BY <1>5, <1>6, <1>7, <1>8, <1>9, <1>10 DEF Serving

\* A completion keeps a queue served in turn.
LEMMA ServingComplete ==
  ASSUME TypeOK, Serving, NEW a \in Action, Complete(a)
  PROVE  Serving'
<1>1. QueueOf[a] \in Queue /\ \A r \in Caller : r \in Thread
  BY QueueOfType DEF Thread
<1>2. CASE Succeed(a)
  BY <1>1, <1>2, ServingReturn DEF Succeed
<1>3. CASE RetryLater(a)
  BY <1>1, <1>3, ServingReturn DEF RetryLater
<1>4. CASE RetryManually(a)
  BY <1>1, <1>4, ServingReturn DEF RetryManually
<1>5. ASSUME NEW t \in Caller, RetryNow(a, t) PROVE Serving'
  <2>1. \A r \in Caller : todo'[r] = todo[r] \/ todo'[r] = {QueueOf[a]}
    BY <1>1, <1>5 DEF RetryNow, TypeOK
  <2>2. QED
    BY <1>1, <1>5, <2>1, ServingReturn DEF RetryNow
<1>6. QED
  BY <1>2, <1>3, <1>4, <1>5 DEF Complete

\* The first save finds nothing moving.
LEMMA ServingAtRest ==
  ASSUME AtRest
  PROVE  Serving
<1>1. /\ \A q \in Queue : queueState[q].mode = "none"
      /\ \A a \in Action : running[a] = 0
      /\ \A t \in Thread : unpausing[t] = {} /\ picked[t] = {} /\ todo[t] = {}
      /\ Len(workQueue) = 0
  BY Modes DEF AtRest, Nothing, Zero
<1>2. RunsFirst
  BY <1>1 DEF RunsFirst
<1>3. PicksFree /\ UnpausesPaused
  BY <1>1 DEF PicksFree, UnpausesPaused
<1>4. CallersWait
  BY <1>1 DEF CallersWait, Thread
<1>5. StandsAtFirst
  BY <1>1 DEF StandsAtFirst
<1>6. ScansNew
  BY <1>1 DEF ScansNew
<1>7. QED
  BY <1>2, <1>3, <1>4, <1>5, <1>6 DEF Serving

\* The first save begins to serve the queues in turn.
LEMMA ServingSave ==
  ASSUME TypeOK, AtRest, NEW S, Save(S)
  PROVE  Serving'
<1>1. UNCHANGED <<queueState, workQueue, todo, unpausing, picked, running>>
  BY DEF Save
<1>2. /\ \A q \in Queue : queueState'[q].mode = "none"
      /\ \A a \in Action : running'[a] = 0
      /\ \A t \in Thread : unpausing'[t] = {} /\ picked'[t] = {} /\ todo'[t] = {}
      /\ Len(workQueue') = 0
  BY <1>1, Modes DEF AtRest, Nothing, Zero
<1>3. RunsFirst'
  BY <1>2 DEF RunsFirst
<1>4. PicksFree' /\ UnpausesPaused'
  BY <1>2 DEF PicksFree, UnpausesPaused
<1>5. CallersWait'
  BY <1>2 DEF CallersWait, Thread
<1>6. StandsAtFirst'
  BY <1>2 DEF StandsAtFirst
<1>7. ScansNew'
  BY <1>2 DEF ScansNew
<1>8. QED
  BY <1>3, <1>4, <1>5, <1>6, <1>7 DEF Serving

\* Nothing happens before the first save.
LEMMA RestStays ==
  ASSUME TypeOK, AtRest, [Next]_vars, UNCHANGED vars \/ Internal
  PROVE  AtRest'
<1>1. /\ notifications = 0 /\ workQueue = <<>>
      /\ \A a \in Action : running[a] = 0
      /\ \A t \in Thread : unpausing[t] = {} /\ picked[t] = {} /\ todo[t] = {}
      /\ \A q \in Queue : rechecks[q] = 0 /\ timers[q] = 0
  BY DEF AtRest, Nothing, Zero
<1>2. ~Internal
  BY <1>1
     DEF Internal, ReadGroups, ScanGroups, TakeCheck, TakeRestart, Unpause, CheckQueue, HandOver,
         Recheck, TimerFires, Complete, Return, Succeed, RetryLater, RetryManually, RetryNow
<1>3. UNCHANGED vars
  BY <1>2
<1>4. QED
  BY <1>3 DEF vars, AtRest

\* Every step keeps the queues served in turn.
LEMMA DrainingStep == TypeOK /\ Draining /\ [Next]_vars => Draining'
<1> SUFFICES ASSUME TypeOK, Draining, [Next]_vars PROVE Draining'
  OBVIOUS
<1>1. OwnItem' /\ Within'
  BY OwnItemStep, QuietSteps DEF Draining
<1> SUFFICES ASSUME Quiet'
             PROVE  Serving' /\ (budget'["save"] = Budget["save"] => AtRest')
  BY <1>1 DEF Draining
<1>2. Quiet /\ Serving /\ OwnItem /\ (budget["save"] = Budget["save"] => AtRest)
  BY QuietSteps DEF Draining
<1>3. CASE UNCHANGED vars
  <2>1. Serving'
    BY <1>2, <1>3
       DEF vars, Serving, RunsFirst, PicksFree, StandsAtFirst, UnpausesPaused, CallersWait, ScansNew,
           IsFirst, Stored, Groups
  <2>2. QED
    BY <1>2, <1>3, <2>1, RestStays DEF vars
<1>4. CASE UNCHANGED budget /\ Internal
  <2>1. Serving'
    BY <1>2, <1>4, ServingScan, ServingJobs, ServingRestart, ServingUnpause, ServingCheck,
       ServingHandOver, ServingComplete DEF Internal
  <2>2. QED
    BY <1>2, <1>4, <2>1, RestStays
<1>5. CASE /\ \E S \in SUBSET Action : Save(S)
           /\ budget["save"] = Budget["save"] /\ budget'["save"] # Budget["save"]
  BY <1>2, <1>5, ServingSave
<1>6. QED
  BY <1>3, <1>4, <1>5, QuietSteps DEF Draining

\* Nothing moves in the beginning.
LEMMA InitDraining == Init => Draining
<1> SUFFICES ASSUME Init PROVE Draining
  OBVIOUS
<1>1. AtRest
  BY DEF Init, AtRest
<1>2. Serving
  BY <1>1, ServingAtRest
<1>3. Within
  BY BudgetType DEF Init, Within
<1>4. OwnItem
  BY InitBacked
<1>5. QED
  BY <1>1, <1>2, <1>3, <1>4 DEF Draining

\* "so that only one item at a time is being executed": it is so as long as a
\* single transaction has saved actions and nothing was deleted or restarted
\* from outside, for any actions and queues, whatever the handler answers and
\* however the threads interleave.
THEOREM DrainsInTurn == Spec => []DrainsOneAtATime
<1>1. TypeOK /\ Draining => DrainsOneAtATime
  <2> SUFFICES ASSUME Draining, Quiet, NEW a \in Action, NEW b \in Action,
                      QueueOf[a] = QueueOf[b], running[a] > 0, running[b] > 0
               PROVE  a = b /\ running[a] = 1
    BY DEF DrainsOneAtATime, OneAtATime, Quiet
  <2>1. /\ running[a] = 1
        /\ queueState[QueueOf[a]] = Processing(a) /\ queueState[QueueOf[a]] = Processing(b)
    BY DEF Draining, Serving, RunsFirst
  <2>2. Processing(a).item = Processing(b).item
    BY <2>1
  <2>3. a = b
    BY <2>2, Modes
  <2>4. QED
    BY <2>1, <2>3
<1>2. QED
  BY <1>1, TypeCorrect, InitDraining, DrainingStep, PTL DEF Spec
=============================================================================
