--------------------------- MODULE TaskQueueBroker ---------------------------
(***************************************************************************)
(* YapTaskQueueBroker: the view on the action database that hands the      *)
(* first action of every queue to a handler, one queue independent of the  *)
(* other, and removes the action once the handler reports success.         *)
(*                                                                         *)
(* The handler is the environment here: a handed action runs until its     *)
(* completion block is called with one of Outcomes.  MessageQueueHandler   *)
(* models the handler the application installs.                            *)
(***************************************************************************)
EXTENDS Integers, Sequences, FiniteSets

(* Definitions marked "Fault:" are plausible bugs in the definition that   *)
(* follows them.  They are not part of the model; each shows that one of   *)
(* the properties can fail.                                                *)

CONSTANTS
  Action,      \* what can be stored; an action is identified by key + collection
  Queue,       \* queue names (groups of the view)
  QueueOf,     \* queueName() of an action
  Date,        \* its place in the order of sort(_:)
  Caller,      \* threads other than the workQueue that run checkQueue
  Outcomes,    \* the ways the handler calls completion
  Leftover,    \* actions an earlier launch may have left in the database
  Budget       \* how often each bounded environment step may happen

EnvStep == {"save", "delete", "relaunch", "restart"}
AllOutcomes == {"success", "retryNow", "retryLater", "retryManually"}

ASSUME QueueOfType  == QueueOf \in [Action -> Queue]
ASSUME DateType     == Date \in [Action -> Nat]
ASSUME DateIsOrder  == \A a, b \in Action :
                         QueueOf[a] = QueueOf[b] /\ Date[a] = Date[b] => a = b
ASSUME OutcomesType == Outcomes \subseteq AllOutcomes
ASSUME LeftoverType == Leftover \subseteq Action
ASSUME BudgetType   == Budget \in [EnvStep -> Nat]
ASSUME CallerType   == IsFiniteSet(Caller) /\ "workQueue" \notin Caller

VARIABLES
  db,             \* the actions in the database, hence in the view
  queueState,     \* currentState: what the broker believes of each queue
  workQueue,      \* blocks waiting on the serial workQueue
  todo,           \* per thread: queues it still has to run checkQueue on
  unpausing,      \* per thread: queue whose paused state it is about to clear
  picked,         \* per thread: action chosen by checkQueue, not yet handed over
  running,        \* how many calls of handleNextItem are open for each action
  timers,         \* armed asyncAfter blocks of each queue
  rechecks,       \* completions that removed their action, workQueue.async to come
  notifications,  \* YapDatabaseModified posts that report a change of the view
  changed,        \* history: the view has changed since the process started
  abandoned,      \* history: actions whose completion asked for no further try
  budget          \* bound: what is left of Budget

vars == <<db, queueState, workQueue, todo, unpausing, picked, running, timers,
          rechecks, notifications, changed, abandoned, budget>>

Thread == {"workQueue"} \cup Caller

\* enum QueueState, nil being the absence of an entry in currentState
NoState == [mode |-> "none"]
Processing(a) == [mode |-> "processing", item |-> a]
Paused(a) == [mode |-> "paused", item |-> a]
QueueState == {NoState} \cup [mode : {"processing", "paused"}, item : Action]

\* A block on the workQueue: the completion of checkForActions with the groups
\* it read, a checkQueue, or a restartQueueIfPaused.
Job == [kind : {"scan", "check", "restart"}, groups : SUBSET Queue]

Idle(t) == todo[t] = {} /\ unpausing[t] = {} /\ picked[t] = {}

Stored(q) == {a \in db : QueueOf[a] = q}

\* Fault: the view sorts newest first
IsLast(a, q) == a \in Stored(q) /\ \A b \in Stored(q) : Date[b] <= Date[a]

\* firstObject(inGroup:) of a view sorted by sort(_:)
IsFirst(a, q) == a \in Stored(q) /\ \A b \in Stored(q) : Date[a] <= Date[b]

\* viewTransaction.allGroups(): the queues that hold an action
Groups == {QueueOf[a] : a \in db}

\* A commit that changes the view posts one notification
Notify == notifications' = notifications + 1 /\ changed' = TRUE

Spend(step) == budget[step] > 0 /\ budget' = [budget EXCEPT ![step] = @ - 1]

-----------------------------------------------------------------------------
Nothing(S) == [x \in S |-> {}]
Zero(S) == [x \in S |-> 0]

\* didRegister: the observer is added, nothing is checked
Init ==
  /\ db \in SUBSET Leftover
  /\ queueState = [q \in Queue |-> NoState]
  /\ workQueue = <<>>
  /\ todo = Nothing(Thread) /\ unpausing = Nothing(Thread) /\ picked = Nothing(Thread)
  /\ running = Zero(Action)
  /\ timers = Zero(Queue) /\ rechecks = Zero(Queue)
  /\ notifications = 0 /\ changed = FALSE /\ abandoned = {}
  /\ budget = Budget

\* Fault: the wrong case of the enum
StoppedIn(S) == {q \in S : queueState[q].mode = "processing"}

\* restartQueueIfPaused reads the state; any paused state will do, whichever
\* completion armed the timer.
PausedIn(S) == {q \in S : queueState[q].mode = "paused"}

RestartIfPaused(t, S) ==
  /\ unpausing' = [unpausing EXCEPT ![t] = PausedIn(S)]
  /\ todo' = [todo EXCEPT ![t] = S \ PausedIn(S)]

-----------------------------------------------------------------------------
(* The rest of the program: saves and deletes actions, is killed.          *)

\* One transaction saves some actions.  An action is dated when it is saved,
\* so it sorts behind what its queue already holds.
Save(S) ==
  /\ Spend("save")
  /\ S # {}
  /\ \A a \in S, b \in db : QueueOf[a] = QueueOf[b] => Date[b] < Date[a]
  /\ db' = db \cup S
  /\ Notify
  /\ UNCHANGED <<queueState, workQueue, todo, unpausing, picked, running,
                 timers, rechecks, abandoned>>

\* An action disappears without the broker, e.g. with the message it sends.
Delete(a) ==
  /\ Spend("delete")
  /\ a \in db
  /\ db' = db \ {a}
  /\ Notify
  /\ UNCHANGED <<queueState, workQueue, todo, unpausing, picked, running,
                 timers, rechecks, abandoned>>

\* The process is killed and started again: only the database survives, and
\* the persistent view is not populated anew.
Relaunch ==
  /\ Spend("relaunch")
  /\ queueState' = [q \in Queue |-> NoState]
  /\ workQueue' = <<>>
  /\ todo' = Nothing(Thread) /\ unpausing' = Nothing(Thread) /\ picked' = Nothing(Thread)
  /\ running' = Zero(Action)
  /\ timers' = Zero(Queue) /\ rechecks' = Zero(Queue)
  /\ notifications' = 0 /\ changed' = FALSE /\ abandoned' = {}
  /\ UNCHANGED db

\* restartQueues called by some other thread
RestartQueues(t, q) ==
  /\ Spend("restart")
  /\ t \in Caller
  /\ Idle(t)
  /\ RestartIfPaused(t, {q})
  /\ UNCHANGED <<db, queueState, workQueue, picked, running, timers, rechecks,
                 notifications, changed, abandoned>>

-----------------------------------------------------------------------------
(* The broker.                                                             *)

\* processDatabaseNotification -> checkForActions: a transaction reads the
\* groups, and its completion block is queued with them.
ReadGroups ==
  /\ notifications > 0
  /\ notifications' = notifications - 1
  /\ workQueue' = Append(workQueue, [kind |-> "scan", groups |-> Groups])
  /\ UNCHANGED <<db, queueState, todo, unpausing, picked, running, timers,
                 rechecks, changed, abandoned, budget>>

\* The completion block of checkForActions clears the state of the queues that
\* are not among the groups it was given.  It reads currentState without the
\* isolationQueue, so it may miss an entry whose write is still in flight.
ScanGroups ==
  /\ Idle("workQueue") /\ workQueue # <<>> /\ Head(workQueue).kind = "scan"
  /\ workQueue' = Tail(workQueue)
  /\ todo' = [todo EXCEPT !["workQueue"] = Head(workQueue).groups]
  /\ \E keys \in SUBSET {q \in Queue : queueState[q].mode # "none"} :
       queueState' = [q \in Queue |->
                        IF q \in keys \ Head(workQueue).groups
                          THEN NoState ELSE queueState[q]]
  /\ UNCHANGED <<db, unpausing, picked, running, timers, rechecks,
                 notifications, changed, abandoned, budget>>

\* workQueue.async { checkQueue }
TakeCheck ==
  /\ Idle("workQueue") /\ workQueue # <<>> /\ Head(workQueue).kind = "check"
  /\ workQueue' = Tail(workQueue)
  /\ todo' = [todo EXCEPT !["workQueue"] = Head(workQueue).groups]
  /\ UNCHANGED <<db, queueState, unpausing, picked, running, timers, rechecks,
                 notifications, changed, abandoned, budget>>

\* workQueue.asyncAfter { restartQueueIfPaused }
TakeRestart ==
  /\ Idle("workQueue") /\ workQueue # <<>> /\ Head(workQueue).kind = "restart"
  /\ workQueue' = Tail(workQueue)
  /\ RestartIfPaused("workQueue", Head(workQueue).groups)
  /\ UNCHANGED <<db, queueState, picked, running, timers, rechecks,
                 notifications, changed, abandoned, budget>>

\* Fault: the state is cleared but the queue is not checked
UnpauseOnly(t, q) ==
  /\ q \in unpausing[t]
  /\ queueState' = [queueState EXCEPT ![q] = NoState]
  /\ unpausing' = [unpausing EXCEPT ![t] = @ \ {q}]
  /\ UNCHANGED <<db, workQueue, todo, picked, running, timers, rechecks,
                 notifications, changed, abandoned, budget>>

\* restartQueueIfPaused clears the state it read before checkQueue
Unpause(t, q) ==
  /\ q \in unpausing[t]
  /\ queueState' = [queueState EXCEPT ![q] = NoState]
  /\ unpausing' = [unpausing EXCEPT ![t] = @ \ {q}]
  /\ todo' = [todo EXCEPT ![t] = @ \cup {q}]
  /\ UNCHANGED <<db, workQueue, picked, running, timers, rechecks,
                 notifications, changed, abandoned, budget>>

\* Fault: the first action is taken whatever the state of the queue
CheckQueueBlindly(t, q) ==
  /\ q \in todo[t] /\ picked[t] = {}
  /\ todo' = [todo EXCEPT ![t] = @ \ {q}]
  /\ picked' = [picked EXCEPT ![t] = {a \in db : IsFirst(a, q)}]
  /\ UNCHANGED <<db, queueState, workQueue, unpausing, running, timers, rechecks,
                 notifications, changed, abandoned, budget>>

\* checkQueue, its transaction: choose the first action of the queue unless it
\* is the one being processed or paused; forget the state of an empty queue.
CheckQueue(t, q) ==
  /\ q \in todo[t] /\ picked[t] = {}
  /\ todo' = [todo EXCEPT ![t] = @ \ {q}]
  /\ \/ \E a \in db :
          /\ IsFirst(a, q)
          /\ picked' = [picked EXCEPT ![t] =
               IF queueState[q] \in {Processing(a), Paused(a)} THEN {} ELSE {a}]
          /\ UNCHANGED queueState
     \/ /\ Stored(q) = {}
        /\ queueState' = [queueState EXCEPT ![q] = NoState]
        /\ UNCHANGED picked
  /\ UNCHANGED <<db, workQueue, unpausing, running, timers, rechecks,
                 notifications, changed, abandoned, budget>>

\* checkQueue, after its transaction: record the action and hand it over
HandOver(t, a) ==
  /\ a \in picked[t]
  /\ picked' = [picked EXCEPT ![t] = @ \ {a}]
  /\ queueState' = [queueState EXCEPT ![QueueOf[a]] = Processing(a)]
  /\ running' = [running EXCEPT ![a] = @ + 1]
  /\ abandoned' = abandoned \ {a}
  /\ UNCHANGED <<db, workQueue, todo, unpausing, timers, rechecks,
                 notifications, changed, budget>>

-----------------------------------------------------------------------------
(* The completion block given to the handler.                              *)

\* Fault: completion can be called again after it was called
ReturnAgain(a, outcome) ==
  /\ outcome \in Outcomes
  /\ running' = [running EXCEPT ![a] = @ - 1]

Return(a, outcome) ==
  /\ outcome \in Outcomes
  /\ running[a] > 0
  /\ running' = [running EXCEPT ![a] = @ - 1]

\* completion(true, _): one transaction removes the action and its state
Succeed(a) ==
  /\ Return(a, "success")
  /\ db' = db \ {a}
  /\ queueState' = [queueState EXCEPT ![QueueOf[a]] = NoState]
  /\ rechecks' = [rechecks EXCEPT ![QueueOf[a]] = @ + 1]
  /\ IF a \in db THEN Notify ELSE UNCHANGED <<notifications, changed>>
  /\ UNCHANGED <<workQueue, todo, unpausing, picked, timers, abandoned,
                 budget>>

\* ... after which the same thread queues a checkQueue
Recheck(q) ==
  /\ rechecks[q] > 0
  /\ rechecks' = [rechecks EXCEPT ![q] = @ - 1]
  /\ workQueue' = Append(workQueue, [kind |-> "check", groups |-> {q}])
  /\ UNCHANGED <<db, queueState, todo, unpausing, picked, running, timers,
                 notifications, changed, abandoned, budget>>

\* completion(false, 0): the handler's thread runs checkQueue itself
RetryNow(a, t) ==
  /\ Return(a, "retryNow")
  /\ t \in Caller
  /\ Idle(t)
  /\ todo' = [todo EXCEPT ![t] = {QueueOf[a]}]
  /\ abandoned' = abandoned \cup {a}
  /\ UNCHANGED <<db, queueState, workQueue, unpausing, picked, timers, rechecks,
                 notifications, changed, budget>>

\* Fault: pause without arming the timer
PauseOnly(a) ==
  /\ Return(a, "retryLater")
  /\ queueState' = [queueState EXCEPT ![QueueOf[a]] = Paused(a)]
  /\ UNCHANGED <<db, workQueue, todo, unpausing, picked, timers, rechecks,
                 notifications, changed, abandoned, budget>>

\* completion(false, timeout): pause, and arm a timer for the queue
RetryLater(a) ==
  /\ Return(a, "retryLater")
  /\ queueState' = [queueState EXCEPT ![QueueOf[a]] = Paused(a)]
  /\ timers' = [timers EXCEPT ![QueueOf[a]] = @ + 1]
  /\ UNCHANGED <<db, workQueue, todo, unpausing, picked, rechecks,
                 notifications, changed, abandoned, budget>>

\* completion(false, t) with t negative or beyond the clock: pause for good
RetryManually(a) ==
  /\ Return(a, "retryManually")
  /\ queueState' = [queueState EXCEPT ![QueueOf[a]] = Paused(a)]
  /\ abandoned' = abandoned \cup {a}
  /\ UNCHANGED <<db, workQueue, todo, unpausing, picked, timers, rechecks,
                 notifications, changed, budget>>

\* The deadline of an asyncAfter passes: its block is queued
TimerFires(q) ==
  /\ timers[q] > 0
  /\ timers' = [timers EXCEPT ![q] = @ - 1]
  /\ workQueue' = Append(workQueue, [kind |-> "restart", groups |-> {q}])
  /\ UNCHANGED <<db, queueState, todo, unpausing, picked, running, rechecks,
                 notifications, changed, abandoned, budget>>

-----------------------------------------------------------------------------
CheckerStep(t) == \/ \E q \in Queue : Unpause(t, q) \/ CheckQueue(t, q)
                  \/ \E a \in Action : HandOver(t, a)

WorkStep == CheckerStep("workQueue") \/ ScanGroups \/ TakeCheck \/ TakeRestart

Complete(a) == \/ Succeed(a) \/ RetryLater(a) \/ RetryManually(a)
               \/ \E t \in Caller : RetryNow(a, t)

Environment ==
  \/ \E S \in SUBSET Action : Save(S)
  \/ \E a \in Action : Delete(a)
  \/ \E t \in Caller, q \in Queue : RestartQueues(t, q)
  \/ Relaunch

Next ==
  \/ Environment
  \/ ReadGroups
  \/ WorkStep
  \/ \E t \in Caller : CheckerStep(t)
  \/ \E q \in Queue : Recheck(q) \/ TimerFires(q)
  \/ \E a \in Action : Complete(a)

Spec == Init /\ [][Next]_vars

\* Dispatch queues run what they are given, timers fire, the handler calls
\* every completion, and does not report failure for ever.  Nothing obliges
\* the rest of the program to save, delete, restart or relaunch.
Fairness ==
  /\ WF_vars(ReadGroups)
  /\ WF_vars(WorkStep)
  /\ \A t \in Caller : WF_vars(CheckerStep(t))
  /\ \A q \in Queue : WF_vars(Recheck(q)) /\ WF_vars(TimerFires(q))
  /\ \A a \in Action : WF_vars(Complete(a)) /\ SF_vars(Succeed(a))

FairSpec == Spec /\ Fairness

-----------------------------------------------------------------------------
\* Every variable stays within the types the Swift declarations give it.
TypeOK ==
  /\ db \subseteq Action
  /\ queueState \in [Queue -> QueueState]
  /\ workQueue \in Seq(Job)
  /\ todo \in [Thread -> SUBSET Queue]
  /\ unpausing \in [Thread -> SUBSET Queue]
  /\ picked \in [Thread -> SUBSET Action]
  /\ running \in [Action -> Nat]
  /\ timers \in [Queue -> Nat]
  /\ rechecks \in [Queue -> Nat]
  /\ notifications \in Nat
  /\ changed \in BOOLEAN
  /\ abandoned \subseteq Action
  /\ budget \in [EnvStep -> Nat]

\* A block that will look at the queue, or restart it, waits on the workQueue.
Queued(q) == \E i \in 1 .. Len(workQueue) : q \in workQueue[i].groups
RestartQueued(q) ==
  \E i \in 1 .. Len(workQueue) :
    workQueue[i].kind = "restart" /\ q \in workQueue[i].groups

\* An entry of currentState is what makes checkQueue leave a queue alone, so it
\* may never outlive the thing that will remove it: a processing entry has an
\* open call of the handler for that very action, a paused entry a timer, a
\* queued restart, or a thread about to clear it.  The exceptions are the actions
\* the handler abandoned: completion(false, 0) leaves the processing entry
\* behind, and a pause without a timer waits for restartQueues.
StateIsBacked ==
  \A q \in Queue :
    /\ queueState[q].mode = "processing" =>
         running[queueState[q].item] > 0 \/ queueState[q].item \in abandoned
    /\ queueState[q].mode = "paused" =>
         \/ timers[q] > 0
         \/ RestartQueued(q)
         \/ \E t \in Thread : q \in unpausing[t]
         \/ queueState[q].item \in abandoned

\* Something is on its way that will run checkQueue(q) again.
Attended(q) ==
  \/ notifications > 0
  \/ Queued(q)
  \/ \E t \in Thread : \/ q \in todo[t] \cup unpausing[t]
                       \/ \E a \in picked[t] : QueueOf[a] = q
  \/ rechecks[q] > 0
  \/ timers[q] > 0
  \/ \E a \in Action : QueueOf[a] = q /\ running[a] > 0

\* The handler abandoned the action the queue stands at: the queue stays paused,
\* or is left in the processing state by completion(false, 0).
ParkedByHandler(q) ==
  queueState[q].mode # "none" /\ queueState[q].item \in abandoned

\* Once the view has changed since launch, no queue that holds an action is
\* forgotten: whatever the order of saves, deletions, stale scans, completions
\* and timers, a call of checkQueue for it is pending or the handler owes one.
NoStall == changed => \A q \in Groups : Attended(q) \/ ParkedByHandler(q)

\* What makes NoStall inductive.  An entry of currentState names an action of its
\* own queue; and a scan that was queued before a queue got its actions, which
\* will clear that queue's entry, is followed by something that looks again.
OwnItem ==
  \A q \in Queue : queueState[q].mode # "none" => QueueOf[queueState[q].item] = q

NothingMissed ==
  changed => \A q \in Groups, i \in 1 .. Len(workQueue) :
    workQueue[i].kind = "scan" /\ q \notin workQueue[i].groups =>
      \/ notifications > 0
      \/ \E j \in i + 1 .. Len(workQueue) : q \in workQueue[j].groups

IInv == TypeOK /\ OwnItem /\ StateIsBacked /\ NothingMissed /\ NoStall

\* "so that only one item at a time is being executed": a queue never has two
\* open calls of the handler.
OneAtATime ==
  \A a, b \in Action :
    QueueOf[a] = QueueOf[b] /\ running[a] > 0 /\ running[b] > 0
      => a = b /\ running[a] = 1

\* As long as a single transaction has saved actions and nothing was deleted or
\* restarted from outside, the broker does keep to one item at a time.
DrainsOneAtATime ==
  /\ budget["save"] >= Budget["save"] - 1
  /\ \A step \in EnvStep \ {"save"} : budget[step] = Budget[step]
  => OneAtATime

\* Once the view has changed since launch, every stored action is eventually
\* done or deleted, unless the process is killed first or the handler has asked
\* that its queue be restarted by hand.
EventuallyServed ==
  \A a \in Action :
    (changed /\ a \in db) ~>
      (a \notin db \/ ~changed \/ ParkedByHandler(QueueOf[a]))

\* The abstract queue.  An attempt at an action begins when checkQueue chooses
\* it and lasts until the handler's completion is called.
Attempts == [a \in Action |->
               running[a] + Cardinality({t \in Thread : a \in picked[t]})]

\* The queues the handler has set aside.
Parked == {q \in Queue : ParkedByHandler(q)}

Abstract == INSTANCE AtLeastOnceQueue
              WITH store <- db, attempts <- Attempts, live <- changed,
                   parked <- Parked

\* Every behaviour of the broker is one of the at-least-once queue.
ImplementsQueue == Abstract!SafeSpec

\* With the fairness of the dispatch queues and of the handler, it also keeps
\* the queue's promise that an idle queue is attempted again.
ImplementsFairQueue == Abstract!Spec
=============================================================================
