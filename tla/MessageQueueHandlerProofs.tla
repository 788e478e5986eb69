--------------------- MODULE MessageQueueHandlerProofs ---------------------
(***************************************************************************)
(* Proofs about MessageQueueHandler for any actions, kinds, threads, dates *)
(* and budgets: its types, then what becomes of the completion block of    *)
(* each call and of each message.                                          *)
(***************************************************************************)
EXTENDS MessageQueueHandler, SequenceTheorems, TLAPS

-----------------------------------------------------------------------------
(* Types, one part per variable or small group of variables.               *)

OpenedType == opened \in Seq(Action) /\ Len(opened) <= MaxCalls
StoredType == queued \subseteq Action /\ messages \subseteq Action
CompletionsType == completions \in [Call -> Nat]
ThreadsType == threads \subseteq [call : DOMAIN opened, at : Place]
AccountsType == outstandingAccounts \subseteq DOMAIN opened /\ lost \subseteq DOMAIN opened
BuddiesType == outstandingBuddies \in [Thread -> {NoCall} \cup DOMAIN opened]
EntriesType ==
  outstandingMessages \subseteq
    [action : Action, in : {"room", "outgoing"}, call : DOMAIN opened]
TimersType == timers \in [Call -> Nat]
StanzasType ==
  /\ preparing \subseteq DOMAIN opened /\ outbox \subseteq DOMAIN opened
  /\ answers \subseteq [call : DOMAIN opened, sent : BOOLEAN]
LoginType ==
  /\ autologin \in Autologin /\ wordless \in Wordless
  /\ loginStatus \in {"disconnected", "connecting", "authenticated", "disconnecting"}
  /\ stream \in {"down", "opening", "authenticated"}
  /\ logins \in Nat
SessionsType ==
  encrypted \subseteq Thread /\ negotiating \subseteq Thread /\ sessionPosts \in [Thread -> Nat]
HistoryType ==
  /\ roomState \in [Action -> {"needsSending", "pendingSent", "sent"}]
  /\ timedOut \subseteq Action
  /\ wire \in [Action -> Nat]
BudgetLeft == budget \in [EnvStep -> Nat]

Parts ==
  /\ OpenedType /\ StoredType /\ CompletionsType /\ ThreadsType /\ AccountsType
  /\ BuddiesType /\ EntriesType /\ TimersType /\ StanzasType /\ LoginType
  /\ SessionsType /\ HistoryType /\ BudgetLeft

\* The type invariant is the conjunction of its parts.
LEMMA TypeOKIsParts == TypeOK <=> Parts
BY DEF TypeOK, Parts, OpenedType, StoredType, CompletionsType, ThreadsType, AccountsType,
       BuddiesType, EntriesType, TimersType, StanzasType, LoginType, SessionsType,
       HistoryType, BudgetLeft

\* Calls are numbered from 1, and each got an action.
LEMMA OpenedCalls ==
  ASSUME OpenedType
  PROVE  /\ DOMAIN opened = 1..Len(opened) /\ Len(opened) \in Nat
         /\ DOMAIN opened \subseteq Call /\ NoCall \notin DOMAIN opened
         /\ \A c \in DOMAIN opened : opened[c] \in Action
BY MaxCallsType, LenProperties DEF OpenedType, Call, NoCall

\* The call that HandOver opens is a new one.
LEMMA OpenedNext ==
  ASSUME OpenedType, NEW a \in Action, HandOver(a)
  PROVE  LET c == Len(opened) + 1
         IN /\ c \in Call /\ c \notin DOMAIN opened
            /\ DOMAIN opened' = DOMAIN opened \cup {c}
            /\ opened'[c] = a
            /\ \A d \in DOMAIN opened : opened'[d] = opened[d]
            /\ OpenedType'
<1>1. opened' = Append(opened, a) /\ Len(opened) < MaxCalls
  BY DEF HandOver
<1>2. opened \in Seq(Action) /\ Len(opened) \in Nat /\ DOMAIN opened = 1..Len(opened)
  BY OpenedCalls DEF OpenedType
<1>3. opened' \in Seq(Action) /\ Len(opened') = Len(opened) + 1
  BY <1>1, <1>2, AppendProperties
<1>4. DOMAIN opened' = 1..(Len(opened) + 1)
  BY <1>3, LenProperties
<1>5. /\ opened'[Len(opened) + 1] = a
      /\ \A d \in 1..Len(opened) : opened'[d] = opened[d]
  BY <1>1, <1>2, AppendProperties
<1>6. QED
  BY <1>1, <1>2, <1>3, <1>4, <1>5, MaxCallsType DEF OpenedType, Call

\* Completing calls counts for them and can only take actions away.
LEMMA CompleteEffect ==
  ASSUME CompletionsType, NEW S, NEW success \in BOOLEAN, Complete(S, success)
  PROVE  /\ CompletionsType'
         /\ \A c \in Call : completions'[c] = IF c \in S THEN completions[c] + 1
                                              ELSE completions[c]
         /\ queued' = IF success THEN queued \ {opened[c] : c \in S} ELSE queued
         /\ queued' \subseteq queued
BY DEF CompletionsType, Complete

\* What a bounded step spends.
LEMMA SpendEffect ==
  ASSUME BudgetLeft, NEW step \in EnvStep \ {"any"}, Spend(step)
  PROVE  /\ BudgetLeft'
         /\ budget'[step] = budget[step] - 1
         /\ \A s \in EnvStep \ {step, "any"} : budget'[s] = budget[s]
BY DEF BudgetLeft, Spend, EnvStep

-----------------------------------------------------------------------------
(* What code, dictionaries and stream hold of a call.                      *)

Code == {"fetch", "await", "send", "initiate", "resend"}
InCode(c) == \E p \in Code : At(c, p)
InBuddy(c) == \E b \in Thread : outstandingBuddies[b] = c
Waits(c) == \E e \in outstandingMessages : e.call = c /\ e.in = Collection(e.action)
Answered(c) == \E r \in answers : r.call = c
OnWay(c) == c \in preparing \/ c \in outbox \/ Answered(c)
Before(c) == InCode(c) \/ c \in outstandingAccounts \/ InBuddy(c)

\* A message to a room that is completed at once, but whose entry remains.
Moot(a) == Kind[a] = "roomOMEMO" /\ a \in wordless

\* Entries are filed under what their call is about.
Filed ==
  /\ \A e \in outstandingMessages : e.action = opened[e.call]
  /\ \A b \in Thread : outstandingBuddies[b] # NoCall =>
                         ThreadOf[opened[outstandingBuddies[b]]] = b

\* GoOn moves one call.
LEMMA GoOnEffect ==
  ASSUME NEW c, NEW p, NEW next, GoOn(c, p, next)
  PROVE  /\ \A d, q : At(d, q)' <=> \/ d = c /\ q \in next
                                    \/ At(d, q) /\ ~(d = c /\ q = p)
         /\ ThreadsType /\ c \in DOMAIN opened /\ next \subseteq Place /\ opened' = opened =>
              ThreadsType'
<1>1. \A d, q : At(d, q)' <=> \/ d = c /\ q \in next
                              \/ At(d, q) /\ ~(d = c /\ q = p)
  BY DEF GoOn, At
<1>2. ASSUME ThreadsType, c \in DOMAIN opened, next \subseteq Place, opened' = opened
      PROVE  ThreadsType'
  BY <1>2 DEF GoOn, ThreadsType
<1>3. QED
  BY <1>1, <1>2

\* Spawn adds code for some calls.
LEMMA SpawnEffect ==
  ASSUME NEW S, NEW p, Spawn(S, p)
  PROVE  /\ \A d, q : At(d, q)' <=> (d \in S /\ q = p) \/ At(d, q)
         /\ ThreadsType /\ S \subseteq DOMAIN opened /\ p \in Place /\ opened' = opened =>
              ThreadsType'
<1>1. \A d, q : At(d, q)' <=> (d \in S /\ q = p) \/ At(d, q)
  BY DEF Spawn, At
<1>2. ASSUME ThreadsType, S \subseteq DOMAIN opened, p \in Place, opened' = opened
      PROVE  ThreadsType'
  BY <1>2 DEF Spawn, ThreadsType
<1>3. QED
  BY <1>1, <1>2

\* The entry of a buddy belongs to a call to that buddy.
LEMMA BuddyOfCall ==
  ASSUME OpenedType, BuddiesType, Filed
  PROVE  /\ \A d : InBuddy(d) /\ d # NoCall => d \in DOMAIN opened
         /\ \A d \in DOMAIN opened :
              InBuddy(d) <=> outstandingBuddies[ThreadOf[opened[d]]] = d
BY OpenedCalls, ThreadOfType DEF BuddiesType, InBuddy, Filed

\* PopBuddy takes one call out.
LEMMA PopBuddyEffect ==
  ASSUME OpenedType, BuddiesType, Filed, NEW b \in Thread, PopBuddy(b), opened' = opened
  PROVE  /\ BuddiesType'
         /\ \A d \in DOMAIN opened : InBuddy(d)' <=> InBuddy(d) /\ d \notin WaitingBuddy(b)
         /\ WaitingBuddy(b) = {d \in DOMAIN opened : InBuddy(d) /\ ThreadOf[opened[d]] = b}
         /\ \A x \in Thread : outstandingBuddies'[x] = IF x = b THEN NoCall
                                                       ELSE outstandingBuddies[x]
<1>1. \A x \in Thread : outstandingBuddies'[x] = IF x = b THEN NoCall ELSE outstandingBuddies[x]
  BY DEF PopBuddy, BuddiesType
<1>2. BuddiesType'
  BY DEF PopBuddy, BuddiesType
<1>3. WaitingBuddy(b) = {d \in DOMAIN opened : InBuddy(d) /\ ThreadOf[opened[d]] = b}
  BY OpenedCalls DEF WaitingBuddy, InBuddy, Filed, BuddiesType
<1>4. \A d \in DOMAIN opened : InBuddy(d)' <=> InBuddy(d) /\ d \notin WaitingBuddy(b)
  BY <1>1, OpenedCalls DEF WaitingBuddy, InBuddy, Filed, BuddiesType
<1>5. QED
  BY <1>1, <1>2, <1>3, <1>4

\* waitingForBuddy files one call and drops the one it replaces.
LEMMA WaitForBuddyEffect ==
  ASSUME OpenedType, BuddiesType, Filed, NEW c \in DOMAIN opened,
         WaitForBuddy(ThreadOf[opened[c]], c), opened' = opened
  PROVE  LET b == ThreadOf[opened[c]]
         IN /\ BuddiesType'
            /\ \A d \in DOMAIN opened : InBuddy(d)' <=> d = c \/ (InBuddy(d) /\ d \notin WaitingBuddy(b))
            /\ lost' = lost \cup (WaitingBuddy(b) \ {c})
            /\ \A x \in Thread : outstandingBuddies'[x] = IF x = b THEN c
                                                          ELSE outstandingBuddies[x]
<1> DEFINE b == ThreadOf[opened[c]]
<1>1. b \in Thread /\ c # NoCall
  BY OpenedCalls, ThreadOfType
<1> HIDE DEF b
<1>2. \A x \in Thread : outstandingBuddies'[x] = IF x = b THEN c ELSE outstandingBuddies[x]
  BY DEF WaitForBuddy, BuddiesType, b
<1>3. BuddiesType'
  BY DEF WaitForBuddy, BuddiesType, b
<1>4. \A d \in DOMAIN opened : InBuddy(d)' <=> d = c \/ (InBuddy(d) /\ d \notin WaitingBuddy(b))
  <2> SUFFICES ASSUME NEW d \in DOMAIN opened
               PROVE  InBuddy(d)' <=> d = c \/ (InBuddy(d) /\ d \notin WaitingBuddy(b))
    OBVIOUS
  <2>1. d # NoCall /\ (d \in WaitingBuddy(b) <=> outstandingBuddies[b] = d)
    BY OpenedCalls DEF WaitingBuddy
  <2>2. ASSUME NEW x \in Thread, x # b, outstandingBuddies[x] = d
        PROVE  outstandingBuddies[b] # d
    BY <1>1, <2>1, <2>2 DEF Filed
  <2>3. ASSUME InBuddy(d)', d # c PROVE InBuddy(d) /\ d \notin WaitingBuddy(b)
    <3>1. PICK x \in Thread : outstandingBuddies'[x] = d
      BY <2>3 DEF InBuddy
    <3>2. x # b /\ outstandingBuddies[x] = d
      BY <1>2, <2>3, <3>1
    <3>3. QED
      BY <2>1, <2>2, <3>2 DEF InBuddy
  <2>4. ASSUME InBuddy(d), d \notin WaitingBuddy(b) PROVE InBuddy(d)'
    BY <1>2, <2>1, <2>4 DEF InBuddy
  <2>5. InBuddy(c)'
    BY <1>1, <1>2 DEF InBuddy
  <2>6. CASE d = c
    BY <2>5, <2>6 DEF InBuddy
  <2>7. CASE d # c
    BY <2>3, <2>4, <2>7
  <2>8. QED
    BY <2>6, <2>7
<1>5. lost' = lost \cup (WaitingBuddy(b) \ {c})
  BY DEF WaitForBuddy, WaitingBuddy, b
<1>6. QED
  BY <1>2, <1>3, <1>4, <1>5 DEF b

\* The calls that wait for the stream to send a message.
LEMMA WaitingCalls ==
  ASSUME EntriesType, Filed, NEW a
  PROVE  CallsOf(Waiting(a)) = {d \in DOMAIN opened : Waits(d) /\ opened[d] = a}
<1>1. ASSUME NEW d \in CallsOf(Waiting(a))
      PROVE  d \in DOMAIN opened /\ Waits(d) /\ opened[d] = a
  <2>1. PICK e \in Waiting(a) : d = e.call
    BY <1>1 DEF CallsOf
  <2>2. e \in outstandingMessages /\ e.action = a /\ e.in = Collection(e.action)
    BY <2>1 DEF Waiting
  <2>3. QED
    BY <2>1, <2>2 DEF Waits, Filed, EntriesType
<1>2. ASSUME NEW d \in DOMAIN opened, Waits(d), opened[d] = a
      PROVE  d \in CallsOf(Waiting(a))
  <2>1. PICK e \in outstandingMessages : e.call = d /\ e.in = Collection(e.action)
    BY <1>2 DEF Waits
  <2>2. e \in Waiting(a)
    BY <1>2, <2>1 DEF Waiting, Filed
  <2>3. QED
    BY <2>1, <2>2 DEF CallsOf
<1>3. QED
  BY <1>1, <1>2

\* PopMessage takes them out.
LEMMA PopMessageEffect ==
  ASSUME EntriesType, Filed, NEW a, PopMessage(a), opened' = opened
  PROVE  /\ EntriesType'
         /\ \A e \in outstandingMessages' : e \in outstandingMessages
         /\ \A d \in DOMAIN opened : Waits(d)' <=> Waits(d) /\ opened[d] # a
BY DEF PopMessage, Waiting, Waits, Filed, EntriesType, Collection

\* waitingForMessage files one call and drops those it replaces.
LEMMA RenewedEffect ==
  ASSUME OpenedType, EntriesType, Filed, NEW c \in DOMAIN opened,
         NEW collections \in SUBSET {"room", "outgoing"}, Collection(opened[c]) \in collections,
         outstandingMessages' = Renewed(c, collections), opened' = opened
  PROVE  /\ EntriesType'
         /\ \A e \in outstandingMessages' : e.action = opened[e.call]
         /\ \A d \in DOMAIN opened : Waits(d)' <=> d = c \/ (Waits(d) /\ opened[d] # opened[c])
         /\ Replaced(c, collections) \subseteq {d \in DOMAIN opened : opened[d] = opened[c]}
         /\ \A d \in DOMAIN opened : Waits(d) /\ opened[d] = opened[c] => d \in Replaced(c, collections)
<1>1. opened[c] \in Action
  BY OpenedCalls
<1>2. \A e : e \in outstandingMessages' <=>
              \/ e \in outstandingMessages /\ ~(e.action = opened[c] /\ e.in \in collections)
              \/ e \in [action : {opened[c]}, in : collections, call : {c}]
  BY DEF Renewed, Old
<1>3. EntriesType'
  <2>1. [action : {opened[c]}, in : collections, call : {c}]
          \subseteq [action : Action, in : {"room", "outgoing"}, call : DOMAIN opened]
    BY <1>1
  <2>2. QED
    BY <1>2, <2>1 DEF EntriesType
<1>4. \A e \in outstandingMessages' : e.action = opened[e.call]
  BY <1>2 DEF Filed
<1>5. \A d \in DOMAIN opened : d # c => (Waits(d)' <=> Waits(d) /\ opened[d] # opened[c])
  <2> SUFFICES ASSUME NEW d \in DOMAIN opened, d # c
               PROVE  Waits(d)' <=> Waits(d) /\ opened[d] # opened[c]
    OBVIOUS
  <2>1. ASSUME Waits(d)' PROVE Waits(d) /\ opened[d] # opened[c]
    BY <1>2, <2>1 DEF Waits, Filed, Collection
  <2>2. ASSUME Waits(d), opened[d] # opened[c] PROVE Waits(d)'
    <3>1. PICK e \in outstandingMessages : e.call = d /\ e.in = Collection(e.action)
      BY <2>2 DEF Waits
    <3>2. e.action # opened[c]
      BY <2>2, <3>1 DEF Filed
    <3>3. e \in outstandingMessages'
      BY <1>2, <3>1, <3>2
    <3>4. QED
      BY <3>1, <3>3 DEF Waits, Collection
  <2>3. QED
    BY <2>1, <2>2
<1>6. Waits(c)'
  <2> DEFINE e == [action |-> opened[c], in |-> Collection(opened[c]), call |-> c]
  <2>1. e \in outstandingMessages'
    BY <1>2
  <2>2. QED
    BY <2>1 DEF Waits, Collection
<1>7. /\ Replaced(c, collections) \subseteq {d \in DOMAIN opened : opened[d] = opened[c]}
      /\ \A d \in DOMAIN opened : Waits(d) /\ opened[d] = opened[c] => d \in Replaced(c, collections)
  BY DEF Replaced, Old, Waits, Filed, EntriesType
<1>8. QED
  BY <1>3, <1>4, <1>5, <1>6, <1>7

-----------------------------------------------------------------------------
(* Types and filing are kept together, because which call an entry belongs *)
(* to decides which is dropped when another takes its place.               *)

Basic == Parts /\ Filed

\* Nothing is filed at first.
LEMMA InitBasic == Init => Basic
<1> SUFFICES ASSUME Init PROVE Basic
  OBVIOUS
<1>1. opened = <<>> /\ DOMAIN opened = {} /\ OpenedType
  BY MaxCallsType DEF Init, OpenedType
<1>2. StoredType /\ CompletionsType /\ ThreadsType /\ AccountsType /\ BuddiesType
  BY DEF Init, StoredType, CompletionsType, ThreadsType, AccountsType, BuddiesType
<1>3. EntriesType /\ TimersType /\ StanzasType /\ LoginType
  BY DEF Init, EntriesType, TimersType, StanzasType, LoginType
<1>4. SessionsType /\ HistoryType /\ BudgetLeft
  BY BudgetType DEF Init, SessionsType, HistoryType, BudgetLeft
<1>5. Filed
  BY DEF Init, Filed
<1>6. QED
  BY <1>1, <1>2, <1>3, <1>4, <1>5 DEF Basic, Parts

\* Every step keeps types and filing.
LEMMA NextBasic == Basic /\ [Next]_vars => Basic'
<1> SUFFICES ASSUME Basic, [Next]_vars PROVE Basic'
  OBVIOUS
<1>0. /\ DOMAIN opened \subseteq Call /\ NoCall \notin DOMAIN opened
      /\ \A c \in DOMAIN opened : opened[c] \in Action
  BY OpenedCalls DEF Basic, Parts
<1>1. ASSUME NEW a \in Action, HandOver(a) PROVE Basic'
  <2>1. (StoredType /\ CompletionsType /\ TimersType /\ LoginType /\ SessionsType /\
       HistoryType)'
    BY <1>1 DEF Basic, Parts, HandOver, StoredType, CompletionsType, TimersType,
       LoginType, SessionsType, HistoryType, queueVars, tableVars, sendVars, loginVars,
       sessionVars, settings
  <2>2. OpenedType'
    BY <1>1, OpenedNext DEF Basic, Parts
  <2>3. (ThreadsType /\ AccountsType /\ BuddiesType /\ EntriesType /\ StanzasType)'
    BY <1>1, OpenedNext DEF Basic, Parts, HandOver, Spawn, Place, ThreadsType,
       AccountsType, BuddiesType, EntriesType, StanzasType, queueVars, tableVars,
       sendVars, loginVars, sessionVars, settings
  <2>4. BudgetLeft'
    BY <1>1, SpendEffect DEF Basic, Parts, HandOver, EnvStep, BudgetLeft
  <2>5. Filed'
    BY <1>0, <1>1, OpenedNext DEF Basic, Parts, HandOver, Filed, BuddiesType, EntriesType,
       queueVars, tableVars, sendVars, loginVars, sessionVars, settings
  <2>6. QED
    BY <2>1, <2>2, <2>3, <2>4, <2>5 DEF Basic, Parts
<1>2. ASSUME NEW c \in DOMAIN opened, Resend(c) PROVE Basic'
  <2>1. (OpenedType /\ AccountsType /\ BuddiesType /\ EntriesType /\ TimersType /\
       StanzasType /\ LoginType /\ SessionsType /\ HistoryType /\ BudgetLeft /\ Filed)'
    BY <1>2 DEF Basic, Parts, Resend, OpenedType, AccountsType, BuddiesType, EntriesType,
       TimersType, StanzasType, LoginType, SessionsType, HistoryType, BudgetLeft, Filed,
       queueVars, tableVars, sendVars, loginVars, sessionVars, settings
  <2>2. \E next \in SUBSET Place : GoOn(c, "resend", next)
    BY <1>2 DEF Resend, Place
  <2>3. ThreadsType'
    BY <2>2, <1>2, GoOnEffect DEF Basic, Parts, Resend, queueVars, tableVars, sendVars,
       loginVars, sessionVars, settings
  <2>4. UNCHANGED <<queued, completions>> \/ Complete({c}, TRUE) \/ Complete({c}, FALSE)
    BY <1>2 DEF Resend
  <2>5. (StoredType /\ CompletionsType)'
    BY <2>4, <1>2, CompleteEffect DEF Basic, Parts, Resend, StoredType, CompletionsType,
       queueVars
  <2>6. QED
    BY <2>1, <2>2, <2>3, <2>4, <2>5 DEF Basic, Parts
<1>3. ASSUME NEW c \in DOMAIN opened, Fetch(c) PROVE Basic'
  <2>1. (OpenedType /\ AccountsType /\ BuddiesType /\ EntriesType /\ TimersType /\
       StanzasType /\ LoginType /\ SessionsType /\ HistoryType /\ BudgetLeft /\ Filed)'
    BY <1>3 DEF Basic, Parts, Fetch, OpenedType, AccountsType, BuddiesType, EntriesType,
       TimersType, StanzasType, LoginType, SessionsType, HistoryType, BudgetLeft, Filed,
       queueVars, tableVars, sendVars, loginVars, sessionVars, settings
  <2>2. \E next \in SUBSET Place : GoOn(c, "fetch", next)
    BY <1>3 DEF Fetch, Place
  <2>3. ThreadsType'
    BY <2>2, <1>3, GoOnEffect DEF Basic, Parts, Fetch, queueVars, tableVars, sendVars,
       loginVars, sessionVars, settings
  <2>4. UNCHANGED <<queued, completions>> \/ Complete({c}, TRUE) \/ Complete({c}, FALSE)
    BY <1>3 DEF Fetch
  <2>5. (StoredType /\ CompletionsType)'
    BY <2>4, <1>3, CompleteEffect DEF Basic, Parts, Fetch, StoredType, CompletionsType,
       queueVars
  <2>6. QED
    BY <2>1, <2>2, <2>3, <2>4, <2>5 DEF Basic, Parts
<1>4. ASSUME NEW c \in DOMAIN opened, Await(c) PROVE Basic'
  <2>1. (OpenedType /\ StoredType /\ CompletionsType /\ BuddiesType /\ EntriesType /\
       TimersType /\ StanzasType /\ LoginType /\ SessionsType /\ HistoryType /\ BudgetLeft
       /\ Filed)'
    BY <1>4 DEF Basic, Parts, Await, OpenedType, StoredType, CompletionsType, BuddiesType,
       EntriesType, TimersType, StanzasType, LoginType, SessionsType, HistoryType,
       BudgetLeft, Filed, queueVars, tableVars, sendVars, loginVars, sessionVars, settings
  <2>2. ThreadsType'
    BY <1>4, GoOnEffect DEF Basic, Parts, Await, Place, queueVars, tableVars, sendVars,
       loginVars, sessionVars, settings
  <2>3. AccountsType'
    BY <1>0, <1>4 DEF Basic, Parts, Await, WaitForAccount, AccountsType, queueVars,
       tableVars, sendVars, loginVars, sessionVars, settings
  <2>4. QED
    BY <2>1, <2>2, <2>3 DEF Basic, Parts
<1>5. ASSUME NEW c \in DOMAIN opened, Connect(c) PROVE Basic'
  <2>1. (OpenedType /\ StoredType /\ CompletionsType /\ AccountsType /\ BuddiesType /\
       EntriesType /\ TimersType /\ StanzasType /\ LoginType /\ SessionsType /\
       HistoryType /\ BudgetLeft /\ Filed)'
    BY <1>5 DEF Basic, Parts, Connect, OpenedType, StoredType, CompletionsType,
       AccountsType, BuddiesType, EntriesType, TimersType, StanzasType, LoginType,
       SessionsType, HistoryType, BudgetLeft, Filed, queueVars, tableVars, sendVars,
       loginVars, sessionVars, settings
  <2>2. ThreadsType'
    BY <1>5, GoOnEffect DEF Basic, Parts, Connect, Place, queueVars, tableVars, sendVars,
       loginVars, sessionVars, settings
  <2>3. QED
    BY <2>1, <2>2 DEF Basic, Parts
<1>6. ASSUME NEW c \in DOMAIN opened, Start(c) PROVE Basic'
  <2>1. (OpenedType /\ StoredType /\ CompletionsType /\ AccountsType /\ BuddiesType /\
       EntriesType /\ TimersType /\ StanzasType /\ SessionsType /\ HistoryType /\
       BudgetLeft /\ Filed)'
    BY <1>6 DEF Basic, Parts, Start, OpenedType, StoredType, CompletionsType,
       AccountsType, BuddiesType, EntriesType, TimersType, StanzasType, SessionsType,
       HistoryType, BudgetLeft, Filed, queueVars, tableVars, sendVars, loginVars,
       sessionVars, settings
  <2>2. ThreadsType'
    BY <1>6, GoOnEffect DEF Basic, Parts, Start, Place, queueVars, tableVars, sendVars,
       loginVars, sessionVars, settings
  <2>3. LoginType'
    BY <1>0, <1>6 DEF Basic, Parts, Start, settings, LoginType, queueVars, tableVars,
       sendVars, loginVars, sessionVars
  <2>4. QED
    BY <2>1, <2>2, <2>3 DEF Basic, Parts
<1>7. ASSUME NEW c \in DOMAIN opened, SendRoster(c) PROVE Basic'
  <2>1. (OpenedType /\ AccountsType /\ BuddiesType /\ EntriesType /\ TimersType /\
       StanzasType /\ LoginType /\ SessionsType /\ HistoryType /\ BudgetLeft /\ Filed)'
    BY <1>7 DEF Basic, Parts, SendRoster, OpenedType, AccountsType, BuddiesType,
       EntriesType, TimersType, StanzasType, LoginType, SessionsType, HistoryType,
       BudgetLeft, Filed, queueVars, tableVars, sendVars, loginVars, sessionVars, settings
  <2>2. ThreadsType'
    BY <1>7, GoOnEffect DEF Basic, Parts, SendRoster, Place, queueVars, tableVars,
       sendVars, loginVars, sessionVars, settings
  <2>3. (StoredType /\ CompletionsType)'
    BY <1>7, CompleteEffect DEF Basic, Parts, SendRoster, StoredType, queueVars
  <2>4. QED
    BY <2>1, <2>2, <2>3 DEF Basic, Parts
<1>8. ASSUME NEW c \in DOMAIN opened, SendPlain(c) PROVE Basic'
  <2>1. (OpenedType /\ StoredType /\ CompletionsType /\ BuddiesType /\ TimersType /\
       LoginType /\ SessionsType /\ HistoryType /\ BudgetLeft)'
    BY <1>8 DEF Basic, Parts, SendPlain, OpenedType, StoredType, CompletionsType,
       BuddiesType, TimersType, LoginType, SessionsType, HistoryType, BudgetLeft,
       queueVars, tableVars, sendVars, loginVars, sessionVars, settings
  <2>2. ThreadsType'
    BY <1>8, GoOnEffect DEF Basic, Parts, SendPlain, Place, queueVars, tableVars,
       sendVars, loginVars, sessionVars, settings
  <2>3. (EntriesType /\ AccountsType /\ Filed)'
    BY <1>0, <1>8, RenewedEffect, KindType DEF Basic, Parts, SendPlain, EntriesType,
       AccountsType, Filed, Collection, RoomKinds, OTRKinds, queueVars, tableVars,
       sendVars, loginVars, sessionVars, settings
  <2>4. StanzasType'
    BY <1>8 DEF Basic, Parts, SendPlain, StanzasType, queueVars, tableVars, sendVars,
       loginVars, sessionVars, settings
  <2>5. QED
    BY <2>1, <2>2, <2>3, <2>4 DEF Basic, Parts
<1>9. ASSUME NEW c \in DOMAIN opened, SendOTR(c) PROVE Basic'
  <2>1. (OpenedType /\ BuddiesType /\ TimersType /\ LoginType /\ SessionsType /\
       HistoryType /\ BudgetLeft)'
    BY <1>9 DEF Basic, Parts, SendOTR, OpenedType, BuddiesType, TimersType, LoginType,
       SessionsType, HistoryType, BudgetLeft, queueVars, tableVars, sendVars, loginVars,
       sessionVars, settings
  <2>2. \E next \in SUBSET Place : GoOn(c, "send", next)
    BY <1>9 DEF SendOTR, Place, NothingToSend
  <2>3. ThreadsType'
    BY <2>2, <1>9, GoOnEffect DEF Basic, Parts, SendOTR, queueVars, tableVars, sendVars,
       loginVars, sessionVars, settings
  <2>4. UNCHANGED <<queued, completions>> \/ Complete({c}, TRUE) \/ Complete({c}, FALSE)
    BY <1>9 DEF SendOTR, NothingToSend
  <2>5. (StoredType /\ CompletionsType)'
    BY <2>4, <1>9, CompleteEffect DEF Basic, Parts, SendOTR, StoredType, CompletionsType,
       queueVars
  <2>6. (EntriesType /\ AccountsType /\ Filed)'
    BY <1>0, <1>9, RenewedEffect, KindType DEF Basic, Parts, SendOTR, WaitForMessage,
       EntriesType, AccountsType, Filed, Collection, RoomKinds, OTRKinds, queueVars,
       tableVars, sendVars, loginVars, sessionVars, settings
  <2>7. StanzasType'
    BY <1>9 DEF Basic, Parts, SendOTR, StanzasType, queueVars, tableVars, sendVars,
       loginVars, sessionVars, settings
  <2>8. QED
    BY <2>1, <2>2, <2>3, <2>4, <2>5, <2>6, <2>7 DEF Basic, Parts
<1>10. ASSUME NEW c \in DOMAIN opened, SendOMEMO(c) PROVE Basic'
  <2>1. (OpenedType /\ BuddiesType /\ TimersType /\ LoginType /\ SessionsType /\
       HistoryType /\ BudgetLeft)'
    BY <1>10 DEF Basic, Parts, SendOMEMO, OpenedType, BuddiesType, TimersType, LoginType,
       SessionsType, HistoryType, BudgetLeft, queueVars, tableVars, sendVars, loginVars,
       sessionVars, settings
  <2>2. \E next \in SUBSET Place : GoOn(c, "send", next)
    BY <1>10 DEF SendOMEMO, Place, NothingToSend
  <2>3. ThreadsType'
    BY <2>2, <1>10, GoOnEffect DEF Basic, Parts, SendOMEMO, queueVars, tableVars,
       sendVars, loginVars, sessionVars, settings
  <2>4. UNCHANGED <<queued, completions>> \/ Complete({c}, TRUE) \/ Complete({c}, FALSE)
    BY <1>10 DEF SendOMEMO, NothingToSend
  <2>5. (StoredType /\ CompletionsType)'
    BY <2>4, <1>10, CompleteEffect DEF Basic, Parts, SendOMEMO, StoredType,
       CompletionsType, queueVars
  <2>6. (EntriesType /\ AccountsType /\ Filed)'
    BY <1>0, <1>10, RenewedEffect, KindType DEF Basic, Parts, SendOMEMO, WaitForMessage,
       EntriesType, AccountsType, Filed, Collection, RoomKinds, OTRKinds, queueVars,
       tableVars, sendVars, loginVars, sessionVars, settings
  <2>7. StanzasType'
    BY <1>10 DEF Basic, Parts, SendOMEMO, StanzasType, queueVars, tableVars, sendVars,
       loginVars, sessionVars, settings
  <2>8. QED
    BY <2>1, <2>2, <2>3, <2>4, <2>5, <2>6, <2>7 DEF Basic, Parts
<1>11. ASSUME NEW c \in DOMAIN opened, SendGroup(c) PROVE Basic'
  <2>1. (OpenedType /\ BuddiesType /\ TimersType /\ LoginType /\ SessionsType /\
       HistoryType /\ BudgetLeft)'
    BY <1>11 DEF Basic, Parts, SendGroup, OpenedType, BuddiesType, TimersType, LoginType,
       SessionsType, HistoryType, BudgetLeft, queueVars, tableVars, sendVars, loginVars,
       sessionVars, settings
  <2>2. \E next \in SUBSET Place : GoOn(c, "send", next)
    BY <1>11 DEF SendGroup, Place
  <2>3. ThreadsType'
    BY <2>2, <1>11, GoOnEffect DEF Basic, Parts, SendGroup, queueVars, tableVars,
       sendVars, loginVars, sessionVars, settings
  <2>4. UNCHANGED <<queued, completions>> \/ Complete({c}, TRUE) \/ Complete({c}, FALSE)
    BY <1>11 DEF SendGroup
  <2>5. (StoredType /\ CompletionsType)'
    BY <2>4, <1>11, CompleteEffect DEF Basic, Parts, SendGroup, StoredType,
       CompletionsType, queueVars
  <2>6. (EntriesType /\ AccountsType /\ Filed)'
    BY <1>0, <1>11, RenewedEffect, KindType DEF Basic, Parts, SendGroup, WaitForMessage,
       EntriesType, AccountsType, Filed, Collection, RoomKinds, OTRKinds, queueVars,
       tableVars, sendVars, loginVars, sessionVars, settings
  <2>7. StanzasType'
    BY <1>11 DEF Basic, Parts, SendGroup, StanzasType, queueVars, tableVars, sendVars,
       loginVars, sessionVars, settings
  <2>8. QED
    BY <2>1, <2>2, <2>3, <2>4, <2>5, <2>6, <2>7 DEF Basic, Parts
<1>12. ASSUME NEW c \in DOMAIN opened, Initiate(c) PROVE Basic'
  <2>1. (OpenedType /\ StoredType /\ CompletionsType /\ EntriesType /\ StanzasType /\
       LoginType /\ HistoryType /\ BudgetLeft)'
    BY <1>12 DEF Basic, Parts, Initiate, OpenedType, StoredType, CompletionsType,
       EntriesType, StanzasType, LoginType, HistoryType, BudgetLeft, queueVars, tableVars,
       sendVars, loginVars, sessionVars, settings
  <2>2. ThreadsType'
    BY <1>12, GoOnEffect DEF Basic, Parts, Initiate, Place, queueVars, tableVars,
       sendVars, loginVars, sessionVars, settings
  <2>3. WaitForBuddy(ThreadOf[opened[c]], c) /\ opened' = opened /\ ThreadOf[opened[c]]
       \in Thread
    BY <1>0, <1>12, ThreadOfType DEF Initiate
  <2>4. BuddiesType'
    BY <2>3, WaitForBuddyEffect DEF Basic, Parts
  <2>5. WaitingBuddy(ThreadOf[opened[c]]) \subseteq DOMAIN opened
    BY <2>3 DEF Basic, Parts, WaitingBuddy, BuddiesType
  <2>6. AccountsType'
    BY <1>12, <2>3, <2>5, WaitForBuddyEffect DEF Basic, Parts, Initiate, AccountsType,
       queueVars, tableVars, sendVars, loginVars, sessionVars, settings
  <2>7. Filed'
    BY <1>12, <2>3, WaitForBuddyEffect DEF Basic, Parts, Initiate, Filed, queueVars,
       tableVars, sendVars, loginVars, sessionVars, settings
  <2>8. (TimersType /\ SessionsType)'
    BY <1>0, <1>12, ThreadOfType DEF Basic, Parts, Initiate, TimersType, SessionsType,
       queueVars, tableVars, sendVars, loginVars, sessionVars, settings
  <2>9. QED
    BY <2>1, <2>2, <2>3, <2>4, <2>5, <2>6, <2>7, <2>8 DEF Basic, Parts
<1>13. ASSUME NEW c \in DOMAIN opened, Mark(c) PROVE Basic'
  <2>1. (OpenedType /\ StoredType /\ CompletionsType /\ AccountsType /\ BuddiesType /\
       EntriesType /\ TimersType /\ StanzasType /\ LoginType /\ SessionsType /\ BudgetLeft
       /\ Filed)'
    BY <1>13 DEF Basic, Parts, Mark, OpenedType, StoredType, CompletionsType,
       AccountsType, BuddiesType, EntriesType, TimersType, StanzasType, LoginType,
       SessionsType, BudgetLeft, Filed, queueVars, tableVars, sendVars, loginVars,
       sessionVars, settings
  <2>2. ThreadsType'
    BY <1>13, GoOnEffect DEF Basic, Parts, Mark, Place, queueVars, tableVars, sendVars,
       loginVars, sessionVars, settings
  <2>3. HistoryType'
    BY <1>0, <1>13 DEF Basic, Parts, Mark, HistoryType, queueVars, tableVars, sendVars,
       loginVars, sessionVars, settings
  <2>4. QED
    BY <2>1, <2>2, <2>3 DEF Basic, Parts
<1>14. ASSUME NEW c \in DOMAIN opened, Encoded(c) PROVE Basic'
  <2>1. (OpenedType /\ CompletionsType /\ ThreadsType /\ AccountsType /\ BuddiesType /\
       EntriesType /\ TimersType /\ LoginType /\ SessionsType /\ HistoryType /\ BudgetLeft
       /\ Filed)'
    BY <1>14 DEF Basic, Parts, Encoded, OpenedType, CompletionsType, ThreadsType,
       AccountsType, BuddiesType, EntriesType, TimersType, LoginType, SessionsType,
       HistoryType, BudgetLeft, Filed, queueVars, tableVars, sendVars, loginVars,
       sessionVars, settings
  <2>2. (StoredType /\ StanzasType)'
    BY <1>0, <1>14 DEF Basic, Parts, Encoded, Prepared, StoredType, StanzasType,
       queueVars, tableVars, sendVars, loginVars, sessionVars, settings
  <2>3. QED
    BY <2>1, <2>2 DEF Basic, Parts
<1>15. ASSUME NEW c \in DOMAIN opened, EncodeFailed(c) PROVE Basic'
  <2>1. (OpenedType /\ CompletionsType /\ ThreadsType /\ BuddiesType /\ EntriesType /\
       TimersType /\ LoginType /\ SessionsType /\ HistoryType /\ BudgetLeft /\ Filed)'
    BY <1>15 DEF Basic, Parts, EncodeFailed, OpenedType, CompletionsType, ThreadsType,
       BuddiesType, EntriesType, TimersType, LoginType, SessionsType, HistoryType,
       BudgetLeft, Filed, queueVars, tableVars, sendVars, loginVars, sessionVars, settings
  <2>2. (StoredType /\ AccountsType /\ StanzasType)'
    BY <1>0, <1>15 DEF Basic, Parts, EncodeFailed, Prepared, StoredType, AccountsType,
       StanzasType, queueVars, tableVars, sendVars, loginVars, sessionVars, settings
  <2>3. QED
    BY <2>1, <2>2 DEF Basic, Parts
<1>16. ASSUME NEW c \in DOMAIN opened, Encrypted(c) PROVE Basic'
  <2>1. (OpenedType /\ StoredType /\ CompletionsType /\ ThreadsType /\ AccountsType /\
       BuddiesType /\ EntriesType /\ TimersType /\ LoginType /\ SessionsType /\
       HistoryType /\ BudgetLeft /\ Filed)'
    BY <1>16 DEF Basic, Parts, Encrypted, OpenedType, StoredType, CompletionsType,
       ThreadsType, AccountsType, BuddiesType, EntriesType, TimersType, LoginType,
       SessionsType, HistoryType, BudgetLeft, Filed, queueVars, tableVars, sendVars,
       loginVars, sessionVars, settings
  <2>2. StanzasType'
    BY <1>0, <1>16 DEF Basic, Parts, Encrypted, Prepared, StanzasType, queueVars,
       tableVars, sendVars, loginVars, sessionVars, settings
  <2>3. QED
    BY <2>1, <2>2 DEF Basic, Parts
<1>17. ASSUME NEW c \in DOMAIN opened, EncryptFailed(c) PROVE Basic'
  <2>1. (OpenedType /\ ThreadsType /\ AccountsType /\ BuddiesType /\ TimersType /\
       LoginType /\ SessionsType /\ HistoryType /\ BudgetLeft)'
    BY <1>17 DEF Basic, Parts, EncryptFailed, OpenedType, ThreadsType, AccountsType,
       BuddiesType, TimersType, LoginType, SessionsType, HistoryType, BudgetLeft,
       queueVars, tableVars, sendVars, loginVars, sessionVars, settings
  <2>2. (StoredType /\ CompletionsType)'
    BY <1>17, CompleteEffect DEF Basic, Parts, EncryptFailed, StoredType, queueVars
  <2>3. (EntriesType /\ Filed)'
    BY <1>17, PopMessageEffect DEF Basic, Parts, EncryptFailed, EntriesType, Filed,
       queueVars, tableVars, sendVars, loginVars, sessionVars, settings
  <2>4. StanzasType'
    BY <1>0, <1>17 DEF Basic, Parts, EncryptFailed, Prepared, StanzasType, HistoryType,
       queueVars, tableVars, sendVars, loginVars, sessionVars, settings
  <2>5. QED
    BY <2>1, <2>2, <2>3, <2>4 DEF Basic, Parts
<1>18. ASSUME NEW c \in DOMAIN opened, EncryptVanished(c) PROVE Basic'
  <2>1. (OpenedType /\ StoredType /\ CompletionsType /\ ThreadsType /\ BuddiesType /\
       EntriesType /\ TimersType /\ LoginType /\ SessionsType /\ HistoryType /\ BudgetLeft
       /\ Filed)'
    BY <1>18 DEF Basic, Parts, EncryptVanished, OpenedType, StoredType, CompletionsType,
       ThreadsType, BuddiesType, EntriesType, TimersType, LoginType, SessionsType,
       HistoryType, BudgetLeft, Filed, queueVars, tableVars, sendVars, loginVars,
       sessionVars, settings
  <2>2. (StanzasType /\ AccountsType)'
    BY <1>0, <1>18 DEF Basic, Parts, EncryptVanished, Prepared, StanzasType, AccountsType,
       queueVars, tableVars, sendVars, loginVars, sessionVars, settings
  <2>3. QED
    BY <2>1, <2>2 DEF Basic, Parts
<1>19. ASSUME NEW c \in DOMAIN opened, Transmit(c) PROVE Basic'
  <2>1. (OpenedType /\ StoredType /\ CompletionsType /\ ThreadsType /\ AccountsType /\
       BuddiesType /\ EntriesType /\ TimersType /\ LoginType /\ SessionsType /\ BudgetLeft
       /\ Filed)'
    BY <1>19 DEF Basic, Parts, Transmit, OpenedType, StoredType, CompletionsType,
       ThreadsType, AccountsType, BuddiesType, EntriesType, TimersType, LoginType,
       SessionsType, BudgetLeft, Filed, queueVars, tableVars, sendVars, loginVars,
       sessionVars, settings
  <2>2. [call |-> c, sent |-> (stream = "authenticated")] \in [call : DOMAIN opened, sent
       : BOOLEAN]
    OBVIOUS
  <2>3. StanzasType'
    BY <1>19, <2>2 DEF Basic, Parts, Transmit, StanzasType, queueVars, tableVars,
       sendVars, loginVars, sessionVars, settings
  <2>4. HistoryType'
    BY <1>0, <1>19 DEF Basic, Parts, Transmit, HistoryType, queueVars, tableVars,
       sendVars, loginVars, sessionVars, settings
  <2>5. QED
    BY <2>1, <2>2, <2>3, <2>4 DEF Basic, Parts
<1>20. ASSUME NEW c \in DOMAIN opened, TimedOut(c) PROVE Basic'
  <2>1. (OpenedType /\ ThreadsType /\ AccountsType /\ EntriesType /\ StanzasType /\
       LoginType /\ SessionsType /\ BudgetLeft)'
    BY <1>20 DEF Basic, Parts, TimedOut, OpenedType, ThreadsType, AccountsType,
       EntriesType, StanzasType, LoginType, SessionsType, BudgetLeft, queueVars,
       tableVars, sendVars, loginVars, sessionVars, settings
  <2>2. (StoredType /\ CompletionsType)'
    BY <1>20, CompleteEffect DEF Basic, Parts, TimedOut, StoredType, queueVars
  <2>3. (BuddiesType /\ Filed)'
    BY <1>0, <1>20, PopBuddyEffect, ThreadOfType DEF Basic, Parts, TimedOut, Filed,
       queueVars, tableVars, sendVars, loginVars, sessionVars, settings
  <2>4. TimersType'
    BY <1>0, <1>20 DEF Basic, Parts, TimedOut, TimersType
  <2>5. HistoryType'
    BY <1>0, <1>20 DEF Basic, Parts, TimedOut, HistoryType, StoredType, queueVars,
       tableVars, sendVars, loginVars, sessionVars, settings
  <2>6. QED
    BY <2>1, <2>2, <2>3, <2>4, <2>5 DEF Basic, Parts
<1>21. ASSUME NEW c \in DOMAIN opened, NEW sent \in BOOLEAN, Answer(c, sent) PROVE Basic'
  <2>1. (OpenedType /\ ThreadsType /\ BuddiesType /\ TimersType /\ LoginType /\
       SessionsType /\ BudgetLeft)'
    BY <1>21 DEF Basic, Parts, Answer, OpenedType, ThreadsType, BuddiesType, TimersType,
       LoginType, SessionsType, BudgetLeft, queueVars, tableVars, sendVars, loginVars,
       sessionVars, settings
  <2>2. UNCHANGED <<queued, completions>> \/ Complete(CallsOf(Waiting(opened[c])), TRUE)
    BY <1>21 DEF Answer
  <2>3. (StoredType /\ CompletionsType)'
    BY <2>2, <1>21, CompleteEffect DEF Basic, Parts, Answer, StoredType, CompletionsType,
       queueVars
  <2>4. (EntriesType /\ Filed)'
    BY <1>21, PopMessageEffect DEF Basic, Parts, Answer, EntriesType, Filed, queueVars,
       tableVars, sendVars, loginVars, sessionVars, settings
  <2>5. (StanzasType /\ HistoryType)'
    BY <1>0, <1>21 DEF Basic, Parts, Answer, Prepared, StanzasType, HistoryType,
       queueVars, tableVars, sendVars, loginVars, sessionVars, settings
  <2>6. AccountsType'
    BY <1>0, <1>21, WaitingCalls DEF Basic, Parts, Answer, AccountsType, queueVars,
       tableVars, sendVars, loginVars, sessionVars, settings
  <2>7. QED
    BY <2>1, <2>2, <2>3, <2>4, <2>5, <2>6 DEF Basic, Parts
<1>22. ASSUME Authenticate PROVE Basic'
  <2>1. (OpenedType /\ StoredType /\ CompletionsType /\ ThreadsType /\ AccountsType /\
       BuddiesType /\ EntriesType /\ TimersType /\ StanzasType /\ SessionsType /\
       HistoryType /\ BudgetLeft /\ Filed)'
    BY <1>22 DEF Basic, Parts, Authenticate, LoginStep, OpenedType, StoredType,
       CompletionsType, ThreadsType, AccountsType, BuddiesType, EntriesType, TimersType,
       StanzasType, SessionsType, HistoryType, BudgetLeft, Filed, queueVars, tableVars,
       sendVars, loginVars, sessionVars, settings
  <2>2. LoginType'
    BY <1>0, <1>22 DEF Basic, Parts, Authenticate, LoginStep, settings, LoginType,
       queueVars, tableVars, sendVars, loginVars, sessionVars
  <2>3. QED
    BY <2>1, <2>2 DEF Basic, Parts
<1>23. ASSUME Reconnect PROVE Basic'
  <2>1. (OpenedType /\ StoredType /\ CompletionsType /\ ThreadsType /\ AccountsType /\
       BuddiesType /\ EntriesType /\ TimersType /\ StanzasType /\ SessionsType /\
       HistoryType /\ BudgetLeft /\ Filed)'
    BY <1>23 DEF Basic, Parts, Reconnect, LoginStep, OpenedType, StoredType,
       CompletionsType, ThreadsType, AccountsType, BuddiesType, EntriesType, TimersType,
       StanzasType, SessionsType, HistoryType, BudgetLeft, Filed, queueVars, tableVars,
       sendVars, loginVars, sessionVars, settings
  <2>2. LoginType'
    BY <1>0, <1>23 DEF Basic, Parts, Reconnect, LoginStep, settings, LoginType, queueVars,
       tableVars, sendVars, loginVars, sessionVars
  <2>3. QED
    BY <2>1, <2>2 DEF Basic, Parts
<1>24. ASSUME HandleLogin PROVE Basic'
  <2>1. (OpenedType /\ StoredType /\ CompletionsType /\ BuddiesType /\ EntriesType /\
       TimersType /\ StanzasType /\ SessionsType /\ HistoryType /\ BudgetLeft /\ Filed)'
    BY <1>24 DEF Basic, Parts, HandleLogin, OpenedType, StoredType, CompletionsType,
       BuddiesType, EntriesType, TimersType, StanzasType, SessionsType, HistoryType,
       BudgetLeft, Filed, queueVars, tableVars, sendVars, loginVars, sessionVars, settings
  <2>2. LoginType'
    BY <1>24 DEF Basic, Parts, HandleLogin, LoginType, queueVars, tableVars, sendVars,
       loginVars, sessionVars, settings
  <2>3. AccountsType'
    BY <1>24 DEF Basic, Parts, HandleLogin, AccountsType, queueVars, tableVars, sendVars,
       loginVars, sessionVars, settings
  <2>4. threads' = threads \/ \E S \in SUBSET DOMAIN opened : Spawn(S, "fetch")
    BY <1>24 DEF Basic, Parts, HandleLogin, AccountsType
  <2>5. ThreadsType'
    BY <1>24, <2>4, SpawnEffect DEF Basic, Parts, HandleLogin, Place, ThreadsType,
       queueVars, tableVars, sendVars, loginVars, sessionVars, settings
  <2>6. QED
    BY <2>1, <2>2, <2>3, <2>4, <2>5 DEF Basic, Parts
<1>25. ASSUME NEW b \in Thread, HandleSession(b) PROVE Basic'
  <2>1. (OpenedType /\ StoredType /\ CompletionsType /\ AccountsType /\ EntriesType /\
       TimersType /\ StanzasType /\ LoginType /\ HistoryType /\ BudgetLeft)'
    BY <1>25 DEF Basic, Parts, HandleSession, OpenedType, StoredType, CompletionsType,
       AccountsType, EntriesType, TimersType, StanzasType, LoginType, HistoryType,
       BudgetLeft, queueVars, tableVars, sendVars, loginVars, sessionVars, settings
  <2>2. (BuddiesType /\ Filed)'
    BY <1>0, <1>25, PopBuddyEffect DEF Basic, Parts, HandleSession, Filed, queueVars,
       tableVars, sendVars, loginVars, sessionVars, settings
  <2>3. ThreadsType'
    BY <1>0, <1>25, PopBuddyEffect, SpawnEffect DEF Basic, Parts, HandleSession, Place,
       queueVars, tableVars, sendVars, loginVars, sessionVars, settings
  <2>4. SessionsType'
    BY <1>25 DEF Basic, Parts, HandleSession, SessionsType, queueVars, tableVars,
       sendVars, loginVars, sessionVars, settings
  <2>5. QED
    BY <2>1, <2>2, <2>3, <2>4 DEF Basic, Parts
<1>26. ASSUME NEW a \in Action, Delete(a) PROVE Basic'
  <2>1. (OpenedType /\ CompletionsType /\ ThreadsType /\ AccountsType /\ BuddiesType /\
       EntriesType /\ TimersType /\ StanzasType /\ LoginType /\ SessionsType /\
       HistoryType /\ Filed)'
    BY <1>26 DEF Basic, Parts, Delete, OpenedType, CompletionsType, ThreadsType,
       AccountsType, BuddiesType, EntriesType, TimersType, StanzasType, LoginType,
       SessionsType, HistoryType, Filed, queueVars, tableVars, sendVars, loginVars,
       sessionVars, settings
  <2>2. BudgetLeft'
    BY <1>26, SpendEffect DEF Basic, Parts, Delete, EnvStep, BudgetLeft
  <2>3. StoredType'
    BY <1>0, <1>26 DEF Basic, Parts, Delete, StoredType, queueVars, tableVars, sendVars,
       loginVars, sessionVars, settings
  <2>4. QED
    BY <2>1, <2>2, <2>3 DEF Basic, Parts
<1>27. ASSUME GoAway PROVE Basic'
  <2>1. (OpenedType /\ StoredType /\ CompletionsType /\ ThreadsType /\ AccountsType /\
       BuddiesType /\ EntriesType /\ TimersType /\ StanzasType /\ SessionsType /\
       HistoryType /\ Filed)'
    BY <1>27 DEF Basic, Parts, GoAway, LoginStep, OpenedType, StoredType, CompletionsType,
       ThreadsType, AccountsType, BuddiesType, EntriesType, TimersType, StanzasType,
       SessionsType, HistoryType, Filed, queueVars, tableVars, sendVars, loginVars,
       sessionVars, settings
  <2>2. BudgetLeft'
    BY <1>27, SpendEffect DEF Basic, Parts, GoAway, EnvStep, BudgetLeft
  <2>3. LoginType'
    BY <1>0, <1>27 DEF Basic, Parts, GoAway, LoginStep, settings, LoginType, queueVars,
       tableVars, sendVars, loginVars, sessionVars
  <2>4. QED
    BY <2>1, <2>2, <2>3 DEF Basic, Parts
<1>28. ASSUME Disconnect PROVE Basic'
  <2>1. (OpenedType /\ StoredType /\ CompletionsType /\ ThreadsType /\ AccountsType /\
       BuddiesType /\ EntriesType /\ TimersType /\ StanzasType /\ SessionsType /\
       HistoryType /\ Filed)'
    BY <1>28 DEF Basic, Parts, Disconnect, LoginStep, OpenedType, StoredType,
       CompletionsType, ThreadsType, AccountsType, BuddiesType, EntriesType, TimersType,
       StanzasType, SessionsType, HistoryType, Filed, queueVars, tableVars, sendVars,
       loginVars, sessionVars, settings
  <2>2. BudgetLeft'
    BY <1>28, SpendEffect DEF Basic, Parts, Disconnect, EnvStep, BudgetLeft
  <2>3. LoginType'
    BY <1>0, <1>28 DEF Basic, Parts, Disconnect, LoginStep, settings, LoginType,
       queueVars, tableVars, sendVars, loginVars, sessionVars
  <2>4. QED
    BY <2>1, <2>2, <2>3 DEF Basic, Parts
<1>29. ASSUME LoginFails PROVE Basic'
  <2>1. (OpenedType /\ StoredType /\ CompletionsType /\ ThreadsType /\ AccountsType /\
       BuddiesType /\ EntriesType /\ TimersType /\ StanzasType /\ SessionsType /\
       HistoryType /\ BudgetLeft /\ Filed)'
    BY <1>29 DEF Basic, Parts, LoginFails, LoginStep, OpenedType, StoredType,
       CompletionsType, ThreadsType, AccountsType, BuddiesType, EntriesType, TimersType,
       StanzasType, SessionsType, HistoryType, BudgetLeft, Filed, queueVars, tableVars,
       sendVars, loginVars, sessionVars, settings
  <2>2. LoginType'
    BY <1>0, <1>29 DEF Basic, Parts, LoginFails, LoginStep, settings, LoginType,
       queueVars, tableVars, sendVars, loginVars, sessionVars
  <2>3. QED
    BY <2>1, <2>2 DEF Basic, Parts
<1>30. ASSUME NEW b \in Thread, SessionStarts(b) PROVE Basic'
  <2>1. (OpenedType /\ StoredType /\ CompletionsType /\ ThreadsType /\ AccountsType /\
       BuddiesType /\ EntriesType /\ TimersType /\ StanzasType /\ LoginType /\ HistoryType
       /\ BudgetLeft /\ Filed)'
    BY <1>30 DEF Basic, Parts, SessionStarts, SessionStep, OpenedType, StoredType,
       CompletionsType, ThreadsType, AccountsType, BuddiesType, EntriesType, TimersType,
       StanzasType, LoginType, HistoryType, BudgetLeft, Filed, queueVars, tableVars,
       sendVars, loginVars, sessionVars, settings
  <2>2. SessionsType'
    BY <1>0, <1>30 DEF Basic, Parts, SessionStarts, SessionStep, SessionsType, queueVars,
       tableVars, sendVars, loginVars, sessionVars, settings
  <2>3. QED
    BY <2>1, <2>2 DEF Basic, Parts
<1>31. ASSUME NEW b \in Thread, SessionFails(b) PROVE Basic'
  <2>1. (OpenedType /\ StoredType /\ CompletionsType /\ ThreadsType /\ AccountsType /\
       BuddiesType /\ EntriesType /\ TimersType /\ StanzasType /\ LoginType /\ HistoryType
       /\ BudgetLeft /\ Filed)'
    BY <1>31 DEF Basic, Parts, SessionFails, SessionStep, OpenedType, StoredType,
       CompletionsType, ThreadsType, AccountsType, BuddiesType, EntriesType, TimersType,
       StanzasType, LoginType, HistoryType, BudgetLeft, Filed, queueVars, tableVars,
       sendVars, loginVars, sessionVars, settings
  <2>2. SessionsType'
    BY <1>0, <1>31 DEF Basic, Parts, SessionFails, SessionStep, SessionsType, queueVars,
       tableVars, sendVars, loginVars, sessionVars, settings
  <2>3. QED
    BY <2>1, <2>2 DEF Basic, Parts
<1>32. ASSUME NEW b \in Thread, PeerStartsSession(b) PROVE Basic'
  <2>1. (OpenedType /\ StoredType /\ CompletionsType /\ ThreadsType /\ AccountsType /\
       BuddiesType /\ EntriesType /\ TimersType /\ StanzasType /\ LoginType /\ HistoryType
       /\ Filed)'
    BY <1>32 DEF Basic, Parts, PeerStartsSession, SessionStep, OpenedType, StoredType,
       CompletionsType, ThreadsType, AccountsType, BuddiesType, EntriesType, TimersType,
       StanzasType, LoginType, HistoryType, Filed, queueVars, tableVars, sendVars,
       loginVars, sessionVars, settings
  <2>2. BudgetLeft'
    BY <1>32, SpendEffect DEF Basic, Parts, PeerStartsSession, EnvStep, BudgetLeft
  <2>3. SessionsType'
    BY <1>0, <1>32 DEF Basic, Parts, PeerStartsSession, SessionStep, SessionsType,
       queueVars, tableVars, sendVars, loginVars, sessionVars, settings
  <2>4. QED
    BY <2>1, <2>2, <2>3 DEF Basic, Parts
<1>33. ASSUME NEW b \in Thread, SessionEnds(b) PROVE Basic'
  <2>1. (OpenedType /\ StoredType /\ CompletionsType /\ ThreadsType /\ AccountsType /\
       BuddiesType /\ EntriesType /\ TimersType /\ StanzasType /\ LoginType /\ HistoryType
       /\ Filed)'
    BY <1>33 DEF Basic, Parts, SessionEnds, SessionStep, OpenedType, StoredType,
       CompletionsType, ThreadsType, AccountsType, BuddiesType, EntriesType, TimersType,
       StanzasType, LoginType, HistoryType, Filed, queueVars, tableVars, sendVars,
       loginVars, sessionVars, settings
  <2>2. BudgetLeft'
    BY <1>33, SpendEffect DEF Basic, Parts, SessionEnds, EnvStep, BudgetLeft
  <2>3. SessionsType'
    BY <1>0, <1>33 DEF Basic, Parts, SessionEnds, SessionStep, SessionsType, queueVars,
       tableVars, sendVars, loginVars, sessionVars, settings
  <2>4. QED
    BY <2>1, <2>2, <2>3 DEF Basic, Parts
<1>34. CASE UNCHANGED vars
  BY <1>34 DEF Basic, Parts, Filed, vars, queueVars, tableVars, sendVars, loginVars, sessionVars, settings,
     OpenedType, StoredType, CompletionsType, ThreadsType, AccountsType, BuddiesType, EntriesType, TimersType, StanzasType, LoginType, SessionsType, HistoryType, BudgetLeft
<1>35. QED
  BY <1>1, <1>2, <1>3, <1>4, <1>5, <1>6, <1>7, <1>8, <1>9, <1>10, <1>11, <1>12, <1>13, <1>14, <1>15, <1>16, <1>17, <1>18, <1>19, <1>20, <1>21, <1>22, <1>23, <1>24, <1>25, <1>26, <1>27, <1>28, <1>29, <1>30, <1>31, <1>32, <1>33, <1>34 DEF Next, HandlerStep, Prepare, Environment

\* Types and filing hold in every reachable state.
LEMMA AlwaysBasic == Spec => []Basic
<1>1. QED
  BY InitBasic, NextBasic, PTL DEF Spec

\* Every variable keeps its type, and no dictionary, timer or stanza carries a
\* call that was not opened.
THEOREM HandlerTypeCorrect == Spec => []TypeOK
<1>1. Basic => TypeOK
  BY TypeOKIsParts DEF Basic
<1>2. QED
  BY <1>1, AlwaysBasic, PTL

-----------------------------------------------------------------------------
(* The invariants.                                                         *)

\* One place holds a call, and it was not completed before.  An entry of a
\* moot message is not a place: its call was completed when it was filed.
Single(c) ==
  /\ completions[c] <= 1
  /\ Before(c) \/ (Waits(c) /\ ~Moot(opened[c])) => completions[c] = 0
  /\ \A p, q \in Code : At(c, p) /\ At(c, q) => p = q
  /\ InCode(c) => c \notin outstandingAccounts /\ ~InBuddy(c)
  /\ c \in outstandingAccounts => ~InBuddy(c)
  /\ Before(c) => ~Waits(c)
  /\ OnWay(c) => ~Moot(opened[c])

AllSingle ==
  /\ \A c \in DOMAIN opened : Single(c)
  /\ \A c \in Call \ DOMAIN opened : completions[c] = 0

\* A place that will complete it holds each call that is open and not lost.
Kept(c) ==
  completions[c] = 0 /\ c \notin lost =>
    \/ InCode(c) \/ c \in outstandingAccounts
    \/ InBuddy(c) /\ timers[c] > 0
    \/ OnWay(c) /\ Waits(c)

AllKept == \A c \in DOMAIN opened : Kept(c)

Alive(c) == Before(c) \/ OnWay(c)
Sendable(c) == Before(c) \/ c \in preparing \/ c \in outbox

\* Of the calls for one action at most one is alive; its message is in one
\* place on its way.
Solo ==
  /\ \A c \in DOMAIN opened : OnWay(c) => completions[c] = 0 /\ ~Before(c)
  /\ \A c \in preparing : c \notin outbox /\ ~Answered(c)
  /\ \A c \in outbox : ~Answered(c)
  /\ \A r, s \in answers : r.call = s.call => r = s
  /\ \A c, d \in DOMAIN opened : Alive(c) /\ Alive(d) /\ opened[c] = opened[d] => c = d

\* No call will send action a, and the broker hands it over no more.
Over(a) ==
  /\ \A c \in DOMAIN opened : opened[c] = a => ~Sendable(c)
  /\ a \notin queued \/ \E c \in DOMAIN opened : opened[c] = a /\ completions[c] = 0

SentOver == \A a \in Action : wire[a] <= 1 /\ (wire[a] > 0 => Over(a))
GivenUpOver == \A a \in timedOut : wire[a] = 0 /\ Over(a)

Bounded == budget["overlap"] <= Budget["overlap"] /\ budget["delete"] <= Budget["delete"]

Proper == NoOverlap => Solo /\ SentOver /\ GivenUpOver

\* Calls are for the first action of their queue, and what left its queue is
\* sent no more.
NoDelete == budget["delete"] = Budget["delete"]
InTurn ==
  NoOverlap /\ NoDelete =>
    /\ \A c \in DOMAIN opened, a \in Action :
         ThreadOf[a] = ThreadOf[opened[c]] /\ Date[a] < Date[opened[c]] => a \notin queued
    /\ \A c \in DOMAIN opened : opened[c] \notin queued => ~Sendable(c)
    /\ \A a \in Action : wire[a] > 0 => \E c \in DOMAIN opened : opened[c] = a

Calls == AllSingle /\ AllKept /\ Bounded /\ Proper /\ InTurn

-----------------------------------------------------------------------------
(* What a step leaves alone.                                               *)

\* Budgets are numbers.
LEMMA BudgetNumbers ==
  ASSUME BudgetLeft
  PROVE  /\ budget["overlap"] \in Nat /\ budget["delete"] \in Nat
         /\ Budget["overlap"] \in Nat /\ Budget["delete"] \in Nat
BY BudgetType DEF BudgetLeft, EnvStep

\* Variables that stay keep what is said of calls in terms of them.
LEMMA Frame ==
  /\ UNCHANGED threads => \A d : (InCode(d)' <=> InCode(d)) /\ \A q : At(d, q)' <=> At(d, q)
  /\ UNCHANGED outstandingBuddies => \A d : InBuddy(d)' <=> InBuddy(d)
  /\ UNCHANGED outstandingMessages => \A d : Waits(d)' <=> Waits(d)
  /\ UNCHANGED answers => \A d : Answered(d)' <=> Answered(d)
  /\ UNCHANGED wordless => \A a : Moot(a)' <=> Moot(a)
<1>1. UNCHANGED threads => \A d, q : At(d, q)' <=> At(d, q)
  BY DEF At
<1>2. UNCHANGED threads => \A d : InCode(d)' <=> InCode(d)
  BY DEF At, InCode
<1>3. UNCHANGED outstandingBuddies => \A d : InBuddy(d)' <=> InBuddy(d)
  BY DEF InBuddy
<1>4. UNCHANGED outstandingMessages => \A d : Waits(d)' <=> Waits(d)
  BY DEF Waits, Collection
<1>5. UNCHANGED answers => \A d : Answered(d)' <=> Answered(d)
  BY DEF Answered
<1>6. UNCHANGED wordless => \A a : Moot(a)' <=> Moot(a)
  BY DEF Moot
<1>7. QED
  BY <1>1, <1>2, <1>3, <1>4, <1>5, <1>6

\* Code that runs for a call goes on, or ends.
LEMMA GoOnInCode ==
  ASSUME AllSingle, NEW c \in DOMAIN opened, NEW p \in Code, At(c, p), NEW next, GoOn(c, p, next)
  PROVE  \A d \in DOMAIN opened :
           /\ InCode(d)' <=> IF d = c THEN next \cap Code # {} ELSE InCode(d)
           /\ \A q \in Code : At(d, q)' <=> IF d = c THEN q \in next ELSE At(d, q)
<1>1. \A d, q : At(d, q)' <=> \/ d = c /\ q \in next
                              \/ At(d, q) /\ ~(d = c /\ q = p)
  BY GoOnEffect
<1>2. \A q \in Code : At(c, q) => q = p
  BY DEF AllSingle, Single
<1>3. \A d \in DOMAIN opened, q \in Code : At(d, q)' <=> IF d = c THEN q \in next ELSE At(d, q)
  BY <1>1, <1>2
<1>4. \A d \in DOMAIN opened : InCode(d)' <=> \E q \in Code : At(d, q)'
  BY DEF InCode
<1>5. \A d \in DOMAIN opened : InCode(d) <=> \E q \in Code : At(d, q)
  BY DEF InCode
<1>6. QED
  BY <1>3, <1>4, <1>5

-----------------------------------------------------------------------------
(* What the steps do to calls.                                             *)

\* Steps of the account, of sessions, of users, and of code after the send.
LEMMA QuietKeeps ==
  ASSUME Basic, Calls, BudgetLeft',
         \A d \in DOMAIN opened, q \in Code : At(d, q)' <=> At(d, q),
         UNCHANGED <<opened, wordless, wire, timedOut, completions, lost, outstandingAccounts,
                     outstandingBuddies, outstandingMessages, timers, preparing, outbox, answers>>,
         budget'["overlap"] = budget["overlap"],
         \/ queued' = queued /\ budget'["delete"] = budget["delete"]
         \/ queued' \subseteq queued /\ budget'["delete"] = budget["delete"] - 1
  PROVE  Calls'
<1>1. \A d \in DOMAIN opened :
        /\ InCode(d)' <=> InCode(d)
        /\ InBuddy(d)' <=> InBuddy(d)
        /\ Waits(d)' <=> Waits(d)
        /\ Answered(d)' <=> Answered(d)
        /\ Moot(opened[d])' <=> Moot(opened[d])
  <2>1. \A d \in DOMAIN opened : InCode(d)' <=> InCode(d)
    BY DEF InCode
  <2>2. QED
    BY <2>1, Frame
<1>2. \A d \in DOMAIN opened : /\ Before(d)' <=> Before(d)
                               /\ OnWay(d)' <=> OnWay(d)
  BY <1>1 DEF Before, OnWay
<1>3. AllSingle'
  BY <1>1, <1>2 DEF Calls, AllSingle, Single, Call
<1>4. AllKept'
  BY <1>1, <1>2 DEF Calls, AllKept, Kept
<1>5. /\ Bounded'
      /\ NoOverlap' => NoOverlap
      /\ NoDelete' => NoDelete /\ queued' = queued
  BY BudgetNumbers DEF Basic, Parts, Calls, Bounded, NoOverlap, NoDelete
<1>6. Solo => Solo'
  BY <1>1, <1>2, OpenedCalls DEF Solo, Alive, Basic, Parts, StanzasType
<1>7. \A a : Over(a) => Over(a)'
  BY <1>1, <1>2, <1>5 DEF Over, Sendable
<1>8. Proper'
  BY <1>5, <1>6, <1>7 DEF Calls, Proper, SentOver, GivenUpOver
<1>9. InTurn'
  BY <1>1, <1>2, <1>5 DEF Calls, InTurn, Sendable
<1>10. QED
  BY <1>3, <1>4, <1>5, <1>8, <1>9 DEF Calls

\* Code that runs for a call goes on with it.
LEMMA MoveKeeps ==
  ASSUME Basic, Calls, NEW c \in DOMAIN opened, NEW p \in Code, At(c, p), NEW q \in Code,
         GoOn(c, p, {q}),
         UNCHANGED <<queued, opened, wordless, wire, timedOut, completions, lost, budget,
                     outstandingAccounts, outstandingBuddies, outstandingMessages, timers,
                     preparing, outbox, answers>>
  PROVE  Calls'
<1>1. InCode(c)
  BY DEF InCode
<1>2. \A d \in DOMAIN opened :
        /\ InCode(d)' <=> InCode(d)
        /\ InBuddy(d)' <=> InBuddy(d)
        /\ Waits(d)' <=> Waits(d)
        /\ Answered(d)' <=> Answered(d)
        /\ Moot(opened[d])' <=> Moot(opened[d])
        /\ \A r, s \in Code : (At(d, r) /\ At(d, s) => r = s) => (At(d, r)' /\ At(d, s)' => r = s)
  <2>1. \A d \in DOMAIN opened :
          /\ InCode(d)' <=> IF d = c THEN {q} \cap Code # {} ELSE InCode(d)
          /\ \A r \in Code : At(d, r)' <=> IF d = c THEN r \in {q} ELSE At(d, r)
    BY GoOnInCode DEF Calls
  <2>2. QED
    BY <1>1, <2>1, Frame
<1>3. \A d \in DOMAIN opened : /\ Before(d)' <=> Before(d)
                               /\ OnWay(d)' <=> OnWay(d)
  BY <1>2 DEF Before, OnWay
<1>4. AllSingle'
  BY <1>2, <1>3 DEF Calls, AllSingle, Single, Call
<1>5. AllKept'
  BY <1>2, <1>3 DEF Calls, AllKept, Kept
<1>6. Solo => Solo'
  BY <1>2, <1>3, OpenedCalls DEF Solo, Alive, Basic, Parts, StanzasType
<1>7. \A a : Over(a) => Over(a)'
  BY <1>2, <1>3 DEF Over, Sendable
<1>8. Bounded' /\ Proper'
  BY <1>6, <1>7 DEF Calls, Bounded, Proper, NoOverlap, SentOver, GivenUpOver
<1>9. InTurn'
  BY <1>2, <1>3 DEF Calls, InTurn, NoOverlap, NoDelete, Sendable
<1>10. QED
  BY <1>4, <1>5, <1>8, <1>9 DEF Calls

\* Code that runs for a call completes it.
LEMMA FinishKeeps ==
  ASSUME Basic, Calls, NEW c \in DOMAIN opened, NEW p \in Code, At(c, p), GoOn(c, p, {}),
         NEW success \in BOOLEAN, Complete({c}, success),
         UNCHANGED <<opened, wordless, wire, timedOut, lost, budget,
                     outstandingAccounts, outstandingBuddies, outstandingMessages, timers,
                     preparing, outbox, answers>>
  PROVE  Calls'
<1>1. InCode(c) /\ Before(c) /\ c \in Call /\ completions[c] = 0
  BY OpenedCalls DEF InCode, Before, Calls, AllSingle, Single, Basic, Parts
<1>2. /\ \A d \in Call : completions'[d] = IF d = c THEN 1 ELSE completions[d]
      /\ queued' = queued \/ queued' = queued \ {opened[c]}
      /\ completions \in [Call -> Nat]
  <2>1. /\ \A d \in Call : completions'[d] = IF d \in {c} THEN completions[d] + 1
                                              ELSE completions[d]
        /\ queued' = IF success THEN queued \ {opened[d] : d \in {c}} ELSE queued
    BY CompleteEffect DEF Basic, Parts
  <2>2. QED
    BY <1>1, <2>1 DEF Basic, Parts, CompletionsType
<1>3. \A d \in DOMAIN opened :
        /\ InCode(d)' <=> InCode(d) /\ d # c
        /\ InBuddy(d)' <=> InBuddy(d)
        /\ Waits(d)' <=> Waits(d)
        /\ Answered(d)' <=> Answered(d)
        /\ Moot(opened[d])' <=> Moot(opened[d])
        /\ \A r, s \in Code : (At(d, r) /\ At(d, s) => r = s) => (At(d, r)' /\ At(d, s)' => r = s)
  <2>1. \A d \in DOMAIN opened :
          /\ InCode(d)' <=> IF d = c THEN {} \cap Code # {} ELSE InCode(d)
          /\ \A r \in Code : At(d, r)' <=> IF d = c THEN r \in {} ELSE At(d, r)
    BY GoOnInCode DEF Calls
  <2>2. QED
    BY <2>1, Frame
<1>4. c \notin outstandingAccounts /\ ~InBuddy(c) /\ ~Waits(c)
  BY <1>1 DEF Calls, AllSingle, Single
<1>5. \A d \in DOMAIN opened : /\ Before(d)' <=> Before(d) /\ d # c
                               /\ OnWay(d)' <=> OnWay(d)
  BY <1>3, <1>4 DEF Before, OnWay
<1>6. AllSingle'
  BY <1>1, <1>2, <1>3, <1>4, <1>5, OpenedCalls DEF Calls, AllSingle, Single, Basic, Parts
<1>7. AllKept'
  BY <1>2, <1>3, <1>5, OpenedCalls DEF Calls, AllKept, Kept, Basic, Parts
<1>8. Solo => Solo'
  BY <1>1, <1>2, <1>3, <1>5, OpenedCalls DEF Solo, Alive, Basic, Parts, StanzasType
<1>9. \A a : Over(a) => Over(a)'
  BY <1>1, <1>2, <1>3, <1>5, OpenedCalls DEF Over, Sendable, Basic, Parts
<1>10. Bounded' /\ Proper'
  BY <1>8, <1>9 DEF Calls, Bounded, Proper, NoOverlap, SentOver, GivenUpOver
<1>11. InTurn'
  <2>1. ASSUME NoOverlap, NoDelete, NEW d \in DOMAIN opened, opened[d] \notin queued', Sendable(d)'
        PROVE  FALSE
    <3>1. d # c /\ Alive(d) /\ Sendable(d)
      BY <1>5, <2>1, <1>1, <1>4 DEF Sendable, Alive, OnWay, Calls, Proper, Solo
    <3>2. opened[d] # opened[c]
      BY <2>1, <1>1, <3>1 DEF Calls, Proper, Solo, Alive
    <3>3. opened[d] \notin queued
      BY <1>2, <2>1, <3>2
    <3>4. QED
      BY <2>1, <3>1, <3>3 DEF Calls, InTurn
  <2>2. QED
    BY <1>2, <2>1 DEF Calls, InTurn, NoOverlap, NoDelete
<1>12. QED
  BY <1>6, <1>7, <1>10, <1>11 DEF Calls

\* A message to a room that turns out to be moot: its call is completed, yet
\* filed.
LEMMA MootKeeps ==
  ASSUME Basic, Calls, NEW c \in DOMAIN opened, At(c, "send"), GoOn(c, "send", {"mark"}),
         Complete({c}, TRUE), Moot(opened[c]),
         outstandingMessages' = Renewed(c, {"room"}), lost' = lost \cup Replaced(c, {"room"}),
         UNCHANGED <<opened, wordless, wire, timedOut, budget, outstandingAccounts,
                     outstandingBuddies, timers, preparing, outbox, answers>>
  PROVE  Calls'
<1>1. InCode(c) /\ Before(c) /\ c \in Call /\ completions[c] = 0
  BY OpenedCalls DEF InCode, Code, Before, Calls, AllSingle, Single, Basic, Parts
<1>2. /\ \A d \in Call : completions'[d] = IF d = c THEN 1 ELSE completions[d]
      /\ queued' = queued \ {opened[c]}
      /\ completions \in [Call -> Nat]
  <2>1. /\ \A d \in Call : completions'[d] = IF d \in {c} THEN completions[d] + 1
                                              ELSE completions[d]
        /\ queued' = queued \ {opened[d] : d \in {c}}
    BY CompleteEffect DEF Basic, Parts
  <2>2. QED
    BY <1>1, <2>1 DEF Basic, Parts, CompletionsType
<1>3. \A d \in DOMAIN opened :
        /\ InCode(d)' <=> InCode(d) /\ d # c
        /\ InBuddy(d)' <=> InBuddy(d)
        /\ Answered(d)' <=> Answered(d)
        /\ Moot(opened[d])' <=> Moot(opened[d])
        /\ \A r, s \in Code : (At(d, r) /\ At(d, s) => r = s) => (At(d, r)' /\ At(d, s)' => r = s)
  <2>1. \A d \in DOMAIN opened :
          /\ InCode(d)' <=> IF d = c THEN {"mark"} \cap Code # {} ELSE InCode(d)
          /\ \A r \in Code : At(d, r)' <=> IF d = c THEN r \in {"mark"} ELSE At(d, r)
    BY GoOnInCode DEF Calls, Code
  <2>2. {"mark"} \cap Code = {}
    BY DEF Code
  <2>3. QED
    BY <2>1, <2>2, Frame
<1>4. \A d \in DOMAIN opened :
        /\ Waits(d)' <=> d = c \/ (Waits(d) /\ opened[d] # opened[c])
        /\ Waits(d) /\ opened[d] = opened[c] => d \in lost'
  <2>1. Collection(opened[c]) \in {"room"}
    BY DEF Moot, Collection, RoomKinds
  <2>2. QED
    BY <2>1, RenewedEffect DEF Basic, Parts
<1>5. c \notin outstandingAccounts /\ ~InBuddy(c)
  BY <1>1 DEF Calls, AllSingle, Single
<1>6. \A d \in DOMAIN opened : /\ Before(d)' <=> Before(d) /\ d # c
                               /\ OnWay(d)' <=> OnWay(d)
  BY <1>3, <1>5 DEF Before, OnWay
<1>7. AllSingle'
  BY <1>1, <1>2, <1>3, <1>4, <1>5, <1>6, OpenedCalls DEF Calls, AllSingle, Single, Basic, Parts
<1>8. AllKept'
  BY <1>2, <1>3, <1>4, <1>6, OpenedCalls DEF Calls, AllKept, Kept, Basic, Parts
<1>9. Solo => Solo'
  BY <1>1, <1>2, <1>3, <1>6, OpenedCalls DEF Solo, Alive, Basic, Parts, StanzasType
<1>10. \A a : Over(a) => Over(a)'
  BY <1>1, <1>2, <1>3, <1>6, OpenedCalls DEF Over, Sendable, Basic, Parts
<1>11. Bounded' /\ Proper'
  BY <1>9, <1>10 DEF Calls, Bounded, Proper, NoOverlap, SentOver, GivenUpOver
<1>12. InTurn'
  <2>1. ASSUME NoOverlap, NoDelete, NEW d \in DOMAIN opened, opened[d] \notin queued', Sendable(d)'
        PROVE  FALSE
    <3>1. d # c /\ Alive(d) /\ Sendable(d)
      BY <1>6, <2>1, <1>1, <1>5 DEF Sendable, Alive, OnWay, Calls, Proper, Solo
    <3>2. opened[d] # opened[c]
      BY <2>1, <1>1, <3>1 DEF Calls, Proper, Solo, Alive
    <3>3. opened[d] \notin queued
      BY <1>2, <2>1, <3>2
    <3>4. QED
      BY <2>1, <3>1, <3>3 DEF Calls, InTurn
  <2>2. QED
    BY <1>2, <2>1 DEF Calls, InTurn, NoOverlap, NoDelete
<1>13. QED
  BY <1>7, <1>8, <1>11, <1>12 DEF Calls

\* A message goes to OTRKit, to the OMEMO coordinator or to the stream, or is
\* dropped on its way there; its call is filed.
LEMMA SendKeeps ==
  ASSUME Basic, Calls, NEW c \in DOMAIN opened, At(c, "send"), ~Moot(opened[c]),
         NEW next, next \cap Code = {}, GoOn(c, "send", next),
         NEW collections \in SUBSET {"room", "outgoing"}, Collection(opened[c]) \in collections,
         outstandingMessages' = Renewed(c, collections),
         lost \cup Replaced(c, collections) \subseteq lost',
         \/ preparing' = preparing \cup {c} /\ outbox' = outbox
         \/ preparing' = preparing /\ outbox' = outbox \cup {c}
         \/ preparing' = preparing /\ outbox' = outbox /\ c \in lost',
         UNCHANGED <<queued, opened, wordless, wire, timedOut, completions, budget,
                     outstandingAccounts, outstandingBuddies, timers, answers>>
  PROVE  Calls'
<1>1. InCode(c) /\ Before(c) /\ completions[c] = 0
  BY DEF InCode, Code, Before, Calls, AllSingle, Single
<1>2. \A d \in DOMAIN opened :
        /\ InCode(d)' <=> InCode(d) /\ d # c
        /\ InBuddy(d)' <=> InBuddy(d)
        /\ Answered(d)' <=> Answered(d)
        /\ Moot(opened[d])' <=> Moot(opened[d])
        /\ \A r, s \in Code : (At(d, r) /\ At(d, s) => r = s) => (At(d, r)' /\ At(d, s)' => r = s)
  <2>1. \A d \in DOMAIN opened :
          /\ InCode(d)' <=> IF d = c THEN next \cap Code # {} ELSE InCode(d)
          /\ \A r \in Code : At(d, r)' <=> IF d = c THEN r \in next ELSE At(d, r)
    BY GoOnInCode DEF Calls, Code
  <2>2. QED
    BY <2>1, Frame
<1>3. \A d \in DOMAIN opened :
        /\ Waits(d)' <=> d = c \/ (Waits(d) /\ opened[d] # opened[c])
        /\ Waits(d) /\ opened[d] = opened[c] => d \in lost'
  BY RenewedEffect DEF Basic, Parts
<1>4. c \notin outstandingAccounts /\ ~InBuddy(c)
  BY <1>1 DEF Calls, AllSingle, Single
<1>5. \A d \in DOMAIN opened :
        /\ Before(d)' <=> Before(d) /\ d # c
        /\ d # c => /\ OnWay(d)' <=> OnWay(d)
                    /\ d \in preparing' <=> d \in preparing
                    /\ d \in outbox' <=> d \in outbox
  BY <1>2, <1>4 DEF Before, OnWay
<1>6. OnWay(c)' \/ c \in lost'
  BY DEF OnWay
<1>7. AllSingle'
  BY <1>1, <1>2, <1>3, <1>5 DEF Calls, AllSingle, Single, Call
<1>8. AllKept'
  BY <1>2, <1>3, <1>5, <1>6 DEF Calls, AllKept, Kept
<1>9. Solo => Solo'
  <2> SUFFICES ASSUME Solo PROVE Solo'
    OBVIOUS
  <2>1. c \notin preparing /\ c \notin outbox /\ ~Answered(c)
    BY <1>1 DEF Solo, OnWay
  <2>2. \A d \in DOMAIN opened : Alive(d)' => Alive(d)
    BY <1>1, <1>5 DEF Alive
  <2>3. \A d \in DOMAIN opened : OnWay(d)' => completions'[d] = 0 /\ ~Before(d)'
    BY <1>1, <1>5 DEF Solo
  <2>4. (\A d \in preparing' : d \notin outbox' /\ ~Answered(d)') /\ (\A d \in outbox' : ~Answered(d)')
    BY <1>2, <2>1 DEF Solo, Basic, Parts, StanzasType
  <2>5. QED
    BY <2>2, <2>3, <2>4 DEF Solo
<1>10. \A a : Over(a) => Over(a)'
  BY <1>1, <1>5 DEF Over, Sendable
<1>11. Bounded' /\ Proper'
  BY <1>9, <1>10 DEF Calls, Bounded, Proper, NoOverlap, SentOver, GivenUpOver
<1>12. InTurn'
  BY <1>1, <1>5 DEF Calls, InTurn, NoOverlap, NoDelete, Sendable
<1>13. QED
  BY <1>7, <1>8, <1>11, <1>12 DEF Calls

\* A call begins to wait for a login, or is dropped for one with its action.
LEMMA AwaitKeeps ==
  ASSUME Basic, Calls, NEW c \in DOMAIN opened, Await(c)
  PROVE  Calls'
<1>1. /\ At(c, "await") /\ GoOn(c, "await", {"connect"}) /\ WaitForAccount(c)
      /\ UNCHANGED <<queued, opened, wordless, wire, timedOut, completions, budget,
                     outstandingBuddies, outstandingMessages, timers, preparing, outbox, answers>>
  BY DEF Await, sendVars, loginVars, settings
<1>2. InCode(c) /\ Before(c) /\ completions[c] = 0
  BY <1>1 DEF InCode, Code, Before, Calls, AllSingle, Single
<1>3. \A d \in DOMAIN opened :
        /\ InCode(d)' <=> InCode(d) /\ d # c
        /\ InBuddy(d)' <=> InBuddy(d)
        /\ Waits(d)' <=> Waits(d)
        /\ Answered(d)' <=> Answered(d)
        /\ Moot(opened[d])' <=> Moot(opened[d])
        /\ \A r, s \in Code : (At(d, r) /\ At(d, s) => r = s) => (At(d, r)' /\ At(d, s)' => r = s)
  <2>1. \A d \in DOMAIN opened :
          /\ InCode(d)' <=> IF d = c THEN {"connect"} \cap Code # {} ELSE InCode(d)
          /\ \A r \in Code : At(d, r)' <=> IF d = c THEN r \in {"connect"} ELSE At(d, r)
    BY <1>1, GoOnInCode DEF Calls, Code
  <2>2. {"connect"} \cap Code = {}
    BY DEF Code
  <2>3. QED
    BY <1>1, <2>1, <2>2, Frame
<1>4. c \notin outstandingAccounts /\ ~InBuddy(c) /\ ~Waits(c)
  BY <1>2 DEF Calls, AllSingle, Single
<1>5. /\ outstandingAccounts \subseteq outstandingAccounts'
      /\ outstandingAccounts' \subseteq outstandingAccounts \cup {c}
      /\ lost \subseteq lost'
      /\ c \in outstandingAccounts' \/ c \in lost'
  BY <1>1, <1>4 DEF WaitForAccount
<1>6. \A d \in DOMAIN opened :
        /\ Before(d)' => Before(d)
        /\ OnWay(d)' <=> OnWay(d)
        /\ d # c => (Before(d)' <=> Before(d))
  BY <1>1, <1>2, <1>3, <1>5 DEF Before, OnWay
<1>7. AllSingle'
  BY <1>1, <1>2, <1>3, <1>4, <1>5, <1>6 DEF Calls, AllSingle, Single, Call
<1>8. AllKept'
  BY <1>1, <1>3, <1>5, <1>6 DEF Calls, AllKept, Kept
<1>9. Solo => Solo'
  BY <1>1, <1>3, <1>6, OpenedCalls DEF Solo, Alive, Basic, Parts, StanzasType
<1>10. \A a : Over(a) => Over(a)'
  BY <1>1, <1>6 DEF Over, Sendable
<1>11. Bounded' /\ Proper'
  BY <1>1, <1>9, <1>10 DEF Calls, Bounded, Proper, NoOverlap, SentOver, GivenUpOver
<1>12. InTurn'
  BY <1>1, <1>6 DEF Calls, InTurn, NoOverlap, NoDelete, Sendable
<1>13. QED
  BY <1>7, <1>8, <1>11, <1>12 DEF Calls

\* A call begins to wait for a session, in the place of one that is dropped.
LEMMA InitiateKeeps ==
  ASSUME Basic, Calls, NEW c \in DOMAIN opened, Initiate(c)
  PROVE  Calls'
<1> DEFINE b == ThreadOf[opened[c]]
<1>1. /\ At(c, "initiate") /\ GoOn(c, "initiate", {}) /\ WaitForBuddy(b, c)
      /\ timers' = [timers EXCEPT ![c] = @ + 1]
      /\ UNCHANGED <<queued, opened, wordless, wire, timedOut, completions, budget,
                     outstandingAccounts, outstandingMessages, preparing, outbox, answers>>
  BY DEF Initiate, sendVars, loginVars, settings
<1>2. InCode(c) /\ Before(c) /\ completions[c] = 0
  BY <1>1 DEF InCode, Code, Before, Calls, AllSingle, Single
<1>3. \A d \in DOMAIN opened :
        /\ InCode(d)' <=> InCode(d) /\ d # c
        /\ Waits(d)' <=> Waits(d)
        /\ Answered(d)' <=> Answered(d)
        /\ Moot(opened[d])' <=> Moot(opened[d])
        /\ \A r, s \in Code : (At(d, r) /\ At(d, s) => r = s) => (At(d, r)' /\ At(d, s)' => r = s)
  <2>1. \A d \in DOMAIN opened :
          /\ InCode(d)' <=> IF d = c THEN {} \cap Code # {} ELSE InCode(d)
          /\ \A r \in Code : At(d, r)' <=> IF d = c THEN r \in {} ELSE At(d, r)
    BY <1>1, GoOnInCode DEF Calls, Code
  <2>2. QED
    BY <1>1, <2>1, Frame
<1>4. c \notin outstandingAccounts /\ ~InBuddy(c) /\ ~Waits(c)
  BY <1>2 DEF Calls, AllSingle, Single
<1>5. /\ \A d \in DOMAIN opened :
           InBuddy(d)' <=> d = c \/ (InBuddy(d) /\ d \notin WaitingBuddy(b))
      /\ lost' = lost \cup (WaitingBuddy(b) \ {c})
  BY <1>1, WaitForBuddyEffect DEF Basic, Parts
<1> HIDE DEF b
<1>6. \A d \in DOMAIN opened :
        /\ Before(d)' => Before(d)
        /\ OnWay(d)' <=> OnWay(d)
        /\ Before(d) => Before(d)' \/ d \in lost'
  BY <1>1, <1>2, <1>3, <1>5 DEF Before, OnWay
<1>7. \A d \in DOMAIN opened : d # c => timers'[d] = timers[d]
  BY <1>1 DEF Basic, Parts, TimersType
<1>8. timers'[c] > 0
  BY <1>1, OpenedCalls DEF Basic, Parts, TimersType
<1>9. AllSingle'
  BY <1>1, <1>2, <1>3, <1>4, <1>5, <1>6 DEF Calls, AllSingle, Single, Call
<1>10. AllKept'
  <2> SUFFICES ASSUME NEW d \in DOMAIN opened PROVE Kept(d)'
    BY <1>1 DEF AllKept
  <2>1. CASE d = c
    BY <1>5, <1>8, <2>1 DEF Kept
  <2>2. CASE d # c
    BY <1>1, <1>3, <1>5, <1>6, <1>7, <2>2 DEF Calls, AllKept, Kept
  <2>3. QED
    BY <2>1, <2>2
<1>11. Solo => Solo'
  BY <1>1, <1>3, <1>6, OpenedCalls DEF Solo, Alive, Basic, Parts, StanzasType
<1>12. \A a : Over(a) => Over(a)'
  BY <1>1, <1>6 DEF Over, Sendable
<1>13. Bounded' /\ Proper'
  BY <1>1, <1>11, <1>12 DEF Calls, Bounded, Proper, NoOverlap, SentOver, GivenUpOver
<1>14. InTurn'
  BY <1>1, <1>6 DEF Calls, InTurn, NoOverlap, NoDelete, Sendable
<1>15. QED
  BY <1>9, <1>10, <1>13, <1>14 DEF Calls

\* An encrypted message goes to the stream.
LEMMA EncodedKeeps ==
  ASSUME Basic, Calls, NEW c \in DOMAIN opened, Encoded(c) \/ Encrypted(c)
  PROVE  Calls'
<1>1. /\ c \in preparing /\ preparing' = preparing \ {c} /\ outbox' = outbox \cup {c}
      /\ UNCHANGED <<queued, opened, wordless, wire, timedOut, completions, lost, budget, threads,
                     outstandingAccounts, outstandingBuddies, outstandingMessages, timers, answers>>
  BY DEF Encoded, Encrypted, Prepared, queueVars, tableVars, loginVars, settings
<1>2. \A d \in DOMAIN opened :
        /\ InCode(d)' <=> InCode(d)
        /\ InBuddy(d)' <=> InBuddy(d)
        /\ Waits(d)' <=> Waits(d)
        /\ Answered(d)' <=> Answered(d)
        /\ Moot(opened[d])' <=> Moot(opened[d])
        /\ \A q \in Code : At(d, q)' <=> At(d, q)
  BY <1>1, Frame
<1>3. \A d \in DOMAIN opened :
        /\ Before(d)' <=> Before(d)
        /\ OnWay(d)' <=> OnWay(d)
        /\ Sendable(d)' <=> Sendable(d)
  BY <1>1, <1>2 DEF Before, OnWay, Sendable
<1>4. AllSingle'
  BY <1>1, <1>2, <1>3 DEF Calls, AllSingle, Single, Call
<1>5. AllKept'
  BY <1>1, <1>2, <1>3 DEF Calls, AllKept, Kept
<1>6. Solo => Solo'
  <2> SUFFICES ASSUME Solo PROVE Solo'
    OBVIOUS
  <2>1. \A d \in preparing' \cup outbox' : d \in DOMAIN opened
    BY <1>1 DEF Basic, Parts, StanzasType
  <2>2. (\A d \in preparing' : d \notin outbox' /\ ~Answered(d)') /\ (\A d \in outbox' : ~Answered(d)')
    BY <1>1, <1>2, <2>1 DEF Solo
  <2>3. QED
    BY <1>1, <1>3, <2>2 DEF Solo, Alive
<1>7. \A a : Over(a) => Over(a)'
  BY <1>1, <1>3 DEF Over
<1>8. Bounded' /\ Proper'
  BY <1>1, <1>6, <1>7 DEF Calls, Bounded, Proper, NoOverlap, SentOver, GivenUpOver
<1>9. InTurn'
  BY <1>1, <1>3 DEF Calls, InTurn, NoOverlap, NoDelete
<1>10. QED
  BY <1>4, <1>5, <1>8, <1>9 DEF Calls

\* A message leaves its way to the stream without a word.
LEMMA LoseKeeps ==
  ASSUME Basic, Calls, NEW c \in DOMAIN opened, OnWay(c),
         preparing \ {c} \subseteq preparing', preparing' \subseteq preparing,
         answers' \subseteq answers, \A r \in answers : r.call # c => r \in answers',
         Solo => c \notin preparing' /\ c \notin outbox /\ ~Answered(c)',
         Waits(c) => c \in lost', lost \subseteq lost',
         queued' = queued \/ queued' = queued \ {opened[c]},
         UNCHANGED <<threads, opened, wordless, wire, timedOut, completions, budget, outbox,
                     outstandingAccounts, outstandingBuddies, outstandingMessages, timers>>
  PROVE  Calls'
<1>1. \A d \in DOMAIN opened :
        /\ InCode(d)' <=> InCode(d)
        /\ InBuddy(d)' <=> InBuddy(d)
        /\ Waits(d)' <=> Waits(d)
        /\ Moot(opened[d])' <=> Moot(opened[d])
        /\ \A q \in Code : At(d, q)' <=> At(d, q)
  BY Frame
<1>2. \A d \in DOMAIN opened :
        /\ Answered(d)' => Answered(d)
        /\ d # c => (Answered(d)' <=> Answered(d))
  BY DEF Answered
<1>3. \A d \in DOMAIN opened :
        /\ Before(d)' <=> Before(d)
        /\ OnWay(d)' => OnWay(d)
        /\ d # c => (OnWay(d)' <=> OnWay(d))
        /\ Sendable(d)' => Sendable(d)
  BY <1>1, <1>2 DEF Before, OnWay, Sendable
<1>4. AllSingle'
  BY <1>1, <1>3 DEF Calls, AllSingle, Single, Call
<1>5. AllKept'
  BY <1>1, <1>3 DEF Calls, AllKept, Kept
<1>6. Solo => Solo'
  BY <1>2, <1>3, OpenedCalls DEF Solo, Alive, Basic, Parts, StanzasType
<1>7. \A a : Over(a) => Over(a)'
  BY <1>3 DEF Over
<1>8. Bounded' /\ Proper'
  BY <1>6, <1>7 DEF Calls, Bounded, Proper, NoOverlap, SentOver, GivenUpOver
<1>9. InTurn'
  <2>1. ASSUME NoOverlap, NoDelete, NEW d \in DOMAIN opened, opened[d] \notin queued', Sendable(d)'
        PROVE  FALSE
    <3>1. Solo
      BY <2>1 DEF Calls, Proper
    <3>2. d # c /\ Alive(d) /\ Sendable(d)
      BY <1>3, <2>1, <3>1 DEF Sendable, Alive, OnWay, Solo
    <3>3. opened[d] # opened[c]
      BY <3>1, <3>2 DEF Solo, Alive
    <3>4. opened[d] \notin queued
      BY <2>1, <3>3
    <3>5. QED
      BY <2>1, <3>2, <3>4 DEF Calls, InTurn
  <2>2. QED
    BY <2>1 DEF Calls, InTurn, NoOverlap, NoDelete
<1>10. QED
  BY <1>4, <1>5, <1>8, <1>9 DEF Calls

\* What becomes of a message is known: the calls filed for it are completed.
LEMMA SettleKeeps ==
  ASSUME Basic, Calls, NEW c \in DOMAIN opened, OnWay(c),
         preparing \ {c} \subseteq preparing', preparing' \subseteq preparing,
         answers' \subseteq answers, \A r \in answers : r.call # c => r \in answers',
         Solo => c \notin preparing' /\ c \notin outbox /\ ~Answered(c)',
         PopMessage(opened[c]), Complete(CallsOf(Waiting(opened[c])), TRUE),
         UNCHANGED <<threads, opened, wordless, wire, timedOut, lost, budget, outbox,
                     outstandingAccounts, outstandingBuddies, timers>>
  PROVE  Calls'
<1> DEFINE S == {d \in DOMAIN opened : Waits(d) /\ opened[d] = opened[c]}
<1>1. CallsOf(Waiting(opened[c])) = S
  BY WaitingCalls DEF Basic, Parts
<1>2. /\ \A d \in Call : completions'[d] = IF d \in S THEN completions[d] + 1 ELSE completions[d]
      /\ queued' = queued \ {opened[d] : d \in S}
      /\ completions \in [Call -> Nat]
  <2>1. TRUE \in BOOLEAN /\ CompletionsType /\ Complete(S, TRUE)
    BY <1>1 DEF Basic, Parts
  <2> HIDE DEF S
  <2>2. /\ \A d \in Call : completions'[d] = IF d \in S THEN completions[d] + 1
                                              ELSE completions[d]
        /\ queued' = queued \ {opened[d] : d \in S}
    BY <2>1, CompleteEffect
  <2>3. QED
    BY <2>1, <2>2 DEF CompletionsType
<1>3. \A d \in DOMAIN opened :
        /\ InCode(d)' <=> InCode(d)
        /\ InBuddy(d)' <=> InBuddy(d)
        /\ Waits(d)' <=> Waits(d) /\ opened[d] # opened[c]
        /\ Moot(opened[d])' <=> Moot(opened[d])
        /\ \A q \in Code : At(d, q)' <=> At(d, q)
  BY Frame, PopMessageEffect DEF Basic, Parts
<1>4. \A d \in DOMAIN opened :
        /\ Answered(d)' => Answered(d)
        /\ d # c => (Answered(d)' <=> Answered(d))
  BY DEF Answered
<1>5. \A d \in DOMAIN opened :
        /\ Before(d)' <=> Before(d)
        /\ OnWay(d)' => OnWay(d)
        /\ d # c => (OnWay(d)' <=> OnWay(d))
        /\ Sendable(d)' => Sendable(d)
  BY <1>3, <1>4 DEF Before, OnWay, Sendable
<1>6. ~Moot(opened[c])
  BY DEF Calls, AllSingle, Single
<1>7. \A d \in S : d \in Call /\ completions[d] = 0 /\ ~Before(d)
  BY <1>6, OpenedCalls DEF Calls, AllSingle, Single, Basic, Parts
<1> HIDE DEF S
<1>8. \A d \in DOMAIN opened : d \in S <=> Waits(d) /\ opened[d] = opened[c]
  BY DEF S
<1>9. AllSingle'
  BY <1>2, <1>3, <1>5, <1>7, <1>8, OpenedCalls DEF Calls, AllSingle, Single, Basic, Parts, S
<1>10. AllKept'
  BY <1>2, <1>3, <1>5, <1>8, OpenedCalls DEF Calls, AllKept, Kept, Basic, Parts
<1>11. \A d \in DOMAIN opened : Solo /\ OnWay(d)' => d \notin S
  BY <1>5, <1>8 DEF Solo, Alive, OnWay
<1>12. Solo => Solo'
  <2> SUFFICES ASSUME Solo PROVE Solo'
    OBVIOUS
  <2>1. \A d \in DOMAIN opened : OnWay(d)' => completions'[d] = 0 /\ ~Before(d)'
    BY <1>2, <1>5, <1>11, OpenedCalls DEF Solo, Basic, Parts
  <2>2. QED
    BY <1>4, <1>5, <2>1, OpenedCalls DEF Solo, Alive, Basic, Parts, StanzasType
<1>13. \A a : Over(a) => Over(a)'
  <2> SUFFICES ASSUME NEW a, Over(a) PROVE Over(a)'
    OBVIOUS
  <2>1. \A d \in DOMAIN opened' : opened'[d] = a => ~Sendable(d)'
    BY <1>5 DEF Over
  <2>2. CASE a \notin queued
    BY <1>2, <2>1, <2>2 DEF Over
  <2>3. CASE a \in queued
    <3>1. PICK d \in DOMAIN opened : opened[d] = a /\ completions[d] = 0
      BY <2>3 DEF Over
    <3>2. CASE d \in S
      BY <1>2, <2>1, <3>1, <3>2 DEF Over
    <3>3. CASE d \notin S
      BY <1>2, <2>1, <3>1, <3>3, OpenedCalls DEF Over, Basic, Parts
    <3>4. QED
      BY <3>2, <3>3
  <2>4. QED
    BY <2>2, <2>3
<1>14. Bounded' /\ Proper'
  BY <1>12, <1>13 DEF Calls, Bounded, Proper, NoOverlap, SentOver, GivenUpOver
<1>15. InTurn'
  <2>1. ASSUME NoOverlap, NoDelete, NEW d \in DOMAIN opened, opened[d] \notin queued', Sendable(d)'
        PROVE  FALSE
    <3>1. Solo
      BY <2>1 DEF Calls, Proper
    <3>2. d # c /\ Alive(d) /\ Sendable(d)
      BY <1>5, <2>1, <3>1 DEF Sendable, Alive, OnWay, Solo
    <3>3. opened[d] # opened[c]
      BY <3>1, <3>2 DEF Solo, Alive
    <3>4. opened[d] \notin queued
      BY <1>2, <2>1, <3>3 DEF S
    <3>5. QED
      BY <2>1, <3>2, <3>4 DEF Calls, InTurn
  <2>2. QED
    BY <1>2, <2>1 DEF Calls, InTurn, NoOverlap, NoDelete
<1>16. QED
  BY <1>9, <1>10, <1>14, <1>15 DEF Calls

\* The stream takes a stanza.
LEMMA TransmitKeeps ==
  ASSUME Basic, Calls, NEW c \in DOMAIN opened, Transmit(c)
  PROVE  Calls'
<1>1. PICK r : /\ r.call = c /\ answers' = answers \cup {r}
  <2> DEFINE q == [call |-> c, sent |-> stream = "authenticated"]
  <2>1. q.call = c /\ answers' = answers \cup {q}
    BY DEF Transmit
  <2>2. QED
    BY <2>1
<1>2. /\ c \in outbox /\ outbox' = outbox \ {c}
      /\ wire' = wire \/ wire' = [wire EXCEPT ![opened[c]] = @ + 1]
      /\ UNCHANGED <<queued, opened, wordless, timedOut, completions, lost, budget, threads,
                     outstandingAccounts, outstandingBuddies, outstandingMessages, timers, preparing>>
  BY DEF Transmit, queueVars, tableVars, loginVars, settings
<1>3. \A d \in DOMAIN opened :
        /\ InCode(d)' <=> InCode(d)
        /\ InBuddy(d)' <=> InBuddy(d)
        /\ Waits(d)' <=> Waits(d)
        /\ Moot(opened[d])' <=> Moot(opened[d])
        /\ \A q \in Code : At(d, q)' <=> At(d, q)
        /\ Answered(d)' <=> Answered(d) \/ d = c
  <2>1. \A d \in DOMAIN opened : Answered(d)' <=> Answered(d) \/ d = c
    BY <1>1, <1>2 DEF Answered
  <2>2. QED
    BY <1>2, <2>1, Frame
<1>4. \A d \in DOMAIN opened :
        /\ Before(d)' <=> Before(d)
        /\ OnWay(d)' <=> OnWay(d)
        /\ Sendable(d)' => Sendable(d)
        /\ d # c => (d \in outbox' <=> d \in outbox)
  BY <1>2, <1>3 DEF Before, OnWay, Sendable
<1>5. AllSingle'
  BY <1>2, <1>3, <1>4 DEF Calls, AllSingle, Single, Call
<1>6. AllKept'
  BY <1>2, <1>3, <1>4 DEF Calls, AllKept, Kept
<1>7. Solo => Solo'
  <2> SUFFICES ASSUME Solo PROVE Solo'
    OBVIOUS
  <2>1. ~Answered(c) /\ c \notin preparing
    BY <1>2 DEF Solo
  <2>2. \A s, t \in answers' : s.call = t.call => s = t
    BY <1>1, <2>1 DEF Solo, Answered
  <2>3. (\A d \in preparing' : d \notin outbox' /\ ~Answered(d)') /\ (\A d \in outbox' : ~Answered(d)')
    BY <1>2, <1>3, <2>1 DEF Solo, Basic, Parts, StanzasType
  <2>4. QED
    BY <1>2, <1>4, <2>2, <2>3 DEF Solo, Alive
<1>8. \A a : Over(a) => Over(a)' /\ a # opened[c]
  BY <1>2, <1>4 DEF Over, Sendable
<1>9. Solo => Over(opened[c])'
  <2> SUFFICES ASSUME Solo PROVE Over(opened[c])'
    OBVIOUS
  <2>1. completions[c] = 0 /\ ~Before(c) /\ c \notin preparing
    BY <1>2 DEF Solo, OnWay
  <2>2. ASSUME NEW d \in DOMAIN opened, opened[d] = opened[c], Sendable(d)' PROVE FALSE
    <3>1. d # c
      BY <1>2, <1>4, <2>1, <2>2 DEF Sendable
    <3>2. Alive(d) /\ Alive(c)
      BY <1>2, <1>4, <2>2 DEF Sendable, Alive, OnWay
    <3>3. QED
      BY <2>2, <3>1, <3>2 DEF Solo
  <2>3. QED
    BY <1>2, <2>1, <2>2 DEF Over
<1>10. Bounded' /\ Proper'
  <2>1. opened[c] \in Action /\ wire \in [Action -> Nat] /\ timedOut \subseteq Action
    BY OpenedCalls DEF Basic, Parts, HistoryType
  <2>2. ASSUME NoOverlap, SentOver, Solo PROVE SentOver'
    <3>1. ~Over(opened[c])
      BY <1>8
    <3>2. wire[opened[c]] = 0
      BY <2>1, <2>2, <3>1 DEF SentOver
    <3>3. QED
      BY <1>2, <1>8, <1>9, <2>1, <2>2, <3>2 DEF SentOver
  <2>3. ASSUME GivenUpOver PROVE GivenUpOver'
    BY <1>2, <1>8, <2>1, <2>3 DEF GivenUpOver
  <2>4. QED
    BY <1>2, <1>7, <2>2, <2>3 DEF Calls, Bounded, Proper, NoOverlap
<1>11. InTurn'
  <2>1. \A a \in Action : wire'[a] > 0 => wire[a] > 0 \/ a = opened[c]
    BY <1>2 DEF Basic, Parts, HistoryType
  <2>2. QED
    BY <1>2, <1>4, <2>1 DEF Calls, InTurn, NoOverlap, NoDelete
<1>12. QED
  BY <1>5, <1>6, <1>10, <1>11 DEF Calls

\* Code runs again for calls that waited; others that waited are dropped.
LEMMA WakeKeeps ==
  ASSUME Basic, Calls, NEW S \in SUBSET DOMAIN opened, NEW p \in Code, Spawn(S, p),
         \A d \in S : d \in outstandingAccounts \/ InBuddy(d),
         \A d \in S : d \notin outstandingAccounts' /\ ~InBuddy(d)',
         outstandingAccounts' \subseteq outstandingAccounts,
         \A d \in DOMAIN opened : InBuddy(d)' => InBuddy(d),
         \A d \in outstandingAccounts : d \in outstandingAccounts' \cup S \cup lost',
         \A d \in DOMAIN opened : InBuddy(d) => InBuddy(d)' \/ d \in S \/ d \in lost',
         lost \subseteq lost',
         UNCHANGED <<queued, opened, wordless, wire, timedOut, completions, budget, timers,
                     outstandingMessages, preparing, outbox, answers>>
  PROVE  Calls'
<1>1. \A d, q : At(d, q)' <=> (d \in S /\ q = p) \/ At(d, q)
  BY SpawnEffect
<1>2. \A d \in S : Before(d) /\ ~InCode(d) /\ \A q \in Code : ~At(d, q)
  BY DEF Calls, AllSingle, Single, Before, InCode
<1>3. \A d \in DOMAIN opened :
        /\ InCode(d)' <=> InCode(d) \/ d \in S
        /\ Waits(d)' <=> Waits(d)
        /\ Answered(d)' <=> Answered(d)
        /\ Moot(opened[d])' <=> Moot(opened[d])
        /\ \A r, s \in Code : (At(d, r) /\ At(d, s) => r = s) => (At(d, r)' /\ At(d, s)' => r = s)
  <2>1. \A d \in DOMAIN opened : InCode(d)' <=> InCode(d) \/ d \in S
    BY <1>1 DEF InCode
  <2>2. QED
    BY <1>1, <1>2, <2>1, Frame
<1>4. \A d \in DOMAIN opened :
        /\ Before(d)' => Before(d)
        /\ OnWay(d)' <=> OnWay(d)
        /\ Before(d) => Before(d)' \/ d \in lost'
  BY <1>2, <1>3 DEF Before, OnWay
<1>5. AllSingle'
  BY <1>2, <1>3, <1>4 DEF Calls, AllSingle, Single, Call
<1>6. AllKept'
  BY <1>3, <1>4 DEF Calls, AllKept, Kept
<1>7. Solo => Solo'
  BY <1>3, <1>4, OpenedCalls DEF Solo, Alive, Basic, Parts, StanzasType
<1>8. \A a : Over(a) => Over(a)'
  BY <1>4 DEF Over, Sendable
<1>9. Bounded' /\ Proper'
  BY <1>7, <1>8 DEF Calls, Bounded, Proper, NoOverlap, SentOver, GivenUpOver
<1>10. InTurn'
  BY <1>4 DEF Calls, InTurn, NoOverlap, NoDelete, Sendable
<1>11. QED
  BY <1>5, <1>6, <1>9, <1>10 DEF Calls

\* The timer of a buddy gives up the call that waits for a session.
LEMMA TimedOutKeeps ==
  ASSUME Basic, Calls, NEW c \in DOMAIN opened, TimedOut(c)
  PROVE  Calls'
<1> DEFINE b == ThreadOf[opened[c]]
           S == WaitingBuddy(b)
<1>1. /\ timers' = [timers EXCEPT ![c] = @ - 1]
      /\ PopBuddy(b) /\ Complete(S, TRUE)
      /\ timedOut' = timedOut \cup (messages \cap {opened[d] : d \in S})
      /\ UNCHANGED <<opened, wordless, wire, lost, budget, threads, outstandingAccounts,
                     outstandingMessages, preparing, outbox, answers>>
  BY DEF TimedOut, loginVars, settings
<1>2. b \in Thread
  BY OpenedCalls, ThreadOfType DEF Basic, Parts
<1>3. /\ S = {d \in DOMAIN opened : InBuddy(d) /\ ThreadOf[opened[d]] = b}
      /\ \A d \in DOMAIN opened : InBuddy(d)' <=> InBuddy(d) /\ d \notin S
  BY <1>1, <1>2, PopBuddyEffect DEF Basic, Parts
<1>4. InBuddy(c) => c \in S
  BY <1>3
<1> HIDE DEF S, b
<1>5. /\ \A d \in Call : completions'[d] = IF d \in S THEN completions[d] + 1 ELSE completions[d]
      /\ queued' = queued \ {opened[d] : d \in S}
      /\ completions \in [Call -> Nat]
  <2>1. TRUE \in BOOLEAN /\ CompletionsType /\ Complete(S, TRUE)
    BY <1>1 DEF Basic, Parts
  <2>2. /\ \A d \in Call : completions'[d] = IF d \in S THEN completions[d] + 1
                                              ELSE completions[d]
        /\ queued' = queued \ {opened[d] : d \in S}
    BY <2>1, CompleteEffect
  <2>3. QED
    BY <2>1, <2>2 DEF CompletionsType
<1>6. \A d \in S : /\ d \in DOMAIN opened /\ d \in Call /\ Before(d) /\ completions[d] = 0
                   /\ ~InCode(d) /\ d \notin outstandingAccounts /\ ~Waits(d)
  BY <1>3, OpenedCalls DEF Calls, AllSingle, Single, Basic, Parts, Before
<1>7. \A d \in DOMAIN opened :
        /\ InCode(d)' <=> InCode(d)
        /\ Waits(d)' <=> Waits(d)
        /\ Answered(d)' <=> Answered(d)
        /\ Moot(opened[d])' <=> Moot(opened[d])
        /\ \A q \in Code : At(d, q)' <=> At(d, q)
  BY <1>1, Frame
<1>8. \A d \in DOMAIN opened : /\ Before(d)' <=> Before(d) /\ d \notin S
                               /\ OnWay(d)' <=> OnWay(d)
  BY <1>1, <1>3, <1>6, <1>7 DEF Before, OnWay
<1>9. \A d \in DOMAIN opened : d # c => timers'[d] = timers[d]
  BY <1>1 DEF Basic, Parts, TimersType
<1>10. AllSingle'
  BY <1>1, <1>3, <1>5, <1>6, <1>7, <1>8, OpenedCalls DEF Calls, AllSingle, Single, Basic, Parts
<1>11. AllKept'
  <2> SUFFICES ASSUME NEW d \in DOMAIN opened PROVE Kept(d)'
    BY <1>1 DEF AllKept
  <2>1. CASE d \in S
    BY <1>5, <1>6, <2>1 DEF Kept
  <2>2. CASE d \notin S
    <3>1. completions'[d] = completions[d]
      BY <1>5, <2>2, OpenedCalls DEF Basic, Parts
    <3>2. InBuddy(d) => d # c
      BY <1>4, <2>2
    <3>3. QED
      BY <1>1, <1>3, <1>7, <1>8, <1>9, <2>2, <3>1, <3>2 DEF Calls, AllKept, Kept
  <2>3. QED
    BY <2>1, <2>2
<1>12. Solo => Solo'
  <2> SUFFICES ASSUME Solo PROVE Solo'
    OBVIOUS
  <2>1. \A d \in DOMAIN opened : OnWay(d)' => completions'[d] = 0 /\ ~Before(d)'
    BY <1>5, <1>6, <1>8, OpenedCalls DEF Solo, Basic, Parts
  <2>2. QED
    BY <1>1, <1>7, <1>8, <2>1, OpenedCalls DEF Solo, Alive, Basic, Parts, StanzasType
<1>13. \A a : Over(a) => Over(a)'
  <2>1. ASSUME NEW a, Over(a), NEW d \in S, opened[d] = a PROVE FALSE
    BY <1>6, <2>1 DEF Over, Sendable
  <2>2. \A d \in DOMAIN opened : Sendable(d)' => Sendable(d)
    BY <1>1, <1>8 DEF Sendable
  <2>3. \A d \in DOMAIN opened : d \notin S => completions'[d] = completions[d]
    BY <1>5, OpenedCalls DEF Basic, Parts
  <2>4. QED
    BY <1>1, <1>5, <2>1, <2>2, <2>3 DEF Over
<1>14. ASSUME Solo, NEW e \in S PROVE Over(opened[e])'
  <2>1. ~OnWay(e)
    BY <1>6, <1>14 DEF Solo
  <2>2. ASSUME NEW d \in DOMAIN opened, opened[d] = opened[e], Sendable(d)' PROVE FALSE
    <3>1. d # e
      BY <1>1, <1>8, <1>14, <2>1, <2>2 DEF Sendable, OnWay
    <3>2. Alive(d) /\ Alive(e)
      BY <1>1, <1>6, <1>8, <1>14, <2>2 DEF Sendable, Alive, OnWay
    <3>3. QED
      BY <1>6, <1>14, <2>2, <3>1, <3>2 DEF Solo
  <2>3. QED
    BY <1>1, <1>5, <1>14, <2>2 DEF Over
<1>15. Bounded' /\ Proper'
  <2>1. ASSUME SentOver, Solo, NEW e \in S PROVE wire[opened[e]] = 0
    <3>1. opened[e] \in Action /\ wire[opened[e]] \in Nat
      BY <1>6, <2>1, OpenedCalls DEF Basic, Parts, HistoryType
    <3>2. ~Over(opened[e])
      BY <1>6, <2>1 DEF Over, Sendable
    <3>3. QED
      BY <2>1, <3>1, <3>2 DEF SentOver
  <2>2. ASSUME SentOver, Solo, GivenUpOver PROVE GivenUpOver'
    <3> SUFFICES ASSUME NEW a \in timedOut' PROVE wire'[a] = 0 /\ Over(a)'
      BY DEF GivenUpOver
    <3>1. CASE a \in timedOut
      BY <1>1, <1>13, <2>2, <3>1 DEF GivenUpOver
    <3>2. CASE \E e \in S : a = opened[e]
      BY <1>1, <1>14, <2>1, <2>2, <3>2
    <3>3. QED
      BY <1>1, <3>1, <3>2
  <2>3. SentOver => SentOver'
    BY <1>1, <1>13 DEF SentOver
  <2>4. QED
    BY <1>1, <1>12, <2>2, <2>3 DEF Calls, Bounded, Proper, NoOverlap
<1>16. InTurn'
  <2>1. ASSUME NoOverlap, NoDelete, NEW d \in DOMAIN opened, opened[d] \notin queued', Sendable(d)'
        PROVE  FALSE
    <3>1. Solo
      BY <2>1 DEF Calls, Proper
    <3>2. d \notin S /\ Alive(d) /\ Sendable(d)
      BY <1>1, <1>6, <1>8, <2>1, <3>1 DEF Sendable, Alive, OnWay, Solo
    <3>3. \A e \in S : opened[d] # opened[e]
      BY <1>6, <3>1, <3>2 DEF Solo, Alive
    <3>4. opened[d] \notin queued
      BY <1>5, <2>1, <3>3
    <3>5. QED
      BY <2>1, <3>2, <3>4 DEF Calls, InTurn
  <2>2. QED
    BY <1>1, <1>5, <2>1 DEF Calls, InTurn, NoOverlap, NoDelete
<1>17. QED
  BY <1>10, <1>11, <1>15, <1>16 DEF Calls

\* The broker hands over an action.
LEMMA HandOverKeeps ==
  ASSUME Basic, Calls, BudgetLeft', NEW a \in Action, HandOver(a)
  PROVE  Calls'
<1>0. PICK n : n = Len(opened) + 1
  OBVIOUS
<1>1. /\ Spawn({n}, "fetch") /\ a \in queued
      /\ \A b \in queued : ThreadOf[b] = ThreadOf[a] => Precedes(a, b)
      /\ UNCHANGED <<queued, wordless, wire, timedOut, completions, lost, outstandingAccounts,
                     outstandingBuddies, outstandingMessages, timers, preparing, outbox, answers>>
  BY <1>0 DEF HandOver, tableVars, sendVars, loginVars, settings
<1>2. /\ n \in Call /\ n \notin DOMAIN opened /\ n # NoCall
      /\ DOMAIN opened' = DOMAIN opened \cup {n}
      /\ opened'[n] = a
      /\ \A d \in DOMAIN opened : opened'[d] = opened[d]
  BY <1>0, OpenedNext DEF Basic, Parts, Call, NoCall
<1>3. /\ Bounded'
      /\ NoOverlap' => NoOverlap /\ ~\E c \in Open : opened[c] = a
      /\ NoDelete' => NoDelete
  <2>1. CASE UNCHANGED budget /\ ~\E c \in Open : opened[c] = a
    BY <2>1 DEF Calls, Bounded, NoOverlap, NoDelete
  <2>2. CASE Spend("overlap")
    <3>1. budget'["overlap"] = budget["overlap"] - 1 /\ budget'["delete"] = budget["delete"]
      BY <2>2, SpendEffect DEF Basic, Parts, EnvStep
    <3>2. QED
      BY <3>1, BudgetNumbers DEF Basic, Parts, Calls, Bounded, NoOverlap, NoDelete
  <2>3. QED
    BY <2>1, <2>2 DEF HandOver
<1>4. /\ \A q : ~At(n, q)
      /\ ~InBuddy(n) /\ ~Waits(n) /\ n \notin outstandingAccounts
      /\ n \notin preparing /\ n \notin outbox /\ ~Answered(n) /\ n \notin lost
  <2>1. \A q : ~At(n, q)
    BY <1>2 DEF At, Basic, Parts, ThreadsType
  <2>2. ~InBuddy(n)
    BY <1>2 DEF InBuddy, Basic, Parts, BuddiesType
  <2>3. ~Waits(n)
    BY <1>2 DEF Waits, Basic, Parts, EntriesType
  <2>4. QED
    BY <1>2, <2>1, <2>2, <2>3 DEF Answered, Basic, Parts, AccountsType, StanzasType
<1>5. \A d, q : At(d, q)' <=> (d = n /\ q = "fetch") \/ At(d, q)
  BY <1>1, SpawnEffect
<1>6. \A d \in DOMAIN opened' :
        /\ InCode(d)' <=> InCode(d) \/ d = n
        /\ InBuddy(d)' <=> InBuddy(d)
        /\ Waits(d)' <=> Waits(d)
        /\ Answered(d)' <=> Answered(d)
        /\ Moot(opened[d])' <=> Moot(opened'[d])
        /\ \A r, s \in Code : (At(d, r) /\ At(d, s) => r = s) => (At(d, r)' /\ At(d, s)' => r = s)
  <2>1. \A d \in DOMAIN opened' : InCode(d)' <=> InCode(d) \/ d = n
    BY <1>5 DEF InCode, Code
  <2>2. \A d \in DOMAIN opened' :
          \A r, s \in Code : (At(d, r) /\ At(d, s) => r = s) => (At(d, r)' /\ At(d, s)' => r = s)
    BY <1>4, <1>5
  <2>3. \A d \in DOMAIN opened' : Moot(opened[d])' <=> Moot(opened'[d])
    BY <1>1 DEF Moot
  <2>4. QED
    BY <1>1, <2>1, <2>2, <2>3, Frame
<1>7. ~InCode(n) /\ ~Before(n) /\ ~OnWay(n)
  BY <1>4 DEF InCode, Before, OnWay
<1>8. \A d \in DOMAIN opened' :
        /\ Before(d)' <=> Before(d) \/ d = n
        /\ OnWay(d)' <=> OnWay(d)
  BY <1>1, <1>6 DEF Before, OnWay
<1>9. completions[n] = 0
  BY <1>2 DEF Calls, AllSingle
<1>10. AllSingle'
  <2>1. ASSUME NEW d \in DOMAIN opened PROVE Single(d)'
    <3>1. Single(d) /\ d # n /\ d \in DOMAIN opened' /\ opened'[d] = opened[d]
      BY <1>2 DEF Calls, AllSingle
    <3>2. Moot(opened[d])' <=> Moot(opened[d])
      BY <1>6, <3>1
    <3>3. QED
      BY <1>1, <1>6, <1>8, <3>1, <3>2 DEF Single
  <2>2. Single(n)'
    <3>1. completions'[n] = 0 /\ n \notin outstandingAccounts' /\ ~InBuddy(n)' /\ ~Waits(n)' /\ ~OnWay(n)'
      BY <1>1, <1>2, <1>4, <1>6, <1>7, <1>8, <1>9
    <3>2. \A r, s \in Code : At(n, r)' /\ At(n, s)' => r = s
      BY <1>4, <1>5
    <3>3. QED
      BY <3>1, <3>2 DEF Single
  <2>3. QED
    BY <1>1, <1>2, <2>1, <2>2 DEF Calls, AllSingle, Call
<1>11. AllKept'
  <2>1. ASSUME NEW d \in DOMAIN opened PROVE Kept(d)'
    BY <1>1, <1>2, <1>6, <1>8 DEF Calls, AllKept, Kept
  <2>2. Kept(n)'
    BY <1>2, <1>6 DEF Kept
  <2>3. QED
    BY <1>2, <2>1, <2>2 DEF AllKept
<1>12. Solo /\ (~\E c \in Open : opened[c] = a) => Solo'
  <2> SUFFICES ASSUME Solo, ~\E c \in Open : opened[c] = a PROVE Solo'
    OBVIOUS
  <2>1. \A d \in DOMAIN opened : Alive(d) => completions[d] = 0
    BY DEF Alive, Solo, Calls, AllSingle, Single
  <2>2. \A d \in DOMAIN opened : Alive(d) => opened[d] # a
    BY <2>1 DEF Open
  <2>3. \A d \in DOMAIN opened : Alive(d)' <=> Alive(d)
    BY <1>2, <1>8 DEF Alive
  <2>4. \A c, d \in DOMAIN opened' : Alive(c)' /\ Alive(d)' /\ opened'[c] = opened'[d] => c = d
    BY <1>2, <2>2, <2>3 DEF Solo
  <2>5. \A d \in DOMAIN opened' : OnWay(d)' => completions'[d] = 0 /\ ~Before(d)'
    BY <1>1, <1>2, <1>7, <1>8 DEF Solo
  <2>6. (\A d \in preparing' : d \notin outbox' /\ ~Answered(d)') /\ (\A d \in outbox' : ~Answered(d)')
    BY <1>1, <1>2, <1>6 DEF Solo, Basic, Parts, StanzasType
  <2>7. QED
    BY <1>1, <2>4, <2>5, <2>6 DEF Solo
<1>13. \A x : Over(x) /\ (~\E c \in Open : opened[c] = a) => Over(x)'
  <2> SUFFICES ASSUME NEW x, Over(x), ~\E c \in Open : opened[c] = a PROVE Over(x)'
    OBVIOUS
  <2>1. x # a
    BY <1>1 DEF Over, Open
  <2>2. \A d \in DOMAIN opened : Sendable(d)' => Sendable(d)
    BY <1>1, <1>2, <1>8 DEF Sendable
  <2>3. QED
    BY <1>1, <1>2, <2>1, <2>2 DEF Over
<1>14. Proper'
  BY <1>1, <1>3, <1>12, <1>13 DEF Calls, Proper, SentOver, GivenUpOver
<1>15. InTurn'
  <2> SUFFICES ASSUME NoOverlap, NoDelete PROVE InTurn'
    BY <1>3 DEF InTurn
  <2>1. ASSUME NEW x \in Action, ThreadOf[x] = ThreadOf[a], Date[x] < Date[a] PROVE x \notin queued
    BY <1>1, <2>1, DateType DEF Precedes
  <2>2. \A d \in DOMAIN opened : Sendable(d)' => Sendable(d)
    BY <1>1, <1>2, <1>8 DEF Sendable
  <2>3. /\ \A c \in DOMAIN opened', x \in Action :
             ThreadOf[x] = ThreadOf[opened'[c]] /\ Date[x] < Date[opened'[c]] => x \notin queued'
        /\ \A c \in DOMAIN opened' : opened'[c] \notin queued' => ~Sendable(c)'
        /\ \A x \in Action : wire'[x] > 0 => \E c \in DOMAIN opened' : opened'[c] = x
    BY <1>1, <1>2, <2>1, <2>2 DEF Calls, InTurn
  <2>4. QED
    BY <2>3 DEF InTurn
<1>16. QED
  BY <1>3, <1>10, <1>11, <1>14, <1>15 DEF Calls

-----------------------------------------------------------------------------
(* The invariants hold.                                                    *)

\* No call was opened at first.
LEMMA InitCalls == Init => Calls
<1> SUFFICES ASSUME Init PROVE Calls
  OBVIOUS
<1>1. DOMAIN opened = {} /\ answers = {} /\ preparing = {} /\ outbox = {}
  BY DEF Init
<1>2. AllSingle /\ AllKept
  BY <1>1 DEF Init, AllSingle, AllKept
<1>3. Bounded
  BY BudgetType DEF Init, Bounded, EnvStep
<1>4. Proper
  BY <1>1 DEF Init, Proper, Solo, SentOver, GivenUpOver
<1>5. InTurn
  BY <1>1 DEF Init, InTurn
<1>6. QED
  BY <1>2, <1>3, <1>4, <1>5 DEF Calls

\* Every step keeps them.
LEMMA NextCalls == Basic /\ Calls /\ [Next]_vars => Calls'
<1> SUFFICES ASSUME Basic, Calls, [Next]_vars PROVE Calls'
  OBVIOUS
<1>0. BudgetLeft'
  BY NextBasic DEF Basic, Parts
<1>1. ASSUME NEW a \in Action, HandOver(a) PROVE Calls'
  BY <1>0, <1>1, HandOverKeeps
<1>2. ASSUME NEW c \in DOMAIN opened, Resend(c) PROVE Calls'
  <2>1. /\ At(c, "resend")
        /\ UNCHANGED <<opened, wordless, wire, timedOut, lost, budget, outstandingAccounts,
                       outstandingBuddies, outstandingMessages, timers, preparing, outbox, answers>>
    BY <1>2 DEF Resend, tableVars, sendVars, loginVars, settings
  <2>2. CASE GoOn(c, "resend", {"fetch"}) /\ UNCHANGED <<queued, completions>>
    BY <2>1, <2>2, MoveKeeps DEF Code
  <2>3. CASE GoOn(c, "resend", {}) /\ Complete({c}, TRUE)
    BY <2>1, <2>3, FinishKeeps DEF Code
  <2>4. QED
    BY <1>2, <2>2, <2>3 DEF Resend
<1>3. ASSUME NEW c \in DOMAIN opened, Fetch(c) PROVE Calls'
  <2>1. /\ At(c, "fetch")
        /\ UNCHANGED <<opened, wordless, wire, timedOut, lost, budget, outstandingAccounts,
                       outstandingBuddies, outstandingMessages, timers, preparing, outbox, answers>>
    BY <1>3 DEF Fetch, tableVars, sendVars, loginVars, settings
  <2>2. CASE GoOn(c, "fetch", {"send"}) /\ UNCHANGED <<queued, completions>>
    BY <2>1, <2>2, MoveKeeps DEF Code
  <2>3. CASE GoOn(c, "fetch", {"await"}) /\ UNCHANGED <<queued, completions>>
    BY <2>1, <2>3, MoveKeeps DEF Code
  <2>4. ASSUME NEW success \in BOOLEAN, GoOn(c, "fetch", {}), Complete({c}, success) PROVE Calls'
    BY <2>1, <2>4, FinishKeeps DEF Code
  <2>5. QED
    BY <1>3, <2>2, <2>3, <2>4 DEF Fetch
<1>4. ASSUME NEW c \in DOMAIN opened, Await(c) PROVE Calls'
  BY <1>4, AwaitKeeps
<1>5. ASSUME NEW c \in DOMAIN opened, NEW p \in {"connect", "start", "mark"}, NEW next,
             next \cap Code = {}, GoOn(c, p, next),
             UNCHANGED <<opened, wordless, wire, timedOut, completions, lost, outstandingAccounts,
                         outstandingBuddies, outstandingMessages, timers, preparing, outbox,
                         answers, queued, budget>>
      PROVE  Calls'
  <2>1. \A d \in DOMAIN opened, q \in Code : At(d, q)' <=> At(d, q)
    BY <1>5, GoOnEffect DEF Code
  <2>2. QED
    BY <1>0, <1>5, <2>1, QuietKeeps
<1>6. ASSUME NEW c \in DOMAIN opened, Connect(c) PROVE Calls'
  <2>1. PICK next \in {{}, {"start"}} : GoOn(c, "connect", next)
    BY <1>6 DEF Connect
  <2>2. next \cap Code = {}
    BY DEF Code
  <2>3. QED
    BY <1>5, <1>6, <2>1, <2>2 DEF Connect, tableVars, sendVars, loginVars, settings
<1>7. ASSUME NEW c \in DOMAIN opened, Start(c) PROVE Calls'
  BY <1>5, <1>7 DEF Start, tableVars, sendVars, settings
<1>8. ASSUME NEW c \in DOMAIN opened, Mark(c) PROVE Calls'
  BY <1>5, <1>8 DEF Mark, tableVars, loginVars, settings
<1>9. ASSUME NEW c \in DOMAIN opened, SendRoster(c) PROVE Calls'
  BY <1>9, FinishKeeps DEF SendRoster, Code, tableVars, sendVars, loginVars, settings
<1>10. ASSUME NEW c \in DOMAIN opened, SendPlain(c) PROVE Calls'
  <2>1. ~Moot(opened[c]) /\ Collection(opened[c]) \in {"outgoing"}
    BY <1>10 DEF SendPlain, Moot, Collection, RoomKinds
  <2>2. {} \cap Code = {} /\ {"outgoing"} \in SUBSET {"room", "outgoing"}
    OBVIOUS
  <2>3. /\ At(c, "send") /\ GoOn(c, "send", {}) /\ outstandingMessages' = Renewed(c, {"outgoing"})
        /\ lost \cup Replaced(c, {"outgoing"}) \subseteq lost'
        /\ \/ outbox' = outbox \cup {c}
           \/ outbox' = outbox /\ c \in lost'
        /\ UNCHANGED <<queued, opened, wordless, wire, timedOut, completions, budget,
                       outstandingAccounts, outstandingBuddies, timers, answers, preparing>>
    BY <1>10 DEF SendPlain, loginVars, settings
  <2>4. QED
    BY <2>1, <2>2, <2>3, SendKeeps
<1>11. ASSUME NEW c \in DOMAIN opened, SendOTR(c) PROVE Calls'
  <2>1. /\ At(c, "send")
        /\ UNCHANGED <<opened, wordless, wire, timedOut, budget, outstandingAccounts,
                       outstandingBuddies, timers, outbox, answers>>
    BY <1>11 DEF SendOTR, loginVars, settings
  <2>2. CASE NothingToSend(c) /\ UNCHANGED <<outstandingMessages, lost, preparing>>
    BY <2>1, <2>2, FinishKeeps DEF NothingToSend, Code
  <2>3. CASE /\ GoOn(c, "send", {"initiate"})
             /\ UNCHANGED <<queued, completions, outstandingMessages, lost, preparing>>
    BY <2>1, <2>3, MoveKeeps DEF Code
  <2>4. CASE /\ GoOn(c, "send", {}) /\ WaitForMessage(c, {"outgoing"})
             /\ preparing' = preparing \cup {c} /\ UNCHANGED <<queued, completions>>
    <3>1. ~Moot(opened[c]) /\ Collection(opened[c]) \in {"outgoing"}
      BY <1>11 DEF SendOTR, OTRKinds, Moot, Collection, RoomKinds
    <3>2. {} \cap Code = {} /\ {"outgoing"} \in SUBSET {"room", "outgoing"}
      OBVIOUS
    <3>3. QED
      BY <2>1, <2>4, <3>1, <3>2, SendKeeps DEF WaitForMessage
  <2>5. QED
    BY <1>11, <2>2, <2>3, <2>4 DEF SendOTR
<1>12. ASSUME NEW c \in DOMAIN opened, SendOMEMO(c) PROVE Calls'
  <2>1. /\ At(c, "send")
        /\ UNCHANGED <<opened, wordless, wire, timedOut, budget, outstandingAccounts,
                       outstandingBuddies, timers, outbox, answers>>
    BY <1>12 DEF SendOMEMO, loginVars, settings
  <2>2. CASE NothingToSend(c) /\ UNCHANGED <<outstandingMessages, lost, preparing>>
    BY <2>1, <2>2, FinishKeeps DEF NothingToSend, Code
  <2>3. CASE /\ GoOn(c, "send", {}) /\ WaitForMessage(c, {"outgoing"})
             /\ preparing' = preparing \cup {c} /\ UNCHANGED <<queued, completions>>
    <3>1. ~Moot(opened[c]) /\ Collection(opened[c]) \in {"outgoing"}
      BY <1>12 DEF SendOMEMO, Moot, Collection, RoomKinds
    <3>2. {} \cap Code = {} /\ {"outgoing"} \in SUBSET {"room", "outgoing"}
      OBVIOUS
    <3>3. QED
      BY <2>1, <2>3, <3>1, <3>2, SendKeeps DEF WaitForMessage
  <2>4. QED
    BY <1>12, <2>2, <2>3 DEF SendOMEMO
<1>13. ASSUME NEW c \in DOMAIN opened, SendGroup(c) PROVE Calls'
  <2>1. /\ At(c, "send") /\ Collection(opened[c]) = "room"
        /\ UNCHANGED <<opened, wordless, wire, timedOut, budget, outstandingAccounts,
                       outstandingBuddies, timers, answers>>
    BY <1>13 DEF SendGroup, Collection, loginVars, settings
  <2>2. {"mark"} \cap Code = {} /\ {"room"} \in SUBSET {"room", "outgoing"}
    BY DEF Code
  <2>3. CASE /\ GoOn(c, "send", {}) /\ Complete({c}, TRUE)
             /\ UNCHANGED <<outstandingMessages, lost, outbox, preparing>>
    BY <2>1, <2>3, FinishKeeps DEF Code
  <2>4. CASE /\ Kind[opened[c]] = "room" /\ WaitForMessage(c, {"room"})
             /\ outbox' = outbox \cup {c} /\ GoOn(c, "send", {"mark"})
             /\ UNCHANGED <<queued, completions, preparing>>
    <3>1. ~Moot(opened[c]) /\ Collection(opened[c]) \in {"room"}
      BY <2>1, <2>4 DEF Moot
    <3>2. QED
      BY <2>1, <2>2, <2>4, <3>1, SendKeeps DEF WaitForMessage
  <2>5. CASE /\ opened[c] \notin wordless /\ WaitForMessage(c, {"room", "outgoing"})
             /\ preparing' = preparing \cup {c} /\ GoOn(c, "send", {"mark"})
             /\ UNCHANGED <<queued, completions, outbox>>
    <3>1. ~Moot(opened[c]) /\ Collection(opened[c]) \in {"room", "outgoing"}
      BY <2>1, <2>5 DEF Moot
    <3>2. QED
      BY <2>1, <2>2, <2>5, <3>1, SendKeeps DEF WaitForMessage
  <2>6. CASE /\ Kind[opened[c]] = "roomOMEMO" /\ opened[c] \in wordless
             /\ WaitForMessage(c, {"room"}) /\ Complete({c}, TRUE) /\ GoOn(c, "send", {"mark"})
             /\ UNCHANGED <<outbox, preparing>>
    BY <2>1, <2>6, MootKeeps DEF WaitForMessage, Moot
  <2>7. QED
    BY <1>13, <2>3, <2>4, <2>5, <2>6 DEF SendGroup
<1>14. ASSUME NEW c \in DOMAIN opened, Initiate(c) PROVE Calls'
  BY <1>14, InitiateKeeps
<1>15. ASSUME NEW c \in DOMAIN opened, Encoded(c) \/ Encrypted(c) PROVE Calls'
  BY <1>15, EncodedKeeps
<1>16. ASSUME NEW c \in DOMAIN opened, EncodeFailed(c) \/ EncryptVanished(c) PROVE Calls'
  <2>1. OnWay(c) /\ (Solo => c \notin preparing' /\ c \notin outbox /\ ~Answered(c)')
    BY <1>16 DEF EncodeFailed, EncryptVanished, Prepared, OnWay, Solo, Answered
  <2>2. /\ preparing' = preparing \ {c} /\ answers' = answers /\ lost' = lost \cup {c}
        /\ queued' = queued \/ queued' = queued \ {opened[c]}
        /\ UNCHANGED <<threads, opened, wordless, wire, timedOut, completions, budget, outbox,
                       outstandingAccounts, outstandingBuddies, outstandingMessages, timers>>
    BY <1>16 DEF EncodeFailed, EncryptVanished, Prepared, queueVars, tableVars, loginVars, settings
  <2>3. QED
    BY <2>1, <2>2, LoseKeeps
<1>17. ASSUME NEW c \in DOMAIN opened, EncryptFailed(c) PROVE Calls'
  <2>1. OnWay(c) /\ (Solo => c \notin preparing' /\ c \notin outbox /\ ~Answered(c)')
    BY <1>17 DEF EncryptFailed, Prepared, OnWay, Solo, Answered
  <2>2. /\ preparing' = preparing \ {c} /\ answers' = answers
        /\ PopMessage(opened[c]) /\ Complete(CallsOf(Waiting(opened[c])), TRUE)
        /\ UNCHANGED <<threads, opened, wordless, wire, timedOut, lost, budget, outbox,
                       outstandingAccounts, outstandingBuddies, timers>>
    BY <1>17 DEF EncryptFailed, Prepared, loginVars, settings
  <2>3. QED
    BY <2>1, <2>2, SettleKeeps
<1>18. ASSUME NEW c \in DOMAIN opened, Transmit(c) PROVE Calls'
  BY <1>18, TransmitKeeps
<1>19. ASSUME NEW c \in DOMAIN opened, NEW sent \in BOOLEAN, Answer(c, sent) PROVE Calls'
  <2> DEFINE r == [call |-> c, sent |-> sent]
  <2>1. /\ r \in answers /\ r.call = c /\ answers' = answers \ {r} /\ preparing' = preparing
        /\ UNCHANGED <<threads, opened, wordless, wire, timedOut, budget, outbox,
                       outstandingAccounts, outstandingBuddies, timers>>
    BY <1>19 DEF Answer, loginVars, settings
  <2> HIDE DEF r
  <2>2. OnWay(c) /\ (Solo => c \notin preparing' /\ c \notin outbox /\ ~Answered(c)')
    <3>1. Answered(c) /\ OnWay(c)
      BY <2>1 DEF Answered, OnWay
    <3>2. Solo => c \notin preparing' /\ c \notin outbox
      BY <2>1, <3>1 DEF Solo
    <3>3. Solo => ~Answered(c)'
      BY <2>1 DEF Solo, Answered
    <3>4. QED
      BY <3>1, <3>2, <3>3
  <2>3. CASE /\ PopMessage(opened[c]) /\ Complete(CallsOf(Waiting(opened[c])), TRUE)
             /\ UNCHANGED lost
    BY <2>1, <2>2, <2>3, SettleKeeps
  <2>4. CASE /\ lost' = lost \cup CallsOf(Waiting(opened[c]))
             /\ UNCHANGED <<queued, completions, outstandingMessages>>
    <3>1. Waits(c) => c \in lost'
      BY <2>4, WaitingCalls DEF Basic, Parts
    <3>2. QED
      BY <2>1, <2>2, <2>4, <3>1, LoseKeeps
  <2>5. QED
    BY <1>19, <2>3, <2>4 DEF Answer
<1>20. ASSUME NEW c \in DOMAIN opened, TimedOut(c) PROVE Calls'
  BY <1>20, TimedOutKeeps
<1>21. ASSUME HandleLogin PROVE Calls'
  <2>1. PICK S \in SUBSET outstandingAccounts :
          /\ Spawn(S, "fetch") /\ \A d \in outstandingAccounts : d \in S \cup lost'
          /\ lost \subseteq lost'
    <3>1. CASE outstandingAccounts = {} /\ UNCHANGED <<threads, lost>>
      <4>1. Spawn({}, "fetch")
        BY <3>1 DEF Spawn
      <4>2. QED
        BY <3>1, <4>1
    <3>2. CASE \E c \in outstandingAccounts :
                 Spawn({c}, "fetch") /\ lost' = lost \cup (outstandingAccounts \ {c})
      BY <3>2
    <3>3. QED
      BY <1>21, <3>1, <3>2 DEF HandleLogin
  <2>2. /\ outstandingAccounts' = {}
        /\ UNCHANGED <<queued, opened, wordless, wire, timedOut, completions, budget, timers,
                       outstandingMessages, preparing, outbox, answers, outstandingBuddies>>
    BY <1>21 DEF HandleLogin, sendVars, settings
  <2>3. \A d \in DOMAIN opened : InBuddy(d)' <=> InBuddy(d)
    BY <2>2, Frame
  <2>4. S \in SUBSET DOMAIN opened /\ \A d \in S : ~InBuddy(d)
    BY <2>1 DEF Basic, Parts, AccountsType, Calls, AllSingle, Single
  <2>5. QED
    BY <2>1, <2>2, <2>3, <2>4, WakeKeeps DEF Code
<1>22. ASSUME NEW b \in Thread, HandleSession(b) PROVE Calls'
  <2> DEFINE S == WaitingBuddy(b)
  <2>1. /\ PopBuddy(b) /\ Spawn(S, "resend")
        /\ UNCHANGED <<queued, opened, wordless, wire, timedOut, completions, budget, timers, lost,
                       outstandingMessages, preparing, outbox, answers, outstandingAccounts>>
    BY <1>22 DEF HandleSession, sendVars, loginVars, settings
  <2>2. /\ S = {d \in DOMAIN opened : InBuddy(d) /\ ThreadOf[opened[d]] = b}
        /\ \A d \in DOMAIN opened : InBuddy(d)' <=> InBuddy(d) /\ d \notin S
    BY <2>1, PopBuddyEffect DEF Basic, Parts
  <2> HIDE DEF S
  <2>3. S \in SUBSET DOMAIN opened /\ \A d \in S : d \notin outstandingAccounts /\ InBuddy(d)
    BY <2>2 DEF Calls, AllSingle, Single
  <2>4. QED
    BY <2>1, <2>2, <2>3, WakeKeeps DEF Code
<1>23. ASSUME UNCHANGED <<queueVars, tableVars, sendVars, settings, lost>>, BudgetLeft',
              \/ UNCHANGED budget
              \/ \E step \in EnvStep \ {"any", "overlap", "delete"} : Spend(step)
       PROVE  Calls'
  <2>1. UNCHANGED <<queued, opened, completions, threads, wordless, wire, timedOut, lost,
                    outstandingAccounts, outstandingBuddies, outstandingMessages, timers,
                    preparing, outbox, answers>>
    BY <1>23 DEF queueVars, tableVars, sendVars, settings
  <2>2. budget'["overlap"] = budget["overlap"] /\ budget'["delete"] = budget["delete"]
    BY <1>23, SpendEffect DEF Basic, Parts, EnvStep
  <2>3. \A d \in DOMAIN opened, q \in Code : At(d, q)' <=> At(d, q)
    BY <2>1, Frame
  <2>4. QED
    BY <1>0, <2>1, <2>2, <2>3, QuietKeeps
<1>24. ASSUME Authenticate \/ LoginFails \/ Reconnect \/ GoAway \/ Disconnect PROVE Calls'
  BY <1>0, <1>23, <1>24 DEF Authenticate, LoginFails, Reconnect, GoAway, Disconnect, LoginStep, EnvStep
<1>25. ASSUME NEW b \in Thread,
              SessionStarts(b) \/ SessionFails(b) \/ PeerStartsSession(b) \/ SessionEnds(b)
       PROVE  Calls'
  BY <1>0, <1>23, <1>25 DEF SessionStarts, SessionFails, PeerStartsSession, SessionEnds, SessionStep,
                            loginVars, EnvStep
<1>26. ASSUME NEW a \in Action, Delete(a) PROVE Calls'
  <2>1. /\ queued' = queued \ {a} /\ Spend("delete")
        /\ UNCHANGED <<opened, completions, threads, wordless, wire, timedOut, lost,
                       outstandingAccounts, outstandingBuddies, outstandingMessages, timers,
                       preparing, outbox, answers>>
    BY <1>26 DEF Delete, tableVars, sendVars, loginVars, settings
  <2>2. budget'["overlap"] = budget["overlap"] /\ budget'["delete"] = budget["delete"] - 1
    BY <2>1, SpendEffect DEF Basic, Parts, EnvStep
  <2>3. \A d \in DOMAIN opened, q \in Code : At(d, q)' <=> At(d, q)
    BY <2>1, Frame
  <2>4. QED
    BY <1>0, <2>1, <2>2, <2>3, QuietKeeps
<1>27. CASE UNCHANGED vars
  BY <1>0, <1>23, <1>27 DEF vars, loginVars
<1>28. QED
  BY <1>1, <1>2, <1>3, <1>4, <1>6, <1>7, <1>8, <1>9, <1>10, <1>11, <1>12, <1>13, <1>14, <1>15,
     <1>16, <1>17, <1>18, <1>19, <1>20, <1>21, <1>22, <1>24, <1>25, <1>26, <1>27
  DEF Next, HandlerStep, Prepare, Environment

-----------------------------------------------------------------------------
(* The theorems.                                                           *)

\* In every behaviour, at every state: types, filing, calls.
THEOREM AlwaysCalls == Spec => [](Basic /\ Calls)
<1>1. Init => Basic /\ Calls
  BY InitBasic, InitCalls
<1>2. Basic /\ Calls /\ [Next]_vars => (Basic /\ Calls)'
  BY NextBasic, NextCalls
<1>3. QED
  BY <1>1, <1>2, PTL DEF Spec

\* handleNextItem's completion block is called at most once for each call, in
\* whatever order login, session, timeout and the stream's answer come.
THEOREM CompletedAtMostOnce == Spec => []CompletedOnce
<1>1. Basic /\ Calls => CompletedOnce
  BY DEF Calls, AllSingle, Single, CompletedOnce
<1>2. QED
  BY <1>1, AlwaysCalls, PTL

\* A call that the handler did not drop at one of the known places is in the
\* hands of somebody who will complete it.
THEOREM CallsAreHeld == Spec => []NoCallForgotten
<1>1. ASSUME Basic, Calls PROVE NoCallForgotten
  <2> SUFFICES ASSUME NEW c \in Open \ lost PROVE Held(c)
    BY DEF NoCallForgotten
  <2>1. c \in DOMAIN opened /\ c # NoCall /\ completions[c] = 0
    BY <1>1, OpenedCalls DEF Open, Basic, Parts
  <2>2. CASE InCode(c)
    BY <2>2 DEF InCode, Code, Held
  <2>3. CASE c \in outstandingAccounts
    BY <2>3 DEF Held
  <2>4. CASE InBuddy(c) /\ timers[c] > 0
    <3>1. PICK b \in Thread : outstandingBuddies[b] = c
      BY <2>4 DEF InBuddy
    <3>2. TimerArmed(b)
      BY <1>1, <2>1, <2>4, <3>1 DEF TimerArmed, Basic, Filed
    <3>3. QED
      BY <3>1, <3>2 DEF Held
  <2>5. CASE OnWay(c) /\ Waits(c)
    <3>1. StanzaOnItsWay(c)
      BY <2>5 DEF OnWay, Answered, StanzaOnItsWay
    <3>2. QED
      BY <2>5, <3>1 DEF Waits, Held
  <2>6. QED
    BY <1>1, <2>1, <2>2, <2>3, <2>4, <2>5 DEF Calls, AllKept, Kept
<1>2. QED
  BY <1>1, AlwaysCalls, PTL

\* While the broker hands over no open action again, no message is sent twice.
THEOREM SentAtMostOnce == Spec => []SentOnce
<1>1. Basic /\ Calls => SentOnce
  BY DEF Calls, Proper, SentOver, SentOnce
<1>2. QED
  BY <1>1, AlwaysCalls, PTL

\* What the user was told could not be sent is not sent.
THEOREM GivenUpStaysUnsent == Spec => []GivenUpIsNotSent
<1>1. Basic /\ Calls => GivenUpIsNotSent
  BY DEF Calls, Proper, GivenUpOver, GivenUpIsNotSent
<1>2. QED
  BY <1>1, AlwaysCalls, PTL

\* A message goes over the stream only when no later one of its conversation did.
THEOREM SendsKeepTheOrder == Spec => SentInOrder
<1> DEFINE A == budget["delete"] = Budget["delete"] /\ NoOverlap =>
                  \A a, b \in Action :
                    ThreadOf[a] = ThreadOf[b] /\ Date[a] < Date[b] /\ wire[b] > 0
                      => wire'[a] = wire[a]
<1>1. ASSUME Basic, Calls, [Next]_vars PROVE [A]_vars
  <2> SUFFICES ASSUME NoDelete, NoOverlap, NEW a \in Action, NEW b \in Action,
                      ThreadOf[a] = ThreadOf[b], Date[a] < Date[b], wire[b] > 0
               PROVE  wire'[a] = wire[a]
    BY DEF NoDelete
  <2>1. InTurn
    BY <1>1 DEF Calls
  <2>2. a \notin queued
    BY <2>1 DEF InTurn
  <2>3. ASSUME NEW c \in DOMAIN opened, Transmit(c) PROVE wire'[a] = wire[a]
    <3>1. opened[c] # a
      BY <2>1, <2>2, <2>3 DEF InTurn, Transmit, Sendable
    <3>2. QED
      BY <1>1, <2>3, <3>1 DEF Transmit, Basic, Parts, HistoryType
  <2>4. ASSUME NEW c \in DOMAIN opened, HandlerStep(c) \/ Prepare(c) \/ TimedOut(c)
        PROVE  wire' = wire
    BY <2>4 DEF HandlerStep, Resend, Fetch, Await, Connect, Start, SendRoster, SendPlain, SendOTR,
                SendOMEMO, SendGroup, Initiate, Mark, Prepare, Encoded, EncodeFailed, Encrypted,
                EncryptFailed, EncryptVanished, TimedOut, sendVars
  <2>5. ASSUME NEW c \in DOMAIN opened, NEW sent \in BOOLEAN, Answer(c, sent) PROVE wire' = wire
    BY <2>5 DEF Answer
  <2>6. ASSUME NEW x \in Action, HandOver(x) \/ Delete(x) PROVE wire' = wire
    BY <2>6 DEF HandOver, Delete, sendVars
  <2>7. ASSUME Authenticate \/ Reconnect \/ HandleLogin \/ GoAway \/ Disconnect \/ LoginFails
        PROVE  wire' = wire
    BY <2>7 DEF Authenticate, Reconnect, HandleLogin, GoAway, Disconnect, LoginFails, LoginStep, sendVars
  <2>8. ASSUME NEW x \in Thread, \/ HandleSession(x) \/ SessionStarts(x) \/ SessionFails(x)
                                 \/ PeerStartsSession(x) \/ SessionEnds(x)
        PROVE  wire' = wire
    BY <2>8 DEF HandleSession, SessionStarts, SessionFails, PeerStartsSession, SessionEnds,
                SessionStep, sendVars
  <2>9. CASE UNCHANGED vars
    BY <2>9 DEF vars, sendVars
  <2>10. QED
    BY <1>1, <2>3, <2>4, <2>5, <2>6, <2>7, <2>8, <2>9 DEF Next, Environment
<1>2. QED
  BY <1>1, AlwaysCalls, PTL DEF Spec, SentInOrder
=============================================================================
