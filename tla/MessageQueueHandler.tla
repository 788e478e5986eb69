------------------------- MODULE MessageQueueHandler -------------------------
(***************************************************************************)
(* MessageQueueHandler: what the application does with the actions that    *)
(* TaskQueueBroker hands over.  A call of handleNextItem carries a         *)
(* completion block.  The handler keeps that block in a dictionary while   *)
(* it waits for the account to log in, for an OTR session, or for the      *)
(* XMPP stream to say what became of the stanza, and calls it afterwards.  *)
(*                                                                         *)
(* One account; its stream, OTRKit and the OMEMO coordinator appear as far *)
(* as the handler depends on them.                                         *)
(***************************************************************************)
EXTENDS Integers, Sequences, FiniteSets

(* Definitions marked "Fault:" are plausible bugs in the definition that   *)
(* follows them.  They are not part of the model; each shows that one of   *)
(* the properties can fail.                                                *)

CONSTANTS
  Action,    \* send actions with their message, and roster actions
  Kind,      \* the message's security and class, or a roster operation
  Thread,    \* buddies and rooms; each has a queue of actions
  ThreadOf,  \* threadKey of an action
  Date,      \* order of the actions in their queue
  Autologin, \* values account.autologin may have
  Wordless,  \* sets of messages that may have nothing to send
  MaxCalls,  \* bound on the calls of handleNextItem
  Budget     \* how often each bounded environment step may happen

\* "any" bounds how many of them there are in all.
EnvStep == {"delete", "disconnect", "session", "overlap", "any"}
OTRKinds == {"plaintextWithOTR", "OTR"}
RoomKinds == {"room", "roomOMEMO"}
RosterKinds == {"addBuddy", "removeBuddy"}
Kinds == OTRKinds \cup RoomKinds \cup RosterKinds \cup {"plaintext", "OMEMO"}

ASSUME KindType     == Kind \in [Action -> Kinds]
ASSUME ThreadOfType == ThreadOf \in [Action -> Thread]
ASSUME DateType     == Date \in [Action -> Nat]
ASSUME AutologinType == Autologin \subseteq BOOLEAN
ASSUME WordlessType == Wordless \subseteq SUBSET Action
ASSUME MaxCallsType == MaxCalls \in Nat
ASSUME BudgetType   == Budget \in [EnvStep -> Nat]

Call == 1 .. MaxCalls
NoCall == 0

VARIABLES
  queued,               \* actions in the broker's database
  messages,             \* actions whose message (or buddy) is in the database
  opened,               \* the actions handed over so far; call c got opened[c]
  completions,          \* how often the completion block of each call was called
  threads,              \* what runs on behalf of which call
  outstandingAccounts,  \* calls waiting for the account to log in
  outstandingBuddies,   \* per thread: the call that waits for an OTR session
  outstandingMessages,  \* entries waiting for the stream to send a message
  timers,               \* OTR timers armed by each call
  preparing,            \* calls whose message OTRKit or OMEMO is encrypting
  outbox,               \* calls whose stanza was given to the stream
  answers,              \* delegate calls of the stream that are on their way
  loginStatus,          \* OTRXMPPManager.loginStatus
  autologin,            \* account.autologin, a setting
  wordless,             \* messages with nothing to send, see NothingToSend
  stream,               \* state of the XMPPStream
  logins,               \* kOTRProtocolLoginSuccess posts not handled yet
  encrypted,            \* threads with an OTR session
  negotiating,          \* threads whose OTR negotiation is under way
  sessionPosts,         \* posts that a session got encrypted, per thread
  roomState,            \* state of a room message, dateSent of a direct one
  timedOut,             \* messages with the error unableToCreateOTRSession
  wire,                 \* history: how often each message went over the stream
  lost,                 \* history: calls whose completion block was dropped
  budget                \* bound: what is left of Budget

queueVars == <<queued, messages, opened, completions, threads>>
tableVars == <<outstandingAccounts, outstandingBuddies, outstandingMessages, timers>>
sendVars == <<preparing, outbox, answers, roomState, timedOut, wire>>
settings == <<autologin, wordless>>
loginVars == <<settings, loginStatus, stream, logins>>
sessionVars == <<encrypted, negotiating, sessionPosts>>
vars == <<queueVars, tableVars, sendVars, loginVars, sessionVars, lost, budget>>

Place == {"fetch", "await", "connect", "start", "send", "initiate", "mark", "resend"}
Collection(a) == IF Kind[a] \in RoomKinds THEN "room" ELSE "outgoing"

\* Fault: the latest message first
Follows(a, b) == Date[a] >= Date[b]

\* The order in which the broker's view sorts the actions of a queue.
Precedes(a, b) == Date[a] <= Date[b]

Open == {c \in DOMAIN opened : completions[c] = 0}
At(c, p) == [call |-> c, at |-> p] \in threads

\* The part of call c that was at p goes on at one of the places `next`, if any.
GoOn(c, p, next) ==
  threads' = (threads \ {[call |-> c, at |-> p]}) \cup {[call |-> c, at |-> n] : n \in next}

Spawn(S, p) == threads' = threads \cup {[call |-> c, at |-> p] : c \in S}

\* The completion blocks of the calls S are called.  Success removes the action.
Complete(S, success) ==
  /\ completions' = [c \in Call |-> IF c \in S THEN completions[c] + 1 ELSE completions[c]]
  /\ queued' = IF success THEN queued \ {opened[c] : c \in S} ELSE queued

Spend(step) ==
  /\ budget["any"] > 0 /\ budget[step] > 0
  /\ budget' = [budget EXCEPT ![step] = @ - 1, !["any"] = @ - 1]

Init ==
  /\ queued = Action /\ messages = Action
  /\ opened = <<>> /\ completions = [c \in Call |-> 0] /\ threads = {}
  /\ outstandingAccounts = {} /\ outstandingMessages = {}
  /\ outstandingBuddies = [b \in Thread |-> NoCall]
  /\ timers = [c \in Call |-> 0]
  /\ preparing = {} /\ outbox = {} /\ answers = {}
  /\ autologin \in Autologin
  /\ wordless \in Wordless
  /\ loginStatus = "disconnected" /\ stream = "down" /\ logins = 0
  /\ encrypted = {} /\ negotiating = {} /\ sessionPosts = [b \in Thread |-> 0]
  /\ roomState = [a \in Action |-> "needsSending"]
  /\ timedOut = {} /\ wire = [a \in Action |-> 0]
  /\ lost = {}
  /\ budget = Budget

-----------------------------------------------------------------------------
(* Access to the dictionaries, on the isolationQueue.                      *)

\* Set.insert ignores an action that is already in the set.
WaitForAccount(c) ==
  LET same == {d \in outstandingAccounts : opened[d] = opened[c]} IN
  /\ outstandingAccounts' = outstandingAccounts \cup (IF same = {} THEN {c} ELSE {})
  /\ lost' = IF same \subseteq {c} THEN lost ELSE lost \cup {c}

\* updateValue: whatever was in the dictionary under that key is dropped.
Old(c, collections) ==
  {e \in outstandingMessages : e.action = opened[c] /\ e.in \in collections}
Renewed(c, collections) ==
  (outstandingMessages \ Old(c, collections))
    \cup [action : {opened[c]}, in : collections, call : {c}]
Replaced(c, collections) == {e.call : e \in Old(c, collections)}

WaitForMessage(c, collections) ==
  /\ outstandingMessages' = Renewed(c, collections)
  /\ lost' = lost \cup Replaced(c, collections)

WaitForBuddy(b, c) ==
  /\ outstandingBuddies' = [outstandingBuddies EXCEPT ![b] = c]
  /\ lost' = lost \cup ({outstandingBuddies[b]} \ {NoCall, c})

\* removeValue: what popWaitingMessage and popWaitingBuddy take out
Waiting(a) == {e \in outstandingMessages : e.action = a /\ e.in = Collection(a)}
PopMessage(a) == outstandingMessages' = outstandingMessages \ Waiting(a)
CallsOf(entries) == {e.call : e \in entries}

\* Fault: the entry is read, not removed
PeekBuddy(b) == UNCHANGED outstandingBuddies

PopBuddy(b) == outstandingBuddies' = [outstandingBuddies EXCEPT ![b] = NoCall]
WaitingBuddy(b) == {outstandingBuddies[b]} \ {NoCall}

-----------------------------------------------------------------------------
(* handleNextItem.                                                         *)

\* The broker hands over the first action of a queue unless it is the one it
\* already processes; a stale scan makes it do so twice (see OneAtATime there).
HandOver(a) ==
  /\ Len(opened) < MaxCalls
  /\ a \in queued /\ \A b \in queued : ThreadOf[b] = ThreadOf[a] => Precedes(a, b)
  /\ IF \E c \in Open : opened[c] = a THEN Spend("overlap") ELSE UNCHANGED budget
  /\ opened' = Append(opened, a)
  /\ Spawn({Len(opened) + 1}, "fetch")
  /\ UNCHANGED <<queued, messages, completions, tableVars, sendVars, loginVars,
                 sessionVars, lost>>

\* sendMessage(outstandingMessage): is the action still there?
Resend(c) ==
  /\ At(c, "resend")
  /\ IF opened[c] \in queued
       THEN GoOn(c, "resend", {"fetch"}) /\ UNCHANGED <<queued, completions>>
       ELSE GoOn(c, "resend", {}) /\ Complete({c}, TRUE)
  /\ UNCHANGED <<messages, opened, tableVars, sendVars, loginVars, sessionVars,
                 lost, budget>>

\* The message is fetched, then the state of its account is looked at.  A message
\* whose thread, account or protocol is gone is treated like one that is gone.
Fetch(c) ==
  /\ At(c, "fetch")
  /\ \/ /\ opened[c] \notin messages
        /\ GoOn(c, "fetch", {}) /\ Complete({c}, TRUE)
     \/ /\ opened[c] \in messages /\ loginStatus = "authenticated"
        /\ GoOn(c, "fetch", {"send"}) /\ UNCHANGED <<queued, completions>>
     \/ /\ opened[c] \in messages /\ loginStatus # "authenticated" /\ autologin
        /\ GoOn(c, "fetch", {"await"}) /\ UNCHANGED <<queued, completions>>
     \/ /\ opened[c] \in messages /\ loginStatus # "authenticated" /\ ~autologin
        /\ GoOn(c, "fetch", {}) /\ Complete({c}, FALSE)
  /\ UNCHANGED <<messages, opened, tableVars, sendVars, loginVars, sessionVars,
                 lost, budget>>

\* waitingForAccount
Await(c) ==
  /\ At(c, "await")
  /\ WaitForAccount(c)
  /\ GoOn(c, "await", {"connect"})
  /\ UNCHANGED <<queued, messages, opened, completions, outstandingBuddies,
                 outstandingMessages, timers, sendVars, loginVars, sessionVars, budget>>

\* connectUserInitiated: nothing to connect if the stream is authenticated
Connect(c) ==
  /\ At(c, "connect")
  /\ GoOn(c, "connect", IF stream = "authenticated" THEN {} ELSE {"start"})
  /\ UNCHANGED <<queued, messages, opened, completions, tableVars, sendVars,
                 loginVars, sessionVars, lost, budget>>

\* startConnection: a stream that is up by now authenticates once more
Start(c) ==
  /\ At(c, "start")
  /\ loginStatus' = "connecting" /\ stream' = "opening"
  /\ GoOn(c, "start", {})
  /\ UNCHANGED <<queued, messages, opened, completions, tableVars, sendVars,
                 settings, logins, sessionVars, lost, budget>>

\* The roster is asked to add or remove the buddy; nobody waits for an answer.
SendRoster(c) ==
  /\ At(c, "send") /\ Kind[opened[c]] \in RosterKinds
  /\ GoOn(c, "send", {}) /\ Complete({c}, TRUE)
  /\ UNCHANGED <<messages, opened, tableVars, sendVars, loginVars, sessionVars,
                 lost, budget>>

\* sendDirectMessage, plaintext.  OTRXMPPManager drops a message without text or
\* buddy and tells nobody.
SendPlain(c) ==
  /\ At(c, "send") /\ Kind[opened[c]] = "plaintext"
  /\ outstandingMessages' = Renewed(c, {"outgoing"})
  /\ \/ /\ opened[c] \notin wordless
        /\ outbox' = outbox \cup {c} /\ lost' = lost \cup Replaced(c, {"outgoing"})
     \/ UNCHANGED outbox /\ lost' = lost \cup Replaced(c, {"outgoing"}) \cup {c}
  /\ GoOn(c, "send", {})
  /\ UNCHANGED <<queued, messages, opened, completions, outstandingAccounts,
                 outstandingBuddies, timers, preparing, answers, roomState, timedOut,
                 wire, loginVars, sessionVars, budget>>

\* A message without text (or, for OMEMO, an account without a coordinator) is
\* done, however often it is handed over.
NothingToSend(c) == opened[c] \in wordless /\ GoOn(c, "send", {}) /\ Complete({c}, TRUE)

\* sendOTRMessage: without the session it requires, a block on the main queue
\* will initiate one; otherwise OTRKit encodes the message.
SendOTR(c) ==
  /\ At(c, "send") /\ Kind[opened[c]] \in OTRKinds
  /\ \/ /\ NothingToSend(c)
        /\ UNCHANGED <<outstandingMessages, lost, preparing>>
     \/ /\ opened[c] \notin wordless
        /\ Kind[opened[c]] = "OTR" /\ ThreadOf[opened[c]] \notin encrypted
        /\ GoOn(c, "send", {"initiate"})
        /\ UNCHANGED <<queued, completions, outstandingMessages, lost, preparing>>
     \/ /\ opened[c] \notin wordless
        /\ ~(Kind[opened[c]] = "OTR" /\ ThreadOf[opened[c]] \notin encrypted)
        /\ GoOn(c, "send", {})
        /\ WaitForMessage(c, {"outgoing"})
        /\ preparing' = preparing \cup {c}
        /\ UNCHANGED <<queued, completions>>
  /\ UNCHANGED <<messages, opened, outstandingAccounts, outstandingBuddies,
                 timers, outbox, answers, roomState, timedOut, wire, loginVars, sessionVars, budget>>

\* Fault: nothing bounds the negotiation
InitiateUntimed(c) ==
  LET b == ThreadOf[opened[c]] IN
  /\ At(c, "initiate")
  /\ WaitForBuddy(b, c)
  /\ negotiating' = negotiating \cup {b}
  /\ GoOn(c, "initiate", {})
  /\ UNCHANGED <<queued, messages, opened, completions, outstandingAccounts,
                 outstandingMessages, timers, sendVars, loginVars, encrypted,
                 sessionPosts, budget>>

\* ... on the main queue: the timer, the dictionary, the OTR query.  The timer
\* is not kept with the entry.
Initiate(c) ==
  LET b == ThreadOf[opened[c]] IN
  /\ At(c, "initiate")
  /\ timers' = [timers EXCEPT ![c] = @ + 1]
  /\ WaitForBuddy(b, c)
  /\ negotiating' = negotiating \cup {b}
  /\ GoOn(c, "initiate", {})
  /\ UNCHANGED <<queued, messages, opened, completions, outstandingAccounts,
                 outstandingMessages, sendVars, loginVars, encrypted, sessionPosts,
                 budget>>

\* sendOMEMOMessage
SendOMEMO(c) ==
  /\ At(c, "send") /\ Kind[opened[c]] = "OMEMO"
  /\ \/ /\ NothingToSend(c)
        /\ UNCHANGED <<outstandingMessages, lost, preparing>>
     \/ /\ opened[c] \notin wordless
        /\ WaitForMessage(c, {"outgoing"})
        /\ preparing' = preparing \cup {c}
        /\ GoOn(c, "send", {})
        /\ UNCHANGED <<queued, completions>>
  /\ UNCHANGED <<messages, opened, outstandingAccounts, outstandingBuddies, timers,
                 outbox, answers, roomState, timedOut, wire, loginVars, sessionVars,
                 budget>>

\* sendGroupMessage: a room that was not joined is nowhere to send to.  With
\* OMEMO the message also waits under the collection of direct messages, unless
\* there is nothing to send.
SendGroup(c) ==
  /\ At(c, "send") /\ Kind[opened[c]] \in RoomKinds
  /\ \/ /\ GoOn(c, "send", {}) /\ Complete({c}, TRUE)
        /\ UNCHANGED <<outstandingMessages, lost, outbox, preparing>>
     \/ /\ Kind[opened[c]] = "room"
        /\ WaitForMessage(c, {"room"})
        /\ outbox' = outbox \cup {c}
        /\ GoOn(c, "send", {"mark"})
        /\ UNCHANGED <<queued, completions, preparing>>
     \/ /\ Kind[opened[c]] = "roomOMEMO" /\ opened[c] \notin wordless
        /\ WaitForMessage(c, {"room", "outgoing"})
        /\ preparing' = preparing \cup {c}
        /\ GoOn(c, "send", {"mark"})
        /\ UNCHANGED <<queued, completions, outbox>>
     \/ /\ Kind[opened[c]] = "roomOMEMO" /\ opened[c] \in wordless
        /\ WaitForMessage(c, {"room"})
        /\ Complete({c}, TRUE)
        /\ GoOn(c, "send", {"mark"})
        /\ UNCHANGED <<outbox, preparing>>
  /\ UNCHANGED <<messages, opened, outstandingAccounts, outstandingBuddies, timers,
                 answers, roomState, timedOut, wire, loginVars, sessionVars, budget>>

\* ... and afterwards the message is marked as pending, whatever it is by then.
Mark(c) ==
  /\ At(c, "mark")
  /\ GoOn(c, "mark", {})
  /\ roomState' = IF opened[c] \in messages
                    THEN [roomState EXCEPT ![opened[c]] = "pendingSent"] ELSE roomState
  /\ UNCHANGED <<queued, messages, opened, completions, tableVars, preparing, outbox,
                 answers, timedOut, wire, loginVars, sessionVars, lost, budget>>

-----------------------------------------------------------------------------
(* OTRKit and the OMEMO coordinator.                                       *)

Prepared(c) == c \in preparing /\ preparing' = preparing \ {c}

\* Fault: an encoded message counts as a sent one
EncodedIsDone(c) ==
  /\ Prepared(c) /\ Kind[opened[c]] \in OTRKinds
  /\ messages' = messages \cup {opened[c]}
  /\ outbox' = outbox \cup {c}
  /\ PopMessage(opened[c]) /\ Complete(CallsOf(Waiting(opened[c])), TRUE)
  /\ UNCHANGED <<opened, threads, outstandingAccounts, outstandingBuddies, timers,
                 answers, roomState, timedOut, wire, loginVars, sessionVars, lost,
                 budget>>

\* otrKit:encodedMessage: saves the message, deleted meanwhile or not, and
\* gives the encoded one to the stream.
Encoded(c) ==
  /\ Prepared(c) /\ Kind[opened[c]] \in OTRKinds
  /\ messages' = messages \cup {opened[c]}
  /\ outbox' = outbox \cup {c}
  /\ UNCHANGED <<queued, opened, completions, threads, tableVars, answers, roomState,
                 timedOut, wire, loginVars, sessionVars, lost, budget>>

\* ... or removes the action when encoding failed; nobody calls completion.
EncodeFailed(c) ==
  /\ Prepared(c) /\ Kind[opened[c]] \in OTRKinds
  /\ queued' = queued \ {opened[c]}
  /\ lost' = lost \cup {c}
  /\ UNCHANGED <<messages, opened, completions, threads, tableVars, outbox, answers,
                 roomState, timedOut, wire, loginVars, sessionVars, budget>>

\* encryptAndSendMessage gives the stanza to the stream or fails.
Encrypted(c) ==
  /\ Prepared(c) /\ Kind[opened[c]] \notin OTRKinds
  /\ outbox' = outbox \cup {c}
  /\ UNCHANGED <<queueVars, tableVars, answers, roomState, timedOut, wire, loginVars,
                 sessionVars, lost, budget>>

\* Fault: the entry goes, its completion block is not called
FailSilently(c) ==
  /\ Prepared(c) /\ Kind[opened[c]] \notin OTRKinds
  /\ PopMessage(opened[c])
  /\ UNCHANGED <<queueVars, outstandingAccounts, outstandingBuddies, timers, outbox,
                 answers, roomState, timedOut, wire, loginVars, sessionVars, lost,
                 budget>>

EncryptFailed(c) ==
  /\ Prepared(c) /\ Kind[opened[c]] \notin OTRKinds
  /\ PopMessage(opened[c]) /\ Complete(CallsOf(Waiting(opened[c])), TRUE)
  /\ UNCHANGED <<messages, opened, threads, outstandingAccounts, outstandingBuddies,
                 timers, outbox, answers, roomState, timedOut, wire, loginVars,
                 sessionVars, lost, budget>>

\* Without a buddy to send to, either way of encrypting may end without a word.
EncryptVanished(c) ==
  /\ Prepared(c)
  /\ lost' = lost \cup {c}
  /\ UNCHANGED <<queueVars, tableVars, outbox, answers, roomState, timedOut, wire,
                 loginVars, sessionVars, budget>>

-----------------------------------------------------------------------------
(* The stream and OTRXMPPMessageStatusModule.                              *)

\* The stream sends the stanza if it can and reports which.
Transmit(c) ==
  LET sent == stream = "authenticated" IN
  /\ c \in outbox
  /\ outbox' = outbox \ {c}
  /\ answers' = answers \cup {[call |-> c, sent |-> sent]}
  /\ wire' = IF sent THEN [wire EXCEPT ![opened[c]] = @ + 1] ELSE wire
  /\ UNCHANGED <<queueVars, tableVars, preparing, roomState, timedOut, loginVars,
                 sessionVars, lost, budget>>

\* Fault: only didSendMessage is handled
AnswerSent(c, sent) ==
  /\ [call |-> c, sent |-> sent] \in answers
  /\ answers' = answers \ {[call |-> c, sent |-> sent]}
  /\ IF sent
       THEN PopMessage(opened[c]) /\ Complete(CallsOf(Waiting(opened[c])), TRUE)
       ELSE UNCHANGED <<queued, completions, outstandingMessages>>
  /\ UNCHANGED <<messages, opened, threads, outstandingAccounts, outstandingBuddies,
                 timers, preparing, outbox, roomState, timedOut, wire, loginVars,
                 sessionVars, lost, budget>>

\* didSendMessage and didFailToSendMessage: the status module looks the message
\* up by its id; one that was deleted concerns nobody any more.
Answer(c, sent) ==
  LET a == opened[c]
      waiting == CallsOf(Waiting(a))
  IN
  /\ [call |-> c, sent |-> sent] \in answers
  /\ answers' = answers \ {[call |-> c, sent |-> sent]}
  /\ IF a \in messages
       THEN /\ PopMessage(a) /\ Complete(waiting, TRUE)
            /\ roomState' = IF sent /\ waiting # {}
                              THEN [roomState EXCEPT ![a] = "sent"] ELSE roomState
            /\ UNCHANGED lost
       ELSE /\ lost' = lost \cup waiting
            /\ UNCHANGED <<queued, completions, outstandingMessages, roomState>>
  /\ UNCHANGED <<messages, opened, threads, outstandingAccounts, outstandingBuddies,
                 timers, preparing, outbox, timedOut, wire, loginVars, sessionVars,
                 budget>>

-----------------------------------------------------------------------------
(* The account.                                                            *)

LoginStep ==
  UNCHANGED <<queueVars, tableVars, sendVars, settings, sessionVars, lost>>

Authenticate ==
  /\ stream = "opening"
  /\ stream' = "authenticated" /\ loginStatus' = "authenticated"
  /\ logins' = logins + 1
  /\ LoginStep /\ UNCHANGED budget

LoginFails ==
  /\ stream = "opening"
  /\ stream' = "down" /\ loginStatus' = "disconnected"
  /\ LoginStep /\ UNCHANGED <<logins, budget>>

\* The application connects on its own account, when it comes to the front.
Reconnect ==
  /\ stream = "down"
  /\ stream' = "opening" /\ loginStatus' = "connecting"
  /\ LoginStep /\ UNCHANGED <<logins, budget>>

\* disconnectSocketOnly: the status changes before the stream does.
GoAway ==
  /\ Spend("disconnect")
  /\ loginStatus = "authenticated"
  /\ loginStatus' = "disconnecting"
  /\ LoginStep /\ UNCHANGED <<stream, logins>>

Disconnect ==
  /\ stream = "authenticated"
  /\ \/ loginStatus = "disconnecting" /\ UNCHANGED budget
     \/ loginStatus # "disconnecting" /\ Spend("disconnect")
  /\ stream' = "down" /\ loginStatus' = "disconnected"
  /\ LoginStep /\ UNCHANGED logins

\* didConnectAccount: all calls that wait are taken out of the dictionary, one
\* is handled again.
HandleLogin ==
  /\ logins > 0
  /\ logins' = logins - 1
  /\ outstandingAccounts' = {}
  /\ \/ outstandingAccounts = {} /\ UNCHANGED <<threads, lost>>
     \/ \E c \in outstandingAccounts :
          /\ Spawn({c}, "fetch")
          /\ lost' = lost \cup (outstandingAccounts \ {c})
  /\ UNCHANGED <<queued, messages, opened, completions, outstandingBuddies,
                 outstandingMessages, timers, sendVars, settings, loginStatus,
                 stream, sessionVars, budget>>

-----------------------------------------------------------------------------
(* OTR sessions.                                                           *)

SessionStep ==
  UNCHANGED <<queueVars, tableVars, sendVars, loginVars, lost>>

\* The peer answers the query, or never does, or asks for a session itself.
SessionStarts(b) ==
  /\ b \in negotiating /\ negotiating' = negotiating \ {b}
  /\ encrypted' = encrypted \cup {b}
  /\ sessionPosts' = [sessionPosts EXCEPT ![b] = @ + 1]
  /\ SessionStep /\ UNCHANGED budget

SessionFails(b) ==
  /\ b \in negotiating /\ negotiating' = negotiating \ {b}
  /\ SessionStep /\ UNCHANGED <<encrypted, sessionPosts, budget>>

PeerStartsSession(b) ==
  /\ Spend("session")
  /\ encrypted' = encrypted \cup {b}
  /\ sessionPosts' = [sessionPosts EXCEPT ![b] = @ + 1]
  /\ SessionStep /\ UNCHANGED negotiating

SessionEnds(b) ==
  /\ Spend("session")
  /\ b \in encrypted /\ encrypted' = encrypted \ {b}
  /\ SessionStep /\ UNCHANGED <<negotiating, sessionPosts>>

\* Fault: a post is handled that nobody made
HandleAnySession(b) ==
  /\ sessionPosts' = [sessionPosts EXCEPT ![b] = @ - 1]
  /\ PopBuddy(b) /\ Spawn(WaitingBuddy(b), "resend")
  /\ UNCHANGED <<queued, messages, opened, completions, outstandingAccounts,
                 outstandingMessages, timers, sendVars, loginVars, encrypted,
                 negotiating, lost, budget>>

\* handleMessageStateDidChangeNotification
HandleSession(b) ==
  /\ sessionPosts[b] > 0
  /\ sessionPosts' = [sessionPosts EXCEPT ![b] = @ - 1]
  /\ PopBuddy(b) /\ Spawn(WaitingBuddy(b), "resend")
  /\ UNCHANGED <<queued, messages, opened, completions, outstandingAccounts,
                 outstandingMessages, timers, sendVars, loginVars, encrypted,
                 negotiating, lost, budget>>

\* otrInitatiateTimeout: the timer knows the buddy, not the message
TimedOut(c) ==
  LET b == ThreadOf[opened[c]] IN
  /\ timers[c] > 0
  /\ timers' = [timers EXCEPT ![c] = @ - 1]
  /\ PopBuddy(b) /\ Complete(WaitingBuddy(b), TRUE)
  /\ timedOut' = timedOut \cup (messages \cap {opened[d] : d \in WaitingBuddy(b)})
  /\ UNCHANGED <<messages, opened, threads, outstandingAccounts, outstandingMessages,
                 preparing, outbox, answers, roomState, wire, loginVars, sessionVars,
                 lost, budget>>

-----------------------------------------------------------------------------
\* The user deletes a message, or a buddy; its action goes with it.  What removes
\* a buddy from the roster stays.
Delete(a) ==
  /\ Spend("delete")
  /\ a \in messages /\ Kind[a] # "removeBuddy"
  /\ messages' = messages \ {a} /\ queued' = queued \ {a}
  /\ UNCHANGED <<opened, completions, threads, tableVars, sendVars, loginVars,
                 sessionVars, lost>>

HandlerStep(c) ==
  \/ Resend(c) \/ Fetch(c) \/ Await(c) \/ Connect(c) \/ Start(c)
  \/ SendRoster(c) \/ SendPlain(c) \/ SendOTR(c) \/ SendOMEMO(c) \/ SendGroup(c)
  \/ Initiate(c) \/ Mark(c)

Prepare(c) == \/ Encoded(c) \/ EncodeFailed(c)
              \/ Encrypted(c) \/ EncryptFailed(c) \/ EncryptVanished(c)

Environment ==
  \/ \E a \in Action : Delete(a)
  \/ GoAway \/ Disconnect \/ LoginFails
  \/ \E b \in Thread : SessionStarts(b) \/ SessionFails(b) \/ PeerStartsSession(b)
                        \/ SessionEnds(b)

Next ==
  \/ \E a \in Action : HandOver(a)
  \/ \E c \in DOMAIN opened :
       HandlerStep(c) \/ Prepare(c) \/ Transmit(c) \/ TimedOut(c)
  \/ \E c \in DOMAIN opened, sent \in BOOLEAN : Answer(c, sent)
  \/ Authenticate \/ Reconnect \/ HandleLogin
  \/ \E b \in Thread : HandleSession(b)
  \/ Environment

Spec == Init /\ [][Next]_vars

\* Queues run their blocks, timers fire, encryption ends one way or another and
\* the stream reports on every stanza.  An account that keeps trying to connect
\* succeeds.  Nothing obliges a peer to answer an OTR query, or the connection
\* ever to break.
Fairness ==
  /\ \A c \in Call : /\ WF_vars(c \in DOMAIN opened /\ HandlerStep(c))
                     /\ WF_vars(c \in DOMAIN opened /\ Prepare(c))
                     /\ WF_vars(c \in DOMAIN opened /\ Transmit(c))
                     /\ WF_vars(c \in DOMAIN opened /\ TimedOut(c))
                     /\ WF_vars(c \in DOMAIN opened /\ \E sent \in BOOLEAN : Answer(c, sent))
  /\ \A a \in Action : WF_vars(HandOver(a))
  /\ WF_vars(Reconnect) /\ SF_vars(Authenticate) /\ WF_vars(HandleLogin)
  /\ \A b \in Thread : WF_vars(HandleSession(b))

FairSpec == Spec /\ Fairness

-----------------------------------------------------------------------------
\* Every variable stays within the types of the declarations; what carries a
\* call carries one that was opened.
TypeOK ==
  /\ queued \subseteq Action /\ messages \subseteq Action
  /\ opened \in Seq(Action) /\ Len(opened) <= MaxCalls
  /\ completions \in [Call -> Nat]
  /\ threads \subseteq [call : DOMAIN opened, at : Place]
  /\ outstandingAccounts \subseteq DOMAIN opened
  /\ outstandingBuddies \in [Thread -> {NoCall} \cup DOMAIN opened]
  /\ outstandingMessages \subseteq
       [action : Action, in : {"room", "outgoing"}, call : DOMAIN opened]
  /\ timers \in [Call -> Nat]
  /\ preparing \subseteq DOMAIN opened /\ outbox \subseteq DOMAIN opened
  /\ answers \subseteq [call : DOMAIN opened, sent : BOOLEAN]
  /\ autologin \in Autologin /\ wordless \in Wordless
  /\ loginStatus \in {"disconnected", "connecting", "authenticated", "disconnecting"}
  /\ stream \in {"down", "opening", "authenticated"}
  /\ logins \in Nat
  /\ encrypted \subseteq Thread /\ negotiating \subseteq Thread
  /\ sessionPosts \in [Thread -> Nat]
  /\ roomState \in [Action -> {"needsSending", "pendingSent", "sent"}]
  /\ timedOut \subseteq Action
  /\ wire \in [Action -> Nat]
  /\ lost \subseteq DOMAIN opened
  /\ budget \in [EnvStep -> Nat]

\* The completion block of a call is called at most once, although login,
\* session, timeout and the stream's answer all compete for it.
CompletedOnce == \A c \in Call : completions[c] <= 1

\* Somebody will call the completion block of c: code that runs for it, the
\* next login, the OTR timer of its buddy, or the stream's answer.
StanzaOnItsWay(c) ==
  \E d \in preparing \cup outbox \cup {r.call : r \in answers} : opened[d] = opened[c]

TimerArmed(b) == \E d \in DOMAIN opened : timers[d] > 0 /\ ThreadOf[opened[d]] = b

Held(c) ==
  \/ \E p \in {"fetch", "await", "send", "initiate", "resend"} : At(c, p)
  \/ c \in outstandingAccounts
  \/ \E b \in Thread : outstandingBuddies[b] = c /\ TimerArmed(b)
  \/ (\E e \in outstandingMessages : e.call = c) /\ StanzaOnItsWay(c)

\* "Call completion once finished with the action item": no call is dropped.
EveryCallHeld == \A c \in Open : Held(c)

\* Calls are dropped at five places only: by a login that finds several of them
\* waiting, by an entry another one replaces, when encoding fails, when a message
\* is dropped without a word on its way to the stream, and when it was deleted
\* before the stream's answer.
NoCallForgotten == \A c \in Open \ lost : Held(c)

\* The broker has handed over no action that was open already.
NoOverlap == budget["overlap"] = Budget["overlap"]

\* A message the broker hands over properly goes over the stream at most once,
\* retries, resumed calls and sessions that start late included.
SentOnce == NoOverlap => \A a \in Action : wire[a] <= 1

\* A message that was given up for want of an OTR session is never sent.
GivenUpIsNotSent == NoOverlap => \A a \in timedOut : wire[a] = 0

\* Unless messages are deleted, those of a conversation leave in their order.
SentInOrder ==
  [][budget["delete"] = Budget["delete"] /\ NoOverlap =>
       \A a, b \in Action :
         ThreadOf[a] = ThreadOf[b] /\ Date[a] < Date[b] /\ wire[b] > 0
           => wire'[a] = wire[a]]_vars

\* Every call completes, or waits for a login, or is one of those dropped.
EventuallyCompleted ==
  \A c \in Call : (c \in Open) ~> (c \notin Open \/ c \in lost \/ c \in outstandingAccounts)

\* "Ensure protocol is connected or if not and autologin then connnect": a call
\* that waits for a login is not left waiting on an authenticated stream.
LoginWakesWaiters ==
  \A c \in Call : (c \in outstandingAccounts) ~> (c \notin outstandingAccounts)

\* "Cancel outsanding timer": a message is only given up by the timer that was
\* armed for it.
TimeoutIsOwn ==
  [][\A a \in timedOut' \ timedOut :
       \E c \in DOMAIN opened : opened[c] = a /\ timers'[c] < timers[c]]_vars
=============================================================================
