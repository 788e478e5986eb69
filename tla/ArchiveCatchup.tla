--------------------------- MODULE ArchiveCatchup ---------------------------
(***************************************************************************)
(* How the messages of an account get into the database: as they come, and *)
(* after a login from the archive of the server, from lastHistoryFetchDate *)
(* on (MessageStorage.swift, XMPPMessageArchiveManagement.m; for the       *)
(* archives of rooms RoomManager.swift and OTRXMPPRoomManager.m).          *)
(*                                                                         *)
(* Three serial queues work on it: those of MessageStorage and of the room *)
(* manager, and the connection to the database that both share.  Each runs *)
(* its blocks in order and may wait for another to run one of its own      *)
(* (performBlock, readWriteWithBlock).  The queue of the archive module    *)
(* waits for none and is drained at once.                                  *)
(*                                                                         *)
(* Messages are numbered as the server archives them and the clock counts  *)
(* them: a date is the number of messages before it.  All buddies are      *)
(* known, all messages are from the last week and none is OTR text.        *)
(***************************************************************************)
EXTENDS Integers, Sequences, SequencesExt

CONSTANTS
  MaxMessage,  \* bound on the messages archived
  Named,       \* messages whose copies all carry the same XEP-0359 id
  Budget       \* bounds on the steps of the environment

Message == 1..MaxMessage
EnvStep == {"disconnect", "relaunch", "resend", "room", "any"}

ASSUME MessageType == MaxMessage \in Nat /\ Named \subseteq Message
ASSUME BudgetType == Budget \in [EnvStep -> Nat]

VARIABLES
  archived,   \* messages in the archive of the server, and its clock
  connected,
  down,       \* on its way to the client
  queries,    \* outstanding queries: whose archive, and after which message
  blocks,     \* blocks on the serial queues, the one that runs first
  call,       \* where the block that runs stands with the other queue it calls
  mamCatchupInProgress,
  fetching,   \* what updateLastFetch read of it
  messageDate,  \* the date updateLastFetch was given
  lastHistoryFetchDate,
  stored,     \* copies of each message in the database
  joined,     \* the room is joined
  hasFetchedHistory,
  ended,      \* history: the answer for a room ended the catch-up of the account
  excuse,     \* history: why the date went past a message that is not stored
  budget

update == <<fetching, messageDate>>
client == <<blocks, call, mamCatchupInProgress, update, hasFetchedHistory>>
database == <<lastHistoryFetchDate, stored>>
wire == <<connected, joined, down, queries>>
history == <<ended, excuse>>
vars == <<archived, wire, client, database, history, budget>>

Queue == {"storage", "rooms", "connection"}
NoDate == -1
NoMessage == 0
Date == archived

\* Which message a block or an element is about, and whether it has a date of
\* its own (delayed delivery) or concerns a room.
Item(kind, m, mark) == [kind |-> kind, msg |-> m, mark |-> mark]
Plain(kind) == Item(kind, NoMessage, FALSE)

Spend(step) ==
  /\ budget[step] > 0 /\ budget["any"] > 0
  /\ budget' = [budget EXCEPT ![step] = @ - 1, !["any"] = @ - 1]

Init ==
  /\ archived \in 0..MaxMessage
  /\ connected = FALSE /\ joined = FALSE /\ down = <<>> /\ queries = {}
  /\ blocks = [q \in Queue |-> <<>>] /\ call = [q \in Queue |-> "none"]
  /\ mamCatchupInProgress = FALSE /\ fetching = FALSE /\ messageDate = NoDate
  /\ hasFetchedHistory = FALSE
  /\ lastHistoryFetchDate \in {NoDate, 0} /\ stored = [m \in Message |-> 0]
  /\ ended = FALSE /\ excuse = [m \in Message |-> "none"]
  /\ budget = Budget

-----------------------------------------------------------------------------
(* Serial queues.                                                          *)

Running(q, kind) == blocks[q] # <<>> /\ Head(blocks[q]).kind = kind
Current(q) == Head(blocks[q])

\* The block that runs on q ends, after it queued s on another queue.
Finish(q, other, s) ==
  blocks' = [blocks EXCEPT ![q] = Tail(@), ![other] = @ \o s]
End(q) == blocks' = [blocks EXCEPT ![q] = Tail(@)]

\* dispatch_sync: the block goes behind those that are there.
CallSync(q, other, kind) ==
  /\ call[q] = "none"
  /\ call' = [call EXCEPT ![q] = "waiting"]
  /\ blocks' = [blocks EXCEPT ![other] = Append(@, Plain(kind))]
Return(q) == call[q] = "waiting" /\ call' = [call EXCEPT ![q] = "returned"]

\* Fault: the call is not over when it has returned.
ReturnedOnly(q) == call[q] = "returned" /\ UNCHANGED call
Returned(q) == call[q] = "returned" /\ call' = [call EXCEPT ![q] = "none"]

-----------------------------------------------------------------------------
(* The server (external) and the connection to it.                         *)

RejoinDue == \E i \in DOMAIN blocks["rooms"] : blocks["rooms"][i].kind = "rejoin"

\* A message is archived, and sent to a client that is connected.
Archive ==
  /\ archived < MaxMessage
  /\ archived' = archived + 1
  /\ down' = IF connected THEN Append(down, Item("message", archived', FALSE)) ELSE down
  /\ UNCHANGED <<connected, joined, queries, client, database, history, budget>>

\* Messages the server took for undelivered come again, with their dates.
Resend(m) ==
  /\ Spend("resend")
  /\ connected /\ m <= archived
  /\ down' = Append(down, Item("message", m, TRUE))
  /\ UNCHANGED <<archived, connected, joined, queries, client, database, history>>

\* The room is joined by the queue of the room manager, and answers with its
\* subject.
JoinRoom ==
  /\ Spend("room")
  /\ connected /\ ~joined /\ ~RejoinDue
  /\ joined' = TRUE
  /\ down' = Append(down, Plain("subject"))
  /\ UNCHANGED <<archived, connected, queries, client, database, history>>

Page(from, to) == [i \in 1..(to - from) |-> Item("result", from + i, FALSE)]

\* A page, as long as the server likes, and the answer that ends it.  A room
\* gives one message of its own.
Answer(query, to) ==
  /\ query \in queries
  /\ \/ /\ ~query.room /\ to \in query.after..archived
        /\ to = query.after => to = archived
        /\ down' = down \o Page(query.after, to)
                        \o <<Item(IF to = archived THEN "fin" ELSE "last", to, FALSE)>>
     \/ /\ query.room /\ to = query.after
        /\ down' = down \o <<Plain("roomResult"), Item("fin", NoMessage, TRUE)>>
  /\ queries' = queries \ {query}
  /\ UNCHANGED <<archived, connected, joined, client, database, history, budget>>

\* xmppStreamDidAuthenticate is sent to the delegates.
Connect ==
  /\ ~connected
  /\ connected' = TRUE
  /\ blocks' = [blocks EXCEPT !["storage"] = Append(@, Plain("didAuthenticate")),
                              !["rooms"] = Append(@, Plain("rejoin"))]
  /\ UNCHANGED <<archived, joined, down, queries, call, mamCatchupInProgress, update,
                 hasFetchedHistory, database, ended, excuse, budget>>

Disconnect ==
  /\ Spend("disconnect")
  /\ connected
  /\ connected' = FALSE /\ joined' = FALSE /\ down' = <<>> /\ queries' = {}
  /\ UNCHANGED <<archived, client, database, history>>

\* The process ends and starts again: only the database is left.
Relaunch ==
  /\ Spend("relaunch")
  /\ connected' = FALSE /\ joined' = FALSE /\ down' = <<>> /\ queries' = {}
  /\ blocks' = [q \in Queue |-> <<>>] /\ call' = [q \in Queue |-> "none"]
  /\ mamCatchupInProgress' = FALSE /\ fetching' = FALSE /\ messageDate' = NoDate
  /\ hasFetchedHistory' = FALSE
  /\ ended' = FALSE
  /\ UNCHANGED <<archived, database, excuse>>

-----------------------------------------------------------------------------
(* The stream and the archive module.                                      *)

Received(kind) == down # <<>> /\ Head(down).kind = kind /\ down' = Tail(down)

\* didReceiveMessage, xmppMessageCarbons:didReceiveMessage:, and from the
\* archive module didReceiveMAMMessage and didFinishReceivingMessagesWithSet
ReceiveForStorage ==
  /\ \E kind \in {"message", "result", "roomResult", "fin"} : Received(kind)
  /\ blocks' = [blocks EXCEPT !["storage"] = Append(@, Head(down))]
  /\ UNCHANGED <<archived, connected, joined, queries, call, mamCatchupInProgress, update,
                 hasFetchedHistory, database, history, budget>>

ReceiveSubject ==
  /\ Received("subject")
  /\ blocks' = [blocks EXCEPT !["rooms"] = Append(@, Head(down))]
  /\ UNCHANGED <<archived, connected, joined, queries, call, mamCatchupInProgress,
                 update, hasFetchedHistory, database, history, budget>>

\* handleMessageArchiveIQ asks for the page after this one.
ReceiveLast ==
  /\ Received("last")
  /\ queries' = queries \cup {[room |-> FALSE, after |-> Head(down).msg]}
  /\ UNCHANGED <<archived, connected, joined, client, database, history, budget>>

-----------------------------------------------------------------------------
(* MessageStorage, on its queue.                                           *)

DidAuthenticate ==
  /\ Running("storage", "didAuthenticate")
  /\ mamCatchupInProgress' = FALSE
  /\ ended' = FALSE
  /\ Finish("storage", "connection", <<Plain("fetchHistory")>>)
  /\ UNCHANGED <<archived, wire, call, update, hasFetchedHistory, database,
                 excuse, budget>>

\* handleDirectMessage, handleForwardedMessage: a transaction is queued.
HandleMessage ==
  /\ \E kind \in {"message", "result"} : Running("storage", kind)
  /\ Finish("storage", "connection", <<Current("storage")>>)
  /\ UNCHANGED <<archived, wire, call, mamCatchupInProgress, update, hasFetchedHistory,
                 database, history, budget>>

\* A message from the archive of a room: roomManager.room(for:), and then
\* RoomStorage.insertIncoming, whose transaction neither waits nor has to do
\* with dates.
LookUpRoom ==
  /\ Running("storage", "roomResult")
  /\ CallSync("storage", "rooms", "lookup")
  /\ UNCHANGED <<archived, wire, mamCatchupInProgress, update, hasFetchedHistory,
                 database, history, budget>>

RoomLookedUp ==
  /\ Running("storage", "roomResult")
  /\ Returned("storage")
  /\ End("storage")
  /\ UNCHANGED <<archived, wire, mamCatchupInProgress, update, hasFetchedHistory,
                 database, history, budget>>

\* didFinishReceivingMessagesWith, whichever archive it was.
DidFinish ==
  /\ Running("storage", "fin")
  /\ mamCatchupInProgress' = FALSE
  /\ ended' = (ended \/ (Current("storage").mark /\ mamCatchupInProgress))
  /\ Finish("storage", "connection", <<Current("storage")>>)
  /\ UNCHANGED <<archived, wire, call, update, hasFetchedHistory, database,
                 excuse, budget>>

\* The blocks of performBlock for the connection.
SetInProgress ==
  /\ Running("storage", "setInProgress")
  /\ mamCatchupInProgress' = TRUE
  /\ End("storage") /\ Return("connection")
  /\ UNCHANGED <<archived, wire, update, hasFetchedHistory, database, history, budget>>

ReadInProgress ==
  /\ Running("storage", "readInProgress")
  /\ fetching' = mamCatchupInProgress
  /\ End("storage") /\ Return("connection")
  /\ UNCHANGED <<archived, wire, mamCatchupInProgress, messageDate, hasFetchedHistory,
                 database, history, budget>>

-----------------------------------------------------------------------------
(* The room manager, on its queue.                                         *)

\* xmppStreamDidAuthenticate reads the rooms and joins them; a subject is saved:
\* synchronous transactions on the shared connection.
UseDatabase ==
  /\ \E kind \in {"rejoin", "subject"} : Running("rooms", kind)
  /\ CallSync("rooms", "connection", "roomAccess")
  /\ UNCHANGED <<archived, wire, mamCatchupInProgress, update, hasFetchedHistory,
                 database, history, budget>>

DatabaseUsed ==
  /\ \E kind \in {"rejoin", "subject"} : Running("rooms", kind)
  /\ Returned("rooms")
  /\ End("rooms")
  /\ UNCHANGED <<archived, wire, mamCatchupInProgress, update, hasFetchedHistory,
                 database, history, budget>>

\* roomForJID
FindRoom ==
  /\ Running("rooms", "lookup")
  /\ End("rooms") /\ Return("storage")
  /\ UNCHANGED <<archived, wire, mamCatchupInProgress, update, hasFetchedHistory,
                 database, history, budget>>

\* The lists of a room that was joined are there: once in the life of the
\* process its history is fetched (fetchAllListsForRoom, fetchHistoryFor).
FetchRoomHistory ==
  /\ joined /\ ~hasFetchedHistory
  /\ hasFetchedHistory' = TRUE
  /\ blocks' = [blocks EXCEPT !["connection"] = Append(@, Plain("fetchRoom"))]
  /\ UNCHANGED <<archived, wire, call, mamCatchupInProgress, update, database, history,
                 budget>>

-----------------------------------------------------------------------------
(* Blocks of the database connection.                                      *)

\* A query that finds no connection is never answered.
Ask(query) == queries' = IF connected THEN queries \cup {query} ELSE queries

\* The date is read before the queue of MessageStorage is asked to set the
\* flag; nothing else on this connection comes in between.
BeginCatchup ==
  /\ Running("connection", "fetchHistory")
  /\ CallSync("connection", "storage", "setInProgress")
  /\ UNCHANGED <<archived, wire, mamCatchupInProgress, update, hasFetchedHistory,
                 database, history, budget>>

DateToFetch == IF lastHistoryFetchDate = NoDate THEN 0 ELSE lastHistoryFetchDate

\* Fault: nothing is fetched where no date is known.
FetchSince ==
  /\ Running("connection", "fetchHistory")
  /\ Returned("connection")
  /\ IF lastHistoryFetchDate = NoDate
       THEN UNCHANGED queries
       ELSE Ask([room |-> FALSE, after |-> lastHistoryFetchDate])
  /\ End("connection")
  /\ UNCHANGED <<archived, connected, joined, down, mamCatchupInProgress, update,
                 hasFetchedHistory, database, history, budget>>

\* Without a date the last week is asked for.
FetchHistory ==
  /\ Running("connection", "fetchHistory")
  /\ Returned("connection")
  /\ Ask([room |-> FALSE, after |-> DateToFetch])
  /\ End("connection")
  /\ UNCHANGED <<archived, connected, joined, down, mamCatchupInProgress, update,
                 hasFetchedHistory, database, history, budget>>

FetchRoom ==
  /\ Running("connection", "fetchRoom")
  /\ Ask([room |-> TRUE, after |-> NoMessage])
  /\ End("connection")
  /\ UNCHANGED <<archived, connected, joined, down, call, mamCatchupInProgress, update,
                 hasFetchedHistory, database, history, budget>>

RoomAccess ==
  /\ Running("connection", "roomAccess")
  /\ End("connection") /\ Return("rooms")
  /\ UNCHANGED <<archived, wire, mamCatchupInProgress, update, hasFetchedHistory,
                 database, history, budget>>

\* Fault: what is there already is stored again.
NeverDuplicate(m) == FALSE

\* isDuplicate, in the transaction that stores the message.
IsDuplicate(m) == m \in Named /\ stored[m] > 0
Store(m) == stored' = [stored EXCEPT ![m] = @ + 1]

Queued(m) ==
  \E q \in Queue : \E i \in DOMAIN blocks[q] :
    blocks[q][i].msg = m /\ blocks[q][i].kind \in {"message", "result"}

\* A message is on its way if the server has sent it, or will as an answer.
Sent(m) ==
  \/ \E i \in DOMAIN down : down[i].msg = m /\ down[i].kind \in {"message", "result"}
  \/ Queued(m)
Asked(m) ==
  \/ \E query \in queries : ~query.room /\ query.after < m
  \/ \E i \in DOMAIN down : down[i].kind = "last" /\ down[i].msg < m

\* The fetch of the session that has just begun is still to come.
FetchPending ==
  \E i \in DOMAIN blocks["connection"] : blocks["connection"][i].kind = "fetchHistory"

\* Why a message that the new date leaves behind is not stored.  The date is
\* that of an item, a message or an answer, and is read when it is saved.
Excuse(m, item) ==
  CASE (item.kind = "fin" /\ item.mark) \/ ended -> "room"
    [] m > item.msg -> "late"
    [] FetchPending -> "reset"
    [] Queued(m) -> "queued"
    [] OTHER -> "none"

SetDate(date, item) ==
  /\ lastHistoryFetchDate' = date
  /\ excuse' = [m \in Message |->
                  IF m <= date /\ m > DateToFetch /\ stored'[m] = 0
                    THEN Excuse(m, item) ELSE excuse[m]]

\* A message from the archive: stored unless it is there.
StoreForwarded ==
  /\ Running("connection", "result")
  /\ IF IsDuplicate(Current("connection").msg)
       THEN UNCHANGED stored
       ELSE Store(Current("connection").msg)
  /\ End("connection")
  /\ UNCHANGED <<archived, wire, call, mamCatchupInProgress, update, hasFetchedHistory,
                 lastHistoryFetchDate, history, budget>>

\* A message as it comes is stored unless it is a duplicate.
DropDuplicate ==
  /\ Running("connection", "message")
  /\ IsDuplicate(Current("connection").msg)
  /\ End("connection")
  /\ UNCHANGED <<archived, wire, call, mamCatchupInProgress, update, hasFetchedHistory,
                 database, history, budget>>

\* The transaction is not over when updateLastFetch asks the queue of
\* MessageStorage.
BeginUpdate ==
  /\ Running("connection", "message")
  /\ ~IsDuplicate(Current("connection").msg)
  /\ messageDate' = IF Current("connection").mark
                      THEN Current("connection").msg ELSE Date
  /\ CallSync("connection", "storage", "readInProgress")
  /\ UNCHANGED <<archived, wire, mamCatchupInProgress, fetching, hasFetchedHistory,
                 database, history, budget>>

Newer(date) == lastHistoryFetchDate # NoDate /\ date > lastHistoryFetchDate

\* Fault: the date is moved although the account is catching up.
StoreAlways ==
  /\ Running("connection", "message")
  /\ Returned("connection")
  /\ Store(Current("connection").msg)
  /\ IF Newer(messageDate)
       THEN SetDate(messageDate, Current("connection"))
       ELSE UNCHANGED <<lastHistoryFetchDate, excuse>>
  /\ End("connection")
  /\ fetching' = FALSE /\ messageDate' = NoDate
  /\ UNCHANGED <<archived, wire, mamCatchupInProgress, hasFetchedHistory, ended, budget>>

\* Only a date that is newer is saved, and none where there was none.
StoreMessage ==
  /\ Running("connection", "message")
  /\ Returned("connection")
  /\ Store(Current("connection").msg)
  /\ IF ~fetching /\ Newer(messageDate)
       THEN SetDate(messageDate, Current("connection"))
       ELSE UNCHANGED <<lastHistoryFetchDate, excuse>>
  /\ End("connection")
  /\ fetching' = FALSE /\ messageDate' = NoDate
  /\ UNCHANGED <<archived, wire, mamCatchupInProgress, hasFetchedHistory, ended, budget>>

\* The second part of didFinishReceivingMessagesWith
SaveFetchDate ==
  /\ Running("connection", "fin")
  /\ UNCHANGED stored
  /\ SetDate(Date, Current("connection"))
  /\ End("connection")
  /\ UNCHANGED <<archived, wire, call, mamCatchupInProgress, update, hasFetchedHistory,
                 ended, budget>>

-----------------------------------------------------------------------------
StorageStep ==
  \/ DidAuthenticate \/ HandleMessage \/ LookUpRoom \/ RoomLookedUp \/ DidFinish
  \/ SetInProgress \/ ReadInProgress

RoomsStep == UseDatabase \/ DatabaseUsed \/ FindRoom

ConnectionStep ==
  \/ BeginCatchup \/ FetchHistory \/ FetchRoom \/ RoomAccess
  \/ StoreForwarded \/ DropDuplicate \/ BeginUpdate \/ StoreMessage \/ SaveFetchDate

Receive == ReceiveForStorage \/ ReceiveSubject \/ ReceiveLast

Environment ==
  \/ Archive \/ JoinRoom \/ Connect \/ Disconnect \/ Relaunch \/ FetchRoomHistory
  \/ \E m \in Message : Resend(m)

AnswerSome == \E query \in queries, to \in 0..MaxMessage : Answer(query, to)

Next == Environment \/ AnswerSome \/ Receive \/ StorageStep \/ RoomsStep \/ ConnectionStep

Spec == Init /\ [][Next]_vars

\* The queues run what they can, the stream delivers, and the server answers.
Fairness ==
  /\ WF_vars(StorageStep) /\ WF_vars(RoomsStep) /\ WF_vars(ConnectionStep)
  /\ WF_vars(Receive) /\ WF_vars(AnswerSome)

FairSpec == Spec /\ Fairness

-----------------------------------------------------------------------------
Kind ==
  {"message", "result", "roomResult", "last", "fin", "subject", "didAuthenticate",
   "setInProgress", "readInProgress", "rejoin", "lookup", "fetchHistory", "fetchRoom",
   "roomAccess"}
Items == [kind : Kind, msg : 0..MaxMessage, mark : BOOLEAN]

\* The blocks that wait for another queue, by their own.
Callers ==
  [q \in Queue |-> CASE q = "storage" -> {"roomResult"}
                     [] q = "rooms" -> {"rejoin", "subject"}
                     [] q = "connection" -> {"fetchHistory", "message"}]

\* Only a block of a kind that calls another queue is in the middle of a call.
TypeOK ==
  /\ archived \in 0..MaxMessage /\ {connected, joined} \subseteq BOOLEAN
  /\ down \in Seq(Items)
  /\ queries \subseteq [room : BOOLEAN, after : 0..MaxMessage]
  /\ blocks \in [Queue -> Seq(Items)]
  /\ call \in [Queue -> {"none", "waiting", "returned"}]
  /\ \A q \in Queue : call[q] # "none" => \E kind \in Callers[q] : Running(q, kind)
  /\ {mamCatchupInProgress, fetching, hasFetchedHistory, ended} \subseteq BOOLEAN
  /\ {lastHistoryFetchDate, messageDate} \subseteq NoDate..MaxMessage
  /\ stored \in [Message -> Nat]
  /\ excuse \in [Message -> {"none", "late", "room", "reset", "queued"}]
  /\ budget \in [EnvStep -> Nat]

\* A message with an id of its own is in the database once, whichever ways and
\* however often it came.
StoredOnce == \A m \in Named : stored[m] <= 1

\* A message in the archive is in the database, or a fetch from
\* lastHistoryFetchDate will return it, or it is on its way.  The date leaves
\* others behind in four cases only: they came to the server after the message or
\* answer the date is saved for; the answer for a room ended the catch-up of the
\* account; a message of the last session is stored when the new one has reset
\* the flag and not yet begun its fetch; or the catch-up has ended and its last
\* messages wait behind the one the date is saved for.
NothingMissed ==
  \A m \in 1..archived :
    \/ stored[m] > 0
    \/ m > DateToFetch
    \/ Sent(m) \/ Asked(m)
    \/ excuse[m] # "none"

\* Each queue waits for the next: nothing moves any more.
Circle == \A q \in Queue : call[q] = "waiting"

\* On a connection that lasts, with a server that answers, a message of the
\* archive gets into the database, unless the date had gone past it or the three
\* queues wait for each other.
EventuallyStored ==
  \A m \in Message :
    (connected /\ m <= archived) ~>
      \/ stored[m] > 0
      \/ ~connected
      \/ excuse[m] # "none"
      \/ Circle
=============================================================================
