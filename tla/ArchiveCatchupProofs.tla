------------------------ MODULE ArchiveCatchupProofs ------------------------
(***************************************************************************)
(* Type correctness of ArchiveCatchup, that no message with an id of its   *)
(* own is stored twice, and that none is missed but for the reasons that   *)
(* excuse names, for any number of messages and any budget.                *)
(***************************************************************************)
EXTENDS ArchiveCatchup, SequenceTheorems, TLAPS

-----------------------------------------------------------------------------
(* Types, one part per variable or small group of variables.               *)

WireType ==
  /\ archived \in 0..MaxMessage /\ connected \in BOOLEAN /\ joined \in BOOLEAN
  /\ down \in Seq(Items)
QueriesType == queries \subseteq [room : BOOLEAN, after : 0..MaxMessage]
BlocksType == blocks \in [Queue -> Seq(Items)]
CallType == call \in [Queue -> {"none", "waiting", "returned"}]
CallersType == \A q \in Queue : call[q] # "none" => \E kind \in Callers[q] : Running(q, kind)
FlagsType ==
  /\ mamCatchupInProgress \in BOOLEAN /\ fetching \in BOOLEAN
  /\ hasFetchedHistory \in BOOLEAN /\ ended \in BOOLEAN
DatesType ==
  lastHistoryFetchDate \in NoDate..MaxMessage /\ messageDate \in NoDate..MaxMessage
StoredType == stored \in [Message -> Nat]
ExcuseType == excuse \in [Message -> {"none", "late", "room", "reset", "queued"}]
BudgetLeft == budget \in [EnvStep -> Nat]

Parts ==
  /\ WireType /\ QueriesType /\ BlocksType /\ CallType /\ CallersType /\ FlagsType
  /\ DatesType /\ StoredType /\ ExcuseType /\ BudgetLeft

\* The type invariant is the conjunction of its parts.
LEMMA TypeOKIsParts == TypeOK <=> Parts
BY DEF TypeOK, Parts, WireType, QueriesType, BlocksType, CallType, CallersType, FlagsType,
       DatesType, StoredType, ExcuseType, BudgetLeft

-----------------------------------------------------------------------------
(* The queues.                                                             *)

\* What takes an element from the front of a sequence, or puts some behind it,
\* leaves a sequence of the same kind of elements.
LEMMA SequencesKeepTypes ==
  ASSUME NEW S, NEW s \in Seq(S)
  PROVE  /\ \A e \in S : Append(s, e) \in Seq(S) /\ Append(s, e) # <<>>
         /\ \A e \in S : s # <<>> => Head(Append(s, e)) = Head(s)
         /\ \A t \in Seq(S) : s \o t \in Seq(S)
         /\ \A t \in Seq(S) : s # <<>> => s \o t # <<>> /\ Head(s \o t) = Head(s)
         /\ s # <<>> => Tail(s) \in Seq(S) /\ Head(s) \in S
<1>1. \A e \in S : Append(s, e) \in Seq(S) /\ Append(s, e) # <<>>
  BY AppendProperties
<1>2. \A e \in S : s # <<>> => Head(Append(s, e)) = Head(s)
  BY AppendProperties, EmptySeq, LenProperties
<1>3. \A t \in Seq(S) : s \o t \in Seq(S)
  BY ConcatProperties
<1>4. \A t \in Seq(S) : s # <<>> => s \o t # <<>> /\ Head(s \o t) = Head(s)
  BY ConcatProperties, EmptySeq, LenProperties
<1>5. s # <<>> => Tail(s) \in Seq(S) /\ Head(s) \in S
  BY HeadTailProperties
<1>6. QED
  BY <1>1, <1>2, <1>3, <1>4, <1>5

\* Sequences of one element and of two.
LEMMA ShortSequences ==
  ASSUME NEW S
  PROVE  \A e \in S : <<e>> \in Seq(S) /\ (\A f \in S : <<e, f>> \in Seq(S))
OBVIOUS

\* The messages.
LEMMA Messages ==
  /\ MaxMessage \in Nat /\ 0 \in 0..MaxMessage
  /\ Message \subseteq 0..MaxMessage /\ Named \subseteq Message
BY MessageType DEF MessageType, Message

\* Blocks and elements are of the types of the queues.
LEMMA ItemTypes ==
  /\ \A kind \in Kind : Plain(kind) \in Items
  /\ \A kind \in Kind, m \in 0..MaxMessage :
       Item(kind, m, TRUE) \in Items /\ Item(kind, m, FALSE) \in Items
BY Messages DEF Plain, Item, Items, NoMessage

\* A block that runs on q, and goes on running.
Keeps(q) == blocks[q] # <<>> => blocks'[q] # <<>> /\ Head(blocks'[q]) = Head(blocks[q])

\* A block put behind a queue leaves the fronts of all queues alone.
LEMMA AppendKeeps ==
  ASSUME BlocksType, NEW q \in Queue, NEW e \in Items,
         blocks' = [blocks EXCEPT ![q] = Append(@, e)]
  PROVE  BlocksType' /\ \A r \in Queue : Keeps(r)
<1>1. blocks[q] \in Seq(Items)
  BY DEF BlocksType
<1>2. /\ Append(blocks[q], e) \in Seq(Items) /\ Append(blocks[q], e) # <<>>
      /\ blocks[q] # <<>> => Head(Append(blocks[q], e)) = Head(blocks[q])
  BY <1>1, SequencesKeepTypes
<1>3. \A r \in Queue : blocks'[r] = IF r = q THEN Append(blocks[q], e) ELSE blocks[r]
  BY DEF BlocksType
<1>4. QED
  BY <1>2, <1>3 DEF BlocksType, Keeps

\* The end of a block changes only its own queue.
LEMMA EndKeeps ==
  ASSUME BlocksType, NEW q \in Queue, blocks[q] # <<>>, End(q)
  PROVE  BlocksType' /\ \A r \in Queue \ {q} : Keeps(r)
<1>1. blocks[q] \in Seq(Items)
  BY DEF BlocksType
<1>2. Tail(blocks[q]) \in Seq(Items)
  BY <1>1, SequencesKeepTypes
<1>3. \A r \in Queue : blocks'[r] = IF r = q THEN Tail(blocks[q]) ELSE blocks[r]
  BY DEF BlocksType, End
<1>4. QED
  BY <1>2, <1>3 DEF BlocksType, Keeps, End

\* The end of a block that puts blocks behind another queue keeps the fronts of the others.
LEMMA FinishKeeps ==
  ASSUME BlocksType, NEW q \in Queue, NEW other \in Queue, q # other, blocks[q] # <<>>,
         NEW s \in Seq(Items), Finish(q, other, s)
  PROVE  BlocksType' /\ \A r \in Queue \ {q} : Keeps(r)
<1>1. blocks[q] \in Seq(Items) /\ blocks[other] \in Seq(Items)
  BY DEF BlocksType
<1>2. /\ Tail(blocks[q]) \in Seq(Items) /\ blocks[other] \o s \in Seq(Items)
      /\ blocks[other] # <<>> =>
           blocks[other] \o s # <<>> /\ Head(blocks[other] \o s) = Head(blocks[other])
  BY <1>1, SequencesKeepTypes
<1>3. \A r \in Queue :
        blocks'[r] = IF r = q THEN Tail(blocks[q])
                     ELSE IF r = other THEN blocks[other] \o s ELSE blocks[r]
  BY DEF BlocksType, Finish
<1>4. QED
  BY <1>2, <1>3 DEF BlocksType, Keeps, Finish

\* A call of another queue keeps the types and the fronts of the queues.
LEMMA CallKeeps ==
  ASSUME BlocksType, CallType, NEW q \in Queue, NEW other \in Queue, NEW kind \in Kind,
         CallSync(q, other, kind)
  PROVE  BlocksType' /\ CallType' /\ \A r \in Queue : Keeps(r)
<1>1. Plain(kind) \in Items
  BY ItemTypes
<1>2. BlocksType' /\ \A r \in Queue : Keeps(r)
  BY <1>1, AppendKeeps DEF CallSync
<1>3. QED
  BY <1>2 DEF CallSync, CallType

-----------------------------------------------------------------------------
(* Type correctness.                                                       *)

\* The types hold in the beginning.
LEMMA InitTypes == Init => Parts
<1> SUFFICES ASSUME Init PROVE Parts
  OBVIOUS
<1>1. <<>> \in Seq(Items)
  BY EmptySeq
<1>2. WireType /\ QueriesType /\ BlocksType /\ CallType
  BY <1>1 DEF Init, WireType, QueriesType, BlocksType, CallType
<1>3. CallersType
  BY DEF Init, CallersType
<1>4. DatesType
  BY Messages DEF Init, DatesType, NoDate
<1>5. FlagsType /\ StoredType /\ ExcuseType /\ BudgetLeft
  BY BudgetType DEF Init, FlagsType, StoredType, ExcuseType, BudgetLeft
<1>6. QED
  BY <1>2, <1>3, <1>4, <1>5 DEF Parts

\* No block that does not call is in the middle of a call.
LEMMA NotCalling ==
  ASSUME CallType, CallersType, NEW q \in Queue, NEW kind \in Kind \ Callers[q],
         Running(q, kind)
  PROVE  call[q] = "none"
BY DEF CallersType, Running

\* A step of the environment leaves a budget.
LEMMA SpendingTypes == BudgetLeft /\ (\E step \in EnvStep : Spend(step)) => BudgetLeft'
BY DEF BudgetLeft, Spend, EnvStep

\* What is left alone keeps its type.
LEMMA OthersKept ==
  ASSUME Parts
  PROVE  /\ UNCHANGED <<archived, connected, joined, down>> => WireType'
         /\ UNCHANGED queries => QueriesType'
         /\ UNCHANGED blocks => BlocksType'
         /\ UNCHANGED call => CallType'
         /\ UNCHANGED <<blocks, call>> => CallersType'
         /\ UNCHANGED <<mamCatchupInProgress, fetching, hasFetchedHistory, ended>> => FlagsType'
         /\ UNCHANGED <<lastHistoryFetchDate, messageDate>> => DatesType'
         /\ UNCHANGED stored => StoredType'
         /\ UNCHANGED excuse => ExcuseType'
         /\ UNCHANGED budget => BudgetLeft'
BY DEF Parts, WireType, QueriesType, BlocksType, CallType, CallersType, Running, FlagsType,
       DatesType, StoredType, ExcuseType, BudgetLeft

\* The server, and what the environment does.
LEMMA ServerTypes ==
  Parts /\ (Archive \/ JoinRoom \/ AnswerSome \/ \E m \in Message : Resend(m)) => Parts'
<1> SUFFICES ASSUME Parts,
                    Archive \/ JoinRoom \/ AnswerSome \/ \E m \in Message : Resend(m)
             PROVE  Parts'
  OBVIOUS
<1> USE DEF Parts
<1>1. down' \in Seq(Items) /\ archived' \in 0..MaxMessage
  <2>1. CASE Archive
    <3>1. archived' \in 0..MaxMessage
      BY <2>1, Messages DEF Archive, WireType
    <3>2. Item("message", archived', FALSE) \in Items
      BY <3>1, ItemTypes DEF Kind
    <3>3. QED
      BY <2>1, <3>1, <3>2, SequencesKeepTypes DEF Archive, WireType
  <2>2. CASE JoinRoom
    <3>1. Plain("subject") \in Items
      BY ItemTypes DEF Kind
    <3>2. QED
      BY <2>2, <3>1, SequencesKeepTypes DEF JoinRoom, WireType
  <2>3. ASSUME NEW query \in queries, NEW to \in 0..MaxMessage, Answer(query, to)
        PROVE  down' \in Seq(Items) /\ archived' = archived
    <3>1. query.after \in 0..MaxMessage
      BY DEF QueriesType
    <3>2. CASE ~query.room /\ to \in query.after..archived
      <4> DEFINE item(i) == Item("result", query.after + i, FALSE)
      <4>1. to - query.after \in Nat
        BY <3>1, <3>2, Messages DEF WireType
      <4>2. \A i \in 1..(to - query.after) : item(i) \in Items
        <5>1. \A i \in 1..(to - query.after) : query.after + i \in 0..MaxMessage
          BY <3>1, <4>1, Messages
        <5>2. QED
          BY <5>1, ItemTypes DEF Kind
      <4>3. Page(query.after, to) \in Seq(Items)
        <5> HIDE DEF item
        <5>1. [i \in 1..(to - query.after) |-> item(i)] \in Seq(Items)
          BY <4>1, <4>2, IsASeq
        <5>2. QED
          BY <5>1 DEF Page, item
      <4>4. \A kind \in {"fin", "last"} : <<Item(kind, to, FALSE)>> \in Seq(Items)
        <5>1. \A kind \in {"fin", "last"} : Item(kind, to, FALSE) \in Items
          BY ItemTypes DEF Kind
        <5>2. QED
          BY <5>1, ShortSequences
      <4>5. down \o Page(query.after, to) \in Seq(Items)
        BY <4>3, SequencesKeepTypes DEF WireType
      <4>6. \E kind \in {"fin", "last"} :
              down' = (down \o Page(query.after, to)) \o <<Item(kind, to, FALSE)>>
        BY <2>3, <3>2 DEF Answer
      <4>7. PICK kind \in {"fin", "last"} :
              down' = (down \o Page(query.after, to)) \o <<Item(kind, to, FALSE)>>
        BY <4>6
      <4>8. QED
        BY <2>3, <4>4, <4>5, <4>7, SequencesKeepTypes DEF Answer
    <3>3. CASE query.room
      <4>1. <<Plain("roomResult"), Item("fin", NoMessage, TRUE)>> \in Seq(Items)
        <5>1. Plain("roomResult") \in Items /\ Item("fin", NoMessage, TRUE) \in Items
          BY ItemTypes, Messages DEF Kind, NoMessage
        <5>2. QED
          BY <5>1, ShortSequences
      <4>2. /\ down' = down \o <<Plain("roomResult"), Item("fin", NoMessage, TRUE)>>
            /\ archived' = archived
        BY <2>3, <3>3 DEF Answer
      <4>3. QED
        BY <4>1, <4>2, SequencesKeepTypes DEF WireType
    <3>4. QED
      BY <2>3, <3>2, <3>3 DEF Answer
  <2>4. ASSUME NEW m \in Message, Resend(m)
        PROVE  down' \in Seq(Items) /\ archived' = archived
    <3>1. Item("message", m, TRUE) \in Items
      BY ItemTypes, Messages DEF Kind, Message
    <3>2. QED
      BY <2>4, <3>1, SequencesKeepTypes DEF Resend, WireType
  <2>5. QED
    BY <2>1, <2>2, <2>3, <2>4 DEF AnswerSome, WireType, JoinRoom
<1>2. WireType'
  BY <1>1 DEF WireType, Archive, JoinRoom, AnswerSome, Answer, Resend
<1>3. QueriesType'
  BY DEF QueriesType, Archive, JoinRoom, AnswerSome, Answer, Resend
<1>4. UNCHANGED <<client, database, history>>
  BY DEF Archive, JoinRoom, AnswerSome, Answer, Resend
<1>5. BudgetLeft'
  <2>1. budget' = budget \/ \E step \in EnvStep : Spend(step)
    BY DEF Archive, JoinRoom, AnswerSome, Answer, Resend, EnvStep
  <2>2. QED
    BY <2>1, SpendingTypes DEF BudgetLeft
<1>6. QED
  BY <1>2, <1>3, <1>4, <1>5, OthersKept DEF Parts, client, database, history, update

\* What stands on its way to the client is an element, and so is a block that
\* runs.
LEMMA CurrentTypes ==
  ASSUME Parts
  PROVE  /\ down # <<>> => Head(down) \in Items /\ Tail(down) \in Seq(Items)
         /\ \A q \in Queue : blocks[q] # <<>> => Current(q) \in Items
<1>1. down # <<>> => Head(down) \in Items /\ Tail(down) \in Seq(Items)
  BY SequencesKeepTypes DEF Parts, WireType
<1>2. ASSUME NEW q \in Queue, blocks[q] # <<>> PROVE Current(q) \in Items
  <2>1. blocks[q] \in Seq(Items)
    BY DEF Parts, BlocksType
  <2>2. QED
    BY <1>2, <2>1, SequencesKeepTypes DEF Current
<1>3. QED
  BY <1>1, <1>2

QueuesType == BlocksType /\ CallType /\ CallersType

\* A block is put behind the others.
LEMMA Appends ==
  ASSUME QueuesType, NEW q \in Queue, NEW e \in Items, UNCHANGED call,
         blocks' = [blocks EXCEPT ![q] = Append(@, e)]
  PROVE  QueuesType'
<1>1. BlocksType' /\ \A r \in Queue : Keeps(r)
  BY AppendKeeps DEF QueuesType
<1>2. CallersType'
  <2>1. \A r \in Queue : \/ call'[r] = "none"
                         \/ Keeps(r) /\ \E kind \in Callers[r] : Running(r, kind)
    BY <1>1 DEF QueuesType, CallersType
  <2>2. QED
    BY <2>1 DEF CallersType, Keeps, Running
<1>3. QED
  BY <1>1, <1>2 DEF QueuesType, CallType

\* A block ends that is not in the middle of a call, and may have been a call of
\* another queue.
LEMMA EndsFree ==
  ASSUME QueuesType, NEW q \in Queue, blocks[q] # <<>>, call[q] = "none",
         End(q) \/ \E other \in Queue \ {q}, s \in Seq(Items) : Finish(q, other, s),
         UNCHANGED call \/ \E r \in Queue \ {q} : Return(r)
  PROVE  QueuesType'
<1>1. BlocksType' /\ \A r \in Queue \ {q} : Keeps(r)
  BY EndKeeps, FinishKeeps DEF QueuesType
<1>2. /\ CallType' /\ call'[q] = "none"
      /\ \A r \in Queue : call'[r] # "none" => call[r] # "none"
  BY DEF QueuesType, CallType, Return
<1>3. CallersType'
  <2>1. \A r \in Queue : \/ call'[r] = "none"
                         \/ Keeps(r) /\ \E k \in Callers[r] : Running(r, k)
    BY <1>1, <1>2 DEF QueuesType, CallersType
  <2>2. QED
    BY <2>1 DEF CallersType, Keeps, Running
<1>4. QED
  BY <1>1, <1>2, <1>3 DEF QueuesType

\* A block of no kind that calls is not.
LEMMA Ends ==
  ASSUME QueuesType, NEW q \in Queue, NEW kind \in Kind \ Callers[q], Running(q, kind),
         End(q) \/ \E other \in Queue \ {q}, s \in Seq(Items) : Finish(q, other, s),
         UNCHANGED call \/ \E r \in Queue \ {q} : Return(r)
  PROVE  QueuesType'
<1>1. call[q] = "none" /\ blocks[q] # <<>>
  BY NotCalling DEF QueuesType, Running
<1>2. QED
  BY <1>1, EndsFree

\* A block calls another queue, and is of a kind that does.
LEMMA Calls ==
  ASSUME QueuesType, NEW q \in Queue, NEW other \in Queue, NEW called \in Kind,
         CallSync(q, other, called), \E kind \in Callers[q] : Running(q, kind)
  PROVE  QueuesType'
<1>1. BlocksType' /\ CallType' /\ \A r \in Queue : Keeps(r)
  BY CallKeeps DEF QueuesType
<1>2. \A r \in Queue : \/ call'[r] = "none"
                       \/ Keeps(r) /\ \E kind \in Callers[r] : Running(r, kind)
  BY <1>1 DEF QueuesType, CallType, CallersType, CallSync
<1>3. CallersType'
  BY <1>2 DEF CallersType, Keeps, Running
<1>4. QED
  BY <1>1, <1>3 DEF QueuesType

\* A block ends whose call has returned.
LEMMA Returns ==
  ASSUME QueuesType, NEW q \in Queue, blocks[q] # <<>>, Returned(q), End(q)
  PROVE  QueuesType'
<1>1. BlocksType' /\ \A r \in Queue \ {q} : Keeps(r)
  BY EndKeeps DEF QueuesType
<1>2. /\ CallType' /\ call'[q] = "none"
      /\ \A r \in Queue : call'[r] # "none" => call[r] # "none"
  BY DEF QueuesType, CallType, Returned
<1>3. CallersType'
  <2>1. \A r \in Queue : \/ call'[r] = "none"
                         \/ Keeps(r) /\ \E k \in Callers[r] : Running(r, k)
    BY <1>1, <1>2 DEF QueuesType, CallersType
  <2>2. QED
    BY <2>1 DEF CallersType, Keeps, Running
<1>4. QED
  BY <1>1, <1>2, <1>3 DEF QueuesType

\* The connection comes and goes, the process ends and starts again.
LEMMA ConnectionTypes == Parts /\ (Connect \/ Disconnect \/ Relaunch) => Parts'
<1> SUFFICES ASSUME Parts, Connect \/ Disconnect \/ Relaunch PROVE Parts'
  OBVIOUS
<1>1. CASE Connect
  <2>1. /\ blocks["storage"] \in Seq(Items) /\ blocks["rooms"] \in Seq(Items)
        /\ Plain("didAuthenticate") \in Items /\ Plain("rejoin") \in Items
    BY ItemTypes DEF Parts, BlocksType, Queue, Kind
  <2>2. /\ Append(blocks["storage"], Plain("didAuthenticate")) \in Seq(Items)
        /\ Append(blocks["rooms"], Plain("rejoin")) \in Seq(Items)
        /\ Append(blocks["storage"], Plain("didAuthenticate")) # <<>>
        /\ Append(blocks["rooms"], Plain("rejoin")) # <<>>
        /\ blocks["storage"] # <<>> =>
             Head(Append(blocks["storage"], Plain("didAuthenticate"))) = Head(blocks["storage"])
        /\ blocks["rooms"] # <<>> =>
             Head(Append(blocks["rooms"], Plain("rejoin"))) = Head(blocks["rooms"])
    BY <2>1, SequencesKeepTypes
  <2>3. blocks' = [blocks EXCEPT !["storage"] = Append(@, Plain("didAuthenticate")),
                                 !["rooms"] = Append(@, Plain("rejoin"))]
    BY <1>1 DEF Connect
  <2>4. /\ BlocksType'
        /\ \A q \in Queue : Keeps(q)
    BY <2>2, <2>3 DEF Parts, BlocksType, Queue, Keeps
  <2>5. CallersType'
    BY <1>1, <2>4 DEF Parts, Connect, CallersType, Keeps, Running
  <2>6. WireType'
    BY <1>1 DEF Parts, Connect, WireType
  <2>7. UNCHANGED <<queries, call, mamCatchupInProgress, fetching, messageDate,
                    hasFetchedHistory, ended, lastHistoryFetchDate, stored, excuse, budget>>
    BY <1>1 DEF Connect, update, database
  <2>8. QED
    BY <2>4, <2>5, <2>6, <2>7, OthersKept DEF Parts
<1>2. CASE Disconnect
  <2>1. WireType' /\ QueriesType'
    BY <1>2, EmptySeq DEF Parts, Disconnect, WireType, QueriesType
  <2>2. UNCHANGED <<client, database, history>> /\ \E step \in EnvStep : Spend(step)
    BY <1>2 DEF Disconnect, EnvStep
  <2>3. BudgetLeft'
    BY <2>2, SpendingTypes DEF Parts
  <2>4. QED
    BY <2>1, <2>2, <2>3, OthersKept DEF Parts, client, database, history, update
<1>3. CASE Relaunch
  <2>1. WireType' /\ QueriesType' /\ BlocksType' /\ CallType'
    BY <1>3, EmptySeq DEF Parts, Relaunch, WireType, QueriesType, BlocksType, CallType
  <2>2. CallersType' /\ FlagsType'
    BY <1>3 DEF Parts, Relaunch, CallersType, FlagsType
  <2>3. DatesType'
    BY <1>3, Messages DEF Parts, Relaunch, DatesType, NoDate, database
  <2>4. UNCHANGED <<stored, excuse>> /\ \E step \in EnvStep : Spend(step)
    BY <1>3 DEF Relaunch, EnvStep, database
  <2>5. BudgetLeft'
    BY <2>4, SpendingTypes DEF Parts
  <2>6. QED
    BY <2>1, <2>2, <2>3, <2>4, <2>5, OthersKept DEF Parts
<1>4. QED
  BY <1>1, <1>2, <1>3

\* What the client receives, and the fetch of the history of a room.
LEMMA ReceiveTypes == Parts /\ (Receive \/ FetchRoomHistory) => Parts'
<1> SUFFICES ASSUME Parts, Receive \/ FetchRoomHistory PROVE Parts'
  OBVIOUS
<1> QueuesType
  BY DEF Parts, QueuesType
<1>1. CASE ReceiveForStorage \/ ReceiveSubject
  <2>1. down # <<>> /\ down' = Tail(down)
    BY <1>1 DEF ReceiveForStorage, ReceiveSubject, Received
  <2>2. /\ UNCHANGED <<archived, connected, joined, queries, call, mamCatchupInProgress,
                       fetching, messageDate, hasFetchedHistory, lastHistoryFetchDate,
                       stored, ended, excuse, budget>>
        /\ \E q \in Queue : blocks' = [blocks EXCEPT ![q] = Append(@, Head(down))]
    BY <1>1 DEF ReceiveForStorage, ReceiveSubject, Queue, update, database, history
  <2>3. Head(down) \in Items /\ Tail(down) \in Seq(Items)
    BY <2>1, CurrentTypes
  <2>4. QueuesType'
    BY <2>2, <2>3, Appends
  <2>5. WireType'
    BY <2>1, <2>2, <2>3 DEF Parts, WireType
  <2>6. QED
    BY <2>2, <2>4, <2>5, OthersKept DEF Parts, QueuesType
<1>2. CASE ReceiveLast
  <2>1. down # <<>> /\ down' = Tail(down)
    BY <1>2 DEF ReceiveLast, Received
  <2>2. Head(down) \in Items /\ Tail(down) \in Seq(Items)
    BY <2>1, CurrentTypes
  <2>3. WireType'
    BY <1>2, <2>1, <2>2 DEF Parts, WireType, ReceiveLast
  <2>4. QueriesType'
    <3>1. Head(down).msg \in 0..MaxMessage
      BY <2>2 DEF Items
    <3>2. [room |-> FALSE, after |-> Head(down).msg] \in [room : BOOLEAN, after : 0..MaxMessage]
      BY <3>1
    <3>3. queries' = queries \cup {[room |-> FALSE, after |-> Head(down).msg]}
      BY <1>2 DEF ReceiveLast
    <3>4. QED
      BY <3>2, <3>3 DEF Parts, QueriesType
  <2>5. UNCHANGED <<client, database, history, budget>>
    BY <1>2 DEF ReceiveLast
  <2>6. QED
    BY <2>3, <2>4, <2>5, OthersKept DEF Parts, client, update, database, history
<1>3. CASE FetchRoomHistory
  <2>1. /\ UNCHANGED <<archived, connected, joined, down, queries, call, mamCatchupInProgress,
                       fetching, messageDate, lastHistoryFetchDate, stored, ended, excuse,
                       budget>>
        /\ blocks' = [blocks EXCEPT !["connection"] = Append(@, Plain("fetchRoom"))]
        /\ hasFetchedHistory' = TRUE
    BY <1>3 DEF FetchRoomHistory, wire, update, database, history
  <2>2. Plain("fetchRoom") \in Items /\ "connection" \in Queue
    BY ItemTypes DEF Kind, Queue
  <2>3. QueuesType'
    BY <2>1, <2>2, Appends
  <2>4. FlagsType'
    BY <2>1 DEF Parts, FlagsType
  <2>5. QED
    BY <2>1, <2>3, <2>4, OthersKept DEF Parts, QueuesType
<1>4. QED
  BY <1>1, <1>2, <1>3 DEF Receive

\* The blocks of MessageStorage and of the room manager.
LEMMA StorageTypes == Parts /\ (StorageStep \/ RoomsStep) => Parts'
<1> SUFFICES ASSUME Parts, StorageStep \/ RoomsStep PROVE Parts'
  OBVIOUS
<1> QueuesType
  BY DEF Parts, QueuesType
<1>1. /\ UNCHANGED <<archived, wire, messageDate, hasFetchedHistory, database, excuse, budget>>
      /\ mamCatchupInProgress' \in BOOLEAN /\ fetching' \in BOOLEAN /\ ended' \in BOOLEAN
  BY DEF Parts, FlagsType, StorageStep, RoomsStep, DidAuthenticate, HandleMessage, LookUpRoom,
         RoomLookedUp, DidFinish, SetInProgress, ReadInProgress, UseDatabase, DatabaseUsed,
         FindRoom, update, history
<1>2. QueuesType'
  <2> "storage" \in Queue /\ "rooms" \in Queue \ {"storage"}
      /\ "connection" \in Queue \ {"storage", "rooms"}
    BY DEF Queue
  <2>1. CASE DidAuthenticate
    <3>1. "didAuthenticate" \in Kind \ Callers["storage"] /\ Plain("fetchHistory") \in Items
      BY ItemTypes DEF Kind, Callers, Queue
    <3>2. <<Plain("fetchHistory")>> \in Seq(Items)
      BY <3>1, ShortSequences
    <3>3. QED
      BY <2>1, <3>1, <3>2, Ends DEF DidAuthenticate
  <2>2. CASE HandleMessage
    <3>1. PICK kind \in {"message", "result"} : Running("storage", kind)
      BY <2>2 DEF HandleMessage
    <3>2. kind \in Kind \ Callers["storage"] /\ Current("storage") \in Items
      BY <3>1, CurrentTypes DEF Kind, Callers, Queue, Running
    <3>3. <<Current("storage")>> \in Seq(Items)
      BY <3>2, ShortSequences
    <3>4. QED
      BY <2>2, <3>1, <3>2, <3>3, Ends DEF HandleMessage
  <2>3. CASE LookUpRoom
    <3>1. "lookup" \in Kind /\ "roomResult" \in Callers["storage"]
      BY DEF Kind, Callers, Queue
    <3>2. QED
      BY <2>3, <3>1, Calls DEF LookUpRoom
  <2>4. CASE RoomLookedUp
    BY <2>4, Returns DEF RoomLookedUp, Running
  <2>5. CASE DidFinish
    <3>1. "fin" \in Kind \ Callers["storage"] /\ Current("storage") \in Items
      BY <2>5, CurrentTypes DEF DidFinish, Kind, Callers, Queue, Running
    <3>2. <<Current("storage")>> \in Seq(Items)
      BY <3>1, ShortSequences
    <3>3. QED
      BY <2>5, <3>1, <3>2, Ends DEF DidFinish
  <2>6. CASE SetInProgress
    <3>1. "setInProgress" \in Kind \ Callers["storage"]
      BY DEF Kind, Callers, Queue
    <3>2. QED
      BY <2>6, <3>1, Ends DEF SetInProgress
  <2>7. CASE ReadInProgress
    <3>1. "readInProgress" \in Kind \ Callers["storage"]
      BY DEF Kind, Callers, Queue
    <3>2. QED
      BY <2>7, <3>1, Ends DEF ReadInProgress
  <2>8. CASE UseDatabase
    <3>1. "roomAccess" \in Kind /\ Callers["rooms"] = {"rejoin", "subject"}
      BY DEF Kind, Callers, Queue
    <3>2. QED
      BY <2>8, <3>1, Calls DEF UseDatabase
  <2>9. CASE DatabaseUsed
    BY <2>9, Returns DEF DatabaseUsed, Running
  <2>10. CASE FindRoom
    <3>1. "lookup" \in Kind \ Callers["rooms"] /\ "storage" \in Queue \ {"rooms"}
      BY DEF Kind, Callers, Queue
    <3>2. QED
      BY <2>10, <3>1, Ends DEF FindRoom
  <2>11. QED
    BY <2>1, <2>2, <2>3, <2>4, <2>5, <2>6, <2>7, <2>8, <2>9, <2>10 DEF StorageStep, RoomsStep
<1>3. FlagsType'
  BY <1>1 DEF Parts, FlagsType
<1>4. QED
  BY <1>1, <1>2, <1>3, OthersKept DEF Parts, QueuesType, wire, database

\* A message that is about to be stored is not a duplicate: nothing else is
\* stored while its block waits for MessageStorage.
Deciding ==
  call["connection"] # "none" /\ Running("connection", "message")
    => ~IsDuplicate(Current("connection").msg)

\* The blocks of the connection to the database: the queues first, then the
\* values.
LEMMA ConnectionQueues == Parts /\ Deciding /\ ConnectionStep => QueuesType'
<1> SUFFICES ASSUME Parts, Deciding, ConnectionStep PROVE QueuesType'
  OBVIOUS
<1> QueuesType
  BY DEF Parts, QueuesType
<1> "connection" \in Queue /\ "rooms" \in Queue \ {"connection"} /\ "storage" \in Queue
  BY DEF Queue
<1>1. /\ {"fetchRoom", "roomAccess", "result", "fin"} \subseteq Kind \ Callers["connection"]
      /\ {"setInProgress", "readInProgress"} \subseteq Kind
      /\ {"fetchHistory", "message"} = Callers["connection"]
  BY DEF Kind, Callers, Queue
<1>2. CASE BeginCatchup
  BY <1>1, <1>2, Calls DEF BeginCatchup
<1>3. CASE FetchHistory
  BY <1>3, Returns DEF FetchHistory, Running
<1>4. CASE FetchRoom
  BY <1>1, <1>4, Ends DEF FetchRoom
<1>5. CASE RoomAccess
  BY <1>1, <1>5, Ends DEF RoomAccess
<1>6. CASE StoreForwarded
  BY <1>1, <1>6, Ends DEF StoreForwarded
<1>7. CASE DropDuplicate
  BY <1>7, EndsFree DEF DropDuplicate, Deciding, Running
<1>8. CASE BeginUpdate
  BY <1>1, <1>8, Calls DEF BeginUpdate
<1>9. CASE StoreMessage
  BY <1>9, Returns DEF StoreMessage, Running
<1>10. CASE SaveFetchDate
  BY <1>1, <1>10, Ends DEF SaveFetchDate
<1>11. QED
  BY <1>2, <1>3, <1>4, <1>5, <1>6, <1>7, <1>8, <1>9, <1>10 DEF ConnectionStep

\* A step of the connection that keeps the types of the queues keeps all of them.
LEMMA ConnectionValues ==
  ASSUME Parts, ConnectionStep, QueuesType'
  PROVE  Parts'
<1>1. /\ UNCHANGED <<archived, connected, joined, down, mamCatchupInProgress, hasFetchedHistory,
                     ended, budget>>
      /\ fetching' \in {fetching, FALSE}
  BY DEF ConnectionStep, BeginCatchup, FetchHistory, FetchRoom, RoomAccess, StoreForwarded,
         DropDuplicate, BeginUpdate, StoreMessage, SaveFetchDate, wire, update, database, history
<1>2. WireType' /\ FlagsType' /\ BudgetLeft'
  BY <1>1 DEF Parts, WireType, FlagsType, BudgetLeft
<1>3. QueriesType'
  <2>1. CASE FetchHistory
    <3>1. DateToFetch \in 0..MaxMessage
      BY Messages DEF Parts, DatesType, DateToFetch, NoDate
    <3>2. [room |-> FALSE, after |-> DateToFetch] \in [room : BOOLEAN, after : 0..MaxMessage]
      BY <3>1
    <3>3. QED
      BY <2>1, <3>2 DEF Parts, QueriesType, FetchHistory, Ask
  <2>2. CASE FetchRoom
    <3>1. [room |-> TRUE, after |-> NoMessage] \in [room : BOOLEAN, after : 0..MaxMessage]
      BY Messages DEF NoMessage
    <3>2. QED
      BY <2>2, <3>1 DEF Parts, QueriesType, FetchRoom, Ask
  <2>3. CASE UNCHANGED queries
    BY <2>3, OthersKept
  <2>4. QED
    BY <2>1, <2>2, <2>3 DEF ConnectionStep, BeginCatchup, RoomAccess, StoreForwarded,
         DropDuplicate, BeginUpdate, StoreMessage, SaveFetchDate, wire
<1>4. /\ Running("connection", "message") => Current("connection") \in Items
      /\ Running("connection", "result") => Current("connection") \in Items
      /\ archived \in NoDate..MaxMessage
  BY CurrentTypes, Messages DEF Running, Queue, Parts, WireType, NoDate
<1>5. DatesType'
  <2>1. CASE BeginUpdate
    <3>1. messageDate' \in NoDate..MaxMessage
      <4>1. messageDate' \in {Current("connection").msg, archived}
        BY <2>1 DEF BeginUpdate, Date
      <4>2. Current("connection").msg \in 0..MaxMessage
        BY <1>4, <2>1 DEF BeginUpdate, Items
      <4>3. QED
        BY <1>4, <4>1, <4>2, Messages DEF NoDate
    <3>2. QED
      BY <2>1, <3>1 DEF Parts, DatesType, BeginUpdate, database
  <2>2. CASE StoreMessage
    BY <2>2, Messages DEF Parts, DatesType, StoreMessage, SetDate, NoDate
  <2>3. CASE SaveFetchDate
    BY <1>4, <2>3 DEF Parts, DatesType, SaveFetchDate, SetDate, Date, update
  <2>4. CASE UNCHANGED <<lastHistoryFetchDate, messageDate>>
    BY <2>4, OthersKept
  <2>5. QED
    BY <2>1, <2>2, <2>3, <2>4 DEF ConnectionStep, BeginCatchup, FetchHistory, FetchRoom,
         RoomAccess, StoreForwarded, DropDuplicate, update, database
<1>6. StoredType'
  BY DEF Parts, StoredType, ConnectionStep, BeginCatchup, FetchHistory, FetchRoom, RoomAccess,
         StoreForwarded, DropDuplicate, BeginUpdate, StoreMessage, SaveFetchDate, Store, database
<1>7. ExcuseType'
  <2>1. ASSUME NEW date, NEW item, SetDate(date, item) PROVE ExcuseType'
    BY <2>1 DEF Parts, ExcuseType, SetDate, Excuse
  <2>2. UNCHANGED excuse \/ \E date, item : SetDate(date, item)
    BY DEF ConnectionStep, BeginCatchup, FetchHistory, FetchRoom, RoomAccess, StoreForwarded,
           DropDuplicate, BeginUpdate, StoreMessage, SaveFetchDate, history
  <2>3. QED
    BY <2>1, <2>2, OthersKept
<1>8. QED
  BY <1>2, <1>3, <1>5, <1>6, <1>7 DEF Parts, QueuesType

-----------------------------------------------------------------------------
(* No message is stored twice.                                             *)

\* What the block of a message decided stands until it ends.
LEMMA DecidingKept == Parts /\ Deciding /\ [Next]_vars => Deciding'
<1> SUFFICES ASSUME Parts, Deciding, [Next]_vars PROVE Deciding'
  OBVIOUS
<1> QueuesType /\ "connection" \in Queue
  BY DEF Parts, QueuesType, Queue
<1>1. CASE /\ Keeps("connection") /\ UNCHANGED stored
           /\ call'["connection"] # "none" => call["connection"] # "none"
  <2>1. call["connection"] # "none" => blocks["connection"] # <<>>
    BY DEF QueuesType, CallersType, Running
  <2>2. QED
    BY <1>1, <2>1 DEF Deciding, Keeps, Running, Current, IsDuplicate
<1>2. CASE call'["connection"] = "none"
  BY <1>2 DEF Deciding
<1>3. CASE BeginUpdate
  <2>1. \A r \in Queue : Keeps(r)
    BY <1>3, CallKeeps DEF BeginUpdate, QueuesType, Kind, Queue
  <2>2. QED
    BY <1>3, <2>1 DEF BeginUpdate, Deciding, Keeps, Running, Current, IsDuplicate, database
<1>4. CASE BeginCatchup
  <2>1. \A r \in Queue : Keeps(r)
    BY <1>4, CallKeeps DEF BeginCatchup, QueuesType, Kind, Queue
  <2>2. QED
    BY <1>4, <2>1 DEF BeginCatchup, Deciding, Keeps, Running
<1>5. CASE FetchHistory \/ StoreMessage
  BY <1>2, <1>5 DEF FetchHistory, StoreMessage, Returned, QueuesType, CallType
<1>6. CASE FetchRoom \/ RoomAccess \/ StoreForwarded \/ DropDuplicate \/ SaveFetchDate
  <2>1. {"fetchRoom", "roomAccess", "result", "fin"} \subseteq Kind \ Callers["connection"]
    BY DEF Kind, Callers, Queue
  <2>2. call["connection"] = "none"
    BY <1>6, <2>1, NotCalling DEF FetchRoom, RoomAccess, StoreForwarded, DropDuplicate,
         SaveFetchDate, Deciding, QueuesType
  <2>3. call'["connection"] = "none"
    BY <1>6, <2>2 DEF FetchRoom, RoomAccess, StoreForwarded, DropDuplicate, SaveFetchDate,
         Return, QueuesType, CallType, Queue
  <2>4. QED
    BY <1>2, <2>3
<1>7. CASE StorageStep \/ RoomsStep
  <2>1. UNCHANGED stored
    BY <1>7 DEF StorageStep, RoomsStep, DidAuthenticate, HandleMessage, LookUpRoom,
         RoomLookedUp, DidFinish, SetInProgress, ReadInProgress, UseDatabase, DatabaseUsed,
         FindRoom, database
  <2>2. call'["connection"] # "none" => call["connection"] # "none"
    BY <1>7 DEF StorageStep, RoomsStep, DidAuthenticate, HandleMessage, LookUpRoom,
         RoomLookedUp, DidFinish, SetInProgress, ReadInProgress, UseDatabase, DatabaseUsed,
         FindRoom, CallSync, Return, Returned, QueuesType, CallType
  <2>3. Keeps("connection")
    <3>1. CASE LookUpRoom
      BY <3>1, CallKeeps DEF LookUpRoom, QueuesType, Kind, Queue
    <3>2. CASE UseDatabase
      BY <3>2, CallKeeps DEF UseDatabase, QueuesType, Kind, Queue
    <3>3. CASE \E q \in Queue \ {"connection"} : blocks[q] # <<>> /\ End(q)
      BY <3>3, EndKeeps DEF QueuesType
    <3>4. CASE \E s \in Seq(Items) :
                 blocks["storage"] # <<>> /\ Finish("storage", "connection", s)
      BY <3>4, FinishKeeps DEF QueuesType, Queue
    <3>5. /\ <<Plain("fetchHistory")>> \in Seq(Items)
          /\ blocks["storage"] # <<>> => <<Current("storage")>> \in Seq(Items)
      BY ItemTypes, CurrentTypes, ShortSequences DEF Kind, Queue
    <3>6. QED
      BY <1>7, <3>1, <3>2, <3>3, <3>4, <3>5
         DEF StorageStep, RoomsStep, DidAuthenticate, HandleMessage, RoomLookedUp, DidFinish,
             SetInProgress, ReadInProgress, DatabaseUsed, FindRoom, Running, Queue
  <2>4. QED
    BY <1>1, <2>1, <2>2, <2>3
<1>8. CASE Relaunch
  BY <1>2, <1>8 DEF Relaunch
<1>9. CASE Connect \/ FetchRoomHistory
  <2>1. UNCHANGED <<stored, call>>
    BY <1>9 DEF Connect, FetchRoomHistory, database
  <2>2. Keeps("connection")
    <3>1. CASE Connect
      BY <3>1 DEF Connect, Keeps, QueuesType, BlocksType, Queue
    <3>2. CASE FetchRoomHistory
      <4>1. Plain("fetchRoom") \in Items
        BY ItemTypes DEF Kind
      <4>2. QED
        BY <3>2, <4>1, AppendKeeps DEF FetchRoomHistory, QueuesType
    <3>3. QED
      BY <1>9, <3>1, <3>2
  <2>3. QED
    BY <1>1, <2>1, <2>2
<1>10. CASE Receive
  <2>1. UNCHANGED <<stored, call>>
    BY <1>10 DEF Receive, ReceiveForStorage, ReceiveSubject, ReceiveLast, client, database
  <2>2. Keeps("connection")
    BY <1>10 DEF Receive, ReceiveForStorage, ReceiveSubject, ReceiveLast, client, Keeps,
         QueuesType, BlocksType, Queue
  <2>3. QED
    BY <1>1, <2>1, <2>2
<1>11. CASE Archive \/ JoinRoom \/ Disconnect \/ AnswerSome \/ (\E m \in Message : Resend(m))
            \/ UNCHANGED vars
  <2>1. UNCHANGED <<stored, call, blocks>>
    BY <1>11 DEF Archive, JoinRoom, Disconnect, AnswerSome, Answer, Resend, vars, client, database
  <2>2. QED
    BY <1>1, <2>1 DEF Keeps
<1>12. QED
  BY <1>3, <1>4, <1>5, <1>6, <1>7, <1>8, <1>9, <1>10, <1>11
     DEF Next, Environment, ConnectionStep

\* Of the steps only those of the connection store anything.
LEMMA StoredOnceKept == Parts /\ Deciding /\ StoredOnce /\ [Next]_vars => StoredOnce'
<1> SUFFICES ASSUME Parts, Deciding, StoredOnce, [Next]_vars PROVE StoredOnce'
  OBVIOUS
<1>1. CASE StoreForwarded
  <2>1. PICK m : m = Current("connection").msg
    OBVIOUS
  <2>2. IF m \in Named /\ stored[m] > 0 THEN UNCHANGED stored ELSE Store(m)
    BY <1>1, <2>1 DEF StoreForwarded, IsDuplicate
  <2>3. QED
    BY <2>2, Messages DEF Parts, StoredType, Store, StoredOnce
<1>2. CASE StoreMessage
  <2>1. PICK m : m = Current("connection").msg
    OBVIOUS
  <2>2. Store(m) /\ ~(m \in Named /\ stored[m] > 0)
    BY <1>2, <2>1 DEF StoreMessage, Deciding, IsDuplicate, Returned
  <2>3. QED
    BY <2>2, Messages DEF Parts, StoredType, Store, StoredOnce
<1>3. CASE UNCHANGED stored
  BY <1>3 DEF StoredOnce
<1>4. QED
  BY <1>1, <1>2, <1>3
     DEF Next, vars, Environment, Archive, JoinRoom, Connect, Disconnect, Relaunch,
         FetchRoomHistory, Resend, AnswerSome, Answer, Receive, ReceiveForStorage,
         ReceiveSubject, ReceiveLast, StorageStep, DidAuthenticate, HandleMessage, LookUpRoom,
         RoomLookedUp, DidFinish, SetInProgress, ReadInProgress, RoomsStep, UseDatabase,
         DatabaseUsed, FindRoom, ConnectionStep, BeginCatchup, FetchHistory, FetchRoom,
         RoomAccess, DropDuplicate, BeginUpdate, SaveFetchDate, database

\* Every step keeps the types.
LEMMA PartsKept == Parts /\ Deciding /\ [Next]_vars => Parts'
<1> SUFFICES ASSUME Parts, Deciding, [Next]_vars PROVE Parts'
  OBVIOUS
<1>1. CASE ConnectionStep
  BY <1>1, ConnectionQueues, ConnectionValues
<1>2. CASE UNCHANGED vars
  BY <1>2, OthersKept DEF vars, wire, client, update, database, history, Parts
<1>3. QED
  BY <1>1, <1>2, ServerTypes, ConnectionTypes, ReceiveTypes, StorageTypes DEF Next, Environment

IInv == TypeOK /\ Deciding /\ StoredOnce

\* The types and what isDuplicate found hold always.
LEMMA InductiveInvariant == Spec => []IInv
<1>1. ASSUME Init PROVE IInv
  <2>1. TypeOK
    BY <1>1, InitTypes, TypeOKIsParts
  <2>2. Deciding
    BY <1>1 DEF Init, Deciding, Queue
  <2>3. StoredOnce
    BY <1>1, Messages, MessageType DEF Init, StoredOnce, MessageType
  <2>4. QED
    BY <2>1, <2>2, <2>3 DEF IInv
<1>2. IInv /\ [Next]_vars => IInv'
  <2> SUFFICES ASSUME IInv, [Next]_vars PROVE IInv'
    OBVIOUS
  <2> Parts /\ Deciding /\ StoredOnce
    BY TypeOKIsParts DEF IInv
  <2>1. Parts'
    BY PartsKept
  <2>2. TypeOK'
    BY <2>1, TypeOKIsParts, PTL
  <2>3. QED
    BY <2>2, DecidingKept, StoredOnceKept DEF IInv
<1>3. QED
  BY <1>1, <1>2, PTL DEF Spec

\* In every state the variables have their types, and of the blocks in front of
\* the queues only those that call another queue are in the middle of a call.
THEOREM CatchupTypeCorrect == Spec => []TypeOK
<1>1. IInv => TypeOK
  BY DEF IInv
<1>2. QED
  BY <1>1, InductiveInvariant, PTL

\* A message with an XEP-0359 id is never stored twice: not when it comes live,
\* again after a reconnect, and from the archive, and whatever the queues
\* do between isDuplicate and the end of its transaction.
THEOREM StoredAtMostOnce == Spec => []StoredOnce
<1>1. IInv => StoredOnce
  BY DEF IInv
<1>2. QED
  BY <1>1, InductiveInvariant, PTL

-----------------------------------------------------------------------------
(* No message is missed: what the invariant is made of.  The parts speak of*)
(* the items in the order in which they will reach the database: first the *)
(* blocks of the connection, then those of MessageStorage, then what is    *)
(* down.                                                                   *)

Conn == blocks["connection"]
Stor == blocks["storage"]
Carries(item, m) == item.kind \in {"message", "result"} /\ item.msg = m
Live(item) == item.kind = "message"

\* The answer that ends the catch-up of the account.
Closing(item) == item.kind = "fin" /\ ~item.mark

\* What the client has received: whatever it does, it will be stored.
Held(m) == stored[m] > 0 \/ Queued(m)
HeldTo(n) == \A m \in Message : DateToFetch < m /\ m <= n => Held(m)

\* What the first i elements on the way to the client bring.
Coming(m, i) == \E j \in DOMAIN down : j <= i /\ Carries(down[j], m)
DueTo(n, i) == \A m \in Message : DateToFetch < m /\ m <= n => Held(m) \/ Coming(m, i)

\* A fetch that is still to come.  One that is about to end is not.
Pending ==
  \E i \in DOMAIN Conn :
    Conn[i].kind = "fetchHistory" /\ (i = 1 => call["connection"] # "returned")
Excused == ended \/ Pending
Catching == mamCatchupInProgress \/ Excused

\* When MessageStorage gets to its i-th block, it is catching up, or a fetch is
\* to come.
Opens(i) ==
  \/ Catching /\ \A k \in DOMAIN Stor : k < i => ~Closing(Stor[k])
  \/ \E j \in DOMAIN Stor :
       /\ j < i /\ Stor[j].kind = "didAuthenticate"
       /\ \A k \in DOMAIN Stor : j < k /\ k < i => ~Closing(Stor[k])
OpensDown(i) == Opens(Len(Stor) + 1) /\ \A k \in DOMAIN down : k < i => ~Closing(down[k])

\* Nothing is newer than the archive, and nothing is on its way without a
\* connection.
Bounded ==
  /\ ~connected => down = <<>> /\ queries = {}
  /\ DateToFetch <= archived /\ messageDate <= archived
  /\ \A q \in Queue : \A i \in DOMAIN blocks[q] : blocks[q][i].msg <= archived
  /\ \A i \in DOMAIN down : down[i].msg <= archived

\* A block of performBlock belongs to the block of the connection that runs.
SetBlock(item) == item.kind = "setInProgress"
ReadBlock(item) == item.kind = "readInProgress"
Synced ==
  /\ \A i \in DOMAIN Stor :
       /\ SetBlock(Stor[i]) =>
            call["connection"] = "waiting" /\ Running("connection", "fetchHistory")
       /\ ReadBlock(Stor[i]) =>
            call["connection"] = "waiting" /\ Running("connection", "message")
  /\ \A i, j \in DOMAIN Stor :
       /\ SetBlock(Stor[i]) \/ ReadBlock(Stor[i])
       /\ SetBlock(Stor[j]) \/ ReadBlock(Stor[j])
       => i = j

\* An answer comes after the messages it answers with.
FinsHeld ==
  \A q \in Queue : \A i \in DOMAIN blocks[q] :
    Closing(blocks[q][i]) => HeldTo(blocks[q][i].msg)
AnswersDue ==
  \A i \in DOMAIN down :
    Closing(down[i]) \/ down[i].kind = "last" => DueTo(down[i].msg, i)
QueriesDue == \A query \in queries : ~query.room => DueTo(query.after, Len(down))

\* No message before an answer is newer than what it answers with.
Ahead(n) == \A j \in DOMAIN Conn : Live(Conn[j]) => Conn[j].msg <= n
StorAhead ==
  \A i \in DOMAIN Stor : Closing(Stor[i]) =>
    /\ Ahead(Stor[i].msg)
    /\ \A j \in DOMAIN Stor : j < i /\ Live(Stor[j]) => Stor[j].msg <= Stor[i].msg
DownAhead ==
  \A i \in DOMAIN down : Closing(down[i]) =>
    /\ Ahead(down[i].msg)
    /\ \A j \in DOMAIN Stor : Live(Stor[j]) => Stor[j].msg <= down[i].msg
    /\ \A j \in DOMAIN down : j < i /\ Live(down[j]) => down[j].msg <= down[i].msg

\* Before a message stands all that is older, or it will not move the date, or
\* it will move it with an excuse.
ConnOpens(i) ==
  IF i = 1 /\ call["connection"] = "returned" THEN fetching \/ Excused ELSE Catching
ConnDue == \A i \in DOMAIN Conn : Live(Conn[i]) => HeldTo(Conn[i].msg) \/ ConnOpens(i)
StorDue == \A i \in DOMAIN Stor : Live(Stor[i]) => HeldTo(Stor[i].msg) \/ Opens(i)
DownDue == \A i \in DOMAIN down : Live(down[i]) => DueTo(down[i].msg, i) \/ OpensDown(i)
SessionDue == connected => DueTo(archived, Len(down)) \/ OpensDown(Len(down) + 1)

\* What the date went past is stored or has its excuse.
Behind == \A m \in Message : m <= DateToFetch => stored[m] > 0 \/ excuse[m] # "none"

Answers == FinsHeld /\ AnswersDue /\ QueriesDue /\ StorAhead /\ DownAhead
Messengers == ConnDue /\ StorDue /\ DownDue /\ SessionDue
Orderly == Bounded /\ Synced /\ Answers /\ Messengers /\ Behind

-----------------------------------------------------------------------------
(* How the queues move.                                                    *)

\* A sequence without its first element.
LEMMA Cutting ==
  ASSUME NEW S, NEW s \in Seq(S), s # <<>>
  PROVE  /\ Tail(s) \in Seq(S) /\ DOMAIN s = 1..Len(s) /\ Len(s) \in Nat /\ Head(s) = s[1]
         /\ 1 \in DOMAIN s /\ s[1] \in S /\ Len(Tail(s)) = Len(s) - 1
         /\ \A i \in DOMAIN s : i # 1 => i - 1 \in DOMAIN Tail(s) /\ Tail(s)[i - 1] = s[i]
         /\ \A i \in DOMAIN Tail(s) : i \in Nat /\ i + 1 \in DOMAIN s /\ Tail(s)[i] = s[i + 1]
<1>1. /\ Tail(s) \in Seq(S) /\ Len(Tail(s)) = Len(s) - 1 /\ Head(s) = s[1] /\ Head(s) \in S
      /\ \A i \in 1..Len(Tail(s)) : Tail(s)[i] = s[i + 1]
  BY HeadTailProperties
<1>2. /\ DOMAIN s = 1..Len(s) /\ Len(s) \in Nat \ {0}
      /\ DOMAIN Tail(s) = 1..Len(Tail(s))
  BY <1>1, LenProperties, EmptySeq
<1>3. \A i \in DOMAIN s : i # 1 => i - 1 \in DOMAIN Tail(s) /\ Tail(s)[i - 1] = s[i]
  <2> SUFFICES ASSUME NEW i \in DOMAIN s, i # 1
               PROVE  i - 1 \in DOMAIN Tail(s) /\ Tail(s)[i - 1] = s[i]
    OBVIOUS
  <2>1. i - 1 \in 1..Len(Tail(s)) /\ (i - 1) + 1 = i
    BY <1>1, <1>2
  <2>2. QED
    BY <1>1, <1>2, <2>1
<1>4. \A i \in DOMAIN Tail(s) : i \in Nat /\ i + 1 \in DOMAIN s /\ Tail(s)[i] = s[i + 1]
  BY <1>1, <1>2
<1>5. QED
  BY <1>1, <1>2, <1>3, <1>4

\* What is put behind two sequences is put behind the second.
LEMMA ConcatAppend ==
  ASSUME NEW S, NEW s \in Seq(S), NEW t \in Seq(S), NEW e \in S
  PROVE  s \o Append(t, e) = Append(s \o t, e)
OBVIOUS

\* A sequence with an element put behind it.
LEMMA Putting ==
  ASSUME NEW S, NEW s \in Seq(S), NEW e \in S
  PROVE  /\ Append(s, e) \in Seq(S) /\ DOMAIN s = 1..Len(s) /\ Len(s) \in Nat
         /\ Len(Append(s, e)) = Len(s) + 1
         /\ \A i \in DOMAIN s :
              i \in DOMAIN Append(s, e) /\ Append(s, e)[i] = s[i] /\ i # Len(s) + 1
         /\ Len(s) + 1 \in DOMAIN Append(s, e) /\ Append(s, e)[Len(s) + 1] = e
         /\ \A i \in DOMAIN Append(s, e) : i \in Nat /\ (i \in DOMAIN s \/ i = Len(s) + 1)
         /\ Append(s, e) = s \o <<e>>
<1>1. /\ Append(s, e) \in Seq(S) /\ Len(Append(s, e)) = Len(s) + 1
      /\ \A i \in 1..Len(s) : Append(s, e)[i] = s[i]
      /\ Append(s, e)[Len(s) + 1] = e
  BY AppendProperties
<1>2. DOMAIN s = 1..Len(s) /\ Len(s) \in Nat /\ DOMAIN Append(s, e) = 1..(Len(s) + 1)
  BY <1>1, LenProperties
<1>3. Append(s, e) = s \o <<e>>
  <2> DEFINE one == <<e>>
  <2>1. one \in Seq(S) /\ Len(one) = 1 /\ one[1] = e
    OBVIOUS
  <2> HIDE DEF one
  <2>2. /\ s \o one \in Seq(S) /\ Len(s \o one) = Len(s) + 1
        /\ \A i \in 1..(Len(s) + 1) :
             (s \o one)[i] = IF i <= Len(s) THEN s[i] ELSE one[i - Len(s)]
    <3>1. /\ s \o one \in Seq(S) /\ Len(s \o one) = Len(s) + Len(one)
          /\ \A i \in 1..(Len(s) + Len(one)) :
               (s \o one)[i] = IF i <= Len(s) THEN s[i] ELSE one[i - Len(s)]
      BY <2>1, ConcatProperties
    <3>2. QED
      BY <2>1, <3>1
  <2>3. \A i \in 1..(Len(s) + 1) : Append(s, e)[i] = (s \o one)[i]
    <3> SUFFICES ASSUME NEW i \in 1..(Len(s) + 1) PROVE Append(s, e)[i] = (s \o one)[i]
      OBVIOUS
    <3>1. CASE i <= Len(s)
      BY <1>1, <1>2, <2>2, <3>1
    <3>2. CASE ~(i <= Len(s))
      <4>1. i = Len(s) + 1 /\ i - Len(s) = 1
        BY <1>2, <3>2
      <4>2. (s \o one)[i] = one[i - Len(s)]
        BY <2>2, <3>2
      <4>3. QED
        BY <1>1, <2>1, <4>1, <4>2
    <3>3. QED
      BY <3>1, <3>2
  <2>4. Append(s, e) = s \o one
    BY <1>1, <2>2, <2>3, SeqEqual
  <2>5. QED
    BY <2>4 DEF one
<1>4. QED
  BY <1>1, <1>2, <1>3

Same(q) == blocks'[q] = blocks[q]
Cut(q) == blocks[q] # <<>> /\ blocks'[q] = Tail(blocks[q])
Put(q, e) == e \in Items /\ blocks'[q] = Append(blocks[q], e)

\* What a step of the storage queue does to the queues.
LEMMA StorageMoves ==
  ASSUME Parts, StorageStep
  PROVE  /\ UNCHANGED <<archived, connected, down, queries, lastHistoryFetchDate, stored, excuse,
                        messageDate>>
         /\ \/ LookUpRoom /\ Same("storage") /\ Same("connection") /\ Put("rooms", Plain("lookup"))
            \/ /\ DidAuthenticate /\ Cut("storage") /\ Same("rooms")
               /\ Put("connection", Plain("fetchHistory"))
            \/ /\ HandleMessage \/ DidFinish
               /\ Cut("storage") /\ Same("rooms") /\ Put("connection", Head(Stor))
            \/ /\ RoomLookedUp \/ SetInProgress \/ ReadInProgress
               /\ Cut("storage") /\ Same("rooms") /\ Same("connection")
<1> USE DEF Parts, BlocksType, Conn, Stor, Same, Cut, Put, Queue
<1>1. \A q \in Queue : blocks[q] \in Seq(Items)
  OBVIOUS
<1>2. \A q \in Queue : \A e \in Items : blocks[q] \o <<e>> = Append(blocks[q], e)
  BY <1>1, Putting
<1>3. /\ Plain("lookup") \in Items /\ Plain("fetchHistory") \in Items
      /\ blocks["storage"] # <<>> => Head(blocks["storage"]) \in Items
  BY ItemTypes, CurrentTypes DEF Kind, Current
<1>4. CASE LookUpRoom
  BY <1>3, <1>4 DEF LookUpRoom, CallSync, wire, update, database, history
<1>5. CASE DidAuthenticate
  BY <1>2, <1>3, <1>5 DEF DidAuthenticate, Running, Finish, wire, update, database
<1>6. CASE HandleMessage
  BY <1>2, <1>3, <1>6 DEF HandleMessage, Running, Finish, Current, wire, update, database, history
<1>7. CASE DidFinish
  BY <1>2, <1>3, <1>7 DEF DidFinish, Running, Finish, Current, wire, update, database
<1>8. CASE RoomLookedUp
  BY <1>8 DEF RoomLookedUp, Running, End, wire, update, database, history
<1>9. CASE SetInProgress
  BY <1>9 DEF SetInProgress, Running, End, wire, update, database, history
<1>10. CASE ReadInProgress
  BY <1>10 DEF ReadInProgress, Running, End, wire, database, history
<1>11. QED
  BY <1>4, <1>5, <1>6, <1>7, <1>8, <1>9, <1>10 DEF StorageStep

\* What a step of the room manager does to the queues.
LEMMA RoomsMoves ==
  ASSUME Parts, RoomsStep
  PROVE  /\ UNCHANGED <<archived, connected, down, queries, lastHistoryFetchDate, stored, excuse,
                        messageDate, mamCatchupInProgress, ended, fetching>>
         /\ call'["connection"] = call["connection"]
         /\ \/ /\ UseDatabase /\ Same("storage") /\ Same("rooms")
               /\ Put("connection", Plain("roomAccess"))
            \/ /\ DatabaseUsed \/ FindRoom
               /\ Cut("rooms") /\ Same("storage") /\ Same("connection")
<1> USE DEF Parts, BlocksType, CallType, Conn, Stor, Same, Cut, Put, Queue
<1>1. Plain("roomAccess") \in Items
  BY ItemTypes DEF Kind
<1>2. CASE UseDatabase
  BY <1>1, <1>2 DEF UseDatabase, CallSync, wire, update, database, history
<1>3. CASE DatabaseUsed
  BY <1>3 DEF DatabaseUsed, Running, Returned, End, wire, update, database, history
<1>4. CASE FindRoom
  BY <1>4 DEF FindRoom, Running, Return, End, wire, update, database, history
<1>5. QED
  BY <1>2, <1>3, <1>4 DEF RoomsStep

\* What a step of the connection does to the queues.
LEMMA ConnectionMoves ==
  ASSUME Parts, Deciding, ConnectionStep
  PROVE  /\ UNCHANGED <<archived, connected, down, mamCatchupInProgress, ended>>
         /\ Same("rooms")
         /\ \/ /\ BeginCatchup /\ Same("connection") /\ Put("storage", Plain("setInProgress"))
               /\ call["connection"] = "none" /\ call'["connection"] = "waiting"
            \/ /\ BeginUpdate /\ Same("connection") /\ Put("storage", Plain("readInProgress"))
               /\ call["connection"] = "none" /\ call'["connection"] = "waiting"
            \/ /\ \/ FetchHistory \/ FetchRoom \/ RoomAccess \/ StoreForwarded
                  \/ DropDuplicate \/ StoreMessage \/ SaveFetchDate
               /\ Cut("connection") /\ Same("storage") /\ call'["connection"] = "none"
<1> USE DEF Parts, BlocksType, CallType, Conn, Stor, Same, Cut, Put, Queue
<1>1. Plain("setInProgress") \in Items /\ Plain("readInProgress") \in Items
  BY ItemTypes DEF Kind
<1>2. {"fetchRoom", "roomAccess", "result", "fin"} \subseteq Kind \ Callers["connection"]
  BY DEF Kind, Callers
<1>3. CASE BeginCatchup
  BY <1>1, <1>3 DEF BeginCatchup, CallSync, wire, history
<1>4. CASE BeginUpdate
  BY <1>1, <1>4 DEF BeginUpdate, CallSync, wire, history
<1>5. CASE FetchHistory
  BY <1>5 DEF FetchHistory, Running, Returned, End, history
<1>6. CASE FetchRoom
  BY <1>2, <1>6, NotCalling DEF FetchRoom, Running, End, history
<1>7. CASE RoomAccess
  <2>1. call["connection"] = "none"
    BY <1>2, <1>7, NotCalling DEF RoomAccess
  <2>2. QED
    BY <1>7, <2>1 DEF RoomAccess, Running, Return, End, wire, history
<1>8. CASE StoreForwarded
  <2>1. call["connection"] = "none"
    BY <1>2, <1>8, NotCalling DEF StoreForwarded
  <2>2. QED
    BY <1>8, <2>1 DEF StoreForwarded, Running, End, wire, history
<1>9. CASE DropDuplicate
  BY <1>9 DEF DropDuplicate, Deciding, Running, End, wire, history
<1>10. CASE StoreMessage
  BY <1>10 DEF StoreMessage, Running, Returned, End, wire
<1>11. CASE SaveFetchDate
  <2>1. call["connection"] = "none"
    BY <1>2, <1>11, NotCalling DEF SaveFetchDate
  <2>2. QED
    BY <1>11, <2>1 DEF SaveFetchDate, Running, End, wire
<1>12. QED
  BY <1>3, <1>4, <1>5, <1>6, <1>7, <1>8, <1>9, <1>10, <1>11 DEF ConnectionStep

\* What comes to the client, and what the application does on its own.
LEMMA ClientMoves ==
  ASSUME Parts, Connect \/ FetchRoomHistory \/ Receive
  PROVE  /\ UNCHANGED <<archived, call, lastHistoryFetchDate, stored, excuse, messageDate,
                        mamCatchupInProgress, ended, fetching>>
         /\ \/ /\ Connect /\ Put("storage", Plain("didAuthenticate"))
               /\ Put("rooms", Plain("rejoin")) /\ Same("connection") /\ UNCHANGED <<down, queries>>
               /\ ~connected
            \/ /\ FetchRoomHistory /\ Put("connection", Plain("fetchRoom"))
               /\ Same("rooms") /\ Same("storage") /\ UNCHANGED <<connected, down, queries>>
            \/ /\ ReceiveForStorage /\ Put("storage", Head(down)) /\ Same("rooms")
               /\ Same("connection") /\ down # <<>> /\ down' = Tail(down)
               /\ UNCHANGED <<connected, queries>>
            \/ /\ ReceiveSubject /\ Put("rooms", Head(down)) /\ Same("storage")
               /\ Same("connection") /\ down # <<>> /\ down' = Tail(down)
               /\ UNCHANGED <<connected, queries>>
            \/ /\ ReceiveLast /\ Same("rooms") /\ Same("storage") /\ Same("connection")
               /\ down # <<>> /\ down' = Tail(down) /\ UNCHANGED connected
<1> USE DEF Parts, BlocksType, CallType, Conn, Stor, Same, Cut, Put, Queue
<1>1. /\ Plain("didAuthenticate") \in Items /\ Plain("rejoin") \in Items
      /\ Plain("fetchRoom") \in Items
      /\ down # <<>> => Head(down) \in Items
  BY ItemTypes, CurrentTypes DEF Kind
<1>2. CASE Connect
  BY <1>1, <1>2 DEF Connect, update, database
<1>3. CASE FetchRoomHistory
  BY <1>1, <1>3 DEF FetchRoomHistory, wire, update, database, history
<1>4. CASE ReceiveForStorage
  BY <1>1, <1>4 DEF ReceiveForStorage, Received, update, database, history
<1>5. CASE ReceiveSubject
  BY <1>1, <1>5 DEF ReceiveSubject, Received, update, database, history
<1>6. CASE ReceiveLast
  BY <1>6 DEF ReceiveLast, Received, client, update, database, history
<1>7. QED
  BY <1>2, <1>3, <1>4, <1>5, <1>6 DEF Receive

\* What the server and the network do leaves the application alone.
LEMMA ServerMoves ==
  ASSUME Archive \/ JoinRoom \/ AnswerSome \/ Disconnect \/ (\E m \in Message : Resend(m))
           \/ UNCHANGED vars
  PROVE  UNCHANGED <<blocks, call, lastHistoryFetchDate, stored, excuse, messageDate,
                     mamCatchupInProgress, ended, fetching>>
BY DEF Archive, JoinRoom, AnswerSome, Answer, Disconnect, Resend, vars, client, update, database,
       history

\* Every step but the end of the process.
Calm == [Next]_vars /\ ~Relaunch

\* The steps other than the end of the process, by who takes them.
LEMMA CalmSteps ==
  Calm => \/ StorageStep \/ RoomsStep \/ ConnectionStep
          \/ Connect \/ FetchRoomHistory \/ Receive
          \/ Archive \/ JoinRoom \/ AnswerSome \/ Disconnect
          \/ (\E m \in Message : Resend(m)) \/ UNCHANGED vars
BY DEF Calm, Next, Environment

-----------------------------------------------------------------------------
(* What is received stays, and the date only grows.                        *)

\* Steps that do not save a date, or save one.
LEMMA DateGrows ==
  ASSUME Parts, Bounded, [Next]_vars
  PROVE  /\ DateToFetch \in Nat /\ DateToFetch' \in Nat /\ archived \in Nat /\ archived' \in Nat
         /\ DateToFetch <= DateToFetch' /\ archived <= archived' /\ DateToFetch' <= archived'
<1>1. archived \in Nat /\ archived' \in Nat /\ archived <= archived'
  <2>1. archived \in Nat
    BY Messages DEF Parts, WireType
  <2>2. archived' = archived \/ archived' = archived + 1
    BY DEF Next, Environment, Archive, JoinRoom, Connect, Disconnect, Relaunch, FetchRoomHistory,
           Resend, AnswerSome, Answer, Receive, ReceiveForStorage, ReceiveSubject, ReceiveLast,
           StorageStep, DidAuthenticate, HandleMessage, LookUpRoom, RoomLookedUp, DidFinish,
           SetInProgress, ReadInProgress, RoomsStep, UseDatabase, DatabaseUsed, FindRoom,
           ConnectionStep, BeginCatchup, FetchHistory, FetchRoom, RoomAccess, StoreForwarded,
           DropDuplicate, BeginUpdate, StoreMessage, SaveFetchDate, vars
  <2>3. QED
    BY <2>1, <2>2
<1>2. DateToFetch \in Nat /\ DateToFetch <= archived
  BY Messages DEF Parts, DatesType, DateToFetch, NoDate, Bounded
<1>3. CASE UNCHANGED lastHistoryFetchDate
  BY <1>1, <1>2, <1>3 DEF DateToFetch
<1>4. CASE StoreMessage
  <2>1. CASE UNCHANGED lastHistoryFetchDate
    BY <1>3, <2>1
  <2>2. CASE SetDate(messageDate, Current("connection")) /\ Newer(messageDate)
    BY <1>1, <1>2, <2>2, Messages
       DEF SetDate, Newer, DateToFetch, Bounded, NoDate, Parts, DatesType
  <2>3. QED
    BY <1>4, <2>1, <2>2 DEF StoreMessage
<1>5. CASE SaveFetchDate
  <2>1. lastHistoryFetchDate' = archived
    BY <1>5 DEF SaveFetchDate, SetDate, Date
  <2>2. DateToFetch' = archived
    BY <1>1, <2>1 DEF DateToFetch, NoDate
  <2>3. QED
    BY <1>1, <1>2, <2>2
<1>6. QED
  BY <1>3, <1>4, <1>5
     DEF Next, Environment, Archive, JoinRoom, Connect, Disconnect, Relaunch, FetchRoomHistory,
         Resend, AnswerSome, Answer, Receive, ReceiveForStorage, ReceiveSubject, ReceiveLast,
         StorageStep, DidAuthenticate, HandleMessage, LookUpRoom, RoomLookedUp, DidFinish,
         SetInProgress, ReadInProgress, RoomsStep, UseDatabase, DatabaseUsed, FindRoom,
         ConnectionStep, BeginCatchup, FetchHistory, FetchRoom, RoomAccess, StoreForwarded,
         DropDuplicate, BeginUpdate, vars, database

\* Copies are never deleted, and only blocks of the connection store one.
LEMMA CopiesStay ==
  ASSUME Parts, [Next]_vars
  PROVE  \A m \in Message : stored[m] \in Nat /\ stored'[m] \in Nat /\ stored[m] <= stored'[m]
<1>1. \A m \in Message : stored[m] \in Nat
  BY DEF Parts, StoredType
<1>2. UNCHANGED stored \/ \E m : Store(m)
  BY DEF Next, Environment, Archive, JoinRoom, Connect, Disconnect, Relaunch, FetchRoomHistory,
         Resend, AnswerSome, Answer, Receive, ReceiveForStorage, ReceiveSubject, ReceiveLast,
         StorageStep, DidAuthenticate, HandleMessage, LookUpRoom, RoomLookedUp, DidFinish,
         SetInProgress, ReadInProgress, RoomsStep, UseDatabase, DatabaseUsed, FindRoom,
         ConnectionStep, BeginCatchup, FetchHistory, FetchRoom, RoomAccess, StoreForwarded,
         DropDuplicate, BeginUpdate, StoreMessage, SaveFetchDate, vars, database
<1>3. CASE UNCHANGED stored
  BY <1>1, <1>3
<1>4. ASSUME NEW n, Store(n)
      PROVE \A m \in Message : stored'[m] \in Nat /\ stored[m] <= stored'[m]
  BY <1>1, <1>4 DEF Store, Parts, StoredType
<1>5. QED
  BY <1>1, <1>2, <1>3, <1>4

\* A block that waits goes on waiting.
LEMMA QueueStays ==
  ASSUME BlocksType, NEW q \in Queue, NEW i \in DOMAIN blocks[q],
         Same(q) \/ (\E e : Put(q, e)) \/ (Cut(q) /\ i # 1)
  PROVE  \E j \in DOMAIN blocks'[q] : blocks'[q][j] = blocks[q][i]
<1>1. blocks[q] \in Seq(Items)
  BY DEF BlocksType
<1>2. CASE Same(q)
  BY <1>2 DEF Same
<1>3. ASSUME NEW e, Put(q, e)
      PROVE  \E j \in DOMAIN blocks'[q] : blocks'[q][j] = blocks[q][i]
  BY <1>1, <1>3, Putting DEF Put
<1>4. CASE Cut(q) /\ i # 1
  <2>1. i - 1 \in DOMAIN Tail(blocks[q]) /\ Tail(blocks[q])[i - 1] = blocks[q][i]
    BY <1>1, <1>4, Cutting DEF Cut
  <2>2. QED
    BY <1>4, <2>1 DEF Cut
<1>5. QED
  BY <1>2, <1>3, <1>4

\* In a step that is not the end of the process each queue stays, has a block
\* more or is rid of the one that ran.
LEMMA QueuesMove ==
  ASSUME Parts, Deciding, Calm
  PROVE  \A q \in Queue : Same(q) \/ (\E e : Put(q, e)) \/ Cut(q)
<1>1. CASE StorageStep
  BY <1>1, StorageMoves DEF Queue
<1>2. CASE RoomsStep
  BY <1>2, RoomsMoves DEF Queue
<1>3. CASE ConnectionStep
  BY <1>3, ConnectionMoves DEF Queue
<1>4. CASE Connect \/ FetchRoomHistory \/ Receive
  BY <1>4, ClientMoves DEF Queue
<1>5. CASE \/ Archive \/ JoinRoom \/ AnswerSome \/ Disconnect
           \/ (\E m \in Message : Resend(m)) \/ UNCHANGED vars
  BY <1>5, ServerMoves DEF Same
<1>6. QED
  BY <1>1, <1>2, <1>3, <1>4, <1>5, CalmSteps

\* A block that brings a message goes to the connection, and there stores it.
LEMMA RunningCarries ==
  ASSUME Parts, Deciding, Calm, NEW q \in Queue, Cut(q), NEW m \in Message,
         Carries(blocks[q][1], m)
  PROVE  Held(m)'
<1>1. blocks[q] \in Seq(Items) /\ blocks[q] # <<>>
  BY DEF Parts, BlocksType, Cut
<1>2. Head(blocks[q]) = blocks[q][1] /\ Tail(blocks[q]) # blocks[q]
  <2>1. /\ Head(blocks[q]) = blocks[q][1] /\ Len(blocks[q]) \in Nat
        /\ Len(Tail(blocks[q])) = Len(blocks[q]) - 1
    BY <1>1, Cutting
  <2> DEFINE rest == Tail(blocks[q])
  <2>2. Len(rest) = Len(blocks[q]) - 1
    BY <2>1
  <2> HIDE DEF rest
  <2>3. rest # blocks[q]
    BY <2>1, <2>2
  <2>4. QED
    BY <2>1, <2>3 DEF rest
<1>3. \A e \in Items : Append(blocks[q], e) # Tail(blocks[q])
  <2>1. \A e \in Items : Len(Append(blocks[q], e)) = Len(blocks[q]) + 1
    BY <1>1, Putting
  <2>2. Len(Tail(blocks[q])) = Len(blocks[q]) - 1 /\ Len(blocks[q]) \in Nat
    BY <1>1, Cutting
  <2>3. QED
    BY <2>1, <2>2
<1>4. ~Same(q) /\ \A e : ~Put(q, e)
  BY <1>2, <1>3 DEF Same, Put, Cut
<1>5. CASE StorageStep
  <2>1. q = "storage"
    BY <1>4, <1>5, StorageMoves DEF Queue
  <2>2. Put("connection", Head(Stor))
    BY <1>2, <1>4, <1>5, <2>1, StorageMoves
       DEF DidAuthenticate, DidFinish, RoomLookedUp, SetInProgress, ReadInProgress, Running,
           Carries, Stor
  <2>3. /\ Len(Conn) + 1 \in DOMAIN Append(Conn, Head(Stor)) /\ Head(Stor) \in Items
        /\ Append(Conn, Head(Stor))[Len(Conn) + 1] = Head(Stor)
    BY <2>1, <2>2, Putting DEF Put, Conn, Parts, BlocksType, Queue
  <2>4. /\ blocks'["connection"][Len(Conn) + 1] = Head(Stor)
        /\ Len(Conn) + 1 \in DOMAIN blocks'["connection"]
    BY <2>1, <2>2, <2>3 DEF Put, Conn
  <2>5. QED
    BY <1>2, <2>1, <2>4 DEF Held, Queued, Carries, Stor, Queue
<1>6. CASE RoomsStep
  <2>1. q = "rooms"
    BY <1>4, <1>6, RoomsMoves DEF Queue
  <2>2. QED
    BY <1>2, <1>4, <1>6, <2>1, RoomsMoves
       DEF DatabaseUsed, FindRoom, Running, Carries, Queue
<1>7. CASE ConnectionStep
  <2>1. q = "connection"
    BY <1>4, <1>7, ConnectionMoves DEF Queue
  <2>2. StoreForwarded \/ DropDuplicate \/ StoreMessage
    BY <1>2, <1>4, <1>7, <2>1, ConnectionMoves
       DEF FetchHistory, FetchRoom, RoomAccess, SaveFetchDate, Running, Carries, Queue
  <2>3. Current("connection").msg = m /\ stored[m] \in Nat
    BY <1>2, <2>1, CopiesStay DEF Current, Carries, Parts, StoredType
  <2>4. (IsDuplicate(m) /\ UNCHANGED stored) \/ Store(m)
    BY <2>2, <2>3 DEF StoreForwarded, DropDuplicate, StoreMessage, database
  <2>5. stored'[m] > 0
    BY <2>3, <2>4 DEF IsDuplicate, Store, Parts, StoredType
  <2>6. QED
    BY <2>5 DEF Held
<1>8. CASE Connect \/ FetchRoomHistory \/ Receive
  BY <1>4, <1>8, ClientMoves DEF Queue
<1>9. CASE \/ Archive \/ JoinRoom \/ AnswerSome \/ Disconnect
           \/ (\E n \in Message : Resend(n)) \/ UNCHANGED vars
  BY <1>4, <1>9, ServerMoves DEF Same
<1>10. QED
  BY <1>5, <1>6, <1>7, <1>8, <1>9, CalmSteps

\* A message that is stored or queued stays so.
LEMMA HeldStays ==
  ASSUME Parts, Deciding, Calm, NEW m \in Message, Held(m)
  PROVE  Held(m)'
<1>1. CASE stored[m] > 0
  BY <1>1, CopiesStay DEF Held, Calm
<1>2. CASE Queued(m)
  <2>1. PICK q \in Queue : \E i \in DOMAIN blocks[q] : Carries(blocks[q][i], m)
    BY <1>2 DEF Queued, Carries
  <2>2. PICK i \in DOMAIN blocks[q] : Carries(blocks[q][i], m)
    BY <2>1
  <2>3. CASE Cut(q) /\ i = 1
    BY <2>2, <2>3, RunningCarries
  <2>4. CASE ~(Cut(q) /\ i = 1)
    <3>1. \E j \in DOMAIN blocks'[q] : blocks'[q][j] = blocks[q][i]
      BY <2>4, QueuesMove, QueueStays DEF Parts
    <3>2. QED
      BY <2>2, <3>1 DEF Held, Queued, Carries
  <2>5. QED
    BY <2>3, <2>4
<1>3. QED
  BY <1>1, <1>2 DEF Held

\* That all messages up to a number are stored or queued stays so.
LEMMA HeldToStays ==
  ASSUME Parts, Bounded, Deciding, Calm, NEW n \in Int, HeldTo(n)
  PROVE  HeldTo(n)'
<1> SUFFICES ASSUME NEW m \in Message, DateToFetch' < m, m <= n PROVE Held(m)'
  BY DEF HeldTo
<1>1. m \in Nat
  BY Messages DEF Message
<1>2. DateToFetch < m
  BY <1>1, DateGrows DEF Calm
<1>3. QED
  BY <1>2, HeldStays DEF HeldTo

-----------------------------------------------------------------------------
(* When a catch-up is under way or to come.                                *)

\* The queues as sequences of items, and what stands first in them.
LEMMA Fronts ==
  ASSUME BlocksType
  PROVE  /\ Conn \in Seq(Items) /\ Stor \in Seq(Items)
         /\ DOMAIN Conn = 1..Len(Conn) /\ DOMAIN Stor = 1..Len(Stor)
         /\ Len(Conn) \in Nat /\ Len(Stor) \in Nat
         /\ Conn # <<>> => 1 \in DOMAIN Conn /\ Head(Conn) = Conn[1]
         /\ Stor # <<>> => 1 \in DOMAIN Stor /\ Head(Stor) = Stor[1]
         /\ 1 \in DOMAIN Conn => Conn # <<>>
         /\ 1 \in DOMAIN Stor => Stor # <<>>
<1>1. Conn \in Seq(Items) /\ Stor \in Seq(Items)
  BY DEF BlocksType, Conn, Stor, Queue
<1>2. ASSUME NEW s \in Seq(Items)
      PROVE  /\ DOMAIN s = 1..Len(s) /\ Len(s) \in Nat
             /\ s # <<>> => 1 \in DOMAIN s /\ Head(s) = s[1]
             /\ 1 \in DOMAIN s => s # <<>>
  <2>1. DOMAIN s = 1..Len(s) /\ Len(s) \in Nat
    BY LenProperties
  <2>2. s # <<>> => 1 \in DOMAIN s /\ Head(s) = s[1]
    BY Cutting
  <2>3. s = <<>> => Len(s) = 0
    BY EmptySeq
  <2>4. QED
    BY <2>1, <2>2, <2>3
<1>3. QED
  BY <1>1, <1>2

\* A call of the connection returns only in the blocks of performBlock.
LEMMA CallReturns ==
  ASSUME Parts, Deciding, Calm, call'["connection"] = "returned"
  PROVE  \/ call["connection"] = "returned"
         \/ SetInProgress /\ call["connection"] = "waiting"
         \/ ReadInProgress /\ call["connection"] = "waiting"
<1>1. CASE StorageStep
  BY <1>1 DEF StorageStep, DidAuthenticate, HandleMessage, LookUpRoom, RoomLookedUp, DidFinish,
         SetInProgress, ReadInProgress, CallSync, Return, Returned, Parts, CallType, Queue
<1>2. CASE RoomsStep
  BY <1>2, RoomsMoves
<1>3. CASE ConnectionStep
  BY <1>3, ConnectionMoves
<1>4. CASE Connect \/ FetchRoomHistory \/ Receive
  BY <1>4, ClientMoves
<1>5. CASE \/ Archive \/ JoinRoom \/ AnswerSome \/ Disconnect
           \/ (\E m \in Message : Resend(m)) \/ UNCHANGED vars
  BY <1>5, ServerMoves
<1>6. QED
  BY <1>1, <1>2, <1>3, <1>4, <1>5, CalmSteps

\* A block that runs and is not over still runs when one was put behind it.
LEMMA GoesOnRunning ==
  ASSUME BlocksType, Same("connection") \/ \E e : Put("connection", e),
         NEW kind, Running("connection", kind)
  PROVE  Running("connection", kind)'
<1>1. CASE Same("connection")
  BY <1>1 DEF Same, Running
<1>2. ASSUME NEW e, Put("connection", e) PROVE Running("connection", kind)'
  <2>1. Conn \in Seq(Items) /\ e \in Items /\ Conn' = Append(Conn, e) /\ Conn # <<>>
    BY <1>2, Fronts DEF Put, Conn, Running
  <2>2. Conn' # <<>> /\ Head(Conn') = Head(Conn)
    BY <2>1, SequencesKeepTypes
  <2>3. QED
    BY <2>2 DEF Running, Conn
<1>3. QED
  BY <1>1, <1>2

\* What SetInProgress and ReadInProgress find.
LEMMA PerformedBlocks ==
  ASSUME Parts, Synced
  PROVE  /\ SetInProgress => Running("connection", "fetchHistory")
         /\ ReadInProgress => Running("connection", "message")
         /\ SetInProgress => SetBlock(Stor[1])
         /\ ReadInProgress => ReadBlock(Stor[1])
<1>1. SetInProgress => SetBlock(Stor[1]) /\ 1 \in DOMAIN Stor
  BY Fronts DEF Parts, SetInProgress, Running, SetBlock, Stor
<1>2. ReadInProgress => ReadBlock(Stor[1]) /\ 1 \in DOMAIN Stor
  BY Fronts DEF Parts, ReadInProgress, Running, ReadBlock, Stor
<1>3. QED
  BY <1>1, <1>2 DEF Synced

\* A fetch that is to come stays so until the catch-up is marked as begun.
LEMMA PendingStays ==
  ASSUME Parts, Deciding, Synced, Calm, ~SetInProgress, Pending
  PROVE  Pending'
<1>1. PICK i \in DOMAIN Conn :
        Conn[i].kind = "fetchHistory" /\ (i = 1 => call["connection"] # "returned")
  BY DEF Pending
<1>2. /\ Conn \in Seq(Items) /\ DOMAIN Conn = 1..Len(Conn) /\ Len(Conn) \in Nat
      /\ Conn # <<>> => Head(Conn) = Conn[1]
  BY Fronts DEF Parts
<1>3. i = 1 => Running("connection", "fetchHistory") /\ ~Running("connection", "message")
  BY <1>1, <1>2, Fronts DEF Running, Conn, Parts
<1>4. CASE Same("connection") \/ \E e : Put("connection", e)
  <2>1. i = 1 => call'["connection"] # "returned"
    BY <1>1, <1>3, CallReturns, PerformedBlocks
  <2>2. i \in DOMAIN Conn' /\ Conn'[i] = Conn[i]
    BY <1>1, <1>2, <1>4, Putting DEF Same, Put, Conn
  <2>3. QED
    BY <1>1, <2>1, <2>2 DEF Pending
<1>5. CASE Cut("connection") /\ ~Same("connection") /\ ~\E e : Put("connection", e)
  <2>1. ConnectionStep
    BY <1>5, StorageMoves, RoomsMoves, ClientMoves, ServerMoves, CalmSteps DEF Same
  <2>2. call'["connection"] = "none"
    BY <1>5, <2>1, ConnectionMoves
  <2>3. i # 1
    BY <1>1, <1>3, <1>5, <2>1, ConnectionMoves
       DEF FetchHistory, FetchRoom, RoomAccess, StoreForwarded, DropDuplicate, StoreMessage,
           SaveFetchDate, Returned, Running
  <2>4. i - 1 \in DOMAIN Conn' /\ Conn'[i - 1] = Conn[i]
    BY <1>1, <1>2, <1>5, <2>3, Cutting DEF Cut, Conn
  <2>5. QED
    BY <1>1, <2>2, <2>4 DEF Pending
<1>6. QED
  BY <1>4, <1>5, QueuesMove DEF Queue

\* A login always leads to a fetch.
LEMMA LoginFetches ==
  ASSUME Parts, Synced, DidAuthenticate
  PROVE  Pending'
<1>1. /\ Conn \in Seq(Items) /\ Len(Conn) \in Nat /\ Conn' = Append(Conn, Plain("fetchHistory"))
      /\ Plain("fetchHistory") \in Items
  BY StorageMoves, Fronts DEF Parts, StorageStep, DidAuthenticate, HandleMessage, LookUpRoom,
     RoomLookedUp, DidFinish, SetInProgress, ReadInProgress, Running, Put, Conn
<1>2. /\ Len(Conn) + 1 \in DOMAIN Conn'
      /\ Conn'[Len(Conn) + 1] = Plain("fetchHistory")
  BY <1>1, Putting
<1>3. Len(Conn) + 1 = 1 => call'["connection"] # "returned"
  <2>1. Len(Conn) = 0 => Conn = <<>>
    BY <1>1, EmptySeq
  <2>2. Conn = <<>> => call["connection"] = "none"
    BY DEF Parts, CallType, CallersType, Running, Conn, Queue
  <2>3. QED
    BY <1>1, <2>1, <2>2 DEF DidAuthenticate
<1>4. QED
  BY <1>2, <1>3 DEF Pending, Plain, Item

\* What excuses a date that is saved stays until the fetch is about to end.
LEMMA ExcusedStays ==
  ASSUME Parts, Deciding, Synced, Calm, ~SetInProgress, Excused
  PROVE  Excused'
<1>1. CASE DidAuthenticate
  BY <1>1, LoginFetches DEF Excused
<1>2. CASE ~DidAuthenticate
  <2>1. ended => ended'
    BY <1>2, CalmSteps, RoomsMoves, ConnectionMoves, ClientMoves, ServerMoves
       DEF StorageStep, HandleMessage, LookUpRoom, RoomLookedUp, DidFinish, SetInProgress,
           ReadInProgress, history
  <2>2. QED
    BY <2>1, PendingStays DEF Excused
<1>3. QED
  BY <1>1, <1>2

\* The answer that ends the catch-up of the account is the only one that does.
EndsCatchup == DidFinish /\ Closing(Stor[1])

\* A catch-up stays open until a step ends it.
LEMMA CatchingStays ==
  ASSUME Parts, Deciding, Synced, Calm, ~EndsCatchup, Catching
  PROVE  Catching'
<1>1. CASE SetInProgress
  BY <1>1 DEF SetInProgress, Catching
<1>2. CASE DidAuthenticate
  BY <1>2, LoginFetches DEF Excused, Catching
<1>3. CASE DidFinish
  <2>1. Head(Stor) = Stor[1] /\ Head(Stor).kind = "fin"
    BY <1>3, Fronts DEF DidFinish, Running, Stor, Parts
  <2>2. Head(Stor).mark
    BY <1>3, <2>1 DEF EndsCatchup, Closing
  <2>3. mamCatchupInProgress => ended'
    BY <1>3, <2>2 DEF DidFinish, Current, Stor
  <2>4. ~SetInProgress
    BY <1>3 DEF DidFinish, SetInProgress, Running
  <2>5. QED
    BY <2>3, <2>4, ExcusedStays DEF Catching, Excused
<1>4. CASE ~SetInProgress /\ ~DidAuthenticate /\ ~DidFinish
  <2>1. mamCatchupInProgress' = mamCatchupInProgress
    BY <1>4, CalmSteps, RoomsMoves, ConnectionMoves, ClientMoves, ServerMoves
       DEF StorageStep, HandleMessage, LookUpRoom, RoomLookedUp, ReadInProgress
  <2>2. QED
    BY <1>4, <2>1, ExcusedStays DEF Catching
<1>5. QED
  BY <1>1, <1>2, <1>3, <1>4

-----------------------------------------------------------------------------
(* The blocks of performBlock.                                             *)

\* A block of performBlock stays with the block that waits for it.
LEMMA SyncedKept ==
  ASSUME Parts, Deciding, Synced, Calm
  PROVE  Synced'
<1> DEFINE Sync(item) == SetBlock(item) \/ ReadBlock(item)
<1>1. /\ Conn \in Seq(Items) /\ Stor \in Seq(Items)
      /\ DOMAIN Stor = 1..Len(Stor) /\ Len(Stor) \in Nat
  BY Fronts DEF Parts
<1>2. CASE /\ Same("storage") \/ \E e : Put("storage", e) /\ ~Sync(e)
           /\ call'["connection"] = call["connection"]
           /\ Same("connection") \/ \E e : Put("connection", e)
  <2>2. \A k : Running("connection", k) => Running("connection", k)'
    BY <1>2, GoesOnRunning DEF Parts
  <2>3. \A i \in DOMAIN Stor' : Sync(Stor'[i]) => i \in DOMAIN Stor /\ Stor'[i] = Stor[i]
    BY <1>1, <1>2, Putting DEF Same, Put, Stor
  <2>4. QED
    BY <1>2, <2>2, <2>3 DEF Synced
<1>3. CASE /\ Cut("storage") /\ ~Sync(Stor[1])
           /\ call'["connection"] = call["connection"]
           /\ Same("connection") \/ \E e : Put("connection", e)
  <2>2. \A k : Running("connection", k) => Running("connection", k)'
    BY <1>3, GoesOnRunning DEF Parts
  <2>3. \A i \in DOMAIN Stor' : i \in Nat /\ i + 1 \in DOMAIN Stor /\ Stor'[i] = Stor[i + 1]
    BY <1>1, <1>3, Cutting DEF Cut, Stor
  <2>4. \A i, j \in DOMAIN Stor' : Sync(Stor'[i]) /\ Sync(Stor'[j]) => i = j
    BY <2>3 DEF Synced
  <2>5. \A i \in DOMAIN Stor' :
          /\ SetBlock(Stor'[i]) =>
               call'["connection"] = "waiting" /\ Running("connection", "fetchHistory")'
          /\ ReadBlock(Stor'[i]) =>
               call'["connection"] = "waiting" /\ Running("connection", "message")'
    BY <1>3, <2>2, <2>3 DEF Synced
  <2>6. QED
    BY <2>4, <2>5 DEF Synced
<1>4. CASE SetInProgress \/ ReadInProgress
  <2>1. Cut("storage") /\ Sync(Stor[1])
    BY <1>4, StorageMoves, PerformedBlocks
       DEF StorageStep, DidAuthenticate, HandleMessage, LookUpRoom,
           RoomLookedUp, DidFinish, SetInProgress, ReadInProgress, Running
  <2>2. /\ 1 \in DOMAIN Stor
        /\ \A i \in DOMAIN Stor' : i \in Nat /\ i + 1 \in DOMAIN Stor /\ Stor'[i] = Stor[i + 1]
    BY <1>1, <2>1, Cutting DEF Cut, Stor
  <2>3. \A i \in DOMAIN Stor' : i \in Nat /\ i # 0
    BY <1>1, <2>1, <2>2, LenProperties, Cutting DEF Cut, Stor
  <2>4. \A i \in DOMAIN Stor' : ~Sync(Stor'[i])
    BY <2>1, <2>2, <2>3 DEF Synced
  <2>5. QED
    BY <2>4 DEF Synced
<1>5. CASE ConnectionStep
  <2>1. CASE BeginCatchup \/ BeginUpdate
    <3>1. /\ Same("connection") /\ call["connection"] = "none" /\ call'["connection"] = "waiting"
          /\ \/ BeginCatchup /\ Put("storage", Plain("setInProgress"))
             \/ BeginUpdate /\ Put("storage", Plain("readInProgress"))
      BY <1>5, <2>1, ConnectionMoves
         DEF BeginCatchup, BeginUpdate, FetchHistory, FetchRoom, RoomAccess, StoreForwarded,
             DropDuplicate, StoreMessage, SaveFetchDate, Running, CallSync, Returned
    <3>2. \A i \in DOMAIN Stor : ~Sync(Stor[i])
      BY <3>1 DEF Synced
    <3>3. CASE BeginCatchup /\ Put("storage", Plain("setInProgress"))
      <4>1. \A i \in DOMAIN Stor' :
              Sync(Stor'[i]) => i = Len(Stor) + 1 /\ Stor'[i] = Plain("setInProgress")
        BY <1>1, <3>2, <3>3, Putting DEF Put, Stor
      <4>2. ~ReadBlock(Plain("setInProgress"))
        BY DEF ReadBlock, Plain, Item
      <4>3. Running("connection", "fetchHistory")'
        BY <3>1, <3>3 DEF BeginCatchup, Running, Same
      <4>4. QED
        BY <3>1, <4>1, <4>2, <4>3 DEF Synced
    <3>4. CASE BeginUpdate /\ Put("storage", Plain("readInProgress"))
      <4>1. \A i \in DOMAIN Stor' :
              Sync(Stor'[i]) => i = Len(Stor) + 1 /\ Stor'[i] = Plain("readInProgress")
        BY <1>1, <3>2, <3>4, Putting DEF Put, Stor
      <4>2. ~SetBlock(Plain("readInProgress"))
        BY DEF SetBlock, Plain, Item
      <4>3. Running("connection", "message")'
        BY <3>1, <3>4 DEF BeginUpdate, Running, Same
      <4>4. QED
        BY <3>1, <4>1, <4>2, <4>3 DEF Synced
    <3>5. QED
      BY <3>1, <3>3, <3>4
  <2>2. CASE ~(BeginCatchup \/ BeginUpdate)
    <3>1. Same("storage") /\ call["connection"] # "waiting"
      <4>1. {"fetchRoom", "roomAccess", "result", "fin"} \subseteq Kind \ Callers["connection"]
        BY DEF Kind, Callers, Queue
      <4>2. Same("storage")
        BY <1>5, <2>2, ConnectionMoves
      <4>3. QED
        BY <1>5, <2>2, <4>1, <4>2, NotCalling
           DEF ConnectionStep, FetchHistory, FetchRoom, RoomAccess, StoreForwarded, DropDuplicate,
               StoreMessage, SaveFetchDate, Returned, Deciding, Parts, Queue
    <3>2. \A i \in DOMAIN Stor' : ~Sync(Stor'[i])
      BY <3>1 DEF Synced, Same, Stor
    <3>3. QED
      BY <3>2 DEF Synced
  <2>3. QED
    BY <2>1, <2>2
<1>6. CASE StorageStep /\ ~SetInProgress /\ ~ReadInProgress
  <2>1. call'["connection"] = call["connection"]
    BY <1>6 DEF StorageStep, DidAuthenticate, HandleMessage, LookUpRoom, RoomLookedUp, DidFinish,
           CallSync, Returned, Parts, CallType, Queue
  <2>2. ~LookUpRoom => ~Sync(Stor[1])
    BY <1>6, Fronts DEF StorageStep, DidAuthenticate, HandleMessage, RoomLookedUp,
           DidFinish, Running, SetBlock, ReadBlock, Stor, Parts
  <2>3. LookUpRoom => Same("storage") /\ Same("connection")
    BY <1>6, StorageMoves DEF LookUpRoom, RoomLookedUp, DidAuthenticate, HandleMessage, DidFinish,
       CallSync, Returned, Running
  <2>4. QED
    BY <1>2, <1>3, <1>6, <2>1, <2>2, <2>3, StorageMoves
<1>7. CASE RoomsStep
  BY <1>2, <1>7, RoomsMoves
<1>8. CASE Connect \/ FetchRoomHistory \/ Receive
  <2>1. ~Sync(Plain("didAuthenticate"))
    BY DEF SetBlock, ReadBlock, Plain, Item
  <2>2. ReceiveForStorage => ~Sync(Head(down))
    BY DEF ReceiveForStorage, Received, SetBlock, ReadBlock
  <2>3. QED
    BY <1>2, <1>8, <2>1, <2>2, ClientMoves
<1>9. CASE \/ Archive \/ JoinRoom \/ AnswerSome \/ Disconnect
           \/ (\E m \in Message : Resend(m)) \/ UNCHANGED vars
  BY <1>2, <1>9, ServerMoves DEF Same
<1>10. QED
  BY <1>4, <1>5, <1>6, <1>7, <1>8, <1>9, CalmSteps

-----------------------------------------------------------------------------
(* What the server sends.                                                  *)

\* A sequence put behind another.
LEMMA Joining ==
  ASSUME NEW S, NEW s \in Seq(S), NEW p \in Seq(S)
  PROVE  /\ s \o p \in Seq(S) /\ DOMAIN s = 1..Len(s) /\ Len(s) \in Nat
         /\ Len(s \o p) = Len(s) + Len(p) /\ Len(p) \in Nat /\ DOMAIN p = 1..Len(p)
         /\ \A i \in DOMAIN s : i \in DOMAIN (s \o p) /\ (s \o p)[i] = s[i]
         /\ \A i \in DOMAIN p :
              Len(s) + i \in DOMAIN (s \o p) /\ (s \o p)[Len(s) + i] = p[i]
         /\ \A i \in DOMAIN (s \o p) :
              /\ i \in Nat
              /\ \/ i \in DOMAIN s
                 \/ i > Len(s) /\ i - Len(s) \in DOMAIN p /\ (s \o p)[i] = p[i - Len(s)]
<1>1. /\ s \o p \in Seq(S) /\ Len(s \o p) = Len(s) + Len(p)
      /\ \A i \in 1..(Len(s) + Len(p)) :
           (s \o p)[i] = IF i <= Len(s) THEN s[i] ELSE p[i - Len(s)]
  BY ConcatProperties
<1>2. /\ DOMAIN s = 1..Len(s) /\ Len(s) \in Nat /\ DOMAIN p = 1..Len(p) /\ Len(p) \in Nat
      /\ DOMAIN (s \o p) = 1..(Len(s) + Len(p))
  BY <1>1, LenProperties
<1>3. \A i \in DOMAIN s : i \in DOMAIN (s \o p) /\ (s \o p)[i] = s[i]
  BY <1>1, <1>2
<1>4. ASSUME NEW i \in DOMAIN p
      PROVE  Len(s) + i \in DOMAIN (s \o p) /\ (s \o p)[Len(s) + i] = p[i]
  <2>1. Len(s) + i \in 1..(Len(s) + Len(p)) /\ ~(Len(s) + i <= Len(s)) /\ (Len(s) + i) - Len(s) = i
    BY <1>2
  <2>2. QED
    BY <1>1, <1>2, <2>1
<1>5. ASSUME NEW i \in DOMAIN (s \o p)
      PROVE  /\ i \in Nat
             /\ \/ i \in DOMAIN s
                \/ i > Len(s) /\ i - Len(s) \in DOMAIN p /\ (s \o p)[i] = p[i - Len(s)]
  <2>1. CASE i <= Len(s)
    BY <1>2, <2>1
  <2>2. CASE ~(i <= Len(s))
    <3>1. i > Len(s) /\ i - Len(s) \in 1..Len(p) /\ i \in 1..(Len(s) + Len(p))
      BY <1>2, <2>2
    <3>2. QED
      BY <1>1, <1>2, <2>2, <3>1
  <2>3. QED
    BY <2>1, <2>2
<1>6. QED
  BY <1>1, <1>2, <1>3, <1>4, <1>5

\* An answer: a page of messages, and behind it what ends the page, which ends
\* the catch-up only where the archive ends.
Adds(query, to, p) ==
  /\ down' = down \o p
  /\ \A i \in DOMAIN p : p[i].msg <= archived /\ ~Live(p[i])
  /\ \A i \in DOMAIN p : Closing(p[i]) \/ p[i].kind = "last" =>
       /\ i = Len(p) /\ ~query.room /\ p[i].msg = to
       /\ Closing(p[i]) => to = archived
  /\ ~query.room => \A m \in Message : query.after < m /\ m <= to =>
       \E j \in DOMAIN p : j < Len(p) /\ Carries(p[j], m)

\* An answer puts its page and its end on the way to the client.
LEMMA AnswerAdds ==
  ASSUME Parts, Bounded, NEW query \in queries, NEW to \in 0..MaxMessage, Answer(query, to)
  PROVE  \E p \in Seq(Items) : Adds(query, to, p)
<1> USE DEF Adds
<1>1. query.after \in 0..MaxMessage /\ archived \in 0..MaxMessage /\ MaxMessage \in Nat
  BY Messages DEF Parts, QueriesType, WireType
<1>2. CASE ~query.room /\ to \in query.after..archived
  <2> DEFINE n == to - query.after
             item(i) == Item("result", query.after + i, FALSE)
             page == [i \in 1..n |-> item(i)]
             kind == IF to = archived THEN "fin" ELSE "last"
             last == Item(kind, to, FALSE)
             p == Append(page, last)
  <2>1. n \in Nat
    BY <1>1, <1>2
  <2>2. \A i \in 1..n : /\ item(i) \in Items /\ item(i).msg = query.after + i
                        /\ item(i).msg <= archived
                        /\ item(i).kind = "result"
    <3>1. \A i \in 1..n : query.after + i \in 0..MaxMessage /\ query.after + i <= archived
      BY <1>1, <1>2, <2>1
    <3>2. \A i \in 1..n : item(i) \in Items
      BY <3>1, ItemTypes DEF Kind
    <3>3. QED
      BY <3>1, <3>2 DEF Item
  <2>3. last \in Items /\ last.msg = to /\ last.kind = kind /\ ~Live(last)
        /\ (Closing(last) => to = archived)
    <3>1. last \in Items
      BY ItemTypes DEF Kind
    <3>2. QED
      BY <3>1 DEF Item, Closing, Live
  <2>4. down' = down \o page \o <<last>>
    BY <1>2, Answer(query, to) DEF Answer, Page
  <2> HIDE DEF item, last, kind
  <2>5. page \in Seq(Items) /\ Len(page) = n /\ \A i \in 1..n : page[i] = item(i)
    <3>1. page \in Seq(Items)
      BY <2>1, <2>2, IsASeq
    <3>2. DOMAIN page = 1..n
      OBVIOUS
    <3>3. QED
      BY <2>1, <3>1, <3>2, LenProperties
  <2> HIDE DEF page, n
  <2>6. /\ p \in Seq(Items) /\ Len(p) = n + 1 /\ p = page \o <<last>> /\ p[n + 1] = last
        /\ \A i \in 1..n : i \in DOMAIN p /\ p[i] = item(i)
        /\ \A i \in DOMAIN p : i \in 1..n \/ i = n + 1
    BY <2>1, <2>3, <2>5, Putting
  <2>7. down' = down \o p
    <3>1. down \in Seq(Items)
      BY DEF Parts, WireType
    <3>2. down \o p = Append(down \o page, last)
      BY ONLY <2>3, <2>5, <3>1, ConcatAppend
    <3>3. down \o page \in Seq(Items)
      BY ONLY <2>5, <3>1, ConcatProperties
    <3>4. Append(down \o page, last) = (down \o page) \o <<last>>
      BY ONLY <2>3, <3>3, Putting
    <3>5. QED
      BY ONLY <2>4, <3>2, <3>4
  <2> HIDE DEF p
  <2>8. \A i \in DOMAIN p : p[i].msg <= archived /\ ~Live(p[i])
    BY <1>1, <1>2, <2>2, <2>3, <2>6 DEF Live
  <2>9. \A i \in DOMAIN p : Closing(p[i]) \/ p[i].kind = "last" =>
          i = Len(p) /\ p[i].msg = to /\ (Closing(p[i]) => to = archived)
    BY <2>2, <2>3, <2>6 DEF Closing
  <2>10. ASSUME NEW m \in Message, query.after < m, m <= to
         PROVE  \E j \in DOMAIN p : j < Len(p) /\ Carries(p[j], m)
    <3>1. m - query.after \in 1..n /\ query.after + (m - query.after) = m
      BY <1>1, <2>10, Messages DEF Message, n
    <3>2. /\ m - query.after \in DOMAIN p /\ p[m - query.after] = item(m - query.after)
          /\ m - query.after < Len(p)
      BY <2>1, <2>6, <3>1
    <3>3. item(m - query.after).msg = m /\ item(m - query.after).kind = "result"
      BY <2>2, <3>1
    <3>4. QED
      BY <3>2, <3>3 DEF Carries
  <2>11. QED
    BY <1>2, <2>6, <2>7, <2>8, <2>9, <2>10
<1>3. CASE query.room
  <2> DEFINE p == <<Plain("roomResult"), Item("fin", NoMessage, TRUE)>>
  <2>1. Plain("roomResult") \in Items /\ Item("fin", NoMessage, TRUE) \in Items
    BY ItemTypes, Messages DEF Kind, NoMessage
  <2>2. p \in Seq(Items) /\ DOMAIN p = 1..2
    <3>1. p \in Seq(Items)
      BY <2>1, ShortSequences
    <3>2. DOMAIN p = 1..2
      OBVIOUS
    <3>3. QED
      BY <3>1, <3>2
  <2>3. /\ down' = down \o p
        /\ p[1] = Plain("roomResult") /\ p[2] = Item("fin", NoMessage, TRUE)
    BY <1>3 DEF Answer
  <2> HIDE DEF p
  <2>4. \A i \in DOMAIN p :
          p[i].msg <= archived /\ ~Live(p[i]) /\ ~Closing(p[i]) /\ p[i].kind # "last"
    BY <1>1, <2>2, <2>3 DEF Live, Closing, Plain, Item, NoMessage
  <2>5. QED
    BY <1>3, <2>2, <2>3, <2>4
<1>4. QED
  BY <1>2, <1>3 DEF Answer

\* Only while there is a connection something comes down.
LEMMA DownMoves ==
  ASSUME Parts, Bounded, Calm
  PROVE  \/ down' = down /\ (connected' = connected \/ Connect) /\ archived' = archived
         \/ down' = down /\ Archive /\ ~connected /\ ~connected'
         \/ down' = <<>> /\ Disconnect /\ ~connected' /\ archived' = archived
         \/ /\ Receive /\ down # <<>> /\ down' = Tail(down) /\ connected /\ connected'
            /\ archived' = archived
         \/ /\ Archive /\ connected /\ connected' /\ archived' = archived + 1
            /\ down' = Append(down, Item("message", archived', FALSE))
         \/ /\ JoinRoom /\ connected /\ connected' /\ archived' = archived
            /\ down' = Append(down, Plain("subject"))
         \/ /\ \E m \in Message : Resend(m) /\ down' = Append(down, Item("message", m, TRUE))
            /\ connected /\ connected' /\ archived' = archived
         \/ /\ \E query \in queries, to \in 0..MaxMessage : Answer(query, to)
            /\ connected /\ connected' /\ archived' = archived
<1>1. CASE StorageStep \/ RoomsStep \/ ConnectionStep
  BY <1>1, StorageMoves, RoomsMoves
     DEF ConnectionStep, BeginCatchup, FetchHistory, FetchRoom, RoomAccess, StoreForwarded,
         DropDuplicate, BeginUpdate, StoreMessage, SaveFetchDate, wire
<1>2. CASE Connect \/ FetchRoomHistory
  <2>1. down' = down /\ archived' = archived /\ (connected' = connected \/ Connect)
    BY <1>2 DEF Connect, FetchRoomHistory, wire
  <2>2. QED
    BY <2>1
<1>3. CASE Receive
  <2>1. down # <<>> /\ down' = Tail(down) /\ connected' = connected /\ archived' = archived
    BY <1>3 DEF Receive, ReceiveForStorage, ReceiveSubject, ReceiveLast, Received
  <2>2. connected
    BY <2>1 DEF Bounded
  <2>3. QED
    BY <1>3, <2>1, <2>2
<1>4. CASE Archive
  BY <1>4 DEF Archive
<1>5. CASE JoinRoom
  BY <1>5 DEF JoinRoom
<1>6. CASE AnswerSome
  <2>1. PICK query \in queries, to \in 0..MaxMessage : Answer(query, to)
    BY <1>6 DEF AnswerSome
  <2>2. connected' = connected /\ archived' = archived
    BY <2>1 DEF Answer
  <2>3. connected
    BY DEF Bounded
  <2>4. QED
    BY <2>1, <2>2, <2>3
<1>7. CASE Disconnect
  BY <1>7 DEF Disconnect
<1>8. ASSUME NEW m \in Message, Resend(m)
      PROVE  /\ connected /\ connected' = connected /\ archived' = archived
             /\ down' = Append(down, Item("message", m, TRUE))
  BY <1>8 DEF Resend
<1>9. CASE UNCHANGED vars
  BY <1>9 DEF vars, wire
<1>10. CASE \E m \in Message : Resend(m)
  <2>1. PICK m \in Message : Resend(m)
    BY <1>10
  <2>2. /\ connected /\ connected' = connected /\ archived' = archived
        /\ down' = Append(down, Item("message", m, TRUE))
    BY <1>8, <2>1
  <2>3. QED
    BY <2>1, <2>2
<1>11. QED
  BY <1>1, <1>2, <1>3, <1>4, <1>5, <1>6, <1>7, <1>9, <1>10, CalmSteps

-----------------------------------------------------------------------------
(* Nothing is newer than the archive.                                      *)

\* What is put behind the others is no newer than what was there, or a block of
\* the client's own.
LEMMA PutIsBounded ==
  ASSUME Parts, Bounded, Deciding, Calm, NEW q \in Queue, NEW e, Put(q, e), ~Same(q), ~Cut(q)
  PROVE  e.msg <= archived
<1>1. /\ archived \in Nat
      /\ \A kind : Plain(kind).msg <= archived
  BY Messages DEF Parts, WireType, Plain, Item, NoMessage
<1>2. /\ Stor # <<>> => Head(Stor).msg <= archived
      /\ down # <<>> => Head(down).msg <= archived
  <2>1. Stor # <<>> => 1 \in DOMAIN Stor /\ Head(Stor) = Stor[1]
    BY Fronts DEF Parts
  <2>2. down # <<>> => 1 \in DOMAIN down /\ Head(down) = down[1]
    BY Cutting DEF Parts, WireType
  <2>3. QED
    BY <2>1, <2>2 DEF Bounded, Stor, Queue
<1>3. \A f : Put(q, f) => f = e
  <2>1. ASSUME NEW f, Put(q, f) PROVE f = e
    <3>1. blocks[q] \in Seq(Items) /\ Append(blocks[q], e) = Append(blocks[q], f)
          /\ e \in Items /\ f \in Items
      BY <2>1 DEF Put, Parts, BlocksType
    <3>2. /\ Append(blocks[q], e)[Len(blocks[q]) + 1] = e
          /\ Append(blocks[q], f)[Len(blocks[q]) + 1] = f
      BY <3>1, Putting
    <3>3. QED
      BY <3>1, <3>2
  <2>2. QED
    BY <2>1
<1>4. CASE StorageStep
  BY <1>1, <1>2, <1>3, <1>4, StorageMoves DEF Cut, Queue, Stor
<1>5. CASE RoomsStep
  BY <1>1, <1>3, <1>5, RoomsMoves DEF Queue
<1>6. CASE ConnectionStep
  BY <1>1, <1>3, <1>6, ConnectionMoves DEF Queue
<1>7. CASE Connect \/ FetchRoomHistory \/ Receive
  BY <1>1, <1>2, <1>3, <1>7, ClientMoves DEF Queue
<1>8. CASE \/ Archive \/ JoinRoom \/ AnswerSome \/ Disconnect
           \/ (\E m \in Message : Resend(m)) \/ UNCHANGED vars
  BY <1>8, ServerMoves DEF Same
<1>9. QED
  BY <1>4, <1>5, <1>6, <1>7, <1>8, CalmSteps

\* Everything stays within the archive.
LEMMA BoundedKept ==
  ASSUME Parts, Bounded, Deciding, Calm
  PROVE  Bounded'
<1>1. archived \in Nat /\ archived' \in Nat /\ archived <= archived' /\ DateToFetch' <= archived'
  BY DateGrows DEF Calm
<1>2. down \in Seq(Items) /\ \A q \in Queue : blocks[q] \in Seq(Items)
  BY DEF Parts, WireType, BlocksType
<1>3. \A e \in Items : e.msg \in Nat
  BY Messages DEF Items
<1>4. \A i \in DOMAIN down' : down'[i].msg <= archived'
  <2>1. CASE down' = down
    BY <1>1, <1>2, <1>3, <2>1, ElementOfSeq, LenProperties DEF Bounded
  <2>2. CASE down' = <<>>
    BY <2>2
  <2>3. CASE down # <<>> /\ down' = Tail(down) /\ archived' = archived
    BY <1>2, <2>3, Cutting DEF Bounded
  <2>4. ASSUME NEW e \in Items, e.msg <= archived', down' = Append(down, e)
        PROVE  \A i \in DOMAIN down' : down'[i].msg <= archived'
    <3>1. \A i \in DOMAIN down : down[i].msg <= archived'
      BY <1>1, <1>2, <1>3, ElementOfSeq, LenProperties DEF Bounded
    <3>2. QED
      BY <1>2, <2>4, <3>1, Putting
  <2>5. ASSUME Archive, archived' = archived + 1
        PROVE  /\ Item("message", archived', FALSE) \in Items
               /\ Item("message", archived', FALSE).msg <= archived'
    <3>1. archived' \in 0..MaxMessage
      BY <1>1, <2>5, Messages DEF Archive
    <3>2. Item("message", archived', FALSE) \in Items
      BY <3>1, ItemTypes DEF Kind
    <3>3. Item("message", archived', FALSE).msg = archived'
      BY DEF Item
    <3>4. archived' <= archived'
      BY <1>1
    <3>5. QED
      BY <3>2, <3>3, <3>4, Zenon
  <2>6. Plain("subject") \in Items /\ Plain("subject").msg <= archived'
    BY <1>1, ItemTypes DEF Plain, Item, NoMessage, Kind
  <2>7. ASSUME NEW m \in Message, Resend(m)
        PROVE  /\ Item("message", m, TRUE) \in Items /\ Item("message", m, TRUE).msg <= archived'
               /\ down' = Append(down, Item("message", m, TRUE))
    <3>1. m \in 0..MaxMessage /\ m <= archived
      BY <2>7, Messages DEF Resend
    <3>2. Item("message", m, TRUE) \in Items
      BY <3>1, ItemTypes DEF Kind
    <3>3. QED
      BY <1>1, <2>7, <3>1, <3>2, Messages DEF Item, Resend
  <2>8. ASSUME NEW query \in queries, NEW to \in 0..MaxMessage, Answer(query, to),
               archived' = archived
        PROVE  \A i \in DOMAIN down' : down'[i].msg <= archived'
    <3>1. PICK p \in Seq(Items) :
            down' = down \o p /\ \A i \in DOMAIN p : p[i].msg <= archived
      BY <2>8, AnswerAdds DEF Adds
    <3>2. QED
      BY <1>2, <2>8, <3>1, Joining DEF Bounded
  <2>9. QED
    BY <2>1, <2>2, <2>3, <2>4, <2>5, <2>6, <2>7, <2>8, DownMoves
<1>5. ~connected' => down' = <<>> /\ queries' = {}
  <2>1. UNCHANGED <<connected, down, queries>> => (~connected' => down' = <<>> /\ queries' = {})
    BY DEF Bounded
  <2>2. Disconnect => (~connected' => down' = <<>> /\ queries' = {})
    BY DEF Disconnect
  <2>3. connected' = connected /\ (FetchHistory \/ FetchRoom) =>
          (~connected' => down' = <<>> /\ queries' = {})
    BY DEF FetchHistory, FetchRoom, Ask, Bounded
  <2>4. Connect => connected'
    BY DEF Connect
  <2>5. CASE ConnectionStep
    BY <2>1, <2>3, <2>5, ConnectionMoves
       DEF BeginCatchup, BeginUpdate, RoomAccess, StoreForwarded, DropDuplicate, StoreMessage,
           SaveFetchDate, wire
  <2>6. CASE StorageStep \/ RoomsStep
    BY <2>1, <2>6, StorageMoves, RoomsMoves
  <2>7. CASE FetchRoomHistory
    BY <2>1, <2>7 DEF FetchRoomHistory, wire
  <2>8. CASE Archive \/ UNCHANGED vars
    BY <2>8 DEF Archive, vars, wire, Bounded
  <2>9. CASE Receive \/ JoinRoom \/ AnswerSome \/ \E m \in Message : Resend(m)
    <3>1. connected' = connected
      BY <2>9 DEF Receive, ReceiveForStorage, ReceiveSubject, ReceiveLast, JoinRoom, AnswerSome,
             Answer, Resend
    <3>2. down # <<>> \/ connected
      BY <2>9 DEF Receive, ReceiveForStorage, ReceiveSubject, ReceiveLast, Received, JoinRoom,
             AnswerSome, Resend, Bounded
    <3>3. QED
      BY <3>1, <3>2 DEF Bounded
  <2>10. QED
    BY <2>2, <2>4, <2>5, <2>6, <2>7, <2>8, <2>9, CalmSteps
<1>6. messageDate' <= archived'
  <2>1. CASE UNCHANGED messageDate
    BY <1>1, <2>1, Messages DEF Bounded, Parts, DatesType, NoDate
  <2>2. CASE BeginUpdate
    <3>1. 1 \in DOMAIN Conn /\ Head(Conn) = Conn[1]
      BY <2>2, Fronts DEF Parts, BeginUpdate, Running, Conn
    <3>2. Current("connection").msg <= archived /\ Current("connection").msg \in Nat
      BY <1>2, <1>3, <3>1, ElementOfSeq, LenProperties DEF Bounded, Current, Conn, Queue
    <3>3. messageDate' \in {Current("connection").msg, archived}
      BY <2>2 DEF BeginUpdate, Date
    <3>4. QED
      BY <1>1, <3>2, <3>3
  <2>3. CASE StoreMessage
    BY <1>1, <2>3 DEF StoreMessage, NoDate
  <2>4. QED
    BY <2>1, <2>2, <2>3, CalmSteps, StorageMoves, RoomsMoves, ClientMoves, ServerMoves
       DEF ConnectionStep, BeginCatchup, FetchHistory, FetchRoom, RoomAccess, StoreForwarded,
           DropDuplicate, SaveFetchDate, update
<1>7. ASSUME NEW q \in Queue PROVE \A i \in DOMAIN blocks'[q] : blocks'[q][i].msg <= archived'
  <2>1. \A i \in DOMAIN blocks[q] : blocks[q][i].msg <= archived'
    BY <1>1, <1>2, <1>3, ElementOfSeq, LenProperties DEF Bounded
  <2>2. CASE Same(q)
    BY <2>1, <2>2 DEF Same
  <2>3. CASE Cut(q)
    BY <1>2, <2>1, <2>3, Cutting DEF Cut
  <2>4. ASSUME NEW e, Put(q, e), ~Same(q), ~Cut(q)
        PROVE  \A i \in DOMAIN blocks'[q] : blocks'[q][i].msg <= archived'
    <3>1. e \in Items /\ e.msg <= archived
      BY <2>4, PutIsBounded DEF Put
    <3>2. e.msg <= archived'
      BY <1>1, <1>3, <3>1
    <3>3. QED
      BY <1>2, <2>1, <2>4, <3>1, <3>2, Putting DEF Put
  <2>5. QED
    BY <2>2, <2>3, <2>4, QueuesMove
<1>8. QED
  BY <1>1, <1>4, <1>5, <1>6, <1>7 DEF Bounded

-----------------------------------------------------------------------------
(* What the date goes past.                                                *)

\* A date that moves over what is stored or excused misses nothing.
LEMMA ExcuseGiven ==
  ASSUME Parts, Behind, [Next]_vars, NEW item, NEW date \in Nat, SetDate(date, item),
         \A m \in Message : DateToFetch < m /\ m <= date =>
           stored'[m] > 0 \/ Excuse(m, item) # "none"
  PROVE  Behind'
<1> SUFFICES ASSUME NEW m \in Message, m <= DateToFetch'
             PROVE  stored'[m] > 0 \/ excuse'[m] # "none"
  BY DEF Behind
<1>1. DateToFetch' = date
  BY DEF SetDate, DateToFetch, NoDate
<1>2. m \in Nat /\ DateToFetch \in Nat
  BY Messages DEF Message, Parts, DatesType, DateToFetch, NoDate
<1>3. stored[m] \in Nat /\ stored'[m] \in Nat /\ stored[m] <= stored'[m]
  BY CopiesStay
<1>4. excuse'[m] = IF m <= date /\ m > DateToFetch /\ stored'[m] = 0
                     THEN Excuse(m, item) ELSE excuse[m]
  BY DEF SetDate
<1>5. CASE m <= DateToFetch
  BY <1>2, <1>3, <1>4, <1>5 DEF Behind
<1>6. CASE DateToFetch < m
  BY <1>1, <1>2, <1>3, <1>4, <1>6
<1>7. QED
  BY <1>2, <1>5, <1>6

\* The excuses of Excuse, one for each reason.
LEMMA Excuses ==
  ASSUME NEW m, NEW item,
         \/ (item.kind = "fin" /\ item.mark) \/ ended
         \/ m > item.msg \/ FetchPending \/ Queued(m)
  PROVE  Excuse(m, item) # "none"
BY DEF Excuse

\* Every step keeps what is before the date stored or excused.
LEMMA BehindKept ==
  ASSUME Parts, Deciding, Bounded, FinsHeld, ConnDue, Behind, [Next]_vars
  PROVE  Behind'
<1>1. \A m \in Message : m \in Nat /\ stored[m] \in Nat /\ stored'[m] \in Nat
                         /\ stored[m] <= stored'[m]
  BY CopiesStay, Messages DEF Message
<1>2. Conn # <<>> => 1 \in DOMAIN Conn /\ Conn[1] = Current("connection") /\ Conn[1] \in Items
  BY Fronts, Cutting DEF Parts, Current, Conn
<1>3. CASE UNCHANGED <<lastHistoryFetchDate, excuse>>
  <2>1. DateToFetch' = DateToFetch
    BY <1>3 DEF DateToFetch
  <2>2. QED
    BY <1>1, <1>3, <2>1 DEF Behind
<1>4. CASE /\ StoreMessage /\ ~fetching /\ Newer(messageDate)
           /\ SetDate(messageDate, Current("connection"))
  <2> DEFINE item == Current("connection")
  <2>1. Conn # <<>> /\ Live(item) /\ call["connection"] = "returned"
    BY <1>4 DEF StoreMessage, Running, Returned, Conn, Live, Current
  <2>2. HeldTo(item.msg) \/ ended \/ Pending
    BY <1>2, <1>4, <2>1 DEF ConnDue, ConnOpens, Excused
  <2>3. Pending => FetchPending
    BY DEF Pending, FetchPending, Conn
  <2>4. item.msg \in Nat
    BY <1>2, <2>1, Messages DEF Items
  <2>5. ASSUME NEW m \in Message, DateToFetch < m, m <= messageDate
        PROVE  stored'[m] > 0 \/ Excuse(m, item) # "none"
    <3>1. CASE m <= item.msg /\ HeldTo(item.msg)
      <4>1. stored[m] > 0 \/ Queued(m)
        BY <2>5, <3>1 DEF HeldTo, Held
      <4>2. QED
        BY <1>1, <4>1, Excuses
    <3>2. CASE ~(m <= item.msg)
      BY <1>1, <2>4, <3>2, Excuses
    <3>3. CASE ended \/ FetchPending
      BY <3>3, Excuses
    <3>4. QED
      BY <2>2, <2>3, <3>1, <3>2, <3>3
  <2>6. messageDate \in Nat
    BY <1>4, Messages DEF Newer, Parts, DatesType, NoDate
  <2> HIDE DEF item
  <2>7. QED
    BY <1>4, <2>5, <2>6, ExcuseGiven DEF item
<1>5. CASE SaveFetchDate
  <2> DEFINE item == Current("connection")
  <2>1. Conn # <<>> /\ item.kind = "fin" /\ SetDate(archived, item)
    BY <1>5 DEF SaveFetchDate, Running, Conn, Current, Date
  <2>2. item.mark \/ HeldTo(item.msg)
    BY <1>2, <2>1 DEF FinsHeld, Closing, Conn, Queue
  <2>3. item.msg \in Nat /\ archived \in Nat
    BY <1>2, <2>1, Messages DEF Items, Parts, WireType
  <2>4. ASSUME NEW m \in Message, DateToFetch < m, m <= archived
        PROVE  stored'[m] > 0 \/ Excuse(m, item) # "none"
    <3>1. CASE m <= item.msg /\ HeldTo(item.msg)
      <4>1. stored[m] > 0 \/ Queued(m)
        BY <2>4, <3>1 DEF HeldTo, Held
      <4>2. QED
        BY <1>1, <4>1, Excuses
    <3>2. CASE ~(m <= item.msg)
      BY <1>1, <2>3, <3>2, Excuses
    <3>3. CASE item.mark
      BY <2>1, <3>3, Excuses
    <3>4. QED
      BY <2>2, <3>1, <3>2, <3>3
  <2> HIDE DEF item
  <2>5. QED
    BY <2>1, <2>3, <2>4, ExcuseGiven
<1>6. QED
  BY <1>3, <1>4, <1>5
     DEF Next, Environment, Archive, JoinRoom, Connect, Disconnect, Relaunch, FetchRoomHistory,
         Resend, AnswerSome, Answer, Receive, ReceiveForStorage, ReceiveSubject, ReceiveLast,
         StorageStep, DidAuthenticate, HandleMessage, LookUpRoom, RoomLookedUp, DidFinish,
         SetInProgress, ReadInProgress, RoomsStep, UseDatabase, DatabaseUsed, FindRoom,
         ConnectionStep, BeginCatchup, FetchHistory, FetchRoom, RoomAccess, StoreForwarded,
         DropDuplicate, BeginUpdate, StoreMessage, vars, database, history

-----------------------------------------------------------------------------
(* Where the items of the next state come from.                            *)

\* A queue that lost its first block is not the same, and nothing was put behind it.
LEMMA CutOrPut ==
  ASSUME BlocksType, NEW q \in Queue, Cut(q)
  PROVE  ~Same(q) /\ \A e : ~Put(q, e)
<1>1. blocks[q] \in Seq(Items) /\ blocks[q] # <<>>
  BY DEF BlocksType, Cut
<1> DEFINE rest == Tail(blocks[q])
<1>2. Len(blocks[q]) \in Nat /\ Len(rest) = Len(blocks[q]) - 1
  BY <1>1, Cutting
<1>3. ASSUME NEW e, Put(q, e) PROVE FALSE
  <2>1. e \in Items /\ blocks'[q] = Append(blocks[q], e)
    BY <1>3 DEF Put
  <2>2. Len(Append(blocks[q], e)) = Len(blocks[q]) + 1
    BY <1>1, <2>1, Putting
  <2>3. Append(blocks[q], e) = rest
    BY <2>1 DEF Cut
  <2> HIDE DEF rest
  <2>4. QED
    BY <1>2, <2>2, <2>3
<1>4. ASSUME Same(q) PROVE FALSE
  <2>1. blocks[q] = rest
    BY <1>4 DEF Same, Cut
  <2> HIDE DEF rest
  <2>2. QED
    BY <1>2, <2>1
<1>5. QED
  BY <1>3, <1>4

\* What is put on a queue comes from the one before it, or is the client's own.
LEMMA PutComesFrom ==
  ASSUME Parts, Deciding, Calm, NEW q \in Queue, NEW e, Put(q, e), ~Same(q)
  PROVE  \/ /\ q = "connection" /\ Cut("storage") /\ Stor # <<>> /\ e = Stor[1]
            /\ HandleMessage \/ DidFinish
         \/ /\ q \in {"storage", "rooms"} /\ Receive /\ down # <<>> /\ down' = Tail(down)
            /\ e = down[1] /\ (q = "storage" => ReceiveForStorage)
         \/ ~Live(e) /\ ~Closing(e)
<1>1. /\ blocks[q] \in Seq(Items) /\ down \in Seq(Items)
      /\ Stor # <<>> => Head(Stor) = Stor[1]
      /\ down # <<>> => Head(down) = down[1]
  BY Fronts, Cutting DEF Parts, WireType, BlocksType
<1>2. \A f : Put(q, f) => f = e
  <2>1. ASSUME NEW f, Put(q, f) PROVE f = e
    <3>1. blocks[q] \in Seq(Items) /\ Append(blocks[q], e) = Append(blocks[q], f)
          /\ e \in Items /\ f \in Items
      BY <2>1, <1>1 DEF Put
    <3>2. /\ Append(blocks[q], e)[Len(blocks[q]) + 1] = e
          /\ Append(blocks[q], f)[Len(blocks[q]) + 1] = f
      BY <3>1, Putting
    <3>3. QED
      BY <3>1, <3>2
  <2>2. QED
    BY <2>1
<1>3. ~Cut(q)
  BY CutOrPut DEF Parts
<1>4. \A kind \in Kind \ {"message", "fin"} : ~Live(Plain(kind)) /\ ~Closing(Plain(kind))
  BY DEF Live, Closing, Plain, Item
<1>5. /\ "lookup" \in Kind \ {"message", "fin"} /\ "fetchHistory" \in Kind \ {"message", "fin"}
      /\ "roomAccess" \in Kind \ {"message", "fin"} /\ "rejoin" \in Kind \ {"message", "fin"}
      /\ "didAuthenticate" \in Kind \ {"message", "fin"}
      /\ "setInProgress" \in Kind \ {"message", "fin"}
      /\ "readInProgress" \in Kind \ {"message", "fin"}
      /\ "fetchRoom" \in Kind \ {"message", "fin"}
  BY DEF Kind
<1>6. CASE StorageStep
  BY <1>1, <1>2, <1>3, <1>4, <1>5, <1>6, StorageMoves DEF Cut, Queue, Stor
<1>7. CASE RoomsStep
  BY <1>2, <1>3, <1>4, <1>5, <1>7, RoomsMoves DEF Queue
<1>8. CASE ConnectionStep
  BY <1>2, <1>3, <1>4, <1>5, <1>8, ConnectionMoves DEF Queue
<1>9. CASE Connect \/ FetchRoomHistory \/ Receive
  BY <1>1, <1>2, <1>4, <1>5, <1>9, ClientMoves DEF Queue, Receive
<1>10. CASE \/ Archive \/ JoinRoom \/ AnswerSome \/ Disconnect
            \/ (\E m \in Message : Resend(m)) \/ UNCHANGED vars
  BY <1>10, ServerMoves DEF Same
<1>11. QED
  BY <1>6, <1>7, <1>8, <1>9, <1>10, CalmSteps

Known(item) == Live(item) \/ Closing(item)

\* Where a block of the connection comes from.
LEMMA ConnFrom ==
  ASSUME Parts, Deciding, Calm, NEW j \in DOMAIN Conn', Known(Conn'[j])
  PROVE  \/ ~Cut("connection") /\ j \in DOMAIN Conn /\ Conn'[j] = Conn[j]
         \/ Cut("connection") /\ j \in Nat /\ j + 1 \in DOMAIN Conn /\ Conn'[j] = Conn[j + 1]
         \/ /\ ~Cut("connection") /\ Cut("storage") /\ 1 \in DOMAIN Stor /\ Conn'[j] = Stor[1]
            /\ j = Len(Conn) + 1
            /\ HandleMessage \/ DidFinish
<1>1. Conn \in Seq(Items) /\ "connection" \in Queue /\ Conn' = blocks'["connection"]
  BY Fronts DEF Parts, Queue, Conn
<1>2. CASE Same("connection")
  BY <1>1, <1>2, CutOrPut DEF Same, Conn, Parts
<1>3. CASE Cut("connection")
  BY <1>1, <1>3, Cutting DEF Cut, Conn
<1>4. ASSUME NEW e, Put("connection", e), ~Same("connection")
      PROVE  \/ j \in DOMAIN Conn /\ Conn'[j] = Conn[j]
             \/ /\ Cut("storage") /\ 1 \in DOMAIN Stor /\ Conn'[j] = Stor[1]
                /\ j = Len(Conn) + 1
                /\ HandleMessage \/ DidFinish
  <2>1. \/ j \in DOMAIN Conn /\ Conn'[j] = Conn[j]
        \/ j = Len(Conn) + 1 /\ Conn'[j] = e
    BY <1>1, <1>4, Putting DEF Put, Conn
  <2>2. Known(e) => Cut("storage") /\ Stor # <<>> /\ e = Stor[1] /\ (HandleMessage \/ DidFinish)
    BY <1>1, <1>4, PutComesFrom DEF Known
  <2>3. QED
    BY <2>1, <2>2, Fronts DEF Parts
<1>5. QED
  BY <1>1, <1>2, <1>3, <1>4, QueuesMove, CutOrPut DEF Parts

\* Where a block of the storage queue comes from.
LEMMA StorFrom ==
  ASSUME Parts, Deciding, Calm, NEW i \in DOMAIN Stor', Known(Stor'[i])
  PROVE  \/ ~Cut("storage") /\ i \in DOMAIN Stor /\ Stor'[i] = Stor[i]
         \/ Cut("storage") /\ i \in Nat /\ i + 1 \in DOMAIN Stor /\ Stor'[i] = Stor[i + 1]
         \/ /\ ~Cut("storage") /\ i = Len(Stor) + 1 /\ ReceiveForStorage
            /\ down # <<>> /\ down' = Tail(down) /\ Stor'[i] = down[1] /\ Same("connection")
<1>1. Stor \in Seq(Items) /\ "storage" \in Queue /\ Stor' = blocks'["storage"]
  BY Fronts DEF Parts, Queue, Stor
<1>2. CASE Same("storage")
  BY <1>1, <1>2, CutOrPut DEF Same, Stor, Parts
<1>3. CASE Cut("storage")
  BY <1>1, <1>3, Cutting DEF Cut, Stor
<1>4. ASSUME NEW e, Put("storage", e), ~Same("storage")
      PROVE  \/ i \in DOMAIN Stor /\ Stor'[i] = Stor[i]
             \/ /\ i = Len(Stor) + 1 /\ ReceiveForStorage
                /\ down # <<>> /\ down' = Tail(down) /\ Stor'[i] = down[1] /\ Same("connection")
  <2>1. \/ i \in DOMAIN Stor /\ Stor'[i] = Stor[i]
        \/ i = Len(Stor) + 1 /\ Stor'[i] = e
    BY <1>1, <1>4, Putting DEF Put, Stor
  <2>2. Known(e) => ReceiveForStorage /\ down # <<>> /\ down' = Tail(down) /\ e = down[1]
    BY <1>1, <1>4, PutComesFrom DEF Known
  <2>3. ReceiveForStorage => Same("connection")
    BY DEF ReceiveForStorage, Same, Parts, BlocksType, Queue
  <2>4. QED
    BY <2>1, <2>2, <2>3
<1>5. QED
  BY <1>1, <1>2, <1>3, <1>4, QueuesMove, CutOrPut DEF Parts

\* What is down stays, or its first element was received.
DownStays == \A k \in DOMAIN down : k \in DOMAIN down' /\ down'[k] = down[k]
DownReceived ==
  Receive /\ down # <<>> /\ down' = Tail(down) /\ connected /\ connected' /\ archived' = archived

\* An element is received, the connection is lost, or what is on the way stays.
LEMMA DownFrom ==
  ASSUME Parts, Bounded, Calm
  PROVE  \/ DownReceived
         \/ down' = <<>> /\ ~connected' /\ queries' = {}
         \/ DownStays /\ Len(down') \in Nat /\ Len(down) <= Len(down')
<1>1. down \in Seq(Items) /\ Len(down) \in Nat
  BY LenProperties DEF Parts, WireType
<1>2. CASE down' = down
  BY <1>1, <1>2 DEF DownStays
<1>3. CASE Disconnect
  BY <1>3 DEF Disconnect
<1>4. ASSUME NEW e \in Items, down' = Append(down, e)
      PROVE  DownStays /\ Len(down') \in Nat /\ Len(down) <= Len(down')
  <2>1. DownStays
    BY <1>1, <1>4, Putting DEF DownStays
  <2>2. Len(Append(down, e)) = Len(down) + 1
    BY <1>1, Putting
  <2>3. QED
    BY <1>1, <1>4, <2>1, <2>2
<1>5. ASSUME NEW query \in queries, NEW to \in 0..MaxMessage, Answer(query, to)
      PROVE  DownStays /\ Len(down') \in Nat /\ Len(down) <= Len(down')
  <2>1. PICK p \in Seq(Items) : down' = down \o p
    BY <1>5, AnswerAdds DEF Adds
  <2>2. DownStays
    BY <1>1, <2>1, Joining DEF DownStays
  <2>3. Len(down \o p) = Len(down) + Len(p) /\ Len(p) \in Nat
    BY <1>1, Joining
  <2>4. QED
    BY <1>1, <2>1, <2>2, <2>3
<1>6. Plain("subject") \in Items /\ \A m \in Message : Item("message", m, TRUE) \in Items
  BY ItemTypes, Messages DEF Kind
<1>7. Archive => Item("message", archived', FALSE) \in Items
  <2>1. Archive => archived' \in 0..MaxMessage
    BY Messages DEF Archive, Parts, WireType
  <2>2. QED
    BY <2>1, ItemTypes DEF Kind
<1>8. CASE Archive
  BY <1>2, <1>4, <1>7, <1>8, DownMoves DEF Archive
<1>9. CASE JoinRoom
  BY <1>4, <1>6, <1>9 DEF JoinRoom
<1>10. CASE \E m \in Message : Resend(m)
  BY <1>4, <1>6, <1>10 DEF Resend
<1>11. QED
  BY <1>2, <1>3, <1>5, <1>8, <1>9, <1>10, DownMoves DEF DownReceived

-----------------------------------------------------------------------------
(* What an answer or a query stands for stays due.                         *)

\* With no element before it, what is due is held.
LEMMA DueIsHeld ==
  ASSUME Parts, NEW n, DueTo(n, 0)
  PROVE  HeldTo(n)
<1>1. down \in Seq(Items) /\ \A j \in DOMAIN down : ~(j <= 0)
  BY LenProperties DEF Parts, WireType
<1>2. QED
  BY <1>1 DEF DueTo, HeldTo, Coming

\* What is stored or queued need not come.
LEMMA HeldIsDue == ASSUME NEW n, NEW i, HeldTo(n) PROVE DueTo(n, i)
BY DEF DueTo, HeldTo

\* What the first elements bring, more of them bring too.
LEMMA DueGrows ==
  ASSUME Parts, NEW n, NEW i \in Int, NEW j \in Int, i <= j, DueTo(n, i)
  PROVE  DueTo(n, j)
<1>1. down \in Seq(Items) /\ \A k \in DOMAIN down : k \in Nat
  BY LenProperties DEF Parts, WireType
<1>2. \A m : Coming(m, i) => Coming(m, j)
  BY <1>1 DEF Coming
<1>3. QED
  BY <1>2 DEF DueTo

\* What is received is held.
LEMMA FirstReceived ==
  ASSUME Parts, Deciding, Calm, DownReceived, NEW m \in Message, Carries(down[1], m)
  PROVE  Held(m)'
<1>1. Head(down) = down[1] /\ Head(down) \in Items /\ Stor \in Seq(Items) /\ Len(Stor) \in Nat
  BY Cutting, Fronts DEF Parts, WireType, DownReceived
<1>2. ReceiveForStorage
  BY <1>1 DEF DownReceived, Receive, ReceiveSubject, ReceiveLast, Received, Carries
<1>3. Stor' = Append(Stor, Head(down))
  BY <1>2 DEF ReceiveForStorage, Stor, Parts, BlocksType, Queue
<1>4. Len(Stor) + 1 \in DOMAIN Stor' /\ Stor'[Len(Stor) + 1] = down[1]
  BY <1>1, <1>3, Putting
<1>5. QED
  BY <1>4 DEF Held, Queued, Carries, Stor, Queue

\* What comes stays due when the first element is received.
LEMMA DueReceived ==
  ASSUME Parts, Bounded, Deciding, Calm, DownReceived, NEW n \in Int, NEW i \in Int, DueTo(n, i)
  PROVE  DueTo(n, i - 1)'
<1> SUFFICES ASSUME NEW m \in Message, DateToFetch' < m, m <= n
             PROVE  Held(m)' \/ Coming(m, i - 1)'
  BY DEF DueTo
<1>1. DateToFetch < m
  BY DateGrows, Messages DEF Calm, Message
<1>2. Held(m) \/ Coming(m, i)
  BY <1>1 DEF DueTo
<1>3. CASE Held(m)
  BY <1>3, HeldStays
<1>4. ASSUME NEW j \in DOMAIN down, j <= i, Carries(down[j], m)
      PROVE  Held(m)' \/ Coming(m, i - 1)'
  <2>1. CASE j = 1
    BY <1>4, <2>1, FirstReceived
  <2>2. CASE j # 1
    <3>1. down \in Seq(Items) /\ down # <<>> /\ down' = Tail(down)
      BY DEF Parts, WireType, DownReceived
    <3>2. j \in Int /\ j - 1 \in DOMAIN down' /\ down'[j - 1] = down[j]
      BY <1>4, <2>2, <3>1, Cutting
    <3>3. j - 1 <= i - 1
      BY <1>4, <3>2
    <3>4. QED
      BY <1>4, <3>2, <3>3 DEF Coming
  <2>3. QED
    BY <2>1, <2>2
<1>5. QED
  BY <1>2, <1>3, <1>4 DEF Coming

\* What comes stays due when the elements on the way stay.
LEMMA DueStays ==
  ASSUME Parts, Bounded, Deciding, Calm, DownStays, NEW n \in Int, NEW i \in Int, DueTo(n, i)
  PROVE  DueTo(n, i)'
<1> SUFFICES ASSUME NEW m \in Message, DateToFetch' < m, m <= n
             PROVE  Held(m)' \/ Coming(m, i)'
  BY DEF DueTo
<1>1. DateToFetch < m
  BY DateGrows, Messages DEF Calm, Message
<1>2. Held(m) \/ Coming(m, i)
  BY <1>1 DEF DueTo
<1>3. Held(m) => Held(m)'
  BY HeldStays
<1>4. Coming(m, i) => Coming(m, i)'
  BY DEF Coming, DownStays
<1>5. QED
  BY <1>2, <1>3, <1>4

\* The first i - 1 elements of what was down are the first i - 2 of the rest.
LEMMA HeadReceived ==
  ASSUME Parts, Bounded, Deciding, Calm, DownReceived, NEW n \in Int, DueTo(n, 1)
  PROVE  HeldTo(n)'
<1> SUFFICES ASSUME NEW m \in Message, DateToFetch' < m, m <= n PROVE Held(m)'
  BY DEF HeldTo
<1>1. DateToFetch < m
  BY DateGrows, Messages DEF Calm, Message
<1>2. Held(m) \/ Coming(m, 1)
  BY <1>1 DEF DueTo
<1>3. Held(m) => Held(m)'
  BY HeldStays
<1>4. ASSUME NEW j \in DOMAIN down, j <= 1, Carries(down[j], m) PROVE Held(m)'
  <2>1. j = 1
    BY <1>4, LenProperties DEF Parts, WireType
  <2>2. QED
    BY <1>4, <2>1, FirstReceived
<1>5. QED
  BY <1>2, <1>3, <1>4 DEF Coming

\* Items have numbers of messages.
LEMMA ItemNumbers ==
  ASSUME Parts
  PROVE  /\ \A e \in Items : e.msg \in Nat
         /\ \A i \in DOMAIN down : down[i] \in Items /\ i \in Nat /\ i # 0
         /\ \A i \in DOMAIN Conn : Conn[i] \in Items /\ i \in Nat /\ i # 0
         /\ \A i \in DOMAIN Stor : Stor[i] \in Items /\ i \in Nat /\ i # 0
         /\ down \in Seq(Items) /\ DOMAIN down = 1..Len(down) /\ Len(down) \in Nat
         /\ \A query \in queries : query.after \in Nat
<1>1. \A e \in Items : e.msg \in Nat
  BY Messages DEF Items
<1>2. ASSUME NEW s \in Seq(Items)
      PROVE  /\ \A i \in DOMAIN s : s[i] \in Items /\ i \in Nat /\ i # 0
             /\ DOMAIN s = 1..Len(s) /\ Len(s) \in Nat
  BY LenProperties, ElementOfSeq
<1>3. Conn \in Seq(Items) /\ Stor \in Seq(Items) /\ down \in Seq(Items)
  BY Fronts DEF Parts, WireType
<1>4. \A query \in queries : query.after \in Nat
  BY Messages DEF Parts, QueriesType
<1>5. QED
  BY <1>1, <1>2, <1>3, <1>4

\* An end of the catch-up that is queued stays behind its messages.
LEMMA FinsHeldKept ==
  ASSUME Parts, Bounded, Deciding, Calm, FinsHeld, AnswersDue
  PROVE  FinsHeld'
<1> SUFFICES ASSUME NEW q \in Queue, NEW i \in DOMAIN blocks'[q], Closing(blocks'[q][i]),
                    NEW n, n = blocks'[q][i].msg
             PROVE  HeldTo(n)'
  BY DEF FinsHeld, HeldTo
<1>1. blocks[q] \in Seq(Items) /\ \A k \in DOMAIN blocks[q] : blocks[q][k].msg \in Int
  BY ItemNumbers, LenProperties, ElementOfSeq DEF Parts, BlocksType
<1>2. ASSUME NEW k \in DOMAIN blocks[q], blocks'[q][i] = blocks[q][k]
      PROVE  HeldTo(n)'
  <2>1. n \in Int /\ HeldTo(n)
    BY <1>1, <1>2 DEF FinsHeld
  <2>2. QED
    BY <2>1, HeldToStays
<1>3. CASE Same(q)
  BY <1>2, <1>3 DEF Same
<1>4. CASE Cut(q)
  BY <1>1, <1>2, <1>4, Cutting DEF Cut
<1>5. ASSUME NEW e, Put(q, e), ~Same(q) PROVE HeldTo(n)'
  <2>1. (i \in DOMAIN blocks[q] /\ blocks'[q][i] = blocks[q][i]) \/ blocks'[q][i] = e
    BY <1>1, <1>5, Putting DEF Put
  <2>2. CASE i \in DOMAIN blocks[q] /\ blocks'[q][i] = blocks[q][i]
    BY <1>2, <2>2
  <2>3. CASE Stor # <<>> /\ e = Stor[1] /\ blocks'[q][i] = e
    <3>1. n = Stor[1].msg
      BY <2>3
    <3>2. 1 \in DOMAIN Stor /\ n \in Int
      BY <2>3, <3>1, Fronts, ItemNumbers DEF Parts
    <3>3. HeldTo(n)
      BY <2>3, <3>1, <3>2 DEF FinsHeld, Stor, Queue
    <3>4. QED
      BY <3>2, <3>3, HeldToStays
  <2>4. CASE Receive /\ down # <<>> /\ e = down[1] /\ blocks'[q][i] = e
    <3>1. n = down[1].msg
      BY <2>4
    <3>2. 1 \in DOMAIN down /\ n \in Int
      <4>1. 1 \in DOMAIN down
        BY <2>4, Cutting DEF Parts, WireType
      <4>2. QED
        BY <3>1, <4>1, ItemNumbers
    <3>3. DueTo(n, 1)
      BY <2>4, <3>1, <3>2 DEF AnswersDue
    <3>4. DownReceived
      BY <2>4, DownMoves DEF DownReceived, Receive, ReceiveForStorage, ReceiveSubject,
           ReceiveLast, Received, Bounded
    <3>5. QED
      BY <3>2, <3>3, <3>4, HeadReceived
  <2>5. QED
    BY <1>5, <2>1, <2>2, <2>3, <2>4, PutComesFrom
<1>6. QED
  BY <1>3, <1>4, <1>5, QueuesMove

\* What the answer to a query ends with is due with the last of its elements.
LEMMA AnswerIsDue ==
  ASSUME Parts, Bounded, Deciding, Calm, QueriesDue,
         NEW query \in queries, NEW to \in 0..MaxMessage, Answer(query, to), ~query.room,
         NEW n, n = Len(down')
  PROVE  DueTo(to, n)'
<1> SUFFICES ASSUME NEW m \in Message, DateToFetch' < m, m <= to
             PROVE  Held(m)' \/ Coming(m, n)'
  BY DEF DueTo
<1>1. PICK p \in Seq(Items) : Adds(query, to, p)
  BY AnswerAdds
<1> USE DEF Adds
<1>2. /\ down \in Seq(Items) /\ Len(down) \in Nat /\ query.after \in Nat /\ m \in Nat
      /\ \A k \in DOMAIN down : k \in Nat /\ k <= Len(down)
  BY ItemNumbers, Messages DEF Message
<1>3. /\ n = Len(down) + Len(p) /\ Len(p) \in Nat
      /\ DownStays
      /\ \A j \in DOMAIN p :
           j \in Nat /\ Len(down) + j \in DOMAIN down' /\ down'[Len(down) + j] = p[j]
  <2>1. /\ Len(down \o p) = Len(down) + Len(p) /\ Len(p) \in Nat
        /\ \A k \in DOMAIN down : k \in DOMAIN (down \o p) /\ (down \o p)[k] = down[k]
        /\ \A j \in DOMAIN p :
             Len(down) + j \in DOMAIN (down \o p) /\ (down \o p)[Len(down) + j] = p[j]
        /\ DOMAIN p = 1..Len(p)
    BY <1>2, Joining
  <2>2. QED
    BY <1>1, <2>1 DEF DownStays
<1>4. CASE m <= query.after
  <2>1. DateToFetch < m
    BY <1>2, DateGrows DEF Calm
  <2>2. Held(m) \/ Coming(m, Len(down))
    BY <1>4, <2>1 DEF QueriesDue, DueTo
  <2>3. ASSUME NEW k \in DOMAIN down, Carries(down[k], m) PROVE Coming(m, n)'
    <3>1. k \in DOMAIN down' /\ k <= n /\ Carries(down'[k], m)
      BY <1>2, <1>3, <2>3 DEF DownStays
    <3>2. QED
      BY <3>1 DEF Coming
  <2>4. QED
    BY <2>2, <2>3, HeldStays DEF Coming
<1>5. CASE query.after < m
  <2>1. PICK j \in DOMAIN p : j < Len(p) /\ Carries(p[j], m)
    BY <1>1, <1>5
  <2>2. Len(down) + j \in DOMAIN down' /\ Len(down) + j <= n /\ Carries(down'[Len(down) + j], m)
    BY <1>2, <1>3, <2>1
  <2>3. QED
    BY <2>2 DEF Coming
<1>6. QED
  BY <1>2, <1>4, <1>5

\* What an answer adds.
AnswerItems(query, to) ==
  \A i \in DOMAIN down' : i \in DOMAIN down \/
    /\ ~Live(down'[i])
    /\ Closing(down'[i]) \/ down'[i].kind = "last" =>
         /\ i = Len(down') /\ ~query.room /\ down'[i].msg = to
         /\ Closing(down'[i]) => to = archived

\* Of an answer only the last element ends a query, after what it answers with.
LEMMA AnswerEnds ==
  ASSUME Parts, Bounded, NEW query \in queries, NEW to \in 0..MaxMessage, Answer(query, to)
  PROVE  AnswerItems(query, to)
<1>1. PICK p \in Seq(Items) : Adds(query, to, p)
  BY AnswerAdds
<1> USE DEF Adds
<1> SUFFICES ASSUME NEW i \in DOMAIN down', i \notin DOMAIN down
             PROVE  /\ ~Live(down'[i])
                    /\ Closing(down'[i]) \/ down'[i].kind = "last" =>
                         /\ i = Len(down') /\ ~query.room /\ down'[i].msg = to
                         /\ Closing(down'[i]) => to = archived
  BY DEF AnswerItems
<1>2. /\ i \in Nat /\ i - Len(down) \in DOMAIN p /\ down'[i] = p[i - Len(down)]
      /\ Len(down') = Len(down) + Len(p) /\ Len(down) \in Nat /\ Len(p) \in Nat
  BY <1>1, ItemNumbers, Joining
<1>3. i - Len(down) = Len(p) => i = Len(down')
  BY <1>2
<1>4. QED
  BY <1>1, <1>2, <1>3

\* An answer on the way stays behind its messages.
LEMMA AnswersDueKept ==
  ASSUME Parts, Bounded, Deciding, Calm, AnswersDue, QueriesDue
  PROVE  AnswersDue'
<1> SUFFICES ASSUME NEW i \in DOMAIN down', Closing(down'[i]) \/ down'[i].kind = "last",
                    NEW n, n = down'[i].msg
             PROVE  DueTo(n, i)'
  BY DEF AnswersDue, DueTo
<1>1. CASE DownReceived
  <2>1. i \in Nat /\ i + 1 \in DOMAIN down /\ down'[i] = down[i + 1]
    BY <1>1, ItemNumbers, Cutting DEF DownReceived
  <2>2. n \in Int /\ DueTo(n, i + 1)
    BY <2>1, ItemNumbers DEF AnswersDue
  <2>3. DueTo(n, (i + 1) - 1)'
    BY <1>1, <2>1, <2>2, DueReceived
  <2>4. (i + 1) - 1 = i
    BY <2>1
  <2>5. QED
    BY <2>3, <2>4
<1>2. CASE down' = <<>>
  BY <1>2
<1>3. CASE DownStays /\ i \in DOMAIN down
  <2>1. n \in Int /\ i \in Int /\ DueTo(n, i)
    BY <1>3, ItemNumbers DEF AnswersDue, DownStays
  <2>2. QED
    BY <1>3, <2>1, DueStays
<1>4. ASSUME NEW e \in Items, down' = Append(down, e), ~Closing(e), e.kind # "last"
      PROVE  i \in DOMAIN down
  BY <1>4, ItemNumbers, Putting
<1>5. ASSUME NEW query \in queries, NEW to \in 0..MaxMessage, Answer(query, to),
             i \notin DOMAIN down
      PROVE  DueTo(n, i)'
  <2>1. AnswerItems(query, to)
    BY <1>5, AnswerEnds
  <2>2. ~query.room /\ n = to /\ i = Len(down')
    BY <1>5, <2>1 DEF AnswerItems
  <2>3. QED
    BY <1>5, <2>2, AnswerIsDue
<1>6. Plain("subject") \in Items /\ \A m \in Message : Item("message", m, TRUE) \in Items
  BY ItemTypes, Messages DEF Kind
<1>7. Archive => Item("message", archived', FALSE) \in Items
  <2>1. Archive => archived' \in 0..MaxMessage
    BY Messages DEF Archive, Parts, WireType
  <2>2. QED
    BY <2>1, ItemTypes DEF Kind
<1>8. /\ \A m, b : Item("message", m, b).kind # "last" /\ ~Closing(Item("message", m, b))
      /\ Plain("subject").kind # "last" /\ ~Closing(Plain("subject"))
  BY DEF Closing, Plain, Item
<1>9. CASE i \notin DOMAIN down /\ ~DownReceived
  <2>1. CASE down' = down
    BY <1>9, <2>1
  <2>2. CASE \E query \in queries, to \in 0..MaxMessage : Answer(query, to)
    BY <1>5, <1>9, <2>2
  <2>3. QED
    BY <1>2, <1>4, <1>6, <1>7, <1>8, <1>9, <2>1, <2>2, DownMoves DEF DownReceived
<1>10. QED
  BY <1>1, <1>2, <1>3, <1>9, DownFrom

\* What is older than the point a query asks from is held or on the way.
LEMMA QueriesDueKept ==
  ASSUME Parts, Bounded, Deciding, Calm, AnswersDue, QueriesDue
  PROVE  QueriesDue'
<1> SUFFICES ASSUME NEW query \in queries', ~query.room, NEW n, n = query.after,
                    NEW l, l = Len(down')
             PROVE  DueTo(n, l)'
  BY DEF QueriesDue, DueTo
<1>1. CASE query \in queries /\ DownReceived
  <2>1. n \in Int /\ DueTo(n, Len(down)) /\ Len(down) \in Nat
    BY <1>1, ItemNumbers DEF QueriesDue
  <2>2. l = Len(down) - 1
    BY <1>1, ItemNumbers, Cutting DEF DownReceived
  <2>3. l \in Int /\ l + 1 = Len(down) /\ (l + 1) - 1 = l
    BY <2>1, <2>2
  <2>4. l + 1 \in Int /\ DueTo(n, l + 1)
    BY <2>1, <2>3
  <2>5. DueTo(n, (l + 1) - 1)'
    BY <1>1, <2>1, <2>4, DueReceived
  <2>6. QED
    BY <2>3, <2>5
<1>2. CASE /\ query \in queries /\ DownStays
           /\ Len(down') \in Nat /\ Len(down) <= Len(down')
  <2> SUFFICES ASSUME NEW m \in Message, DateToFetch' < m, m <= n
               PROVE  Held(m)' \/ Coming(m, l)'
    BY DEF DueTo
  <2>1. DateToFetch < m
    BY DateGrows, Messages DEF Calm, Message
  <2>2. Held(m) \/ Coming(m, Len(down))
    BY <1>2, <2>1 DEF QueriesDue, DueTo
  <2>3. ASSUME NEW k \in DOMAIN down, Carries(down[k], m) PROVE Coming(m, l)'
    <3>1. k \in DOMAIN down' /\ Carries(down'[k], m) /\ k <= Len(down) /\ k \in Nat
      BY <1>2, <2>3, ItemNumbers DEF DownStays
    <3>2. k <= l
      BY <1>2, <3>1, ItemNumbers
    <3>3. QED
      BY <3>1, <3>2 DEF Coming
  <2>4. QED
    BY <2>2, <2>3, HeldStays DEF Coming
<1>3. CASE down' = <<>> /\ queries' = {}
  BY <1>3
<1>4. CASE query \notin queries
  <2>1. CASE FetchHistory
    <3>1. query.after = DateToFetch
      BY <1>4, <2>1 DEF FetchHistory, Ask
    <3>2. DateToFetch' = DateToFetch
      BY <2>1 DEF FetchHistory, database, DateToFetch
    <3>3. \A m \in Message : ~(DateToFetch' < m /\ m <= n)
      BY <3>1, <3>2, DateGrows, Messages DEF Calm, Message
    <3>4. QED
      BY <3>3 DEF DueTo
  <2>2. CASE ReceiveLast
    <3>1. down # <<>> /\ Head(down) = down[1] /\ 1 \in DOMAIN down /\ down[1].kind = "last"
      BY <2>2, ItemNumbers, Cutting DEF ReceiveLast, Received
    <3>2. n = down[1].msg /\ n \in Int
      BY <1>4, <2>2, <3>1, ItemNumbers DEF ReceiveLast
    <3>3. DownReceived
      BY <2>2, DownMoves, <3>1 DEF DownReceived, Receive, ReceiveLast, Received, Bounded
    <3>4. DueTo(n, 1)
      BY <3>1, <3>2 DEF AnswersDue
    <3>5. HeldTo(n)'
      BY <3>2, <3>3, <3>4, HeadReceived
    <3>6. QED
      BY <3>5 DEF HeldTo, DueTo
  <2>3. CASE FetchRoom
    BY <1>4, <2>3 DEF FetchRoom, Ask
  <2>4. QED
    BY <1>4, <2>1, <2>2, <2>3, CalmSteps, StorageMoves, RoomsMoves, ClientMoves
       DEF ConnectionStep, BeginCatchup, RoomAccess, StoreForwarded, DropDuplicate, BeginUpdate,
           StoreMessage, SaveFetchDate, wire, Archive, JoinRoom, AnswerSome, Answer, Disconnect,
           Resend, vars
<1>5. QED
  BY <1>1, <1>2, <1>3, <1>4, DownFrom

-----------------------------------------------------------------------------
(* What an answer is ahead of.                                             *)

\* What is new on the way to the client.
LEMMA NewDown ==
  ASSUME Parts, Bounded, Calm, ~DownReceived, NEW i \in DOMAIN down', i \notin DOMAIN down
  PROVE  \/ \E query \in queries, to \in 0..MaxMessage : Answer(query, to) /\ archived' = archived
         \/ /\ i = Len(down) + 1 /\ down'[i].msg <= archived' /\ ~Closing(down'[i])
            /\ Live(down'[i]) /\ connected /\ DownStays
            /\ \/ archived' = archived
               \/ archived' = archived + 1 /\ down'[i].msg = archived'
         \/ ~Known(down'[i])
<1>1. ASSUME NEW e \in Items, down' = Append(down, e)
      PROVE  i = Len(down) + 1 /\ down'[i] = e /\ DownStays
  BY <1>1, ItemNumbers, Putting DEF DownStays
<1>2. Plain("subject") \in Items /\ \A m \in Message : Item("message", m, TRUE) \in Items
  BY ItemTypes, Messages DEF Kind
<1>3. Archive => Item("message", archived', FALSE) \in Items
  <2>1. Archive => archived' \in 0..MaxMessage
    BY Messages DEF Archive, Parts, WireType
  <2>2. QED
    BY <2>1, ItemTypes DEF Kind
<1>4. CASE down' = down \/ down' = <<>>
  BY <1>4
<1>5. CASE /\ Archive /\ connected /\ archived' = archived + 1
           /\ down' = Append(down, Item("message", archived', FALSE))
  <2>1. down'[i] = Item("message", archived', FALSE) /\ i = Len(down) + 1 /\ DownStays
    BY <1>1, <1>3, <1>5
  <2>2. archived' \in Nat
    BY <1>5 DEF Parts, WireType
  <2>3. QED
    BY <1>5, <2>1, <2>2 DEF Item, Live, Closing
<1>6. CASE JoinRoom /\ down' = Append(down, Plain("subject"))
  <2>1. down'[i] = Plain("subject")
    BY <1>1, <1>2, <1>6
  <2>2. QED
    BY <2>1 DEF Plain, Item, Known, Live, Closing
<1>7. CASE /\ \E m \in Message : Resend(m) /\ down' = Append(down, Item("message", m, TRUE))
           /\ connected /\ archived' = archived
  <2>1. PICK m \in Message : Resend(m) /\ down' = Append(down, Item("message", m, TRUE))
    BY <1>7
  <2>2. down'[i] = Item("message", m, TRUE) /\ i = Len(down) + 1 /\ DownStays
    BY <1>1, <1>2, <2>1
  <2>3. m <= archived
    BY <2>1 DEF Resend
  <2>4. QED
    BY <1>7, <2>2, <2>3 DEF Item, Live, Closing
<1>8. QED
  BY <1>4, <1>5, <1>6, <1>7, DownMoves DEF DownReceived

\* What is on the way keeps its type.
LEMMA DownIsTyped ==
  ASSUME Parts, Deciding, Calm
  PROVE  down' \in Seq(Items)
<1>1. Parts'
  BY PartsKept DEF Calm
<1>2. QED
  BY <1>1 DEF Parts, WireType

\* What MessageStorage hands to the connection is not newer than the answer
\* behind it.
LEMMA AheadKept ==
  ASSUME Parts, Deciding, Calm, NEW n, Ahead(n),
         Cut("storage") /\ 1 \in DOMAIN Stor /\ Live(Stor[1]) => Stor[1].msg <= n
  PROVE  Ahead(n)'
<1> SUFFICES ASSUME NEW j \in DOMAIN Conn', Live(Conn'[j]) PROVE Conn'[j].msg <= n
  BY DEF Ahead
<1>1. Known(Conn'[j])
  BY DEF Known
<1>2. QED
  BY <1>1, ConnFrom DEF Ahead

\* No message before an end in the storage queue becomes newer than it.
LEMMA StorAheadKept ==
  ASSUME Parts, Bounded, Deciding, Calm, StorAhead, DownAhead
  PROVE  StorAhead'
<1> SUFFICES ASSUME NEW i \in DOMAIN Stor', Closing(Stor'[i]), NEW n, n = Stor'[i].msg
             PROVE  /\ Ahead(n)'
                    /\ \A j \in DOMAIN Stor' : j < i /\ Live(Stor'[j]) => Stor'[j].msg <= n
  BY DEF StorAhead, Ahead
<1>1. Known(Stor'[i])
  BY DEF Known
<1>2. DOMAIN Stor = 1..Len(Stor) /\ Len(Stor) \in Nat
  BY Fronts DEF Parts
<1>3. CASE ~Cut("storage") /\ i \in DOMAIN Stor /\ Stor'[i] = Stor[i]
  <2>1. Ahead(n) /\ \A j \in DOMAIN Stor : j < i /\ Live(Stor[j]) => Stor[j].msg <= n
    BY <1>3 DEF StorAhead
  <2>2. Ahead(n)'
    BY <1>3, <2>1, AheadKept
  <2>3. ASSUME NEW j \in DOMAIN Stor', j < i, Live(Stor'[j]) PROVE Stor'[j].msg <= n
    <3>1. j \in DOMAIN Stor /\ Stor'[j] = Stor[j]
      BY <1>2, <1>3, <2>3, StorFrom DEF Known
    <3>2. QED
      BY <2>1, <2>3, <3>1
  <2>4. QED
    BY <2>2, <2>3
<1>4. CASE Cut("storage") /\ i \in Nat /\ i + 1 \in DOMAIN Stor /\ Stor'[i] = Stor[i + 1]
  <2>1. Ahead(n) /\ \A j \in DOMAIN Stor : j < i + 1 /\ Live(Stor[j]) => Stor[j].msg <= n
    BY <1>4 DEF StorAhead
  <2>2. i # 0
    BY <1>4, ItemNumbers DEF Cut, Stor
  <2>3. 1 < i + 1
    <3>1. Stor \in Seq(Items) /\ Stor # <<>> /\ Stor' = Tail(Stor)
      BY <1>4, Fronts DEF Cut, Stor, Parts
    <3>2. i \in 1..Len(Tail(Stor))
      BY <3>1, Cutting, LenProperties
    <3>3. QED
      BY <1>4, <3>2
  <2>4. Ahead(n)'
    BY <2>1, <2>3, AheadKept
  <2>5. ASSUME NEW j \in DOMAIN Stor', j < i, Live(Stor'[j]) PROVE Stor'[j].msg <= n
    <3>1. j \in Nat /\ j + 1 \in DOMAIN Stor /\ Stor'[j] = Stor[j + 1]
      BY <1>4, <2>5, StorFrom DEF Known
    <3>2. j + 1 < i + 1
      BY <1>4, <2>5, <3>1
    <3>3. QED
      BY <2>1, <2>5, <3>1, <3>2
  <2>6. QED
    BY <2>4, <2>5
<1>5. CASE /\ ~Cut("storage") /\ i = Len(Stor) + 1 /\ down # <<>> /\ Stor'[i] = down[1]
  <2>1. 1 \in DOMAIN down
    BY <1>5, ItemNumbers, Cutting
  <2>2. Ahead(n) /\ \A j \in DOMAIN Stor : Live(Stor[j]) => Stor[j].msg <= n
    BY <1>5, <2>1 DEF DownAhead
  <2>3. Ahead(n)'
    BY <1>5, <2>2, AheadKept
  <2>4. ASSUME NEW j \in DOMAIN Stor', j < i, Live(Stor'[j]) PROVE Stor'[j].msg <= n
    <3>1. j \in DOMAIN Stor /\ Stor'[j] = Stor[j]
      BY <1>2, <1>5, <2>4, StorFrom DEF Known
    <3>2. QED
      BY <2>2, <2>4, <3>1
  <2>5. QED
    BY <2>3, <2>4
<1>6. QED
  BY <1>1, <1>3, <1>4, <1>5, StorFrom

\* No message before an end on the way becomes newer than it.
LEMMA DownAheadKept ==
  ASSUME Parts, Bounded, Bounded', Deciding, Calm, DownAhead
  PROVE  DownAhead'
<1> SUFFICES ASSUME NEW i \in DOMAIN down', Closing(down'[i]), NEW n, n = down'[i].msg
             PROVE  /\ Ahead(n)'
                    /\ \A j \in DOMAIN Stor' : Live(Stor'[j]) => Stor'[j].msg <= n
                    /\ \A j \in DOMAIN down' : j < i /\ Live(down'[j]) => down'[j].msg <= n
  BY DEF DownAhead, Ahead
<1>1. ASSUME NEW k \in DOMAIN down, Closing(down[k]), down[k].msg = n
      PROVE  Ahead(n)' /\ \A j \in DOMAIN Stor' : Live(Stor'[j]) => Stor'[j].msg <= n
  <2>1. /\ Ahead(n) /\ \A j \in DOMAIN Stor : Live(Stor[j]) => Stor[j].msg <= n
        /\ \A j \in DOMAIN down : j < k /\ Live(down[j]) => down[j].msg <= n
    BY <1>1 DEF DownAhead
  <2>2. Ahead(n)'
    BY <2>1, AheadKept
  <2>3. ASSUME NEW j \in DOMAIN Stor', Live(Stor'[j]) PROVE Stor'[j].msg <= n
    <3>1. CASE down # <<>> /\ Stor'[j] = down[1]
      <4>1. 1 \in DOMAIN down /\ k \in Nat /\ k # 0
        BY <3>1, ItemNumbers, Cutting
      <4>2. k # 1
        BY <1>1, <2>3, <3>1 DEF Live, Closing
      <4>3. 1 < k
        BY <4>1, <4>2
      <4>4. QED
        BY <2>1, <2>3, <3>1, <4>1, <4>3
    <3>2. QED
      BY <2>1, <2>3, <3>1, StorFrom DEF Known
  <2>4. QED
    BY <2>2, <2>3
<1>2. CASE DownReceived
  <2>1. /\ i \in Nat /\ i + 1 \in DOMAIN down /\ down'[i] = down[i + 1]
        /\ \A j \in DOMAIN down' : j \in Nat /\ j + 1 \in DOMAIN down /\ down'[j] = down[j + 1]
    BY <1>2, ItemNumbers, Cutting DEF DownReceived
  <2>2. Ahead(n)' /\ \A j \in DOMAIN Stor' : Live(Stor'[j]) => Stor'[j].msg <= n
    BY <1>1, <2>1
  <2>3. ASSUME NEW j \in DOMAIN down', j < i, Live(down'[j]) PROVE down'[j].msg <= n
    <3>1. j + 1 < i + 1
      BY <2>1, <2>3
    <3>2. QED
      BY <2>1, <2>3, <3>1 DEF DownAhead
  <2>4. QED
    BY <2>2, <2>3
<1>3. CASE DownStays /\ i \in DOMAIN down /\ Len(down') \in Nat /\ ~DownReceived
  <2>1. Ahead(n)' /\ \A j \in DOMAIN Stor' : Live(Stor'[j]) => Stor'[j].msg <= n
    BY <1>1, <1>3 DEF DownStays
  <2>2. ASSUME NEW j \in DOMAIN down', j < i, Live(down'[j]) PROVE down'[j].msg <= n
    <3>1. j \in Nat /\ j # 0
      <4>1. down' \in Seq(Items)
        BY DownIsTyped
      <4>2. DOMAIN down' = 1..Len(down')
        BY <4>1, LenProperties
      <4>3. QED
        BY <1>3, <4>2
    <3>2. j \in DOMAIN down
      BY <1>3, <2>2, <3>1, ItemNumbers
    <3>3. QED
      BY <1>3, <2>2, <3>2 DEF DownStays, DownAhead
  <2>3. QED
    BY <2>1, <2>2
<1>4. CASE i \notin DOMAIN down /\ ~DownReceived
  <2>1. PICK query \in queries, to \in 0..MaxMessage : Answer(query, to) /\ archived' = archived
    BY <1>4, NewDown DEF Known
  <2>2. AnswerItems(query, to)
    BY <2>1, AnswerEnds
  <2>3. n = archived'
    BY <1>4, <2>1, <2>2 DEF AnswerItems
  <2>4. QED
    BY <2>3 DEF Bounded, Ahead, Conn, Stor, Queue
<1>5. CASE down' = <<>>
  BY <1>5
<1>6. QED
  BY <1>2, <1>3, <1>4, <1>5, DownFrom

-----------------------------------------------------------------------------
(* When a place on the queue of MessageStorage opens.                      *)

\* Only the first block of MessageStorage ends a catch-up.
LEMMA FirstEnds ==
  ASSUME Parts, Deciding, Calm, DidFinish
  PROVE  Cut("storage")
<1>1. ~LookUpRoom
  BY DEF DidFinish, LookUpRoom, Running
<1>2. QED
  BY <1>1, StorageMoves DEF StorageStep

\* What opens a place on the queue of MessageStorage stays in front of it.
LEMMA OpensStays ==
  ASSUME Parts, Deciding, Synced, Calm, ~Cut("storage"),
         NEW i \in Int, i <= Len(Stor) + 1, Opens(i)
  PROVE  Opens(i)'
<1>1. DOMAIN Stor = 1..Len(Stor) /\ Len(Stor) \in Nat /\ Stor \in Seq(Items)
  BY Fronts DEF Parts
<1>2. Same("storage") \/ \E e : Put("storage", e)
  BY QueuesMove DEF Queue
<1>3. /\ \A k \in DOMAIN Stor : k \in DOMAIN Stor' /\ Stor'[k] = Stor[k]
      /\ \A k \in DOMAIN Stor' : k < i => k \in DOMAIN Stor
  <2>1. CASE Same("storage")
    BY <2>1 DEF Same, Stor
  <2>2. ASSUME NEW e, Put("storage", e)
        PROVE  /\ \A k \in DOMAIN Stor : k \in DOMAIN Stor' /\ Stor'[k] = Stor[k]
               /\ \A k \in DOMAIN Stor' : k < i => k \in DOMAIN Stor
    <3>1. e \in Items /\ Stor' = Append(Stor, e)
      BY <2>2 DEF Put, Stor
    <3>2. QED
      BY <1>1, <3>1, Putting
  <2>3. QED
    BY <1>2, <2>1, <2>2
<1>4. CASE Catching /\ \A k \in DOMAIN Stor : k < i => ~Closing(Stor[k])
  <2>1. Catching'
    BY <1>4, CatchingStays, FirstEnds DEF EndsCatchup
  <2>2. QED
    BY <1>3, <1>4, <2>1 DEF Opens
<1>5. ASSUME NEW j \in DOMAIN Stor, j < i, Stor[j].kind = "didAuthenticate",
             \A k \in DOMAIN Stor : j < k /\ k < i => ~Closing(Stor[k])
      PROVE  Opens(i)'
  BY <1>3, <1>5 DEF Opens
<1>6. QED
  BY <1>4, <1>5 DEF Opens

\* ... also when another block is put behind, unless that ends the catch-up.
LEMMA OpensPut ==
  ASSUME Parts, Deciding, Synced, Calm, NEW e, Put("storage", e), ~Closing(e),
         Opens(Len(Stor) + 1), NEW l, l = Len(Stor) + 2
  PROVE  Opens(l)'
<1>1. /\ DOMAIN Stor = 1..Len(Stor) /\ Len(Stor) \in Nat /\ Stor \in Seq(Items)
      /\ e \in Items /\ Stor' = Append(Stor, e)
  BY Fronts DEF Parts, Put, Stor
<1>2. /\ ~Cut("storage")
      /\ \A k \in DOMAIN Stor' : k # Len(Stor) + 1 => k \in DOMAIN Stor /\ Stor'[k] = Stor[k]
      /\ \A k \in DOMAIN Stor : k \in DOMAIN Stor' /\ Stor'[k] = Stor[k]
      /\ Stor'[Len(Stor) + 1] = e
  BY <1>1, Putting, CutOrPut DEF Parts, Queue
<1>3. CASE Catching /\ \A k \in DOMAIN Stor : k < Len(Stor) + 1 => ~Closing(Stor[k])
  <2>1. Catching'
    BY <1>2, <1>3, CatchingStays, FirstEnds DEF EndsCatchup
  <2>2. QED
    BY <1>1, <1>2, <1>3, <2>1 DEF Opens
<1>4. ASSUME NEW j \in DOMAIN Stor, Stor[j].kind = "didAuthenticate",
             \A k \in DOMAIN Stor : j < k /\ k < Len(Stor) + 1 => ~Closing(Stor[k])
      PROVE  Opens(l)'
  BY <1>1, <1>2, <1>4 DEF Opens
<1>5. QED
  BY <1>3, <1>4 DEF Opens

\* A login opens what comes behind it.
LEMMA OpensLogin ==
  ASSUME Parts, Put("storage", Plain("didAuthenticate")), NEW l, l = Len(Stor) + 2
  PROVE  Opens(l)'
<1> DEFINE j == Len(Stor) + 1
<1>1. /\ Len(Stor) \in Nat /\ Stor \in Seq(Items)
      /\ Plain("didAuthenticate") \in Items /\ Stor' = Append(Stor, Plain("didAuthenticate"))
  BY Fronts DEF Parts, Put, Stor
<1>2. /\ j \in DOMAIN Stor' /\ Stor'[j] = Plain("didAuthenticate")
      /\ \A k \in DOMAIN Stor' : k \in Nat
  BY <1>1, Putting
<1>3. j < l /\ j \in Nat /\ \A k \in Nat : ~(j < k /\ k < l)
  BY <1>1
<1>4. Stor'[j].kind = "didAuthenticate"
  BY <1>2 DEF Plain, Item
<1> HIDE DEF j
<1>5. QED
  BY <1>2, <1>3, <1>4 DEF Opens

\* When the first block ends, the others move up.
LEMMA OpensCut ==
  ASSUME Parts, Deciding, Synced, Calm, Cut("storage"), NEW i \in Int, 2 <= i, Opens(i),
         NEW l, l = i - 1
  PROVE  Opens(l)'
<1>1. /\ Stor \in Seq(Items) /\ Stor # <<>> /\ Stor' = Tail(Stor)
      /\ 1 \in DOMAIN Stor /\ Head(Stor) = Stor[1]
  BY Fronts DEF Parts, Cut, Stor
<1>2. /\ \A k \in DOMAIN Stor' : k \in Nat /\ k + 1 \in DOMAIN Stor /\ Stor'[k] = Stor[k + 1]
      /\ \A k \in DOMAIN Stor : k # 1 => k - 1 \in DOMAIN Stor' /\ Stor'[k - 1] = Stor[k]
      /\ \A k \in DOMAIN Stor : k \in Nat /\ k # 0
  BY <1>1, Cutting, ItemNumbers
<1>3. CASE Catching /\ \A k \in DOMAIN Stor : k < i => ~Closing(Stor[k])
  <2>1. Catching'
    BY <1>1, <1>3, CatchingStays DEF EndsCatchup
  <2>2. ASSUME NEW k \in DOMAIN Stor', k < l PROVE ~Closing(Stor'[k])
    <3>1. k + 1 \in DOMAIN Stor /\ k + 1 < i /\ Stor'[k] = Stor[k + 1]
      BY <1>2, <2>2
    <3>2. QED
      BY <1>3, <3>1
  <2>3. QED
    BY <2>1, <2>2 DEF Opens
<1>4. ASSUME NEW j \in DOMAIN Stor, j < i, Stor[j].kind = "didAuthenticate",
             \A k \in DOMAIN Stor : j < k /\ k < i => ~Closing(Stor[k])
      PROVE  Opens(l)'
  <2>1. CASE j = 1
    <3>1. Running("storage", "didAuthenticate")
      BY <1>1, <1>4, <2>1 DEF Running, Stor
    <3>2. StorageStep
      BY CutOrPut, CalmSteps, RoomsMoves, ConnectionMoves, ClientMoves, ServerMoves
         DEF Parts, Queue, Same, Cut
    <3>3. DidAuthenticate
      BY <3>1, <3>2
         DEF StorageStep, HandleMessage, LookUpRoom, RoomLookedUp, DidFinish, SetInProgress,
             ReadInProgress, Running
    <3>4. Catching'
      BY <3>3, LoginFetches DEF Catching, Excused
    <3>5. ASSUME NEW k \in DOMAIN Stor', k < l PROVE ~Closing(Stor'[k])
      <4>1. k + 1 \in DOMAIN Stor /\ k + 1 < i /\ j < k + 1 /\ Stor'[k] = Stor[k + 1]
        <5>1. /\ k \in Nat /\ k + 1 \in DOMAIN Stor /\ k + 1 \in Nat /\ k + 1 # 0
              /\ Stor'[k] = Stor[k + 1]
          BY <1>2
        <5>2. k # 0
          <6>1. Stor' \in Seq(Items)
            BY <1>1, Cutting
          <6>2. DOMAIN Stor' = 1..Len(Stor') /\ Len(Stor') \in Nat
            BY <6>1, LenProperties
          <6>3. QED
            BY <6>2
        <5>3. QED
          BY <2>1, <3>5, <5>1, <5>2
      <4>2. QED
        BY <1>4, <4>1
    <3>6. QED
      BY <3>4, <3>5 DEF Opens
  <2>2. CASE j # 1
    <3>1. j - 1 \in DOMAIN Stor' /\ Stor'[j - 1] = Stor[j] /\ j - 1 < l /\ j - 1 \in Int
      BY <1>2, <1>4, <2>2
    <3>2. ASSUME NEW k \in DOMAIN Stor', j - 1 < k, k < l PROVE ~Closing(Stor'[k])
      <4>1. k + 1 \in DOMAIN Stor /\ k + 1 < i /\ j < k + 1 /\ Stor'[k] = Stor[k + 1]
        BY <1>2, <3>2
      <4>2. QED
        BY <1>4, <4>1
    <3>3. QED
      BY <1>4, <3>1, <3>2 DEF Opens
  <2>3. QED
    BY <2>1, <2>2
<1>5. QED
  BY <1>3, <1>4 DEF Opens

\* The end of the queue stays open until a block is put there that ends the
\* catch-up.
LEMMA OpensEnd ==
  ASSUME Parts, Deciding, Synced, Calm, Opens(Len(Stor) + 1),
         \A e : Put("storage", e) => ~Closing(e),
         NEW l, l = Len(Stor') + 1
  PROVE  Opens(l)'
<1>1. Len(Stor) \in Nat /\ Stor \in Seq(Items)
  BY Fronts DEF Parts
<1>2. Same("storage") \/ Cut("storage") \/ \E e : Put("storage", e)
  BY QueuesMove DEF Queue
<1>3. CASE Same("storage") /\ ~Cut("storage")
  <2>1. l = Len(Stor) + 1 /\ l \in Int
    BY <1>1, <1>3 DEF Same, Stor
  <2>2. QED
    BY <1>1, <1>3, <2>1, OpensStays
<1>4. CASE Cut("storage")
  <2>1. Stor # <<>> /\ Stor' = Tail(Stor)
    BY <1>4 DEF Cut, Stor
  <2>2. Len(Stor') = Len(Stor) - 1 /\ 1 \in 1..Len(Stor)
    BY <1>1, <2>1, Cutting
  <2>3. 2 <= Len(Stor) + 1 /\ l = (Len(Stor) + 1) - 1 /\ Len(Stor) + 1 \in Int
    BY <1>1, <2>2
  <2>4. QED
    BY <1>4, <2>3, OpensCut
<1>5. ASSUME NEW e, Put("storage", e) PROVE Opens(l)'
  <2>1. Len(Stor') = Len(Stor) + 1
    BY <1>1, <1>5, Putting DEF Put, Stor
  <2>2. l = Len(Stor) + 2
    BY <1>1, <2>1
  <2>3. QED
    BY <1>5, <2>2, OpensPut
<1>6. QED
  BY <1>2, <1>3, <1>4, <1>5

-----------------------------------------------------------------------------
(* Messages that come live.                                                *)

\* What goes to the storage queue was the first element on the way.
LEMMA StorageReceives ==
  ASSUME Parts, Bounded, Calm, ReceiveForStorage
  PROVE  DownReceived
<1>1. Receive /\ down # <<>> /\ down' = Tail(down) /\ connected' = connected /\ archived' = archived
  BY DEF Receive, ReceiveForStorage, Received
<1>2. connected
  BY <1>1 DEF Bounded
<1>3. QED
  BY <1>1, <1>2 DEF DownReceived

\* A queue with a block put behind it is not the same.
LEMMA PutMoves ==
  ASSUME Parts, NEW q \in Queue, NEW e, Put(q, e)
  PROVE  ~Same(q)
<1>1. blocks[q] \in Seq(Items) /\ e \in Items
  BY DEF Parts, BlocksType, Put
<1>2. Len(Append(blocks[q], e)) = Len(blocks[q]) + 1 /\ Len(blocks[q]) \in Nat
  BY <1>1, Putting
<1>3. QED
  BY <1>2 DEF Put, Same

\* What is older than a live message in the storage queue stays accounted for.
LEMMA StorDueKept ==
  ASSUME Parts, Bounded, Deciding, Synced, Calm, StorDue, DownDue
  PROVE  StorDue'
<1> SUFFICES ASSUME NEW i \in DOMAIN Stor', Live(Stor'[i]), NEW n, n = Stor'[i].msg
             PROVE  HeldTo(n)' \/ Opens(i)'
  BY DEF StorDue, HeldTo
<1>1. DOMAIN Stor = 1..Len(Stor) /\ Len(Stor) \in Nat
  BY Fronts DEF Parts
<1>2. CASE ~Cut("storage") /\ i \in DOMAIN Stor /\ Stor'[i] = Stor[i]
  <2>1. n \in Int /\ i \in Int /\ i <= Len(Stor) + 1
    BY <1>1, <1>2, ItemNumbers
  <2>2. HeldTo(n) \/ Opens(i)
    BY <1>2 DEF StorDue
  <2>3. QED
    BY <1>2, <2>1, <2>2, HeldToStays, OpensStays
<1>3. CASE Cut("storage") /\ i \in Nat /\ i + 1 \in DOMAIN Stor /\ Stor'[i] = Stor[i + 1]
  <2>1. n \in Int /\ i + 1 \in Int /\ i = (i + 1) - 1
    BY <1>1, <1>3, ItemNumbers
  <2>2. HeldTo(n) \/ Opens(i + 1)
    BY <1>3 DEF StorDue
  <2>3. 2 <= i + 1
    <3>1. Stor \in Seq(Items) /\ Stor # <<>> /\ Stor' = Tail(Stor)
      BY <1>3, Fronts DEF Cut, Stor, Parts
    <3>2. i \in 1..Len(Tail(Stor))
      BY <3>1, Cutting, LenProperties
    <3>3. QED
      BY <1>3, <3>2
  <2>4. CASE HeldTo(n)
    BY <2>1, <2>4, HeldToStays
  <2>5. CASE Opens(i + 1)
    BY <1>3, <2>1, <2>3, <2>5, OpensCut
  <2>6. QED
    BY <2>2, <2>4, <2>5
<1>4. CASE /\ ~Cut("storage") /\ i = Len(Stor) + 1 /\ ReceiveForStorage
           /\ down # <<>> /\ down' = Tail(down) /\ Stor'[i] = down[1]
  <2>1. 1 \in DOMAIN down /\ n \in Int
    BY <1>4, ItemNumbers, Cutting
  <2>2. DueTo(n, 1) \/ OpensDown(1)
    BY <1>4, <2>1 DEF DownDue
  <2>3. CASE DueTo(n, 1)
    <3>1. DownReceived
      BY <1>4, StorageReceives
    <3>2. QED
      BY <2>1, <2>3, <3>1, HeadReceived
  <2>4. CASE OpensDown(1)
    <3>1. i \in Int /\ i <= Len(Stor) + 1 /\ Opens(i)
      BY <1>1, <1>4, <2>4 DEF OpensDown
    <3>2. QED
      BY <1>4, <3>1, OpensStays
  <2>5. QED
    BY <2>2, <2>3, <2>4
<1>5. QED
  BY <1>2, <1>3, <1>4, StorFrom DEF Known

\* A catch-up that opens before an element on the way still does when elements are added.
LEMMA OpensDownStays ==
  ASSUME Parts, Bounded, Deciding, Synced, Calm, DownStays, Len(down) <= Len(down'),
         NEW i, OpensDown(i),
         NEW l,
         \A k \in DOMAIN down' : k < l => (k \in DOMAIN down /\ k < i) \/ ~Closing(down'[k])
  PROVE  OpensDown(l)'
<1>1. \A e : Put("storage", e) => ~Closing(e)
  <2> SUFFICES ASSUME NEW e, Put("storage", e), Closing(e) PROVE FALSE
    OBVIOUS
  <2>1. ~Same("storage")
    BY PutMoves DEF Queue
  <2>2. down # <<>> /\ down' = Tail(down)
    BY <2>1, PutComesFrom DEF Queue
  <2>3. QED
    BY <2>2, ItemNumbers, Cutting
<1>2. Opens(Len(Stor) + 1)
  BY DEF OpensDown
<1> SUFFICES ASSUME NEW n, n = Len(Stor') + 1 PROVE OpensDown(l)'
  OBVIOUS
<1>3. Opens(n)'
  BY <1>1, <1>2, OpensEnd
<1>4. \A k \in DOMAIN down' : k < l => ~Closing(down'[k])
  BY DEF DownStays, OpensDown
<1>5. QED
  BY <1>3, <1>4 DEF OpensDown, Opens

\* A catch-up that opens before an element on the way still does when one is received.
LEMMA OpensDownReceived ==
  ASSUME Parts, Bounded, Deciding, Synced, Calm, DownReceived, NEW i \in Int, 2 <= i, OpensDown(i),
         NEW l, l = i - 1
  PROVE  OpensDown(l)'
<1>1. /\ 1 \in DOMAIN down
      /\ \A k \in DOMAIN down' : k \in Nat /\ k + 1 \in DOMAIN down /\ down'[k] = down[k + 1]
  BY ItemNumbers, Cutting DEF DownReceived
<1>2. ~Closing(down[1])
  BY <1>1 DEF OpensDown
<1>3. \A e : Put("storage", e) => ~Closing(e)
  <2> SUFFICES ASSUME NEW e, Put("storage", e) PROVE ~Closing(e)
    OBVIOUS
  <2>1. ~Same("storage")
    BY PutMoves DEF Queue
  <2>2. e = down[1] \/ ~Closing(e)
    BY <2>1, PutComesFrom DEF Queue
  <2>3. QED
    BY <1>2, <2>2
<1>4. Opens(Len(Stor) + 1)
  BY DEF OpensDown
<1> SUFFICES ASSUME NEW n, n = Len(Stor') + 1 PROVE OpensDown(l)'
  OBVIOUS
<1>5. Opens(n)'
  BY <1>3, <1>4, OpensEnd
<1>6. ASSUME NEW k \in DOMAIN down', k < l PROVE ~Closing(down'[k])
  <2>1. k + 1 \in DOMAIN down /\ k + 1 < i /\ down'[k] = down[k + 1]
    BY <1>1, <1>6
  <2>2. QED
    BY <2>1 DEF OpensDown
<1>7. QED
  BY <1>5, <1>6 DEF OpensDown, Opens

\* What was due with all that is down is due with what comes behind it.
LEMMA NewIsDue ==
  ASSUME Parts, Bounded, Deciding, Calm, DownStays, DueTo(archived, Len(down)),
         NEW n \in Int, NEW i \in Int, Len(down) <= i,
         n <= archived \/ (n = archived + 1 /\ i \in DOMAIN down' /\ Carries(down'[i], n))
  PROVE  DueTo(n, i)'
<1> SUFFICES ASSUME NEW m \in Message, DateToFetch' < m, m <= n
             PROVE  Held(m)' \/ Coming(m, i)'
  BY DEF DueTo
<1>1. /\ m \in Int /\ archived \in Int /\ Len(down) \in Int
      /\ DateToFetch \in Int /\ DateToFetch' \in Int /\ DateToFetch <= DateToFetch'
      /\ \A k \in DOMAIN down : k \in Int /\ k <= Len(down)
  BY DateGrows, Messages, ItemNumbers DEF Calm, Message
<1>2. CASE m <= archived
  <2>1. Held(m) \/ Coming(m, Len(down))
    BY <1>1, <1>2 DEF DueTo
  <2>2. ASSUME NEW k \in DOMAIN down, Carries(down[k], m) PROVE Coming(m, i)'
    <3>1. k \in DOMAIN down' /\ k <= i /\ Carries(down'[k], m)
      BY <1>1, <2>2 DEF DownStays
    <3>2. QED
      BY <3>1 DEF Coming
  <2>3. QED
    BY <2>1, <2>2, HeldStays DEF Coming
<1>3. CASE ~(m <= archived)
  <2>1. m = n /\ i \in DOMAIN down' /\ Carries(down'[i], m)
    BY <1>1, <1>3
  <2>2. QED
    BY <2>1 DEF Coming
<1>4. QED
  BY <1>2, <1>3

\* The messages of blocks and elements are numbers.
LEMMA NumberOf ==
  ASSUME NEW s \in Seq(Items), NEW k \in DOMAIN s
  PROVE  s[k].msg \in Nat
<1>1. s[k] \in Items
  BY LenProperties
<1>2. QED
  BY <1>1, Messages DEF Items

\* An answer leaves what is on the way before it.
LEMMA AnswerStays ==
  ASSUME Parts, Bounded, Calm, NEW query \in queries, NEW to \in 0..MaxMessage, Answer(query, to)
  PROVE  DownStays /\ Len(down) <= Len(down')
<1>1. PICK p \in Seq(Items) : Adds(query, to, p)
  BY AnswerAdds
<1>2. down \in Seq(Items) /\ Len(down) \in Nat /\ down' = down \o p
  BY <1>1, ItemNumbers DEF Adds
<1>3. Len(down \o p) = Len(down) + Len(p) /\ Len(p) \in Nat
  BY <1>2, Joining
<1>4. QED
  BY <1>2, <1>3, Joining DEF DownStays

\* What is older than a live message on the way stays accounted for.
LEMMA DownDueKept ==
  ASSUME Parts, Bounded, Deciding, Synced, Calm, DownDue, SessionDue
  PROVE  DownDue'
<1> SUFFICES ASSUME NEW i \in DOMAIN down', Live(down'[i]), NEW n, n = down'[i].msg
             PROVE  DueTo(n, i)' \/ OpensDown(i)'
  BY DEF DownDue, DueTo, Coming
<1>1. CASE DownReceived
  <2>1. i \in Nat /\ i + 1 \in DOMAIN down /\ down'[i] = down[i + 1]
    BY <1>1, ItemNumbers, Cutting DEF DownReceived
  <2>2. 2 <= i + 1
    <3>1. i # 0
      BY DownIsTyped, LenProperties
    <3>2. QED
      BY <2>1, <3>1
  <2>3. n \in Int /\ i + 1 \in Int /\ i = (i + 1) - 1
    BY <2>1, ItemNumbers
  <2>4. DueTo(n, i + 1) \/ OpensDown(i + 1)
    BY <2>1 DEF DownDue
  <2>5. CASE DueTo(n, i + 1)
    <3>1. DueTo(n, (i + 1) - 1)'
      BY <1>1, <2>3, <2>5, DueReceived
    <3>2. QED
      BY <2>3, <3>1
  <2>6. CASE OpensDown(i + 1)
    BY <1>1, <2>2, <2>3, <2>6, OpensDownReceived
  <2>7. QED
    BY <2>4, <2>5, <2>6
<1>2. CASE DownStays /\ Len(down) <= Len(down') /\ i \in DOMAIN down
  <2>1. n \in Int /\ i \in Int /\ down[i] = down'[i]
    BY <1>2, ItemNumbers DEF DownStays
  <2>2. DueTo(n, i) \/ OpensDown(i)
    BY <1>2, <2>1 DEF DownDue
  <2>3. \A k \in DOMAIN down' : k < i => k \in DOMAIN down /\ k < i
    <3>1. \A k \in DOMAIN down' : k \in Nat /\ k # 0
      BY DownIsTyped, LenProperties
    <3>2. QED
      BY <1>2, <3>1, ItemNumbers
  <2>4. CASE DueTo(n, i)
    BY <1>2, <2>1, <2>4, DueStays
  <2>5. CASE OpensDown(i)
    BY <1>2, <2>3, <2>5, OpensDownStays
  <2>6. QED
    BY <2>2, <2>4, <2>5
<1>3. CASE i \notin DOMAIN down /\ ~DownReceived /\ DownStays /\ Len(down) <= Len(down')
  <2>1. /\ i = Len(down) + 1 /\ down'[i].msg <= archived' /\ connected
        /\ \/ archived' = archived
           \/ archived' = archived + 1 /\ down'[i].msg = archived'
    <3>1. ASSUME NEW query \in queries, NEW to \in 0..MaxMessage, Answer(query, to)
          PROVE  FALSE
      BY <1>3, <3>1, AnswerEnds DEF AnswerItems
    <3>2. QED
      BY <1>3, <3>1, NewDown DEF Known
  <2>2. DueTo(archived, Len(down)) \/ OpensDown(Len(down) + 1)
    BY <2>1 DEF SessionDue
  <2>3. Len(down) \in Nat /\ archived \in Int /\ n \in Int /\ i \in Int /\ Len(down) <= i
    <3>1. down' \in Seq(Items)
      BY DownIsTyped
    <3>2. n \in Nat
      BY <3>1, NumberOf
    <3>3. Len(down) \in Nat /\ archived \in Int
      BY ItemNumbers DEF Parts, WireType
    <3>4. QED
      BY <2>1, <3>2, <3>3
  <2>4. CASE DueTo(archived, Len(down))
    <3>1. n <= archived \/ (n = archived + 1 /\ i \in DOMAIN down' /\ Carries(down'[i], n))
      BY <2>1, <2>3 DEF Carries, Live
    <3>2. QED
      BY <1>3, <2>3, <2>4, <3>1, NewIsDue
  <2>5. CASE OpensDown(Len(down) + 1)
    <3>1. OpensDown(i)
      BY <2>1, <2>5
    <3>2. \A k \in DOMAIN down' : k < i => k \in DOMAIN down /\ k < i
      <4>1. \A k \in DOMAIN down' : k \in Nat /\ k # 0
        BY DownIsTyped, LenProperties
      <4>2. QED
        BY <2>1, <2>3, <4>1, ItemNumbers
    <3>3. QED
      BY <1>3, <3>1, <3>2, OpensDownStays
  <2>6. QED
    BY <2>2, <2>4, <2>5
<1>4. CASE down' = <<>>
  BY <1>4
<1>5. QED
  BY <1>1, <1>2, <1>3, <1>4, DownFrom

\* What is in the archive stays accounted for while the connection is up.
LEMMA SessionDueKept ==
  ASSUME Parts, Bounded, Deciding, Synced, Calm, QueriesDue, SessionDue
  PROVE  SessionDue'
<1> SUFFICES ASSUME connected' = TRUE, NEW n, n = archived', NEW i, i = Len(down'),
                    NEW l, l = Len(down') + 1
             PROVE  DueTo(n, i)' \/ OpensDown(l)'
  BY DEF SessionDue, DueTo, OpensDown, Opens
<1>1. /\ archived \in Int /\ Len(down) \in Nat /\ down \in Seq(Items) /\ connected \in BOOLEAN
      /\ down' \in Seq(Items) /\ i \in Nat /\ DOMAIN down' = 1..i /\ DOMAIN down = 1..Len(down)
      /\ n \in Int
  <2>1. archived' \in Int
    BY DateGrows DEF Calm
  <2>2. QED
    BY <2>1, ItemNumbers, DownIsTyped, LenProperties DEF Parts, WireType
<1>2. CASE DownReceived
  <2>1. i = Len(down) - 1 /\ l = (Len(down) + 1) - 1 /\ 2 <= Len(down) + 1 /\ n = archived
    <3>1. Len(down') = Len(down) - 1
      BY <1>1, <1>2, Cutting DEF DownReceived
    <3>2. QED
      BY <1>1, <1>2, <3>1 DEF DownReceived
  <2>2. DueTo(archived, Len(down)) \/ OpensDown(Len(down) + 1)
    BY <1>2 DEF SessionDue, DownReceived
  <2>3. CASE DueTo(archived, Len(down))
    <3>1. PICK k : k = Len(down)
      OBVIOUS
    <3>2. DueTo(n, k) /\ n \in Int /\ k \in Int
      BY <1>1, <2>1, <2>3, <3>1
    <3>3. DueTo(n, k - 1)'
      BY <1>2, <3>2, DueReceived
    <3>4. i = k - 1
      BY <2>1, <3>1
    <3>5. QED
      BY <3>3, <3>4
  <2>4. CASE OpensDown(Len(down) + 1)
    BY <1>1, <1>2, <2>1, <2>4, OpensDownReceived
  <2>5. QED
    BY <2>2, <2>3, <2>4
<1>3. CASE Connect
  <2>1. down = <<>> /\ Put("storage", Plain("didAuthenticate")) /\ down' = down
    BY <1>3, ClientMoves DEF Bounded, Connect
  <2> SUFFICES ASSUME NEW k, k = Len(Stor') + 1 PROVE OpensDown(l)'
    OBVIOUS
  <2>2. k = Len(Stor) + 2
    <3>1. Len(Stor') = Len(Stor) + 1 /\ Len(Stor) \in Nat
      BY <2>1, Fronts, Putting DEF Put, Stor, Parts
    <3>2. QED
      BY <3>1
  <2>3. Opens(k)'
    BY <2>1, <2>2, OpensLogin
  <2>4. QED
    BY <2>1, <2>3 DEF OpensDown, Opens
<1>4. ASSUME connected = TRUE, DownStays, Len(down) <= Len(down'),
             n <= archived \/ (n = archived + 1 /\ i \in DOMAIN down' /\ Carries(down'[i], n)),
             \A k \in DOMAIN down' : k \in DOMAIN down \/ ~Closing(down'[k])
      PROVE  DueTo(n, i)' \/ OpensDown(l)'
  <2>1. DueTo(archived, Len(down)) \/ OpensDown(Len(down) + 1)
    BY <1>4 DEF SessionDue
  <2>2. CASE DueTo(archived, Len(down))
    <3>1. n \in Int /\ i \in Int /\ Len(down) <= i
      BY <1>1, <1>4
    <3>2. QED
      BY <1>4, <2>2, <3>1, NewIsDue
  <2>3. CASE OpensDown(Len(down) + 1)
    <3>1. \A k \in DOMAIN down' :
            k < l => (k \in DOMAIN down /\ k < Len(down) + 1) \/ ~Closing(down'[k])
      BY <1>1, <1>4
    <3>2. QED
      BY <1>4, <2>3, <3>1, OpensDownStays
  <2>4. QED
    BY <2>1, <2>2, <2>3
<1>5. CASE down' = down /\ connected' = connected /\ archived' = archived
  BY <1>1, <1>4, <1>5 DEF DownStays
<1>6. ASSUME NEW e \in Items, down' = Append(down, e), ~Closing(e), connected = TRUE,
             archived' = archived \/ (archived' = archived + 1 /\ Carries(e, archived'))
      PROVE  DueTo(n, i)' \/ OpensDown(l)'
  <2>1. /\ Len(down') = Len(down) + 1 /\ down'[Len(down) + 1] = e /\ DownStays
        /\ \A k \in DOMAIN down' : k \in DOMAIN down \/ k = Len(down) + 1
    BY <1>1, <1>6, Putting DEF DownStays
  <2>2. Len(down) <= Len(down') /\ i = Len(down) + 1 /\ i \in DOMAIN down'
    BY <1>1, <2>1
  <2>3. QED
    BY <1>1, <1>4, <1>6, <2>1, <2>2
<1>7. ASSUME NEW query \in queries, NEW to \in 0..MaxMessage, Answer(query, to),
             archived' = archived, connected = TRUE
      PROVE  DueTo(n, i)' \/ OpensDown(l)'
  <2>1. AnswerItems(query, to)
    BY <1>7, AnswerEnds
  <2>2. CASE \E k \in DOMAIN down' : k \notin DOMAIN down /\ Closing(down'[k])
    <3>1. ~query.room /\ to = n
      BY <1>7, <2>1, <2>2 DEF AnswerItems
    <3>2. QED
      BY <1>7, <3>1, AnswerIsDue
  <2>3. CASE \A k \in DOMAIN down' : k \in DOMAIN down \/ ~Closing(down'[k])
    <3>1. DownStays /\ Len(down) <= Len(down')
      BY <1>7, AnswerStays
    <3>2. QED
      BY <1>1, <1>4, <1>7, <2>3, <3>1
  <2>4. QED
    BY <2>2, <2>3
<1>8. CASE JoinRoom /\ down' = Append(down, Plain("subject")) /\ connected /\ archived' = archived
  <2>1. Plain("subject") \in Items /\ ~Closing(Plain("subject"))
    BY ItemTypes DEF Kind, Closing, Plain, Item
  <2>2. QED
    BY <1>1, <1>6, <1>8, <2>1
<1>9. ASSUME NEW m \in Message, Resend(m), down' = Append(down, Item("message", m, TRUE)),
             connected = TRUE, archived' = archived
      PROVE  DueTo(n, i)' \/ OpensDown(l)'
  <2>1. Item("message", m, TRUE) \in Items /\ ~Closing(Item("message", m, TRUE))
    BY ItemTypes, Messages DEF Kind, Closing, Item
  <2>2. QED
    BY <1>6, <1>9, <2>1
<1>10. CASE /\ Archive /\ connected /\ archived' = archived + 1
            /\ down' = Append(down, Item("message", archived', FALSE))
  <2>1. archived' \in 0..MaxMessage
    BY <1>10, Messages DEF Archive, Parts, WireType
  <2>2. Item("message", n, FALSE) \in Items /\ ~Closing(Item("message", n, FALSE))
        /\ Carries(Item("message", n, FALSE), n)
    BY <2>1, ItemTypes DEF Kind, Closing, Item, Carries
  <2>3. QED
    BY <1>1, <1>6, <1>10, <2>2
<1>11. QED
  BY <1>1, <1>2, <1>3, <1>5, <1>7, <1>8, <1>9, <1>10, DownMoves DEF DownReceived

-----------------------------------------------------------------------------
(* Live messages whose transaction is queued.                              *)

\* A block of the connection that ends is in no call any more.
LEMMA EndsUncalled ==
  ASSUME Parts, Deciding, Calm, Cut("connection")
  PROVE  call'["connection"] = "none" /\ ~DidFinish /\ ~SetInProgress
<1>1. ~Same("connection") /\ \A e : ~Put("connection", e)
  BY CutOrPut DEF Parts, Queue
<1>2. ConnectionStep
  BY <1>1, CalmSteps, StorageMoves, RoomsMoves, ClientMoves, ServerMoves DEF Same
<1>3. call'["connection"] = "none"
  BY <1>1, <1>2, ConnectionMoves
<1>4. \A e : ~StorageStep
  BY <1>1, StorageMoves
<1>5. QED
  BY <1>3, <1>4 DEF StorageStep

\* A call that has returned stays so until the block ends.
LEMMA StaysReturned ==
  ASSUME Parts, Deciding, Calm, ~Cut("connection"), call["connection"] = "returned"
  PROVE  /\ call'["connection"] = "returned" /\ fetching' = fetching
         /\ ~SetInProgress /\ ~ReadInProgress
<1> USE DEF Parts, CallType, Queue
<1>1. ~SetInProgress /\ ~ReadInProgress
  BY DEF SetInProgress, ReadInProgress, Return
<1>2. CASE StorageStep
  BY <1>1, <1>2
     DEF StorageStep, DidAuthenticate, HandleMessage, LookUpRoom, RoomLookedUp, DidFinish, CallSync,
         Returned, update
<1>3. CASE ConnectionStep
  BY <1>1, <1>3, ConnectionMoves
<1>4. CASE RoomsStep
  BY <1>1, <1>4, RoomsMoves
<1>5. QED
  BY <1>1, <1>2, <1>3, <1>4, CalmSteps, ClientMoves, ServerMoves

\* What is held up to a number is held up to a smaller one.
LEMMA HeldBelow ==
  ASSUME NEW n \in Int, NEW k \in Int, k <= n, HeldTo(n)
  PROVE  HeldTo(k)
BY Messages DEF HeldTo, Message

\* What is older than a live message in the queue of the connection stays accounted for.
LEMMA ConnDueKept ==
  ASSUME Parts, Bounded, Deciding, Synced, Calm, FinsHeld, StorAhead, ConnDue, StorDue
  PROVE  ConnDue'
<1> SUFFICES ASSUME NEW i \in DOMAIN Conn', Live(Conn'[i]), NEW n, n = Conn'[i].msg
             PROVE  HeldTo(n)' \/ ConnOpens(i)'
  BY DEF ConnDue, HeldTo
<1>1. CASE ~Cut("connection") /\ i \in DOMAIN Conn /\ Conn'[i] = Conn[i]
  <2>1. n \in Int /\ (HeldTo(n) \/ ConnOpens(i))
    BY <1>1, ItemNumbers DEF ConnDue
  <2>2. CASE HeldTo(n)
    BY <2>1, <2>2, HeldToStays
  <2>3. CASE ConnOpens(i) /\ i = 1 /\ call'["connection"] = "returned"
    <3>1. CASE call["connection"] = "returned"
      <4>1. ~SetInProgress /\ fetching' = fetching /\ (fetching \/ Excused)
        BY <1>1, <2>3, <3>1, StaysReturned DEF ConnOpens
      <4>2. fetching \/ Excused'
        BY <4>1, ExcusedStays
      <4>3. fetching' \/ Excused'
        BY <4>1, <4>2
      <4>4. QED
        BY <2>3, <4>3 DEF ConnOpens
    <3>2. CASE SetInProgress
      <4>1. Conn[1].kind = "fetchHistory"
        BY <3>2, PerformedBlocks, Fronts DEF Running, Conn, Parts
      <4>2. QED
        BY <1>1, <2>3, <4>1 DEF Live
    <3>3. CASE ReadInProgress /\ call["connection"] = "waiting"
      <4>1. fetching' = mamCatchupInProgress /\ ~SetInProgress
        BY <3>3 DEF ReadInProgress, SetInProgress, Running
      <4>2. mamCatchupInProgress \/ Excused
        BY <2>3, <3>3 DEF ConnOpens, Catching
      <4>3. fetching' \/ Excused'
        BY <4>1, <4>2, ExcusedStays
      <4>4. QED
        BY <2>3, <4>3 DEF ConnOpens
    <3>4. QED
      BY <2>3, <3>1, <3>2, <3>3, CallReturns
  <2>4. CASE ConnOpens(i) /\ ~(i = 1 /\ call'["connection"] = "returned")
    <3>1. Catching
      BY <1>1, <2>4, StaysReturned DEF ConnOpens
    <3>2. CASE EndsCatchup
      <4>1. 1 \in DOMAIN Stor /\ Closing(Stor[1]) /\ Stor[1].msg \in Int
        BY <3>2, Fronts, ItemNumbers DEF EndsCatchup, DidFinish, Running, Stor, Parts
      <4>2. Ahead(Stor[1].msg) /\ HeldTo(Stor[1].msg)
        BY <4>1 DEF StorAhead, FinsHeld, Stor, Queue
      <4>3. n <= Stor[1].msg
        BY <1>1, <4>2 DEF Ahead
      <4>4. HeldTo(n)
        BY <2>1, <4>1, <4>2, <4>3, HeldBelow
      <4>5. QED
        BY <2>1, <4>4, HeldToStays
    <3>3. CASE ~EndsCatchup
      <4>1. Catching'
        BY <3>1, <3>3, CatchingStays
      <4>2. QED
        BY <2>4, <4>1 DEF ConnOpens
    <3>4. QED
      BY <3>2, <3>3
  <2>5. QED
    BY <2>1, <2>2, <2>3, <2>4
<1>2. CASE Cut("connection") /\ i \in Nat /\ i + 1 \in DOMAIN Conn /\ Conn'[i] = Conn[i + 1]
  <2>1. n \in Int /\ (HeldTo(n) \/ ConnOpens(i + 1))
    BY <1>2, ItemNumbers DEF ConnDue
  <2>2. i + 1 # 1
    <3>1. Conn \in Seq(Items) /\ Conn # <<>> /\ Conn' = Tail(Conn)
      BY <1>2, Fronts DEF Cut, Conn, Parts
    <3>2. i \in 1..Len(Tail(Conn))
      BY <3>1, Cutting, LenProperties
    <3>3. QED
      BY <1>2, <3>2
  <2>3. CASE HeldTo(n)
    BY <2>1, <2>3, HeldToStays
  <2>4. CASE ConnOpens(i + 1)
    <3>1. Catching
      BY <2>2, <2>4 DEF ConnOpens
    <3>2. call'["connection"] = "none" /\ ~EndsCatchup
      BY <1>2, EndsUncalled DEF EndsCatchup
    <3>3. Catching'
      BY <3>1, <3>2, CatchingStays
    <3>4. QED
      BY <3>2, <3>3 DEF ConnOpens
  <2>5. QED
    BY <2>1, <2>3, <2>4
<1>3. CASE /\ ~Cut("connection") /\ Cut("storage") /\ 1 \in DOMAIN Stor /\ Conn'[i] = Stor[1]
           /\ i = Len(Conn) + 1 /\ (HandleMessage \/ DidFinish)
  <2>1. n \in Int /\ (HeldTo(n) \/ Opens(1))
    BY <1>3, ItemNumbers DEF StorDue
  <2>2. CASE HeldTo(n)
    BY <2>1, <2>2, HeldToStays
  <2>3. CASE Opens(1)
    <3>1. Catching
      BY <2>3, ItemNumbers DEF Opens
    <3>2. Stor # <<>> /\ Head(Stor) = Stor[1]
      BY <1>3, Fronts DEF Parts
    <3>3. ~DidFinish
      BY <1>3, <3>2 DEF DidFinish, Running, Stor, Live
    <3>4. Catching' /\ call' = call
      BY <1>3, <3>1, <3>3, CatchingStays DEF EndsCatchup, HandleMessage
    <3>5. i = 1 => call["connection"] = "none"
      <4>1. i = 1 => Conn = <<>>
        <5>1. Conn \in Seq(Items) /\ Len(Conn) \in Nat
          BY Fronts DEF Parts
        <5>2. i = 1 => Len(Conn) = 0
          BY <1>3, <5>1
        <5>3. QED
          BY <5>1, <5>2, EmptySeq
      <4>2. QED
        BY <4>1 DEF Parts, CallersType, CallType, Running, Conn, Queue
    <3>6. QED
      BY <3>4, <3>5 DEF ConnOpens
  <2>4. QED
    BY <2>1, <2>2, <2>3
<1>4. QED
  BY <1>1, <1>2, <1>3, ConnFrom DEF Known

-----------------------------------------------------------------------------
\* Every step but the end of the process keeps the order of what is on its way.
LEMMA OrderlyKept ==
  ASSUME Parts, Deciding, Orderly, Calm
  PROVE  Orderly'
<1> USE DEF Orderly, Answers, Messengers
<1>1. Bounded' /\ Synced' /\ Behind'
  BY BoundedKept, SyncedKept, BehindKept DEF Calm
<1>2. Answers'
  BY <1>1, FinsHeldKept, AnswersDueKept, QueriesDueKept, StorAheadKept, DownAheadKept
<1>3. Messengers'
  BY ConnDueKept, StorDueKept, DownDueKept, SessionDueKept
<1>4. QED
  BY <1>1, <1>2, <1>3

\* A process that starts has nothing on its queues and nothing on its way.
AtRest ==
  /\ archived \in Nat /\ Behind /\ DateToFetch <= archived /\ messageDate = NoDate
  /\ connected = FALSE /\ down = <<>> /\ queries = {} /\ blocks = [q \in Queue |-> <<>>]

\* With nothing on its way and nothing fetched, all is in order.
LEMMA OrderlyAtRest == AtRest => Orderly
<1> SUFFICES ASSUME AtRest PROVE Orderly
  OBVIOUS
<1> USE DEF AtRest
<1>1. Conn = <<>> /\ Stor = <<>> /\ \A q \in Queue : blocks[q] = <<>>
  BY DEF Conn, Stor, Queue
<1>2. Bounded
  BY <1>1 DEF Bounded, NoDate
<1>3. Synced
  BY <1>1 DEF Synced
<1>4. Answers
  BY <1>1 DEF Answers, FinsHeld, AnswersDue, QueriesDue, StorAhead, DownAhead
<1>5. Messengers
  BY <1>1 DEF Messengers, ConnDue, StorDue, DownDue, SessionDue
<1>6. QED
  BY <1>2, <1>3, <1>4, <1>5 DEF Orderly

\* A relaunch leaves all in order.
LEMMA OrderlyAtRelaunch ==
  ASSUME Parts, Deciding, Orderly, Relaunch
  PROVE  Orderly'
<1>1. Behind' /\ archived' \in Nat /\ DateToFetch' <= archived'
  BY BehindKept, DateGrows DEF Orderly, Answers, Messengers, Next, Environment
<1>2. /\ messageDate' = NoDate /\ connected' = FALSE /\ down' = <<>> /\ queries' = {}
      /\ blocks' = [q \in Queue |-> <<>>]
  BY DEF Relaunch
<1>3. AtRest'
  BY <1>1, <1>2 DEF AtRest
<1>4. QED
  BY <1>3, OrderlyAtRest, PTL

\* What is on its way is in order always.
LEMMA OrderlyAlways == Spec => []Orderly
<1>1. ASSUME Init PROVE Orderly
  <2>1. Parts
    BY <1>1, InitTypes
  <2>2. archived \in Nat /\ DateToFetch = 0
    BY <1>1, <2>1 DEF Init, DateToFetch, NoDate, Parts, WireType
  <2>3. Behind
    BY <2>2, Messages DEF Behind, Message
  <2>4. DateToFetch <= archived
    BY <2>2
  <2>5. QED
    BY <1>1, <2>2, <2>3, <2>4, OrderlyAtRest DEF Init, AtRest
<1>2. IInv /\ Orderly /\ [Next]_vars => Orderly'
  BY OrderlyKept, OrderlyAtRelaunch, TypeOKIsParts DEF IInv, Calm
<1>3. QED
  BY <1>1, <1>2, InductiveInvariant, PTL DEF Spec

\* A message in the archive that the next fetch would no longer ask for is in
\* the database, or was left behind for one of the four reasons: it came to the
\* server after what the date was saved for, the answer for a room ended the
\* catch-up, or the date was saved when a fetch was to come or when the message
\* was already on a queue.  This holds for any number of messages, whatever is
\* lost with the connection or the process, sent again or paged.
THEOREM NothingIsMissed == Spec => []NothingMissed
<1>1. IInv /\ Orderly => NothingMissed
  <2> SUFFICES ASSUME IInv, Orderly, NEW m \in 1..archived
               PROVE  stored[m] > 0 \/ m > DateToFetch \/ excuse[m] # "none"
    BY DEF NothingMissed
  <2>1. m \in Message /\ DateToFetch \in Int
    BY Messages DEF IInv, TypeOK, Message, DateToFetch, NoDate
  <2>2. QED
    BY <2>1 DEF Orderly, Behind, Message
<1>2. QED
  BY <1>1, InductiveInvariant, OrderlyAlways, PTL
=============================================================================
