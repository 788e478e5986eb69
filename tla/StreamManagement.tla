-------------------------- MODULE StreamManagement --------------------------
(***************************************************************************)
(* XEP-0198 in XMPPFramework (XMPPStreamManagement.m), with the storage    *)
(* that lives as long as the process (XMPPStreamManagementMemoryStorage.m) *)
(* as OTRXMPPManager.m sets it up: enabled after each login that did not   *)
(* resume, automatic resumption, automatic acks.                           *)
(*                                                                         *)
(* The stream delivers its events to the module's queue in the order of    *)
(* the wire, so an element is sent or received in one step with what the   *)
(* module does about it.  Who names the stanzas sent is a delegate         *)
(* (XMPPManagedMessaging.m) on another queue, which may answer late, after *)
(* a disconnect even.  No delegate in the sources postpones the handling   *)
(* of a stanza received.  The server is external; one that bound a new     *)
(* session for the resource resumes none from before.                      *)
(***************************************************************************)
EXTENDS Integers, Sequences, FiniteSetsExt

CONSTANTS
  Modulus,       \* counters are uint32_t
  RequestAfter,  \* autoRequest_stanzaCount
  MaxSent,       \* bound on the stanzas sent while stream management is on
  MaxReceived,   \* bound on the stanzas of the server in a session
  MaxConnects    \* bound on the connections made

ASSUME ModulusType == Modulus \in Nat \ {0, 1}
ASSUME RequestType == RequestAfter \in Nat \ {0}
ASSUME BoundsType == {MaxSent, MaxReceived, MaxConnects} \subseteq Nat

VARIABLES
  conn,          \* the connection: see Connection
  sm,            \* enableQueued, enableSent and isStarted, of which one at most is set
  unackedByServer, lastRequestOffset, requestTimer, lastHandledByServer,
  prevUnacked,   \* prev_unackedByServer
  unprocessed,   \* unprocessedReceivedAcks
  lastHandledByClient,
  lastAckOffset, \* unackedByClient_lastAckOffset: handled and not yet acked
  store,         \* the storage
  sent,          \* stanzas sent so far; the number of a stanza is its identity
  unanswered,    \* stanzas the delegates have not yet named
  up, down,      \* elements on their way to the server and back
  server,        \* the server's session
  connects, ids, \* connections and sessions so far
  handled,       \* history: stanzas the server handled
  reported,      \* history: stanzas reported to the delegates as acked
  got,           \* history: stanzas received in this session
  session,       \* history: stanzas the server handled in its session
  nameless,      \* history: those without a name when its <resume/> was sent
  cutOff,        \* history: those of a resumption of it that was cut off
  tracked        \* history: how many stanzas were sent in this session

outgoing == <<unackedByServer, lastRequestOffset, requestTimer, lastHandledByServer,
              prevUnacked, unprocessed>>
incoming == <<lastHandledByClient, lastAckOffset>>
sentVars == <<sent, unanswered, tracked>>
wire == <<up, down>>
counters == <<connects, ids>>
history == <<handled, reported, got, session, nameless, cutOff>>
vars == <<conn, sm, store, outgoing, incoming, sentVars, wire, server, counters, history>>

Connection == {"down", "binding", "resuming", "bound", "online"}
NoId == 0       \* of a stanza that was stored before it was named, or of a session
NoStore == [id |-> NoId, byClient |-> 0, byServer |-> 0, pending |-> <<>>]

\* What the server knows of a session: how many stanzas it handled, how many
\* it sent, how many of these were acked, whether it is on this connection.
NoSession == [id |-> NoId, on |-> FALSE, in |-> 0, out |-> 0, acked |-> 0]

ToServer(e) == up' = Append(up, e)
ToClient(e) == down' = Append(down, e)

Init ==
  /\ conn = "down" /\ sm = "off"
  /\ unackedByServer = <<>> /\ lastRequestOffset = 0 /\ requestTimer = FALSE
  /\ prevUnacked = <<>> /\ unprocessed = <<>>
  /\ lastHandledByServer = 0 /\ lastHandledByClient = 0 /\ lastAckOffset = 0
  /\ store = NoStore
  /\ sent = 0 /\ unanswered = {} /\ tracked = 0
  /\ up = <<>> /\ down = <<>>
  /\ server = NoSession
  /\ connects = 0 /\ ids = 0
  /\ handled = {} /\ reported = <<>> /\ got = <<>>
  /\ session = {} /\ nameless = {} /\ cutOff = {}

-----------------------------------------------------------------------------
(* Acks of the server.                                                     *)

\* One less than it should be once the counter wrapped around: UINT32_MAX is
\* Modulus - 1.
Diff(h, last) == IF h >= last THEN h - last ELSE (Modulus - 1 - last) + h

AtMost(n, max) == IF n > max THEN max ELSE n

\* Fault: what was acked stays in the list.
Keep(s, n) == s
Drop(s, n) == SubSeq(s, n + 1, Len(s))

Lower(offset, n) == IF offset > n THEN offset - n ELSE 0

\* The state processReceivedAck works on: the list with its offset, the
\* counter, the stanzas to report, how many acks are done with, and whether
\* the last was processed entirely.
AckState ==
  [unacked |-> unackedByServer, offset |-> lastRequestOffset, last |-> lastHandledByServer,
   acked |-> <<>>, taken |-> 0, complete |-> TRUE]

\* How many stanzas at the head of the list have their names, up to max.
Named(unacked, max, awaiting) ==
  Max({k \in 0..max : \A i \in 1..k : unacked[i] \notin awaiting})

\* Fault: the part of an ack that was processed is not counted.
ProcessAckUncounted(s, h, awaiting) ==
  LET diff == AtMost(Diff(h, s.last), Len(s.unacked))
      n == Named(s.unacked, diff, awaiting)
  IN [unacked |-> Drop(s.unacked, n), offset |-> Lower(s.offset, n),
      last |-> IF n = diff THEN h ELSE s.last,
      acked |-> s.acked \o SubSeq(s.unacked, 1, n),
      taken |-> IF n = diff THEN s.taken + 1 ELSE s.taken, complete |-> n = diff]

\* processReceivedAck: takes off the list as many stanzas as h is ahead, or
\* those before the first whose name is awaited.
ProcessAck(s, h, awaiting) ==
  LET diff == AtMost(Diff(h, s.last), Len(s.unacked))
      n == Named(s.unacked, diff, awaiting)
      last == IF n = diff THEN h ELSE (s.last + n) % Modulus
  IN [unacked |-> Drop(s.unacked, n), offset |-> Lower(s.offset, n),
      last |-> IF Diff(h, s.last) = 0 THEN s.last ELSE last,
      acked |-> s.acked \o SubSeq(s.unacked, 1, n),
      taken |-> IF n = diff THEN s.taken + 1 ELSE s.taken, complete |-> n = diff]

\* The acks that waited, up to the first that cannot be processed entirely.
ProcessAcks(acks, awaiting) ==
  LET after[i \in 0..Len(acks)] ==
        IF i = 0 THEN AckState
        ELSE IF after[i - 1].complete THEN ProcessAck(after[i - 1], acks[i], awaiting)
        ELSE after[i - 1]
  IN after[Len(acks)]

Names(unacked, awaiting) ==
  [i \in DOMAIN unacked |-> IF unacked[i] \in awaiting THEN NoId ELSE unacked[i]]

\* updateStoredPendingOutgoingStanzas, and the same at the end of
\* processReceivedAck.
Save(unacked, last, awaiting) ==
  store' = [store EXCEPT !.byServer = last,
                         !.pending = Names(unacked, awaiting),
                         !.byClient = IF sm = "started" THEN @ ELSE lastHandledByClient]

Took(s) ==
  /\ unackedByServer' = s.unacked
  /\ lastRequestOffset' = s.offset
  /\ lastHandledByServer' = s.last
  /\ reported' = reported \o s.acked

-----------------------------------------------------------------------------
(* Connecting, resuming and enabling.                                      *)

Connect ==
  /\ conn = "down"
  /\ connects < MaxConnects
  /\ connects' = connects + 1
  /\ conn' = "binding"
  /\ UNCHANGED <<sm, store, outgoing, incoming, sentVars, wire, server, ids, history>>

\* Fault: the stanzas of the last connection stay.
ForgetUnackedNot ==
  /\ lastRequestOffset' = 0 /\ lastAckOffset' = 0
  /\ unprocessed' = <<>>
  /\ UNCHANGED unackedByServer

\* Fault: the offset stays.
ForgetButOffset ==
  /\ unackedByServer' = <<>>
  /\ lastAckOffset' = 0
  /\ unprocessed' = <<>>
  /\ UNCHANGED lastRequestOffset

\* The state transition cleanup of <resume/> and <enable/>.
ForgetUnacked ==
  /\ unackedByServer' = <<>>
  /\ lastRequestOffset' = 0 /\ lastAckOffset' = 0
  /\ unprocessed' = <<>>

\* start, sendResumeRequest.  The list is emptied, and the stored one is copied:
\* a stanza without its name by now can never be reported.
SendResume ==
  /\ conn = "binding"
  /\ store.id # NoId
  /\ conn' = "resuming"
  /\ ForgetUnacked
  /\ lastHandledByClient' = store.byClient
  /\ lastHandledByServer' = store.byServer
  /\ prevUnacked' = IF store.pending = <<>> THEN prevUnacked ELSE store.pending
  /\ ToServer(<<"resume", store.id, store.byClient>>)
  /\ nameless' = nameless \cup unanswered
  /\ UNCHANGED <<sm, store, requestTimer, sentVars, down, server, counters, handled,
                 reported, got, session, cutOff>>

\* There is nothing to resume, or it is too late.
BindAnew ==
  /\ conn = "binding"
  /\ conn' = "bound"
  /\ server' = NoSession
  /\ UNCHANGED <<sm, store, outgoing, incoming, sentVars, wire, counters, history>>

\* handleBind; after <failed/> the stream binds in the ordinary way.
ReceiveResumeFailed ==
  /\ conn = "resuming" /\ down # <<>> /\ Head(down) = <<"failed">>
  /\ down' = Tail(down)
  /\ conn' = "bound"
  /\ prevUnacked' = <<>>
  /\ server' = NoSession
  /\ UNCHANGED <<sm, store, unackedByServer, lastRequestOffset, requestTimer,
                 lastHandledByServer, unprocessed, incoming, sentVars, up, counters,
                 history>>

\* The names among those that were stored; the other stanzas had none yet.
Identified(names) ==
  LET upTo[i \in 0..Len(names)] ==
        IF i = 0 THEN <<>>
        ELSE IF names[i] = NoId THEN upTo[i - 1] ELSE Append(upTo[i - 1], names[i])
  IN upTo[Len(names)]

\* processResumed: what is left of prev_unackedByServer is forgotten.
ReceiveResumed ==
  /\ conn = "resuming" /\ down # <<>> /\ Head(down)[1] = "resumed"
  /\ down' = Tail(down)
  /\ conn' = "online" /\ sm' = "started"
  /\ LET h == Head(down)[2]
         diff == AtMost(Diff(h, lastHandledByServer), Len(prevUnacked))
     IN /\ lastHandledByServer' = h
        /\ store' = [store EXCEPT !.byServer = h, !.pending = <<>>]
        /\ reported' = reported \o Identified(SubSeq(prevUnacked, 1, diff))
  /\ prevUnacked' = <<>>
  /\ tracked' = server.in
  /\ UNCHANGED <<unackedByServer, lastRequestOffset, requestTimer, unprocessed,
                 incoming, sent, unanswered, up, server, counters, handled,
                 got, session, nameless, cutOff>>

\* xmppStreamDidAuthenticate in OTRXMPPManager.m, if the server offers it.
EnableStreamManagement ==
  /\ conn = "bound"
  /\ conn' = "online" /\ sm' = "enableQueued"
  /\ ForgetUnacked
  /\ UNCHANGED <<store, requestTimer, lastHandledByServer, prevUnacked,
                 lastHandledByClient, sentVars, wire, server, counters, history>>

NotOffered ==
  /\ conn = "bound"
  /\ conn' = "online"
  /\ UNCHANGED <<sm, store, outgoing, incoming, sentVars, wire, server, counters,
                 history>>

\* didSendCustomElement
DidSendEnable ==
  /\ sm = "enableQueued"
  /\ sm' = "enableSent"
  /\ tracked' = 0
  /\ ToServer(<<"enable">>)
  /\ UNCHANGED <<conn, store, outgoing, incoming, sent, unanswered, down, server,
                 counters, history>>

\* Fault: the counters go on from the last session.
ZeroCountersNot == UNCHANGED <<lastHandledByClient, lastHandledByServer>>
ZeroCounters == lastHandledByClient' = 0 /\ lastHandledByServer' = 0

ReceiveEnabled ==
  /\ sm = "enableSent" /\ down # <<>> /\ Head(down)[1] = "enabled"
  /\ down' = Tail(down)
  /\ sm' = "started"
  /\ store' = [NoStore EXCEPT !.id = Head(down)[2]]
  /\ ZeroCounters
  /\ unprocessed' = <<>>
  /\ got' = <<>>
  /\ UNCHANGED <<conn, unackedByServer, lastRequestOffset, requestTimer, prevUnacked,
                 lastAckOffset, sentVars, up, server, counters, handled, reported,
                 session, nameless, cutOff>>

ReceiveNotEnabled ==
  /\ sm = "enableSent" /\ down # <<>> /\ Head(down) = <<"failed">>
  /\ down' = Tail(down)
  /\ sm' = "off"
  /\ store' = NoStore
  /\ requestTimer' = FALSE
  /\ UNCHANGED <<conn, unackedByServer, lastRequestOffset, lastHandledByServer,
                 prevUnacked, unprocessed, incoming, sentVars, up, server, counters,
                 history>>

-----------------------------------------------------------------------------
(* Stanzas.                                                                *)

\* maybeRequestAck, when the list is to become unacked.
RequestAckNow(unacked) ==
  /\ lastRequestOffset' = Len(unacked)
  /\ requestTimer' = FALSE
MustRequest(unacked) == Len(unacked) - lastRequestOffset >= RequestAfter

\* didSendIQ, didSendMessage or didSendPresence, with processSentElement.  What
\* is sent before <enable/> is not tracked, and not counted by the server.
SendStanza ==
  /\ sm \in {"started", "enableSent"}
  /\ sent < MaxSent
  /\ sent' = sent + 1
  /\ tracked' = tracked + 1
  /\ unanswered' = unanswered \cup {sent'}
  /\ unackedByServer' = Append(unackedByServer, sent')
  /\ IF MustRequest(unackedByServer')
     THEN RequestAckNow(unackedByServer') /\ up' = up \o <<<<"stanza", sent'>>, <<"r">>>>
     ELSE requestTimer' = TRUE /\ ToServer(<<"stanza", sent'>>) /\ UNCHANGED lastRequestOffset
  /\ UNCHANGED <<conn, sm, store, lastHandledByServer, prevUnacked, unprocessed,
                 incoming, down, server, counters, history>>

\* autoRequestTimer
RequestTimerFires ==
  /\ requestTimer
  /\ RequestAckNow(unackedByServer)
  /\ IF sm = "off" THEN UNCHANGED up ELSE ToServer(<<"r">>)
  /\ UNCHANGED <<conn, sm, store, unackedByServer, lastHandledByServer, prevUnacked,
                 unprocessed, incoming, sentVars, down, server, counters, history>>

\* The delegates name stanza n; acks that waited for it are tried again.
StanzaIdAnswered(n) ==
  /\ n \in unanswered
  /\ unanswered' = unanswered \ {n}
  /\ LET s == ProcessAcks(unprocessed, unanswered')
     IN /\ Took(s)
        /\ unprocessed' = Drop(unprocessed, s.taken)
        /\ IF s.taken > 0 /\ s.acked = <<>> /\ s.last = lastHandledByServer
           THEN UNCHANGED store
           ELSE Save(s.unacked, s.last, unanswered')
  /\ UNCHANGED <<conn, sm, requestTimer, prevUnacked, incoming, sent, tracked, wire,
                 server, counters, handled, got, session, nameless, cutOff>>

\* Fault: an ack that cannot be processed entirely is dropped.
QueueAckNot(h, complete) == UNCHANGED unprocessed
QueueAck(h, complete) == unprocessed' = IF complete THEN unprocessed ELSE Append(unprocessed, h)

\* A new ack is processed ahead of those that wait.
ReceiveAck ==
  /\ sm # "off" /\ down # <<>> /\ Head(down)[1] = "a"
  /\ down' = Tail(down)
  /\ LET h == Head(down)[2]
         s == ProcessAck(AckState, h, unanswered)
     IN /\ Took(s)
        /\ QueueAck(h, s.complete)
        /\ IF s.acked = <<>> /\ s.last = lastHandledByServer
           THEN UNCHANGED store
           ELSE Save(s.unacked, s.last, unanswered)
  /\ UNCHANGED <<conn, sm, requestTimer, prevUnacked, incoming, sentVars, up, server,
                 counters, handled, got, session, nameless, cutOff>>

\* didReceiveIQ, didReceiveMessage, didReceivePresence, didFilterStanza: with
\* nobody to postpone it, the stanza is handled at once.
ReceiveStanza ==
  /\ sm = "started" /\ down # <<>> /\ Head(down)[1] = "stanza"
  /\ down' = Tail(down)
  /\ got' = Append(got, Head(down)[2])
  /\ lastHandledByClient' = (lastHandledByClient + 1) % Modulus
  /\ lastAckOffset' = lastAckOffset + 1
  /\ store' = [store EXCEPT !.byClient = lastHandledByClient']
  /\ UNCHANGED <<conn, sm, outgoing, sentVars, up, server, counters, handled,
                 reported, session, nameless, cutOff>>

\* After 30 stanzas, five seconds, or <r/>.  One that only repeats the last ack
\* is left out.
SendAck ==
  /\ sm = "started"
  /\ lastAckOffset > 0
  /\ lastAckOffset' = 0
  /\ ToServer(<<"a", lastHandledByClient>>)
  /\ UNCHANGED <<conn, sm, store, outgoing, lastHandledByClient, sentVars, down,
                 server, counters, history>>

-----------------------------------------------------------------------------
(* xmppStreamDidDisconnect; what was on its way is lost.  Before <resumed/> *)
(* the emptied list is stored over the one that was being resumed.         *)

Disconnect(clean) ==
  /\ conn # "down"
  /\ conn' = "down" /\ sm' = "off"
  /\ store' = IF clean THEN NoStore
              ELSE [store EXCEPT !.byClient = lastHandledByClient,
                                 !.byServer = lastHandledByServer,
                                 !.pending = Names(unackedByServer, unanswered)]
  /\ prevUnacked' = <<>>
  /\ cutOff' = cutOff \cup {prevUnacked[i] : i \in DOMAIN prevUnacked}
  /\ requestTimer' = FALSE
  /\ up' = <<>> /\ down' = <<>>
  /\ server' = IF clean THEN NoSession ELSE [server EXCEPT !.on = FALSE]
  /\ UNCHANGED <<unackedByServer, lastRequestOffset, lastHandledByServer, unprocessed,
                 incoming, sentVars, counters, handled, reported, got, session,
                 nameless>>

-----------------------------------------------------------------------------
(* The server.                                                             *)

ServerReads(word) == up # <<>> /\ Head(up)[1] = word /\ up' = Tail(up)

ServerEnables ==
  /\ ServerReads("enable")
  /\ \/ /\ server' = [NoSession EXCEPT !.id = ids + 1, !.on = TRUE]
        /\ ids' = ids + 1
        /\ session' = {} /\ nameless' = {} /\ cutOff' = {}
        /\ \E id \in {ids + 1, NoId} : ToClient(<<"enabled", id>>)
     \/ ToClient(<<"failed">>) /\ UNCHANGED <<server, ids, session, nameless, cutOff>>
  /\ UNCHANGED <<conn, sm, store, outgoing, incoming, sentVars, connects, handled,
                 reported, got>>

\* It sends again what the client does not say it has.
ServerResumes ==
  /\ ServerReads("resume")
  /\ LET h == Head(up)[3]
         acked == server.acked + ((h - server.acked) % Modulus)
     IN IF server.id = Head(up)[2]
        THEN /\ server' = [server EXCEPT !.on = TRUE, !.acked = acked]
             /\ down' = <<<<"resumed", server.in % Modulus>>>>
                        \o [i \in 1..(server.out - acked) |-> <<"stanza", acked + i>>]
        ELSE ToClient(<<"failed">>) /\ UNCHANGED server
  /\ UNCHANGED <<conn, sm, store, outgoing, incoming, sentVars, counters, history>>

ServerHandles ==
  /\ ServerReads("stanza")
  /\ handled' = handled \cup {Head(up)[2]}
  /\ server' = IF server.on THEN [server EXCEPT !.in = @ + 1] ELSE server
  /\ session' = IF server.on THEN session \cup {Head(up)[2]} ELSE session
  /\ UNCHANGED <<conn, sm, store, outgoing, incoming, sentVars, down, counters,
                 reported, got, nameless, cutOff>>

ServerAcks ==
  /\ ServerReads("r")
  /\ IF server.on THEN ToClient(<<"a", server.in % Modulus>>) ELSE UNCHANGED down
  /\ UNCHANGED <<conn, sm, store, outgoing, incoming, sentVars, server, counters,
                 history>>

ServerIsAcked ==
  /\ ServerReads("a")
  /\ server' = [server EXCEPT !.acked = @ + ((Head(up)[2] - @) % Modulus)]
  /\ UNCHANGED <<conn, sm, store, outgoing, incoming, sentVars, down, counters,
                 history>>

\* Without a connection, what it has for the client waits.
ServerSends ==
  /\ server.id # NoId
  /\ server.out < MaxReceived
  /\ server' = [server EXCEPT !.out = @ + 1]
  /\ IF server.on THEN ToClient(<<"stanza", server.out + 1>>) ELSE UNCHANGED down
  /\ UNCHANGED <<conn, sm, store, outgoing, incoming, sentVars, up, counters,
                 history>>

SessionExpires ==
  /\ server.id # NoId /\ ~server.on
  /\ server' = NoSession
  /\ UNCHANGED <<conn, sm, store, outgoing, incoming, sentVars, wire, counters,
                 history>>

ClientReceives ==
  \/ ReceiveResumeFailed \/ ReceiveResumed \/ ReceiveEnabled \/ ReceiveNotEnabled
  \/ ReceiveAck \/ ReceiveStanza
Serve == ServerEnables \/ ServerResumes \/ ServerHandles \/ ServerAcks \/ ServerIsAcked

Next ==
  \/ Connect \/ SendResume \/ BindAnew \/ EnableStreamManagement \/ NotOffered \/ DidSendEnable
  \/ ClientReceives
  \/ SendStanza \/ RequestTimerFires \/ SendAck
  \/ \E n \in unanswered : StanzaIdAnswered(n)
  \/ \E clean \in BOOLEAN : Disconnect(clean)
  \/ Serve \/ ServerSends \/ SessionExpires

Spec == Init /\ [][Next]_vars

-----------------------------------------------------------------------------
(* Properties.                                                             *)

TypeOK ==
  /\ conn \in Connection
  /\ sm \in {"off", "enableQueued", "enableSent", "started"}
  /\ unackedByServer \in Seq(1..MaxSent)
  /\ lastRequestOffset \in 0..Len(unackedByServer)
  /\ requestTimer \in BOOLEAN
  /\ {lastHandledByServer, lastHandledByClient} \subseteq 0..(Modulus - 1)
  /\ prevUnacked \in Seq(0..MaxSent)
  /\ unprocessed \in Seq(0..(Modulus - 1))
  /\ store.pending \in Seq(0..MaxSent)
  /\ {store.byClient, store.byServer} \subseteq 0..(Modulus - 1)
  /\ unanswered \subseteq 1..sent

\* A stanza that is reported as acked has been handled by the server, however
\* many connections were lost and sessions resumed or begun since it was sent.
\* OTRStreamManagementDelegate.swift marks the message as delivered to the
\* server on this report.
OnlyHandledReported == \A i \in DOMAIN reported : reported[i] \in handled

\* Reports come in the order the stanzas were sent, and each once, although
\* acks wait for answers of delegates and others arrive in the meantime.
ReportedInOrder == \A i, j \in DOMAIN reported : i < j => reported[i] < reported[j]

\* Until its counter wraps around, the client's account of the session is
\* exact: what the server said it handled, and what it did not say yet, is
\* everything that was sent.  Only then does the next h name the right stanzas.
LedgerBalances ==
  sm = "started" /\ server.in < Modulus =>
    (lastHandledByServer + Len(unackedByServer)) % Modulus = tracked % Modulus

\* Each stanza the server sends in a session is received once and in order,
\* through every disconnect and resumption: the h of <resume/> is never behind
\* or ahead of what was received.
ReceivedOnce ==
  /\ \A i \in DOMAIN got : got[i] = i
  /\ sm = "started" => lastHandledByClient = Len(got) % Modulus

\* Nothing is on its way, no timer runs, every stanza has its name, and the
\* server's counter, with which the account lags, did not wrap around.
Quiet ==
  /\ sm = "started" /\ up = <<>> /\ down = <<>> /\ ~requestTimer /\ unanswered = {}
  /\ server.in < Modulus

IsReported(n) == \E i \in DOMAIN reported : reported[i] = n

\* Once all is quiet, every stanza the server handled in the session has been
\* reported, through losses and resumptions: requests are made for what no
\* earlier request covers, acks that wait for a delegate are not lost, and the
\* h of <resumed/> makes up for acks that were.  Two kinds are lost, though
\* XMPPStreamManagement.h:314 promises the delegates "all" that were acked: those
\* without a name when <resume/> was sent, for the list is emptied and copied
\* then (462-472); and those of a resumption cut off before <resumed/>, for the
\* emptied list is what is stored.
NothingForgotten == Quiet => \A n \in session : n \in nameless \cup cutOff \/ IsReported(n)
=============================================================================
