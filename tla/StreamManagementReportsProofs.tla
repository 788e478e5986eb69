------------------- MODULE StreamManagementReportsProofs -------------------
(***************************************************************************)
(* Proofs about StreamManagement for any modulus and any bounds: what the  *)
(* server handled is reported but for two losses at <resume/>, and the     *)
(* stanzas of the server are received once.  They rest on the invariant    *)
(* Core of StreamManagementProofs.                                         *)
(***************************************************************************)
EXTENDS StreamManagementProofs

-----------------------------------------------------------------------------
(* The invariants.                                                         *)

\* An ack is on its way, or asked for, for all but the stanzas the timer is for.
Covers(s, m) ==
  \E i \in 1..Len(s) : /\ s[i][1] = "r"
                       /\ \A j \in (i + 1)..Len(s) : s[j][1] = "stanza" => s[j][2] > m
Requests == tracked - Len(unackedByServer) + lastRequestOffset
Requested ==
  /\ sm # "off" /\ ~requestTimer => lastRequestOffset = Len(unackedByServer)
  /\ Counting /\ server.in < Modulus =>
       \/ Requests <= (IF sm = "started" THEN lastHandledByServer ELSE 0)
       \/ \E i \in 1..Len(unprocessed) : unprocessed[i] >= Requests
       \/ \E i \in 1..Len(down) : down[i][1] = "a" /\ down[i][2] >= Requests
       \/ Covers(up, Before + Requests)

\* Of the stanzas the server handled in the session: which they can be; that each that is
\* not waited for is reported, or was given up; that the counter stored is exact, and
\* the stanzas stored without a name are those whose name is awaited; that an ack
\* that waits stands for more than is acked.
InSession == \A n \in session : n \in Nat /\ n <= Before + server.in
GivenUp == nameless \cup cutOff
Settled == \A n \in session : n <= sent - Open => n \in GivenUp \/ IsReported(n)
Exact == Resumable /\ Open > 0 => lastHandledByServer = tracked - Open
Unnamed ==
  Resumable /\ conn \in {"down", "binding"} =>
    \A i \in 1..Len(store.pending) : store.pending[i] = NoId => unackedByServer[i] \in unanswered
Dropped ==
  \A i \in 1..Len(prevUnacked) : prevUnacked[i] = NoId => sent - Len(prevUnacked) + i \in nameless
Ahead == unprocessed # <<>> => unprocessed[1] > lastHandledByServer
Conserved ==
  Live /\ server.in < Modulus => InSession /\ Settled /\ Exact /\ Unnamed /\ Dropped /\ Ahead

\* The stanzas of the server.
Received == IF sm = "enableSent" THEN 0 ELSE Len(got)
Incoming ==
  /\ \A i \in 1..Len(got) : got[i] = i
  /\ server.out <= MaxReceived
  /\ server.on => Stanzas(down, Received, server.out) /\ AcksGrow(up, server.acked, Received)
  /\ sm = "started" \/ Resumable =>
       lastHandledByClient = Len(got) /\ server.acked <= Len(got) /\ Len(got) <= server.out
  /\ Resumable => store.byClient = lastHandledByClient

-----------------------------------------------------------------------------
(* The requests.                                                           *)

\* A request covers all that was sent before it.
LEMMA CoversAppend ==
  ASSUME NEW S, NEW s \in Seq(S), NEW e \in S, NEW m \in Nat
  PROVE  /\ e[1] = "r" => Covers(Append(s, e), m)
         /\ Covers(s, m) /\ (e[1] = "stanza" => e[2] > m) => Covers(Append(s, e), m)
<1>1. PICK x, n : x = Append(s, e) /\ n = Len(s)
  OBVIOUS
<1>2. n \in Nat /\ Len(x) = n + 1 /\ x[n + 1] = e /\ \A i \in 1..n : x[i] = s[i]
  BY <1>1, AppendFacts, NonEmpty
<1>3. ASSUME e[1] = "r" PROVE Covers(x, m)
  <2>1. n + 1 \in 1..(n + 1) /\ \A j \in ((n + 1) + 1)..(n + 1) : FALSE
    BY ONLY <1>2
  <2>2. QED
    BY <1>2, <1>3, <2>1 DEF Covers
<1>4. ASSUME Covers(s, m), e[1] = "stanza" => e[2] > m PROVE Covers(x, m)
  <2>1. PICK i \in 1..n : s[i][1] = "r" /\ \A j \in (i + 1)..n : s[j][1] = "stanza" => s[j][2] > m
    BY <1>1, <1>4 DEF Covers
  <2>2. i \in 1..(n + 1) /\ \A j \in (i + 1)..(n + 1) : (j \in (i + 1)..n /\ j \in 1..n) \/ j = n + 1
    BY ONLY <1>2, i \in 1..n
  <2>3. \A j \in (i + 1)..(n + 1) : x[j][1] = "stanza" => x[j][2] > m
    BY <1>2, <1>4, <2>1, <2>2
  <2>4. x[i][1] = "r"
    BY <1>2, <2>1
  <2>5. QED
    BY <1>2, <2>2, <2>3, <2>4 DEF Covers
<1>5. QED
  BY <1>1, <1>3, <1>4

\* When something is received that is covered, it is the request or still covered.
LEMMA CoversTail ==
  ASSUME NEW S, NEW s \in Seq(S), s # <<>>, NEW m \in Nat, Covers(s, m)
  PROVE  \/ Covers(Tail(s), m)
         \/ /\ s[1][1] = "r"
            /\ \A j \in 1..Len(Tail(s)) : Tail(s)[j][1] = "stanza" => Tail(s)[j][2] > m
<1>1. PICK x, n : x = Tail(s) /\ n = Len(s) - 1
  OBVIOUS
<1>2. n \in Nat /\ Len(s) = n + 1 /\ Len(x) = n /\ \A i \in 1..n : x[i] = s[i + 1]
  BY <1>1, NonEmpty
<1>3. PICK i \in 1..(n + 1) :
        s[i][1] = "r" /\ \A j \in (i + 1)..(n + 1) : s[j][1] = "stanza" => s[j][2] > m
  BY <1>2 DEF Covers
<1>4. CASE i = 1
  <2>1. \A j \in 1..n : j + 1 \in (i + 1)..(n + 1)
    BY ONLY <1>2, <1>4
  <2>2. QED
    BY <1>1, <1>2, <1>3, <1>4, <2>1
<1>5. CASE i # 1
  <2>1. i - 1 \in 1..n /\ (i - 1) + 1 = i /\ \A j \in ((i - 1) + 1)..n : j \in 1..n /\ j + 1 \in (i + 1)..(n + 1)
    BY ONLY <1>2, <1>5, i \in 1..(n + 1)
  <2>2. x[i - 1][1] = "r" /\ \A j \in ((i - 1) + 1)..n : x[j][1] = "stanza" => x[j][2] > m
    BY <1>2, <1>3, <2>1
  <2>3. Covers(x, m)
    BY <1>2, <2>1, <2>2 DEF Covers
  <2>4. QED
    BY <1>1, <2>3
<1>6. QED
  BY <1>4, <1>5

\* What the client knows the server to have handled.
Known == IF sm = "started" THEN lastHandledByServer ELSE 0

AcksStay == \A i \in 1..Len(down) : down[i][1] = "a" => \E j \in 1..Len(down') : down'[j] = down[i]

\* What was asked for is part of what was sent.
LEMMA RequestsFacts ==
  ASSUME Types, Listed
  PROVE  /\ Requests \in Nat /\ Requests <= tracked
         /\ Before + Requests \in Nat /\ Before + Requests <= sent
<1>1. PICK n, o, t, s : n = Len(unackedByServer) /\ o = lastRequestOffset /\ t = tracked /\ s = sent
  OBVIOUS
<1>2. n \in Nat /\ o \in 0..n /\ t \in Nat /\ s \in Nat /\ s - t \in Nat /\ n <= t
  BY <1>1, ListTypes DEF Types, ListType, Listed
<1>3. Requests = t - n + o /\ Before = s - t
  BY <1>1 DEF Requests, Before
<1>4. t - n + o \in Nat /\ t - n + o <= t /\ (s - t) + (t - n + o) \in Nat /\ (s - t) + (t - n + o) <= s
  BY ONLY <1>2
<1>5. QED
  BY <1>1, <1>3, <1>4

\* Without stream management nothing is asked for.
LEMMA RequestedIdle ==
  ASSUME sm' = "off"
  PROVE  Requested'
BY DEF Requested, Counting

\* No ack is lost on its way.
LEMMA AcksStayWhen ==
  ASSUME Types, Types',
         \/ down' = down
         \/ \E e \in DownElement : down' = Append(down, e)
         \/ down # <<>> /\ Head(down)[1] # "a" /\ down' = Tail(down)
  PROVE  AcksStay
<1>1. PICK n : n = Len(down)
  OBVIOUS
<1>2. n \in Nat /\ down \in Seq(DownElement)
  BY <1>1, ListTypes, NonEmpty
<1>3. CASE down' = down
  BY <1>3 DEF AcksStay
<1>4. ASSUME NEW e \in DownElement, down' = Append(down, e) PROVE AcksStay
  <2>1. Len(down') = n + 1 /\ \A i \in 1..n : down'[i] = down[i]
    BY <1>1, <1>2, <1>4, AppendFacts
  <2>2. \A i \in 1..n : i \in 1..(n + 1)
    BY ONLY <1>2
  <2>3. QED
    BY <1>1, <2>1, <2>2 DEF AcksStay
<1>5. CASE down # <<>> /\ Head(down)[1] # "a" /\ down' = Tail(down)
  <2>1. Len(down') = n - 1 /\ \A i \in 1..(n - 1) : down'[i] = down[i + 1]
    BY <1>1, <1>2, <1>5, NonEmpty
  <2>2. down[1][1] # "a"
    BY <1>5, DownReads
  <2>3. \A i \in 1..n : i = 1 \/ (i - 1 \in 1..(n - 1) /\ (i - 1) + 1 = i)
    BY ONLY <1>2
  <2>4. ASSUME NEW i \in 1..n, down[i][1] = "a" PROVE \E j \in 1..(n - 1) : down'[j] = down[i]
    <3>1. i - 1 \in 1..(n - 1) /\ (i - 1) + 1 = i
      BY <2>2, <2>3, <2>4
    <3>2. down'[i - 1] = down[i]
      BY <2>1, <3>1
    <3>3. QED
      BY <3>1, <3>2
  <2>5. QED
    BY <1>1, <2>1, <2>4 DEF AcksStay
<1>6. QED
  BY <1>3, <1>4, <1>5

\* Nothing more is asked for, and what was asked is on its way as before.
LEMMA RequestedFrame ==
  ASSUME Types, Listed, Requested, Requests' = Requests, Before' = Before,
         sm' # "off" /\ ~requestTimer' => lastRequestOffset' = Len(unackedByServer'),
         Counting' => Counting /\ server.in <= server'.in /\ server'.in \in Nat /\ Known' = Known,
         unprocessed' = unprocessed, AcksStay,
         Covers(up, Before + Requests) => Covers(up', Before + Requests)
  PROVE  Requested'
<1>1. SUFFICES ASSUME Counting', server'.in < Modulus
               PROVE  \/ Requests <= Known
                      \/ \E i \in 1..Len(unprocessed) : unprocessed[i] >= Requests
                      \/ \E i \in 1..Len(down') : down'[i][1] = "a" /\ down'[i][2] >= Requests
                      \/ Covers(up', Before + Requests)
  BY DEF Requested, Known
<1>2. Counting /\ server.in < Modulus
  <2>1. PICK h, g : h = server.in /\ g = server'.in
    OBVIOUS
  <2>2. h \in Nat /\ g \in Nat /\ h <= g /\ g < Modulus
    BY <1>1, <2>1, ListTypes
  <2>3. h < Modulus
    BY ONLY <2>2, Bounds
  <2>4. QED
    BY <1>1, <2>1, <2>3
<1>3. \/ Requests <= Known
      \/ \E i \in 1..Len(unprocessed) : unprocessed[i] >= Requests
      \/ \E i \in 1..Len(down) : down[i][1] = "a" /\ down[i][2] >= Requests
      \/ Covers(up, Before + Requests)
  BY <1>2 DEF Requested, Known
<1>4. (\E i \in 1..Len(down) : down[i][1] = "a" /\ down[i][2] >= Requests) =>
        \E i \in 1..Len(down') : down'[i][1] = "a" /\ down'[i][2] >= Requests
  BY DEF AcksStay
<1>5. QED
  BY <1>3, <1>4

\* There is nothing to ask for, or stream management ends.
LEMMA NothingRequested ==
  ASSUME Types, Types', Phases,
         \/ Connect \/ SendResume \/ BindAnew \/ EnableStreamManagement \/ NotOffered
         \/ ReceiveResumeFailed \/ ReceiveNotEnabled \/ ServerResumes \/ SessionExpires
         \/ \E clean \in BOOLEAN : Disconnect(clean)
  PROVE  Requested'
<1>1. CASE EnableStreamManagement
  <2>1. sm' = "enableQueued" /\ unackedByServer' = <<>> /\ lastRequestOffset' = 0
    BY <1>1 DEF EnableStreamManagement, ForgetUnacked
  <2>2. QED
    BY <2>1, EmptySeq DEF Requested, Counting
<1>2. CASE Connect \/ SendResume \/ BindAnew \/ NotOffered \/ ReceiveResumeFailed
  <2>1. sm' = "off"
    BY <1>2 DEF Connect, SendResume, BindAnew, NotOffered, ReceiveResumeFailed, Phases, Ordered
  <2>2. QED
    BY <2>1, RequestedIdle
<1>3. CASE ReceiveNotEnabled \/ \E clean \in BOOLEAN : Disconnect(clean)
  BY <1>3, RequestedIdle DEF ReceiveNotEnabled, Disconnect
<1>4. CASE ServerResumes
  <2>1. sm' = "off"
    BY <1>4, ReadsResume DEF ServerResumes
  <2>2. QED
    BY <2>1, RequestedIdle
<1>5. CASE SessionExpires
  <2>1. server.id # NoId /\ ~server.on /\ sm' = sm
    BY <1>5 DEF SessionExpires
  <2>2. sm # "started" /\ sm # "enableQueued"
    BY <2>1 DEF Phases, Started, Enabling, NoSession
  <2>3. sm # "enableSent"
    BY <2>1, CountingFacts DEF Granted
  <2>4. sm' = "off"
    BY <2>1, <2>2, <2>3 DEF Types, PhaseType
  <2>5. QED
    BY <2>4, RequestedIdle
<1>6. QED
  BY <1>1, <1>2, <1>3, <1>4, <1>5

\* All stanzas but the timer's stay covered by a request when the session is resumed.
LEMMA ReceiveResumedRequested ==
  ASSUME Types, Types', Phases, Listed, Pending, Outgoing, Accounted, ReceiveResumed
  PROVE  Requested'
<1>1. /\ unackedByServer' = <<>> /\ tracked' = server.in /\ server' = server
      /\ lastHandledByServer' = server.in % Modulus /\ sm' = "started"
  BY Resumed DEF ReceiveResumed
<1>2. Len(unackedByServer') = 0 /\ lastRequestOffset' = 0
  <2>1. Len(unackedByServer') = 0
    BY <1>1, EmptySeq
  <2>2. lastRequestOffset' \in 0..Len(unackedByServer')
    BY DEF Types, ListType
  <2>3. QED
    BY <2>1, <2>2
<1>3. PICK h : h = server.in
  OBVIOUS
<1>4. h \in Nat
  BY <1>3, ListTypes
<1>5. Requests' = h
  BY <1>1, <1>2, <1>3, <1>4 DEF Requests
<1>6. ASSUME server'.in < Modulus PROVE Requests' <= lastHandledByServer'
  <2>1. h % Modulus = h
    BY <1>1, <1>3, <1>4, <1>6, Bounds
  <2>2. QED
    BY <1>1, <1>3, <1>4, <1>5, <2>1
<1>7. QED
  BY <1>1, <1>2, <1>6 DEF Requested

\* All stanzas but the timer's stay covered by a request when <enable/> has been sent.
LEMMA DidSendEnableRequested ==
  ASSUME Types, Types', Phases, DidSendEnable
  PROVE  Requested'
<1>1. unackedByServer' = <<>> /\ tracked' = 0 /\ sm' = "enableSent"
  BY DEF DidSendEnable, outgoing, Phases, Enabling
<1>2. Len(unackedByServer') = 0 /\ lastRequestOffset' = 0
  <2>1. Len(unackedByServer') = 0
    BY <1>1, EmptySeq
  <2>2. lastRequestOffset' \in 0..Len(unackedByServer')
    BY DEF Types, ListType
  <2>3. QED
    BY <2>1, <2>2
<1>3. Requests' = 0
  <2>1. Requests' = tracked' - Len(unackedByServer') + lastRequestOffset'
    BY DEF Requests
  <2>2. QED
    BY ONLY <1>1, <1>2, <2>1
<1>4. QED
  BY <1>1, <1>2, <1>3 DEF Requested

\* All stanzas but the timer's stay covered by a request when it is enabled.
LEMMA ReceiveEnabledRequested ==
  ASSUME Types, Types', Phases, Listed, Requested, ReceiveEnabled
  PROVE  Requested'
<1>1. /\ sm = "enableSent" /\ down # <<>> /\ Head(down)[1] = "enabled" /\ down' = Tail(down)
      /\ sm' = "started" /\ unprocessed' = <<>> /\ lastHandledByServer' = 0
      /\ UNCHANGED <<unackedByServer, lastRequestOffset, requestTimer, server, sent, tracked, up>>
  BY DEF ReceiveEnabled, ZeroCounters, sentVars
<1>2. unprocessed = <<>> /\ Counting
  BY <1>1, CountingFacts DEF Phases, Enabling
<1>3. Requests' = Requests /\ Before' = Before
  BY <1>1 DEF Requests, Before
<1>4. sm' # "off" /\ ~requestTimer' => lastRequestOffset' = Len(unackedByServer')
  BY <1>1 DEF Requested
<1>5. Known' = 0 /\ Known = 0
  BY <1>1 DEF Known
<1>6. AcksStay
  BY <1>1, AcksStayWhen
<1>7. server.in <= server'.in /\ server'.in \in Nat
  BY <1>1, InStays
<1>8. QED
  BY <1>1, <1>2, <1>3, <1>4, <1>5, <1>6, <1>7, RequestedFrame

\* All stanzas but the timer's stay covered by a request when a stanza is sent.
LEMMA SendStanzaRequested ==
  ASSUME Types, Types', Phases, Listed, Requested, SendStanza
  PROVE  Requested'
<1>1. PICK n, t, s, o, m : /\ n = Len(unackedByServer) /\ t = tracked /\ s = sent
                           /\ o = lastRequestOffset /\ m = Before + Requests
  OBVIOUS
<1>2. /\ n \in Nat /\ t \in Nat /\ s \in Nat /\ o \in Nat /\ up \in Seq(UpElement)
      /\ m \in Nat /\ m <= s
  BY <1>1, ListTypes, RequestsFacts
<1>3. /\ Len(unackedByServer') = n + 1 /\ sent' = s + 1 /\ tracked' = t + 1
      /\ UNCHANGED <<sm, server, down, unprocessed, lastHandledByServer>>
  BY <1>1, StanzaSent DEF SendStanza
<1>4. PICK e, r : e = <<"stanza", s + 1>> /\ r = <<"r">>
  OBVIOUS
<1>5. /\ e \in UpElement /\ e[1] = "stanza" /\ e[2] = s + 1
      /\ r \in UpElement /\ r[1] = "r"
  BY <1>1, <1>4, StanzaSent
<1>6. PICK x : /\ x = Append(up, e)
               /\ \/ up' = Append(x, r) /\ lastRequestOffset' = n + 1
                  \/ up' = x /\ requestTimer' = TRUE /\ lastRequestOffset' = o
  BY <1>1, <1>4, StanzaSent
<1>7. x \in Seq(UpElement)
  BY <1>2, <1>5, <1>6, AppendFacts
<1>8. CASE up' = Append(x, r) /\ lastRequestOffset' = n + 1
  <2>1. Before' + Requests' \in Nat
    BY <1>2, <1>3, <1>8, ListTypes DEF Before, Requests
  <2>2. PICK q : q = Before' + Requests'
    OBVIOUS
  <2>3. Covers(Append(x, r), q)
    BY <1>5, <1>7, <2>1, <2>2, CoversAppend
  <2>4. Covers(up, Before + Requests)'
    BY <1>8, <2>2, <2>3
  <2>5. QED
    BY <1>3, <1>8, <2>4 DEF Requested
<1>9. CASE up' = x /\ requestTimer' = TRUE /\ lastRequestOffset' = o
  <2>1. Requests' = Requests /\ Before' = Before
    <3>1. (t + 1) - (n + 1) + o = t - n + o /\ (s + 1) - (t + 1) = s - t
      BY ONLY <1>2
    <3>2. QED
      BY <1>1, <1>3, <1>9, <3>1 DEF Requests, Before
  <2>2. Covers(up, m) => Covers(up', m)
    <3>1. s + 1 > m
      BY ONLY <1>2
    <3>2. Covers(up, m) => Covers(Append(up, e), m)
      BY <1>2, <1>5, <3>1, CoversAppend
    <3>3. QED
      BY <1>6, <1>9, <3>2
  <2>3. AcksStay
    BY <1>3, AcksStayWhen
  <2>4. Known' = Known /\ (Counting' => Counting) /\ server'.in = server.in
    BY <1>3 DEF Known, Counting
  <2>5. server.in <= server'.in /\ server'.in \in Nat
    BY <2>4, InStays
  <2>6. QED
    BY <1>1, <1>3, <1>9, <2>1, <2>2, <2>3, <2>4, <2>5, RequestedFrame
<1>10. QED
  BY <1>6, <1>8, <1>9

\* All stanzas but the timer's stay covered by a request when the timer requests an ack.
LEMMA RequestTimerFiresRequested ==
  ASSUME Types, Types', Phases, Listed, Listed', RequestTimerFires
  PROVE  Requested'
<1>1. sm # "off" /\ sm' = sm /\ lastRequestOffset' = Len(unackedByServer) /\ unackedByServer' = unackedByServer
  BY DEF RequestTimerFires, RequestAckNow, Phases, Ordered
<1>2. PICK r, m : r = <<"r">> /\ m = Before' + Requests'
  OBVIOUS
<1>3. r \in UpElement /\ r[1] = "r"
  BY <1>2, UpFacts
<1>4. up' = Append(up, r)
  BY <1>1, <1>2 DEF RequestTimerFires, ToServer
<1>5. m \in Nat
  <2>1. PICK n, t, s : n = Len(unackedByServer) /\ t = tracked /\ s = sent
    OBVIOUS
  <2>2. n \in Nat /\ t \in Nat /\ s \in Nat
    BY <2>1, ListTypes
  <2>3. Before' = s - t /\ Requests' = t - n + n
    BY <1>1, <2>1 DEF Before, Requests, RequestTimerFires, sentVars
  <2>4. (s - t) + (t - n + n) = s
    BY ONLY <2>2
  <2>5. QED
    BY <1>2, <2>2, <2>3, <2>4
<1>6. Covers(Append(up, r), m)
  BY <1>3, <1>5, ListTypes, CoversAppend
<1>7. Covers(up, Before + Requests)'
  BY <1>2, <1>4, <1>6
<1>8. QED
  BY <1>1, <1>7 DEF Requested

\* All stanzas but the timer's stay covered by a request when a stanza arrives.
LEMMA ReceiveStanzaRequested ==
  ASSUME Types, Types', Phases, Listed, Requested, ReceiveStanza
  PROVE  Requested'
<1>1. /\ sm = "started" /\ down # <<>> /\ Head(down)[1] = "stanza" /\ down' = Tail(down)
      /\ UNCHANGED <<sm, unackedByServer, lastRequestOffset, requestTimer, server, sent, tracked, up,
                     unprocessed, lastHandledByServer>>
  BY DEF ReceiveStanza, outgoing, sentVars
<1>2. Counting
  BY <1>1, CountingFacts
<1>3. Requests' = Requests /\ Before' = Before /\ Known' = Known
  BY <1>1 DEF Requests, Before, Known
<1>4. sm' # "off" /\ ~requestTimer' => lastRequestOffset' = Len(unackedByServer')
  BY <1>1 DEF Requested
<1>5. AcksStay
  BY <1>1, AcksStayWhen
<1>6. server.in <= server'.in /\ server'.in \in Nat
  BY <1>1, InStays
<1>7. QED
  BY <1>1, <1>2, <1>3, <1>4, <1>5, <1>6, RequestedFrame

\* All stanzas but the timer's stay covered by a request when an ack is sent.
LEMMA SendAckRequested ==
  ASSUME Types, Types', Phases, Listed, Requested, SendAck
  PROVE  Requested'
<1>1. /\ sm = "started"
      /\ UNCHANGED <<sm, unackedByServer, lastRequestOffset, requestTimer, server, sent, tracked, down,
                     unprocessed, lastHandledByServer>>
  BY DEF SendAck, outgoing, sentVars
<1>2. Requests' = Requests /\ Before' = Before /\ Known' = Known /\ (Counting' <=> Counting)
  BY <1>1 DEF Requests, Before, Known, Counting
<1>3. sm' # "off" /\ ~requestTimer' => lastRequestOffset' = Len(unackedByServer')
  BY <1>1 DEF Requested
<1>4. AcksStay
  BY <1>1, AcksStayWhen
<1>5. server.in <= server'.in /\ server'.in \in Nat
  BY <1>1, InStays
<1>6. PICK e, m : e = <<"a", lastHandledByClient>> /\ m = Before + Requests
  OBVIOUS
<1>7. e \in UpElement /\ e[1] = "a" /\ up' = Append(up, e) /\ m \in Nat /\ up \in Seq(UpElement)
  BY <1>6, UpFacts, ListTypes, RequestsFacts DEF SendAck, ToServer, Types, StoreType
<1>8. Covers(up, m) => Covers(up', m)
  BY <1>7, CoversAppend
<1>9. QED
  BY <1>1, <1>2, <1>3, <1>4, <1>5, <1>6, <1>8, RequestedFrame

\* What is left to ask for when k stanzas are taken off the list: as much as
\* before, or nothing beyond what is now known.
LEMMA RequestsAfter ==
  ASSUME Types, Types', NEW p, NEW k, NEW b, Stands(p, k, b), Took(p),
         UNCHANGED <<sent, tracked>>
  PROVE  /\ Before' = Before
         /\ \/ Requests' = Requests
            \/ Requests' = tracked - Len(unackedByServer) + k
         /\ lastRequestOffset = Len(unackedByServer) => lastRequestOffset' = Len(unackedByServer')
<1>1. PICK n, t, o : n = Len(unackedByServer) /\ t = tracked /\ o = lastRequestOffset
  OBVIOUS
<1>2. n \in Nat /\ t \in Nat /\ o \in Nat
  BY <1>1, ListTypes
<1>3. k \in 0..n /\ Len(unackedByServer') = n - k /\ lastRequestOffset' = Lower(o, k)
  BY <1>1, ListAfter
<1>4. Lower(o, k) = IF o > k THEN o - k ELSE 0
  BY DEF Lower
<1>5. Requests' = t - (n - k) + Lower(o, k) /\ Requests = t - n + o
  BY <1>1, <1>3 DEF Requests
<1>6. Before' = Before
  BY DEF Before
<1>7. Requests' = Requests \/ Requests' = t - n + k
  BY ONLY <1>2, <1>3, <1>4, <1>5
<1>8. o = n => Lower(o, k) = n - k
  BY ONLY <1>2, <1>3, <1>4
<1>9. QED
  BY <1>1, <1>3, <1>6, <1>7, <1>8

\* All stanzas but the timer's stay covered by a request when an ack arrives.
LEMMA ReceiveAckRequested ==
  ASSUME Types, Types', Phases, Listed, Outgoing, Accounted, Requested, ReceiveAck
  PROVE  Requested'
<1>1. sm = "started"
  BY AckReceived
<1>2. PICK c, w, d, p, k, b : AckTaken(c, w, d, p, k, b)
  BY AckReceived
<1>3. /\ down # <<>> /\ down' = Tail(down) /\ Head(down)[1] = "a"
      /\ UNCHANGED <<sm, sent, tracked, prevUnacked, requestTimer, server, up>>
  BY DEF ReceiveAck, sentVars
<1>4. /\ Before' = Before
      /\ \/ Requests' = Requests
         \/ Requests' = tracked - Len(unackedByServer) + k
      /\ lastRequestOffset = Len(unackedByServer) => lastRequestOffset' = Len(unackedByServer')
  <2>1. Stands(p, k, b) /\ Took(p)
    BY <1>2 DEF AckTaken
  <2>2. QED
    BY <1>3, <2>1, RequestsAfter
<1>5. sm' # "off" /\ ~requestTimer' => lastRequestOffset' = Len(unackedByServer')
  BY <1>3, <1>4 DEF Requested
<1>6. SUFFICES ASSUME server.in < Modulus
               PROVE  \/ Requests' <= lastHandledByServer'
                      \/ \E i \in 1..Len(unprocessed') : unprocessed'[i] >= Requests'
                      \/ \E i \in 1..Len(down') : down'[i][1] = "a" /\ down'[i][2] >= Requests'
                      \/ Covers(up', Before' + Requests')
  BY <1>1, <1>3, <1>5 DEF Requested
<1>7. PICK n, h, t, q, r : /\ n = Len(unackedByServer) /\ h = server.in /\ t = tracked
                           /\ q = d[1] /\ r = Requests
  OBVIOUS
<1>8. /\ n \in Nat /\ h \in Nat /\ t \in Nat /\ q \in Nat /\ k \in Nat /\ b \in Nat /\ c \in Nat
      /\ c <= q /\ q <= h /\ h < Modulus /\ r \in Nat
  BY <1>2, <1>6, <1>7, ListTypes, RequestsFacts DEF AckTaken, Account
<1>9. /\ k - 0 <= b - c /\ c <= b /\ b <= q
      /\ q < Modulus /\ q - c <= n - 0 => k - 0 = b - c /\ (p.complete => b = q)
      /\ lastHandledByServer' = b % Modulus
  <2>1. /\ k - 0 <= b - c /\ c <= b /\ b <= q
        /\ q < Modulus /\ q - c <= n - 0 => k - 0 = b - c /\ (p.complete => b = q)
    BY <1>2, <1>7 DEF AckTaken, Takes
  <2>2. lastHandledByServer' = b % Modulus
    BY <1>2 DEF AckTaken, Took
  <2>3. QED
    BY <2>1, <2>2
<1>10. c = t - n /\ lastHandledByServer = c % Modulus
  <2>1. Open = n
    BY <1>3, <1>1, <1>7, OpenFacts DEF Phases, Ordered
  <2>2. QED
    BY <1>1, <1>2, <1>6, <1>7, <2>1 DEF AckTaken, Account, Acked
<1>11. h <= t
  BY <1>1, <1>7, CountingFacts DEF Outgoing
<1>12. k = b - c /\ (p.complete => b = q)
  BY ONLY <1>8, <1>9, <1>10, <1>11, Bounds
<1>13. lastHandledByServer' = b /\ lastHandledByServer = c
  <2>1. b < Modulus /\ c < Modulus
    BY ONLY <1>8, <1>9, Bounds
  <2>2. b % Modulus = b /\ c % Modulus = c
    BY <1>8, <2>1, Bounds
  <2>3. QED
    BY <1>9, <1>10, <2>2
<1>14. CASE Requests' = tracked - Len(unackedByServer) + k
  <2>1. t - n + k <= b
    BY ONLY <1>8, <1>10, <1>12
  <2>2. QED
    BY <1>7, <1>13, <1>14, <2>1
<1>15. CASE Requests' = Requests
  <2>1. \/ r <= c
        \/ \E i \in 1..Len(unprocessed) : unprocessed[i] >= r
        \/ \E i \in 1..Len(down) : down[i][1] = "a" /\ down[i][2] >= r
        \/ Covers(up, Before + r)
    BY <1>1, <1>6, <1>7, <1>13, CountingFacts DEF Requested
  <2>2. CASE r <= c
    <3>1. r <= b
      BY ONLY <1>8, <1>9, <2>2
    <3>2. QED
      BY <1>7, <1>13, <1>15, <3>1
  <2>3. \/ p.complete /\ unprocessed' = unprocessed
        \/ /\ Len(unprocessed') = Len(unprocessed) + 1 /\ unprocessed'[Len(unprocessed) + 1] = q
           /\ \A i \in 1..Len(unprocessed) : unprocessed'[i] = unprocessed[i]
    <3>1. q % Modulus = q
      <4>1. q < Modulus
        BY ONLY <1>8, Bounds
      <4>2. QED
        BY <1>8, <4>1, Bounds
    <3>2. unprocessed' = IF p.complete THEN unprocessed ELSE Append(unprocessed, q)
      BY <1>2, <1>7, <3>1 DEF AckTaken, QueueAck
    <3>3. /\ Len(Append(unprocessed, q)) = Len(unprocessed) + 1
          /\ Append(unprocessed, q)[Len(unprocessed) + 1] = q
          /\ \A i \in 1..Len(unprocessed) : Append(unprocessed, q)[i] = unprocessed[i]
      BY <1>8, ListTypes, AppendFacts
    <3>4. QED
      BY <3>2, <3>3
  <2>4. PICK l : l = Len(unprocessed)
    OBVIOUS
  <2>5. l \in Nat
    BY <2>4, ListTypes
  <2>6. l + 1 \in 1..(l + 1) /\ \A i \in 1..l : i \in 1..(l + 1)
    BY ONLY <2>5
  <2>7. CASE \E i \in 1..Len(unprocessed) : unprocessed[i] >= r
    <3>1. PICK i \in 1..l : unprocessed[i] >= r
      BY <2>4, <2>7
    <3>2. i \in 1..Len(unprocessed') /\ unprocessed'[i] = unprocessed[i]
      BY <2>3, <2>4, <2>6
    <3>3. QED
      BY <1>7, <1>15, <3>1, <3>2
  <2>8. CASE \E i \in 1..Len(down) : down[i][1] = "a" /\ down[i][2] >= r
    <3>1. PICK i \in 1..Len(down) : down[i][1] = "a" /\ down[i][2] >= r
      BY <2>8
    <3>2. CASE i = 1
      <4>1. down[1][2] = q % Modulus
        BY <1>2, <1>7, <3>1, <3>2 DEF AckTaken, Account, Arriving
      <4>2. q % Modulus = q
        <5>1. q < Modulus
          BY ONLY <1>8, Bounds
        <5>2. QED
          BY <1>8, <5>1, Bounds
      <4>3. q >= r
        BY <3>1, <3>2, <4>1, <4>2
      <4>4. CASE p.complete
        <5>1. r <= b
          BY ONLY <1>8, <1>12, <4>3, <4>4
        <5>2. QED
          BY <1>7, <1>13, <1>15, <5>1
      <4>5. CASE ~p.complete
        BY <1>7, <1>15, <2>3, <2>4, <2>6, <4>3, <4>5
      <4>6. QED
        BY <4>4, <4>5
    <3>3. CASE i # 1
      <4>1. PICK m : m = Len(down)
        OBVIOUS
      <4>2. m \in Nat /\ Len(down') = m - 1 /\ \A j \in 1..(m - 1) : down'[j] = down[j + 1]
        BY <1>3, <4>1, ListTypes, NonEmpty
      <4>3. i - 1 \in 1..(m - 1) /\ (i - 1) + 1 = i
        <5>1. i \in 1..m
          BY <4>1
        <5>2. QED
          BY ONLY <3>3, <4>2, <5>1
      <4>4. down'[i - 1] = down[i] /\ i - 1 \in 1..Len(down')
        BY <4>2, <4>3
      <4>5. QED
        BY <1>7, <1>15, <3>1, <4>4
    <3>4. QED
      BY <3>2, <3>3
  <2>9. CASE Covers(up, Before + r)
    BY <1>3, <1>4, <1>7, <1>15, <2>9
  <2>10. QED
    BY <2>1, <2>2, <2>7, <2>8, <2>9
<1>16. QED
  BY <1>4, <1>14, <1>15

\* All stanzas but the timer's stay covered by a request when a stanza gets its name.
LEMMA StanzaIdAnsweredRequested ==
  ASSUME Types, Types', Phases, Listed, Outgoing, Accounted, Requested,
         NEW n \in unanswered, StanzaIdAnswered(n)
  PROVE  Requested'
<1>1. PICK c, w, d, p, k, b : NameTaken(n, c, w, d, p, k, b)
  BY NameAnswered
<1>2. UNCHANGED <<sm, sent, tracked, prevUnacked, requestTimer, server, up, down>>
  BY DEF StanzaIdAnswered, wire
<1>3. Counting' <=> Counting
  BY <1>2 DEF Counting
<1>4. CASE unprocessed = <<>>
  <2>1. UNCHANGED <<unackedByServer, unprocessed, lastRequestOffset, lastHandledByServer>>
    BY <1>1, <1>4, NameAlone
  <2>2. Requests' = Requests /\ Before' = Before /\ Known' = Known
    BY <1>2, <2>1 DEF Requests, Before, Known
  <2>3. sm' # "off" /\ ~requestTimer' => lastRequestOffset' = Len(unackedByServer')
    BY <1>2, <2>1 DEF Requested
  <2>4. AcksStay
    BY <1>2, AcksStayWhen
  <2>5. server.in <= server'.in /\ server'.in \in Nat
    BY <1>2, InStays
  <2>6. QED
    BY <1>2, <1>3, <2>1, <2>2, <2>3, <2>4, <2>5, RequestedFrame
<1>5. CASE unprocessed # <<>>
  <2>1. /\ Before' = Before
        /\ \/ Requests' = Requests
           \/ Requests' = tracked - Len(unackedByServer) + k
        /\ lastRequestOffset = Len(unackedByServer) => lastRequestOffset' = Len(unackedByServer')
    <3>1. Stands(p, k, b) /\ Took(p)
      BY <1>1 DEF NameTaken
    <3>2. QED
      BY <1>2, <3>1, RequestsAfter
  <2>2. sm' # "off" /\ ~requestTimer' => lastRequestOffset' = Len(unackedByServer')
    BY <1>2, <2>1 DEF Requested
  <2>3. SUFFICES ASSUME sm = "started", server.in < Modulus
                 PROVE  \/ Requests' <= lastHandledByServer'
                        \/ \E i \in 1..Len(unprocessed') : unprocessed'[i] >= Requests'
                        \/ \E i \in 1..Len(down') : down'[i][1] = "a" /\ down'[i][2] >= Requests'
                        \/ Covers(up', Before' + Requests')
    <3>1. Counting' => sm' = "started" /\ sm = "started"
      BY <1>2, <1>5 DEF Counting, Phases, Enabling
    <3>2. QED
      BY <1>2, <2>2, <2>3, <3>1 DEF Requested
  <2>4. PICK u, h, t, l, r, f : /\ u = Len(unackedByServer) /\ h = server.in /\ t = tracked
                                /\ l = Len(unprocessed) /\ r = Requests /\ f = p.taken
    OBVIOUS
  <2>5. /\ u \in Nat /\ h \in Nat /\ t \in Nat /\ l \in Nat /\ k \in Nat /\ b \in Nat /\ r \in Nat
        /\ f \in 0..l /\ h < Modulus /\ unprocessed' = Drop(unprocessed, f) /\ Account(c, w, d)
    BY <1>1, <2>3, <2>4, ListTypes, RequestsFacts DEF NameTaken
  <2>6. /\ c \in Nat /\ c <= b /\ b <= w[l] /\ k = b - c
        /\ \A j \in 1..f : w[j] <= b
        /\ lastHandledByServer' = b % Modulus
    BY <1>1, <1>2, <1>5, <2>3, <2>4, NamesTaken
  <2>7. /\ \A i \in 1..l : w[i] \in Nat /\ w[i] <= h /\ unprocessed[i] = w[i] % Modulus
        /\ c <= h /\ lastHandledByServer = c % Modulus
    BY <2>3, <2>4, <2>5 DEF Account, Waiting, Acked, Live
  <2>8. c = t - u
    <3>1. Open = u
      BY <2>3, <2>4, OpenFacts DEF Phases, Ordered
    <3>2. QED
      BY <2>3, <2>4, <2>5, <3>1 DEF Account, Acked
  <2>9. \A m \in Nat : m <= h => m % Modulus = m
    <3>1. SUFFICES ASSUME NEW m \in Nat, m <= h PROVE m % Modulus = m
      OBVIOUS
    <3>2. m < Modulus
      BY ONLY <2>5, <3>1, Bounds
    <3>3. QED
      BY <3>2, Bounds
  <2>10. lastHandledByServer' = b /\ lastHandledByServer = c
    <3>1. l \in 1..l
      BY <1>5, <2>4, ListTypes, NonEmpty
    <3>2. w[l] \in Nat /\ w[l] <= h
      BY <2>7, <3>1
    <3>3. b <= h
      BY ONLY <2>5, <2>6, <3>2
    <3>4. QED
      BY <2>5, <2>6, <2>7, <2>9, <3>3
  <2>11. CASE Requests' = tracked - Len(unackedByServer) + k
    <3>1. t - u + k <= b
      BY ONLY <2>5, <2>6, <2>8
    <3>2. QED
      BY <2>4, <2>10, <2>11, <3>1
  <2>12. CASE Requests' = Requests
    <3>1. \/ r <= c
          \/ \E i \in 1..Len(unprocessed) : unprocessed[i] >= r
          \/ \E i \in 1..Len(down) : down[i][1] = "a" /\ down[i][2] >= r
          \/ Covers(up, Before + r)
      BY <2>3, <2>4, <2>10, CountingFacts DEF Requested
    <3>2. CASE r <= c
      <4>1. r <= b
        BY ONLY <2>5, <2>6, <3>2
      <4>2. QED
        BY <2>4, <2>10, <2>12, <4>1
    <3>3. CASE \E i \in 1..Len(unprocessed) : unprocessed[i] >= r
      <4>1. PICK i \in 1..l : unprocessed[i] >= r
        BY <2>4, <3>3
      <4>2. unprocessed[i] = w[i] /\ w[i] \in Nat
        BY <2>7, <2>9
      <4>3. CASE i \in 1..f
        <5>1. w[i] <= b
          BY <2>6, <4>3
        <5>2. r <= b
          BY ONLY <2>5, <4>1, <4>2, <5>1
        <5>3. QED
          BY <2>4, <2>10, <2>12, <5>2
      <4>4. CASE i \notin 1..f
        <5>1. i - f \in 1..(l - f) /\ f + (i - f) = i
          BY ONLY <2>5, <4>4, i \in 1..l
        <5>2. /\ Len(unprocessed') = l - f
              /\ \A j \in 1..(l - f) : unprocessed'[j] = unprocessed[f + j]
          <6>1. f \in 0..Len(unprocessed) /\ unprocessed \in Seq(Nat)
            BY <2>4, <2>5, ListTypes
          <6>2. /\ Len(Drop(unprocessed, f)) = Len(unprocessed) - f
                /\ \A j \in 1..(Len(unprocessed) - f) : Drop(unprocessed, f)[j] = unprocessed[f + j]
            BY <6>1, DropFacts
          <6>3. QED
            BY <2>4, <2>5, <6>2
        <5>3. unprocessed'[i - f] = unprocessed[i]
          BY <5>1, <5>2
        <5>4. QED
          BY <2>4, <2>12, <4>1, <5>1, <5>2, <5>3
      <4>5. QED
        BY <4>3, <4>4
    <3>4. CASE \/ \E i \in 1..Len(down) : down[i][1] = "a" /\ down[i][2] >= r
               \/ Covers(up, Before + r)
      BY <1>2, <2>1, <2>4, <2>12, <3>4
    <3>5. QED
      BY <3>1, <3>2, <3>3, <3>4
  <2>13. QED
    BY <2>1, <2>11, <2>12
<1>6. QED
  BY <1>4, <1>5

\* All stanzas but the timer's stay covered by a request when the server reads <enable/>.
LEMMA ServerEnablesRequested ==
  ASSUME Types, Types', Phases, Listed, Requested, ServerEnables
  PROVE  Requested'
<1>1. /\ sm = "enableSent" /\ Requesting /\ down = <<>> /\ server = NoSession
      /\ up # <<>> /\ up' = Tail(up)
  BY ReadsEnable DEF ServerEnables
<1>2. UNCHANGED <<sm, sent, tracked, unackedByServer, lastRequestOffset, requestTimer, unprocessed,
                  lastHandledByServer>>
  BY DEF ServerEnables, sentVars, outgoing
<1>3. Requests' = Requests /\ Before' = Before /\ Known' = Known
  BY <1>2 DEF Requests, Before, Known
<1>4. sm' # "off" /\ ~requestTimer' => lastRequestOffset' = Len(unackedByServer')
  BY <1>2 DEF Requested
<1>5. Counting
  BY <1>1 DEF Counting
<1>6. server.in <= server'.in /\ server'.in \in Nat
  <2>1. server' = [NoSession EXCEPT !.id = ids + 1, !.on = TRUE] \/ server' = server
    BY DEF ServerEnables
  <2>2. [NoSession EXCEPT !.id = ids + 1, !.on = TRUE].in = 0 /\ NoSession.in = 0
    BY DEF NoSession
  <2>3. server.in = 0 /\ server'.in = 0
    BY <1>1, <2>1, <2>2
  <2>4. QED
    BY <2>3
<1>7. AcksStay
  BY <1>1, EmptySeq DEF AcksStay
<1>8. Covers(up, Before + Requests) => Covers(up', Before + Requests)
  <2>1. PICK m : m = Before + Requests
    OBVIOUS
  <2>2. m \in Nat /\ up \in Seq(UpElement)
    BY <2>1, ListTypes, RequestsFacts
  <2>3. up[1][1] # "r"
    BY <1>1 DEF Requesting
  <2>4. QED
    BY <1>1, <2>1, <2>2, <2>3, CoversTail
<1>9. QED
  BY <1>2, <1>3, <1>4, <1>5, <1>6, <1>7, <1>8, RequestedFrame

\* All stanzas but the timer's stay covered when the server reads what is no request.
LEMMA ServerReadsRequested ==
  ASSUME Types, Types', Phases, Listed, Requested, ServerHandles \/ ServerIsAcked
  PROVE  Requested'
<1>1. PICK word \in {"stanza", "a"} : ServerReads(word)
  BY DEF ServerHandles, ServerIsAcked
<1>2. /\ up # <<>> /\ up[1][1] = word /\ up' = Tail(up)
      /\ UNCHANGED <<sm, sent, tracked, unackedByServer, lastRequestOffset, requestTimer, unprocessed,
                     lastHandledByServer, down>>
  BY <1>1, ServerRead DEF ServerHandles, ServerIsAcked, sentVars, outgoing
<1>3. Requests' = Requests /\ Before' = Before /\ Known' = Known /\ (Counting' <=> Counting)
  BY <1>2 DEF Requests, Before, Known, Counting
<1>4. sm' # "off" /\ ~requestTimer' => lastRequestOffset' = Len(unackedByServer')
  BY <1>2 DEF Requested
<1>5. server.in <= server'.in /\ server'.in \in Nat
  <2>1. server'.in \in {server.in, server.in + 1}
    BY DEF ServerHandles, ServerIsAcked, Types, ServerType, Server
  <2>2. server.in \in Nat
    BY ListTypes
  <2>3. QED
    BY <2>1, <2>2
<1>6. AcksStay
  BY <1>2, AcksStayWhen
<1>7. Covers(up, Before + Requests) => Covers(up', Before + Requests)
  <2>1. PICK m : m = Before + Requests
    OBVIOUS
  <2>2. m \in Nat /\ up \in Seq(UpElement)
    BY <2>1, ListTypes, RequestsFacts
  <2>3. up[1][1] # "r"
    BY <1>2
  <2>4. QED
    BY <1>2, <2>1, <2>2, <2>3, CoversTail
<1>8. QED
  BY <1>2, <1>3, <1>4, <1>5, <1>6, <1>7, RequestedFrame

\* All stanzas but the timer's stay covered by a request when the server sends a stanza.
LEMMA ServerSendsRequested ==
  ASSUME Types, Types', Phases, Listed, Requested, ServerSends
  PROVE  Requested'
<1>1. /\ server.id # NoId
      /\ UNCHANGED <<sm, sent, tracked, unackedByServer, lastRequestOffset, requestTimer, unprocessed,
                     lastHandledByServer, up>>
  BY DEF ServerSends, sentVars, outgoing
<1>2. Requests' = Requests /\ Before' = Before /\ Known' = Known
  BY <1>1 DEF Requests, Before, Known
<1>3. Counting' => Counting
  BY <1>1, CountingFacts DEF Counting
<1>4. sm' # "off" /\ ~requestTimer' => lastRequestOffset' = Len(unackedByServer')
  BY <1>1 DEF Requested
<1>5. server.in <= server'.in /\ server'.in \in Nat
  <2>1. server'.in = server.in
    BY DEF ServerSends, Types, ServerType, Server
  <2>2. QED
    BY <2>1, InStays
<1>6. AcksStay
  <2>1. PICK e, m : e = <<"stanza", m + 1>> /\ m = server.out
    OBVIOUS
  <2>2. e \in DownElement
    <3>1. m \in Nat
      BY <2>1, ListTypes
    <3>2. m + 1 \in Nat
      BY <3>1
    <3>3. QED
      BY <2>1, <3>2, DownFacts
  <2>3. down' = down \/ down' = Append(down, e)
    BY <2>1 DEF ServerSends, ToClient
  <2>4. QED
    BY <2>2, <2>3, AcksStayWhen
<1>7. QED
  BY <1>1, <1>2, <1>3, <1>4, <1>5, <1>6, RequestedFrame

\* The answer to a request is for all that was sent before it.
LEMMA ServerAcksRequested ==
  ASSUME Types, Types', Phases, Listed, Outgoing, Requested, ServerAcks
  PROVE  Requested'
<1>1. /\ up # <<>> /\ up[1][1] = "r" /\ up' = Tail(up) /\ sm \in {"off", "enableSent", "started"}
      /\ sm = "enableSent" => Refused \/ Granted
      /\ UNCHANGED <<sm, sent, tracked, unackedByServer, lastRequestOffset, requestTimer, unprocessed,
                     lastHandledByServer, server>>
  BY ReadsOther DEF ServerAcks, sentVars, outgoing
<1>2. Requests' = Requests /\ Before' = Before /\ Known' = Known
  BY <1>1 DEF Requests, Before, Known
<1>3. sm' # "off" /\ ~requestTimer' => lastRequestOffset' = Len(unackedByServer')
  BY <1>1 DEF Requested
<1>4. ASSUME Counting' PROVE Counting /\ server.on
  <2>1. sm \in {"enableSent", "started"}
    BY <1>1, <1>4 DEF Counting
  <2>2. server.on
    <3>1. CASE sm = "started"
      BY <3>1 DEF Phases, Started
    <3>2. CASE sm = "enableSent" /\ Granted
      BY <3>2 DEF Granted
    <3>3. CASE sm = "enableSent" /\ Refused
      <4>1. ~server.on /\ down = <<<<"failed">>>>
        BY <3>3 DEF Refused, NoSession
      <4>2. down' = down
        BY <4>1 DEF ServerAcks
      <4>3. QED
        BY <1>4, <4>1, <4>2 DEF Counting
    <3>4. QED
      BY <1>1, <2>1, <3>1, <3>2, <3>3
  <2>3. server.id # NoId
    BY <2>2 DEF Phases, Sessions
  <2>4. QED
    BY <2>1, <2>2, <2>3, CountingFacts
<1>5. SUFFICES ASSUME Counting', Counting, server.on, server.in < Modulus
               PROVE  \/ Requests <= Known
                      \/ \E i \in 1..Len(unprocessed) : unprocessed[i] >= Requests
                      \/ \E i \in 1..Len(down') : down'[i][1] = "a" /\ down'[i][2] >= Requests
                      \/ Covers(up', Before + Requests)
  BY <1>1, <1>2, <1>3, <1>4 DEF Requested, Known
<1>6. PICK n, h, r, a, s : /\ n = Len(down) /\ h = server.in /\ r = Requests /\ a = Before /\ s = sent
  OBVIOUS
<1>7. /\ n \in Nat /\ h \in Nat /\ h < Modulus /\ r \in Nat /\ a \in Nat /\ s \in Nat /\ a + r <= s
      /\ down \in Seq(DownElement) /\ up \in Seq(UpElement)
  BY <1>5, <1>6, ListTypes, NonEmpty, RequestsFacts, OpenFacts
<1>8. h % Modulus = h
  BY <1>7, Bounds
<1>9. PICK v : v = <<"a", h>>
  OBVIOUS
<1>10. v \in DownElement /\ v[1] = "a" /\ v[2] = h
  <2>1. h \in 0..(Modulus - 1)
    BY ONLY <1>7, Bounds
  <2>2. QED
    BY <1>9, <2>1, DownFacts
<1>11. Len(down') = n + 1 /\ down'[n + 1] = v /\ \A i \in 1..n : down'[i] = down[i]
  <2>1. down' = Append(down, v)
    BY <1>5, <1>6, <1>8, <1>9 DEF ServerAcks, ToClient
  <2>2. QED
    BY <1>6, <1>7, <1>10, <2>1, AppendFacts
<1>12. n + 1 \in 1..(n + 1) /\ \A i \in 1..n : i \in 1..(n + 1)
  BY ONLY <1>7
<1>13. \/ r <= Known
       \/ \E i \in 1..Len(unprocessed) : unprocessed[i] >= r
       \/ \E i \in 1..n : down[i][1] = "a" /\ down[i][2] >= r
       \/ Covers(up, a + r)
  BY <1>5, <1>6 DEF Requested, Known
<1>14. CASE \E i \in 1..n : down[i][1] = "a" /\ down[i][2] >= r
  BY <1>6, <1>11, <1>12, <1>14
<1>15. CASE Covers(up, a + r)
  <2>1. PICK m : m = a + r
    OBVIOUS
  <2>2. m \in Nat /\ m <= s
    BY ONLY <1>7, <2>1
  <2>3. CASE Covers(up', m)
    BY <1>6, <2>1, <2>3
  <2>4. CASE \A j \in 1..Len(up') : up'[j][1] = "stanza" => up'[j][2] > m
    <3>1. Stanzas(up', a + h, s)
      BY <1>5, <1>6, OutgoingRead DEF ServerAcks
    <3>2. r <= h
      <4>1. SUFFICES ASSUME r > h PROVE FALSE
        BY <1>7
      <4>2. a + h + 1 \in (a + h + 1)..s /\ ~(a + h + 1 > m)
        BY ONLY <1>7, <2>1, <4>1
      <4>3. PICK j \in 1..Len(up') : up'[j][1] = "stanza" /\ up'[j][2] = a + h + 1
        BY <3>1, <4>2 DEF Stanzas
      <4>4. QED
        BY <2>4, <4>2, <4>3
    <3>3. QED
      BY <1>6, <1>10, <1>11, <1>12, <3>2
  <2>5. QED
    BY <1>1, <1>7, <1>15, <2>1, <2>2, <2>3, <2>4, CoversTail
<1>16. QED
  BY <1>6, <1>13, <1>14, <1>15

\* Nothing is asked for in the beginning.
LEMMA InitRequested == Init => Requested
BY DEF Init, Requested, Counting

\* A step that changes nothing changes no request.
LEMMA RequestedStutters ==
  ASSUME Requested, UNCHANGED vars
  PROVE  Requested'
<1>1. UNCHANGED <<sm, requestTimer, lastRequestOffset, unackedByServer, lastHandledByServer, unprocessed,
                  sent, tracked, up, down, server>>
  BY DEF vars, outgoing, sentVars, wire
<1>2. Requests' = Requests /\ Before' = Before /\ Counting' = Counting
  BY <1>1 DEF Requests, Before, Counting
<1>3. QED
  BY <1>1, <1>2 DEF Requested

\* Every step keeps all stanzas covered.
LEMMA RequestedStep ==
  ASSUME Core, Core', Requested, [Next]_vars
  PROVE  Requested'
<1> USE DEF Core
<1>1. CASE \/ Connect \/ SendResume \/ BindAnew \/ EnableStreamManagement \/ NotOffered
           \/ ReceiveResumeFailed \/ ReceiveNotEnabled \/ ServerResumes \/ SessionExpires
           \/ \E clean \in BOOLEAN : Disconnect(clean)
  BY <1>1, NothingRequested
<1>2. CASE DidSendEnable
  BY <1>2, DidSendEnableRequested
<1>3. CASE ReceiveResumed
  BY <1>3, ReceiveResumedRequested
<1>4. CASE ReceiveEnabled
  BY <1>4, ReceiveEnabledRequested
<1>5. CASE ReceiveAck
  BY <1>5, ReceiveAckRequested
<1>6. CASE ReceiveStanza
  BY <1>6, ReceiveStanzaRequested
<1>7. CASE SendStanza
  BY <1>7, SendStanzaRequested
<1>8. CASE RequestTimerFires
  BY <1>8, RequestTimerFiresRequested
<1>9. CASE SendAck
  BY <1>9, SendAckRequested
<1>10. ASSUME NEW n \in unanswered, StanzaIdAnswered(n) PROVE Requested'
  BY <1>10, StanzaIdAnsweredRequested
<1>11. CASE ServerEnables
  BY <1>11, ServerEnablesRequested
<1>12. CASE ServerHandles \/ ServerIsAcked
  BY <1>12, ServerReadsRequested
<1>13. CASE ServerAcks
  BY <1>13, ServerAcksRequested
<1>14. CASE ServerSends
  BY <1>14, ServerSendsRequested
<1>15. CASE UNCHANGED vars
  BY <1>15, RequestedStutters
<1>16. QED
  BY <1>1, <1>2, <1>3, <1>4, <1>5, <1>6, <1>7, <1>8, <1>9, <1>10, <1>11, <1>12, <1>13, <1>14, <1>15
  DEF Next, ClientReceives, Serve

-----------------------------------------------------------------------------
(* What was handled is reported, waited for, or given up.                  *)

\* There is no session of which to say anything.
LEMMA ConservedIdle ==
  ASSUME ~Live'
  PROVE  Conserved'
BY DEF Conserved

\* The client has not yet a session, or has no more.
LEMMA NothingConserved ==
  ASSUME Types, Types', Phases,
         \/ BindAnew \/ ReceiveResumeFailed \/ EnableStreamManagement \/ ReceiveNotEnabled
         \/ SessionExpires \/ NotOffered \/ DidSendEnable
  PROVE  Conserved'
<1>1. CASE BindAnew \/ ReceiveResumeFailed
  <2>1. sm' = "off" /\ server'.id = NoId /\ store' = store
    BY <1>1 DEF BindAnew, ReceiveResumeFailed, Phases, Ordered, NoSession
  <2>2. QED
    BY <2>1, ConservedIdle DEF Live, Resumable, Match
<1>2. CASE EnableStreamManagement
  BY <1>2, ConservedIdle DEF EnableStreamManagement, Live, Resumable
<1>3. CASE ReceiveNotEnabled
  <2>1. sm' = "off" /\ store'.id = NoId
    BY <1>3 DEF ReceiveNotEnabled, NoStore
  <2>2. QED
    BY <2>1, ConservedIdle DEF Live, Resumable, Match
<1>4. CASE SessionExpires
  <2>1. server.id # NoId /\ ~server.on /\ server'.id = NoId /\ sm' = sm /\ store' = store
    BY <1>4 DEF SessionExpires, NoSession
  <2>2. sm # "started" /\ sm # "enableSent"
    BY <2>1, CountingFacts DEF Phases, Started, Granted
  <2>3. QED
    BY <2>1, <2>2, ConservedIdle DEF Live, Resumable, Match
<1>5. CASE NotOffered
  <2>1. sm' = "off" /\ server'.id = NoId /\ store' = store
    BY <1>5 DEF NotOffered, Phases, Ordered, Offline, NoSession
  <2>2. QED
    BY <2>1, ConservedIdle DEF Live, Resumable, Match
<1>6. CASE DidSendEnable
  <2>1. sm' = "enableSent" /\ ~server'.on
    BY <1>6 DEF DidSendEnable, Phases, Enabling, NoSession
  <2>2. QED
    BY <2>1, ConservedIdle DEF Live, Resumable
<1>7. QED
  BY <1>1, <1>2, <1>3, <1>4, <1>5, <1>6

\* The lists are as before, and so is what was handled.
LEMMA ConservedFrame ==
  ASSUME Conserved, UNCHANGED Lists, UNCHANGED <<session, nameless, cutOff, lastHandledByServer>>,
         server'.in = server.in, store'.pending = store.pending,
         Live' => Live, Resumable' => Resumable,
         conn' \in {"down", "binding"} => conn \in {"down", "binding"}
  PROVE  Conserved'
<1>1. SUFFICES ASSUME Live', server'.in < Modulus
               PROVE  (InSession /\ Settled /\ Exact /\ Unnamed /\ Dropped /\ Ahead)'
  BY DEF Conserved
<1>2. InSession /\ Settled /\ Exact /\ Unnamed /\ Dropped /\ Ahead
  BY <1>1 DEF Conserved
<1>3. Before' = Before /\ Open' = Open
  BY DEF Before, Open, Lists
<1>4. InSession'
  BY <1>2, <1>3 DEF InSession
<1>5. Settled'
  BY <1>2, <1>3 DEF Settled, GivenUp, IsReported, Lists
<1>6. Exact' /\ Unnamed' /\ Dropped' /\ Ahead'
  BY <1>2, <1>3 DEF Exact, Unnamed, Dropped, Ahead, Lists
<1>7. QED
  BY <1>4, <1>5, <1>6

\* What is on its way and what the server says of it change nothing.
LEMMA ConservedStays ==
  ASSUME Types, Phases, Conserved,
         \/ Connect \/ RequestTimerFires \/ SendAck \/ ReceiveStanza \/ ServerAcks
         \/ ServerIsAcked \/ ServerSends \/ ServerResumes
  PROVE  Conserved'
<1>1. server'.id = server.id /\ server'.in = server.in
  BY DEF Connect, RequestTimerFires, SendAck, ReceiveStanza, ServerAcks, ServerIsAcked, ServerSends,
     ServerResumes, Types, ServerType, Server
<1>2. UNCHANGED Lists /\ UNCHANGED <<sm, session, nameless, cutOff, lastHandledByServer>>
  BY DEF Connect, RequestTimerFires, SendAck, ReceiveStanza, ServerAcks, ServerIsAcked, ServerSends,
     ServerResumes, outgoing, sentVars, history, Lists
<1>3. store'.pending = store.pending /\ store'.id = store.id
  BY DEF Connect, RequestTimerFires, SendAck, ReceiveStanza, ServerAcks, ServerIsAcked, ServerSends,
     ServerResumes, Types, StoreType, Store
<1>4. Resumable' => Resumable
  BY <1>1, <1>2, <1>3 DEF Resumable, Match
<1>5. Live' => Live
  <2>1. CASE ServerResumes
    <3>1. sm = "off"
      BY <2>1, ReadsResume DEF ServerResumes
    <3>2. QED
      BY <1>2, <1>4, <3>1 DEF Live
  <2>2. CASE ~ServerResumes
    <3>1. server'.on = server.on
      BY <2>2 DEF Connect, RequestTimerFires, SendAck, ReceiveStanza, ServerAcks, ServerIsAcked,
         ServerSends, Types, ServerType, Server
    <3>2. QED
      BY <1>2, <1>4, <3>1 DEF Live
  <2>3. QED
    BY <2>1, <2>2
<1>6. conn' \in {"down", "binding"} => conn \in {"down", "binding"}
  BY DEF Connect, RequestTimerFires, SendAck, ReceiveStanza, ServerAcks, ServerIsAcked, ServerSends,
     ServerResumes
<1>7. QED
  BY <1>1, <1>2, <1>3, <1>4, <1>5, <1>6, ConservedFrame

\* A step that changes nothing conserves all.
LEMMA ConservedStutters ==
  ASSUME Conserved, UNCHANGED vars
  PROVE  Conserved'
<1>1. /\ UNCHANGED Lists
      /\ UNCHANGED <<conn, sm, store, server, session, nameless, cutOff, lastHandledByServer>>
  BY DEF vars, outgoing, sentVars, history, Lists
<1>2. Live' = Live /\ Resumable' = Resumable
  BY <1>1 DEF Live, Resumable, Match
<1>3. QED
  BY <1>1, <1>2, ConservedFrame

\* What is reported stays reported, and what is appended is reported too.
LEMMA ReportsGrow ==
  ASSUME Types, NEW x \in Seq(Nat), reported' = reported \o x
  PROVE  /\ \A n : IsReported(n) => IsReported(n)'
         /\ \A n : (\E i \in 1..Len(x) : x[i] = n) => IsReported(n)'
<1>1. PICK r, t : r = reported /\ t = r \o x
  OBVIOUS
<1>2. PICK a, b : a = Len(r) /\ b = Len(x)
  OBVIOUS
<1>3. r \in Seq(Nat) /\ a \in Nat /\ b \in Nat /\ DOMAIN r = 1..a
  BY <1>1, <1>2, NonEmpty, LenProperties DEF Types, HistoryType
<1>4. /\ t \in Seq(Nat) /\ Len(t) = a + b
      /\ \A i \in 1..(a + b) : t[i] = IF i <= a THEN r[i] ELSE x[i - a]
  BY <1>1, <1>2, <1>3, ConcatProperties
<1>5. DOMAIN t = 1..(a + b) /\ reported' = t
  BY <1>1, <1>4, LenProperties
<1>6. \A i \in 1..a : i \in 1..(a + b) /\ t[i] = r[i]
  BY <1>3, <1>4
<1>7. \A i \in 1..b : a + i \in 1..(a + b) /\ t[a + i] = x[i]
  <2>1. \A i \in 1..b : a + i \in 1..(a + b) /\ ~(a + i <= a) /\ (a + i) - a = i
    BY ONLY <1>3
  <2>2. QED
    BY ONLY <1>4, <2>1
<1>8. ASSUME NEW n, IsReported(n) PROVE IsReported(n)'
  BY <1>1, <1>3, <1>5, <1>6, <1>8 DEF IsReported
<1>9. ASSUME NEW n, NEW i \in 1..b, x[i] = n PROVE IsReported(n)'
  BY <1>5, <1>7, <1>9 DEF IsReported
<1>10. QED
  BY <1>2, <1>8, <1>9

\* What the server handled stays settled when what is no longer waited for is
\* reported or given up.
LEMMA SettledStays ==
  ASSUME Types, Settled, session' = session, GivenUp \subseteq GivenUp',
         NEW x \in Seq(Nat), reported' = reported \o x,
         \A n \in session : n <= sent' - Open' =>
           n <= sent - Open \/ n \in GivenUp' \/ \E i \in 1..Len(x) : x[i] = n
  PROVE  Settled'
<1>1. ASSUME NEW n \in session, n <= sent' - Open' PROVE n \in GivenUp' \/ IsReported(n)'
  <2>1. CASE n <= sent - Open
    <3>1. n \in GivenUp \/ IsReported(n)
      BY <2>1 DEF Settled
    <3>2. QED
      BY <3>1, ReportsGrow
  <2>2. CASE \E i \in 1..Len(x) : x[i] = n
    BY <2>2, ReportsGrow
  <2>3. QED
    BY <1>1, <2>1, <2>2
<1>2. QED
  BY <1>1 DEF Settled

\* The same when nothing is reported.
LEMMA SettledAlone ==
  ASSUME Types, Settled, session' = session, GivenUp \subseteq GivenUp', reported' = reported,
         \A n \in session : n <= sent' - Open' => n <= sent - Open \/ n \in GivenUp'
  PROVE  Settled'
<1>1. reported \o <<>> = reported /\ <<>> \in Seq(Nat)
  BY ConcatEmptySeq, EmptySeq DEF Types, HistoryType
<1>2. QED
  BY <1>1, SettledStays

\* A stanza that is stored without its name is one whose name is awaited.
LEMMA NamesAwaited ==
  ASSUME NEW u \in Seq(1..MaxSent), NEW aw, NEW i \in 1..Len(u), Names(u, aw)[i] = NoId
  PROVE  u[i] \in aw
<1>1. i \in DOMAIN u /\ u[i] \in 1..MaxSent
  BY LenProperties, ElementOfSeq
<1>2. u[i] # NoId
  <2>1. PICK e : e = u[i]
    OBVIOUS
  <2>2. e \in 1..MaxSent
    BY <1>1, <2>1
  <2>3. e # 0
    BY ONLY <2>2, Bounds
  <2>4. QED
    BY <2>1, <2>3 DEF NoId
<1>3. Names(u, aw)[i] = IF u[i] \in aw THEN NoId ELSE u[i]
  BY <1>1 DEF Names
<1>4. QED
  BY <1>2, <1>3

\* All is conserved when <resume/> is sent: the stanzas without a name are now nameless.
LEMMA SendResumeConserved ==
  ASSUME Types, Types', Phases, Listed, Pending, Conserved, SendResume
  PROVE  Conserved'
<1>1. PICK n, q : n = Len(unackedByServer) /\ q = store.pending
  OBVIOUS
<1>2. /\ conn = "binding" /\ conn' = "resuming" /\ unackedByServer' = <<>> /\ unprocessed' = <<>>
      /\ prevUnacked' = (IF q = <<>> THEN prevUnacked ELSE q)
      /\ lastHandledByServer' = store.byServer /\ nameless' = nameless \cup unanswered
      /\ UNCHANGED <<sm, store, server, sent, tracked, reported, session, cutOff>>
  BY <1>1 DEF SendResume, ForgetUnacked, sentVars
<1>3. prevUnacked = <<>> /\ sm = "off"
  BY <1>2 DEF Phases, Ordered
<1>4. SUFFICES ASSUME Live', server'.in < Modulus
               PROVE  (InSession /\ Settled /\ Exact /\ Unnamed /\ Dropped /\ Ahead)'
  BY DEF Conserved
<1>5. Resumable /\ Live
  BY <1>2, <1>3, <1>4 DEF Live, Resumable, Match
<1>6. InSession /\ Settled /\ Exact /\ Unnamed
  BY <1>2, <1>4, <1>5 DEF Conserved
<1>7. /\ Len(q) = n /\ store.byServer = lastHandledByServer
      /\ \A i \in 1..n : q[i] = NoId => unackedByServer[i] \in unanswered
  BY <1>1, <1>2, <1>5, <1>6 DEF Pending, Unnamed
<1>8. n \in Nat /\ q \in Seq(Nat) /\ sent \in Nat /\ Open = n
  BY <1>1, <1>3, ListTypes, OpenFacts
<1>9. Open' = n
  <2>1. Open' = Len(prevUnacked')
    BY <1>2, OpenFacts
  <2>2. CASE q = <<>>
    BY <1>2, <1>3, <1>7, <1>8, <2>1, <2>2, EmptySeq
  <2>3. CASE q # <<>>
    BY <1>2, <1>7, <2>1, <2>3
  <2>4. QED
    BY <2>2, <2>3
<1>10. InSession'
  BY <1>2, <1>6 DEF InSession, Before
<1>11. Settled'
  <2>1. sent' - Open' = sent - Open
    BY <1>2, <1>8, <1>9
  <2>2. GivenUp \subseteq GivenUp'
    BY <1>2 DEF GivenUp
  <2>3. QED
    BY <1>2, <1>6, <2>1, <2>2, SettledAlone
<1>12. Exact'
  BY <1>2, <1>5, <1>6, <1>7, <1>8, <1>9 DEF Exact
<1>13. Dropped'
  <2>1. SUFFICES ASSUME NEW i \in 1..Len(prevUnacked'), prevUnacked'[i] = NoId
                 PROVE  sent - Len(prevUnacked') + i \in nameless'
    BY <1>2 DEF Dropped
  <2>2. q # <<>>
    <3>1. ~(i \in 1..0)
      OBVIOUS
    <3>2. QED
      BY <1>2, <1>3, <2>1, <3>1, EmptySeq
  <2>3. prevUnacked' = q
    BY <1>2, <2>2
  <2>4. i \in 1..n /\ q[i] = NoId
    BY <1>7, <2>1, <2>3
  <2>5. unackedByServer[i] \in unanswered /\ unackedByServer[i] = sent - n + i
    BY <1>1, <1>7, <2>4 DEF Listed
  <2>6. QED
    BY <1>2, <1>7, <2>3, <2>5
<1>14. Unnamed' /\ Ahead'
  BY <1>2 DEF Unnamed, Ahead
<1>15. QED
  BY <1>10, <1>11, <1>12, <1>13, <1>14

\* All is conserved when stream management is enabled.
LEMMA ReceiveEnabledConserved ==
  ASSUME Types, Types', Phases, Conserved, ReceiveEnabled
  PROVE  Conserved'
<1>1. /\ sm = "enableSent" /\ sm' = "started" /\ down # <<>> /\ Head(down)[1] = "enabled"
      /\ unprocessed' = <<>>
      /\ UNCHANGED <<server, sent, tracked, unackedByServer, prevUnacked, reported, session, nameless, cutOff>>
  BY DEF ReceiveEnabled, sentVars
<1>2. server.on
  <2>1. Head(down) = down[1]
    BY <1>1, DownReads
  <2>2. Requesting \/ Refused \/ Granted
    BY <1>1 DEF Phases, Enabling
  <2>3. Counting
    BY <1>1, CountingFacts
  <2>4. QED
    BY <1>1, <2>1, <2>2, <2>3 DEF Counting, Requesting, Refused, Granted
<1>3. Live /\ prevUnacked = <<>>
  BY <1>1, <1>2 DEF Live, Phases, Ordered
<1>4. SUFFICES ASSUME server.in < Modulus
               PROVE  (InSession /\ Settled /\ Exact /\ Unnamed /\ Dropped /\ Ahead)'
  BY <1>1 DEF Conserved
<1>5. InSession /\ Settled
  BY <1>3, <1>4 DEF Conserved
<1>6. Before' = Before /\ Open' = Open
  BY <1>1 DEF Before, Open
<1>7. InSession' /\ Settled'
  BY <1>1, <1>5, <1>6 DEF InSession, Settled, GivenUp, IsReported
<1>8. Exact' /\ Unnamed' /\ Ahead'
  BY <1>1 DEF Exact, Unnamed, Ahead, Resumable
<1>9. Dropped'
  BY <1>1, <1>3, EmptySeq DEF Dropped
<1>10. QED
  BY <1>7, <1>8, <1>9

\* All is conserved when a stanza is sent: it is one more to wait for.
LEMMA SendStanzaConserved ==
  ASSUME Types, Types', Phases, Conserved, SendStanza
  PROVE  Conserved'
<1>1. /\ sm \in {"enableSent", "started"} /\ sent' = sent + 1 /\ tracked' = tracked + 1
      /\ Len(unackedByServer') = Len(unackedByServer) + 1
      /\ UNCHANGED <<sm, store, lastHandledByServer, prevUnacked, unprocessed, server, reported,
                     session, nameless, cutOff>>
  BY StanzaSent DEF SendStanza, history
<1>2. prevUnacked = <<>>
  BY <1>1 DEF Phases, Ordered
<1>3. PICK n, s, t : n = Len(unackedByServer) /\ s = sent /\ t = tracked
  OBVIOUS
<1>4. n \in Nat /\ s \in Nat /\ t \in Nat /\ Open = n /\ Open' = n + 1
  BY <1>1, <1>2, <1>3, ListTypes, OpenFacts
<1>5. Before' = Before /\ sent' - Open' = sent - Open
  <2>1. (s + 1) - (t + 1) = s - t /\ (s + 1) - (n + 1) = s - n
    BY ONLY <1>4
  <2>2. QED
    BY <1>1, <1>3, <1>4, <2>1 DEF Before
<1>6. SUFFICES ASSUME Live', server'.in < Modulus
               PROVE  (InSession /\ Settled /\ Exact /\ Unnamed /\ Dropped /\ Ahead)'
  BY DEF Conserved
<1>7. Live
  BY <1>1, <1>6 DEF Live, Resumable
<1>8. InSession /\ Settled /\ Ahead
  BY <1>1, <1>6, <1>7 DEF Conserved
<1>9. InSession' /\ Settled' /\ Ahead'
  BY <1>1, <1>5, <1>8 DEF InSession, Settled, Ahead, GivenUp, IsReported
<1>10. Exact' /\ Unnamed'
  BY <1>1 DEF Exact, Unnamed, Resumable
<1>11. Dropped'
  BY <1>1, <1>2, EmptySeq DEF Dropped
<1>12. QED
  BY <1>9, <1>10, <1>11

\* All is conserved when the server begins a session: it handled nothing of it.
LEMMA ServerEnablesConserved ==
  ASSUME Types, Types', Phases, ServerEnables
  PROVE  Conserved'
<1>1. conn = "online" /\ sm = "enableSent" /\ server = NoSession
  BY ReadsEnable DEF ServerEnables
<1>2. UNCHANGED <<conn, sm, unprocessed, prevUnacked>>
  BY DEF ServerEnables, outgoing
<1>3. prevUnacked = <<>> /\ unprocessed = <<>>
  BY <1>1 DEF Phases, Ordered, Enabling
<1>4. CASE session' = {}
  <2>1. InSession' /\ Settled'
    BY <1>4 DEF InSession, Settled
  <2>2. Exact' /\ Unnamed' /\ Ahead'
    BY <1>1, <1>2, <1>3 DEF Exact, Unnamed, Ahead, Resumable
  <2>3. Dropped'
    BY <1>2, <1>3, EmptySeq DEF Dropped
  <2>4. QED
    BY <2>1, <2>2, <2>3 DEF Conserved
<1>5. CASE session' # {}
  <2>1. server' = server
    BY <1>5 DEF ServerEnables
  <2>2. ~Live'
    BY <1>1, <1>2, <2>1 DEF Live, Resumable, NoSession
  <2>3. QED
    BY <2>2, ConservedIdle
<1>6. QED
  BY <1>4, <1>5

\* All is conserved when the server handles a stanza: the client waits for it.
LEMMA ServerHandlesConserved ==
  ASSUME Types, Types', Phases, Outgoing, Accounted, Conserved, ServerHandles
  PROVE  Conserved'
<1>1. /\ sm \in {"off", "enableSent", "started"} /\ up # <<>> /\ Head(up) = up[1]
      /\ up[1][1] = "stanza"
      /\ sm = "off" => server = NoSession
  BY ReadsOther DEF ServerHandles
<1>2. /\ server' = (IF server.on THEN [server EXCEPT !.in = @ + 1] ELSE server)
      /\ session' = (IF server.on THEN session \cup {up[1][2]} ELSE session)
      /\ UNCHANGED <<conn, sm, store, down, sent, tracked, unackedByServer, prevUnacked, unprocessed,
                     unanswered, lastHandledByServer, reported, nameless, cutOff>>
  BY <1>1 DEF ServerHandles, sentVars, outgoing
<1>3. CASE server.on
  <2>1. sm # "off" /\ server.id # NoId
    BY <1>1, <1>3 DEF Phases, Sessions, NoSession
  <2>2. Counting /\ Live
    BY <1>1, <1>3, <2>1, CountingFacts DEF Live
  <2>3. PICK r, s, t, h, o : r = Before /\ s = sent /\ t = tracked /\ h = server.in /\ o = Open
    OBVIOUS
  <2>4. /\ r \in Nat /\ s \in Nat /\ t \in Nat /\ h \in Nat /\ o \in Nat /\ up \in Seq(UpElement)
        /\ r = s - t
    BY <2>3, ListTypes, OpenFacts DEF Before
  <2>5. up[1][2] = r + h + 1
    <3>1. Stanzas(up, r + h, s) /\ r + h \in Nat
      BY <2>2, <2>3, <2>4 DEF Outgoing
    <3>2. QED
      BY <1>1, <2>4, <3>1, StanzasTail
  <2>6. server'.in = h + 1
    BY <1>2, <1>3, <2>3 DEF Types, ServerType, Server
  <2>7. s - o < r + h + 1
    <3>1. t - o <= h
      <4>1. CASE sm = "started"
        <5>1. PICK c, w, d : Account(c, w, d)
          BY DEF Accounted
        <5>2. c \in Nat /\ t - o <= c /\ c <= h
          BY <2>2, <2>3, <4>1, <5>1 DEF Account, Acked
        <5>3. QED
          BY ONLY <2>4, <5>2
      <4>2. CASE sm = "enableSent"
        <5>1. o = t
          BY <2>3, <4>2, OpenFacts DEF Phases, Ordered, Enabling
        <5>2. QED
          BY ONLY <2>4, <5>1
      <4>3. QED
        BY <1>1, <2>1, <4>1, <4>2
    <3>2. QED
      BY ONLY <2>4, <3>1
  <2>8. SUFFICES ASSUME server'.in < Modulus
                 PROVE  (InSession /\ Settled /\ Exact /\ Unnamed /\ Dropped /\ Ahead)'
    BY DEF Conserved
  <2>9. InSession /\ Settled /\ Dropped /\ Ahead
    <3>1. h < Modulus
      BY <2>4, <2>6, <2>8, Bounds
    <3>2. QED
      BY <2>2, <2>3, <3>1 DEF Conserved
  <2>10. Before' = r /\ Open' = o /\ session' = session \cup {r + h + 1}
    BY <1>2, <1>3, <2>3, <2>5 DEF Before, Open
  <2>11. InSession'
    <3>1. ASSUME NEW n \in session' PROVE n \in Nat /\ n <= r + (h + 1)
      <4>1. n = r + h + 1 \/ (n \in Nat /\ n <= r + h)
        BY <2>3, <2>9, <2>10 DEF InSession
      <4>2. QED
        BY ONLY <2>4, <4>1
    <3>2. QED
      BY <2>6, <2>10, <3>1 DEF InSession
  <2>12. Settled'
    <3>1. ASSUME NEW n \in session', n <= s - o PROVE n \in GivenUp \/ IsReported(n)
      <4>1. n # r + h + 1
        BY ONLY <2>4, <2>7, <3>1
      <4>2. QED
        BY <2>3, <2>9, <2>10, <3>1, <4>1 DEF Settled
    <3>2. QED
      BY <1>2, <2>3, <2>10, <3>1 DEF Settled, GivenUp, IsReported
  <2>13. Exact' /\ Unnamed' /\ Dropped' /\ Ahead'
    BY <1>2, <2>1, <2>9 DEF Exact, Unnamed, Dropped, Ahead, Resumable
  <2>14. QED
    BY <2>11, <2>12, <2>13
<1>4. CASE ~server.on
  <2>1. sm # "started" /\ server' = server
    BY <1>2, <1>4 DEF Phases, Started
  <2>2. ~Live'
    <3>1. CASE sm = "off"
      BY <1>1, <1>2, <2>1, <3>1 DEF Live, Resumable, Match, NoSession
    <3>2. CASE sm = "enableSent"
      BY <1>2, <1>4, <2>1, <3>2 DEF Live, Resumable
    <3>3. QED
      BY <1>1, <2>1, <3>1, <3>2
  <2>3. QED
    BY <2>2, ConservedIdle
<1>5. QED
  BY <1>3, <1>4

\* A number that is small enough is its own remainder.
LEMMA SmallRemainder ==
  ASSUME NEW c \in Nat, NEW h \in Nat, c <= h, h < Modulus
  PROVE  c % Modulus = c
<1>1. c \in 0..(Modulus - 1)
  BY ONLY c \in Nat, h \in Nat, c <= h, h < Modulus, Bounds
<1>2. QED
  BY <1>1, Bounds

\* All is conserved when the stream disconnects: what was being resumed is cut off.
LEMMA DisconnectConserved ==
  ASSUME Types, Types', Phases, Pending, Outgoing, Accounted, Conserved,
         NEW clean \in BOOLEAN, Disconnect(clean)
  PROVE  Conserved'
<1>1. SUFFICES ASSUME Live', server'.in < Modulus
               PROVE  (InSession /\ Settled /\ Exact /\ Unnamed /\ Dropped /\ Ahead)'
  BY DEF Conserved
<1>2. Live /\ server'.in = server.in /\ sm # "enableSent"
  BY <1>1, DisconnectLive
<1>3. /\ sm' = "off" /\ conn' = "down" /\ prevUnacked' = <<>>
      /\ cutOff' = cutOff \cup {prevUnacked[i] : i \in DOMAIN prevUnacked}
      /\ UNCHANGED <<sent, tracked, unackedByServer, unprocessed, unanswered, lastHandledByServer,
                     reported, session, nameless>>
  BY DEF Disconnect, sentVars
<1>4. InSession /\ Settled /\ Exact /\ Dropped /\ Ahead
  BY <1>1, <1>2 DEF Conserved
<1>5. PICK n, o, s, h : n = Len(unackedByServer) /\ o = Len(prevUnacked) /\ s = sent /\ h = server.in
  OBVIOUS
<1>6. n \in Nat /\ o \in Nat /\ s \in Nat /\ h \in Nat /\ Open = n + o /\ Open' = n
  BY <1>3, <1>5, ListTypes, OpenFacts DEF Open
<1>7. ASSUME prevUnacked = <<>> PROVE Settled' /\ Exact'
  <2>1. Open' = Open
    BY <1>3, <1>5, <1>6, <1>7, OpenFacts
  <2>2. GivenUp \subseteq GivenUp'
    BY <1>3 DEF GivenUp
  <2>3. Settled'
    BY <1>3, <1>4, <2>1, <2>2, SettledAlone
  <2>4. ASSUME Open > 0 PROVE lastHandledByServer = tracked - Open
    <3>1. CASE Resumable
      BY <1>4, <2>4, <3>1 DEF Exact
    <3>2. CASE sm = "started"
      <4>1. PICK c, w, d : Account(c, w, d)
        BY DEF Accounted
      <4>2. c \in Nat /\ lastHandledByServer = c % Modulus /\ c <= h /\ c = tracked - Open /\ h < Modulus
        BY <1>1, <1>2, <1>5, <3>2, <4>1 DEF Account, Acked
      <4>3. c % Modulus = c
        BY <1>6, <4>2, SmallRemainder
      <4>4. QED
        BY <4>2, <4>3
    <3>3. QED
      BY <1>2, <3>1, <3>2 DEF Live
  <2>5. Exact'
    BY <1>3, <2>1, <2>4 DEF Exact
  <2>6. QED
    BY <2>3, <2>5
<1>8. ASSUME prevUnacked # <<>> PROVE Settled' /\ Exact'
  <2>1. unackedByServer = <<>> /\ Resumable
    BY <1>2, <1>8 DEF Phases, Ordered, Resumption, Resuming, Live
  <2>2. n = 0
    BY <1>5, <2>1, EmptySeq
  <2>3. ASSUME NEW m \in session, m <= sent' - Open' PROVE m <= sent - Open \/ m \in GivenUp'
    <3>1. SUFFICES ASSUME ~(m <= s - o) PROVE m \in GivenUp'
      BY <1>5, <1>6, <2>2
    <3>2. m \in Nat /\ m <= s
      BY <1>3, <1>4, <1>5, <1>6, <2>2, <2>3 DEF InSession
    <3>3. PICK i : i = m - (s - o)
      OBVIOUS
    <3>4. i \in 1..o /\ s - o + i = m
      BY ONLY <1>6, <3>1, <3>2, <3>3
    <3>5. i \in DOMAIN prevUnacked
      BY <1>5, <3>4, ListTypes, LenProperties
    <3>6. CASE prevUnacked[i] = NoId
      BY <1>3, <1>4, <1>5, <3>4, <3>6 DEF Dropped, GivenUp
    <3>7. CASE prevUnacked[i] # NoId
      <4>1. prevUnacked[i] = m
        BY <1>5, <2>1, <3>4, <3>7 DEF Pending
      <4>2. QED
        BY <1>3, <3>5, <4>1 DEF GivenUp
    <3>8. QED
      BY <3>6, <3>7
  <2>4. GivenUp \subseteq GivenUp'
    BY <1>3 DEF GivenUp
  <2>5. Settled'
    BY <1>3, <1>4, <2>3, <2>4, SettledAlone
  <2>6. Exact'
    BY <1>6, <2>2 DEF Exact
  <2>7. QED
    BY <2>5, <2>6
<1>9. InSession' /\ Ahead'
  BY <1>2, <1>3, <1>4 DEF InSession, Ahead, Before
<1>10. Unnamed'
  <2>1. PICK m : m = Names(unackedByServer, unanswered)
    OBVIOUS
  <2>2. ~clean
    BY <1>1, <1>3 DEF Disconnect, NoStore, Live, Resumable, Match
  <2>3. store' = [store EXCEPT !.byClient = lastHandledByClient, !.byServer = lastHandledByServer, !.pending = m]
    BY <2>1, <2>2 DEF Disconnect
  <2>4. store'.pending = m
    BY <2>3 DEF Types, StoreType, Store
  <2>5. unackedByServer \in Seq(1..MaxSent)
    BY DEF Types, ListType
  <2>6. Len(m) = n
    BY <1>5, <2>1, <2>5, NamesFacts
  <2>7. \A i \in 1..n : m[i] = NoId => unackedByServer[i] \in unanswered
    BY <1>5, <2>1, <2>5, NamesAwaited
  <2>8. QED
    BY <1>3, <2>4, <2>6, <2>7 DEF Unnamed
<1>11. Dropped'
  BY <1>3, EmptySeq DEF Dropped
<1>12. QED
  BY <1>7, <1>8, <1>9, <1>10, <1>11

\* Each name that was stored comes out.
LEMMA IdentifiedAll ==
  ASSUME NEW names \in Seq(Nat), NEW m \in 1..Len(names), names[m] # NoId
  PROVE  \E i \in 1..Len(Identified(names)) : Identified(names)[i] = names[m]
<1>0. PICK n : n = Len(names)
  OBVIOUS
<1>1. n \in Nat /\ m \in 1..n
  BY <1>0
<1>2. PICK f : /\ f[0] = <<>>
               /\ \A i \in 1..n :
                    f[i] = IF names[i] = NoId THEN f[i - 1] ELSE Append(f[i - 1], names[i])
               /\ Identified(names) = f[n]
  BY <1>0, IdentifiedLoop
<1> DEFINE Fits(x, i) ==
             x \in Seq(Nat) /\ (m <= i => \E k \in 1..Len(x) : x[k] = names[m])
           T == {i \in 0..n : ~Fits(f[i], i)}
<1>3. Fits(f[0], 0)
  BY <1>1, <1>2
<1>4. ASSUME NEW i \in 1..n, Fits(f[i - 1], i - 1) PROVE Fits(f[i], i)
  <2>1. PICK x : x = f[i - 1]
    OBVIOUS
  <2>2. x \in Seq(Nat) /\ (m <= i - 1 => \E k \in 1..Len(x) : x[k] = names[m])
    BY <1>4, <2>1
  <2>3. m <= i => m <= i - 1 \/ m = i
    BY ONLY <1>1, i \in 1..n
  <2>4. CASE names[i] = NoId
    <3>1. f[i] = x /\ m # i
      BY <1>2, <2>1, <2>4
    <3>2. QED
      BY <2>2, <2>3, <3>1
  <2>5. CASE names[i] # NoId
    <3>1. names[i] \in Nat
      BY <1>0, ElementOfSeq
    <3>2. PICK y : y = Append(x, names[i])
      OBVIOUS
    <3>3. f[i] = y
      BY <1>2, <2>1, <2>5, <3>2
    <3>4. /\ y \in Seq(Nat) /\ Len(y) = Len(x) + 1 /\ y[Len(x) + 1] = names[i]
          /\ \A k \in 1..Len(x) : y[k] = x[k]
      BY <2>2, <3>1, <3>2, AppendFacts
    <3>5. Len(x) \in Nat
      BY <2>2, NonEmpty
    <3>6. Len(x) + 1 \in 1..Len(y) /\ \A k \in 1..Len(x) : k \in 1..Len(y)
      BY ONLY <3>4, <3>5
    <3>7. m <= i => \E k \in 1..Len(y) : y[k] = names[m]
      <4>1. CASE m = i
        BY <3>4, <3>6, <4>1
      <4>2. CASE m <= i - 1
        BY <2>2, <3>4, <3>6, <4>2
      <4>3. QED
        BY <2>3, <4>1, <4>2
    <3>8. QED
      BY <3>3, <3>4, <3>7
  <2>6. QED
    BY <2>4, <2>5
<1> HIDE DEF Fits
<1>5. T = {}
  <2>1. SUFFICES ASSUME T # {} PROVE FALSE
    OBVIOUS
  <2>1a. T \subseteq Nat /\ T \subseteq 0..n /\ \A i \in 0..n : i \in T <=> ~Fits(f[i], i)
    OBVIOUS
  <2> HIDE DEF T
  <2>2. PICK l \in T : \A i \in T : l <= i
    BY <2>1, <2>1a, LeastOf
  <2>3. l # 0
    BY <1>3, <2>1a, <2>2
  <2>4. l \in 1..n /\ l - 1 \in 0..n
    BY <1>1, <2>1a, <2>2, <2>3
  <2>5. l - 1 \notin T
    BY <2>2, <2>4
  <2>6. QED
    BY <1>4, <2>1a, <2>2, <2>4, <2>5
<1>6. Fits(f[n], n)
  <2>1. n \in 0..n
    BY <1>1
  <2>2. QED
    BY <1>5, <2>1
<1>7. m <= n
  BY ONLY <1>1
<1>8. QED
  BY <1>2, <1>6, <1>7 DEF Fits

\* All is conserved when the session is resumed: of the list that was stored, what the
\* server handled is reported or has no name.
LEMMA ReceiveResumedConserved ==
  ASSUME Types, Types', Phases, Listed, Pending, Outgoing, Accounted, Conserved, ReceiveResumed
  PROVE  Conserved'
<1>1. PICK h, o, s, t, l : /\ h = server.in /\ o = Len(prevUnacked) /\ s = sent /\ t = tracked
                           /\ l = lastHandledByServer
  OBVIOUS
<1>2. /\ Resumable /\ Live /\ unackedByServer = <<>> /\ unprocessed = <<>>
      /\ Head(down) = down[1] /\ down[1][2] = h % Modulus /\ h <= t
  BY <1>1, Resumed
<1>3. PICK x : x = Identified(SubSeq(prevUnacked, 1, AtMost(Diff(h % Modulus, l), o)))
  OBVIOUS
<1>4. /\ sm' = "started" /\ prevUnacked' = <<>> /\ tracked' = h /\ reported' = reported \o x
      /\ UNCHANGED <<unackedByServer, unprocessed, sent, server, session, nameless, cutOff>>
  BY <1>1, <1>2, <1>3 DEF ReceiveResumed
<1>5. h \in Nat /\ o \in Nat /\ s \in Nat /\ t \in Nat /\ t <= s /\ Open = o /\ Open' = 0 /\ Before = s - t
  <2>1. Open = o /\ Open' = 0
    BY <1>1, <1>2, <1>4, OpenFacts, EmptySeq
  <2>2. h \in Nat /\ o \in Nat /\ s \in Nat /\ t \in Nat /\ s - t \in Nat
    BY <1>1, ListTypes
  <2>3. t <= s
    BY ONLY <2>2
  <2>4. QED
    BY <1>1, <2>1, <2>2, <2>3 DEF Before
<1>6. SUFFICES ASSUME h < Modulus
               PROVE  (InSession /\ Settled /\ Exact /\ Unnamed /\ Dropped /\ Ahead)'
  BY <1>1, <1>4 DEF Conserved
<1>7. InSession /\ Settled /\ Exact /\ Dropped
  BY <1>1, <1>2, <1>6 DEF Conserved
<1>8. \A m \in session : m \in Nat /\ m <= (s - t) + h
  BY <1>1, <1>5, <1>7 DEF InSession
<1>9. InSession'
  <2>1. Before' = s - h
    BY <1>1, <1>4 DEF Before
  <2>2. server'.in = h /\ session' = session
    BY <1>1, <1>4
  <2>3. \A m \in session : m \in Nat /\ m <= (s - h) + h
    BY ONLY <1>2, <1>5, <1>8
  <2>4. QED
    BY <2>1, <2>2, <2>3 DEF InSession
<1>10. PICK c \in Nat : l = c % Modulus /\ c <= h
  BY <1>1, Resumed
<1>11. Diff(h % Modulus, l) = h - c /\ (o > 0 => c = t - o)
  <2>1. l = c
    BY <1>5, <1>6, <1>10, SmallRemainder
  <2>2. o > 0 => l = t - o
    BY <1>1, <1>2, <1>5, <1>7 DEF Exact
  <2>3. Diff(h % Modulus, c % Modulus) = h - c
    BY <1>5, <1>6, <1>10, DiffIsSafe
  <2>4. QED
    BY <1>10, <2>1, <2>2, <2>3
<1>12. PICK n : n = AtMost(h - c, o)
  OBVIOUS
<1>13. PICK a : a = SubSeq(prevUnacked, 1, n)
  OBVIOUS
<1>14. n \in 0..o /\ (n = o \/ n = h - c)
  BY ONLY <1>5, <1>10, <1>12 DEF AtMost
<1>15. a \in Seq(Nat) /\ Len(a) = n /\ \A i \in 1..n : a[i] = prevUnacked[i]
  BY <1>1, <1>13, <1>14, ListTypes, DropFacts
<1>16. x = Identified(a)
  BY <1>3, <1>11, <1>12, <1>13
<1>17. \A i \in 1..o : prevUnacked[i] = NoId \/ prevUnacked[i] = (s - o) + i
  BY <1>1, <1>2 DEF Pending
<1>18. x \in Seq(Nat)
  <2>1. s - o \in Nat
    <3>1. o <= t
      BY <1>1, <1>2, <1>5 DEF Pending
    <3>2. QED
      BY ONLY <1>5, <3>1
  <2>2. PICK m : m = s - o
    OBVIOUS
  <2>3. \A i \in 1..n : i \in 1..o
    BY ONLY <1>5, <1>14
  <2>4. m \in Nat /\ \A i \in 1..Len(a) : a[i] = NoId \/ a[i] = m + i
    BY ONLY <1>15, <1>17, <2>1, <2>2, <2>3
  <2>5. QED
    BY <1>15, <1>16, <2>4, IdentifiedFacts
<1>19. ASSUME NEW m \in session, ~(m <= s - o), m <= s
       PROVE  m \in GivenUp' \/ \E i \in 1..Len(x) : x[i] = m
  <2>1. PICK i : i = m - (s - o)
    OBVIOUS
  <2>2. m \in Nat /\ m <= (s - t) + h
    BY <1>8
  <2>3. i \in 1..o /\ (s - o) + i = m
    BY ONLY <1>5, <1>19, <2>1, <2>2
  <2>4. i <= h - c
    BY ONLY <1>5, <1>10, <1>11, <2>1, <2>2, <2>3
  <2>5. i \in 1..n
    BY ONLY <1>14, <2>3, <2>4
  <2>6. CASE prevUnacked[i] = NoId
    <3>1. m \in nameless
      BY <1>1, <1>7, <2>3, <2>6 DEF Dropped
    <3>2. QED
      BY <1>4, <3>1 DEF GivenUp
  <2>7. CASE prevUnacked[i] # NoId
    <3>1. a[i] = m /\ a[i] # NoId /\ i \in 1..Len(a)
      BY <1>15, <1>17, <2>3, <2>5, <2>7
    <3>2. QED
      BY <1>15, <1>16, <3>1, IdentifiedAll
  <2>8. QED
    BY <2>6, <2>7
<1>20. Settled'
  <2>1. GivenUp' = GivenUp
    BY <1>4 DEF GivenUp
  <2>2. sent - Open = s - o /\ sent' - Open' = s
    BY <1>1, <1>4, <1>5
  <2>3. QED
    BY <1>4, <1>7, <1>18, <1>19, <2>1, <2>2, SettledStays
<1>21. Exact' /\ Unnamed' /\ Ahead'
  BY <1>2, <1>4 DEF Exact, Unnamed, Ahead, Resumable
<1>22. Dropped'
  BY <1>4, EmptySeq DEF Dropped
<1>23. QED
  BY <1>9, <1>20, <1>21, <1>22

\* What is taken off the list is reported.
LEMMA SettledTaken ==
  ASSUME Types, Types', Listed, InSession, Settled, GivenUp' = GivenUp,
         NEW p, NEW k, NEW b, Stands(p, k, b), Took(p),
         prevUnacked = <<>>, prevUnacked' = <<>>, sent' = sent, session' = session
  PROVE  Settled'
<1>1. PICK u, n, s, x : u = unackedByServer /\ n = Len(u) /\ s = sent /\ x = SubSeq(u, 1, k)
  OBVIOUS
<1>2. u \in Seq(Nat) /\ n \in Nat /\ s \in Nat
  BY <1>1, ListTypes
<1>3. k \in 0..n /\ reported' = reported \o x /\ Len(unackedByServer') = n - k
  BY <1>1, ListAfter
<1>4. Open = n /\ Open' = n - k
  BY <1>1, <1>3, OpenFacts
<1>5. x \in Seq(Nat) /\ Len(x) = k /\ \A i \in 1..k : x[i] = u[i]
  BY <1>1, <1>2, <1>3, DropFacts
<1>6. ASSUME NEW m \in session, m <= s - (n - k), ~(m <= s - n)
      PROVE  \E i \in 1..Len(x) : x[i] = m
  <2>1. m \in Nat
    BY DEF InSession
  <2>2. PICK i : i = m - (s - n)
    OBVIOUS
  <2>3. i \in 1..k /\ i \in 1..n /\ s - n + i = m
    BY ONLY <1>2, <1>3, <1>6, <2>1, <2>2
  <2>4. u[i] = m
    BY <1>1, <2>3 DEF Listed
  <2>5. QED
    BY <1>5, <2>3, <2>4
<1>7. \A m \in session : m <= sent' - Open' => m <= sent - Open \/ \E i \in 1..Len(x) : x[i] = m
  BY <1>1, <1>4, <1>6
<1>8. QED
  BY <1>3, <1>5, <1>7, SettledStays

\* All is conserved when an ack arrives: what it takes off is reported, and one that
\* must wait is ahead of what was taken.
LEMMA ReceiveAckConserved ==
  ASSUME Types, Types', Phases, Listed, Accounted, Conserved, ReceiveAck
  PROVE  Conserved'
<1>1. sm = "started" /\ \E c, w, d, p, k, b : AckTaken(c, w, d, p, k, b)
  BY AckReceived
<1>2. PICK c, w, d, p, k, b : AckTaken(c, w, d, p, k, b)
  BY <1>1
<1>3. UNCHANGED <<sm, sent, tracked, prevUnacked, server, session, nameless, cutOff>>
  BY DEF ReceiveAck, sentVars
<1>4. Live /\ prevUnacked = <<>> /\ prevUnacked' = <<>>
  BY <1>1, <1>3 DEF Live, Phases, Ordered
<1>5. PICK h, q : h = server.in /\ q = d[1]
  OBVIOUS
<1>6. SUFFICES ASSUME h < Modulus
               PROVE  (InSession /\ Settled /\ Exact /\ Unnamed /\ Dropped /\ Ahead)'
  BY <1>3, <1>5 DEF Conserved
<1>7. InSession /\ Settled /\ Ahead
  BY <1>4, <1>5, <1>6 DEF Conserved
<1>8. InSession'
  BY <1>3, <1>7 DEF InSession, Before
<1>9. Settled'
  <2>1. Stands(p, k, b) /\ Took(p)
    BY <1>2 DEF AckTaken
  <2>2. GivenUp' = GivenUp
    BY <1>3 DEF GivenUp
  <2>3. QED
    BY <1>3, <1>4, <1>7, <2>1, <2>2, SettledTaken
<1>10. Exact' /\ Unnamed'
  BY <1>1, <1>3 DEF Exact, Unnamed, Resumable
<1>11. Dropped'
  BY <1>4, EmptySeq DEF Dropped
<1>12. Ahead'
  <2>1. h \in Nat /\ q \in Nat /\ b \in Nat /\ c \in Nat /\ q <= h
    BY <1>2, <1>5, ListTypes DEF AckTaken, Account
  <2>2. b <= q /\ (~p.complete => b < q)
    BY <1>2, <1>5 DEF AckTaken, Takes
  <2>3. lastHandledByServer' = b % Modulus
    BY <1>2 DEF AckTaken, Took
  <2>4. q % Modulus = q /\ b <= h
    BY <1>6, <2>1, <2>2, SmallRemainder
  <2>5. b % Modulus = b
    BY <1>6, <2>1, <2>4, SmallRemainder
  <2>6. unprocessed' = (IF p.complete THEN unprocessed ELSE Append(unprocessed, q))
    BY <1>2, <1>5, <2>4 DEF AckTaken, QueueAck
  <2>7. /\ unprocessed \in Seq(Nat) /\ Append(unprocessed, q)[Len(unprocessed) + 1] = q
        /\ \A i \in 1..Len(unprocessed) : Append(unprocessed, q)[i] = unprocessed[i]
    BY <2>1, ListTypes, AppendFacts
  <2>8. ASSUME unprocessed # <<>> PROVE unprocessed'[1] > lastHandledByServer'
    <3>1. b = c
      BY <1>2, <2>8, NothingTaken
    <3>2. lastHandledByServer = c % Modulus
      BY <1>1, <1>2 DEF AckTaken, Account, Acked
    <3>3. 1 \in 1..Len(unprocessed)
      BY <2>7, <2>8, NonEmpty
    <3>4. unprocessed'[1] = unprocessed[1]
      BY <2>6, <2>7, <3>3
    <3>5. QED
      BY <1>7, <2>3, <2>8, <3>1, <3>2, <3>4 DEF Ahead
  <2>9. ASSUME unprocessed = <<>>, unprocessed' # <<>> PROVE unprocessed'[1] > lastHandledByServer'
    <3>1. ~p.complete /\ unprocessed' = Append(unprocessed, q)
      BY <2>6, <2>9
    <3>2. Len(unprocessed) = 0
      BY <2>9, EmptySeq
    <3>3. unprocessed'[1] = q
      BY <2>7, <3>1, <3>2
    <3>4. q > b
      BY ONLY <2>1, <2>2, <3>1
    <3>5. QED
      BY <2>3, <2>5, <3>3, <3>4
  <2>10. QED
    BY <2>8, <2>9 DEF Ahead
<1>13. QED
  BY <1>8, <1>9, <1>10, <1>11, <1>12

\* What is stored when a name arrived lacks only names that are awaited, unless acks
\* were done with that took nothing.
LEMMA NameStored ==
  ASSUME Types, Types', NEW n, NEW c, NEW w, NEW d, NEW p, NEW k, NEW b,
         NameTaken(n, c, w, d, p, k, b)
  PROVE  \/ p.taken > 0 /\ k = 0 /\ p.last = lastHandledByServer
         \/ \A i \in 1..Len(store'.pending) :
              store'.pending[i] = NoId => unackedByServer'[i] \in unanswered'
<1>1. SUFFICES ASSUME ~(p.taken > 0 /\ p.acked = <<>> /\ p.last = lastHandledByServer)
               PROVE  \A i \in 1..Len(store'.pending) :
                        store'.pending[i] = NoId => unackedByServer'[i] \in unanswered'
  BY DEF NameTaken
<1>2. PICK u, l, aw : u = unackedByServer' /\ l = lastHandledByServer' /\ aw = unanswered'
  OBVIOUS
<1>3. Took(p)
  BY DEF NameTaken
<1>4. Save(u, l, aw)
  BY <1>1, <1>2, <1>3 DEF NameTaken, Took
<1>5. PICK m, v : m = Names(u, aw) /\ v = (IF sm = "started" THEN store.byClient ELSE lastHandledByClient)
  OBVIOUS
<1>6. store' = [store EXCEPT !.byServer = l, !.pending = m, !.byClient = v]
  BY <1>4, <1>5 DEF Save
<1>7. store'.pending = m
  BY <1>6 DEF Types, StoreType, Store
<1>8. u \in Seq(1..MaxSent)
  BY <1>2 DEF Types, ListType
<1>9. \A i \in 1..Len(m) : m[i] = NoId => u[i] \in aw
  BY <1>5, <1>8, NamesFacts, NamesAwaited
<1>10. QED
  BY <1>2, <1>7, <1>9

\* What the acks that waited take off when a stanza gets its name: all they stand for,
\* and those that wait still are ahead of it.
LEMMA WaitingTaken ==
  ASSUME Types, Types', Phases, Listed, Accounted, Conserved, Live, server.in < Modulus,
         NEW n, NEW c, NEW w, NEW d, NEW p, NEW k, NEW b, NameTaken(n, c, w, d, p, k, b),
         unprocessed # <<>>
  PROVE  /\ prevUnacked = <<>> /\ k \in Nat /\ b \in Nat /\ lastHandledByServer' = b
         /\ tracked - Len(unackedByServer) <= lastHandledByServer
         /\ b = lastHandledByServer + k
         /\ p.taken > 0 => k > 0
         /\ Ahead'
<1>1. prevUnacked = <<>> /\ (sm = "started" \/ Resumable)
  <2>1. conn # "resuming" /\ sm # "enableSent"
    BY DEF Phases, Resumption, Resuming, Enabling
  <2>2. QED
    BY <2>1 DEF Phases, Ordered, Live
<1>2. PICK l, m, h, t, q : /\ l = Len(unprocessed) /\ m = Len(unackedByServer) /\ h = server.in
                           /\ t = tracked /\ q = p.taken
  OBVIOUS
<1>3. Account(c, w, d) /\ TakesAll(c, w, unanswered \ {n}, p, k, b) /\ Took(p) /\ Stands(p, k, b)
      /\ unprocessed' = Drop(unprocessed, q)
  BY <1>2 DEF NameTaken
<1>4. /\ l \in Nat /\ l > 0 /\ m \in Nat /\ m > 0 /\ h \in Nat /\ t \in Nat /\ q \in 0..l
      /\ k \in Nat /\ b \in Nat /\ c \in Nat
  <2>1. unackedByServer # <<>>
    BY DEF Listed
  <2>2. QED
    BY <1>2, <1>3, <2>1, ListTypes, NonEmpty DEF NameTaken, Account
<1>5. Open = m
  BY <1>1, <1>2, OpenFacts
<1>6. lastHandledByServer = c % Modulus /\ t - m <= c /\ c <= h
  BY <1>1, <1>2, <1>3, <1>4, <1>5 DEF Account, Acked
<1>7. \A i \in 1..l : w[i] \in Nat /\ w[i] <= t /\ w[i] <= h /\ unprocessed[i] = w[i] % Modulus
  BY <1>2, <1>3 DEF Account, Waiting
<1>8. l \in 1..l /\ 1 \in 1..l
  BY ONLY <1>4
<1>9. h < Modulus
  BY <1>2
<1>10. w[l] < Modulus /\ w[l] - c <= m
  BY ONLY <1>4, <1>6, <1>7, <1>8, <1>9, Bounds
<1>11. /\ c <= b /\ b <= w[l] /\ k = b - c /\ \A j \in 1..q : w[j] <= b
       /\ q < l => b < w[q + 1]
  BY <1>2, <1>3, <1>10 DEF TakesAll
<1>12. lastHandledByServer = c
  BY <1>4, <1>6, <1>9, SmallRemainder
<1>13. lastHandledByServer' = b
  <2>1. lastHandledByServer' = b % Modulus
    BY <1>3, ListAfter
  <2>2. b <= h
    BY ONLY <1>4, <1>7, <1>8, <1>11
  <2>3. QED
    BY <1>4, <1>9, <2>1, <2>2, SmallRemainder
<1>14. \A i \in 1..l : unprocessed[i] = w[i]
  BY <1>4, <1>7, <1>9, SmallRemainder
<1>15. ASSUME q > 0 PROVE k > 0
  <2>1. w[1] <= b /\ w[1] \in Nat
    <3>1. 1 \in 1..q
      BY ONLY <1>4, <1>15
    <3>2. QED
      BY <1>7, <1>8, <1>11, <3>1
  <2>2. w[1] > c
    BY <1>8, <1>12, <1>14 DEF Conserved, Ahead
  <2>3. QED
    BY ONLY <1>4, <1>11, <2>1, <2>2
<1>16. Ahead'
  <2>1. SUFFICES ASSUME unprocessed' # <<>> PROVE unprocessed'[1] > b
    BY <1>13 DEF Ahead
  <2>2. /\ unprocessed \in Seq(Nat) /\ Len(Drop(unprocessed, q)) = l - q
        /\ \A i \in 1..(l - q) : Drop(unprocessed, q)[i] = unprocessed[q + i]
        /\ Drop(unprocessed, q) \in Seq(Nat)
    <3>1. PICK v : v = unprocessed
      OBVIOUS
    <3>2. v \in Seq(Nat) /\ q \in 0..Len(v) /\ Len(v) = l
      BY <1>2, <1>4, <3>1, ListTypes
    <3>3. /\ Drop(v, q) \in Seq(Nat) /\ Len(Drop(v, q)) = Len(v) - q
          /\ \A i \in 1..(Len(v) - q) : Drop(v, q)[i] = v[q + i]
      BY <3>2, DropFacts
    <3>4. QED
      BY <3>1, <3>2, <3>3
  <2>3. l - q > 0
    BY <1>3, <2>1, <2>2, NonEmpty
  <2>4. 1 \in 1..(l - q) /\ q + 1 \in 1..l /\ q < l
    BY ONLY <1>4, <2>3
  <2>5. unprocessed'[1] = w[q + 1]
    BY <1>3, <1>14, <2>2, <2>4
  <2>6. b < w[q + 1] /\ w[q + 1] \in Nat
    BY <1>7, <1>11, <2>4
  <2>7. QED
    BY ONLY <1>4, <2>5, <2>6
<1>17. b = c + k
  BY ONLY <1>4, <1>11
<1>18. QED
  BY <1>1, <1>2, <1>4, <1>6, <1>12, <1>13, <1>15, <1>16, <1>17

\* All is conserved when a stanza gets its name.
LEMMA StanzaIdAnsweredConserved ==
  ASSUME Types, Types', Phases, Listed, Accounted, Conserved,
         NEW n \in unanswered, StanzaIdAnswered(n)
  PROVE  Conserved'
<1>1. PICK c, w, d, p, k, b : NameTaken(n, c, w, d, p, k, b)
  BY NameAnswered
<1>2. /\ UNCHANGED <<conn, sm, sent, tracked, prevUnacked, server, session, nameless, cutOff>>
  BY DEF StanzaIdAnswered
<1>3. store'.id = store.id /\ Stands(p, k, b) /\ Took(p)
  BY <1>1, NameSaved DEF NameTaken
<1>4. Live' = Live /\ Resumable' = Resumable
  BY <1>2, <1>3 DEF Live, Resumable, Match
<1>5. SUFFICES ASSUME Live, server.in < Modulus
               PROVE  (InSession /\ Settled /\ Exact /\ Unnamed /\ Dropped /\ Ahead)'
  BY <1>2, <1>4 DEF Conserved
<1>6. InSession /\ Settled /\ Exact /\ Dropped
  BY <1>5 DEF Conserved
<1>7. InSession' /\ Dropped' /\ GivenUp' = GivenUp
  BY <1>2, <1>6 DEF InSession, Dropped, Before, GivenUp
<1>8. ASSUME unprocessed = <<>> PROVE Settled' /\ Exact' /\ Unnamed' /\ Ahead'
  <2>1. /\ unackedByServer' = unackedByServer /\ unprocessed' = <<>>
        /\ lastHandledByServer' = lastHandledByServer /\ reported' = reported /\ p.taken = 0
    BY <1>1, <1>8, NameAlone
  <2>2. Open' = Open
    BY <1>2, <2>1 DEF Open
  <2>3. Settled'
    BY <1>2, <1>6, <1>7, <2>1, <2>2 DEF Settled, IsReported
  <2>4. Exact'
    BY <1>2, <1>4, <1>6, <2>1, <2>2 DEF Exact
  <2>5. Unnamed'
    BY <1>1, <2>1, NameStored DEF Unnamed
  <2>6. QED
    BY <2>1, <2>3, <2>4, <2>5 DEF Ahead
<1>9. ASSUME unprocessed # <<>> PROVE Settled' /\ Exact' /\ Unnamed' /\ Ahead'
  <2>1. /\ prevUnacked = <<>> /\ k \in Nat /\ b \in Nat /\ lastHandledByServer' = b
        /\ b = lastHandledByServer + k /\ (p.taken > 0 => k > 0) /\ Ahead'
    BY <1>1, <1>5, <1>9, WaitingTaken
  <2>2. Settled'
    BY <1>2, <1>3, <1>6, <1>7, <2>1, SettledTaken
  <2>3. Exact'
    <3>1. SUFFICES ASSUME Resumable, Open' > 0 PROVE b = tracked - Open'
      BY <1>2, <1>4, <2>1 DEF Exact
    <3>2. Open' = Open - k /\ Open \in Nat /\ Open' \in Nat
      BY <1>2, <1>3, ShorterOpen
    <3>3. PICK o, t, l : o = Open /\ t = tracked /\ l = lastHandledByServer
      OBVIOUS
    <3>4. o > 0
      BY ONLY <2>1, <3>1, <3>2, <3>3
    <3>5. l = t - o /\ t \in Nat
      BY <1>6, <3>1, <3>3, <3>4, ListTypes DEF Exact
    <3>6. QED
      BY ONLY <2>1, <3>2, <3>3, <3>5
  <2>4. Unnamed'
    <3>1. ~(p.taken > 0 /\ k = 0)
      BY <2>1
    <3>2. QED
      BY <1>1, <3>1, NameStored DEF Unnamed
  <2>5. QED
    BY <2>1, <2>2, <2>3, <2>4
<1>10. QED
  BY <1>7, <1>8, <1>9

\* There is nothing to conserve at the start, as there is no session.
LEMMA InitConserved == Init => Conserved
<1>1. SUFFICES ASSUME Init PROVE Conserved
  OBVIOUS
<1>2. sm = "off" /\ store.id = NoId
  BY <1>1 DEF Init, NoStore
<1>3. ~Live
  BY <1>2 DEF Live, Resumable, Match
<1>4. QED
  BY <1>3 DEF Conserved

\* Every step conserves all.
LEMMA ConservedStep ==
  ASSUME Core, Core', Conserved, [Next]_vars
  PROVE  Conserved'
<1>1. Types /\ Types' /\ Phases /\ Listed /\ Pending /\ Outgoing /\ Accounted
  BY DEF Core
<1>2. CASE \/ BindAnew \/ ReceiveResumeFailed \/ EnableStreamManagement \/ ReceiveNotEnabled
           \/ SessionExpires \/ NotOffered \/ DidSendEnable
  BY <1>1, <1>2, NothingConserved
<1>3. CASE \/ Connect \/ RequestTimerFires \/ SendAck \/ ReceiveStanza \/ ServerAcks
           \/ ServerIsAcked \/ ServerSends \/ ServerResumes
  BY <1>1, <1>3, ConservedStays
<1>4. CASE SendResume
  BY <1>1, <1>4, SendResumeConserved
<1>5. CASE ReceiveEnabled
  BY <1>1, <1>5, ReceiveEnabledConserved
<1>6. CASE SendStanza
  BY <1>1, <1>6, SendStanzaConserved
<1>7. CASE ServerEnables
  BY <1>1, <1>7, ServerEnablesConserved
<1>8. CASE ServerHandles
  BY <1>1, <1>8, ServerHandlesConserved
<1>9. CASE \E clean \in BOOLEAN : Disconnect(clean)
  BY <1>1, <1>9, DisconnectConserved
<1>10. CASE ReceiveResumed
  BY <1>1, <1>10, ReceiveResumedConserved
<1>11. CASE ReceiveAck
  BY <1>1, <1>11, ReceiveAckConserved
<1>12. CASE \E n \in unanswered : StanzaIdAnswered(n)
  BY <1>1, <1>12, StanzaIdAnsweredConserved
<1>13. CASE UNCHANGED vars
  BY <1>13, ConservedStutters
<1>14. QED
  BY <1>2, <1>3, <1>4, <1>5, <1>6, <1>7, <1>8, <1>9, <1>10, <1>11, <1>12, <1>13
     DEF Next, ClientReceives, Serve

\* When all is quiet, the client waits for nothing any more.
LEMMA RequestsSettle ==
  ASSUME Core, Requested, Quiet
  PROVE  Len(unackedByServer) = 0
<1>1. /\ sm = "started" /\ up = <<>> /\ down = <<>> /\ ~requestTimer /\ unanswered = {}
      /\ server.in < Modulus
  BY DEF Quiet
<1>2. unprocessed = <<>> /\ Counting /\ lastRequestOffset = Len(unackedByServer)
  BY <1>1, CountingFacts DEF Core, Listed, Requested
<1>3. PICK n, t, h : n = Len(unackedByServer) /\ t = tracked /\ h = server.in
  OBVIOUS
<1>4. n \in Nat /\ t \in Nat /\ h \in Nat /\ h < Modulus
  BY <1>1, <1>3, ListTypes DEF Core
<1>5. Requests = t
  <2>1. Requests = t - n + n
    BY <1>2, <1>3 DEF Requests
  <2>2. QED
    BY ONLY <1>4, <2>1
<1>6. t <= lastHandledByServer
  <2>1. Len(up) = 0 /\ Len(down) = 0 /\ Len(unprocessed) = 0
    BY <1>1, <1>2, EmptySeq
  <2>2. QED
    BY <1>1, <1>2, <1>5, <2>1 DEF Requested, Covers
<1>7. PICK c \in Nat : lastHandledByServer = c % Modulus /\ c = t - n /\ c <= h
  <2>1. PICK c, w, d : Account(c, w, d)
    BY DEF Core, Accounted
  <2>2. Open = n
    <3>1. prevUnacked = <<>>
      BY <1>1 DEF Core, Phases, Ordered
    <3>2. Len(prevUnacked) = 0
      BY <3>1, EmptySeq
    <3>3. QED
      BY <1>3, <1>4, <3>2 DEF Open
  <2>3. QED
    BY <1>1, <1>3, <2>1, <2>2 DEF Account, Acked, Live
<1>8. lastHandledByServer = c
  BY <1>4, <1>7, SmallRemainder
<1>9. n = 0
  BY ONLY <1>4, <1>6, <1>7, <1>8
<1>10. QED
  BY <1>3, <1>9

\* When all is quiet, what the server handled is before all the client waits for, and
\* hence settled.
LEMMA NothingLeft ==
  ASSUME Core, Requested, Conserved
  PROVE  NothingForgotten
<1>1. SUFFICES ASSUME Quiet, NEW n \in session PROVE n \in GivenUp \/ IsReported(n)
  BY DEF NothingForgotten, GivenUp
<1>2. sm = "started" /\ server.in < Modulus /\ Live
  BY <1>1 DEF Quiet, Live
<1>3. InSession /\ Settled
  BY <1>2 DEF Conserved
<1>4. Open = 0
  <2>1. Len(unackedByServer) = 0
    BY <1>1, RequestsSettle
  <2>2. Len(prevUnacked) = 0
    BY <1>2, EmptySeq DEF Core, Phases, Ordered
  <2>3. QED
    BY <2>1, <2>2 DEF Open
<1>5. PICK s, t, h : s = sent /\ t = tracked /\ h = server.in
  OBVIOUS
<1>6. s \in Nat /\ t \in Nat /\ h \in Nat /\ h <= t
  BY <1>2, <1>5, ListTypes DEF Core, Outgoing
<1>7. n \in Nat /\ n <= (s - t) + h
  BY <1>3, <1>5 DEF InSession, Before
<1>8. n <= s - 0
  BY ONLY <1>6, <1>7
<1>9. QED
  BY <1>3, <1>4, <1>5, <1>8 DEF Settled

\* Once nothing is on its way, no timer runs and every stanza has its name, each stanza
\* the server handled in the session has been reported, was without its name when a
\* <resume/> of the session was sent, or was in the list of a resumption that was cut
\* off before <resumed/>: every other loss and delay is made up for, as long as the
\* server's counter did not wrap around.
THEOREM NothingForgottenHolds == Spec => []NothingForgotten
<1>1. Spec => []Core
  BY CoreHolds
<1>2. Init => Requested /\ Conserved
  BY InitRequested, InitConserved
<1>3. Core /\ Core' /\ Requested /\ [Next]_vars => Requested'
  BY RequestedStep
<1>4. Core /\ Core' /\ Conserved /\ [Next]_vars => Conserved'
  BY ConservedStep
<1>5. Core /\ Requested /\ Conserved => NothingForgotten
  BY NothingLeft
<1>6. QED
  BY <1>1, <1>2, <1>3, <1>4, <1>5, PTL DEF Spec

-----------------------------------------------------------------------------
(* The stanzas of the server.                                              *)

\* Who the server is connected to.
LEMMA OnFacts ==
  ASSUME Types, Phases, server.on
  PROVE  \/ sm = "started"
         \/ sm = "enableSent" /\ Granted
         \/ sm = "off" /\ conn = "resuming" /\ Resumable
<1>1. CASE sm = "off"
  <2>1. conn = "resuming"
    BY <1>1 DEF Types, PhaseType, Connection, Phases, Offline, Unmanaged, NoSession
  <2>2. Resuming
    BY <2>1 DEF Phases, Resumption
  <2>3. QED
    BY <1>1, <2>1, <2>2 DEF Resuming, Resumable
<1>2. CASE sm = "enableQueued"
  BY <1>2 DEF Phases, Enabling, NoSession
<1>3. CASE sm = "enableSent"
  BY <1>3 DEF Phases, Enabling, Requesting, Refused, NoSession
<1>4. QED
  BY <1>1, <1>2, <1>3 DEF Types, PhaseType

\* What was received and acked is part of what was sent.
LEMMA ReceivedFacts ==
  ASSUME Types, Phases, Incoming
  PROVE  /\ Received \in Nat /\ (sm # "enableSent" => Received = Len(got))
         /\ server.on => server.acked <= Received /\ Received <= server.out
<1>1. Received \in Nat /\ (sm # "enableSent" => Received = Len(got)) /\ (sm = "enableSent" => Received = 0)
  BY ListTypes DEF Received
<1>2. ASSUME server.on PROVE server.acked <= Received /\ Received <= server.out
  <2>1. CASE sm = "started"
    BY <1>1, <2>1 DEF Incoming
  <2>2. CASE sm = "off" /\ Resumable
    BY <1>1, <2>2 DEF Incoming
  <2>3. CASE sm = "enableSent" /\ Granted
    <3>1. server.acked = 0 /\ server.out \in Nat /\ Received = 0
      BY <1>1, <2>3, ListTypes DEF Granted
    <3>2. QED
      BY <3>1
  <2>4. QED
    BY <1>2, <2>1, <2>2, <2>3, OnFacts
<1>3. QED
  BY <1>1, <1>2

\* There is no session.
LEMMA IncomingIdle ==
  ASSUME Incoming, got' = got, ~server'.on, sm' # "started", ~Resumable', server'.out <= MaxReceived
  PROVE  Incoming'
BY DEF Incoming

\* No stanza of the server is received.
LEMMA IncomingFrame ==
  ASSUME Incoming, UNCHANGED <<got, lastHandledByClient>>, Received' = Received,
         server'.out = server.out, server'.acked = server.acked,
         server'.on => /\ Stanzas(down', Received, server.out)
                       /\ AcksGrow(up', server.acked, Received),
         sm' = "started" => sm = "started",
         Resumable' => Resumable /\ store'.byClient \in {store.byClient, lastHandledByClient}
  PROVE  Incoming'
<1>1. /\ \A i \in 1..Len(got') : got'[i] = i
      /\ server'.out <= MaxReceived
  BY DEF Incoming
<1>2. server'.on => Stanzas(down', Received', server'.out) /\ AcksGrow(up', server'.acked, Received')
  OBVIOUS
<1>3. sm' = "started" \/ Resumable' =>
        lastHandledByClient' = Len(got') /\ server'.acked <= Len(got') /\ Len(got') <= server'.out
  BY DEF Incoming
<1>4. Resumable' => store'.byClient = lastHandledByClient'
  BY DEF Incoming
<1>5. QED
  BY <1>1, <1>2, <1>3, <1>4 DEF Incoming

\* What is on the way to the client is not touched.
LEMMA IncomingStays ==
  ASSUME Types, Incoming, UNCHANGED <<got, lastHandledByClient, down, up, server, sm>>,
         Resumable' => Resumable /\ store'.byClient \in {store.byClient, lastHandledByClient}
  PROVE  Incoming'
<1>1. Received' = Received
  BY DEF Received
<1>2. server.on => Stanzas(down, Received, server.out) /\ AcksGrow(up, server.acked, Received)
  BY DEF Incoming
<1>3. QED
  BY <1>1, <1>2, IncomingFrame

\* There is no session.
LEMMA NothingIncoming ==
  ASSUME Types, Phases, Incoming,
         \/ BindAnew \/ ReceiveResumeFailed \/ EnableStreamManagement \/ NotOffered \/ DidSendEnable
         \/ ReceiveNotEnabled \/ SessionExpires
  PROVE  Incoming'
<1>1. server' = NoSession /\ got' = got
  <2>1. CASE BindAnew \/ ReceiveResumeFailed \/ SessionExpires
    BY <2>1 DEF BindAnew, ReceiveResumeFailed, SessionExpires, history
  <2>2. CASE EnableStreamManagement \/ NotOffered
    BY <2>2 DEF EnableStreamManagement, NotOffered, history, Phases, Offline
  <2>3. CASE DidSendEnable
    BY <2>3 DEF DidSendEnable, history, Phases, Enabling
  <2>4. CASE ReceiveNotEnabled
    <3>1. sm = "enableSent" /\ down # <<>> /\ Head(down) = <<"failed">> /\ server' = server /\ got' = got
      BY <2>4 DEF ReceiveNotEnabled, history
    <3>2. down[1] = <<"failed">>
      BY <3>1, DownReads
    <3>3. ~Granted
      BY <3>2 DEF Granted
    <3>4. QED
      BY <3>1, <3>3 DEF Phases, Enabling, Requesting, Refused
  <2>5. QED
    BY <2>1, <2>2, <2>3, <2>4
<1>2. ~server'.on /\ server'.id = NoId /\ server'.out = 0
  BY <1>1 DEF NoSession
<1>3. ~Resumable'
  BY <1>2 DEF Resumable, Match
<1>4. sm' # "started"
  <2>1. CASE BindAnew \/ NotOffered \/ ReceiveResumeFailed
    BY <2>1 DEF BindAnew, NotOffered, ReceiveResumeFailed, Phases, Ordered
  <2>2. CASE EnableStreamManagement \/ DidSendEnable \/ ReceiveNotEnabled
    BY <2>2 DEF EnableStreamManagement, DidSendEnable, ReceiveNotEnabled
  <2>3. CASE SessionExpires
    BY <2>3 DEF SessionExpires, Phases, Started
  <2>4. QED
    BY <2>1, <2>2, <2>3
<1>5. server'.out <= MaxReceived
  BY <1>2, Bounds
<1>6. QED
  BY <1>1, <1>2, <1>3, <1>4, <1>5, IncomingIdle

\* The stanzas of the server stay in order when a connection is begun.
LEMMA ConnectIncoming ==
  ASSUME Types, Incoming, Connect
  PROVE  Incoming'
<1>1. UNCHANGED <<got, lastHandledByClient, down, up, server, sm, store>>
  BY DEF Connect, history, incoming, wire
<1>2. Resumable' => Resumable
  BY <1>1 DEF Resumable, Match
<1>3. QED
  BY <1>1, <1>2, IncomingStays

\* The stanzas of the server stay in order when <resume/> is sent.
LEMMA SendResumeIncoming ==
  ASSUME Types, Phases, Incoming, SendResume
  PROVE  Incoming'
<1>1. /\ conn = "binding" /\ lastHandledByClient' = store.byClient
      /\ UNCHANGED <<got, server, sm, store>>
  BY DEF SendResume, history
<1>2. sm' = "off" /\ ~server'.on
  BY <1>1 DEF Phases, Ordered, Offline, Types, PhaseType
<1>3. Resumable' => Resumable
  BY <1>1 DEF Resumable, Match
<1>4. QED
  BY <1>1, <1>2, <1>3 DEF Incoming

\* The stanzas of the server stay in order when the stream disconnects.
LEMMA DisconnectIncoming ==
  ASSUME Types, Phases, Incoming, NEW clean \in BOOLEAN, Disconnect(clean)
  PROVE  Incoming'
<1>1. sm' = "off" /\ got' = got /\ lastHandledByClient' = lastHandledByClient
  BY DEF Disconnect, history, incoming
<1>2. CASE clean
  <2>1. server' = NoSession
    BY <1>2 DEF Disconnect
  <2>2. ~server'.on /\ server'.id = NoId /\ server'.out = 0
    BY <2>1 DEF NoSession
  <2>3. ~Resumable' /\ server'.out <= MaxReceived
    BY <2>2, Bounds DEF Resumable, Match
  <2>4. QED
    BY <1>1, <2>2, <2>3, IncomingIdle
<1>3. CASE ~clean
  <2>1. server'.out = server.out /\ server'.acked = server.acked /\ ~server'.on
    BY <1>3 DEF Disconnect, Types, ServerType, Server
  <2>2. store'.byClient = lastHandledByClient
    BY <1>3 DEF Disconnect, Types, StoreType, Store
  <2>3. Resumable' => sm = "started" \/ Resumable
    BY DisconnectLive DEF Live
  <2>4. QED
    BY <1>1, <2>1, <2>2, <2>3 DEF Incoming
<1>4. QED
  BY <1>2, <1>3

\* The stanzas of the server stay in order when the session is resumed.
LEMMA ReceiveResumedIncoming ==
  ASSUME Types, Phases, Listed, Pending, Outgoing, Accounted, Incoming, ReceiveResumed
  PROVE  Incoming'
<1>1. /\ Resumable /\ server.on /\ sm = "off" /\ sm' = "started" /\ down # <<>> /\ down' = Tail(down)
      /\ down[1] = <<"resumed", server.in % Modulus>>
      /\ UNCHANGED <<got, lastHandledByClient, up, server>>
  BY Resumed DEF ReceiveResumed, incoming
<1>2. PICK r, o : r = Received /\ o = server.out
  OBVIOUS
<1>3. r \in Nat /\ o \in Nat /\ down \in Seq(DownElement) /\ Received' = r
  BY <1>1, <1>2, ListTypes DEF Received
<1>4. Stanzas(down, r, o) /\ AcksGrow(up, server.acked, r)
  BY <1>1, <1>2 DEF Incoming
<1>5. Stanzas(Tail(down), r, o)
  BY <1>1, <1>3, <1>4, StanzasTail
<1>6. ~Resumable'
  BY <1>1 DEF Resumable
<1>7. QED
  BY <1>1, <1>2, <1>3, <1>4, <1>5, <1>6 DEF Incoming

\* The stanzas of the server stay in order when it is enabled.
LEMMA ReceiveEnabledIncoming ==
  ASSUME Types, Phases, Incoming, ReceiveEnabled
  PROVE  Incoming'
<1>1. /\ sm = "enableSent" /\ sm' = "started" /\ down # <<>> /\ Head(down)[1] = "enabled"
      /\ down' = Tail(down) /\ got' = <<>> /\ lastHandledByClient' = 0
      /\ UNCHANGED <<up, server>>
  BY DEF ReceiveEnabled, ZeroCounters
<1>2. down[1][1] = "enabled" /\ down \in Seq(DownElement)
  BY <1>1, DownReads, ListTypes
<1>3. Granted
  BY <1>1, <1>2 DEF Phases, Enabling, Requesting, Refused
<1>4. server.on /\ server.acked = 0 /\ server.out \in Nat
  BY <1>3, ListTypes DEF Granted
<1>5. Len(got') = 0 /\ Received = 0 /\ Received' = 0
  BY <1>1, EmptySeq DEF Received
<1>6. PICK o : o = server.out
  OBVIOUS
<1>7. o \in Nat /\ Stanzas(down, 0, o) /\ AcksGrow(up, 0, 0)
  BY <1>4, <1>5, <1>6 DEF Incoming
<1>8. Stanzas(Tail(down), 0, o)
  BY <1>1, <1>2, <1>7, StanzasTail
<1>9. ~Resumable'
  BY <1>1 DEF Resumable
<1>10. QED
  BY <1>1, <1>4, <1>5, <1>6, <1>7, <1>8, <1>9 DEF Incoming

\* The stanzas of the server stay in order when an ack arrives.
LEMMA ReceiveAckIncoming ==
  ASSUME Types, Phases, Accounted, Incoming, ReceiveAck
  PROVE  Incoming'
<1>1. /\ sm = "started" /\ sm' = sm /\ down # <<>> /\ Head(down)[1] = "a" /\ down' = Tail(down)
      /\ UNCHANGED <<got, lastHandledByClient, up, server>>
  BY AckReceived DEF ReceiveAck, incoming
<1>2. PICK r, o : r = Received /\ o = server.out
  OBVIOUS
<1>3. r \in Nat /\ o \in Nat /\ down \in Seq(DownElement) /\ Received' = r
  BY <1>1, <1>2, ListTypes DEF Received
<1>4. server.on => Stanzas(down, r, o) /\ AcksGrow(up, server.acked, r)
  BY <1>2 DEF Incoming
<1>5. Stanzas(down, r, o) => Stanzas(Tail(down), r, o)
  BY <1>1, <1>3, DownReads, StanzasTail
<1>6. ~Resumable'
  BY <1>1 DEF Resumable
<1>7. QED
  BY <1>1, <1>2, <1>3, <1>4, <1>5, <1>6, IncomingFrame

\* The stanzas of the server stay in order when a stanza arrives.
LEMMA ReceiveStanzaIncoming ==
  ASSUME MaxReceived < Modulus, Types, Phases, Incoming, ReceiveStanza
  PROVE  Incoming'
<1>1. /\ sm = "started" /\ sm' = sm /\ down # <<>> /\ Head(down)[1] = "stanza" /\ down' = Tail(down)
      /\ got' = Append(got, Head(down)[2])
      /\ lastHandledByClient' = (lastHandledByClient + 1) % Modulus
      /\ UNCHANGED <<up, server>>
  BY DEF ReceiveStanza
<1>2. server.on
  BY <1>1 DEF Phases, Started
<1>3. PICK n, o, a : n = Len(got) /\ o = server.out /\ a = server.acked
  OBVIOUS
<1>4. /\ n \in Nat /\ o \in Nat /\ a \in Nat /\ down \in Seq(DownElement) /\ got \in Seq(Nat)
      /\ Received = n /\ lastHandledByClient = n /\ o <= MaxReceived /\ a <= n
  BY <1>1, <1>3, ListTypes DEF Types, HistoryType, Received, Incoming
<1>5. Stanzas(down, n, o) /\ AcksGrow(up, a, n)
  BY <1>2, <1>3, <1>4 DEF Incoming
<1>6. Head(down)[2] = n + 1 /\ n + 1 <= o /\ Stanzas(Tail(down), n + 1, o)
  BY <1>1, <1>4, <1>5, DownReads, StanzasTail
<1>7. Len(got') = n + 1 /\ got'[n + 1] = n + 1 /\ \A i \in 1..n : got'[i] = got[i]
  BY <1>1, <1>3, <1>4, <1>6, AppendFacts
<1>8. \A i \in 1..(n + 1) : i \in 1..n \/ i = n + 1
  BY ONLY <1>4
<1>9. \A i \in 1..Len(got') : got'[i] = i
  BY <1>3, <1>7, <1>8 DEF Incoming
<1>10. lastHandledByClient' = n + 1
  <2>1. n + 1 < Modulus
    BY ONLY <1>4, <1>6, Bounds, MaxReceived < Modulus
  <2>2. (n + 1) % Modulus = n + 1
    BY <1>4, <2>1, Bounds
  <2>3. QED
    BY <1>1, <1>4, <2>2
<1>11. AcksGrow(up, a, n + 1)
  <2>1. \A v \in a..n : v \in a..(n + 1)
    BY ONLY <1>4
  <2>2. QED
    BY <1>5, <2>1 DEF AcksGrow
<1>12. a <= n + 1 /\ n + 1 <= o
  BY ONLY <1>4, <1>6
<1>13. Received' = n + 1 /\ ~Resumable'
  BY <1>1, <1>7 DEF Received, Resumable
<1>14. QED
  BY <1>1, <1>3, <1>4, <1>6, <1>7, <1>9, <1>10, <1>11, <1>12, <1>13 DEF Incoming

\* What is sent to the server.
LEMMA SentIncoming ==
  ASSUME Types, Phases, Incoming, SendStanza \/ RequestTimerFires \/ SendAck
  PROVE  Incoming'
<1>1. UNCHANGED <<got, lastHandledByClient, down, server, sm, store>>
  BY DEF SendStanza, RequestTimerFires, SendAck, history, incoming
<1>2. Received' = Received /\ (Resumable' => Resumable)
  BY <1>1 DEF Received, Resumable, Match
<1>3. ASSUME server.on
      PROVE  Stanzas(down, Received, server.out) /\ AcksGrow(up', server.acked, Received)
  <2>1. PICK a, r : a = server.acked /\ r = Received
    OBVIOUS
  <2>2. /\ a \in Nat /\ r \in Nat /\ a <= r /\ up \in Seq(UpElement) /\ AcksGrow(up, a, r)
        /\ Stanzas(down, Received, server.out)
    BY <1>3, <2>1, ListTypes, ReceivedFacts DEF Incoming
  <2>3. ASSUME NEW s \in Seq(UpElement), AcksGrow(s, a, r), NEW e \in UpElement, e[1] = "a" => e[2] = r
        PROVE  AcksGrow(Append(s, e), a, r) /\ Append(s, e) \in Seq(UpElement)
    BY <2>2, <2>3, AcksAppend, AppendFacts
  <2>4. CASE SendStanza
    <3>1. PICK e, q, x : /\ e = <<"stanza", sent + 1>> /\ q = <<"r">> /\ x = Append(up, e)
                         /\ e \in UpElement /\ q \in UpElement
                         /\ up' = x \/ up' = Append(x, q)
      BY <2>4, StanzaSent
    <3>2. AcksGrow(x, a, r) /\ x \in Seq(UpElement)
      BY <2>2, <2>3, <3>1
    <3>3. AcksGrow(Append(x, q), a, r)
      BY <2>3, <3>1, <3>2
    <3>4. QED
      BY <2>1, <2>2, <3>1, <3>2, <3>3
  <2>5. CASE RequestTimerFires
    <3>1. PICK q : q = <<"r">>
      OBVIOUS
    <3>2. q \in UpElement /\ q[1] = "r"
      BY <3>1, UpFacts
    <3>3. up' = up \/ up' = Append(up, q)
      BY <2>5, <3>1 DEF RequestTimerFires, ToServer
    <3>4. AcksGrow(Append(up, q), a, r)
      BY <2>2, <2>3, <3>2
    <3>5. QED
      BY <2>1, <2>2, <3>3, <3>4
  <2>6. CASE SendAck
    <3>1. sm = "started" /\ lastHandledByClient = Len(got) /\ Received = Len(got)
      BY <2>6, ReceivedFacts DEF SendAck, Incoming
    <3>2. PICK e : e = <<"a", lastHandledByClient>>
      OBVIOUS
    <3>3. e \in UpElement /\ e[1] = "a" /\ e[2] = r /\ up' = Append(up, e)
      BY <2>1, <2>6, <3>1, <3>2, UpFacts DEF SendAck, ToServer, Types, StoreType
    <3>4. QED
      BY <2>1, <2>2, <2>3, <3>3
  <2>7. QED
    BY <2>4, <2>5, <2>6
<1>4. QED
  BY <1>1, <1>2, <1>3, IncomingFrame

\* The stanzas of the server stay in order when a stanza gets its name.
LEMMA StanzaIdAnsweredIncoming ==
  ASSUME Types, Accounted, Incoming, NEW n \in unanswered, StanzaIdAnswered(n)
  PROVE  Incoming'
<1>1. UNCHANGED <<got, lastHandledByClient, down, up, server, sm>>
  BY DEF StanzaIdAnswered, incoming, wire
<1>2. PICK c, w, d, p, k, b : NameTaken(n, c, w, d, p, k, b)
  BY NameAnswered
<1>3. store'.id = store.id /\ (store' = store \/ (sm # "started" => store'.byClient = lastHandledByClient))
  BY <1>2, NameSaved DEF Saved
<1>4. Resumable' => Resumable /\ sm # "started"
  BY <1>1, <1>3 DEF Resumable, Match
<1>5. QED
  BY <1>1, <1>3, <1>4, IncomingStays

\* The stanzas of the server stay in order when the server reads <enable/>.
LEMMA ServerEnablesIncoming ==
  ASSUME Types, Types', Phases, Incoming, ServerEnables
  PROVE  Incoming'
<1>1. /\ sm = "enableSent" /\ down = <<>> /\ server = NoSession /\ Kinds(up', {"stanza", "r"})
      /\ UNCHANGED <<sm, got, lastHandledByClient>>
  BY ReadsEnable DEF ServerEnables, history, incoming
<1>2. sm' = "enableSent" /\ ~Resumable' /\ Received' = 0
  BY <1>1 DEF Resumable, Received
<1>3. CASE server' = server
  <2>1. ~server'.on /\ server'.out = 0
    BY <1>1, <1>3 DEF NoSession
  <2>2. server'.out <= MaxReceived
    BY <2>1, Bounds
  <2>3. QED
    BY <1>1, <1>2, <2>1, <2>2, IncomingIdle
<1>4. CASE server' # server
  <2>1. PICK e : /\ server' = [NoSession EXCEPT !.id = ids + 1, !.on = TRUE]
                 /\ down' = Append(down, e) /\ e[1] = "enabled"
    BY <1>4 DEF ServerEnables, ToClient
  <2>2. server'.out = 0 /\ server'.acked = 0
    BY <2>1 DEF NoSession
  <2>3. down' = <<e>>
    BY <1>1, <2>1, ShortKinds
  <2>4. Len(down') = 1 /\ down'[1] = e
    BY <2>3, ShortKinds
  <2>5. Stanzas(down', 0, 0)
    <3>1. \A i \in 1..1 : i = 1
      OBVIOUS
    <3>2. \A m \in (0 + 1)..0 : FALSE
      OBVIOUS
    <3>3. QED
      BY <2>1, <2>4, <3>1, <3>2 DEF Stanzas
  <2>6. AcksGrow(up', 0, 0)
    BY <1>1 DEF Kinds, AcksGrow
  <2>7. server'.out <= MaxReceived
    BY <2>2, Bounds
  <2>8. QED
    BY <1>1, <1>2, <2>2, <2>5, <2>6, <2>7 DEF Incoming
<1>5. QED
  BY <1>3, <1>4

\* The stanzas of the server stay in order when the server reads what it does not answer with a stanza.
LEMMA ServerReadsIncoming ==
  ASSUME Types, Phases, Incoming, ServerHandles \/ ServerAcks
  PROVE  Incoming'
<1>1. PICK word \in {"stanza", "r"} : ServerReads(word)
  BY DEF ServerHandles, ServerAcks
<1>2. /\ up # <<>> /\ up' = Tail(up)
      /\ UNCHANGED <<got, lastHandledByClient, sm, store>>
  BY <1>1, ServerRead DEF ServerHandles, ServerAcks, history, incoming
<1>3. /\ server'.out = server.out /\ server'.acked = server.acked /\ server'.on = server.on
      /\ server'.id = server.id
  BY DEF ServerHandles, ServerAcks, Types, ServerType, Server
<1>4. Received' = Received /\ (Resumable' => Resumable)
  BY <1>2, <1>3 DEF Received, Resumable, Match
<1>5. ASSUME server.on
      PROVE  Stanzas(down', Received, server.out) /\ AcksGrow(up', server.acked, Received)
  <2>1. PICK a, r, o, h : a = server.acked /\ r = Received /\ o = server.out /\ h = server.in
    OBVIOUS
  <2>2. /\ a \in Nat /\ r \in Nat /\ o \in Nat /\ h \in Nat
        /\ up \in Seq(UpElement) /\ down \in Seq(DownElement)
        /\ AcksGrow(up, a, r) /\ Stanzas(down, r, o)
    BY <1>5, <2>1, ListTypes, ReceivedFacts DEF Incoming
  <2>3. AcksGrow(up', a, r)
    BY <1>2, <2>2, AcksTail
  <2>4. PICK e : e = <<"a", h % Modulus>>
    OBVIOUS
  <2>5. e \in DownElement /\ e[1] = "a"
    BY <2>2, <2>4, Quotient, DownFacts
  <2>6. down' = down \/ down' = Append(down, e)
    BY <2>1, <2>4 DEF ServerHandles, ServerAcks, ToClient
  <2>7. Stanzas(Append(down, e), r, o)
    BY <2>2, <2>5, StanzasAppend
  <2>8. QED
    BY <2>1, <2>2, <2>3, <2>6, <2>7
<1>6. QED
  BY <1>2, <1>3, <1>4, <1>5, IncomingFrame

\* What the server makes of a count it is told.
LEMMA CountTold ==
  ASSUME MaxReceived < Modulus, NEW a \in Nat, NEW v \in Nat, a <= v, v <= MaxReceived
  PROVE  a + ((v - a) % Modulus) = v
<1>1. PICK m : m = v - a
  OBVIOUS
<1>2. m \in Nat /\ m < Modulus
  BY ONLY <1>1, a \in Nat, v \in Nat, a <= v, v <= MaxReceived, MaxReceived < Modulus, Bounds
<1>3. m % Modulus = m
  BY <1>2, Bounds
<1>4. a + m = v
  BY ONLY <1>1, a \in Nat, v \in Nat
<1>5. QED
  BY <1>1, <1>3, <1>4

\* The stanzas of the server stay in order when the server is acked.
LEMMA ServerIsAckedIncoming ==
  ASSUME MaxReceived < Modulus, Types, Phases, Incoming, ServerIsAcked
  PROVE  Incoming'
<1>1. /\ sm = "started" /\ up # <<>> /\ Head(up) = up[1] /\ up[1][1] = "a" /\ up' = Tail(up)
      /\ UNCHANGED <<got, lastHandledByClient, sm, down>>
  BY ReadsOther DEF ServerIsAcked, history, incoming
<1>2. server.on
  BY <1>1 DEF Phases, Started
<1>3. PICK a, n, o, v : a = server.acked /\ n = Len(got) /\ o = server.out /\ v = up[1][2]
  OBVIOUS
<1>4. /\ a \in Nat /\ n \in Nat /\ o \in Nat /\ up \in Seq(UpElement)
      /\ Received = n /\ n <= o /\ o <= MaxReceived /\ lastHandledByClient = n
      /\ Stanzas(down, n, o) /\ AcksGrow(up, a, n)
  BY <1>1, <1>2, <1>3, ListTypes DEF Received, Incoming
<1>5. v \in a..n /\ AcksGrow(Tail(up), v, n)
  BY <1>1, <1>3, <1>4, AcksTail
<1>6. v \in Nat /\ a <= v /\ v <= MaxReceived /\ v <= n
  BY ONLY <1>4, <1>5, Bounds
<1>7. a + ((v - a) % Modulus) = v
  BY <1>4, <1>6, CountTold
<1>8. /\ server'.acked = v /\ server'.out = o /\ server'.on
  <2>1. server' = [server EXCEPT !.acked = v]
    BY <1>1, <1>3, <1>7 DEF ServerIsAcked
  <2>2. QED
    BY <1>2, <1>3, <2>1 DEF Types, ServerType, Server
<1>9. Received' = n /\ ~Resumable'
  BY <1>1, <1>4 DEF Received, Resumable
<1>10. QED
  BY <1>1, <1>3, <1>4, <1>5, <1>6, <1>8, <1>9 DEF Incoming

\* The stanzas of the server stay in order when the server sends a stanza.
LEMMA ServerSendsIncoming ==
  ASSUME Types, Phases, Incoming, ServerSends
  PROVE  Incoming'
<1>1. UNCHANGED <<got, lastHandledByClient, sm, store, up>>
  BY DEF ServerSends, history, incoming
<1>2. PICK a, r, o : a = server.acked /\ r = Received /\ o = server.out
  OBVIOUS
<1>3. /\ a \in Nat /\ r \in Nat /\ o \in Nat /\ down \in Seq(DownElement)
      /\ server.on => a <= r /\ r <= o
  BY <1>2, ListTypes, ReceivedFacts
<1>4. server'.out = o + 1 /\ server'.acked = a /\ server'.on = server.on /\ server'.id = server.id
  BY <1>2 DEF ServerSends, Types, ServerType, Server
<1>5. o + 1 <= MaxReceived /\ o <= o + 1
  <2>1. o < MaxReceived
    BY <1>2 DEF ServerSends
  <2>2. QED
    BY ONLY <1>3, <2>1, Bounds
<1>6. Received' = r /\ (Resumable' => Resumable)
  BY <1>1, <1>2, <1>4 DEF Received, Resumable, Match
<1>7. ASSUME server.on PROVE Stanzas(down', r, o + 1) /\ AcksGrow(up', a, r)
  <2>1. Stanzas(down, r, o) /\ AcksGrow(up, a, r)
    BY <1>2, <1>7 DEF Incoming
  <2>2. PICK e : e = <<"stanza", o + 1>>
    OBVIOUS
  <2>3. e \in DownElement /\ e[1] = "stanza" /\ e[2] = o + 1
    <3>1. o + 1 \in Nat
      BY <1>3
    <3>2. QED
      BY <2>2, <3>1, DownFacts
  <2>4. down' = Append(down, e)
    BY <1>2, <1>7, <2>2 DEF ServerSends, ToClient
  <2>5. Stanzas(Append(down, e), r, o + 1)
    BY <1>3, <1>7, <2>1, <2>3, StanzasAppend
  <2>6. QED
    BY <1>1, <2>1, <2>4, <2>5
<1>8. sm' = "started" \/ Resumable' =>
        lastHandledByClient' = Len(got') /\ server'.acked <= Len(got') /\ Len(got') <= server'.out
  <2>1. SUFFICES ASSUME sm' = "started" \/ Resumable'
                 PROVE  lastHandledByClient = Len(got) /\ a <= Len(got) /\ Len(got) <= o + 1
    BY <1>1, <1>4
  <2>2. lastHandledByClient = Len(got) /\ a <= Len(got) /\ Len(got) <= o
    BY <1>1, <1>2, <1>6, <2>1 DEF Incoming
  <2>3. PICK n : n = Len(got)
    OBVIOUS
  <2>4. n \in Nat
    BY <2>3, ListTypes
  <2>5. n <= o + 1
    BY <1>3, <2>2, <2>3, <2>4
  <2>6. QED
    BY <2>2, <2>3, <2>5
<1>9. QED
  BY <1>1, <1>4, <1>5, <1>6, <1>7, <1>8 DEF Incoming

\* The stanzas of the server stay in order when the server reads <resume/>.
LEMMA ServerResumesIncoming ==
  ASSUME MaxReceived < Modulus, Types, Phases, Incoming, ServerResumes
  PROVE  Incoming'
<1>1. /\ sm = "off" /\ conn = "resuming" /\ Resuming /\ up' = <<>> /\ ~server.on /\ store.id # NoId
      /\ Head(up) = <<"resume", store.id, store.byClient>>
      /\ UNCHANGED <<got, lastHandledByClient, sm, store>>
  BY ReadsResume DEF ServerResumes, history, incoming
<1>2. CASE server.id # store.id
  <2>1. server' = server
    BY <1>1, <1>2 DEF ServerResumes
  <2>2. ~Resumable' /\ ~server'.on /\ sm' # "started" /\ server'.out <= MaxReceived
    BY <1>1, <1>2, <2>1 DEF Resumable, Match, Incoming
  <2>3. QED
    BY <1>1, <2>2, IncomingIdle
<1>3. CASE server.id = store.id
  <2>1. Resumable
    BY <1>1, <1>3 DEF Resumable, Match
  <2>2. PICK v, e, x : Again(v, e, x)
    BY <1>3, SentAgain
  <2>3. PICK a, n, o : a = server.acked /\ n = Len(got) /\ o = server.out
    OBVIOUS
  <2>4. /\ a \in Nat /\ n \in Nat /\ o \in Nat /\ a <= n /\ n <= o /\ o <= MaxReceived
        /\ store.byClient = n /\ lastHandledByClient = n
    BY <2>1, <2>3, ListTypes DEF Incoming
  <2>5. v = n
    <3>1. v = a + ((n - a) % Modulus)
      BY <2>2, <2>3, <2>4 DEF Again
    <3>2. n <= MaxReceived
      BY ONLY <2>4, Bounds
    <3>3. QED
      BY <2>4, <3>1, <3>2, CountTold
  <2>6. PICK l : l = Len(x)
    OBVIOUS
  <2>7. /\ l = o - n /\ l \in Nat /\ down'[1] = e /\ e[1] = "resumed" /\ Len(down') = l + 1
        /\ \A i \in 1..l : x[i] = <<"stanza", n + i>>
        /\ \A i \in 2..(l + 1) : down'[i] = x[i - 1]
    <3>1. /\ l = (IF o >= n THEN o - n ELSE 0) /\ down'[1] = e /\ e[1] = "resumed" /\ Len(down') = l + 1
          /\ \A i \in 1..l : x[i] = <<"stanza", n + i>>
          /\ \A i \in 2..(l + 1) : down'[i] = x[i - 1]
      BY <2>2, <2>3, <2>5, <2>6 DEF Again
    <3>2. l = o - n /\ l \in Nat
      BY ONLY <2>4, <3>1
    <3>3. QED
      BY <3>1, <3>2
  <2>8. \A i \in 2..(l + 1) : down'[i][1] = "stanza" /\ down'[i][2] = n + (i - 1)
    <3>1. \A i \in 2..(l + 1) : i - 1 \in 1..l
      BY ONLY <2>7
    <3>2. QED
      BY <2>7, <3>1
  <2>9. \A i \in 1..(l + 1) : i = 1 \/ i \in 2..(l + 1)
    BY ONLY <2>7
  <2>10. down'[1][1] # "stanza"
    BY <2>7
  <2>11. Stanzas(down', n, o)
    <3>1. \A i \in 1..(l + 1) : down'[i][1] = "stanza" => down'[i][2] \in (n + 1)..o
      <4>1. \A i \in 2..(l + 1) : n + (i - 1) \in (n + 1)..o
        BY ONLY <2>4, <2>7
      <4>2. QED
        BY <2>8, <2>9, <2>10, <4>1
    <3>2. \A m \in (n + 1)..o : \E i \in 1..(l + 1) : down'[i][1] = "stanza" /\ down'[i][2] = m
      <4>1. \A m \in (n + 1)..o : /\ m - n + 1 \in 2..(l + 1) /\ m - n + 1 \in 1..(l + 1)
                                  /\ n + ((m - n + 1) - 1) = m
        BY ONLY <2>4, <2>7
      <4>2. QED
        BY <2>8, <4>1
    <3>3. \A i, j \in 1..(l + 1) :
            i < j /\ down'[i][1] = "stanza" /\ down'[j][1] = "stanza" => down'[i][2] < down'[j][2]
      <4>1. \A i, j \in 2..(l + 1) : i < j => n + (i - 1) < n + (j - 1)
        BY ONLY <2>4, <2>7
      <4>2. QED
        BY <2>8, <2>9, <2>10, <4>1
    <3>4. QED
      BY <2>7, <3>1, <3>2, <3>3 DEF Stanzas
  <2>12. AcksGrow(up', n, n)
    BY <1>1, EmptySeq DEF AcksGrow
  <2>13. server'.acked = n /\ server'.out = o /\ n <= n /\ Received' = n
    BY <1>1, <2>2, <2>3, <2>4, <2>5 DEF Again, Received
  <2>14. QED
    BY <1>1, <2>3, <2>4, <2>11, <2>12, <2>13 DEF Incoming
<1>4. QED
  BY <1>2, <1>3

\* Nothing was received in the beginning.
LEMMA InitIncoming == Init => Incoming
<1> SUFFICES ASSUME Init PROVE Incoming
  OBVIOUS
<1>1. sm = "off" /\ store = NoStore /\ server = NoSession /\ got = <<>>
  BY DEF Init
<1>2. ~Resumable /\ ~server.on /\ server.out = 0
  BY <1>1 DEF Resumable, Match, NoStore, NoSession
<1>3. server.out <= MaxReceived
  BY <1>2, Bounds
<1>4. Len(got) = 0
  BY <1>1, EmptySeq
<1>5. QED
  BY <1>1, <1>2, <1>3, <1>4 DEF Incoming

\* Every step keeps the stanzas of the server in order.
LEMMA IncomingStep ==
  ASSUME MaxReceived < Modulus, Core, Core', Incoming, [Next]_vars
  PROVE  Incoming'
<1> USE DEF Core
<1>1. CASE \/ BindAnew \/ ReceiveResumeFailed \/ EnableStreamManagement \/ NotOffered \/ DidSendEnable
           \/ ReceiveNotEnabled \/ SessionExpires
  BY <1>1, NothingIncoming
<1>2. CASE Connect
  BY <1>2, ConnectIncoming
<1>3. CASE SendResume
  BY <1>3, SendResumeIncoming
<1>4. ASSUME NEW clean \in BOOLEAN, Disconnect(clean) PROVE Incoming'
  BY <1>4, DisconnectIncoming
<1>5. CASE ReceiveResumed
  BY <1>5, ReceiveResumedIncoming
<1>6. CASE ReceiveEnabled
  BY <1>6, ReceiveEnabledIncoming
<1>7. CASE ReceiveAck
  BY <1>7, ReceiveAckIncoming
<1>8. CASE ReceiveStanza
  BY <1>8, ReceiveStanzaIncoming
<1>9. CASE SendStanza \/ RequestTimerFires \/ SendAck
  BY <1>9, SentIncoming
<1>10. ASSUME NEW n \in unanswered, StanzaIdAnswered(n) PROVE Incoming'
  BY <1>10, StanzaIdAnsweredIncoming
<1>11. CASE ServerEnables
  BY <1>11, ServerEnablesIncoming
<1>12. CASE ServerResumes
  BY <1>12, ServerResumesIncoming
<1>13. CASE ServerHandles \/ ServerAcks
  BY <1>13, ServerReadsIncoming
<1>14. CASE ServerIsAcked
  BY <1>14, ServerIsAckedIncoming
<1>15. CASE ServerSends
  BY <1>15, ServerSendsIncoming
<1>16. CASE UNCHANGED vars
  <2>1. UNCHANGED <<got, lastHandledByClient, down, up, server, sm, store>>
    BY <1>16 DEF vars, history, incoming, wire
  <2>2. Resumable' => Resumable
    BY <2>1 DEF Resumable, Match
  <2>3. QED
    BY <2>1, <2>2, IncomingStays
<1>17. QED
  BY <1>1, <1>2, <1>3, <1>4, <1>5, <1>6, <1>7, <1>8, <1>9, <1>10, <1>11, <1>12, <1>13, <1>14, <1>15,
     <1>16
  DEF Next, ClientReceives, Serve

\* What was received in order was received once.
LEMMA IncomingInOrder ==
  ASSUME MaxReceived < Modulus, Core, Incoming
  PROVE  ReceivedOnce
<1>1. PICK n : n = Len(got)
  OBVIOUS
<1>2. n \in Nat /\ DOMAIN got = 1..n
  BY <1>1, ListTypes, LenProperties DEF Core, Types, HistoryType
<1>3. \A i \in DOMAIN got : got[i] = i
  BY <1>1, <1>2 DEF Incoming
<1>4. ASSUME sm = "started" PROVE lastHandledByClient = n % Modulus
  <2>1. PICK o : o = server.out
    OBVIOUS
  <2>2. o \in Nat /\ o <= MaxReceived /\ lastHandledByClient = n /\ n <= o
    BY <1>1, <1>4, <2>1, ListTypes DEF Core, Incoming
  <2>3. n < Modulus
    BY ONLY <1>2, <2>2, Bounds, MaxReceived < Modulus
  <2>4. n % Modulus = n
    BY <1>2, <2>3, Bounds
  <2>5. QED
    BY <2>2, <2>4
<1>5. QED
  BY <1>1, <1>3, <1>4 DEF ReceivedOnce

\* The stanzas of a session are received once and in order through every disconnect and
\* resumption, as long as a session has fewer of them than the counters have values: a
\* count of 32 bits cannot say more.
THEOREM ReceivedOnceHolds ==
  ASSUME MaxReceived < Modulus
  PROVE  Spec => []ReceivedOnce
<1>1. Spec => []Core
  BY CoreHolds
<1>2. Init => Incoming
  BY InitIncoming
<1>3. Core /\ Core' /\ Incoming /\ [Next]_vars => Incoming'
  BY IncomingStep
<1>4. Core /\ Incoming => ReceivedOnce
  BY IncomingInOrder
<1>5. QED
  BY <1>1, <1>2, <1>3, <1>4, PTL DEF Spec
=============================================================================
