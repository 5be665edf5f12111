----------------------------- MODULE ChatProofs -----------------------------
(***************************************************************************)
(* What the TCP chat server keeps, for every number of connections, lines   *)
(* and addresses, every capacity of the channels, and every order in which  *)
(* the broadcaster serves them.                                             *)
(***************************************************************************)
EXTENDS ChatProps, ChatHubProofs

\* A handler has broadcast no more lines than there are.
LinesOK == lines \in [Conn -> Nat] /\ \A c \in Conn : lines[c] <= MaxLines[c]

ChatInv ==
  /\ HubInv /\ QueuesOK /\ LinesOK /\ adminSent \in 0 .. MaxAdmin
  /\ peerOpen \in [Conn -> BOOLEAN]

-----------------------------------------------------------------------------
\* A line of a connection, its two notices and what the operator says are messages.
LEMMA IsMessage ==
  /\ \A c \in Conn, n \in Nat : n <= MaxLines[c] + 1 => <<c, n>> \in Message
  /\ \A n \in 1 .. MaxAdmin : <<Admin, n>> \in Message
<1>1. ASSUME NEW c \in Conn, NEW n \in Nat, n <= MaxLines[c] + 1
      PROVE  <<c, n>> \in Message
  <2>1. MaxLines[c] \in Nat
    BY TcpAssumption
  <2>2. <<c, n>> \in {c} \X (0 .. MaxLines[c] + 1)
    BY <1>1, <2>1
  <2> QED BY <2>2, TcpAssumption
<1>2. ASSUME NEW n \in 1 .. MaxAdmin
      PROVE  <<Admin, n>> \in Message
  <2>1. <<Admin, n>> \in {Admin} \X (1 .. MaxAdmin)
    OBVIOUS
  <2>2. {Admin} \X (1 .. MaxAdmin) \subseteq Message
    BY Zenon, TcpAssumption
  <2> QED BY <2>1, <2>2
<1> QED BY <1>1, <1>2

\* A connection is accepted.
LEMMA AcceptKeeps ==
  ASSUME ChatInv, NEW c \in Conn, Accept(c)
  PROVE  ChatInv'
<1>1. Arrive(c) /\ UNCHANGED <<lines, adminSent>>
  BY DEF Accept
<1>2. HubInv' /\ UNCHANGED <<clients, addChan, removeChan, bcast, sendQ>>
  BY <1>1, HubArrives DEF ChatInv
<1>3. peerOpen' \in [Conn -> BOOLEAN]
  BY <1>1 DEF Arrive, ChatInv
<1> QED BY <1>1, <1>2, <1>3 DEF ChatInv, LinesOK, QueuesOK

\* Its peer goes away, its read fails, or it is closed.
LEMMA QuietHandler ==
  ASSUME ChatInv, NEW c \in Conn,
         ReadFails(c) \/ Close(c) \/ (PeerLeaves(c) /\ UNCHANGED <<lines, adminSent>>)
  PROVE  ChatInv'
<1>1. UNCHANGED <<hubVars, lines, adminSent>> /\ UNCHANGED mapVars
  BY DEF PeerLeaves, ReadFails, Close, hubVars, history, mapVars
<1>2. HubInv'
  <2>1. CASE PeerLeaves(c)
    BY <2>1, <1>1, HubStays DEF ChatInv, PeerLeaves
  <2>2. CASE ReadFails(c)
    BY <2>2, <1>1, HubMoves DEF ChatInv, ReadFails, Goto, Places, Early, Late
  <2>3. CASE Close(c)
    BY <2>3, <1>1, HubMoves DEF ChatInv, Close, Goto, Places, Early, Late
  <2> QED BY <2>1, <2>2, <2>3
<1>3. peerOpen' \in [Conn -> BOOLEAN]
  BY DEF ChatInv, PeerLeaves, ReadFails, Close
<1> QED BY <1>1, <1>2, <1>3, QueuesSame DEF ChatInv, LinesOK

\* A connection is handed over, or its removal is asked for.
LEMMA PassingHandler ==
  ASSUME ChatInv, NEW c \in Conn, HandOver(c) \/ AskRemoval(c)
  PROVE  ChatInv'
<1>1. UNCHANGED <<peerOpen, lines, adminSent>>
  BY DEF HandOver, AskRemoval
<1>2. HubInv'
  <2>1. CASE HandOver(c)
    BY <2>1, HubIsHanded DEF ChatInv, HandOver, Goto, Places, Early, Late
  <2>2. CASE AskRemoval(c)
    BY <2>2, HubIsAsked DEF ChatInv, AskRemoval, Goto, Early, Late
  <2> QED BY <2>1, <2>2
<1>3. QueuesOK'
  BY ConnectionPut DEF ChatInv, HandOver, AskRemoval
<1> QED BY <1>1, <1>2, <1>3 DEF ChatInv, LinesOK

\* A handler broadcasts a notice or a line.
LEMMA SpeakingHandler ==
  ASSUME ChatInv, NEW c \in Conn, Welcome(c) \/ ReadLine(c) \/ Goodbye(c)
  PROVE  ChatInv'
<1>1. lines[c] \in Nat /\ MaxLines[c] \in Nat /\ lines[c] <= MaxLines[c]
  BY TcpAssumption DEF ChatInv, LinesOK
<1>2. CASE Welcome(c)
  <2>1. /\ PutMessage(<<c, 0>>) /\ <<c, 0>> \in Message
        /\ UNCHANGED <<peerOpen, lines, adminSent>>
    BY <1>1, <1>2, IsMessage DEF Welcome
  <2>2. QueuesOK' /\ UNCHANGED mapVars
    BY <2>1, MessagePut DEF ChatInv
  <2>3. HubInv'
    BY <1>2, <2>2, HubMoves DEF ChatInv, Welcome, Goto, Places, Early, Late
  <2> QED BY <2>1, <2>2, <2>3 DEF ChatInv, LinesOK
<1>3. CASE ReadLine(c)
  <2>1. /\ PutMessage(<<c, lines[c] + 1>>) /\ <<c, lines[c] + 1>> \in Message
        /\ lines' = [lines EXCEPT ![c] = @ + 1] /\ lines[c] < MaxLines[c]
        /\ UNCHANGED <<hpc, peerOpen, adminSent>>
    BY <1>1, <1>3, IsMessage DEF ReadLine
  <2>2. QueuesOK' /\ UNCHANGED mapVars
    BY <2>1, MessagePut DEF ChatInv
  <2>3. HubInv'
    BY <2>1, <2>2, HubStays DEF ChatInv
  <2>4. LinesOK'
    BY <1>1, <2>1 DEF ChatInv, LinesOK
  <2> QED BY <2>1, <2>2, <2>3, <2>4 DEF ChatInv
<1>4. CASE Goodbye(c)
  <2>1. /\ PutMessage(<<c, MaxLines[c] + 1>>) /\ <<c, MaxLines[c] + 1>> \in Message
        /\ UNCHANGED <<peerOpen, lines, adminSent>>
    BY <1>1, <1>4, IsMessage DEF Goodbye
  <2>2. QueuesOK' /\ UNCHANGED mapVars
    BY <2>1, MessagePut DEF ChatInv
  <2>3. HubInv'
    BY <1>4, <2>2, HubMoves DEF ChatInv, Goodbye, Goto, Places, Early, Late
  <2> QED BY <2>1, <2>2, <2>3 DEF ChatInv, LinesOK
<1> QED BY <1>2, <1>3, <1>4

\* So does the operator.
LEMMA OperatorSpeaks ==
  ASSUME ChatInv, BroadcastMessage
  PROVE  ChatInv'
<1>1. /\ adminSent < MaxAdmin /\ adminSent' = adminSent + 1
      /\ PutMessage(<<Admin, adminSent + 1>>) /\ UNCHANGED <<hpc, peerOpen, lines>>
  BY DEF BroadcastMessage
<1>2. adminSent' \in 1 .. MaxAdmin
  BY <1>1, TcpAssumption DEF ChatInv
<1>3. <<Admin, adminSent + 1>> \in Message
  BY <1>1, <1>2, IsMessage
<1>4. QueuesOK' /\ UNCHANGED mapVars
  BY <1>1, <1>3, MessagePut DEF ChatInv
<1>5. HubInv'
  BY <1>1, <1>4, HubStays DEF ChatInv
<1> QED BY <1>1, <1>2, <1>4, <1>5 DEF ChatInv, LinesOK

LEMMA BroadcasterKeeps ==
  ASSUME ChatInv, Broadcaster, UNCHANGED tcpVars
  PROVE  ChatInv'
BY BroadcasterServes DEF ChatInv, LinesOK, tcpVars

\* At the start nobody is there and nothing is said.
LEMMA ChatStarts == Init => ChatInv
<1> SUFFICES ASSUME Init
             PROVE  ChatInv
  OBVIOUS
<1>1. HubInv
  BY HubStarts DEF Init
<1>2. QueuesOK
  BY QueuesStart DEF Init
<1>3. LinesOK /\ adminSent \in 0 .. MaxAdmin /\ peerOpen \in [Conn -> BOOLEAN]
  BY TcpAssumption DEF Init, HubInit, LinesOK
<1> QED BY <1>1, <1>2, <1>3 DEF ChatInv

\* All of this holds whatever happens next.
LEMMA NextKeepsChat ==
  ASSUME ChatInv, [Next]_vars
  PROVE  ChatInv'
<1>1. CASE \E c \in Conn : Accept(c) \/ Handler(c)
  BY <1>1, AcceptKeeps, QuietHandler, PassingHandler, SpeakingHandler DEF Handler
<1>2. CASE \E c \in Conn : PeerLeaves(c) /\ UNCHANGED <<lines, adminSent>>
  BY <1>2, QuietHandler
<1>3. CASE UNCHANGED vars
  BY <1>3, HubStays, QueuesSame
  DEF vars, hubVars, history, tcpVars, mapVars, ChatInv, LinesOK
<1> QED BY <1>1, <1>2, <1>3, OperatorSpeaks, BroadcasterKeeps DEF Next

\* The client map tells the truth, whenever peers reset a connection and come
\* back with its address: who is registered has its handler present, unless its
\* removal overtook its registration; whose handler is present is registered,
\* unless it met another connection of its address (broadcaster 143-153,
\* handleClient 98-101, acceptConnections 73-92).
THEOREM ClientMapIsTruthful == Spec => []MapIsTruthful
<1>1. ASSUME ChatInv, [Next]_vars
      PROVE  ChatInv'
  BY <1>1, NextKeepsChat
<1>2. ChatInv => MapIsTruthful
  <2> SUFFICES ASSUME ChatInv
               PROVE  MapIsTruthful
    OBVIOUS
  <2>1. hpc \in [Conn -> Places] /\ \A c \in Conn : lines[c] \in 0 .. MaxLines[c]
    BY TcpAssumption DEF ChatInv, LinesOK, HubInv, Typed
  <2>2. TypeOK
    BY <2>1 DEF ChatInv, HubInv, Typed, QueuesOK, TypeOK, Places
  <2> QED BY <2>2 DEF ChatInv, HubInv, MapIsTruthful
<1> QED BY <1>1, <1>2, ChatStarts, PTL DEF Spec

-----------------------------------------------------------------------------
(* The order of the messages.                                               *)

\* The number that a sender's next message has, at least.
Sender == Conn \cup {Admin}
NextNo == [s \in Sender |->
  IF s = Admin THEN adminSent + 1
  ELSE IF hpc[s] \in {"new", "accepted", "welcome"} THEN 0
  ELSE IF hpc[s] \in {"reading", "leaving"} THEN lines[s] + 1
  ELSE MaxLines[s] + 2]

\* Message m may come before n: if they are of one sender, it was sent before.
Earlier(m, n) == m[1] = n[1] => m[2] < n[2]
Ordered(q) == \A i, j \in 1 .. Len(q) : i < j => Earlier(q[i], q[j])

\* Every Send channel and behind it Broadcast are in order, and all of it is
\* earlier than what its sender will send.
OrderInv ==
  /\ Ordered(bcast)
  /\ \A i \in 1 .. Len(bcast) : bcast[i][2] < NextNo[bcast[i][1]]
  /\ \A c \in Conn :
       /\ Ordered(sendQ[c])
       /\ \A i \in 1 .. Len(sendQ[c]) : sendQ[c][i][2] < NextNo[sendQ[c][i][1]]
       /\ \A i \in 1 .. Len(sendQ[c]), j \in 1 .. Len(bcast) : Earlier(sendQ[c][i], bcast[j])

\* Who sent a message, and its number.
LEMMA MessageParts ==
  ASSUME NEW m \in Message
  PROVE  m[1] \in Sender /\ m[2] \in Nat
<1>1. CASE m \in UNION {{c} \X (0 .. MaxLines[c] + 1) : c \in Conn}
  <2>1. PICK c \in Conn : m \in {c} \X (0 .. MaxLines[c] + 1)
    BY <1>1
  <2> QED BY <2>1, TcpAssumption DEF Sender
<1>2. CASE m \in {Admin} \X (1 .. MaxAdmin)
  BY <1>2, TcpAssumption DEF Sender
<1> QED BY <1>1, <1>2, Zenon, TcpAssumption

\* The next message has a number.
LEMMA NextNoType ==
  ASSUME ChatInv, NEW s \in Sender
  PROVE  NextNo[s] \in Nat
BY TcpAssumption DEF ChatInv, LinesOK, NextNo, Sender

\* A queue in order stays so when a later message is put at its end.
LEMMA OrderedPut ==
  ASSUME NEW q \in Seq(Message), NEW m \in Message, Ordered(q),
         \A i \in 1 .. Len(q) : Earlier(q[i], m)
  PROVE  Ordered(Append(q, m))
<1>1. /\ Len(Append(q, m)) = Len(q) + 1 /\ Append(q, m)[Len(q) + 1] = m
      /\ \A i \in 1 .. Len(q) : Append(q, m)[i] = q[i]
      /\ Len(q) \in Nat
  BY AppendProperties, LenProperties
<1> QED BY <1>1 DEF Ordered

\* Somebody broadcasts the next message: it is later than all there is.
LEMMA SpeakInOrder ==
  ASSUME ChatInv, OrderInv, NEW m \in Message, PutMessage(m),
         NextNo[m[1]] <= m[2], m[2] < NextNo'[m[1]],
         \A s \in Sender : NextNo'[s] \in Nat /\ NextNo[s] <= NextNo'[s]
  PROVE  OrderInv'
<1>1. /\ bcast \in Seq(Message) /\ bcast' = Append(bcast, m) /\ sendQ' = sendQ
      /\ sendQ \in [Conn -> Seq(Message)]
  BY DEF PutMessage, Queued, ChatInv, QueuesOK
<1>2. /\ Len(bcast') = Len(bcast) + 1 /\ bcast'[Len(bcast) + 1] = m /\ Len(bcast) \in Nat
      /\ \A i \in 1 .. Len(bcast) : bcast'[i] = bcast[i]
  BY <1>1, AppendProperties, LenProperties
<1>3. /\ \A i \in 1 .. Len(bcast) : bcast[i] \in Message
      /\ \A c \in Conn : \A i \in 1 .. Len(sendQ[c]) : sendQ[c][i] \in Message
  BY <1>1, ElementOfSeq
<1>4. ASSUME NEW n \in Message, n[2] < NextNo[n[1]]
      PROVE  Earlier(n, m) /\ n[2] < NextNo'[n[1]]
  <2>1. n[1] \in Sender /\ n[2] \in Nat /\ m[1] \in Sender /\ m[2] \in Nat
    BY MessageParts
  <2>2. NextNo[n[1]] \in Nat /\ NextNo'[n[1]] \in Nat /\ NextNo[n[1]] <= NextNo'[n[1]]
    BY <2>1, NextNoType
  <2>3. n[2] < NextNo'[n[1]]
    BY <1>4, <2>1, <2>2
  <2>4. Earlier(n, m)
    BY <1>4, <2>1, <2>2 DEF Earlier
  <2> QED BY <2>3, <2>4
<1>5. Ordered(bcast')
  BY <1>1, <1>3, <1>4, OrderedPut DEF OrderInv
<1>6. ASSUME NEW i \in 1 .. Len(bcast')
      PROVE  bcast'[i][2] < NextNo'[bcast'[i][1]]
  <2>1. CASE i \in 1 .. Len(bcast)
    BY <2>1, <1>2, <1>3, <1>4 DEF OrderInv
  <2>2. CASE i = Len(bcast) + 1
    BY <2>2, <1>2
  <2> QED BY <2>1, <2>2, <1>2
<1>7. ASSUME NEW c \in Conn, NEW i \in 1 .. Len(sendQ[c])
      PROVE  /\ sendQ[c][i][2] < NextNo'[sendQ[c][i][1]]
             /\ \A j \in 1 .. Len(bcast') : Earlier(sendQ[c][i], bcast'[j])
  <2>1. sendQ[c][i][2] < NextNo'[sendQ[c][i][1]] /\ Earlier(sendQ[c][i], m)
    BY <1>3, <1>4 DEF OrderInv
  <2>2. ASSUME NEW j \in 1 .. Len(bcast')
        PROVE  Earlier(sendQ[c][i], bcast'[j])
    BY <2>1, <1>2 DEF OrderInv
  <2> QED BY <2>1, <2>2
<1>8. Ordered(bcast)' /\ \A c \in Conn : Ordered(sendQ[c])'
  BY <1>1, <1>5 DEF OrderInv, Ordered, Earlier
<1> QED BY <1>1, <1>6, <1>7, <1>8 DEF OrderInv, Earlier

\* Nothing is put or taken, and no sender goes back.
LEMMA SilentInOrder ==
  ASSUME ChatInv, OrderInv, UNCHANGED <<bcast, sendQ>>,
         \A s \in Sender : NextNo'[s] \in Nat /\ NextNo[s] <= NextNo'[s]
  PROVE  OrderInv'
<1>1. ASSUME NEW n \in Message, n[2] < NextNo[n[1]]
      PROVE  n[2] < NextNo'[n[1]]
  <2>1. n[1] \in Sender /\ n[2] \in Nat /\ NextNo[n[1]] \in Nat
    BY MessageParts, NextNoType
  <2> QED BY <1>1, <2>1
<1>2. /\ \A i \in 1 .. Len(bcast) : bcast[i] \in Message
      /\ \A c \in Conn : \A i \in 1 .. Len(sendQ[c]) : sendQ[c][i] \in Message
  BY ElementOfSeq DEF ChatInv, QueuesOK
<1>3. \A i \in 1 .. Len(bcast) : bcast[i][2] < NextNo'[bcast[i][1]]
  BY <1>1, <1>2 DEF OrderInv
<1>4. \A c \in Conn : \A i \in 1 .. Len(sendQ[c]) : sendQ[c][i][2] < NextNo'[sendQ[c][i][1]]
  BY <1>1, <1>2 DEF OrderInv
<1> QED BY <1>3, <1>4 DEF OrderInv, Ordered, Earlier

\* The broadcaster hands the first message on, or it is skipped.
LEMMA BroadcastInOrder ==
  ASSUME ChatInv, OrderInv, Broadcast, UNCHANGED tcpVars
  PROVE  OrderInv'
<1> PICK h : h = Head(bcast)
  OBVIOUS
<1>1. /\ bcast # <<>> /\ bcast' = Tail(bcast) /\ bcast \in Seq(Message)
      /\ sendQ' = [c \in Conn |-> IF c \in Registered /\ SendRoom(c)
                                    THEN Append(sendQ[c], h) ELSE sendQ[c]]
      /\ sendQ \in [Conn -> Seq(Message)]
  BY DEF Broadcast, Remaining, Rest, ChatInv, QueuesOK
<1>2. /\ h \in Message /\ h = bcast[1] /\ Len(bcast) \in Nat \ {0}
      /\ Len(bcast') = Len(bcast) - 1
      /\ \A i \in 1 .. Len(bcast) - 1 : bcast'[i] = bcast[i + 1]
  BY <1>1, HeadTailProperties, EmptySeq, LenProperties
<1>3. NextNo' = NextNo
  BY DEF NextNo, tcpVars
<1>4. Ordered(bcast')
  BY <1>2 DEF OrderInv, Ordered
<1>5. \A i \in 1 .. Len(bcast') : bcast'[i][2] < NextNo'[bcast'[i][1]]
  BY <1>2, <1>3 DEF OrderInv
<1>6. ASSUME NEW c \in Conn
      PROVE  /\ Ordered(sendQ'[c])
             /\ \A i \in 1 .. Len(sendQ'[c]) : sendQ'[c][i][2] < NextNo'[sendQ'[c][i][1]]
             /\ \A i \in 1 .. Len(sendQ'[c]), j \in 1 .. Len(bcast') :
                  Earlier(sendQ'[c][i], bcast'[j])
  <2>1. \A i \in 1 .. Len(sendQ[c]) : Earlier(sendQ[c][i], h)
    BY <1>2 DEF OrderInv
  <2>2. \A j \in 1 .. Len(bcast') : Earlier(h, bcast'[j])
    BY <1>2 DEF OrderInv, Ordered
  <2>3. CASE sendQ'[c] = Append(sendQ[c], h)
    <3>1. /\ Len(sendQ'[c]) = Len(sendQ[c]) + 1 /\ sendQ'[c][Len(sendQ[c]) + 1] = h
          /\ \A i \in 1 .. Len(sendQ[c]) : sendQ'[c][i] = sendQ[c][i]
          /\ Len(sendQ[c]) \in Nat
      BY <2>3, <1>1, <1>2, AppendProperties, LenProperties
    <3>2. Ordered(sendQ'[c])
      BY <2>3, <2>1, <1>1, <1>2, OrderedPut DEF OrderInv
    <3>3. ASSUME NEW i \in 1 .. Len(sendQ'[c])
          PROVE  /\ sendQ'[c][i][2] < NextNo'[sendQ'[c][i][1]]
                 /\ \A j \in 1 .. Len(bcast') : Earlier(sendQ'[c][i], bcast'[j])
      <4>1. CASE i \in 1 .. Len(sendQ[c])
        <5>1. sendQ'[c][i] = sendQ[c][i]
          BY <3>1, <4>1
        <5>2. sendQ[c][i][2] < NextNo[sendQ[c][i][1]]
          BY <4>1 DEF OrderInv
        <5>3. \A j \in 1 .. Len(bcast') : Earlier(sendQ[c][i], bcast'[j])
          BY <4>1, <1>2 DEF OrderInv
        <5> QED BY <5>1, <5>2, <5>3, <1>3
      <4>2. CASE i = Len(sendQ[c]) + 1
        <5>1. sendQ'[c][i] = h
          BY <3>1, <4>2
        <5>2. h[2] < NextNo[h[1]]
          BY <1>2 DEF OrderInv
        <5> QED BY <5>1, <5>2, <2>2, <1>3
      <4> QED BY <4>1, <4>2, <3>1
    <3> QED BY <3>2, <3>3
  <2>4. CASE sendQ'[c] = sendQ[c]
    <3>1. Ordered(sendQ'[c])
      BY <2>4 DEF OrderInv
    <3>2. ASSUME NEW i \in 1 .. Len(sendQ[c]), NEW j \in 1 .. Len(bcast')
          PROVE  Earlier(sendQ[c][i], bcast'[j])
      BY <1>2 DEF OrderInv
    <3>3. \A i \in 1 .. Len(sendQ[c]) : sendQ[c][i][2] < NextNo'[sendQ[c][i][1]]
      BY <1>3 DEF OrderInv
    <3> QED BY <2>4, <3>1, <3>2, <3>3
  <2>5. sendQ'[c] = Append(sendQ[c], h) \/ sendQ'[c] = sendQ[c]
    BY <1>1
  <2> QED BY <2>3, <2>4, <2>5
<1>7. Ordered(bcast)' /\ \A c \in Conn : Ordered(sendQ[c])'
  BY <1>4, <1>6 DEF Ordered, Earlier
<1> QED BY <1>5, <1>6, <1>7 DEF OrderInv, Earlier

\* A handler takes a step: its numbers go up, and what it sends has the next one.
LEMMA HandlerInOrder ==
  ASSUME ChatInv, OrderInv, NEW c \in Conn, Accept(c) \/ Handler(c)
  PROVE  OrderInv'
<1>1. /\ hpc \in [Conn -> Places] /\ lines \in [Conn -> Nat] /\ MaxLines[c] \in Nat
      /\ lines[c] <= MaxLines[c] /\ adminSent \in Nat /\ Admin \notin Conn
      /\ \A d \in Conn : MaxLines[d] \in Nat
  BY TcpAssumption DEF ChatInv, LinesOK, HubInv, Typed
<1>2. ASSUME \A d \in Conn : d # c => hpc'[d] = hpc[d] /\ lines'[d] = lines[d],
             adminSent' = adminSent, NextNo'[c] \in Nat, NextNo[c] <= NextNo'[c]
      PROVE  \A s \in Sender : NextNo'[s] \in Nat /\ NextNo[s] <= NextNo'[s]
  BY <1>1, <1>2 DEF Sender, NextNo
<1>3. CASE Accept(c) \/ ReadFails(c) \/ HandOver(c) \/ AskRemoval(c) \/ Close(c)
  <2>1. UNCHANGED <<bcast, sendQ, lines, adminSent>>
    BY <1>3 DEF Accept, Arrive, ReadFails, HandOver, AskRemoval, Close, hubVars, PutAdd, PutRemove
  <2>2. /\ \A d \in Conn : d # c => hpc'[d] = hpc[d]
        /\ \/ hpc[c] = "new" /\ hpc'[c] = "accepted"
           \/ hpc[c] = "accepted" /\ hpc'[c] = "welcome"
           \/ hpc[c] = "reading" /\ hpc'[c] = "leaving"
           \/ hpc[c] = "removing" /\ hpc'[c] = "closing"
           \/ hpc[c] = "closing" /\ hpc'[c] = "closed"
    BY <1>1, <1>3 DEF Accept, Arrive, ReadFails, HandOver, AskRemoval, Close, Goto
  <2>3. NextNo'[c] = NextNo[c] /\ NextNo[c] \in Nat
    BY <1>1, <2>1, <2>2 DEF NextNo, Sender
  <2> QED BY <1>2, <2>1, <2>2, <2>3, SilentInOrder
<1>4. CASE Welcome(c)
  <2>1. /\ PutMessage(<<c, 0>>) /\ hpc[c] = "welcome" /\ hpc'[c] = "reading"
        /\ UNCHANGED <<lines, adminSent>> /\ \A d \in Conn : d # c => hpc'[d] = hpc[d]
    BY <1>1, <1>4 DEF Welcome, Goto
  <2>2. NextNo[c] = 0 /\ NextNo'[c] = lines[c] + 1 /\ lines[c] \in Nat
    BY <1>1, <2>1 DEF NextNo, Sender
  <2>3. <<c, 0>> \in Message
    BY <1>1, IsMessage
  <2> QED BY <1>2, <2>1, <2>2, <2>3, SpeakInOrder
<1>5. CASE ReadLine(c)
  <2>1. /\ PutMessage(<<c, lines[c] + 1>>) /\ hpc[c] = "reading" /\ lines[c] < MaxLines[c]
        /\ UNCHANGED <<hpc, adminSent>> /\ lines'[c] = lines[c] + 1
        /\ \A d \in Conn : d # c => lines'[d] = lines[d]
    BY <1>1, <1>5 DEF ReadLine
  <2>2. NextNo[c] = lines[c] + 1 /\ NextNo'[c] = lines[c] + 2 /\ lines[c] \in Nat
    BY <1>1, <2>1 DEF NextNo, Sender
  <2>3. <<c, lines[c] + 1>> \in Message
    BY <1>1, <2>1, <2>2, IsMessage
  <2> QED BY <1>2, <2>1, <2>2, <2>3, SpeakInOrder
<1>6. CASE Goodbye(c)
  <2>1. /\ PutMessage(<<c, MaxLines[c] + 1>>) /\ hpc[c] = "leaving" /\ hpc'[c] = "removing"
        /\ UNCHANGED <<lines, adminSent>> /\ \A d \in Conn : d # c => hpc'[d] = hpc[d]
    BY <1>1, <1>6 DEF Goodbye, Goto
  <2>2. NextNo[c] = lines[c] + 1 /\ NextNo'[c] = MaxLines[c] + 2 /\ lines[c] \in Nat
    BY <1>1, <2>1 DEF NextNo, Sender
  <2>3. <<c, MaxLines[c] + 1>> \in Message
    BY <1>1, IsMessage
  <2> QED BY <1>1, <1>2, <2>1, <2>2, <2>3, SpeakInOrder
<1> QED BY <1>3, <1>4, <1>5, <1>6 DEF Handler

\* The messages of one sender arrive in the order it sent them, none twice, and
\* nothing of a sender follows its goodbye (handleClient 103-136).
THEOREM SendersKeepOrder == Spec => []SenderOrder
<1>1. Init => ChatInv /\ OrderInv
  BY ChatStarts DEF Init, HubInit, OrderInv, Ordered
<1>2. ASSUME ChatInv, OrderInv, [Next]_vars
      PROVE  OrderInv'
  <2>1. CASE BroadcastMessage
    <3>1. /\ adminSent < MaxAdmin /\ adminSent' = adminSent + 1
          /\ PutMessage(<<Admin, adminSent + 1>>) /\ UNCHANGED <<hpc, lines>>
          /\ adminSent \in Nat /\ adminSent + 1 \in 1 .. MaxAdmin
      BY <1>2, <2>1, TcpAssumption DEF BroadcastMessage, ChatInv
    <3>2. NextNo[Admin] = adminSent + 1 /\ NextNo'[Admin] = adminSent + 2
      BY <3>1 DEF NextNo, Sender
    <3>3. \A s \in Sender : NextNo'[s] \in Nat /\ NextNo[s] <= NextNo'[s]
      <4>1. \A s \in Conn : NextNo'[s] = NextNo[s]
        BY <3>1, TcpAssumption DEF NextNo, Sender
      <4>2. \A s \in Sender : NextNo[s] \in Nat
        BY <1>2, NextNoType
      <4> QED BY <4>1, <4>2, <3>1, <3>2 DEF Sender
    <3>4. <<Admin, adminSent + 1>> \in Message
      BY <3>1, IsMessage
    <3> QED BY <1>2, <3>1, <3>2, <3>3, <3>4, SpeakInOrder
  <2>2. CASE UNCHANGED <<bcast, sendQ, hpc, lines, adminSent>>
    <3>1. NextNo' = NextNo
      BY <2>2 DEF NextNo
    <3>2. \A s \in Sender : NextNo[s] \in Nat /\ NextNo[s] <= NextNo[s]
      BY <1>2, NextNoType
    <3> QED BY <1>2, <2>2, <3>1, <3>2, SilentInOrder
  <2>3. CASE Broadcaster /\ UNCHANGED tcpVars
    <3>1. Register \/ Unregister => UNCHANGED <<bcast, sendQ>>
      BY DEF Register, Unregister
    <3> QED BY <1>2, <2>2, <2>3, <3>1, BroadcastInOrder DEF Broadcaster, tcpVars
  <2>4. CASE \E c \in Conn : PeerLeaves(c) /\ UNCHANGED <<lines, adminSent>>
    BY <2>2, <2>4 DEF PeerLeaves, hubVars
  <2>5. CASE UNCHANGED vars
    BY <2>2, <2>5 DEF vars, hubVars, tcpVars
  <2> QED BY <1>2, <2>1, <2>3, <2>4, <2>5, HandlerInOrder DEF Next
<1>3. OrderInv => SenderOrder
  BY DEF OrderInv, SenderOrder, Ordered, Earlier
<1>4. ASSUME ChatInv, [Next]_vars
      PROVE  ChatInv'
  BY <1>4, NextKeepsChat
<1> QED BY <1>1, <1>2, <1>3, <1>4, PTL DEF Spec
=============================================================================
