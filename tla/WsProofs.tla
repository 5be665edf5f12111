------------------------------ MODULE WsProofs ------------------------------
(***************************************************************************)
(* What the WebSocket chat server keeps, for every number of browsers,      *)
(* messages and addresses, every capacity of the channels, and whenever     *)
(* browsers go away.                                                        *)
(***************************************************************************)
EXTENDS WsProps, ChatHubProofs

WsPlaces == {"new", "accepted", "reading", "removing", "closing", "closed"}

\* The types of what the WebSocket side adds.
Talk ==
  /\ hpc \in [Conn -> WsPlaces] /\ peerOpen \in [Conn -> BOOLEAN]
  /\ said \in [Conn -> Nat] /\ \A c \in Conn : said[c] <= MaxSaid[c]
  /\ adminSent \in 0 .. MaxAdmin
Writers ==
  /\ wpc \in [Conn -> {"none", "running", "gone"}]
  /\ writing \in [Conn -> Seq(Message)] /\ received \in [Conn -> Seq(Message)]
  /\ \A c \in Conn : Len(writing[c]) <= IF wpc[c] = "running" THEN 1 ELSE 0
WsInv == HubInv /\ QueuesOK /\ Talk /\ Writers

talkVars  == <<peerOpen, said, adminSent>>
writeVars == <<wpc, writing, received>>

-----------------------------------------------------------------------------
(* The map of the clients.                                                  *)

\* What a browser or the operator says is a message.
LEMMA IsMessage ==
  /\ \A c \in Conn, n \in Nat : 1 <= n /\ n <= MaxSaid[c] => <<c, n>> \in Message
  /\ \A n \in 1 .. MaxAdmin : <<Admin, n>> \in Message
<1>1. ASSUME NEW c \in Conn, NEW n \in Nat, 1 <= n, n <= MaxSaid[c]
      PROVE  <<c, n>> \in Message
  <2>1. MaxSaid[c] \in Nat
    BY WsAssumption
  <2>2. <<c, n>> \in {c} \X (1 .. MaxSaid[c])
    BY <1>1, <2>1
  <2> QED BY <2>2, WsAssumption
<1>2. ASSUME NEW n \in 1 .. MaxAdmin
      PROVE  <<Admin, n>> \in Message
  <2>1. <<Admin, n>> \in {Admin} \X (1 .. MaxAdmin)
    OBVIOUS
  <2>2. {Admin} \X (1 .. MaxAdmin) \subseteq Message
    BY Zenon, WsAssumption
  <2> QED BY <2>1, <2>2
<1> QED BY <1>1, <1>2

\* At the start nobody is there and nothing is said.
LEMMA WsStarts == Init => WsInv
<1> SUFFICES ASSUME Init
             PROVE  WsInv
  OBVIOUS
<1>1. HubInv /\ QueuesOK
  BY HubStarts, QueuesStart DEF Init
<1>2. hpc = [c \in Conn |-> "new"] /\ peerOpen = [c \in Conn |-> FALSE]
  BY DEF Init, HubInit
<1>3. Talk
  BY <1>2, WsAssumption DEF Init, Talk, WsPlaces
<1>4. Writers
  BY EmptySeq DEF Init, Writers
<1> QED BY <1>1, <1>3, <1>4 DEF WsInv

\* A connection is upgraded.
LEMMA UpgradeKeeps ==
  ASSUME WsInv, NEW c \in Conn, Upgrade(c)
  PROVE  WsInv'
<1>1. Arrive(c) /\ UNCHANGED <<said, adminSent, writeVars>>
  BY DEF Upgrade, writeVars
<1>2. HubInv' /\ UNCHANGED <<clients, addChan, removeChan, bcast, sendQ>>
  BY <1>1, HubArrives DEF WsInv
<1>3. Talk'
  BY <1>1 DEF Arrive, Goto, WsInv, Talk, WsPlaces
<1> QED BY <1>1, <1>2, <1>3 DEF WsInv, Writers, QueuesOK, writeVars

\* A browser goes away, its reader fails or closes: the map and its channels stay
\* as they are.
LEMMA QuietReader ==
  ASSUME WsInv, NEW c \in Conn, BrowserLeaves(c) \/ ReadFails(c) \/ Close(c)
  PROVE  WsInv'
<1>1. UNCHANGED <<hubVars, said, adminSent, writeVars>> /\ UNCHANGED mapVars
  BY DEF BrowserLeaves, PeerLeaves, ReadFails, Close, hubVars, history, mapVars, writeVars
<1>2. HubInv'
  <2>1. CASE BrowserLeaves(c)
    BY <2>1, <1>1, HubStays DEF WsInv, BrowserLeaves, PeerLeaves
  <2>2. CASE ReadFails(c)
    BY <2>2, <1>1, HubMoves DEF WsInv, ReadFails, Goto, Places, Early, Late
  <2>3. CASE Close(c)
    BY <2>3, <1>1, HubMoves DEF WsInv, Close, Goto, Places, Early, Late
  <2> QED BY <2>1, <2>2, <2>3
<1>3. Talk'
  BY <1>1 DEF WsInv, Talk, WsPlaces, BrowserLeaves, PeerLeaves, ReadFails, Close, Goto
<1> QED BY <1>1, <1>2, <1>3, QueuesSame DEF WsInv, Writers, writeVars

\* A connection is handed over and gets its writer, or its removal is asked for.
LEMMA PassingReader ==
  ASSUME WsInv, NEW c \in Conn, HandOver(c) \/ AskRemoval(c)
  PROVE  WsInv'
<1>1. UNCHANGED <<writing, received>>
  BY DEF HandOver, AskRemoval
<1>2. HubInv'
  <2>1. CASE HandOver(c)
    BY <2>1, HubIsHanded DEF WsInv, HandOver, Goto, Places, Early, Late
  <2>2. CASE AskRemoval(c)
    BY <2>2, HubIsAsked DEF WsInv, AskRemoval, Goto, Early, Late
  <2> QED BY <2>1, <2>2
<1>3. QueuesOK'
  BY ConnectionPut DEF WsInv, HandOver, AskRemoval
<1>4. Talk'
  BY DEF WsInv, Talk, WsPlaces, HandOver, AskRemoval, Goto
<1>5. Writers'
  <2>1. \A d \in Conn : Len(writing[d]) \in Nat
    BY LenProperties DEF WsInv, Writers
  <2>2. wpc' = wpc \/ wpc' = [wpc EXCEPT ![c] = "running"]
    BY Zenon DEF HandOver, AskRemoval
  <2>3. ASSUME NEW d \in Conn
        PROVE  Len(writing[d]) <= IF wpc'[d] = "running" THEN 1 ELSE 0
    <3>1. Len(writing[d]) <= IF wpc[d] = "running" THEN 1 ELSE 0
      BY DEF WsInv, Writers
    <3>2. wpc'[d] = wpc[d] \/ wpc'[d] = "running"
      BY <2>2 DEF WsInv, Writers
    <3> QED BY <3>1, <3>2, <2>1
  <2>4. wpc' \in [Conn -> {"none", "running", "gone"}]
    BY <2>2 DEF WsInv, Writers
  <2> QED BY <1>1, <2>3, <2>4 DEF WsInv, Writers
<1> QED BY <1>2, <1>3, <1>4, <1>5 DEF WsInv

\* A browser or the operator says something.
LEMMA MessageSaid ==
  ASSUME WsInv, (\E c \in Conn : ReadMessage(c)) \/ BroadcastToWebSocket
  PROVE  WsInv'
<1>1. UNCHANGED <<hpc, peerOpen, writeVars>>
  BY DEF ReadMessage, BroadcastToWebSocket, writeVars
<1>2. CASE \E c \in Conn : ReadMessage(c)
  <2> PICK c \in Conn : ReadMessage(c)
    BY <1>2
  <2>1. /\ PutMessage(<<c, said[c] + 1>>) /\ said[c] < MaxSaid[c] /\ said[c] \in Nat
        /\ said' = [said EXCEPT ![c] = @ + 1] /\ adminSent' = adminSent
        /\ MaxSaid[c] \in Nat
    BY WsAssumption DEF ReadMessage, WsInv, Talk
  <2>2. <<c, said[c] + 1>> \in Message
    BY <2>1, IsMessage
  <2>3. QueuesOK' /\ UNCHANGED mapVars
    BY <2>1, <2>2, MessagePut DEF WsInv
  <2>4. Talk'
    BY <1>1, <2>1 DEF WsInv, Talk
  <2> QED BY <1>1, <2>3, <2>4, HubStays DEF WsInv, Writers, writeVars
<1>3. CASE BroadcastToWebSocket
  <2>1. /\ adminSent < MaxAdmin /\ adminSent' = adminSent + 1 /\ said' = said
        /\ PutMessage(<<Admin, adminSent + 1>>) \/ UNCHANGED hubVars
    BY <1>3 DEF BroadcastToWebSocket
  <2>2. adminSent' \in 0 .. MaxAdmin /\ <<Admin, adminSent + 1>> \in Message
    BY <2>1, IsMessage, WsAssumption DEF WsInv, Talk
  <2>3. QueuesOK' /\ UNCHANGED mapVars
    BY <2>1, <2>2, MessagePut, QueuesSame DEF WsInv, hubVars, history, mapVars
  <2>4. Talk'
    BY <1>1, <2>1, <2>2 DEF WsInv, Talk
  <2> QED BY <1>1, <2>3, <2>4, HubStays DEF WsInv, Writers, writeVars
<1> QED BY <1>2, <1>3

\* A writer takes a message, writes it or loses it.
LEMMA WriterKeeps ==
  ASSUME WsInv, NEW c \in Conn, Writer(c)
  PROVE  WsInv'
<1>1. UNCHANGED <<mapVars, hpc, talkVars, bcast>>
  BY DEF Writer, WriterTakes, WriterWrites, WriterLoses, hubVars, history, mapVars, talkVars
<1>2. /\ sendQ \in [Conn -> Seq(Message)] /\ writing \in [Conn -> Seq(Message)]
      /\ received \in [Conn -> Seq(Message)]
      /\ \A d \in Conn : Len(sendQ[d]) <= SendCap
  BY DEF WsInv, QueuesOK, Writers
<1>3. QueuesOK'
  <2>1. CASE WriterTakes(c)
    <3>1. sendQ[c] # <<>> /\ sendQ' = [sendQ EXCEPT ![c] = Tail(@)]
      BY <2>1 DEF WriterTakes
    <3>2. /\ Tail(sendQ[c]) \in Seq(Message) /\ Len(Tail(sendQ[c])) = Len(sendQ[c]) - 1
          /\ Len(sendQ[c]) \in Nat
      BY <1>2, <3>1, HeadTailProperties, LenProperties
    <3>3. sendQ' \in [Conn -> Seq(Message)] /\ \A d \in Conn : Len(sendQ'[d]) <= SendCap
      BY <1>2, <3>1, <3>2, CapAssumption
    <3> QED BY <1>1, <3>3 DEF WsInv, QueuesOK, mapVars
  <2>2. CASE WriterWrites(c) \/ WriterLoses(c)
    BY <2>2, QueuesSame DEF WsInv, WriterWrites, WriterLoses
  <2> QED BY <2>1, <2>2 DEF Writer
<1>4. Writers'
  <2>1. CASE WriterTakes(c)
    <3>1. /\ wpc[c] = "running" /\ sendQ[c] # <<>>
          /\ writing' = [writing EXCEPT ![c] = <<Head(sendQ[c])>>]
          /\ UNCHANGED <<wpc, received>>
      BY <2>1 DEF WriterTakes
    <3>2. <<Head(sendQ[c])>> \in Seq(Message) /\ Len(<<Head(sendQ[c])>>) = 1
      BY <1>2, <3>1, HeadTailProperties
    <3> QED BY <3>1, <3>2 DEF WsInv, Writers
  <2>2. CASE WriterWrites(c)
    <3>1. /\ received' = [received EXCEPT ![c] = @ \o writing[c]]
          /\ writing' = [writing EXCEPT ![c] = <<>>] /\ wpc' = wpc
      BY <2>2 DEF WriterWrites
    <3>2. received[c] \o writing[c] \in Seq(Message)
      BY <1>2, ConcatProperties
    <3> QED BY <3>1, <3>2, EmptySeq DEF WsInv, Writers
  <2>3. CASE WriterLoses(c)
    <3>1. /\ writing' = [writing EXCEPT ![c] = <<>>] /\ received' = received
          /\ wpc' = wpc \/ wpc' = [wpc EXCEPT ![c] = "gone"]
      BY <2>3 DEF WriterLoses
    <3>2. \A d \in Conn : Len(writing'[d]) <= IF wpc'[d] = "running" THEN 1 ELSE 0
      BY <3>1, EmptySeq DEF WsInv, Writers
    <3> QED BY <3>1, <3>2, EmptySeq DEF WsInv, Writers
  <2> QED BY <2>1, <2>2, <2>3 DEF Writer
<1>5. HubInv' /\ Talk'
  BY <1>1, HubStays DEF WsInv, Talk, talkVars
<1> QED BY <1>3, <1>4, <1>5 DEF WsInv

\* All of this holds whatever happens next.
LEMMA NextKeepsWs ==
  ASSUME WsInv, [Next]_vars
  PROVE  WsInv'
<1>1. CASE Serve
  BY <1>1, BroadcasterServes DEF Serve, WsInv, Talk, Writers, wsVars
<1>2. CASE UNCHANGED vars
  BY <1>2, HubStays, QueuesSame
  DEF vars, hubVars, history, wsVars, mapVars, WsInv, Talk, Writers
<1> QED BY <1>1, <1>2, UpgradeKeeps, QuietReader, PassingReader, MessageSaid, WriterKeeps DEF Next

\* The client map tells the truth, whenever browsers go away and come back with
\* their address: who is registered has its reader present, unless its removal
\* overtook its registration; whose reader is present is registered, unless it
\* met another connection of its address (HandleWebSocket 48-81,
\* StartBroadcaster 111-121, handleWSClient 85-88).
THEOREM WsMapIsTruthful == Spec => []MapIsTruthful
<1>1. ASSUME WsInv, [Next]_vars
      PROVE  WsInv'
  BY <1>1, NextKeepsWs
<1>2. WsInv => MapIsTruthful
  <2> SUFFICES ASSUME WsInv
               PROVE  MapIsTruthful
    OBVIOUS
  <2>1. \A c \in Conn : said[c] \in 0 .. MaxSaid[c]
    BY WsAssumption DEF WsInv, Talk
  <2>2. TypeOK
    BY <2>1 DEF WsInv, HubInv, Typed, QueuesOK, Talk, Writers, TypeOK, WsPlaces
  <2> QED BY <2>2 DEF WsInv, HubInv, MapIsTruthful
<1> QED BY <1>1, <1>2, WsStarts, PTL DEF Spec

-----------------------------------------------------------------------------
(* The order of the messages.                                               *)

\* The number that a sender's next message has, at least.
Sender == Conn \cup {Admin}
NextNo == [s \in Sender |-> IF s = Admin THEN adminSent + 1 ELSE said[s] + 1]
Known(m) == m[2] < NextNo[m[1]]

\* What waits in Broadcast was offered to nobody and waits there once; all that
\* waits or was offered has been said; no two browsers see two messages in
\* different orders, nor one twice.
OrderInv ==
  /\ NoDup(bcast)
  /\ \A m \in In(bcast) : Known(m)
  /\ \A c \in Conn : \A m \in In(Delivered(c)) : Known(m) /\ m \notin In(bcast)
  /\ \A c, d \in Conn : \A m, n \in Message :
       Before(m, n, Delivered(c)) => ~Before(n, m, Delivered(d))

\* Who said a message, and its number.
LEMMA MessageParts ==
  ASSUME NEW m \in Message
  PROVE  m[1] \in Sender /\ m[2] \in Nat
<1>1. CASE m \in UNION {{c} \X (1 .. MaxSaid[c]) : c \in Conn}
  <2>1. PICK c \in Conn : m \in {c} \X (1 .. MaxSaid[c])
    BY <1>1
  <2> QED BY <2>1, WsAssumption DEF Sender
<1>2. CASE m \in {Admin} \X (1 .. MaxAdmin)
  BY <1>2, WsAssumption DEF Sender
<1> QED BY <1>1, <1>2, Zenon, WsAssumption

\* An element put at the end comes after all that was there.
LEMMA BeforeAppend ==
  ASSUME NEW S, NEW q \in Seq(S), NEW h \in S, NEW m, NEW n,
         Before(m, n, Append(q, h))
  PROVE  Before(m, n, q) \/ (n = h /\ m \in In(q))
<1>1. /\ Len(Append(q, h)) = Len(q) + 1 /\ Append(q, h)[Len(q) + 1] = h
      /\ \A i \in 1 .. Len(q) : Append(q, h)[i] = q[i]
      /\ Len(q) \in Nat
  BY AppendProperties, LenProperties
<1>2. PICK i \in 1 .. Len(q) + 1, j \in 1 .. Len(q) + 1 :
        i < j /\ Append(q, h)[i] = m /\ Append(q, h)[j] = n
  BY <1>1 DEF Before
<1>3. i \in 1 .. Len(q) /\ q[i] = m
  BY <1>1, <1>2
<1>4. CASE j = Len(q) + 1
  BY <1>1, <1>2, <1>3, <1>4 DEF In
<1>5. CASE j \in 1 .. Len(q)
  BY <1>1, <1>2, <1>3, <1>5 DEF Before
<1> QED BY <1>1, <1>4, <1>5

\* What is before something is a member, and so is what is after it.
LEMMA BeforeIsMember ==
  ASSUME NEW q, NEW m, NEW n, Before(m, n, q)
  PROVE  m \in In(q) /\ n \in In(q)
BY DEF Before, In

\* Without its middle part a sequence has nothing new and nothing the other way
\* round.
LEMMA MiddleLost ==
  ASSUME NEW S, NEW r \in Seq(S), NEW w \in Seq(S), NEW s \in Seq(S)
  PROVE  /\ In(r \o s) \subseteq In(r \o w \o s)
         /\ \A m, n : Before(m, n, r \o s) => Before(m, n, r \o w \o s)
<1> DEFINE p == r \o s
           q == r \o w \o s
           At(i) == IF i <= Len(r) THEN i ELSE i + Len(w)
<1>1. Len(r) \in Nat /\ Len(w) \in Nat /\ Len(s) \in Nat
  BY LenProperties
<1>2. /\ Len(p) = Len(r) + Len(s)
      /\ \A i \in 1 .. Len(p) : p[i] = IF i <= Len(r) THEN r[i] ELSE s[i - Len(r)]
  BY ConcatProperties
<1>3. /\ r \o w \in Seq(S) /\ Len(r \o w) = Len(r) + Len(w)
      /\ \A i \in 1 .. Len(r) : (r \o w)[i] = r[i]
  BY <1>1, ConcatProperties
<1>4. /\ Len(q) = Len(r) + Len(w) + Len(s)
      /\ \A i \in 1 .. Len(q) :
           q[i] = IF i <= Len(r) + Len(w) THEN (r \o w)[i] ELSE s[i - (Len(r) + Len(w))]
  BY <1>3, ConcatProperties
<1> HIDE DEF p, q
<1>5. ASSUME NEW i \in 1 .. Len(p)
      PROVE  At(i) \in 1 .. Len(q) /\ q[At(i)] = p[i]
  <2>1. CASE i <= Len(r)
    BY <2>1, <1>1, <1>2, <1>3, <1>4
  <2>2. CASE ~(i <= Len(r))
    <3>1. i + Len(w) \in 1 .. Len(q) /\ ~(i + Len(w) <= Len(r) + Len(w))
      BY <2>2, <1>1, <1>2, <1>4
    <3>2. i + Len(w) - (Len(r) + Len(w)) = i - Len(r)
      BY <1>1, <1>2
    <3> QED BY <3>1, <3>2, <2>2, <1>2, <1>4
  <2> QED BY <2>1, <2>2
<1>6. \A i, j \in 1 .. Len(p) : i < j => At(i) < At(j)
  BY <1>1, <1>2
<1> HIDE DEF At
<1>7. In(p) \subseteq In(q)
  BY <1>5 DEF In
<1>8. \A m, n : Before(m, n, p) => Before(m, n, q)
  BY <1>5, <1>6 DEF Before
<1> QED BY <1>7, <1>8 DEF p, q

\* A sequence is its first element and the rest.
LEMMA HeadIsFirst ==
  ASSUME NEW S, NEW s \in Seq(S), s # <<>>
  PROVE  <<Head(s)>> \in Seq(S) /\ Tail(s) \in Seq(S) /\ s = <<Head(s)>> \o Tail(s)
<1> DEFINE f == <<Head(s)>>
           t == Tail(s)
<1>1. /\ Head(s) \in S /\ Head(s) = s[1] /\ t \in Seq(S) /\ Len(t) = Len(s) - 1
      /\ \A i \in 1 .. Len(t) : t[i] = s[i + 1]
      /\ Len(s) \in Nat \ {0}
  BY HeadTailProperties, EmptySeq, LenProperties
<1>2. f \in Seq(S) /\ Len(f) = 1 /\ f[1] = Head(s)
  BY <1>1
<1> HIDE DEF f, t
<1>3. /\ f \o t \in Seq(S) /\ Len(f \o t) = Len(s)
      /\ \A i \in 1 .. Len(s) : (f \o t)[i] = IF i <= 1 THEN f[i] ELSE t[i - 1]
  <2>1. /\ f \o t \in Seq(S) /\ Len(f \o t) = Len(f) + Len(t)
        /\ \A i \in 1 .. Len(f) + Len(t) :
             (f \o t)[i] = IF i <= Len(f) THEN f[i] ELSE t[i - Len(f)]
    BY <1>1, <1>2, ConcatProperties
  <2> QED BY <2>1, <1>1, <1>2
<1>4. \A i \in 1 .. Len(s) : (f \o t)[i] = s[i]
  BY <1>1, <1>2, <1>3
<1>5. s = f \o t
  BY <1>3, <1>4, SeqEqual
<1> QED BY <1>1, <1>2, <1>5 DEF f, t

\* What is delivered are messages.
LEMMA DeliveredType ==
  ASSUME WsInv, NEW c \in Conn
  PROVE  /\ Delivered(c) \in Seq(Message)
         /\ received[c] \in Seq(Message) /\ writing[c] \in Seq(Message)
         /\ sendQ[c] \in Seq(Message) /\ received[c] \o writing[c] \in Seq(Message)
BY ConcatProperties DEF WsInv, QueuesOK, Writers, Delivered

\* A writer moves what is delivered along, or loses a part of it.
LEMMA WriterDelivers ==
  ASSUME WsInv, NEW c \in Conn, Writer(c), NEW d \in Conn
  PROVE  /\ In(Delivered(d)') \subseteq In(Delivered(d))
         /\ \A m, n : Before(m, n, Delivered(d)') => Before(m, n, Delivered(d))
<1> DEFINE r == received[c]  w == writing[c]  s == sendQ[c]
<1>1. /\ r \in Seq(Message) /\ w \in Seq(Message) /\ s \in Seq(Message)
      /\ r \o w \in Seq(Message)
      /\ received \in [Conn -> Seq(Message)] /\ writing \in [Conn -> Seq(Message)]
      /\ sendQ \in [Conn -> Seq(Message)]
  BY DeliveredType DEF WsInv, QueuesOK, Writers
<1>2. CASE d # c
  <2>1. received'[d] = received[d] /\ writing'[d] = writing[d] /\ sendQ'[d] = sendQ[d]
    BY <1>1, <1>2 DEF Writer, WriterTakes, WriterWrites, WriterLoses, hubVars
  <2>2. Delivered(d)' = Delivered(d)
    BY <2>1 DEF Delivered
  <2> QED BY <2>2
<1>3. CASE d = c /\ WriterTakes(c)
  <2>1. /\ w = <<>> /\ s # <<>> /\ received' = received
        /\ writing'[c] = <<Head(s)>> /\ sendQ'[c] = Tail(s)
    BY <1>1, <1>3 DEF WriterTakes
  <2>2. <<Head(s)>> \in Seq(Message) /\ Tail(s) \in Seq(Message) /\ s = <<Head(s)>> \o Tail(s)
    BY <1>1, <2>1, HeadIsFirst
  <2>3. (r \o <<Head(s)>>) \o Tail(s) = r \o (<<Head(s)>> \o Tail(s))
    BY <1>1, <2>2, ConcatAssociative
  <2>4. r \o w = r
    BY <1>1, <2>1, ConcatEmptySeq
  <2>5. Delivered(d)' = Delivered(d)
    BY <1>3, <2>1, <2>2, <2>3, <2>4 DEF Delivered
  <2> QED BY <2>5
<1>4. CASE d = c /\ WriterWrites(c)
  <2>1. received'[c] = r \o w /\ writing'[c] = <<>> /\ sendQ' = sendQ
    BY <1>1, <1>4 DEF WriterWrites, hubVars
  <2>2. (r \o w) \o <<>> = r \o w
    BY <1>1, ConcatEmptySeq
  <2>3. Delivered(d)' = Delivered(d)
    BY <1>4, <2>1, <2>2 DEF Delivered
  <2> QED BY <2>3
<1>5. CASE d = c /\ WriterLoses(c)
  <2>1. received' = received /\ writing'[c] = <<>> /\ sendQ' = sendQ
    BY <1>1, <1>5 DEF WriterLoses, hubVars
  <2>2. r \o <<>> = r
    BY <1>1, ConcatEmptySeq
  <2>3. Delivered(d)' = r \o s /\ Delivered(d) = r \o w \o s
    BY <1>5, <2>1, <2>2 DEF Delivered
  <2>4. /\ In(r \o s) \subseteq In(r \o w \o s)
        /\ \A m, n : Before(m, n, r \o s) => Before(m, n, r \o w \o s)
    BY <1>1, MiddleLost
  <2> QED BY <2>3, <2>4
<1> QED BY <1>2, <1>3, <1>4, <1>5 DEF Writer

\* The broadcaster puts the first message behind what was delivered, or skips it.
LEMMA BroadcastDelivers ==
  ASSUME WsInv, Broadcast, UNCHANGED wsVars, NEW d \in Conn
  PROVE  Delivered(d)' = Delivered(d) \/ Delivered(d)' = Append(Delivered(d), Head(bcast))
<1> PICK h : h = Head(bcast)
  OBVIOUS
<1>1. /\ bcast # <<>> /\ bcast \in Seq(Message)
      /\ sendQ'[d] = sendQ[d] \/ sendQ'[d] = Append(sendQ[d], h)
      /\ received' = received /\ writing' = writing
  BY DEF Broadcast, wsVars, WsInv, QueuesOK
<1>2. h \in Message
  BY <1>1, HeadTailProperties
<1>3. CASE sendQ'[d] = Append(sendQ[d], h)
  <2> DEFINE p == received[d] \o writing[d]
             q == sendQ[d]
  <2>1. p \in Seq(Message) /\ q \in Seq(Message) /\ <<h>> \in Seq(Message)
    BY <1>2, DeliveredType
  <2> HIDE DEF p, q
  <2>2. p \o q \in Seq(Message) /\ (p \o q) \o <<h>> = p \o (q \o <<h>>)
    <3>1. p \o q \in Seq(Message)
      BY <2>1, ConcatProperties
    <3>2. (p \o q) \o <<h>> = p \o (q \o <<h>>)
      BY <2>1, ConcatAssociative
    <3> QED BY <3>1, <3>2
  <2>3. Append(q, h) = q \o <<h>> /\ Append(p \o q, h) = (p \o q) \o <<h>>
    BY <1>2, <2>1, <2>2, AppendIsConcat
  <2> QED BY <1>1, <1>3, <2>2, <2>3 DEF Delivered, p, q
<1>4. CASE sendQ'[d] = sendQ[d]
  BY <1>1, <1>4 DEF Delivered
<1> QED BY <1>1, <1>3, <1>4

\* A step that puts nothing into Broadcast and at most takes from what was
\* delivered keeps the order.
LEMMA LessInOrder ==
  ASSUME WsInv, OrderInv, bcast' = bcast, NextNo' = NextNo,
         \A d \in Conn :
           /\ In(Delivered(d)') \subseteq In(Delivered(d))
           /\ \A m, n : Before(m, n, Delivered(d)') => Before(m, n, Delivered(d))
  PROVE  OrderInv'
<1>1. \A d \in Conn : In(Delivered(d))' = In(Delivered(d)') /\ In(bcast)' = In(bcast)
  BY DEF In
<1>2. \A d \in Conn, m, n \in Message : Before(m, n, Delivered(d))' <=> Before(m, n, Delivered(d)')
  BY DEF Before
<1>3. NoDup(bcast)' /\ \A m \in In(bcast)' : Known(m)'
  BY <1>1 DEF OrderInv, NoDup, Known
<1>4. \A c \in Conn : \A m \in In(Delivered(c))' : Known(m)' /\ m \notin In(bcast)'
  BY <1>1 DEF OrderInv, Known
<1>5. \A c, d \in Conn : \A m, n \in Message :
        Before(m, n, Delivered(c))' => ~Before(n, m, Delivered(d))'
  BY <1>2 DEF OrderInv
<1> QED BY <1>3, <1>4, <1>5 DEF OrderInv

\* The operator's message is dropped: the next one has the next number.
LEMMA DroppedInOrder ==
  ASSUME WsInv, OrderInv, UNCHANGED <<bcast, sendQ, received, writing>>,
         \A s \in Sender : NextNo[s] \in Nat /\ NextNo'[s] \in Nat /\ NextNo[s] <= NextNo'[s]
  PROVE  OrderInv'
<1>1. ASSUME NEW n \in Message, Known(n)
      PROVE  n[2] < NextNo'[n[1]]
  BY <1>1, MessageParts DEF Known
<1>2. /\ \A n \in In(bcast) : n \in Message
      /\ \A c \in Conn : \A n \in In(Delivered(c)) : n \in Message
  BY DeliveredType, ElementOfSeq DEF In, WsInv, QueuesOK
<1>3. \A n \in In(bcast) : n[2] < NextNo'[n[1]]
  BY <1>1, <1>2 DEF OrderInv
<1>4. \A c \in Conn : \A n \in In(Delivered(c)) : n[2] < NextNo'[n[1]]
  BY <1>1, <1>2 DEF OrderInv
<1>5. \A c \in Conn : Delivered(c)' = Delivered(c)
  BY DEF Delivered
<1>6. /\ In(bcast)' = In(bcast) /\ (NoDup(bcast)' <=> NoDup(bcast))
      /\ \A c \in Conn : In(Delivered(c))' = In(Delivered(c)')
      /\ \A c \in Conn, m, n \in Message :
           Before(m, n, Delivered(c))' <=> Before(m, n, Delivered(c)')
  BY DEF In, NoDup, Before
<1>7. \A m \in In(bcast)' : Known(m)'
  BY <1>3, <1>6 DEF Known
<1>8. \A c \in Conn : \A m \in In(Delivered(c))' : Known(m)' /\ m \notin In(bcast)'
  BY <1>4, <1>5, <1>6 DEF Known, OrderInv
<1> QED BY <1>5, <1>6, <1>7, <1>8 DEF OrderInv

\* Something is said for the first time.
LEMMA SayInOrder ==
  ASSUME WsInv, OrderInv, NEW m \in Message, PutMessage(m), UNCHANGED writeVars,
         NextNo[m[1]] <= m[2], m[2] < NextNo'[m[1]],
         \A s \in Sender : NextNo[s] \in Nat /\ NextNo'[s] \in Nat /\ NextNo[s] <= NextNo'[s]
  PROVE  OrderInv'
<1>1. /\ bcast \in Seq(Message) /\ bcast' = Append(bcast, m) /\ sendQ' = sendQ
      /\ received' = received /\ writing' = writing
  BY DEF PutMessage, Queued, WsInv, QueuesOK, writeVars
<1>2. ~Known(m)
  BY MessageParts DEF Known
<1>3. m \notin In(bcast)
  BY <1>2 DEF OrderInv
<1>4. In(bcast') = In(bcast) \cup {m} /\ NoDup(bcast')
  BY <1>1, <1>3, PutMember DEF OrderInv
<1>5. In(bcast)' = In(bcast) \cup {m} /\ NoDup(bcast)'
  <2>1. In(bcast)' = In(bcast') /\ (NoDup(bcast)' <=> NoDup(bcast'))
    BY DEF In, NoDup
  <2> QED BY <2>1, <1>4
<1>6. ASSUME NEW n \in Message, Known(n)
      PROVE  n[2] < NextNo'[n[1]]
  BY <1>6, MessageParts DEF Known
<1>7. /\ \A n \in In(bcast) : n \in Message
      /\ \A c \in Conn : \A n \in In(Delivered(c)) : n \in Message
  BY <1>1, DeliveredType, ElementOfSeq DEF In
<1>8. \A c \in Conn : Delivered(c)' = Delivered(c)
  BY <1>1 DEF Delivered
<1>9. ASSUME NEW c \in Conn
      PROVE  In(Delivered(c))' = In(Delivered(c))
  <2>1. In(Delivered(c))' = In(Delivered(c)')
    BY DEF In
  <2> QED BY <2>1, <1>8
<1>10. ASSUME NEW c \in Conn, NEW a, NEW b
       PROVE  Before(a, b, Delivered(c))' <=> Before(a, b, Delivered(c))
  <2>1. Before(a, b, Delivered(c))' <=> Before(a, b, Delivered(c)')
    BY DEF Before
  <2> QED BY <2>1, <1>8
<1>11. \A n \in In(bcast)' : Known(n)'
  BY <1>5, <1>6, <1>7 DEF OrderInv, Known
<1>12. ASSUME NEW c \in Conn, NEW n \in In(Delivered(c))
       PROVE  Known(n)' /\ n \notin In(bcast)'
  <2>1. Known(n) /\ n \notin In(bcast) /\ n \in Message
    BY <1>7, <1>12 DEF OrderInv
  <2>2. n[2] < NextNo'[n[1]]
    BY <2>1, <1>6
  <2> QED BY <2>1, <2>2, <1>2, <1>5 DEF Known
<1> QED BY <1>5, <1>9, <1>10, <1>11, <1>12 DEF OrderInv

\* A message is offered for the first time, and to all at once.
LEMMA OfferInOrder ==
  ASSUME WsInv, OrderInv, Broadcast, UNCHANGED wsVars
  PROVE  OrderInv'
<1> PICK h : h = Head(bcast)
  OBVIOUS
<1>1. bcast # <<>> /\ bcast' = Tail(bcast) /\ bcast \in Seq(Message) /\ NextNo' = NextNo
  BY DEF Broadcast, Remaining, Rest, WsInv, QueuesOK, wsVars, NextNo
<1>2. /\ h \in Message /\ h \in In(bcast) /\ NoDup(bcast')
      /\ In(bcast') = In(bcast) \ {h}
  BY <1>1, TakeMember DEF OrderInv
<1>3. In(bcast)' = In(bcast) \ {h} /\ NoDup(bcast)'
  <2>1. In(bcast)' = In(bcast') /\ (NoDup(bcast)' <=> NoDup(bcast'))
    BY DEF In, NoDup
  <2> QED BY <2>1, <1>2
<1>4. ASSUME NEW c \in Conn
      PROVE  /\ Delivered(c) \in Seq(Message) /\ h \notin In(Delivered(c))
             /\ Delivered(c)' = Delivered(c) \/ Delivered(c)' = Append(Delivered(c), h)
  BY <1>2, DeliveredType, BroadcastDelivers DEF OrderInv
<1>5. ASSUME NEW c \in Conn
      PROVE  In(Delivered(c)') \subseteq In(Delivered(c)) \cup {h}
  <2>1. CASE Delivered(c)' = Append(Delivered(c), h)
    BY <2>1, <1>2, <1>4, PutMember
  <2> QED BY <2>1, <1>4
<1>6. ASSUME NEW c \in Conn
      PROVE  In(Delivered(c))' \subseteq In(Delivered(c)) \cup {h}
  <2>1. In(Delivered(c))' = In(Delivered(c)')
    BY DEF In
  <2> QED BY <2>1, <1>5
<1>7. ASSUME NEW c \in Conn, NEW m, NEW n, Before(m, n, Delivered(c)')
      PROVE  Before(m, n, Delivered(c)) \/ (n = h /\ m \in In(Delivered(c)))
  <2>1. CASE Delivered(c)' = Append(Delivered(c), h)
    BY <1>7, <2>1, <1>2, <1>4, BeforeAppend
  <2> QED BY <2>1, <1>4, <1>7
<1>8. ASSUME NEW c \in Conn, NEW d \in Conn, NEW m \in Message, NEW n \in Message,
             Before(m, n, Delivered(c)'), Before(n, m, Delivered(d)')
      PROVE  FALSE
  <2>1. Before(m, n, Delivered(c)) \/ (n = h /\ m \in In(Delivered(c)))
    BY <1>7, <1>8
  <2>2. Before(n, m, Delivered(d)) \/ (m = h /\ n \in In(Delivered(d)))
    BY <1>7, <1>8
  <2>3. Before(m, n, Delivered(c)) => m # h /\ n # h
    BY <1>4, BeforeIsMember
  <2>4. Before(n, m, Delivered(d)) => m # h /\ n # h
    BY <1>4, BeforeIsMember
  <2>5. ~(Before(m, n, Delivered(c)) /\ Before(n, m, Delivered(d)))
    BY DEF OrderInv
  <2> QED BY <2>1, <2>2, <2>3, <2>4, <2>5, <1>4
<1>9. \A c, d \in Conn : \A m, n \in Message :
        Before(m, n, Delivered(c))' => ~Before(n, m, Delivered(d))'
  <2>1. \A c \in Conn : \A m, n \in Message :
          Before(m, n, Delivered(c))' <=> Before(m, n, Delivered(c)')
    BY DEF Before
  <2> QED BY <2>1, <1>8
<1>10. \A m \in In(bcast)' : Known(m)'
  BY <1>1, <1>3 DEF OrderInv, Known
<1>11. ASSUME NEW c \in Conn, NEW m \in In(Delivered(c))'
       PROVE  Known(m)' /\ m \notin In(bcast)'
  <2>1. m \in In(Delivered(c)) \/ m = h
    BY <1>6, <1>11
  <2>2. Known(m) /\ (m \in In(bcast) => m = h)
    BY <2>1, <1>2 DEF OrderInv
  <2> QED BY <2>2, <1>1, <1>3 DEF Known
<1> QED BY <1>3, <1>9, <1>10, <1>11 DEF OrderInv

\* Whatever happens next, the order stays.
LEMMA NextInOrder ==
  ASSUME WsInv, OrderInv, [Next]_vars
  PROVE  OrderInv'
<1>1. /\ said \in [Conn -> Nat] /\ adminSent \in Nat /\ Admin \notin Conn
      /\ \A s \in Sender : NextNo[s] \in Nat
  BY WsAssumption DEF WsInv, Talk, NextNo, Sender
<1>2. ASSUME UNCHANGED <<bcast, sendQ, received, writing, said, adminSent>>
      PROVE  OrderInv'
  <2>1. bcast' = bcast /\ NextNo' = NextNo /\ \A d \in Conn : Delivered(d)' = Delivered(d)
    BY <1>2 DEF NextNo, Delivered
  <2> QED BY <2>1, LessInOrder
<1>3. ASSUME NEW c \in Conn, ReadMessage(c)
      PROVE  OrderInv'
  <2>1. /\ PutMessage(<<c, said[c] + 1>>) /\ said[c] < MaxSaid[c] /\ UNCHANGED writeVars
        /\ said' = [said EXCEPT ![c] = @ + 1] /\ adminSent' = adminSent
        /\ MaxSaid[c] \in Nat
    BY <1>3, WsAssumption DEF ReadMessage, writeVars
  <2>2. NextNo[c] = said[c] + 1 /\ NextNo'[c] = said[c] + 2
    BY <1>1, <2>1 DEF NextNo, Sender
  <2>3. \A s \in Sender : s # c => NextNo'[s] = NextNo[s]
    BY <1>1, <2>1 DEF NextNo, Sender
  <2>4. \A s \in Sender : NextNo'[s] \in Nat /\ NextNo[s] <= NextNo'[s]
    BY <1>1, <2>2, <2>3
  <2>5. <<c, said[c] + 1>> \in Message
    BY <1>1, <2>1, IsMessage
  <2> QED BY <1>1, <2>1, <2>2, <2>4, <2>5, SayInOrder
<1>4. CASE BroadcastToWebSocket
  <2>1. /\ adminSent < MaxAdmin /\ adminSent' = adminSent + 1 /\ said' = said
        /\ UNCHANGED writeVars
        /\ PutMessage(<<Admin, adminSent + 1>>) \/ UNCHANGED hubVars
    BY <1>4 DEF BroadcastToWebSocket, writeVars
  <2>2. NextNo[Admin] = adminSent + 1 /\ NextNo'[Admin] = adminSent + 2
    BY <1>1, <2>1 DEF NextNo, Sender
  <2>3. \A s \in Conn : NextNo'[s] = NextNo[s]
    BY <1>1, <2>1 DEF NextNo, Sender
  <2>4. \A s \in Sender : NextNo'[s] \in Nat /\ NextNo[s] <= NextNo'[s]
    BY <1>1, <2>2, <2>3 DEF Sender
  <2>5. <<Admin, adminSent + 1>> \in Message
    BY <1>1, <2>1, IsMessage, WsAssumption
  <2>6. CASE PutMessage(<<Admin, adminSent + 1>>)
    BY <1>1, <2>1, <2>2, <2>4, <2>5, <2>6, SayInOrder
  <2>7. CASE UNCHANGED hubVars
    BY <1>1, <2>1, <2>4, <2>7, DroppedInOrder DEF hubVars, writeVars
  <2> QED BY <2>1, <2>6, <2>7
<1>5. ASSUME NEW c \in Conn, Writer(c)
      PROVE  OrderInv'
  <2>1. bcast' = bcast /\ NextNo' = NextNo
    BY <1>5 DEF Writer, WriterTakes, WriterWrites, WriterLoses, hubVars, NextNo
  <2> QED BY <1>5, <2>1, WriterDelivers, LessInOrder
<1>6. CASE Serve
  <2>1. CASE Broadcast
    BY <1>6, <2>1, OfferInOrder DEF Serve
  <2>2. CASE Register \/ Unregister
    BY <1>2, <1>6, <2>2 DEF Serve, Register, Unregister, wsVars
  <2> QED BY <1>6, <2>1, <2>2 DEF Serve, Broadcaster
<1>7. ASSUME NEW c \in Conn,
             BrowserLeaves(c) \/ Upgrade(c) \/ HandOver(c) \/ ReadFails(c)
               \/ AskRemoval(c) \/ Close(c)
      PROVE  OrderInv'
  BY <1>2, <1>7 DEF BrowserLeaves, PeerLeaves, Upgrade, Arrive, HandOver, ReadFails,
    AskRemoval, Close, PutAdd, PutRemove, hubVars
<1>8. CASE UNCHANGED vars
  BY <1>2, <1>8 DEF vars, hubVars, wsVars
<1> QED BY <1>3, <1>4, <1>5, <1>6, <1>7, <1>8 DEF Next

\* All browsers see the messages they get in the same order, and none twice,
\* whoever of them misses which (StartBroadcaster 123-137).
THEOREM AllSeeOneOrder == Spec => []SameOrder
<1>1. Init => WsInv /\ OrderInv
  <2> SUFFICES ASSUME Init
               PROVE  OrderInv
    BY WsStarts
  <2>1. \A c \in Conn : received[c] = <<>> /\ writing[c] = <<>> /\ sendQ[c] = <<>>
    BY DEF Init, HubInit
  <2>2. \A c \in Conn : Len(Delivered(c)) = 0
    <3>1. <<>> \in Seq(Message) /\ <<>> \o <<>> = <<>> /\ Len(<<>>) = 0
      BY EmptySeq, ConcatEmptySeq
    <3> QED BY <2>1, <3>1 DEF Delivered
  <2>3. bcast = <<>>
    BY DEF Init, HubInit
  <2> QED BY <2>2, <2>3 DEF OrderInv, NoDup, In, Before
<1>2. ASSUME WsInv, OrderInv, [Next]_vars
      PROVE  WsInv' /\ OrderInv'
  BY <1>2, NextKeepsWs, NextInOrder
<1>3. WsInv /\ OrderInv => SameOrder
  <2> SUFFICES ASSUME WsInv, OrderInv, NEW c \in Conn, NEW d \in Conn,
                      NEW m \in In(Delivered(c)), NEW n \in In(Delivered(c)),
                      Before(m, n, Delivered(c))
               PROVE  ~Before(n, m, Delivered(d))
    BY DEF SameOrder
  <2>1. m \in Message /\ n \in Message
    BY DeliveredType, ElementOfSeq DEF In
  <2> QED BY <2>1 DEF OrderInv
<1> QED BY <1>1, <1>2, <1>3, PTL DEF Spec
=============================================================================
