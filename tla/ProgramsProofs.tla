--------------------------- MODULE ProgramsProofs ---------------------------
(***************************************************************************)
(* The two ends of an operator's message.  The lounge page (Lounge) has one *)
(* link or one attempt to get it back, for every number of sockets, uploads *)
(* and messages, and however late a handler of an old socket is called; and *)
(* what its feed, its counter and its list of participants say of each      *)
(* other is true.  The main program (ChatPrograms) hands the messages to    *)
(* both servers in one order.                                               *)
(***************************************************************************)
EXTENDS LoungeProps, ProgramsProps, TLAPS, SequenceTheorems, FiniteSetTheorems

\* The types of the link; there is a socket exactly from the entrance on, and no
\* timer is set before.
States == {"connecting", "open", "dead", "failed", "closed"}
LinkOK ==
  /\ joined \in BOOLEAN /\ online \in BOOLEAN /\ retries \in Nat /\ sock \in Seq(States)
  /\ joined <=> Len(sock) > 0
  /\ ~joined => retries = 0 /\ ~online
LinkInv == LinkOK /\ OneLink

-----------------------------------------------------------------------------
\* A socket that is made becomes the last one, and the others stay as they are.
LEMMA SocketIsAdded ==
  ASSUME sock \in Seq(States), initializeSocketLink
  PROVE  /\ sock' \in Seq(States) /\ Len(sock') = Len(sock) + 1
         /\ sock'[Len(sock')] = "connecting"
         /\ \A s \in 1 .. Len(sock) : sock'[s] = sock[s]
<1>1. sock' = Append(sock, "connecting") /\ "connecting" \in States
  BY DEF initializeSocketLink, States
<1> QED BY <1>1, AppendProperties

\* An event of a socket changes the state of this one.
LEMMA SocketChanges ==
  ASSUME sock \in Seq(States), NEW s \in 1 .. Len(sock), NEW t \in States,
         sock' = [sock EXCEPT ![s] = t]
  PROVE  /\ sock' \in Seq(States) /\ Len(sock') = Len(sock)
         /\ \A r \in 1 .. Len(sock) : sock'[r] = IF r = s THEN t ELSE sock[r]
BY ExceptSeq

\* Only the last socket has events: the others are closed.
LEMMA OnlyTheLast ==
  ASSUME LinkInv, NEW s \in 1 .. Len(sock), sock[s] # "closed"
  PROVE  joined /\ s = Len(sock)
BY DEF LinkInv, LinkOK, OneLink

\* The entrance makes the first socket.
LEMMA JoinKeeps ==
  ASSUME LinkInv, joinLoungeLobby
  PROVE  LinkInv'
<1>1. ~joined /\ joined' /\ initializeSocketLink /\ UNCHANGED <<retries, online>>
  BY DEF joinLoungeLobby
<1>2. Len(sock) = 0 /\ retries = 0 /\ ~online
  BY <1>1, LenProperties DEF LinkInv, LinkOK
<1>3. /\ sock' \in Seq(States) /\ Len(sock') = 1 /\ sock'[1] = "connecting"
  <2>1. sock \in Seq(States)
    BY DEF LinkInv, LinkOK
  <2>2. /\ sock' \in Seq(States) /\ Len(sock') = Len(sock) + 1
        /\ sock'[Len(sock')] = "connecting"
    BY <2>1, <1>1, SocketIsAdded
  <2> QED BY <2>2, <1>2
<1>4. LinkOK'
  BY <1>1, <1>2, <1>3 DEF LinkInv, LinkOK
<1>5. OneLink'
  BY <1>1, <1>2, <1>3 DEF OneLink, IsOpen, Current
<1> QED BY <1>4, <1>5 DEF LinkInv

\* The timer makes another one: the last is closed, and it was the only timer.
LEMMA ReconnectKeeps ==
  ASSUME LinkInv, Reconnect
  PROVE  LinkInv'
<1>1. retries > 0 /\ retries' = retries - 1 /\ initializeSocketLink /\ UNCHANGED <<joined, online>>
  BY DEF Reconnect
<1>2. joined /\ Len(sock) \in Nat /\ Len(sock) > 0 /\ retries \in Nat
  BY <1>1, LenProperties DEF LinkInv, LinkOK
<1>3. sock[Len(sock)] = "closed" /\ retries = 1 /\ ~online
  BY <1>1, <1>2 DEF LinkInv, OneLink, Current
<1>4. /\ sock' \in Seq(States) /\ Len(sock') = Len(sock) + 1
      /\ sock'[Len(sock')] = "connecting"
      /\ \A s \in 1 .. Len(sock) : sock'[s] = sock[s]
  BY <1>1, SocketIsAdded DEF LinkInv, LinkOK
<1>5. \A s \in 1 .. Len(sock') - 1 : sock'[s] = "closed"
  BY <1>2, <1>3, <1>4 DEF LinkInv, OneLink
<1>6. LinkOK'
  BY <1>1, <1>2, <1>3, <1>4 DEF LinkInv, LinkOK
<1>7. OneLink'
  BY <1>1, <1>2, <1>3, <1>4, <1>5 DEF OneLink, IsOpen, Current
<1> QED BY <1>6, <1>7 DEF LinkInv

\* What happens to a socket happens to the last one, and its close sets the timer.
LEMMA SocketEventKeeps ==
  ASSUME LinkInv, NEW s \in 1 .. Len(sock), Breaks(s) \/ Link(s)
  PROVE  LinkInv'
<1>1. PICK t \in {"open", "dead", "failed", "closed"} :
        /\ sock' = [sock EXCEPT ![s] = t]
        /\ \/ t = "open" /\ online' = TRUE /\ UNCHANGED retries
           \/ t = "dead" /\ UNCHANGED <<online, retries>>
           \/ t = "failed" /\ online' = FALSE /\ UNCHANGED retries
           \/ t = "closed" /\ online' = FALSE /\ retries' = retries + 1
  <2>1. CASE Breaks(s)
    BY <2>1, Zenon DEF Breaks
  <2>2. CASE OnOpen(s)
    BY <2>2, Zenon DEF OnOpen
  <2>3. CASE OnError(s)
    BY <2>3, Zenon DEF OnError, AfterError, NoRetry
  <2>4. CASE OnClose(s)
    BY <2>4, Zenon DEF OnClose, GoesOffline, SetTimer
  <2> QED BY <2>1, <2>2, <2>3, <2>4 DEF Link
<1>2. joined /\ s = Len(sock) /\ joined' = joined /\ sock[s] # "closed"
  <2>1. sock[s] # "closed" /\ joined' = joined
    BY DEF Breaks, Link, OnOpen, OnError, OnClose
  <2> QED BY <2>1, OnlyTheLast
<1>3. /\ sock' \in Seq(States) /\ Len(sock') = Len(sock)
      /\ \A r \in 1 .. Len(sock) : sock'[r] = IF r = s THEN t ELSE sock[r]
  BY <1>1, SocketChanges DEF LinkInv, LinkOK, States
<1>4. Len(sock) \in Nat /\ sock'[s] = t /\ retries = 0 /\ retries \in Nat /\ online \in BOOLEAN
  BY <1>2, <1>3, LenProperties DEF LinkInv, LinkOK, OneLink
<1>5. online' \in BOOLEAN /\ retries' \in Nat
  <2>1. online' \in BOOLEAN
    BY <1>1, <1>4, Zenon
  <2>2. retries' = retries \/ retries' = retries + 1
    BY <1>1, Zenon
  <2> QED BY <2>1, <2>2, <1>4
<1>6. LinkOK'
  BY <1>2, <1>3, <1>5 DEF LinkInv, LinkOK
<1>7. OneLink'
  BY <1>1, <1>2, <1>3, <1>4 DEF LinkInv, OneLink, IsOpen, Current
<1> QED BY <1>6, <1>7 DEF LinkInv

\* Every step keeps the invariant of the link.
LEMMA LinkInvHolds == Spec => []LinkInv
<1>1. Init => LinkInv
  <2> SUFFICES ASSUME Init
               PROVE  LinkInv
    OBVIOUS
  <2>1. sock \in Seq(States) /\ Len(sock) = 0
    BY EmptySeq DEF Init
  <2>2. joined \in BOOLEAN /\ online \in BOOLEAN /\ ~joined /\ ~online
    BY Zenon DEF Init
  <2>3. retries \in Nat /\ retries = 0 /\ ~(Len(sock) > 0)
    BY <2>1 DEF Init
  <2>4. LinkOK
    BY <2>1, <2>2, <2>3, Zenon DEF LinkOK
  <2> QED BY <2>2, <2>4 DEF LinkInv, OneLink
<1>2. ASSUME LinkInv, [Next]_vars
      PROVE  LinkInv'
  <2>1. CASE UNCHANGED linkVars
    BY <1>2, <2>1 DEF linkVars, LinkInv, LinkOK, OneLink, IsOpen, Current
  <2>2. ASSUME NEW s \in 1 .. Len(sock), Breaks(s) \/ Link(s)
        PROVE  LinkInv'
    BY <1>2, <2>2, SocketEventKeeps
  <2>3. ASSUME NEW m, Hear(m)
        PROVE  UNCHANGED linkVars
    BY <2>3 DEF Hear
  <2>4. ASSUME NEW u, processSimulatedUpload(u) \/ UploadTick(u) \/ ReaderOnload(u)
        PROVE  UNCHANGED linkVars
    BY <2>4 DEF processSimulatedUpload, UploadTick, ReaderOnload
  <2>5. CASE Echo \/ transmitMessage \/ clearFeedScreen \/ handleSimulatorChange
             \/ BotTick \/ BotSays \/ UNCHANGED vars
    BY <2>5, <2>1 DEF Echo, transmitMessage, clearFeedScreen, handleSimulatorChange,
      BotTick, BotSays, vars
  <2> QED BY <1>2, <2>1, <2>2, <2>3, <2>4, <2>5, JoinKeeps, ReconnectKeeps DEF Next
<1> QED BY <1>1, <1>2, PTL DEF Spec

\* From the entrance on there is one link or one attempt to get it back, and the
\* badge says Online for as long as it is open (initializeSocketLink 1790-1814).
THEOREM LinkIsOne == Spec => []OneLink
<1>1. LinkInv => OneLink
  BY DEF LinkInv
<1> QED BY <1>1, LinkInvHolds, PTL

-----------------------------------------------------------------------------
(* The feed.                                                                *)

\* A socket that has broken was not the last one that may be made.
SocketsOK ==
  /\ Len(sock) <= MaxSockets
  /\ \A s \in 1 .. Len(sock) : sock[s] \in {"dead", "failed", "closed"} => s < MaxSockets

\* The rows are of different uploads, which all run, and one that has no row was
\* flushed.
UploadsOK ==
  /\ upload \in [Uploads -> {"none", "ticking", "reading", "done"}]
  /\ percentage \in [Uploads -> 0 .. Steps] /\ bar \in [Uploads -> 0 .. Steps]
  /\ uploadRows \in Seq(Uploads) /\ flushed \subseteq Uploads
  /\ \A n \in 1 .. Len(uploadRows) : upload[uploadRows[n]] = "ticking"
  /\ \A m, n \in 1 .. Len(uploadRows) : uploadRows[m] = uploadRows[n] => m = n
  /\ \A u \in Uploads : upload[u] = "ticking" => u \in Rows \/ u \in flushed

\* The user is listed from the entrance on, and nothing is sent before.
MessagesOK ==
  /\ outbox \in Seq({Self, Bot}) /\ (outbox # <<>> => joined)
  /\ joined => Self \in clientParticipants
  /\ clientParticipants \subseteq Names \ {Admin} /\ senders \subseteq Names
  /\ msgRows \in Nat /\ clientLogsCount = msgRows
  /\ senders \ {Admin} \subseteq clientParticipants

BotOK == activityTicker \in BOOLEAN /\ typing \in BOOLEAN

FeedInv == LinkInv /\ SocketsOK /\ UploadsOK /\ MessagesOK /\ BotOK

-----------------------------------------------------------------------------
\* Without the row of u the others stay, each of them once.
LEMMA WithoutIsOthers ==
  ASSUME UploadsOK, NEW u \in Uploads
  PROVE  /\ Without(u) \in Seq(Uploads)
         /\ \A n \in 1 .. Len(Without(u)) :
              Without(u)[n] # u /\ \E m \in 1 .. Len(uploadRows) : Without(u)[n] = uploadRows[m]
         /\ \A m \in 1 .. Len(uploadRows) :
              uploadRows[m] # u => \E n \in 1 .. Len(Without(u)) : Without(u)[n] = uploadRows[m]
         /\ \A m, n \in 1 .. Len(Without(u)) : Without(u)[m] = Without(u)[n] => m = n
<1> DEFINE s == uploadRows
           L == Len(s)
<1>1. /\ s \in Seq(Uploads) /\ L \in Nat
      /\ \A m, n \in 1 .. L : s[m] = s[n] => m = n
      /\ \A n \in 1 .. L : s[n] \in Uploads
  BY LenProperties, ElementOfSeq DEF UploadsOK
<1>2. CASE Places(u) = {}
  <2>1. Without(u) = s /\ \A n \in 1 .. L : s[n] # u
    BY <1>2 DEF Without, Places
  <2> QED BY <1>1, <2>1
<1>3. CASE Places(u) # {}
  <2> DEFINE k == CHOOSE n \in Places(u) : TRUE
             a == SubSeq(s, 1, k - 1)
             b == SubSeq(s, k + 1, L)
  <2>1. k \in 1 .. L /\ s[k] = u
    <3>1. k \in Places(u)
      BY <1>3
    <3> HIDE DEF k
    <3> QED BY <3>1 DEF Places
  <2>2. Without(u) = a \o b
    BY <1>3 DEF Without, RemoveAt
  <2> HIDE DEF k
  <2>3. /\ a \in Seq(Uploads) /\ Len(a) = k - 1
        /\ \A i \in 1 .. k - 1 : a[i] = s[i]
    <3>1. 1 \in Int /\ k - 1 \in Int /\ \A i \in 1 .. k - 1 : s[i] \in Uploads
      BY <2>1, <1>1
    <3>2. /\ a \in Seq(Uploads)
          /\ Len(a) = IF 1 <= k - 1 THEN k - 1 - 1 + 1 ELSE 0
          /\ \A i \in 1 .. k - 1 - 1 + 1 : a[i] = s[1 + i - 1]
      BY <3>1, SubSeqProperties
    <3> HIDE DEF a
    <3> QED BY <3>2, <2>1, <1>1
  <2>4. /\ b \in Seq(Uploads) /\ Len(b) = L - k
        /\ \A i \in 1 .. L - k : b[i] = s[k + i]
    <3>1. k + 1 \in Int /\ L \in Int /\ \A i \in k + 1 .. L : s[i] \in Uploads
      BY <2>1, <1>1
    <3>2. /\ b \in Seq(Uploads)
          /\ Len(b) = IF k + 1 <= L THEN L - (k + 1) + 1 ELSE 0
          /\ \A i \in 1 .. L - (k + 1) + 1 : b[i] = s[k + 1 + i - 1]
      BY <3>1, SubSeqProperties
    <3> HIDE DEF b
    <3>3. k \in Nat /\ L \in Nat /\ k <= L
      BY <2>1, <1>1
    <3>4. Len(b) = L - k /\ \A i \in 1 .. L - k : i \in 1 .. L - (k + 1) + 1 /\ k + 1 + i - 1 = k + i
      BY <3>2, <3>3
    <3> QED BY <3>2, <3>4
  <2> HIDE DEF a, b
  <2> DEFINE w == a \o b
  <2>5. /\ w \in Seq(Uploads) /\ Len(w) = L - 1
        /\ \A i \in 1 .. L - 1 : w[i] = IF i < k THEN s[i] ELSE s[i + 1]
    <3>1. /\ w \in Seq(Uploads) /\ Len(w) = Len(a) + Len(b)
          /\ \A i \in 1 .. Len(a) + Len(b) : w[i] = IF i <= Len(a) THEN a[i] ELSE b[i - Len(a)]
      BY <2>3, <2>4, ConcatProperties
    <3> HIDE DEF w
    <3>2. Len(a) + Len(b) = L - 1
      BY <2>1, <2>3, <2>4, <1>1
    <3>3. ASSUME NEW i \in 1 .. L - 1
          PROVE  w[i] = IF i < k THEN s[i] ELSE s[i + 1]
      <4>1. CASE i < k
        <5>1. i \in 1 .. k - 1 /\ i <= Len(a)
          BY <4>1, <2>1, <2>3, <1>1
        <5>2. w[i] = a[i]
          BY <5>1, <3>1, <3>2
        <5> QED BY <5>1, <5>2, <4>1, <2>3
      <4>2. CASE ~(i < k)
        <5>1. i - (k - 1) \in 1 .. L - k /\ ~(i <= Len(a)) /\ k + (i - (k - 1)) = i + 1
          BY <4>2, <2>1, <2>3, <1>1
        <5>2. w[i] = b[i - (k - 1)]
          BY <5>1, <3>1, <3>2, <2>3
        <5>3. b[i - (k - 1)] = s[k + (i - (k - 1))]
          BY <5>1, <2>4
        <5> QED BY <5>1, <5>2, <5>3, <4>2
      <4> QED BY <4>1, <4>2
    <3> QED BY <3>1, <3>2, <3>3
  <2> HIDE DEF w
  <2>6. \A n \in 1 .. L - 1 : w[n] # u /\ \E m \in 1 .. L : w[n] = s[m]
    <3> SUFFICES ASSUME NEW n \in 1 .. L - 1
                 PROVE  w[n] # u /\ \E m \in 1 .. L : w[n] = s[m]
      OBVIOUS
    <3>1. PICK m \in 1 .. L : w[n] = s[m] /\ m # k
      BY <2>5, <2>1, <1>1
    <3> QED BY <3>1, <2>1, <1>1
  <2>7. \A m \in 1 .. L : s[m] # u => \E n \in 1 .. L - 1 : w[n] = s[m]
    <3> SUFFICES ASSUME NEW m \in 1 .. L, s[m] # u
                 PROVE  \E n \in 1 .. L - 1 : w[n] = s[m]
      OBVIOUS
    <3>1. CASE m < k
      BY <3>1, <2>5, <2>1, <1>1
    <3>2. CASE m > k
      <4>1. m - 1 \in 1 .. L - 1 /\ ~(m - 1 < k) /\ m - 1 + 1 = m
        BY <3>2, <2>1, <1>1
      <4> QED BY <4>1, <2>5
    <3> QED BY <3>1, <3>2, <2>1, <1>1
  <2>8. \A m, n \in 1 .. L - 1 : w[m] = w[n] => m = n
    <3> SUFFICES ASSUME NEW m \in 1 .. L - 1, NEW n \in 1 .. L - 1, w[m] = w[n]
                 PROVE  m = n
      OBVIOUS
    <3> DEFINE At(i) == IF i < k THEN i ELSE i + 1
    <3>1. /\ At(m) \in 1 .. L /\ At(n) \in 1 .. L
          /\ w[m] = s[At(m)] /\ w[n] = s[At(n)]
      BY <2>5, <2>1, <1>1
    <3>2. At(m) = At(n)
      <4> HIDE DEF At
      <4> QED BY <3>1, <1>1
    <3> QED BY <3>2, <2>1, <1>1
  <2>9. Without(u) = w
    BY <2>2 DEF w
  <2> QED BY <2>5, <2>6, <2>7, <2>8, <2>9, Zenon
<1> QED BY <1>2, <1>3

\* As many rows as uploads that have one.
LEMMA RowsAreCounted ==
  ASSUME UploadsOK
  PROVE  Len(uploadRows) = Cardinality(Rows)
<1> DEFINE D == 1 .. Len(uploadRows)
<1>1. /\ Len(uploadRows) \in Nat /\ uploadRows \in [D -> Uploads]
      /\ \A m, n \in D : uploadRows[m] = uploadRows[n] => m = n
  BY LenProperties DEF UploadsOK
<1>2. IsFiniteSet(D) /\ Cardinality(D) = Len(uploadRows)
  BY <1>1, FS_Interval
<1>3. uploadRows \in Bijection(D, Rows)
  BY <1>1 DEF Bijection, Injection, Surjection, IsInjective, Rows
<1>4. ExistsBijection(D, Rows)
  BY <1>3 DEF ExistsBijection
<1> QED BY <1>2, <1>4, FS_Bijection

-----------------------------------------------------------------------------
\* A socket is made when the last one is closed, which was not the last that may be.
LEMMA SocketsKeep ==
  ASSUME LinkInv, SocketsOK, [Next]_vars
  PROVE  SocketsOK'
<1>1. /\ sock \in Seq(States) /\ Len(sock) \in Nat
      /\ MaxSockets \in Nat /\ MaxSockets > 0 /\ retries \in Nat
      /\ joined <=> Len(sock) > 0
      /\ ~joined => retries = 0
  BY LoungeAssumption, LenProperties DEF LinkInv, LinkOK
<1>2. ASSUME UNCHANGED sock
      PROVE  SocketsOK'
  BY <1>2 DEF SocketsOK
<1>3. ASSUME initializeSocketLink, Len(sock) < MaxSockets
      PROVE  SocketsOK'
  <2>1. /\ Len(sock') = Len(sock) + 1 /\ sock'[Len(sock')] = "connecting"
        /\ \A s \in 1 .. Len(sock) : sock'[s] = sock[s]
    BY <1>1, <1>3, SocketIsAdded
  <2>2. \A s \in 1 .. Len(sock') : s \in 1 .. Len(sock) \/ s = Len(sock')
    BY <1>1, <2>1
  <2>3. Len(sock') <= MaxSockets
    BY <1>1, <1>3, <2>1
  <2> QED BY <2>1, <2>2, <2>3 DEF SocketsOK
<1>4. CASE joinLoungeLobby
  <2>1. Len(sock) < MaxSockets /\ initializeSocketLink
    BY <1>4, <1>1 DEF joinLoungeLobby
  <2> QED BY <2>1, <1>3
<1>5. CASE Reconnect
  <2>1. retries > 0 /\ initializeSocketLink
    BY <1>5 DEF Reconnect
  <2>2. joined /\ Len(sock) \in 1 .. Len(sock)
    BY <2>1, <1>1
  <2>3. sock[Len(sock)] = "closed"
    BY <2>1, <2>2 DEF LinkInv, OneLink
  <2>4. Len(sock) < MaxSockets
    BY <2>2, <2>3 DEF SocketsOK
  <2> QED BY <2>1, <2>4, <1>3
<1>6. ASSUME NEW s \in 1 .. Len(sock), Breaks(s) \/ Link(s)
      PROVE  SocketsOK'
  <2>1. PICK t \in States : /\ sock' = [sock EXCEPT ![s] = t]
                            /\ t \in {"dead", "failed", "closed"} => s < MaxSockets
    <3>1. CASE Breaks(s)
      BY <3>1 DEF Breaks, States
    <3>2. CASE OnOpen(s)
      BY <3>2 DEF OnOpen, States
    <3>3. CASE OnError(s)
      BY <3>3 DEF OnError, States, SocketsOK
    <3>4. CASE OnClose(s)
      BY <3>4 DEF OnClose, States, SocketsOK
    <3> QED BY <1>6, <3>1, <3>2, <3>3, <3>4 DEF Link
  <2>2. /\ Len(sock') = Len(sock)
        /\ \A r \in 1 .. Len(sock) : sock'[r] = IF r = s THEN t ELSE sock[r]
    BY <1>1, <2>1, SocketChanges
  <2> QED BY <2>1, <2>2 DEF SocketsOK
<1>7. ASSUME NEW m, Hear(m)
      PROVE  UNCHANGED sock
  BY <1>7 DEF Hear, linkVars
<1>8. ASSUME NEW u, processSimulatedUpload(u) \/ UploadTick(u) \/ ReaderOnload(u)
      PROVE  UNCHANGED sock
  BY <1>8 DEF processSimulatedUpload, UploadTick, ReaderOnload, linkVars
<1>9. CASE Echo \/ transmitMessage \/ clearFeedScreen \/ handleSimulatorChange
           \/ BotTick \/ BotSays \/ UNCHANGED vars
  BY <1>9, <1>2 DEF Echo, transmitMessage, clearFeedScreen, handleSimulatorChange,
    BotTick, BotSays, vars, linkVars
<1> QED BY <1>2, <1>4, <1>5, <1>6, <1>7, <1>8, <1>9 DEF Next

-----------------------------------------------------------------------------
\* An upload begins: it gets the last row.
LEMMA UploadBegins ==
  ASSUME UploadsOK, NEW u \in Uploads, processSimulatedUpload(u)
  PROVE  UploadsOK'
<1>1. /\ upload[u] = "none" /\ upload' = [upload EXCEPT ![u] = "ticking"]
      /\ uploadRows' = Append(uploadRows, u)
      /\ UNCHANGED <<bar, percentage, flushed>>
  BY DEF processSimulatedUpload
<1>2. uploadRows \in Seq(Uploads) /\ Len(uploadRows) \in Nat
  BY LenProperties DEF UploadsOK
<1>3. /\ uploadRows' \in Seq(Uploads) /\ Len(uploadRows') = Len(uploadRows) + 1
      /\ uploadRows'[Len(uploadRows) + 1] = u
      /\ \A n \in 1 .. Len(uploadRows) : uploadRows'[n] = uploadRows[n]
  BY <1>1, <1>2, AppendProperties
<1>4. /\ upload' \in [Uploads -> {"none", "ticking", "reading", "done"}]
      /\ \A v \in Uploads : upload'[v] = IF v = u THEN "ticking" ELSE upload[v]
  BY <1>1 DEF UploadsOK
<1>5. \A n \in 1 .. Len(uploadRows) :
        uploadRows[n] \in Uploads /\ uploadRows[n] # u /\ upload[uploadRows[n]] = "ticking"
  BY <1>1, <1>2, ElementOfSeq DEF UploadsOK
<1>6. \A n \in 1 .. Len(uploadRows') : n \in 1 .. Len(uploadRows) \/ n = Len(uploadRows) + 1
  BY <1>2, <1>3
<1>7. \A n \in 1 .. Len(uploadRows') : upload'[uploadRows'[n]] = "ticking"
  BY <1>3, <1>4, <1>5, <1>6
<1>8. \A m, n \in 1 .. Len(uploadRows') : uploadRows'[m] = uploadRows'[n] => m = n
  <2> SUFFICES ASSUME NEW m \in 1 .. Len(uploadRows'), NEW n \in 1 .. Len(uploadRows'),
                      uploadRows'[m] = uploadRows'[n]
               PROVE  m = n
    OBVIOUS
  <2>1. CASE m \in 1 .. Len(uploadRows) /\ n \in 1 .. Len(uploadRows)
    <3>1. uploadRows[m] = uploadRows[n]
      BY <2>1, <1>3
    <3> QED BY <2>1, <3>1 DEF UploadsOK
  <2>2. CASE m = Len(uploadRows) + 1 \/ n = Len(uploadRows) + 1
    BY <2>2, <1>3, <1>5, <1>6
  <2> QED BY <2>1, <2>2, <1>6
<1>9. Rows' = Rows \cup {u}
  <2>1. Rows' \subseteq Rows \cup {u}
    BY <1>3, <1>6 DEF Rows
  <2>2. Rows \subseteq Rows'
    <3>1. \A n \in 1 .. Len(uploadRows) : n \in 1 .. Len(uploadRows')
      BY <1>2, <1>3
    <3> QED BY <1>3, <3>1 DEF Rows
  <2>3. u \in Rows'
    <3>1. Len(uploadRows) + 1 \in 1 .. Len(uploadRows')
      BY <1>2, <1>3
    <3> QED BY <1>3, <3>1 DEF Rows
  <2> QED BY <2>1, <2>2, <2>3
<1>10. \A v \in Uploads : upload'[v] = "ticking" => v \in Rows' \/ v \in flushed'
  BY <1>1, <1>4, <1>9 DEF UploadsOK
<1> QED BY <1>1, <1>3, <1>4, <1>7, <1>8, <1>10 DEF UploadsOK

\* An upload is completed: only its own row goes.
LEMMA UploadEnds ==
  ASSUME UploadsOK, NEW u \in Uploads, NEW t \in {"reading", "done"},
         upload' = [upload EXCEPT ![u] = t], uploadRows' = Without(u),
         percentage' \in [Uploads -> 0 .. Steps], bar' \in [Uploads -> 0 .. Steps],
         UNCHANGED flushed
  PROVE  UploadsOK'
<1>1. /\ uploadRows' \in Seq(Uploads)
      /\ \A n \in 1 .. Len(uploadRows') :
           uploadRows'[n] # u /\ \E m \in 1 .. Len(uploadRows) : uploadRows'[n] = uploadRows[m]
      /\ \A m \in 1 .. Len(uploadRows) :
           uploadRows[m] # u => \E n \in 1 .. Len(uploadRows') : uploadRows'[n] = uploadRows[m]
      /\ \A m, n \in 1 .. Len(uploadRows') : uploadRows'[m] = uploadRows'[n] => m = n
  <2> DEFINE w == Without(u)
  <2>1. /\ w \in Seq(Uploads)
        /\ \A n \in 1 .. Len(w) : w[n] # u /\ \E m \in 1 .. Len(uploadRows) : w[n] = uploadRows[m]
        /\ \A m \in 1 .. Len(uploadRows) :
             uploadRows[m] # u => \E n \in 1 .. Len(w) : w[n] = uploadRows[m]
        /\ \A m, n \in 1 .. Len(w) : w[m] = w[n] => m = n
    BY WithoutIsOthers
  <2>2. uploadRows' = w
    OBVIOUS
  <2> HIDE DEF w
  <2> QED BY <2>1, <2>2
<1>2. /\ upload' \in [Uploads -> {"none", "ticking", "reading", "done"}]
      /\ \A v \in Uploads : upload'[v] = IF v = u THEN t ELSE upload[v]
  BY DEF UploadsOK
<1>3. \A n \in 1 .. Len(uploadRows') : upload'[uploadRows'[n]] = "ticking"
  <2> SUFFICES ASSUME NEW n \in 1 .. Len(uploadRows')
               PROVE  upload'[uploadRows'[n]] = "ticking"
    OBVIOUS
  <2>1. PICK m \in 1 .. Len(uploadRows) : uploadRows'[n] = uploadRows[m]
    BY <1>1
  <2>2. upload[uploadRows[m]] = "ticking" /\ uploadRows'[n] # u /\ uploadRows'[n] \in Uploads
    BY <1>1, ElementOfSeq DEF UploadsOK
  <2> QED BY <2>1, <2>2, <1>2
<1>4. \A v \in Uploads : upload'[v] = "ticking" => v \in Rows' \/ v \in flushed'
  <2> SUFFICES ASSUME NEW v \in Uploads, upload'[v] = "ticking"
               PROVE  v \in Rows' \/ v \in flushed'
    OBVIOUS
  <2>1. v # u /\ upload[v] = "ticking"
    BY <1>2
  <2>2. CASE v \in flushed
    BY <2>2
  <2>3. CASE v \in Rows
    <3>1. PICK m \in 1 .. Len(uploadRows) : uploadRows[m] = v
      BY <2>3 DEF Rows
    <3>2. PICK n \in 1 .. Len(uploadRows') : uploadRows'[n] = v
      BY <3>1, <2>1, <1>1
    <3> QED BY <3>2 DEF Rows
  <2> QED BY <2>1, <2>2, <2>3 DEF UploadsOK
<1> QED BY <1>1, <1>2, <1>3, <1>4 DEF UploadsOK

\* A tick moves the bar of the oldest row, whosever it is.
LEMMA UploadTicks ==
  ASSUME UploadsOK, NEW u \in Uploads, UploadTick(u)
  PROVE  UploadsOK'
<1> DEFINE pct == IF percentage[u] < Steps THEN percentage[u] + 1 ELSE Steps
<1>1. pct \in 0 .. Steps
  BY LoungeAssumption DEF UploadsOK
<1>2. percentage' = [percentage EXCEPT ![u] = pct] /\ UNCHANGED flushed
  BY DEF UploadTick
<1>3. \/ UNCHANGED <<uploadRows, bar, upload>>
      \/ /\ uploadRows # <<>> /\ bar' = [bar EXCEPT ![Head(uploadRows)] = pct]
         /\ \/ UNCHANGED <<uploadRows, upload>>
            \/ uploadRows' = Without(u) /\ Completes(u)
  BY DEF UploadTick
<1> HIDE DEF pct
<1>4. percentage' \in [Uploads -> 0 .. Steps]
  BY <1>1, <1>2 DEF UploadsOK
<1>5. bar' \in [Uploads -> 0 .. Steps]
  BY <1>1, <1>3 DEF UploadsOK
<1>6. CASE UNCHANGED <<uploadRows, upload>>
  <2>1. Rows' = Rows
    BY <1>6 DEF Rows
  <2> QED BY <1>2, <1>4, <1>5, <1>6, <2>1 DEF UploadsOK
<1>7. CASE uploadRows' = Without(u) /\ Completes(u)
  <2>1. PICK t \in {"reading", "done"} : upload' = [upload EXCEPT ![u] = t]
    BY <1>7 DEF Completes
  <2> QED BY <1>2, <1>4, <1>5, <1>7, <2>1, UploadEnds
<1> QED BY <1>3, <1>6, <1>7

\* Flush takes all rows away, and they count as flushed.
LEMMA FlushKeeps ==
  ASSUME UploadsOK, clearFeedScreen
  PROVE  UploadsOK'
<1>1. /\ uploadRows' = <<>> /\ flushed' = flushed \cup Rows
      /\ UNCHANGED <<bar, upload, percentage>>
  BY DEF clearFeedScreen, Rows
<1>2. uploadRows' \in Seq(Uploads) /\ Len(uploadRows') = 0 /\ 1 .. Len(uploadRows') = {}
  BY <1>1, EmptySeq
<1>3. Rows \subseteq Uploads
  BY ElementOfSeq DEF UploadsOK, Rows
<1> QED BY <1>1, <1>2, <1>3 DEF UploadsOK

LEMMA UploadsKeep ==
  ASSUME UploadsOK, [Next]_vars
  PROVE  UploadsOK'
<1>1. ASSUME UNCHANGED upVars
      PROVE  UploadsOK'
  <2>1. Rows' = Rows
    BY <1>1 DEF upVars, Rows
  <2> QED BY <1>1, <2>1 DEF upVars, UploadsOK
<1>2. ASSUME NEW s, Breaks(s) \/ Link(s)
      PROVE  UNCHANGED upVars
  BY <1>2 DEF Breaks, Link, OnOpen, OnError, OnClose
<1>3. ASSUME NEW m, Hear(m)
      PROVE  UNCHANGED upVars
  BY <1>3 DEF Hear
<1>4. ASSUME NEW u \in Uploads, ReaderOnload(u)
      PROVE  UploadsOK'
  <2>1. /\ upload[u] = "reading" /\ upload' = [upload EXCEPT ![u] = "done"]
        /\ UNCHANGED <<uploadRows, bar, percentage, flushed>>
    BY <1>4 DEF ReaderOnload
  <2>2. /\ upload' \in [Uploads -> {"none", "ticking", "reading", "done"}]
        /\ \A v \in Uploads : upload'[v] = IF v = u THEN "done" ELSE upload[v]
    BY <2>1 DEF UploadsOK
  <2>3. \A n \in 1 .. Len(uploadRows) : uploadRows[n] \in Uploads /\ uploadRows[n] # u
    BY <2>1, ElementOfSeq DEF UploadsOK
  <2>4. Rows' = Rows
    BY <2>1 DEF Rows
  <2> QED BY <2>1, <2>2, <2>3, <2>4 DEF UploadsOK
<1>5. CASE joinLoungeLobby \/ Reconnect \/ Echo \/ transmitMessage \/ handleSimulatorChange
           \/ BotTick \/ BotSays \/ UNCHANGED vars
  <2>1. UNCHANGED upVars
    BY <1>5 DEF joinLoungeLobby, Reconnect, Echo, transmitMessage, handleSimulatorChange,
      BotTick, BotSays, vars
  <2> QED BY <2>1, <1>1
<1> QED BY <1>1, <1>2, <1>3, <1>4, <1>5, UploadBegins, UploadTicks, FlushKeeps DEF Next

-----------------------------------------------------------------------------
\* What is sent waits for its echo, and only a joined page has an open socket.
LEMMA SendKeeps ==
  ASSUME LinkInv, MessagesOK, NEW who \in {Self, Bot}, Send(who)
  PROVE  outbox' \in Seq({Self, Bot}) /\ (outbox' # <<>> => joined)
<1>1. joined <=> Len(sock) > 0
  BY DEF LinkInv, LinkOK
<1>2. Len(sock) \in Nat
  BY LenProperties DEF LinkInv, LinkOK
<1>3. IsOpen => joined
  BY <1>1, <1>2 DEF IsOpen, Current
<1>4. CASE IsOpen
  BY <1>3, <1>4, AppendProperties DEF Send, MessagesOK
<1>5. CASE ~IsOpen
  BY <1>5 DEF Send, MessagesOK
<1> QED BY <1>4, <1>5

\* A message gets a row, is counted, and puts its sender on the list.
LEMMA MessageKeeps ==
  ASSUME MessagesOK, NEW m \in Names, m = Self => joined, renderIncomingMsg(m),
         outbox' \in Seq({Self, Bot}), outbox' # <<>> => joined, UNCHANGED joined
  PROVE  MessagesOK'
<1>1. /\ clientLogsCount' = clientLogsCount + 1 /\ msgRows' = msgRows + 1
      /\ senders' = senders \cup {m}
      /\ clientParticipants' = IF m \in {Admin, Self} THEN clientParticipants
                                                     ELSE clientParticipants \cup {m}
  BY DEF renderIncomingMsg, registerParticipant
<1>2. /\ clientParticipants \subseteq clientParticipants'
      /\ m # Admin => m \in clientParticipants'
      /\ clientParticipants' \subseteq Names \ {Admin}
  BY <1>1 DEF MessagesOK
<1>3. msgRows' \in Nat /\ clientLogsCount' = msgRows'
  BY <1>1 DEF MessagesOK
<1>4. senders' \subseteq Names /\ senders' \ {Admin} \subseteq clientParticipants'
  BY <1>1, <1>2 DEF MessagesOK
<1>5. joined' => Self \in clientParticipants'
  BY <1>2 DEF MessagesOK
<1>6. Names' = Names
  BY DEF Names
<1> QED BY <1>2, <1>3, <1>4, <1>5, <1>6 DEF MessagesOK

LEMMA MessagesKeep ==
  ASSUME LinkInv, MessagesOK, [Next]_vars
  PROVE  MessagesOK'
<1>1. ASSUME UNCHANGED <<joined, feedVars>>, outbox' \in Seq({Self, Bot}), outbox' # <<>> => joined
      PROVE  MessagesOK'
  BY <1>1 DEF feedVars, MessagesOK, Names
<1>2. ASSUME UNCHANGED <<joined, outbox, feedVars>>
      PROVE  MessagesOK'
  BY <1>1, <1>2 DEF MessagesOK
<1>3. CASE joinLoungeLobby
  <2>1. /\ clientParticipants' = clientParticipants \cup {Self} /\ joined'
        /\ UNCHANGED <<outbox, senders, msgRows, clientLogsCount>>
    BY <1>3 DEF joinLoungeLobby
  <2>2. Self \in Names \ {Admin}
    BY LoungeAssumption DEF Names
  <2> QED BY <2>1, <2>2 DEF MessagesOK, Names
<1>4. ASSUME NEW s, Breaks(s)
      PROVE  MessagesOK'
  <2>1. outbox' = <<>> /\ UNCHANGED <<joined, feedVars>>
    BY <1>4 DEF Breaks
  <2> QED BY <2>1, <1>1, EmptySeq
<1>5. ASSUME NEW s, Link(s)
      PROVE  MessagesOK'
  BY <1>5, <1>2 DEF Link, OnOpen, OnError, OnClose
<1>6. ASSUME NEW m \in Others \cup {Admin}, Hear(m)
      PROVE  MessagesOK'
  <2>1. renderIncomingMsg(m) /\ UNCHANGED <<joined, outbox>>
    BY <1>6 DEF Hear, linkVars
  <2>2. m \in Names /\ m # Self
    BY LoungeAssumption DEF Names
  <2> QED BY <2>1, <2>2, MessageKeeps DEF MessagesOK
<1>7. CASE Echo
  <2>1. /\ outbox # <<>> /\ outbox' = Tail(outbox) /\ UNCHANGED joined
        /\ renderIncomingMsg(Head(outbox)) \/ UNCHANGED feedVars
    BY <1>7 DEF Echo, linkVars
  <2>2. Head(outbox) \in {Self, Bot} /\ outbox' \in Seq({Self, Bot}) /\ joined
    BY <2>1, HeadTailProperties DEF MessagesOK
  <2>3. Head(outbox) \in Names
    BY <2>2 DEF Names
  <2> QED BY <2>1, <2>2, <2>3, <1>1, MessageKeeps
<1>8. ASSUME NEW who \in {Self, Bot}, Send(who), UNCHANGED <<joined, feedVars>>
      PROVE  MessagesOK'
  BY <1>1, <1>8, SendKeeps
<1>9. CASE transmitMessage \/ BotSays
  <2>1. Send(Self) \/ Send(Bot)
    BY <1>9 DEF transmitMessage, BotSays
  <2>2. UNCHANGED <<joined, feedVars>>
    BY <1>9 DEF transmitMessage, BotSays, linkVars
  <2> QED BY <2>1, <2>2, <1>8
<1>10. CASE clearFeedScreen
  <2>1. /\ msgRows' = 0 /\ clientLogsCount' = 0
        /\ UNCHANGED <<joined, outbox, clientParticipants, senders>>
    BY <1>10 DEF clearFeedScreen, ResetCount, linkVars
  <2> QED BY <2>1 DEF MessagesOK, Names
<1>11. ASSUME NEW u \in Uploads, processSimulatedUpload(u)
       PROVE  MessagesOK'
  BY <1>11, <1>2 DEF processSimulatedUpload, linkVars
<1>12. ASSUME NEW u \in Uploads, UploadTick(u) \/ ReaderOnload(u)
       PROVE  MessagesOK'
  <2>1. UNCHANGED <<joined, feedVars>> /\ (UNCHANGED outbox \/ Send(Self))
    BY <1>12 DEF UploadTick, ReaderOnload, linkVars
  <2> QED BY <2>1, <1>2, <1>8
<1>13. CASE Reconnect \/ handleSimulatorChange \/ BotTick \/ UNCHANGED vars
  <2>1. UNCHANGED <<joined, outbox, feedVars>>
    BY <1>13 DEF Reconnect, handleSimulatorChange, BotTick, vars, linkVars
  <2> QED BY <2>1, <1>2
<1> QED BY <1>3, <1>4, <1>5, <1>6, <1>7, <1>9, <1>10, <1>11, <1>12, <1>13 DEF Next

\* The simulation is on or off, and a bot types or not.
LEMMA BotKeeps ==
  ASSUME BotOK, [Next]_vars
  PROVE  BotOK'
<1>1. ASSUME UNCHANGED botVars
      PROVE  BotOK'
  BY <1>1, Zenon DEF botVars, BotOK
<1>2. CASE handleSimulatorChange
  BY <1>2, Zenon DEF handleSimulatorChange, BotOK
<1>3. CASE BotTick
  BY <1>3, Zenon DEF BotTick, BotOK
<1>4. CASE BotSays
  BY <1>4, Zenon DEF BotSays, BotOK
<1>5. ASSUME NEW s, Breaks(s) \/ Link(s)
      PROVE  UNCHANGED botVars
  BY <1>5 DEF Breaks, Link, OnOpen, OnError, OnClose
<1>6. ASSUME NEW u, processSimulatedUpload(u) \/ UploadTick(u) \/ ReaderOnload(u)
      PROVE  UNCHANGED botVars
  BY <1>6 DEF processSimulatedUpload, UploadTick, ReaderOnload
<1>7. ASSUME NEW m, Hear(m)
      PROVE  UNCHANGED botVars
  BY <1>7 DEF Hear
<1>8. CASE joinLoungeLobby \/ Reconnect \/ Echo \/ transmitMessage \/ clearFeedScreen
           \/ UNCHANGED vars
  <2>1. UNCHANGED botVars
    BY <1>8 DEF joinLoungeLobby, Reconnect, Echo, transmitMessage, clearFeedScreen, vars
  <2> QED BY <2>1, <1>1
<1> QED BY <1>1, <1>2, <1>3, <1>4, <1>5, <1>6, <1>7, <1>8 DEF Next

\* The counter is the number of message rows, everybody who was heard is listed,
\* and a running upload has its row unless it was flushed, on a page of any number
\* of sockets, messages and uploads (1893-1922, 2131-2141, 2196-2201).
THEOREM FeedTellsTheTruth == Spec => []FeedIsTrue
<1>1. Init => SocketsOK /\ UploadsOK /\ MessagesOK /\ BotOK
  <2> SUFFICES ASSUME Init
               PROVE  SocketsOK /\ UploadsOK /\ MessagesOK /\ BotOK
    OBVIOUS
  <2>1. /\ sock = <<>> /\ outbox = <<>> /\ uploadRows = <<>> /\ Len(<<>>) = 0
        /\ uploadRows \in Seq(Uploads) /\ outbox \in Seq({Self, Bot})
    BY EmptySeq DEF Init
  <2>2. SocketsOK
    BY <2>1, LoungeAssumption DEF SocketsOK
  <2>3. UploadsOK
    BY <2>1, LoungeAssumption DEF Init, UploadsOK
  <2>4. MessagesOK
    BY <2>1 DEF Init, MessagesOK
  <2>5. BotOK
    BY Zenon DEF Init, BotOK
  <2> QED BY <2>2, <2>3, <2>4, <2>5
<1>2. LinkInv /\ SocketsOK /\ UploadsOK /\ MessagesOK /\ BotOK /\ [Next]_vars
        => (SocketsOK /\ UploadsOK /\ MessagesOK /\ BotOK)'
  BY SocketsKeep, UploadsKeep, MessagesKeep, BotKeeps
<1>3. FeedInv => FeedIsTrue
  <2> SUFFICES ASSUME FeedInv
               PROVE  FeedIsTrue
    OBVIOUS
  <2>1. LinkInv /\ SocketsOK /\ UploadsOK /\ MessagesOK /\ BotOK
    BY DEF FeedInv
  <2>2. Len(uploadRows) = Cardinality(Rows)
    BY <2>1, RowsAreCounted
  <2>3. Rows \subseteq {u \in Uploads : upload[u] = "ticking"}
    BY <2>1, ElementOfSeq DEF UploadsOK, Rows
  <2>4. TypeOK
    BY <2>1, <2>2, <2>3, Zenon
      DEF LinkInv, LinkOK, States, SocketsOK, UploadsOK, MessagesOK, BotOK, TypeOK
  <2> QED BY <2>1, <2>4 DEF UploadsOK, MessagesOK, FeedIsTrue
<1> QED BY <1>1, <1>2, <1>3, LinkInvHolds, PTL DEF Spec, FeedInv

-----------------------------------------------------------------------------
(* The main program over the two servers.                                   *)

\* The main program's own part: the ports belong to the chat only while it runs,
\* and the web side is at most the message behind that /broadcast is at.
MainOK ==
  /\ ProgramsTypeOK
  /\ mpc = "start" => webPort # "chat" /\ web = "none"
  /\ tAdmin \in 0 .. MaxAdmin /\ wAdmin \in 0 .. MaxAdmin /\ written \in Nat
  /\ wAdmin = tAdmin - (IF mpc = "toWeb" THEN 1 ELSE 0)

\* What is on the way to the browser, in two parts: what was offered to it and
\* what the broadcaster has still to serve, which is the later part.
Word == {Operator} \X (1 .. MaxAdmin)
Given(q) == \A i \in DOMAIN q : q[i][2] \in (1 .. wAdmin) \ webMissed
Holds(q, n) == \E i \in DOMAIN q : q[i][2] = n
NoneLost == \A n \in (1 .. wAdmin) \ webMissed : Holds(Offered, n) \/ Holds(wBcast, n)
WordsOK ==
  /\ wReceived \in [{Browser} -> Seq(Word)] /\ wWriting \in [{Browser} -> Seq(Word)]
  /\ wSendQ \in [{Browser} -> Seq(Word)] /\ wBcast \in Seq(Word)
  /\ Given(Offered) /\ Given(wBcast) /\ webMissed \subseteq 1 .. wAdmin
  /\ Increasing(Offered) /\ Increasing(wBcast)
  /\ \A i \in DOMAIN Offered, j \in DOMAIN wBcast : Offered[i][2] < wBcast[j][2]
  /\ NoneLost
ProgramsInv == MainOK /\ WordsOK

wordVars == <<wReceived, wWriting, wSendQ, wBcast, webMissed, wAdmin>>

LEMMA ProgramsStart == ProgramsInit => ProgramsInv
<1> SUFFICES ASSUME ProgramsInit PROVE ProgramsInv
  OBVIOUS
<1>1. MainOK
  BY ProgramsAssumption DEF ProgramsInit, T!Init, W!Init, W!HubInit, MainOK, ProgramsTypeOK, Running
<1>2. /\ wReceived = [c \in {Browser} |-> <<>>] /\ wWriting = [c \in {Browser} |-> <<>>]
      /\ wSendQ = [c \in {Browser} |-> <<>>] /\ wBcast = <<>> /\ webMissed = {} /\ wAdmin = 0
  BY DEF ProgramsInit, W!Init, W!HubInit
<1>3. <<>> \in Seq(Word) /\ Offered = <<>>
  BY <1>2 DEF Offered
<1>4. WordsOK
  BY <1>2, <1>3 DEF WordsOK, Given, Increasing, NoneLost
<1> QED BY <1>1, <1>4 DEF ProgramsInv

LEMMA WordsStay ==
  ASSUME WordsOK, UNCHANGED wordVars
  PROVE  WordsOK'
BY DEF WordsOK, wordVars, Offered, Given, Increasing, NoneLost, Holds

\* /quit ends the servers and with them everything that was on the way.
LEMMA QuitKeeps ==
  ASSUME ProgramsInv, Quit
  PROVE  ProgramsInv'
<1>1. /\ (wReceived = [c \in {Browser} |-> <<>>])' /\ (wWriting = [c \in {Browser} |-> <<>>])'
      /\ (wSendQ = [c \in {Browser} |-> <<>>])' /\ (wBcast = <<>>)' /\ (webMissed = {})'
      /\ (wAdmin = 0)'
  BY DEF Quit, ServersGone
<1>2. <<>> \in Seq(Word) /\ (Offered = <<>>)'
  BY <1>1 DEF Offered
<1>3. WordsOK'
  BY <1>1, <1>2 DEF WordsOK, Given, Increasing, NoneLost
<1>4. MainOK'
  BY ProgramsAssumption
     DEF ProgramsInv, MainOK, ProgramsTypeOK, Quit, ServersGone, Freed, Running, peerVars, ownVars
<1> QED BY <1>3, <1>4 DEF ProgramsInv

\* The steps of the main program but /quit, of the client and of another
\* program at its port: no word moves, but for the call of the web side.
LEMMA MainMoves ==
  ASSUME MainOK,
         \/ NewServer \/ ListenAndServe \/ CommandBroadcast \/ BroadcastTcp
         \/ OtherWrites \/ OtherHangsUp
         \/ NewChatClient \/ SendMessage \/ Receiver \/ TakeMessage \/ Close
  PROVE  MainOK' /\ UNCHANGED wordVars
<1> USE ProgramsAssumption
        DEF MainOK, ProgramsTypeOK, Running, wordVars, wHub, webVars, tHub, tcpVars, mainVars,
            peerVars, ownVars, Elsewhere
<1>1. CASE NewServer
  BY <1>1 DEF NewServer
<1>2. CASE ListenAndServe
  BY <1>2 DEF ListenAndServe
<1>3. CASE CommandBroadcast
  BY <1>3 DEF CommandBroadcast, FirstCall
<1>4. CASE BroadcastTcp
  BY <1>4 DEF BroadcastTcp, T!BroadcastMessage
<1>5. CASE OtherWrites
  BY <1>5 DEF OtherWrites
<1>6. CASE OtherHangsUp
  BY <1>6 DEF OtherHangsUp
<1>7. CASE NewChatClient
  BY <1>7 DEF NewChatClient
<1>8. CASE SendMessage
  BY <1>8 DEF SendMessage
<1>9. CASE Receiver
  <2>1. CASE ReadString
    BY <2>1 DEF ReadString
  <2>2. CASE PutMessage
    BY <2>2 DEF PutMessage
  <2>3. CASE ReadFails
    BY <2>3 DEF ReadFails
  <2>4. CASE DoneTaken
    BY <2>4 DEF DoneTaken, DeferredClose
  <2> QED BY <1>9, <2>1, <2>2, <2>3, <2>4 DEF Receiver
<1>10. CASE TakeMessage
  BY <1>10 DEF TakeMessage
<1>11. CASE Close
  BY <1>11 DEF Close
<1> QED BY <1>1, <1>2, <1>3, <1>4, <1>5, <1>6, <1>7, <1>8, <1>9, <1>10, <1>11

\* The TCP server and its broadcaster touch neither the web side nor the count
\* of the operator's messages.
LEMMA TcpSideMoves ==
  ASSUME MainOK, TcpServer \/ TcpBroadcaster
  PROVE  MainOK' /\ UNCHANGED wordVars
<1>1. UNCHANGED <<webVars, mainVars, peerVars, ownVars>> /\ tAdmin' = tAdmin
  <2>1. CASE TcpBroadcaster
    BY <2>1 DEF TcpBroadcaster, Rest
  <2>2. CASE TcpServer
    BY <2>2 DEF TcpServer, Rest, TcpAccept, OpenFor, EndFor, TcpHandler, T!Accept, T!ReadLine,
                T!ReadFails, T!HandOver, T!Welcome, T!Goodbye, T!AskRemoval, T!Close
  <2> QED BY <2>1, <2>2
<1> QED BY <1>1 DEF MainOK, ProgramsTypeOK, Running, wordVars, wHub, webVars, mainVars, peerVars,
                    ownVars

-----------------------------------------------------------------------------
(* The words on the web side.                                               *)

LEMMA HeadIsFirst ==
  ASSUME NEW S, NEW s \in Seq(S), s # <<>>
  PROVE  /\ Head(s) \in S /\ Tail(s) \in Seq(S) /\ <<Head(s)>> \o Tail(s) = s
         /\ 1 \in DOMAIN s /\ Head(s) = s[1]
         /\ \A i \in DOMAIN Tail(s) : i + 1 \in DOMAIN s /\ i + 1 > 1 /\ Tail(s)[i] = s[i + 1]
<1>1. /\ Head(s) \in S /\ Tail(s) \in Seq(S) /\ Len(Tail(s)) = Len(s) - 1
      /\ \A i \in 1 .. Len(Tail(s)) : Tail(s)[i] = s[i + 1]
  BY HeadTailProperties
<1>2. Head(s) = s[1] /\ Len(s) \in Nat /\ Len(s) # 0 /\ DOMAIN s = 1 .. Len(s)
      /\ DOMAIN Tail(s) = 1 .. Len(Tail(s))
  BY <1>1, EmptySeq, LenProperties
<1> DEFINE h == <<Head(s)>>
           t == Tail(s)
<1>3. h \in Seq(S) /\ Len(h) = 1 /\ h[1] = s[1]
  BY <1>1, <1>2
<1>4. t \in Seq(S) /\ Len(t) = Len(s) - 1 /\ \A i \in 1 .. Len(t) : t[i] = s[i + 1]
  BY <1>1
<1> HIDE DEF h, t
<1>5. /\ h \o t \in Seq(S) /\ Len(h \o t) = Len(s)
      /\ \A i \in 1 .. Len(s) : (h \o t)[i] = IF i <= 1 THEN h[i] ELSE t[i - 1]
  <2>1. /\ h \o t \in Seq(S) /\ Len(h \o t) = Len(h) + Len(t)
        /\ \A i \in 1 .. Len(h) + Len(t) : (h \o t)[i] = IF i <= Len(h) THEN h[i] ELSE t[i - Len(h)]
    <3>1. h \in Seq(S) /\ t \in Seq(S)
      BY <1>3, <1>4
    <3> QED BY <3>1, ConcatProperties, Zenon
  <2>2. Len(h) + Len(t) = Len(s)
    BY <1>2, <1>3, <1>4
  <2> QED BY <2>1, <2>2, <1>3
<1>6. \A i \in 1 .. Len(s) : (h \o t)[i] = s[i]
  BY <1>2, <1>3, <1>4, <1>5
<1>7. h \o t = s
  BY <1>5, <1>6, SeqEqual
<1> QED BY <1>1, <1>2, <1>7 DEF h, t

LEMMA OfferedIsWords ==
  ASSUME WordsOK
  PROVE  /\ wReceived[Browser] \in Seq(Word) /\ wWriting[Browser] \in Seq(Word)
         /\ wSendQ[Browser] \in Seq(Word)
         /\ wReceived[Browser] \o wWriting[Browser] \in Seq(Word) /\ Offered \in Seq(Word)
<1>1. /\ wReceived[Browser] \in Seq(Word) /\ wWriting[Browser] \in Seq(Word)
      /\ wSendQ[Browser] \in Seq(Word)
  BY DEF WordsOK
<1>2. wReceived[Browser] \o wWriting[Browser] \in Seq(Word)
  BY <1>1, ConcatProperties
<1>3. Offered \in Seq(Word)
  BY <1>1, <1>2, ConcatProperties DEF Offered
<1> QED BY <1>1, <1>2, <1>3

\* The writer passes a word on, and their order stays.
LEMMA WriterKeepsWords ==
  ASSUME WordsOK, W!WriterTakes(Browser) \/ W!WriterWrites(Browser), UNCHANGED webMissed
  PROVE  WordsOK'
<1> DEFINE r == wReceived[Browser]
           w == wWriting[Browser]
           s == wSendQ[Browser]
<1>1. r \in Seq(Word) /\ w \in Seq(Word) /\ s \in Seq(Word) /\ r \o w \in Seq(Word)
  BY OfferedIsWords
<1>2. UNCHANGED <<wBcast, wAdmin, webMissed>>
  BY DEF W!WriterTakes, W!WriterWrites, W!hubVars
<1>3. /\ wReceived' \in [{Browser} -> Seq(Word)] /\ wWriting' \in [{Browser} -> Seq(Word)]
      /\ wSendQ' \in [{Browser} -> Seq(Word)] /\ Offered' = Offered
  <2>1. CASE W!WriterTakes(Browser)
    <3>1. /\ w = <<>> /\ s # <<>> /\ wReceived' = wReceived
          /\ wWriting' = [wWriting EXCEPT ![Browser] = <<Head(s)>>]
          /\ wSendQ' = [wSendQ EXCEPT ![Browser] = Tail(s)]
      BY <2>1 DEF W!WriterTakes
    <3>2. Head(s) \in Word /\ Tail(s) \in Seq(Word) /\ <<Head(s)>> \o Tail(s) = s
      BY <1>1, <3>1, HeadIsFirst
    <3>3. <<Head(s)>> \in Seq(Word)
      BY <3>2
    <3>4. (r \o <<Head(s)>>) \o Tail(s) = r \o s /\ r \o w = r
      <4>1. (r \o <<Head(s)>>) \o Tail(s) = r \o (<<Head(s)>> \o Tail(s))
        <5> DEFINE e == <<Head(s)>>
                   t == Tail(s)
        <5>1. e \in Seq(Word) /\ t \in Seq(Word)
          BY <3>2, <3>3
        <5> HIDE DEF e, t, r
        <5>2. (r \o e) \o t = r \o (e \o t)
          BY <1>1, <5>1, ConcatAssociative
        <5> QED BY <5>2 DEF e, t
      <4>2. r \o <<>> = r
        BY <1>1, ConcatEmptySeq
      <4> QED BY <4>1, <4>2, <3>1, <3>2, Zenon
    <3>5. wWriting'[Browser] = <<Head(s)>> /\ wSendQ'[Browser] = Tail(s)
      BY <3>1 DEF WordsOK
    <3>6. /\ wReceived' \in [{Browser} -> Seq(Word)] /\ wWriting' \in [{Browser} -> Seq(Word)]
          /\ wSendQ' \in [{Browser} -> Seq(Word)]
      BY <3>1, <3>2, <3>3 DEF WordsOK
    <3> QED BY <3>1, <3>4, <3>5, <3>6 DEF Offered
  <2>2. CASE W!WriterWrites(Browser)
    <3>1. /\ wReceived' = [wReceived EXCEPT ![Browser] = r \o w] /\ wSendQ' = wSendQ
          /\ wWriting' = [wWriting EXCEPT ![Browser] = <<>>]
      BY <2>2 DEF W!WriterWrites, W!hubVars
    <3>2. <<>> \in Seq(Word) /\ (r \o w) \o <<>> = r \o w
      BY <1>1, ConcatEmptySeq
    <3>3. wReceived'[Browser] = r \o w /\ wWriting'[Browser] = <<>>
      BY <3>1 DEF WordsOK
    <3>4. /\ wReceived' \in [{Browser} -> Seq(Word)] /\ wWriting' \in [{Browser} -> Seq(Word)]
          /\ wSendQ' \in [{Browser} -> Seq(Word)]
      BY <1>1, <3>1, <3>2 DEF WordsOK
    <3> QED BY <3>1, <3>2, <3>3, <3>4 DEF Offered
  <2> QED BY <2>1, <2>2
<1> QED BY <1>2, <1>3 DEF WordsOK, Given, NoneLost, Holds

\* The call of the web side: the new word comes after all the others, or it is
\* missed.
LEMMA OperatorsWord ==
  ASSUME MainOK, WordsOK, BroadcastWeb
  PROVE  MainOK' /\ WordsOK'
<1> DEFINE m == <<Operator, wAdmin + 1>>
<1>1. /\ mpc = "toWeb" /\ mpc' = "reading" /\ wAdmin < MaxAdmin /\ wAdmin' = wAdmin + 1
      /\ UNCHANGED <<wReceived, wWriting, wHpc, tcpPort, webPort, web, tcpVars, peerVars, ownVars>>
      /\ UNCHANGED wSendQ
  BY DEF BroadcastWeb, W!BroadcastToWebSocket, W!PutMessage, W!hubVars
<1>2. MainOK'
  BY <1>1, ProgramsAssumption DEF MainOK, ProgramsTypeOK, Running, tcpVars, peerVars, ownVars
<1>3. m \in Word /\ wAdmin \in Nat /\ wBcast \in Seq(Word)
  BY <1>1, ProgramsAssumption DEF MainOK, Word, WordsOK
<1>4. Offered' = Offered
  BY <1>1 DEF Offered
<1>5. CASE wBcast' = Append(wBcast, m) /\ webMissed' = webMissed
  <2>1. /\ Append(wBcast, m) \in Seq(Word) /\ Len(Append(wBcast, m)) = Len(wBcast) + 1
        /\ \A i \in 1 .. Len(wBcast) : Append(wBcast, m)[i] = wBcast[i]
        /\ Append(wBcast, m)[Len(wBcast) + 1] = m /\ Len(wBcast) \in Nat
    BY <1>3, AppendProperties, LenProperties
  <2>2. /\ DOMAIN wBcast = 1 .. Len(wBcast) /\ DOMAIN wBcast' = 1 .. Len(wBcast) + 1
    BY <1>3, <1>5, <2>1, LenProperties
  <2>3. webMissed' = webMissed
    BY <1>5
  <2>4. \A i \in DOMAIN wBcast' : wBcast'[i] = IF i \in DOMAIN wBcast THEN wBcast[i] ELSE m
    BY <1>5, <2>1, <2>2
  <2>5. wAdmin + 1 \in (1 .. wAdmin + 1) \ webMissed /\ m[2] = wAdmin + 1
    BY <1>3 DEF WordsOK
  <2>6. Given(Offered)' /\ Given(wBcast)'
    BY <1>1, <1>3, <1>4, <2>3, <2>4, <2>5 DEF WordsOK, Given
  <2>7. Increasing(wBcast)'
    <3> SUFFICES ASSUME NEW i \in DOMAIN wBcast', NEW j \in DOMAIN wBcast', i < j
                 PROVE  wBcast'[i][2] < wBcast'[j][2]
      BY DEF Increasing
    <3>1. i \in DOMAIN wBcast
      BY <2>1, <2>2
    <3>2. CASE j \in DOMAIN wBcast
      BY <3>1, <3>2, <2>4 DEF WordsOK, Increasing
    <3>3. CASE j \notin DOMAIN wBcast
      BY <3>1, <3>3, <2>4, <2>5, <1>3 DEF WordsOK, Given
    <3> QED BY <3>2, <3>3
  <2>8. \A i \in DOMAIN Offered, j \in DOMAIN wBcast' : Offered[i][2] < wBcast'[j][2]
    BY <1>3, <2>4, <2>5 DEF WordsOK, Given
  <2>9. NoneLost'
    <3>1. \A n : Holds(wBcast, n) => Holds(wBcast, n)'
      BY <2>2, <2>4 DEF Holds
    <3>2. \A n : Holds(Offered, n) => Holds(Offered, n)'
      BY <1>4 DEF Holds
    <3>3. Holds(wBcast, wAdmin)'
      <4>1. Len(wBcast) + 1 \in DOMAIN wBcast' /\ wBcast'[Len(wBcast) + 1][2] = wAdmin'
        BY <1>1, <1>5, <2>1, <2>2, <2>5
      <4> QED BY <4>1 DEF Holds
    <3>4. (1 .. wAdmin + 1) \ webMissed \subseteq ((1 .. wAdmin) \ webMissed) \cup {wAdmin + 1}
      BY <1>3
    <3> QED BY <1>1, <2>3, <3>1, <3>2, <3>3, <3>4 DEF WordsOK, NoneLost
  <2> QED BY <1>1, <1>2, <1>3, <1>4, <1>5, <2>1, <2>3, <2>6, <2>7, <2>8, <2>9 DEF WordsOK
<1>6. CASE wBcast' = wBcast /\ webMissed' = webMissed \cup {wAdmin + 1}
  <2>1. webMissed' = webMissed \cup {wAdmin + 1}
    BY <1>6
  <2>2. Given(Offered)' /\ Given(wBcast)'
    BY <1>1, <1>3, <1>4, <1>6, <2>1 DEF WordsOK, Given
  <2>3. (webMissed \subseteq 1 .. wAdmin)'
    BY <1>1, <1>3, <2>1 DEF WordsOK
  <2>4. NoneLost'
    <3>1. (1 .. wAdmin + 1) \ (webMissed \cup {wAdmin + 1}) \subseteq (1 .. wAdmin) \ webMissed
      BY <1>3
    <3> QED BY <1>1, <1>4, <1>6, <3>1 DEF WordsOK, NoneLost, Holds
  <2> QED BY <1>1, <1>2, <1>4, <1>6, <2>2, <2>3, <2>4 DEF WordsOK
<1>7. \/ wBcast' = Append(wBcast, m) /\ webMissed' = webMissed
      \/ wBcast' = wBcast /\ webMissed' = webMissed \cup {wAdmin + 1}
  BY DEF BroadcastWeb, W!BroadcastToWebSocket, W!PutMessage, W!Queued, W!hubVars
<1> QED BY <1>5, <1>6, <1>7

\* The broadcaster offers the first of the words still to be offered, which then
\* is the last that was offered, or passes the browser over, and the word is missed.
LEMMA WordIsServed ==
  ASSUME WordsOK, WebBroadcaster
  PROVE  WordsOK'
<1> DEFINE p == wReceived[Browser] \o wWriting[Browser]
           s == wSendQ[Browser]
           h == Head(wBcast)
<1>1. UNCHANGED <<wReceived, wWriting, wAdmin>> /\ W!Broadcaster
  BY DEF WebBroadcaster, W!Serve, W!wsVars
<1>2. CASE UNCHANGED <<wBcast, wSendQ>>
  <2>1. ~(Len(wBcast') < Len(wBcast))
    BY <1>2, LenProperties DEF WordsOK
  <2>2. webMissed' = webMissed
    BY <2>1 DEF WebBroadcaster
  <2> QED BY <1>1, <1>2, <2>2, WordsStay DEF wordVars
<1>3. CASE W!Broadcast
  <2>1. wBcast # <<>> /\ wBcast' = Tail(wBcast) /\ wBcast \in Seq(Word)
    BY <1>3 DEF W!Broadcast, W!Remaining, W!Rest, WordsOK
  <2>2. /\ h \in Word /\ Tail(wBcast) \in Seq(Word) /\ 1 \in DOMAIN wBcast /\ h = wBcast[1]
        /\ \A i \in DOMAIN Tail(wBcast) :
             i + 1 \in DOMAIN wBcast /\ i + 1 > 1 /\ Tail(wBcast)[i] = wBcast[i + 1]
    BY <2>1, HeadIsFirst
  <2>3. DOMAIN Tail(wBcast) \subseteq Nat
    BY <2>2, LenProperties
  <2>4. Increasing(wBcast)'
    BY <1>1, <2>1, <2>2, <2>3 DEF WordsOK, Increasing
  <2>5. /\ p \in Seq(Word) /\ s \in Seq(Word) /\ Offered = p \o s /\ Offered \in Seq(Word)
    BY OfferedIsWords DEF Offered
  <2>6. h[2] \in (1 .. wAdmin) \ webMissed /\ \A j \in DOMAIN wBcast' : h[2] < wBcast'[j][2]
    BY <2>1, <2>2 DEF WordsOK, Given, Increasing
  <2>7. \A i \in DOMAIN Offered : Offered[i][2] < h[2] /\ \A j \in DOMAIN wBcast' : Offered[i][2] < wBcast'[j][2]
    BY <2>1, <2>2 DEF WordsOK
  <2>8. /\ wSendQ' \in [{Browser} -> Seq(Word)]
        /\ wSendQ'[Browser] = IF Offers THEN Append(s, h) ELSE s
        /\ webMissed' = IF Offers THEN webMissed ELSE webMissed \cup {h[2]}
    <3>1. wSendQ' = [c \in {Browser} |-> IF c \in W!Registered /\ W!SendRoom(c)
                                           THEN Append(wSendQ[c], h) ELSE wSendQ[c]]
      BY <1>3 DEF W!Broadcast
    <3>2. Append(s, h) \in Seq(Word)
      BY <2>2, <2>5, AppendProperties
    <3>3. Len(wBcast') < Len(wBcast)
      BY <2>1, HeadTailProperties, LenProperties
    <3> QED BY <3>1, <3>2, <3>3, <2>5 DEF WebBroadcaster, Offers
  <2>11. \A n : Holds(wBcast, n) => n = h[2] \/ Holds(wBcast, n)'
    <3> SUFFICES ASSUME NEW i \in DOMAIN wBcast, i # 1
                 PROVE  \E k \in DOMAIN wBcast' : wBcast'[k][2] = wBcast[i][2]
      BY <2>2 DEF Holds
    <3>1. /\ DOMAIN wBcast = 1 .. Len(wBcast) /\ Len(wBcast) \in Nat
          /\ DOMAIN Tail(wBcast) = 1 .. Len(wBcast) - 1
      BY <2>1, <2>2, HeadTailProperties, LenProperties
    <3>2. i - 1 \in DOMAIN Tail(wBcast) /\ i - 1 + 1 = i
      BY <3>1
    <3> QED BY <3>2, <2>1, <2>2
  <2>9. CASE ~Offers
    <3>1. Offered' = Offered /\ webMissed' = webMissed \cup {h[2]}
      BY <1>1, <2>8, <2>9 DEF Offered
    <3>2. Given(Offered)' /\ (webMissed \subseteq 1 .. wAdmin)'
      <4>1. \A i \in DOMAIN Offered : Offered[i][2] \in (1 .. wAdmin) \ webMissed /\ Offered[i][2] # h[2]
        BY <2>6, <2>7 DEF WordsOK, Given
      <4>2. webMissed \subseteq 1 .. wAdmin /\ h[2] \in 1 .. wAdmin
        BY <2>6 DEF WordsOK
      <4> QED BY <1>1, <3>1, <4>1, <4>2 DEF Given
    <3>3. Given(wBcast)'
      BY <1>1, <2>1, <2>2, <2>6, <3>1 DEF WordsOK, Given
    <3>4. NoneLost'
      BY <1>1, <2>11, <3>1 DEF WordsOK, NoneLost, Holds
    <3> QED BY <1>1, <2>1, <2>2, <2>4, <2>7, <2>8, <3>1, <3>2, <3>3, <3>4 DEF WordsOK
  <2>10. CASE Offers
    <3>1. Offered' = Append(Offered, h)
      <4>1. Offered' = p \o Append(s, h)
        BY <1>1, <2>8, <2>10 DEF Offered
      <4>2. Append(s, h) = s \o <<h>> /\ <<h>> \in Seq(Word)
        BY <2>2, <2>5, AppendIsConcat
      <4>3. p \o (s \o <<h>>) = (p \o s) \o <<h>>
        <5> DEFINE e == <<h>>
        <5>1. e \in Seq(Word)
          BY <4>2
        <5> HIDE DEF p, s, e
        <5>2. (p \o s) \o e = p \o (s \o e)
          BY <2>5, <5>1, ConcatAssociative
        <5> QED BY <5>2 DEF e
      <4>4. Append(Offered, h) = Offered \o <<h>>
        BY <2>2, <2>5, AppendIsConcat
      <4> QED BY <4>1, <4>2, <4>3, <4>4, <2>5, Zenon
    <3> HIDE DEF h
    <3>2. /\ DOMAIN Offered = 1 .. Len(Offered) /\ DOMAIN Offered' = 1 .. Len(Offered) + 1
          /\ Len(Offered) \in Nat
          /\ \A i \in DOMAIN Offered' : Offered'[i] = IF i \in DOMAIN Offered THEN Offered[i] ELSE h
      <4>1. /\ Append(Offered, h) \in Seq(Word) /\ Len(Append(Offered, h)) = Len(Offered) + 1
            /\ \A i \in 1 .. Len(Offered) : Append(Offered, h)[i] = Offered[i]
            /\ Append(Offered, h)[Len(Offered) + 1] = h
        <5>1. Offered \in Seq(Word) /\ h \in Word
          BY <2>2, <2>5
        <5> QED BY <5>1, AppendProperties
      <4>2. Offered' \in Seq(Word) /\ Len(Offered') = Len(Offered) + 1
        BY <3>1, <4>1, Zenon
      <4>3. /\ DOMAIN Offered = 1 .. Len(Offered) /\ Len(Offered) \in Nat
            /\ DOMAIN Offered' = 1 .. Len(Offered')
        BY <2>5, <4>2, LenProperties, Zenon
      <4> QED BY <3>1, <4>1, <4>2, <4>3
    <3>3. Given(Offered)' /\ Given(wBcast)' /\ webMissed' = webMissed
      BY <1>1, <2>1, <2>2, <2>6, <2>8, <2>10, <3>2 DEF WordsOK, Given
    <3>6. NoneLost'
      <4>1. \A n : Holds(Offered, n) => Holds(Offered, n)'
        BY <3>2 DEF Holds
      <4>2. Len(Offered) + 1 \in DOMAIN Offered' /\ Offered'[Len(Offered) + 1] = h
        BY <3>2
      <4>3. \A n : n = h[2] => Holds(Offered, n)'
        BY <4>2 DEF Holds
      <4> QED BY <1>1, <2>11, <3>3, <4>1, <4>3 DEF WordsOK, NoneLost
    <3>4. \A i \in DOMAIN Offered' : \A j \in DOMAIN wBcast' : Offered'[i][2] < wBcast'[j][2]
      BY <2>6, <2>7, <3>2
    <3>5. Increasing(Offered)'
      <4> SUFFICES ASSUME NEW i \in DOMAIN Offered', NEW j \in DOMAIN Offered', i < j
                   PROVE  Offered'[i][2] < Offered'[j][2]
        BY DEF Increasing
      <4>1. i \in DOMAIN Offered
        BY <3>2
      <4>2. CASE j \in DOMAIN Offered
        BY <4>1, <4>2, <3>2 DEF WordsOK, Increasing
      <4>3. CASE j \notin DOMAIN Offered
        BY <4>1, <4>3, <3>2, <2>7
      <4> QED BY <4>2, <4>3
    <3> QED BY <1>1, <2>1, <2>2, <2>4, <2>8, <3>3, <3>4, <3>5, <3>6 DEF WordsOK
  <2> QED BY <2>9, <2>10
<1> QED BY <1>1, <1>2, <1>3 DEF W!Broadcaster, W!Register, W!Unregister

\* The web server registers the browser and writes to it; its broadcaster serves.
LEMMA WebSideMoves ==
  ASSUME MainOK, WordsOK, WebServer \/ WebBroadcaster
  PROVE  MainOK' /\ WordsOK'
<1>1. CASE WebBroadcaster
  <2>1. /\ UNCHANGED <<tcpPort, webPort, mpc, web, tcpVars, peerVars, ownVars>>
        /\ wAdmin' = wAdmin /\ wHpc' = wHpc
    BY <1>1 DEF WebBroadcaster, W!Serve, W!wsVars
  <2>2. MainOK'
    BY <2>1 DEF MainOK, ProgramsTypeOK, Running, tcpVars, peerVars, ownVars
  <2> QED BY <1>1, <2>2, WordIsServed
<1>2. CASE WebServer
  <2>1. UNCHANGED <<tcpVars, mainVars, peerVars, ownVars>> /\ wAdmin' = wAdmin
    BY <1>2 DEF WebServer, Rest, W!Upgrade, W!HandOver, W!WriterTakes, W!WriterWrites
  <2>2. wHpc'[Browser] # "new" => web = "serving"
    <3>1. \/ web = "serving" \/ UNCHANGED wHpc \/ wHpc[Browser] = "accepted"
      BY <1>2 DEF WebServer, W!HandOver, W!Goto, W!WriterTakes, W!WriterWrites
    <3> QED BY <3>1 DEF MainOK, ProgramsTypeOK
  <2>3. MainOK'
    BY <2>1, <2>2 DEF MainOK, ProgramsTypeOK, Running, tcpVars, mainVars, peerVars, ownVars
  <2>4. WordsOK'
    <3>1. CASE W!Upgrade(Browser) \/ W!HandOver(Browser)
      BY <3>1, <2>1, WordsStay
         DEF W!Upgrade, W!Arrive, W!HandOver, W!hubVars, W!PutAdd, wordVars, mainVars
    <3>2. CASE W!WriterTakes(Browser) \/ W!WriterWrites(Browser)
      BY <3>2, <2>1, WriterKeepsWords DEF mainVars
    <3> QED BY <1>2, <3>1, <3>2 DEF WebServer
  <2> QED BY <2>3, <2>4
<1> QED BY <1>1, <1>2

LEMMA NextKeepsPrograms == ProgramsInv /\ [ProgramsNext]_programsVars => ProgramsInv'
<1> SUFFICES ASSUME ProgramsInv, [ProgramsNext]_programsVars PROVE ProgramsInv'
  OBVIOUS
<1>1. MainOK /\ WordsOK
  BY DEF ProgramsInv
<1>2. CASE \/ NewServer \/ ListenAndServe \/ CommandBroadcast \/ BroadcastTcp
           \/ OtherWrites \/ OtherHangsUp
           \/ NewChatClient \/ SendMessage \/ Receiver \/ TakeMessage \/ Close
  BY <1>1, <1>2, MainMoves, WordsStay DEF ProgramsInv
<1>3. CASE TcpServer \/ TcpBroadcaster
  BY <1>1, <1>3, TcpSideMoves, WordsStay DEF ProgramsInv
<1>4. CASE WebServer \/ WebBroadcaster
  BY <1>1, <1>4, WebSideMoves DEF ProgramsInv
<1>5. CASE BroadcastWeb
  BY <1>1, <1>5, OperatorsWord DEF ProgramsInv
<1>6. CASE Quit
  BY <1>6, QuitKeeps
<1>7. CASE UNCHANGED programsVars
  <2>1. UNCHANGED wordVars
    BY <1>7 DEF programsVars, wordVars, wHub, webVars, mainVars
  <2>2. MainOK'
    BY <1>1, <1>7 DEF MainOK, ProgramsTypeOK, Running, programsVars, tcpVars, webVars, mainVars,
                      peerVars, ownVars
  <2> QED BY <1>1, <2>1, <2>2, WordsStay DEF ProgramsInv
<1> QED BY <1>2, <1>3, <1>4, <1>5, <1>6, <1>7 DEF ProgramsNext

\* The operator's messages reach the browser in the order in which the TCP side
\* has taken them, none twice: what was offered to the browser and what is still to
\* be offered are together all of them but those that were dropped for want of room
\* or of a registered browser; whenever the program is quit, whoever has the ports
\* and however full the channels are (cmd/main.go 86-87, websocket.go 123-154).
THEOREM WebSideFollows == ProgramsSpec => []WebFollowsTcp
<1>1. ProgramsInv => WebFollowsTcp
  <2> SUFFICES ASSUME ProgramsInv PROVE WebFollowsTcp
    OBVIOUS
  <2>1. MainOK /\ WordsOK
    BY DEF ProgramsInv
  <2> DEFINE o == Offered
             b == wBcast
             q == o \o b
  <2>2. o \in Seq(Word) /\ b \in Seq(Word)
    BY <2>1, OfferedIsWords DEF WordsOK
  <2>3. /\ Given(o) /\ Given(b) /\ Increasing(o) /\ Increasing(b)
        /\ \A i \in DOMAIN o, j \in DOMAIN b : o[i][2] < b[j][2]
    BY <2>1 DEF WordsOK
  <2> HIDE DEF o, b
  <2>4. /\ DOMAIN o = 1 .. Len(o) /\ DOMAIN b = 1 .. Len(b) /\ Len(o) \in Nat /\ Len(b) \in Nat
        /\ q \in Seq(Word) /\ DOMAIN q = 1 .. Len(o) + Len(b)
        /\ \A i \in 1 .. Len(o) + Len(b) : q[i] = IF i <= Len(o) THEN o[i] ELSE b[i - Len(o)]
    BY <2>2, LenProperties, ConcatProperties
  <2>5. \A i \in DOMAIN q : \/ i \in DOMAIN o /\ q[i] = o[i]
                            \/ i - Len(o) \in DOMAIN b /\ i > Len(o) /\ q[i] = b[i - Len(o)]
    BY <2>4
  <2> HIDE DEF q
  <2>6. Increasing(q)
    <3> SUFFICES ASSUME NEW i \in DOMAIN q, NEW j \in DOMAIN q, i < j
                 PROVE  q[i][2] < q[j][2]
      BY DEF Increasing
    <3>1. i \in Nat /\ j \in Nat
      BY <2>4
    <3>2. CASE i \in DOMAIN o /\ q[i] = o[i] /\ j \in DOMAIN o /\ q[j] = o[j]
      BY <3>1, <3>2, <2>3 DEF Increasing
    <3>3. CASE i \in DOMAIN o /\ q[i] = o[i] /\ j > Len(o)
      BY <3>1, <3>3, <2>3, <2>4, <2>5
    <3>4. CASE i > Len(o)
      <4>1. /\ i - Len(o) \in DOMAIN b /\ q[i] = b[i - Len(o)]
            /\ j - Len(o) \in DOMAIN b /\ q[j] = b[j - Len(o)]
        BY <3>1, <3>4, <2>4, <2>5
      <4>2. i - Len(o) < j - Len(o)
        BY <3>1, <2>4
      <4> QED BY <4>1, <4>2, <2>3 DEF Increasing
    <3> QED BY <3>1, <3>2, <3>3, <3>4, <2>4, <2>5
  <2>8. \A i \in DOMAIN q : q[i] \in {Operator} \X ((1 .. wAdmin) \ webMissed)
    <3> SUFFICES ASSUME NEW i \in DOMAIN q
                 PROVE  q[i] \in {Operator} \X ((1 .. wAdmin) \ webMissed)
      OBVIOUS
    <3>1. q[i] \in Word /\ q[i][2] \in (1 .. wAdmin) \ webMissed
      BY <2>3, <2>4, <2>5, LenProperties DEF Given
    <3> QED BY <3>1 DEF Word
  <2>9. \A n \in (1 .. wAdmin) \ webMissed : \E i \in DOMAIN q : q[i][2] = n
    <3> SUFFICES ASSUME NEW n \in (1 .. wAdmin) \ webMissed
                 PROVE  \E i \in DOMAIN q : q[i][2] = n
      OBVIOUS
    <3>1. Holds(o, n) \/ Holds(b, n)
      BY <2>1 DEF WordsOK, NoneLost, o, b
    <3>2. CASE Holds(o, n)
      BY <3>2, <2>4 DEF Holds
    <3>3. CASE Holds(b, n)
      <4>1. PICK i \in DOMAIN b : b[i][2] = n
        BY <3>3 DEF Holds
      <4>2. /\ i + Len(o) \in 1 .. Len(o) + Len(b) /\ ~(i + Len(o) <= Len(o))
            /\ i + Len(o) - Len(o) = i
        BY <2>4
      <4> QED BY <4>1, <4>2, <2>4
    <3> QED BY <3>1, <3>2, <3>3
  <2>7. ToSet(q) = {Operator} \X ((1 .. wAdmin) \ webMissed)
    <3>1. \A n \in (1 .. wAdmin) \ webMissed : \E i \in DOMAIN q : q[i] = <<Operator, n>>
      BY <2>8, <2>9
    <3> QED BY <2>8, <3>1 DEF ToSet
  <2> QED BY <2>1, <2>6, <2>7 DEF WebFollowsTcp, MainOK, q, o, b
<1> QED BY <1>1, ProgramsStart, NextKeepsPrograms, PTL DEF ProgramsSpec
=============================================================================
