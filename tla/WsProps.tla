------------------------------ MODULE WsProps ------------------------------
(***************************************************************************)
(* What the WebSocket chat server must never do, and what it must           *)
(* eventually do.                                                           *)
(***************************************************************************)
EXTENDS WsChat

\* Everything offered to c and not skipped, in the order c gets it.
Delivered(c) == received[c] \o writing[c] \o sendQ[c]

\* Every variable has its type, no channel holds more than its capacity and
\* a writer that is gone holds no message.
TypeOK ==
  /\ clients \in [Addr -> Conn \cup {NoConn}]
  /\ addChan \in Seq(Conn) /\ Len(addChan) <= ChanCap
  /\ removeChan \in Seq(Conn) /\ Len(removeChan) <= ChanCap
  /\ bcast \in Seq(Message) /\ Len(bcast) <= ChanCap
  /\ \A c \in Conn :
       /\ sendQ[c] \in Seq(Message) /\ Len(sendQ[c]) <= SendCap
       /\ received[c] \in Seq(Message) /\ writing[c] \in Seq(Message)
       /\ Len(writing[c]) <= IF wpc[c] = "running" THEN 1 ELSE 0
  /\ overtaken \subseteq Conn /\ met \subseteq Conn
  /\ hpc \in [Conn -> {"new", "accepted", "reading", "removing", "closing", "closed"}]
  /\ peerOpen \in [Conn -> BOOLEAN]
  /\ wpc \in [Conn -> {"none", "running", "gone"}]
  /\ (\A c \in Conn : said[c] \in 0 .. MaxSaid[c]) /\ adminSent \in 0 .. MaxAdmin

\* The client map tells the truth, whenever browsers go away and come back with
\* their address: who is registered has its reader present, unless its removal
\* overtook its registration; whose reader is present is registered, unless it
\* met another connection of its address (HandleWebSocket 48-81,
\* StartBroadcaster 111-121, handleWSClient 85-88).
MapIsTruthful == TypeOK /\ MapIsTrue

\* All browsers see the messages they get in the same order.
Before(m, n, q) == \E i, j \in 1 .. Len(q) : i < j /\ q[i] = m /\ q[j] = n
SameOrder ==
  \A c, d \in Conn : \A m \in In(Delivered(c)), n \in In(Delivered(c)) :
     Before(m, n, Delivered(c)) => ~Before(n, m, Delivered(d))

-----------------------------------------------------------------------------
\* What is queued for a browser that goes on reading is written to it, unless
\* the connection ends; browsers that do not read hold up their own writer only
\* (HandleWebSocket 70-80, StartBroadcaster 123-137).
QueueIsWritten ==
  \A c \in Readers : sendQ[c] # <<>> ~>
     (sendQ[c] = <<>> /\ writing[c] = <<>>) \/ ~peerOpen[c] \/ hpc[c] = "closed"

\* A browser that goes away is removed from the map, unless its removal overtook
\* its registration: also when its writer waits for it, and whoever has its
\* address by then (handleWSClient 85-96, StartBroadcaster 117-121).
LeaversAreForgotten ==
  \A c \in Conn : hpc[c] # "new" /\ ~peerOpen[c] ~>
     Forgotten(c) /\ (clients[AddrOf[c]] # c \/ c \in overtaken)
=============================================================================
