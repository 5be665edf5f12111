----------------------------- MODULE ChatProps -----------------------------
(***************************************************************************)
(* What the TCP chat server must never do, and what it must eventually do.  *)
(***************************************************************************)
EXTENDS TcpChat

\* Every variable has its type and no channel holds more than its capacity.
TypeOK ==
  /\ clients \in [Addr -> Conn \cup {NoConn}]
  /\ \A a \in Addr : clients[a] \in Conn => AddrOf[clients[a]] = a
  /\ addChan \in Seq(Conn) /\ Len(addChan) <= ChanCap
  /\ removeChan \in Seq(Conn) /\ Len(removeChan) <= ChanCap
  /\ bcast \in Seq(Message) /\ Len(bcast) <= ChanCap
  /\ sendQ \in [Conn -> Seq(Message)]
  /\ \A c \in Conn : Len(sendQ[c]) <= SendCap
  /\ overtaken \subseteq Conn /\ met \subseteq Conn /\ peerOpen \in [Conn -> BOOLEAN]
  /\ hpc \in [Conn -> {"new", "accepted", "welcome", "reading", "leaving",
                       "removing", "closing", "closed"}]
  /\ \A c \in Conn : lines[c] \in 0 .. MaxLines[c]
  /\ adminSent \in 0 .. MaxAdmin

\* The client map tells the truth, whenever peers reset a connection and come
\* back with its address: who is registered has its handler present, unless its
\* removal overtook its registration in the two channels; whose handler is
\* present is registered, unless it met another connection of its address that
\* the hub had still to register or to remove (broadcaster 143-153,
\* handleClient 98-101, acceptConnections 73-92).
MapIsTruthful == TypeOK /\ MapIsTrue

\* The messages of one sender arrive in the order it sent them, none twice,
\* and the notices enclose them: nothing of a sender follows its goodbye
\* (handleClient 103-136).
SenderOrder ==
  \A c \in Conn : \A i, j \in 1 .. Len(sendQ[c]) :
     i < j /\ sendQ[c][i][1] = sendQ[c][j][1] => sendQ[c][i][2] < sendQ[c][j][2]

-----------------------------------------------------------------------------
\* A connection whose peer is gone is closed: wherever its handler is then, it
\* is not blocked for ever on a full Broadcast or RemoveClient channel
\* (handleClient 98-136).
LeaversGetAway ==
  \A c \in Conn : hpc[c] # "new" /\ ~peerOpen[c] ~> hpc[c] = "closed"

\* Every accepted connection is registered at some time, and its welcome is
\* handed to the broadcaster, in whatever order it serves the channels and
\* whenever the peer leaves (acceptConnections 88-92, handleClient 103-109).
AcceptedIsRegistered ==
  \A c \in Conn :
    /\ hpc[c] = "accepted" ~> clients[AddrOf[c]] = c
    /\ hpc[c] = "accepted" ~> <<c, 0>> \in In(bcast)
=============================================================================
