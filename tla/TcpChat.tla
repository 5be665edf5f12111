------------------------------ MODULE TcpChat ------------------------------
(***************************************************************************)
(* The TCP side of the chat server (pkg/server/server.go): the goroutine    *)
(* that accepts connections, one handler per connection and the broadcaster *)
(* of ChatHub.  A message is <<c, n>>: n = 0 is the notice that c           *)
(* connected, 1 .. MaxLines[c] its lines, MaxLines[c] + 1 the notice that it*)
(* disconnected; <<Admin, n>> comes from the operator's command line.       *)
(* No code takes a message out of a TCP client's Send channel.              *)
(***************************************************************************)
EXTENDS ChatHub

CONSTANTS
  Admin,      \* the operator, who uses BroadcastMessage
  MaxConns,   \* bound on the connections accepted
  MaxLines,   \* bound on the lines that each connection sends
  MaxAdmin    \* bound on the operator's messages

ASSUME TcpAssumption ==
  /\ Admin \notin Conn /\ MaxConns \in Nat
  /\ MaxLines \in [Conn -> Nat] /\ MaxAdmin \in Nat
  /\ Message = (UNION {{c} \X (0 .. MaxLines[c] + 1) : c \in Conn})
                  \cup ({Admin} \X (1 .. MaxAdmin))

VARIABLES
  lines,       \* how many lines each handler has broadcast
  adminSent    \* how many messages the operator has broadcast

tcpVars == <<hpc, peerOpen, lines, adminSent>>
vars    == <<hubVars, tcpVars>>

Init ==
  /\ HubInit
  /\ lines = [c \in Conn |-> 0]
  /\ adminSent = 0

-----------------------------------------------------------------------------
(* acceptConnections.                                                       *)

\* Accept returns a connection.
Accept(c) ==
  /\ \A d \in Conn : hpc[d] # "accepted"
  /\ Cardinality({d \in Conn : hpc[d] # "new"}) < MaxConns
  /\ Arrive(c)
  /\ UNCHANGED <<lines, adminSent>>

\* The client is sent to AddClient before its handler is started.
HandOver(c) ==
  /\ Goto(c, "accepted", "welcome")
  /\ PutAdd(c)
  /\ UNCHANGED <<peerOpen, lines, adminSent>>

-----------------------------------------------------------------------------
(* handleClient.                                                            *)

Welcome(c) ==
  /\ Goto(c, "welcome", "reading")
  /\ PutMessage(<<c, 0>>)
  /\ UNCHANGED <<peerOpen, lines, adminSent>>

\* A line that is not empty is broadcast; an empty one changes nothing.  What
\* the reader has buffered is read also when the peer is gone.
ReadLine(c) ==
  /\ hpc[c] = "reading"
  /\ lines[c] < MaxLines[c]
  /\ lines' = [lines EXCEPT ![c] = @ + 1]
  /\ PutMessage(<<c, lines[c] + 1>>)
  /\ UNCHANGED <<hpc, peerOpen, adminSent>>

\* ReadString fails when the peer is gone.
ReadFails(c) ==
  /\ ~peerOpen[c]
  /\ Goto(c, "reading", "leaving")
  /\ UNCHANGED <<hubVars, peerOpen, lines, adminSent>>

Goodbye(c) ==
  /\ Goto(c, "leaving", "removing")
  /\ PutMessage(<<c, MaxLines[c] + 1>>)
  /\ UNCHANGED <<peerOpen, lines, adminSent>>

\* The deferred function: first the removal, then the close.
AskRemoval(c) ==
  /\ Goto(c, "removing", "closing")
  /\ PutRemove(c)
  /\ UNCHANGED <<peerOpen, lines, adminSent>>

Close(c) ==
  /\ Goto(c, "closing", "closed")
  /\ UNCHANGED <<hubVars, peerOpen, lines, adminSent>>

Handler(c) ==
  \/ HandOver(c) \/ Welcome(c) \/ ReadLine(c) \/ ReadFails(c) \/ Goodbye(c)
  \/ AskRemoval(c) \/ Close(c)

\* BroadcastMessage, called by the operator's /broadcast.
BroadcastMessage ==
  /\ adminSent < MaxAdmin
  /\ adminSent' = adminSent + 1
  /\ PutMessage(<<Admin, adminSent + 1>>)
  /\ UNCHANGED <<hpc, peerOpen, lines>>

-----------------------------------------------------------------------------
Next ==
  \/ \E c \in Conn : Accept(c) \/ Handler(c)
  \/ \E c \in Conn : PeerLeaves(c) /\ UNCHANGED <<lines, adminSent>>
  \/ BroadcastMessage
  \/ Broadcaster /\ UNCHANGED tcpVars

Spec == Init /\ [][Next]_vars

\* The goroutines are scheduled, and a read on a connection whose peer is gone
\* fails; when peers connect, write and close is up to them.  A case of the
\* broadcaster's select stays ready until it is served, and the select picks
\* among the ready cases at random.
Fairness ==
  /\ \A c \in Conn :
       /\ WF_vars(HandOver(c)) /\ WF_vars(Welcome(c))
       /\ WF_vars(ReadFails(c)) /\ WF_vars(Goodbye(c))
       /\ WF_vars(AskRemoval(c)) /\ WF_vars(Close(c))
  /\ WF_vars(Register /\ UNCHANGED tcpVars)
  /\ WF_vars(Unregister /\ UNCHANGED tcpVars)
  /\ WF_vars(Broadcast /\ UNCHANGED tcpVars)
FairSpec == Spec /\ Fairness
=============================================================================
