------------------------------- MODULE WsChat -------------------------------
(***************************************************************************)
(* The WebSocket side of the chat server (pkg/server/websocket.go): for     *)
(* every connection the HTTP handler that registers it, a reader and a      *)
(* writer goroutine, and the broadcaster of ChatHub.  A message is <<c, n>>,*)
(* the n-th message of c, or <<Admin, n>> from the operator.                *)
(***************************************************************************)
EXTENDS ChatHub

CONSTANTS
  Admin,      \* the operator, who uses BroadcastToWebSocket
  Readers,    \* the browsers that go on reading what is written to them
  MaxConns,   \* bound on the connections that are upgraded
  MaxSaid,    \* bound on the messages of each connection
  MaxAdmin    \* bound on the operator's messages

ASSUME WsAssumption ==
  /\ Admin \notin Conn /\ Readers \subseteq Conn
  /\ MaxConns \in Nat /\ MaxSaid \in [Conn -> Nat] /\ MaxAdmin \in Nat
  /\ Message = (UNION {{c} \X (1 .. MaxSaid[c]) : c \in Conn})
                  \cup ({Admin} \X (1 .. MaxAdmin))

VARIABLES
  said,        \* how many messages the reader has broadcast
  wpc,         \* the writer: "none", "running" or "gone"
  writing,     \* the message the writer took from Send and has not written
  received,    \* what was written to the socket
  adminSent    \* how many times the operator called BroadcastToWebSocket

wsVars == <<hpc, peerOpen, said, wpc, writing, received, adminSent>>
vars   == <<hubVars, wsVars>>

Init ==
  /\ HubInit
  /\ said = [c \in Conn |-> 0]
  /\ wpc = [c \in Conn |-> "none"]
  /\ writing = [c \in Conn |-> <<>>]
  /\ received = [c \in Conn |-> <<>>]
  /\ adminSent = 0

\* The browser goes away at any time.
BrowserLeaves(c) ==
  /\ PeerLeaves(c)
  /\ UNCHANGED <<said, wpc, writing, received, adminSent>>

-----------------------------------------------------------------------------
(* HandleWebSocket: one goroutine per request.                              *)

Upgrade(c) ==
  /\ Cardinality({d \in Conn : hpc[d] # "new"}) < MaxConns
  /\ Arrive(c)
  /\ UNCHANGED <<said, wpc, writing, received, adminSent>>

\* The client is sent to AddWSClient, then its reader and writer are started.
HandOver(c) ==
  /\ Goto(c, "accepted", "reading")
  /\ PutAdd(c)
  /\ wpc' = [wpc EXCEPT ![c] = "running"]
  /\ UNCHANGED <<peerOpen, said, writing, received, adminSent>>

-----------------------------------------------------------------------------
(* handleWSClient: the reader.                                              *)

\* A message with a sender's name is broadcast; one without changes nothing.
ReadMessage(c) ==
  /\ hpc[c] = "reading" /\ peerOpen[c]
  /\ said[c] < MaxSaid[c]
  /\ said' = [said EXCEPT ![c] = @ + 1]
  /\ PutMessage(<<c, said[c] + 1>>)
  /\ UNCHANGED <<hpc, peerOpen, wpc, writing, received, adminSent>>

\* ReadJSON fails: the peer is gone, or what it sent is no JSON message.
ReadFails(c) ==
  /\ Goto(c, "reading", "removing")
  /\ UNCHANGED <<hubVars, peerOpen, said, wpc, writing, received, adminSent>>

AskRemoval(c) ==
  /\ Goto(c, "removing", "closing")
  /\ PutRemove(c)
  /\ UNCHANGED <<peerOpen, said, wpc, writing, received, adminSent>>

\* Conn.Close; Send is not closed.
Close(c) ==
  /\ Goto(c, "closing", "closed")
  /\ UNCHANGED <<hubVars, peerOpen, said, wpc, writing, received, adminSent>>

-----------------------------------------------------------------------------
(* The writer ranges over Send.                                             *)

WriterTakes(c) ==
  /\ wpc[c] = "running" /\ writing[c] = <<>> /\ sendQ[c] # <<>>
  /\ writing' = [writing EXCEPT ![c] = <<Head(sendQ[c])>>]
  /\ sendQ' = [sendQ EXCEPT ![c] = Tail(@)]
  /\ UNCHANGED <<clients, addChan, removeChan, bcast, history, hpc, peerOpen,
                 said, wpc, received, adminSent>>

\* WriteJSON succeeds on an open connection once there is room in the socket.
\* It has no deadline: while the browser does not read it waits.
WriterWrites(c) ==
  /\ writing[c] # <<>>
  /\ peerOpen[c] /\ hpc[c] # "closed"
  /\ received' = [received EXCEPT ![c] = @ \o writing[c]]
  /\ writing' = [writing EXCEPT ![c] = <<>>]
  /\ UNCHANGED <<hubVars, hpc, peerOpen, said, wpc, adminSent>>

\* To a peer that went away, a write is lost in the socket or it fails; on a
\* connection the server closed it fails.  The writer breaks on an error.
AnyTime(c) == TRUE                                             \* mutant
Broken(c)  == ~peerOpen[c] \/ hpc[c] = "closed"
WriterLoses(c) ==
  /\ writing[c] # <<>>
  /\ Broken(c)
  /\ writing' = [writing EXCEPT ![c] = <<>>]
  /\ \/ wpc' = [wpc EXCEPT ![c] = "gone"]
     \/ hpc[c] # "closed" /\ wpc' = wpc
  /\ UNCHANGED <<hubVars, hpc, peerOpen, said, received, adminSent>>

Writer(c) == WriterTakes(c) \/ WriterWrites(c) \/ WriterLoses(c)

-----------------------------------------------------------------------------
\* BroadcastToWebSocket, called by the operator's /broadcast, drops the
\* message when Broadcast is full.
BroadcastToWebSocket ==
  /\ adminSent < MaxAdmin
  /\ adminSent' = adminSent + 1
  /\ \/ PutMessage(<<Admin, adminSent + 1>>)
     \/ ~Room(bcast) /\ UNCHANGED hubVars
  /\ UNCHANGED <<hpc, peerOpen, said, wpc, writing, received>>

Serve == Broadcaster /\ UNCHANGED wsVars

Next ==
  \/ \E c \in Conn :
       \/ BrowserLeaves(c) \/ Upgrade(c) \/ HandOver(c) \/ ReadMessage(c)
       \/ ReadFails(c) \/ AskRemoval(c) \/ Close(c) \/ Writer(c)
  \/ BroadcastToWebSocket
  \/ Serve

Spec == Init /\ [][Next]_vars

\* The goroutines are scheduled, a read on a connection whose peer is gone
\* fails, and a select case that stays ready is served.  That a write gets
\* through is assumed of the browsers that go on reading only.
Fairness ==
  /\ \A c \in Conn :
       /\ WF_vars(HandOver(c)) /\ WF_vars(AskRemoval(c)) /\ WF_vars(Close(c))
       /\ WF_vars(~peerOpen[c] /\ ReadFails(c))
       /\ WF_vars(WriterTakes(c)) /\ WF_vars(WriterLoses(c))
  /\ \A c \in Readers : WF_vars(WriterWrites(c))
  /\ WF_vars(Register /\ UNCHANGED wsVars)
  /\ WF_vars(Unregister /\ UNCHANGED wsVars)
  /\ WF_vars(Broadcast /\ UNCHANGED wsVars)
FairSpec == Spec /\ Fairness
=============================================================================
