------------------------------ MODULE ChatHub ------------------------------
(***************************************************************************)
(* The part that Server (pkg/server/server.go) and WebSocketServer          *)
(* (pkg/server/websocket.go) of the chat server have in common: three       *)
(* bounded channels and one broadcaster goroutine whose select serves       *)
(* whichever of them is ready, in no particular order.                      *)
(*                                                                          *)
(* A connection is named by its incarnation; the hub knows it by its remote *)
(* address only, which a later connection can have again.  Only the         *)
(* broadcaster writes the client map and only it sends on the Send          *)
(* channels, so each case of its select is one step.  Both servers begin    *)
(* and end a connection alike: accepted, handed to AddClient, and in the    *)
(* end put into RemoveClient and closed.                                    *)
(***************************************************************************)
EXTENDS Naturals, Sequences, FiniteSets

CONSTANTS
  Conn,      \* the connections that are ever made
  Addr,      \* remote addresses
  AddrOf,    \* the address of a connection
  NoConn,    \* no connection
  Message,   \* what can be broadcast
  ChanCap,   \* 10 in the code: capacity of the three channels
  SendCap    \* 10 in the code: capacity of a client's Send channel

ASSUME ConnAssumption == NoConn \notin Conn /\ AddrOf \in [Conn -> Addr]
ASSUME CapAssumption  == ChanCap \in Nat \ {0} /\ SendCap \in Nat \ {0}

VARIABLES
  clients,      \* the client map: the connection registered for an address
  addChan,      \* AddClient: the connections waiting to be registered
  removeChan,   \* RemoveClient: addresses, written as the connection that left
  bcast,        \* Broadcast
  sendQ,        \* the Send channel of every connection
  overtaken,    \* history: the connections removed before they were registered
  met,          \* history: those that met another one of their address
  hpc,          \* where the handler of a connection is
  peerOpen      \* its peer has neither closed nor reset the connection

history == <<overtaken, met>>
hubVars == <<clients, addChan, removeChan, bcast, sendQ, history>>

HubInit ==
  /\ clients = [a \in Addr |-> NoConn]
  /\ addChan = <<>> /\ removeChan = <<>> /\ bcast = <<>>
  /\ sendQ = [c \in Conn |-> <<>>]
  /\ overtaken = {} /\ met = {}
  /\ hpc = [c \in Conn |-> "new"]
  /\ peerOpen = [c \in Conn |-> FALSE]

Goto(c, from, to) == hpc[c] = from /\ hpc' = [hpc EXCEPT ![c] = to]

\* Members of a channel, and the connections in the client map.
In(q)      == {q[i] : i \in 1 .. Len(q)}
Registered == {clients[a] : a \in Addr} \ {NoConn}
ClientCount == Cardinality({a \in Addr : clients[a] # NoConn})

\* A send on one of the three channels waits for room.
Room(q) == Len(q) < ChanCap
Queued(q, m) == Append(q, m)
SkipAdd(c) == UNCHANGED hubVars                                \* mutant
PutAdd(c) ==
  /\ Room(addChan)
  /\ addChan' = Append(addChan, c)
  /\ UNCHANGED <<clients, removeChan, bcast, sendQ, history>>
PutRemove(c) ==
  /\ Room(removeChan)
  /\ removeChan' = Append(removeChan, c)
  /\ UNCHANGED <<clients, addChan, bcast, sendQ, history>>
PutMessage(m) ==
  /\ Room(bcast)
  /\ bcast' = Queued(bcast, m)
  /\ UNCHANGED <<clients, addChan, removeChan, sendQ, history>>

-----------------------------------------------------------------------------
(* A connection comes and goes.                                             *)

\* The handler of c has told the hub to forget it, and the hub has done so.
Forgotten(c) == hpc[c] \in {"closing", "closed"} /\ c \notin In(removeChan)
\* The handler of c is between its registration and its removal.
Present(c) == /\ hpc[c] \notin {"new", "accepted"}
              /\ c \notin In(addChan) /\ ~Forgotten(c)
\* The hub has still to register or to remove c.
Unsettled(c) == hpc[c] # "new" /\ (~Forgotten(c) \/ c \in In(addChan))
Twins(c, d)  == c # d /\ AddrOf[c] = AddrOf[d]

\* A peer can come back with its address as soon as it has let go of the old
\* connection: a reset frees it at once, whatever the old handler is doing.
AddressFree(c) == \A d \in Conn : Twins(c, d) => ~peerOpen[d]
\* The connection meets those of its address that the hub has not settled.
Meet(c, others) == met' = IF others = {} THEN met ELSE met \cup others \cup {c}
Arrive(c) ==
  /\ AddressFree(c)
  /\ Goto(c, "new", "accepted")
  /\ peerOpen' = [peerOpen EXCEPT ![c] = TRUE]
  /\ Meet(c, {d \in Conn : Twins(c, d) /\ Unsettled(d)})
  /\ UNCHANGED <<clients, addChan, removeChan, bcast, sendQ, overtaken>>

\* The peer closes or resets the connection, at any time.
PeerLeaves(c) ==
  /\ peerOpen[c]
  /\ peerOpen' = [peerOpen EXCEPT ![c] = FALSE]
  /\ UNCHANGED <<hubVars, hpc>>

-----------------------------------------------------------------------------
(* The cases of the broadcaster's select.                                   *)

\* Clients[id] = client: whoever was registered for the address.
Register ==
  LET c == Head(addChan) IN
  /\ addChan # <<>>
  /\ addChan' = Tail(addChan)
  /\ clients' = [clients EXCEPT ![AddrOf[c]] = c]
  /\ UNCHANGED <<removeChan, bcast, sendQ, history>>

\* delete(Clients, id): whoever is registered for the address.
KeepIt(a) == UNCHANGED clients                                 \* mutant
Forget(a) == clients' = [clients EXCEPT ![a] = NoConn]
Unregister ==
  LET c == Head(removeChan) IN
  /\ removeChan # <<>>
  /\ removeChan' = Tail(removeChan)
  /\ Forget(AddrOf[c])
  /\ overtaken' = IF c \in In(addChan) THEN overtaken \cup {c} ELSE overtaken
  /\ UNCHANGED <<addChan, bcast, sendQ, met>>

\* The message is offered to every registered client; a full Send channel is
\* skipped, and Done is never closed, so its case is never taken.
SendRoom(c) == Len(sendQ[c]) < SendCap
AllHaveRoom == \A c \in Registered : SendRoom(c)
NeverWaits  == TRUE
Rest  == Tail(bcast)
Retry == IF AllHaveRoom THEN Rest ELSE Append(Rest, Head(bcast))   \* mutant
Remaining == Rest
Broadcast ==
  /\ bcast # <<>>
  /\ NeverWaits
  /\ bcast' = Remaining
  /\ sendQ' = [c \in Conn |->
                 IF c \in Registered /\ SendRoom(c)
                   THEN Append(sendQ[c], Head(bcast)) ELSE sendQ[c]]
  /\ UNCHANGED <<clients, addChan, removeChan, history>>

Broadcaster == Register \/ Unregister \/ Broadcast

-----------------------------------------------------------------------------
(* What the client map ought to tell.                                       *)

\* Who is registered is present, unless its removal overtook its registration:
\* it then stays in the map although it has left.  Who is present is registered,
\* unless it met another connection of its address: one key serves both, and
\* the removal of the one deletes the other.
MapIsTrue ==
  \A c \in Conn :
    /\ clients[AddrOf[c]] = c => Present(c) \/ c \in overtaken
    /\ Present(c) => clients[AddrOf[c]] = c \/ c \in met
=============================================================================
