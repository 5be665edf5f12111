---------------------------- MODULE ChatPrograms ----------------------------
(***************************************************************************)
(* The programs of the chat as they run together: the main program of the   *)
(* chat server (cmd/main.go) over its two servers, TcpChat and WsChat, a    *)
(* browser, and a program that connects to localhost:9999, which uses the   *)
(* client library (pkg/client/client.go) or is the example                  *)
(* (cmd/tcp-client-example/main.go).                                        *)
(*                                                                          *)
(* The ports 9999 and 8080 may be taken by another program, as by the       *)
(* viewers of TCP routes: then the client talks to that program.  The end   *)
(* of the main program ends everything in it.                               *)
(***************************************************************************)
EXTENDS Naturals, Sequences

CONSTANTS
  Client, Browser,   \* the connection of the client, and that of the browser
  NoConn, Operator,
  ChanCap, SendCap,  \* as in ChatHub
  MsgCap,            \* 10 in the code: capacity of the library's Messages
  MaxLines,          \* bound on the lines that the client sends
  MaxAdmin,          \* bound on the operator's /broadcast
  MaxWritten         \* bound on the lines that another program writes

ASSUME ProgramsAssumption ==
  /\ ChanCap \in Nat \ {0} /\ SendCap \in Nat \ {0} /\ MsgCap \in Nat \ {0}
  /\ MaxLines \in Nat /\ MaxAdmin \in Nat /\ MaxWritten \in Nat

VARIABLES
  \* the two servers
  tClients, tAdd, tRemove, tBcast, tSendQ, tOvertaken, tMet, tHpc, tPeerOpen,
  tLines, tAdmin,
  wClients, wAdd, wRemove, wBcast, wSendQ, wOvertaken, wMet, wHpc, wPeerOpen,
  wSaid, wWpc, wWriting, wReceived, wAdmin,
  \* the main program
  tcpPort, webPort,  \* who listens: "nobody", "chat" or "other"
  mpc,               \* "start", "reading", "toTcp", "toWeb" or "exited"
  web,               \* the HTTP server: "none", "starting", "serving", "failed"
  webMissed,         \* history: the operator's messages there was no room for on
                     \* the web side, or no browser registered
  \* the client
  kind,              \* "library" or "example"
  readsDone,         \* whether the program around the library reads Done
  takes,             \* whether it goes on taking what is in Messages
  conn,              \* its connection: "none", "open" or "closed"
  peer,              \* who is at the other end: "none", "chat" or "other"
  rpc,               \* its receiver
  messages,          \* how many lines are in Messages
  sent,              \* how many lines it has sent
  wire,              \* lines written to it and not read
  written,           \* how many lines another program has written to it
  hungUp             \* that program has closed its side

tHub     == <<tClients, tAdd, tRemove, tBcast, tSendQ, tOvertaken, tMet>>
tcpVars  == <<tHub, tHpc, tPeerOpen, tLines, tAdmin>>
wHub     == <<wClients, wAdd, wRemove, wBcast, wSendQ, wOvertaken, wMet>>
webVars  == <<wHub, wHpc, wPeerOpen, wSaid, wWpc, wWriting, wReceived, wAdmin>>
mainVars == <<tcpPort, webPort, mpc, web, webMissed>>
peerVars == <<wire, written, hungUp>>
ownVars  == <<kind, readsDone, takes, conn, peer, rpc, messages, sent>>
programsVars == <<tcpVars, webVars, mainVars, peerVars, ownVars>>

T == INSTANCE TcpChat WITH
  Admin <- Operator, Conn <- {Client}, Addr <- {Client}, AddrOf <- [c \in {Client} |-> c],
  Message <- ({Client} \X (0 .. MaxLines + 1)) \cup ({Operator} \X (1 .. MaxAdmin)),
  MaxConns <- 1, MaxLines <- [c \in {Client} |-> MaxLines],
  clients <- tClients, addChan <- tAdd, removeChan <- tRemove, bcast <- tBcast,
  sendQ <- tSendQ, overtaken <- tOvertaken, met <- tMet, hpc <- tHpc,
  peerOpen <- tPeerOpen, lines <- tLines, adminSent <- tAdmin
W == INSTANCE WsChat WITH
  Admin <- Operator, Conn <- {Browser}, Addr <- {Browser}, AddrOf <- [c \in {Browser} |-> c],
  Message <- {Operator} \X (1 .. MaxAdmin),
  Readers <- {Browser}, MaxConns <- 1, MaxSaid <- [c \in {Browser} |-> 0],
  clients <- wClients, addChan <- wAdd, removeChan <- wRemove, bcast <- wBcast,
  sendQ <- wSendQ, overtaken <- wOvertaken, met <- wMet, hpc <- wHpc,
  peerOpen <- wPeerOpen, said <- wSaid, wpc <- wWpc, writing <- wWriting, received <- wReceived,
  adminSent <- wAdmin

ProgramsInit ==
  /\ T!Init /\ W!Init
  /\ tcpPort \in {"nobody", "other"} /\ webPort \in {"nobody", "other"}
  /\ mpc = "start" /\ web = "none" /\ webMissed = {}
  /\ kind \in {"library", "example"} /\ readsDone \in BOOLEAN /\ takes \in BOOLEAN
  /\ kind = "example" => readsDone /\ takes
  /\ conn = "none" /\ peer = "none" /\ rpc = "none" /\ messages = 0 /\ sent = 0
  /\ wire = 0 /\ written = 0 /\ hungUp = FALSE

-----------------------------------------------------------------------------
(* cmd/main.go: the start.                                                  *)

\* Without its TCP port the program ends; otherwise the TCP server and both
\* broadcasters are started, and the HTTP server after them.
NewServer ==
  /\ mpc = "start"
  /\ \/ /\ tcpPort = "nobody"
        /\ tcpPort' = "chat" /\ mpc' = "reading" /\ web' = "starting"
     \/ /\ tcpPort # "nobody"
        /\ mpc' = "exited" /\ UNCHANGED <<tcpPort, web>>
  /\ UNCHANGED <<webPort, webMissed, tcpVars, webVars, peerVars, ownVars>>

Running == mpc \notin {"start", "exited"}

\* Without its web port it goes on: the failure is only printed.
ListenAndServe ==
  /\ Running /\ web = "starting"
  /\ \/ webPort = "nobody" /\ webPort' = "chat" /\ web' = "serving"
     \/ webPort # "nobody" /\ web' = "failed" /\ UNCHANGED webPort
  /\ UNCHANGED <<tcpPort, mpc, webMissed, tcpVars, webVars, peerVars, ownVars>>

-----------------------------------------------------------------------------
(* cmd/main.go: the commands.                                               *)

\* An empty line, /status, /broadcast without a text and unknown commands only
\* print.
OnlyWeb   == "toWeb"                                           \* mutant
FirstCall == "toTcp"
CommandBroadcast ==
  /\ mpc = "reading" /\ tAdmin < MaxAdmin
  /\ mpc' = FirstCall
  /\ UNCHANGED <<tcpPort, webPort, web, webMissed, tcpVars, webVars, peerVars, ownVars>>

\* The TCP side first: the call waits for room.
BroadcastTcp ==
  /\ mpc = "toTcp" /\ T!BroadcastMessage
  /\ mpc' = "toWeb"
  /\ UNCHANGED <<tcpPort, webPort, web, webMissed, webVars, peerVars, ownVars>>

\* Then the web side: the call drops the message when there is no room.
BroadcastWeb ==
  /\ mpc = "toWeb" /\ W!BroadcastToWebSocket
  /\ webMissed' = IF W!Room(wBcast) THEN webMissed ELSE webMissed \cup {wAdmin + 1}
  /\ mpc' = "reading"
  /\ UNCHANGED <<tcpPort, webPort, web, tcpVars, peerVars, ownVars>>

\* /quit, or the end of the input: the process ends, its sockets with it, and
\* nothing is left of what the servers held.
ServersGone ==
  /\ tClients' = [c \in {Client} |-> NoConn] /\ tAdd' = <<>> /\ tRemove' = <<>>
  /\ tBcast' = <<>> /\ tSendQ' = [c \in {Client} |-> <<>>] /\ tOvertaken' = {}
  /\ tMet' = {} /\ tHpc' = [c \in {Client} |-> "new"]
  /\ tPeerOpen' = [c \in {Client} |-> FALSE] /\ tLines' = [c \in {Client} |-> 0]
  /\ tAdmin' = 0
  /\ wClients' = [c \in {Browser} |-> NoConn] /\ wAdd' = <<>> /\ wRemove' = <<>>
  /\ wBcast' = <<>> /\ wSendQ' = [c \in {Browser} |-> <<>>] /\ wOvertaken' = {}
  /\ wMet' = {} /\ wHpc' = [c \in {Browser} |-> "new"]
  /\ wPeerOpen' = [c \in {Browser} |-> FALSE]
  /\ wSaid' = [c \in {Browser} |-> 0] /\ wWpc' = [c \in {Browser} |-> "none"]
  /\ wWriting' = [c \in {Browser} |-> <<>>] /\ wReceived' = [c \in {Browser} |-> <<>>]
  /\ wAdmin' = 0
Freed(port) == IF port = "chat" THEN "nobody" ELSE port
Quit ==
  /\ mpc = "reading"
  /\ mpc' = "exited"
  /\ tcpPort' = Freed(tcpPort) /\ webPort' = Freed(webPort)
  /\ web' = "none" /\ webMissed' = {}
  /\ ServersGone
  /\ UNCHANGED <<peerVars, ownVars>>

-----------------------------------------------------------------------------
(* The servers, while the program runs.  The TCP server reads what its      *)
(* client has sent, and learns of it when the client is gone.  The browser  *)
(* listens and stays; in WsChat browsers speak and leave.                   *)

Rest == <<mainVars, peerVars, ownVars>>
OpenFor(c)  == T!ReadLine(c) /\ tLines[c] < sent
EndFor(c)   == T!PeerLeaves(c) /\ conn = "closed" /\ UNCHANGED <<tLines, tAdmin>>
TcpHandler  ==
  \/ T!HandOver(Client) \/ T!Welcome(Client) \/ T!ReadFails(Client)
  \/ T!Goodbye(Client) \/ T!AskRemoval(Client) \/ T!Close(Client)
TcpAccept   == T!Accept(Client) /\ peer = "chat"
TcpServer   ==
  /\ Running
  /\ TcpAccept \/ OpenFor(Client) \/ EndFor(Client) \/ TcpHandler
  /\ UNCHANGED <<webVars, Rest>>
TcpBroadcaster ==
  /\ Running /\ T!Broadcaster
  /\ UNCHANGED <<tHpc, tPeerOpen, tLines, tAdmin, webVars, Rest>>

WebServer ==
  /\ Running
  /\ \/ W!Upgrade(Browser) /\ web = "serving"
     \/ W!HandOver(Browser) \/ W!WriterTakes(Browser) \/ W!WriterWrites(Browser)
  /\ UNCHANGED <<tcpVars, Rest>>
\* The broadcaster offers a message to the browser if that is registered and its
\* Send channel has room.
Offers == Browser \in W!Registered /\ W!SendRoom(Browser)
WebBroadcaster ==
  /\ Running /\ W!Serve
  /\ webMissed' = IF Len(wBcast') < Len(wBcast) /\ ~Offers
                    THEN webMissed \cup {Head(wBcast)[2]} ELSE webMissed
  /\ UNCHANGED <<tcpPort, webPort, mpc, web, tcpVars, peerVars, ownVars>>

-----------------------------------------------------------------------------
(* Another program at port 9999.                                            *)

OtherWrites ==
  /\ peer = "other" /\ ~hungUp /\ conn = "open" /\ written < MaxWritten
  /\ wire' = wire + 1 /\ written' = written + 1
  /\ UNCHANGED <<hungUp, tcpVars, webVars, mainVars, ownVars>>
OtherHangsUp ==
  /\ peer = "other" /\ ~hungUp
  /\ hungUp' = TRUE
  /\ UNCHANGED <<wire, written, tcpVars, webVars, mainVars, ownVars>>

\* The other end is closed: by that program, by the chat server's handler or
\* with its process.
PeerGone == hungUp \/ (peer = "chat" /\ (mpc = "exited" \/ tHpc[Client] = "closed"))

-----------------------------------------------------------------------------
(* The client.                                                              *)

Elsewhere == <<tcpVars, webVars, mainVars, written, hungUp, kind, readsDone, takes>>

\* net.Dial succeeds when somebody listens; then the receiver is started.
NewChatClient ==
  /\ conn = "none" /\ tcpPort # "nobody"
  /\ conn' = "open" /\ peer' = tcpPort /\ rpc' = "reading"
  /\ UNCHANGED <<wire, messages, sent, Elsewhere>>

SendMessage ==
  /\ conn = "open" /\ sent < MaxLines
  /\ sent' = sent + 1
  /\ UNCHANGED <<wire, conn, peer, rpc, messages, Elsewhere>>

\* A line of the server: the example prints it, the library has to put it into
\* Messages, where it waits for room.
ReadString ==
  /\ rpc = "reading" /\ conn = "open" /\ wire > 0
  /\ wire' = wire - 1
  /\ rpc' = IF kind = "library" THEN "holding" ELSE "reading"
  /\ UNCHANGED <<conn, peer, messages, sent, Elsewhere>>
PutMessage ==
  /\ rpc = "holding" /\ messages < MsgCap
  /\ messages' = messages + 1 /\ rpc' = "reading"
  /\ UNCHANGED <<wire, conn, peer, sent, Elsewhere>>

\* The read fails when either end is closed.  The library waits for a reader
\* of Done before its deferred Close; the example ends, and its socket with it.
ReadFails ==
  /\ rpc = "reading" /\ (PeerGone \/ conn = "closed")
  /\ rpc' = IF kind = "library" THEN "done" ELSE "gone"
  /\ conn' = IF kind = "library" THEN conn ELSE "closed"
  /\ UNCHANGED <<wire, peer, messages, sent, Elsewhere>>
LeaveOpen     == UNCHANGED conn                                \* mutant
DeferredClose == conn' = "closed"
DoneTaken ==
  /\ rpc = "done" /\ readsDone
  /\ rpc' = "gone" /\ DeferredClose
  /\ UNCHANGED <<wire, peer, messages, sent, Elsewhere>>
Receiver == ReadString \/ PutMessage \/ ReadFails \/ DoneTaken

\* The program around the library takes a message or closes the connection; the
\* example ends with 'quit', which closes it, too.
TakeMessage ==
  /\ messages > 0 /\ messages' = messages - 1
  /\ UNCHANGED <<wire, conn, peer, rpc, sent, Elsewhere>>
Close ==
  /\ conn = "open" /\ conn' = "closed"
  /\ rpc' = IF kind = "library" THEN rpc ELSE "gone"
  /\ UNCHANGED <<wire, peer, messages, sent, Elsewhere>>

-----------------------------------------------------------------------------
ProgramsNext ==
  \/ NewServer \/ ListenAndServe
  \/ CommandBroadcast \/ BroadcastTcp \/ BroadcastWeb \/ Quit
  \/ TcpServer \/ TcpBroadcaster \/ WebServer \/ WebBroadcaster
  \/ OtherWrites \/ OtherHangsUp
  \/ NewChatClient \/ SendMessage \/ Receiver \/ TakeMessage \/ Close

ProgramsSpec == ProgramsInit /\ [][ProgramsNext]_programsVars

\* Goroutines and started programs go on, and so does a program around the
\* library that takes its messages; what users and other programs do is up to
\* them.
ProgramsFairSpec ==
  /\ ProgramsSpec
  /\ WF_programsVars(NewServer) /\ WF_programsVars(ListenAndServe)
  /\ WF_programsVars(BroadcastTcp) /\ WF_programsVars(BroadcastWeb)
  /\ WF_programsVars(TcpBroadcaster) /\ WF_programsVars(WebBroadcaster)
  /\ WF_programsVars(Receiver) /\ WF_programsVars(takes /\ TakeMessage)
=============================================================================
