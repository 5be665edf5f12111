--------------------------- MODULE ProgramsProps ---------------------------
(***************************************************************************)
(* What the programs of ChatPrograms must never do together, and what they  *)
(* must eventually do.                                                      *)
(***************************************************************************)
EXTENDS ChatPrograms, SequencesExt

\* Every variable that is not of the two servers has its type, and a port that
\* the chat has not got serves nobody.
ProgramsTypeOK ==
  /\ tcpPort \in {"nobody", "chat", "other"} /\ webPort \in {"nobody", "chat", "other"}
  /\ mpc \in {"start", "reading", "toTcp", "toWeb", "exited"}
  /\ web \in {"none", "starting", "serving", "failed"}
  /\ conn \in {"none", "open", "closed"} /\ peer \in {"none", "chat", "other"}
  /\ rpc \in {"none", "reading", "holding", "done", "gone"}
  /\ messages \in 0 .. MsgCap /\ sent \in 0 .. MaxLines /\ wire \in 0 .. written
  /\ Running => tcpPort = "chat" /\ (web = "serving" <=> webPort = "chat")
  /\ wHpc[Browser] # "new" => web = "serving"

\* What was offered to the browser, in the order in which it gets it.
Offered == wReceived[Browser] \o wWriting[Browser] \o wSendQ[Browser]

\* The operator's messages reach the two sides in one order, the web side never
\* before the TCP side has taken them, and none gets lost: each one is offered to
\* the browser or still to be offered, in the order in which they were given,
\* unless there was no room for it in Broadcast or in the browser's Send, or no
\* browser registered when it was served; then it never turns up later
\* (cmd/main.go 86-87, websocket.go 123-137, 142-154).
Increasing(q) == \A i, j \in DOMAIN q : i < j => q[i][2] < q[j][2]
WebFollowsTcp ==
  LET onTheWay == Offered \o wBcast IN
  /\ ProgramsTypeOK
  /\ Increasing(onTheWay)
  /\ ToSet(onTheWay) = {Operator} \X ((1 .. wAdmin) \ webMissed)
  /\ wAdmin = tAdmin - (IF mpc = "toWeb" THEN 1 ELSE 0)

\* The prompt comes back: /broadcast waits for the TCP side, never for ever,
\* whatever clients do not read, and whether or not there is a web server.
PromptComesBack == mpc \in {"toTcp", "toWeb"} ~> mpc = "reading"

\* A client whose other end is gone lets go of its connection, also when it is
\* in the middle of handing on a line; only two things keep the library from it:
\* a program that does not read Done while it waits for that, and one that does
\* not go on taking Messages while it holds a line (client.go 50-65,
\* tcp-client-example 40-52).
ClientLetsGo ==
  conn = "open" /\ PeerGone ~>
    \/ conn = "closed"
    \/ rpc = "done" /\ ~readsDone
    \/ rpc = "holding" /\ ~takes
=============================================================================
