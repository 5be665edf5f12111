------------------------------- MODULE Lounge -------------------------------
(***************************************************************************)
(* The lounge page of the chat server: the script embedded in cmd/main.go.  *)
(* A handler of the page, a timer's callback included, is one step.  The    *)
(* server is what WsChat promises a browser: it echoes what the page sends, *)
(* in order, or drops it, relays what others say, and can go away.          *)
(*                                                                          *)
(* Of the feed the model keeps the number of message rows and the rows of   *)
(* running uploads, of a message who sent it.  Percentages count in Steps.  *)
(***************************************************************************)
EXTENDS Naturals, Sequences, FiniteSets, SequencesExt

CONSTANTS
  Self, Others,   \* the name typed at the entrance, the other people's names
  Admin,          \* "ADMIN", whose messages are shown as notices
  Bot,            \* the name the bot simulation sends under
  MaxSockets,     \* bound on the sockets the page opens
  MaxHeard,       \* bound on the messages of others
  MaxSaid,        \* bound on the messages the page sends by Enter
  MaxTicks,       \* bound on the rounds of the bot simulation
  Uploads,        \* the files that are picked
  Images,         \* those that are images
  Steps           \* 10 in the code: ticks until an upload counts as complete

ASSUME LoungeAssumption ==
  /\ MaxSockets \in Nat \ {0} /\ Steps \in Nat \ {0}
  /\ MaxHeard \in Nat /\ MaxSaid \in Nat /\ MaxTicks \in Nat
  /\ Images \subseteq Uploads
  /\ Self # Admin /\ Bot # Admin /\ Others \cap {Self, Admin} = {}

VARIABLES
  joined,
  sock,        \* the sockets made so far; "dead" is closed before its events ran
  retries,     \* reconnect timers that are set
  online,      \* the connection badge
  outbox,      \* what the server has yet to echo on the current socket
  clientParticipants,
  senders,     \* history: the senders of the messages shown
  msgRows, clientLogsCount,
  uploadRows,  \* the rows of uploads in the feed, oldest first
  bar,         \* what the progress bar of each of them says
  upload,      \* "none", "ticking", "reading" or "done"
  percentage,
  flushed,     \* history: uploads whose row was flushed with the feed
  activityTicker,   \* the bot simulation is on
  typing,      \* a bot's message is due
  heard, said, ticks

linkVars == <<joined, sock, retries, online>>
feedVars == <<clientParticipants, senders, msgRows, clientLogsCount>>
upVars   == <<uploadRows, bar, upload, percentage, flushed>>
botVars  == <<activityTicker, typing, ticks>>
vars == <<linkVars, outbox, feedVars, upVars, botVars, heard, said>>

Init ==
  /\ joined = FALSE /\ sock = <<>> /\ retries = 0 /\ online = FALSE /\ outbox = <<>>
  /\ clientParticipants = {} /\ senders = {} /\ msgRows = 0 /\ clientLogsCount = 0
  /\ uploadRows = <<>> /\ bar = [u \in Uploads |-> 0]
  /\ upload = [u \in Uploads |-> "none"] /\ percentage = [u \in Uploads |-> 0]
  /\ flushed = {} /\ activityTicker = FALSE /\ typing = FALSE /\ ticks = 0
  /\ heard = 0 /\ said = 0

\* wsSocket is always the socket made last.
Current == Len(sock)
IsOpen  == Current # 0 /\ sock[Current] = "open"

-----------------------------------------------------------------------------
(* The link.                                                                *)

initializeSocketLink == sock' = Append(sock, "connecting")

\* The entrance is left once, and with a name.
joinLoungeLobby ==
  /\ ~joined
  /\ joined' = TRUE
  /\ initializeSocketLink
  /\ clientParticipants' = clientParticipants \cup {Self}
  /\ UNCHANGED <<retries, online, outbox, senders, msgRows, clientLogsCount, upVars,
                 botVars, heard, said>>

OnOpen(s) ==
  /\ sock[s] = "connecting"
  /\ sock' = [sock EXCEPT ![s] = "open"]
  /\ online' = TRUE
  /\ UNCHANGED <<joined, retries, outbox, feedVars, upVars, botVars, heard, said>>

\* The connection is gone; readyState says so before the handlers are called.
Breaks(s) ==
  /\ sock[s] \in {"connecting", "open"}
  /\ s < MaxSockets
  /\ sock' = [sock EXCEPT ![s] = "dead"]
  /\ outbox' = <<>>
  /\ UNCHANGED <<joined, retries, online, feedVars, upVars, botVars, heard, said>>

\* onerror comes before onclose, if at all.
NoRetry    == UNCHANGED retries
RetryToo   == retries' = retries + 1                           \* mutant
AfterError == NoRetry
OnError(s) ==
  /\ sock[s] = "dead"
  /\ sock' = [sock EXCEPT ![s] = "failed"]
  /\ online' = FALSE
  /\ AfterError
  /\ UNCHANGED <<joined, outbox, feedVars, upVars, botVars, heard, said>>

GoesOffline == online' = FALSE
GivesUp  == UNCHANGED retries                                  \* mutant
SetTimer == retries' = retries + 1
OnClose(s) ==
  /\ sock[s] \in {"dead", "failed"}
  /\ sock' = [sock EXCEPT ![s] = "closed"]
  /\ GoesOffline
  /\ SetTimer
  /\ UNCHANGED <<joined, outbox, feedVars, upVars, botVars, heard, said>>

\* Three seconds later.
Reconnect ==
  /\ retries > 0
  /\ retries' = retries - 1
  /\ initializeSocketLink
  /\ UNCHANGED <<joined, online, outbox, feedVars, upVars, botVars, heard, said>>

-----------------------------------------------------------------------------
(* Messages.                                                                *)

\* A notice of the operator gets a row; so does a message, whose sender is
\* listed unless it is the user.
registerParticipant(m) ==
  clientParticipants' = IF m \in {Admin, Self} THEN clientParticipants
                                               ELSE clientParticipants \cup {m}
renderIncomingMsg(m) ==
  /\ clientLogsCount' = clientLogsCount + 1
  /\ msgRows' = msgRows + 1
  /\ senders' = senders \cup {m}
  /\ registerParticipant(m)

Hear(m) ==
  /\ IsOpen /\ heard < MaxHeard
  /\ heard' = heard + 1
  /\ renderIncomingMsg(m)
  /\ UNCHANGED <<linkVars, outbox, upVars, botVars, said>>

Echo ==
  /\ outbox # <<>>
  /\ outbox' = Tail(outbox)
  /\ renderIncomingMsg(Head(outbox)) \/ UNCHANGED feedVars
  /\ UNCHANGED <<linkVars, upVars, botVars, heard, said>>

\* wsSocket.send, if the socket is open: otherwise the message is given up.
Send(who) == outbox' = IF IsOpen THEN Append(outbox, who) ELSE outbox

\* A text is kept in its field, and can be sent again, when the link is down.
transmitMessage ==
  /\ joined /\ IsOpen /\ said < MaxSaid
  /\ said' = said + 1
  /\ Send(Self)
  /\ UNCHANGED <<linkVars, feedVars, upVars, botVars, heard>>

\* The feed is emptied, rows of running uploads and all, and the count reset.
KeepsCount == UNCHANGED clientLogsCount                        \* mutant
ResetCount == clientLogsCount' = 0
clearFeedScreen ==
  /\ joined /\ (msgRows > 0 \/ uploadRows # <<>>)
  /\ msgRows' = 0 /\ ResetCount
  /\ uploadRows' = <<>>
  /\ flushed' = flushed \cup {uploadRows[n] : n \in 1 .. Len(uploadRows)}
  /\ UNCHANGED <<linkVars, outbox, clientParticipants, senders, bar, upload, percentage,
                 botVars, heard, said>>

-----------------------------------------------------------------------------
(* The simulated upload.  The interval finds its bar by an id that all      *)
(* uploads share: it gets the bar of the oldest row, or none, and then its  *)
(* callback throws before it can look whether it is done.  The percentage   *)
(* of such an interval grows for ever; beyond Steps it makes no difference. *)

processSimulatedUpload(u) ==
  /\ joined /\ upload[u] = "none"
  /\ upload' = [upload EXCEPT ![u] = "ticking"]
  /\ uploadRows' = Append(uploadRows, u)
  /\ UNCHANGED <<linkVars, outbox, feedVars, bar, percentage, flushed, botVars, heard, said>>

\* A row is removed from the feed, if it is still there.
Places(u)  == {n \in 1 .. Len(uploadRows) : uploadRows[n] = u}
Without(u) == IF Places(u) = {} THEN uploadRows
                               ELSE RemoveAt(uploadRows, CHOOSE n \in Places(u) : TRUE)
KeepsTicking(u) == UNCHANGED upload                            \* mutant
Completes(u) == upload' = [upload EXCEPT ![u] = IF u \in Images THEN "reading" ELSE "done"]

UploadTick(u) ==
  LET pct == IF percentage[u] < Steps THEN percentage[u] + 1 ELSE Steps IN
  /\ upload[u] = "ticking"
  /\ percentage' = [percentage EXCEPT ![u] = pct]
  /\ \/ uploadRows = <<>> /\ UNCHANGED <<uploadRows, bar, upload, outbox>>
     \/ /\ uploadRows # <<>>
        /\ bar' = [bar EXCEPT ![Head(uploadRows)] = pct]
        /\ IF pct < Steps
             THEN UNCHANGED <<uploadRows, upload, outbox>>
             ELSE /\ uploadRows' = Without(u)
                  /\ Completes(u)
                  /\ IF u \in Images THEN UNCHANGED outbox ELSE Send(Self)
  /\ UNCHANGED <<linkVars, feedVars, flushed, botVars, heard, said>>

\* The FileReader has read an image.
ReaderOnload(u) ==
  /\ upload[u] = "reading"
  /\ upload' = [upload EXCEPT ![u] = "done"]
  /\ Send(Self)
  /\ UNCHANGED <<linkVars, feedVars, uploadRows, bar, percentage, flushed, botVars, heard, said>>

-----------------------------------------------------------------------------
(* The bot simulation.  A round takes twelve seconds and the bot's message  *)
(* is due within two of them.                                               *)

handleSimulatorChange ==
  /\ joined /\ ticks < MaxTicks
  /\ activityTicker' = ~activityTicker
  /\ UNCHANGED <<linkVars, outbox, feedVars, upVars, typing, ticks, heard, said>>

BotTick ==
  /\ activityTicker /\ ~typing /\ ticks < MaxTicks
  /\ typing' = TRUE /\ ticks' = ticks + 1
  /\ UNCHANGED <<linkVars, outbox, feedVars, upVars, activityTicker, heard, said>>

\* Also when the simulation was switched off in between.
BotSays ==
  /\ typing
  /\ typing' = FALSE
  /\ Send(Bot)
  /\ UNCHANGED <<linkVars, feedVars, upVars, activityTicker, ticks, heard, said>>

-----------------------------------------------------------------------------
Link(s) == OnOpen(s) \/ OnError(s) \/ OnClose(s)

Next ==
  \/ joinLoungeLobby \/ Reconnect
  \/ \E s \in 1 .. Len(sock) : Breaks(s) \/ Link(s)
  \/ \E m \in Others \cup {Admin} : Hear(m)
  \/ Echo \/ transmitMessage \/ clearFeedScreen
  \/ \E u \in Uploads : processSimulatedUpload(u) \/ UploadTick(u) \/ ReaderOnload(u)
  \/ handleSimulatorChange \/ BotTick \/ BotSays

Spec == Init /\ [][Next]_vars

\* Timers fire, a file is read, a broken socket gets its events, and a new one
\* is opened as long as the server is there.
Fairness ==
  /\ WF_vars(Reconnect)
  /\ \A s \in 1 .. MaxSockets : WF_vars(s \in DOMAIN sock /\ Link(s))
  /\ \A u \in Uploads : WF_vars(UploadTick(u)) /\ WF_vars(ReaderOnload(u))
FairSpec == Spec /\ Fairness
=============================================================================
