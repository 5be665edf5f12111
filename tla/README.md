# TLA+ models of the NPE practicals

This directory is a verification project for the programs in this repository.
It holds TLA+ modules that model the concurrent parts of the code, TLC
configurations that check them on small instances, and TLAPS proofs of the
safety properties, which hold for all values of the models' constants.

Paths below are relative to `src/`; `scanner.go` is
`practical3/scanner/scanner.go`, `app.js` is `practical3/frontend/app.js`,
`server.go` and `websocket.go` are in `practical2/chat-server/pkg/server/`,
`cmd/main.go` is the main program beside them, `client.go` is in `pkg/client/`,
`projec main.go` is `Practical 1/projec/tcp-routes-gui/main.go`, and `app.py`,
`scanner.py` and `database.py` are in `practical 4/`.

## 1. Inventory

| Component | State it keeps | Operations | Interacts with | Status |
|---|---|---|---|---|
| Port scanner engine, `scanner.go` | one object behind `ps.mu`: running flag, context, counters, open ports, live buffer; per scan two channels, a WaitGroup and locals | `Start`, `Stop`, `GetStatus`; goroutines of `runScan`: collector, feeder, closer, workers | called by the HTTP handlers; the goroutines share the object and the channels | modelled |
| Target and port parsing, `scanner.go` | locals | `ParseTargets`, `expandCIDR`, `expandIPRange`, `incrementIP`, `ParsePorts` | called by `Start` with `ps.mu` held | partly: fields by form, no IPv6 networks |
| Scanner HTTP API, `practical3/main.go` | the global scanner | start, stop, status, interfaces; choice of the port | calls the engine | start, stop and status, with the console |
| Scanner console, `app.js` | poll timer, grid, results, form state | submit, stop, poll, render, export | fetches the API | partly: no presets, no search and sorting of the table |
| Chat TCP server, `server.go` | client map, three channels, a Send channel per client | accept, handle, broadcast, count | shared select loop | modelled |
| Chat WebSocket server, `websocket.go` | the same, and a writer per client | upgrade, read, write, broadcast, count | browsers | modelled |
| Chat main program, `practical2/chat-server/cmd/main.go` 13-97 | who has the two ports | start, `/broadcast`, `/quit` | calls both servers | modelled |
| Lounge page, `cmd/main.go` 1691-2309 | socket, reconnect timer, participants, feed, counter, uploads, bot | join, send, receive, reconnect, upload, flush, simulate | WebSocket server | partly: no themes, search, download of the log |
| Chat client, `pkg/client`, `cmd/tcp-client-example` | connection, two channels | dial, send, receive, close | TCP server, or whoever has its port | modelled |
| TCP routes viewer (two versions), `Practical 1/` | table of the page; a database that is never opened | refresh, filter, export | `netstat`, `tasklist` | partly: no export, no history of a database |
| Honeypot, `practical 4/` | rows of a SQLite table, `config.json`, a thread per connection | connect, record, scan, update, answer; edit, exit, restart | scans its peer, which may be itself | modelled; the dashboard's two read-only routes are not |
| DNS script, `pract 4/` | none | one lookup | library | not modelled: input and output only |
| Pages and styles | none | | | not modelled: no behaviour |

What is hard in this code, and what makes each component correct:

* **Scanner.** The methods lock `ps.mu`, but the goroutines read `ps.ctx`,
  `ps.workers` and `ps.totalPorts` without it, and a new `Start` is possible as
  soon as `Stop` has returned, while the old goroutines are still winding down.
  Correct means: no result is lost or counted twice, no target is dialed twice,
  the results channel is never sent on after its close, everybody ends, and what
  `GetStatus` shows belongs to the current scan.
* **Parsing.** Off-by-one errors at the ends of networks, ranges and the
  address space. Correct means: exactly the addresses and ports the fields mean.
* **Chat servers.** Registration, removal and messages travel on three channels
  of one `select` without an order; channels are bounded, some senders wait and
  others drop. Correct means: the client map tells who is connected, all clients
  see a common order, nobody is blocked for ever.
* **Console.** Polls are sent by a timer that does not wait for answers, so
  answers are late, overtake each other or are lost, and the scanner can have
  moved on. Correct means: no timer leaks, the Stop button is there while the
  scan is, what is labelled finished is, and the grid shows results where they
  belong.
* **Lounge.** Sockets break at any point, handlers of an old one may run late,
  and timers of uploads look for elements another handler may have removed.
  Correct means: one link or one attempt, a badge and counters that agree with
  the page, and uploads that complete.
* **Honeypot.** A row is inserted before a scan and updated after it, threads
  run side by side, the list of authorized peers changes, the database fails,
  the process ends. Correct means: only listed peers are dialed, each row tells
  the truth about its own connection, and no peer is kept waiting for ever.
* **Chat programs.** One `/broadcast` goes to a server that waits and to one that
  drops; ports may be taken; the process ends under its clients; the receiver of
  the client library waits on two channels of its caller. Correct means: both
  sides hear the operator in one order, the prompt comes back, and a client whose
  other end is gone lets go of its connection.
* **Routes.** A list is put together by many commands while processes end and
  pids are used again; answers of two refreshes and the filter meet in the page.
  Correct means: a row tells of one process, the parts of the page agree, and the
  button comes back.

The full list of hazards, each at its line, is in `PROJECT.json`.

## 2. Modules

```
ScanJob    <--refines-- PortScannerSerial --+
ScanEngine <--refines-- PortScannerEngine --+--> PortScannerProps --> PortScanner
    ^
    |            MCPortScanner --> PortScannerEngine
    |            MCPortScannerSerial --> PortScannerSerial
    |            PortScannerProofs --> PortScannerEngine, PortScannerSerial, StartRequest
    +-- ScanConsole <-- ConsoleProps <-- MCConsole
                                     <-- ConsoleProofs

MCStartRequest --> StartRequest --> Targets, PortList

MCChat --> ChatProps --> TcpChat --+
                                   +--> ChatHub
MCWs   --> WsProps   --> WsChat  --+        ChatHubProofs --> ChatHub
ChatProofs --> ChatProps, ChatHubProofs     WsProofs --> WsProps, ChatHubProofs

                 TcpChat, WsChat <--INSTANCE T, W-- ChatPrograms
MCPrograms --> ProgramsProps --> ChatPrograms

MCLounge   --> LoungeProps   --> Lounge       ProgramsProofs --> LoungeProps, ProgramsProps
MCHoneypot --> HoneypotProps --> Honeypot     HoneypotProofs --> HoneypotProps
MCRoutes   --> RoutesProps   --> RoutesView     RoutesProofs   --> RoutesProps
```

An arrow is an EXTENDS unless it says otherwise.

**PortScanner** is `PortScanner` of `scanner.go`. A critical section of `ps.mu`
is one step; a read outside of it is a step of its own. Names of fields are
kept. The state is indexed by scan (`g`, the number of the accepted `Start`)
and worker (`w`).

| In the model | In the code |
|---|---|
| `Start`, `Stop`, `GetStatus` | the methods (119-244) |
| `ReadWorkers`, `Clamp`, `SpawnWorkers` | the unlocked reads and the `go` statements of `runScan` (248-280) |
| `CollectorReceive`, `CollectorRecord`, `CollectorFinish` | the range loop over `resultsChan`, its locked body, the end (283-303) |
| `FeedPort`, `ClosePorts` | the feeder (264-274) |
| `CloseResults` | the closer (277-280) |
| `WorkerEnter`, `WorkerReceive`, `WorkerReturn` | the outer select (311-317) |
| `WorkerProbe`, `WorkerAbandon` | the inner select (319-323) |
| `WorkerDialed`, `WorkerSend` | the end of `scanIPPort`, the send (324, 337-366) |
| `ctx`, `cancelled` | `ps.ctx`, named by the scan that made it, and the contexts whose cancel was called |
| `fed`, `taken`, `portsClosed` | `portsChan`: it has room for every port and is filled in order, so its content is the ports `taken + 1 .. fed` |
| `probed`, `recorded`, `overlapped` | history, not in the code |

Ports and addresses are positions in the slices. A dial ends as connected,
refused, by timeout, or, if its context is cancelled, by that; banners, service
names, timestamps and speeds are left out. `overlapped` becomes true when a
`Start` is accepted while goroutines of a stopped scan are alive.

**ScanJob** is the abstract promise: a job that counts up to its total and ends.
**PortScannerSerial** restricts the callers to those that wait for the old
goroutines (`~overlapped'`) and maps the scanner to it. The object gives a
caller no means to know when that is, so the promise is conditional.

**ScanEngine** is what a caller sees for every order of `Start` and `Stop`: the
fields of the object, which targets each scan has reported, and which scans are
alive. **PortScannerEngine** maps the scanner to it (a target is reported when
it is dialed and no longer on its way to the object).

**ScanConsole** puts the page and the HTTP handlers on top of `ScanEngine`: what
is checked about the console holds with the scanner the engine stands for. A
handler of the page is one step up to its next `await`; a request and its answer
are steps of their own.

| In the model | In the code |
|---|---|
| `SubmitForm`, `StartAnswered`, `StartFails` | the submit handler up to the fetch, its answer, its errors (`app.js` 138-226) |
| `ServerStart`, `ServerTotal` | `handleScanStart`: `Start`, then `GetStatus` (`practical3/main.go` 88-130) |
| `Tick`, `ServerStatus`, `PollAnswered`, `PollFails` | `setInterval`, `handleScanStatus`, `pollScanStatus` |
| `ClickStop`, `ServerStop` | the Stop button and `handleScanStop` |
| `updateGrid`, `PlaceAll`, `Place`, `Kept` | `updateGrid`, the grid with a cell per port and the rolling view |
| `timers`, `pollInterval` | the intervals that are set, and the variable that holds the last of them |
| `form` | the job the fields of the form name at each submit, which reads them anew |
| `mishaps` | a bound: how often a poll was sent before the last was answered, a form submitted in a hurry, a request lost |
| `disturbed` | history: which of three situations the page is not prepared for have occurred |

**Targets**, **PortList**: the parsers, one loop iteration or token per step.
Octets have `OctetBits` bits and addresses `NumOctets` octets, so that the end
of the address space is reachable. **StartRequest** composes them as `Start`
does before it touches the object; what it accepts is what `PortScanner` assumes
of a request (at least one address and one port). Text is abstracted to its form.
A name lookup yields an error or any addresses, up to `MaxFound` of them, of
which the code keeps all, also those that come twice. `PortScanner` speaks of
positions in the two lists, so an address that is listed twice is two targets
there.

**ChatHub** is what both chat servers have in common, the three channels, the
broadcaster, and where the handler of a connection is between the accept and the
close (`hpc`); **TcpChat** adds `acceptConnections` and `handleClient`, **WsChat**
adds `HandleWebSocket`, `handleWSClient` and the writers. A connection is an
incarnation of an address. `PeerLeaves` is the peer that closes or resets its end,
at any time; from then on its address can come back with another connection
(`Arrive`, `AddressFree`), wherever the handler of the old one is: before its
removal is in the channel, waiting for room there, or behind it. So the
broadcaster, which knows addresses only, can register the new connection over the
old one and delete the new one with the removal of the old one. Two histories tell
when the map is allowed to be wrong: `overtaken` has the connections whose removal
was served before their registration, `met` those that arrived while the hub had
still to register or to remove another one of their address, and those they met.

In `WsChat` a write on an open connection is a step that the writer may have to
wait for as long as the browser likes: `WriteJSON` has no deadline. `Readers` are
the browsers that go on reading; of the others nothing is assumed.

**ChatPrograms** puts the main program over both servers, with all of their
actions taken over from `TcpChat` and `WsChat`, a browser that listens, and a
client at the other end of the TCP server, which is a program around the library
or the example. Ports may be taken by another program, in which case the client
talks to that one.

| In the model | In the code |
|---|---|
| `NewServer`, `ListenAndServe` | the start of `main`: listeners, broadcasters, the goroutine of the HTTP server |
| `CommandBroadcast`, `BroadcastTcp`, `BroadcastWeb`, `Quit` | the loop over the console (`cmd/main.go` 64-97), the two calls of `/broadcast` a step each |
| `NewChatClient`, `SendMessage`, `Close` | the functions of `client.go`, and the `main` of the example |
| `ReadString`, `PutMessage`, `ReadFails`, `DoneTaken` | `receiveMessages`: the read, the send on `Messages`, the send on `Done` and the deferred `Close` |
| `TakeMessage`, `takes`, `readsDone` | the caller of the library, which is not in the repository: it goes on taking its messages or not, and reads `Done` or not |
| `webMissed` | history: the operator's messages the web side had no room for, or that found no browser registered |

**Lounge** is the script of the chat page. `sock` has an entry for every socket
the page made; a socket that breaks is `dead` until its error handler, if it
gets one, and its close handler have run. The server is reduced to what `WsChat`
promises a browser: it echoes the page's messages in order or drops them, and
relays those of others. Of the feed the model keeps the number of message rows
and the rows of running uploads, whose intervals are found by a shared id.

**Honeypot** has one thread per connection, with a step for each database call,
port dialed, and answer. A connection to the honeypot's own port during its own
scan is one more connection, in the backlog. Database calls can fail, at the
places where the code catches that and where it does not; `Edit` saves
`config.json`, which a scan can find half written; `Exit` ends the process with
its daemon threads and its backlog; `Restart` leaves the table as it is. `bind`
may fail, and an exception of `accept()` or of `Thread.start()` ends the accept
loop (`LoopEnds`): its socket goes with the backlog, the threads and the pages go
on.

**RoutesView** is the viewer of TCP routes, both versions of it: the goroutine of
a refresh, with a step for the `netstat` and one for each `tasklist`, and the
script of the page. Between any two of them processes end and start, and pids are
used again. A row keeps, as history, the name of the process netstat saw and
whether it has ended since. The desktop version shows the first word of a name
(`FirstWord`), which can be the name of another program. An address is a number,
which stands for its place in the order of the rows; the text in the filter is
such a word.

Properties are in the modules named `..Props`, and at the end of `Targets`,
`PortList` and `StartRequest`. Definitions marked *mutant* are
plausible mistakes; each property is shown to fail when one of them takes the
place of the definition that follows it.

## 3. Runs

| Run | Question | Bounds |
|---|---|---|
| `scanner_restart` | does what `GetStatus` shows belong to the current scan; is what ends without a `Stop` complete; does every scan end; is the scanner the engine of `ScanEngine` | two scans of 2x1 and 1x1 targets, so sizes differ, `Stop` and `Start` at any point; live buffer of 1; the first asks for no workers |
| `scanner_serial` | are results and dials exact, wherever a scan is stopped; does the scanner implement the job | two scans, of 2x2 targets by two workers and of 1x1 by three, which are clamped to one |
| `scanner_third_start` (violation) | can two scans nobody stopped run at once | three scans of one target |
| `start_request` | are the lists exact, does parsing end | 3 octets of 2 bits, all networks but length 0, all ranges, names with one address or two, equal or different; ports up to 4, all fields of up to two tokens |
| `chat_tcp` | client map, order, is anybody blocked for ever | two connections out of three, two of which have the same address, which is free when the peer of the first is gone; channels of 1, Send of 2; one line, one message of the operator |
| `chat_ws` | client map, common order, are queues written and leavers forgotten | two connections out of three, two of which have the same address and the second of these does not read; one message of the first, one of the operator, channels of 1 |
| `console` | timer, Stop button, labels, grid; do the controls come back | two scans, each of one port or of two: with one port both times one mishap, otherwise none |
| `console_rolling` (violation) | is the rolling view capped | one scan of two ports, cap of 1 |
| `lounge` | one link, true feed; does the link come back, do uploads complete | two sockets, the second of which holds; an image and another file; one message of others, one by Enter, one round of the bot; two ticks per upload |
| `honeypot` | who is dialed, are rows true, are peers let go | two connections, from outside or from the honeypot's own scan; two edits; one restart; the accept loop may end, or never begin; ports 22 and 8080 |
| `programs` | do both sides hear the operator, does the prompt come back, do clients let go | channels and `Messages` of 1, two messages of the operator, one line of the client, two of another program; a library, whose caller reads `Done` or not and takes its messages or not, or the example; any port taken |
| `routes` | are lists of one moment, do the parts of the page agree, does the button come back | both versions; one pid, given to two of three programs, `web` with sockets {1, 2}, `web admin` and `db` with {2}, two starts; the load and two clicks; two texts of the filter |

*Why these bounds.* Two scans are enough for one to be stale, three for the stale
end to admit another; two workers for a shared channel, a third one to be clamped.
Requests of different sizes let an old scan meet a smaller or larger total. Two
addresses of a name can be equal or not. Capacity 1 makes every channel full as
soon as it is used, which is where senders wait or drop. A third connection is
needed only to use an address twice or not, and `MaxConns` says how many of them
come: two of one address, so that one can come back while its old handler is at
any point, or two of different ones, which compare orders. Two polls under way are
enough for one to overtake the other, and for one to belong to an older scan; one
mishap is enough for each of the three situations of `disturbed`, and two ports
for a grid in which a result can stand in the wrong cell. `Mishap` bounds only
what users and networks do, never what the scanner does. Two sockets are enough
for handlers of an old one to meet a new one; two uploads for one to move the
other's bar. Two connections of the honeypot are enough for two threads to meet at
the table, and for a scan to reach the honeypot itself. One client and one browser
are what the operator's two calls need, and two messages what an order needs;
`TcpChat` and `WsChat` have their own runs with more of them. Two clicks and the
load are three refreshes: the button admits one of its own at a time, and the
load's can meet either. One pid is enough for it to be used again between the
`netstat` and the `tasklist`. `CHECK_DEADLOCK FALSE` is set where the system comes
to rest because its bounded traffic is over (chat, console, lounge, honeypot,
programs, routes) or its result is computed (parsing); the scanner runs check for
deadlock, a caller of `GetStatus` being always there.

*Fairness.* Weak fairness of each goroutine: the Go scheduler runs what can run. A
dial ends by the timeout of the `Dialer`, a banner read by its deadline. The cases
of the broadcaster's select each have weak fairness: only the broadcaster takes
from these channels, so a ready case stays ready, and Go picks among ready cases
at random. A read on a connection whose peer is gone fails. Peers are under no
obligation to connect, write, read or leave: a write to a browser has weak
fairness for those in `Readers` only, and `QueueIsWritten` is claimed of these
only; `LeaversAreForgotten` holds without any browser that reads. In the console,
timers fire and the server answers starts and stops (weak); of the polls, which
are sent again and again, not all are lost (strong, for `ServerStatus` and
`PollAnswered` of any poll); `Goroutines` of the engine as a whole is weakly fair,
which is what `EveryScanEnds` shows of the scanner. In the lounge, timers fire, a
file is read, and a broken socket gets its events; that the last socket opens and
holds is the bound `MaxSockets`. In the honeypot, threads are scheduled, the
accept loop among them; no call need fail, nobody need edit anything, and the
process need not end. Of the programs, goroutines run, and a caller of the library
that goes on taking its messages (`takes`) takes the next one; whether it does is
open, and so is whether it reads `Done` and whether anybody hangs up. Of the
browser of that run nothing is assumed. Of the routes viewer, commands end and a
refresh that the button sent goes on; requests may fail. The refresh of the load
needs no fairness: nothing the properties promise waits for it.

*Names in the tables.* Some names stand for several parts, each of which is a
definition with its own statement: `StatusIsTrue` for `TypeOK`,
`RunningMeansLive`, `ProgressIsOwn`, `OpenPortsAreOwn` and `EtaIsTrue`;
`TargetsAreExact` for `CidrIsBlock` and `RangeIsInterval`; `TotalIsExact`
includes `SliceIsExact`; `PageAgrees` and `WebFollowsTcp` include the types of
their modules.

### What the violation runs show

* `scanner_third_start`: Start 1, Stop, Start 2; `runScan` 1 ends and sets
  `isRunning` to false (301) although scan 2 runs; Start 3 is accepted. Hence
  the condition `~overlapped` in the properties that relate the object to its
  current scan: `ProgressIsOwn`, `OpenPortsAreOwn`, `RunningMeansLive`,
  `EtaIsTrue`, `StopIsFinal`, and of the console `FinishedIsFinal`, `GridIsTrue`.
* `console_rolling`: the container of the rolling view gets the class
  `scan-grid`, and the next poll, which looks for `.rolling-container`, makes
  another (`app.js` 333-339); the cap of 200 nodes (353) holds in each of them,
  not in the view.

### Conditions of the properties

`MapIsTruthful` of the chat servers has two exceptions, one for each half. Who is
in the map is present unless it is in `overtaken`: when the removal of a
connection that ends at once is served before its registration, the closed
connection stays in the map. Who is present is in the map unless it is in `met`:
the removal of an old connection deletes whoever has its address. Both happen, the
second whenever a peer is back before the hub is done with its last connection;
the property says that nothing else makes the map wrong. `LeaversAreForgotten`
excepts `overtaken`. `QueueIsWritten` is of browsers that read. The properties of
the console except what the page is not prepared for, by name: `doubleSubmit` (the
form submitted again before the first answer: the first timer is lost),
`lateAnswer` (an answer after the polling ended or of a scan that was replaced),
`lostStart` (an accepted start whose answer was lost: the scan runs and the page
offers no Stop). `ControlsComeBack` excepts nothing. `UploadsComplete` excepts
uploads whose row was flushed. `ButtonGoesForward` excepts a pair of refreshes one
of which is the load's, for the button is not disabled while that one runs, and
the older list can be shown last. `ClientLetsGo` excepts a caller of the library
that does not read `Done`, and one that stops taking `Messages` while the receiver
holds a line (client.go 57, 62): in both cases the connection stays open for ever.
`TotalIsExact` counts probes for every form of target, and different pairs for all
but host names. `RowsAreOfOneMoment` compares first words. `QueuedIsOwned` excepts
a process that ended and a database that failed.

### Observed while modelling, not kept as runs

* Scanner: a dial cut off by `Stop` is reported as "closed" (348). Prefix length 0
  makes `expandCIDR` loop without end while `ps.mu` is held (469). A range that
  begins at the highest address wraps (531). A host name with exactly one hyphen
  is taken for a range (427). An address that a lookup yields twice is probed
  twice (445-458). `ParsePorts` returns its ports in map order, although line 608
  says sorted.
* Console: open ports that a stopped scan finds after the snapshot that ended
  the polling are never shown. A submit that is refused has emptied the display
  of the last scan already (`app.js` 193-226).
* Chat: `IMPLEMENTATION_SUMMARY.md` 191 says a client is removed from the active
  list on disconnection, which `overtaken` above contradicts; a client that is
  back with its old address early enough is removed although it is connected
  (`met`). Line 321 promises cleanup, but the writer of a closed WebSocket waits
  for ever on a `Send` that nobody closes (websocket.go 71), and one whose browser
  does not read waits in `WriteJSON`. No code takes messages from the `Send`
  channel of a TCP client, so after ten of them it is skipped (server.go 166). The
  operator's message is dropped for browsers when `Broadcast` is full
  (websocket.go 149-153).
* Chat programs: `QUICKSTART.md` 87 says that all connected clients receive a
  message; TCP clients receive none, nobody taking from their `Send`. The example
  has two `package main` clauses in one file and does not compile; its input loop
  goes round without end when its input ends. `IsConnected` of the library writes
  no bytes, so it does not notice a peer that is gone. A missing web port is only
  printed, a missing TCP port ends the program.
* Routes: in the basic version the filter of `tasklist` is built without the pid
  (projec main.go 100), so that every process is "Unknown". No code opens the
  database of the desktop version, which cuts names at their first blank (110):
  `System Idle Process`, pid 0, is shown as `System`, which is pid 4. The text in
  the filter is ignored by the next refresh, which shows all rows under it. When
  `netstat` fails, the answer is an empty list and says success.
* Scanner start: `practical3/main.go` 187-197 checks a port by listening on it
  and uses it later; the listener of the fallback port is not closed, so serving
  there fails unless the garbage collector has closed it. The comment at 60 says
  interfaces that are down or loopback are skipped; only those down are.
* Lounge: after Flush the interval of a running upload throws on every tick
  (`cmd/main.go` 2133), and two uploads move one bar. `downloadLogsText` throws
  while the row of an upload is in the feed, for it has no `.system-txt` (2214).
  The comment at 2171 speaks of resizing an image, which nothing does.
* Honeypot: `config.json` lists 127.0.0.1 and port 8080, its own, among the
  ports to scan: a local visitor starts a chain of scans of itself that ends
  only with the process. When `accept()` or `Thread.start()` fails the accept loop
  ends, and nothing but a restart brings it back, while the dashboard goes on.

## 4. Proofs

The proof modules prove, for all values of the constants that satisfy the
assumptions of `PortScanner`, `StartRequest` with both parsers, `ScanEngine` with
`ScanConsole`, `RoutesView`, `Honeypot`, `Lounge`, `ChatPrograms`, and of
`ChatHub` with `TcpChat` or `WsChat`:

| Module | Theorem | Statement |
|---|---|---|
| `PortScannerProofs` | `TypeCorrect` | `Spec => []TypeOK` |
| | `SendsAreSafe` | `Spec => []NoSendOnClosed` |
| | `DoneIsQuiet` | `Spec => []DoneMeansQuiet` |
| | `ScanInvariant` | `Spec => []ScanInv` |
| | `ProbesOnce` | `Spec => ProbeAtMostOnce` |
| | `ResultsAreKept` | `Spec => []NoResultLost` |
| | `ObjectInvariant` | `Spec => []ObjectInv` |
| | `ScansAreComplete` | `Spec => []CompleteUnlessStopped` |
| | `RunningIsTruthful` | `Spec => []RunningMeansLive` |
| | `ProgressIsTruthful` | `Spec => []ProgressIsOwn` |
| | `OpenPortsAreTruthful` | `Spec => []OpenPortsAreOwn` |
| | `EtaIsTruthful` | `Spec => []EtaIsTrue` |
| | `StatusIsTruthful` | `Spec => []StatusIsTrue`, the four above and the types together |
| | `StopEndsTheDialing` | `Spec => StopIsFinal` |
| | `ScannerImplementsJob` | `SerialSpec => ImplementsJob` |
| | `ScannerImplementsEngine` | `Spec => ImplementsEngine` |
| | `ListsAreExact` | `RequestSpec => []TargetsAreExact` |
| | `TotalIsCounted` | `RequestSpec => []TotalIsExact`, with the types of both parsers and `SliceIsExact` |
| `ChatProofs` | `ClientMapIsTruthful` | `Spec => []MapIsTruthful` of the TCP server |
| | `SendersKeepOrder` | `Spec => []SenderOrder` |
| `WsProofs` | `WsMapIsTruthful` | `Spec => []MapIsTruthful` of the WebSocket server |
| | `AllSeeOneOrder` | `Spec => []SameOrder` |
| `HoneypotProofs` | `TableIsInOrder` | `Spec => []TableInv` |
| | `RowsAreTruthful` | `Spec => []RowsAreTrue` |
| | `QueuedRowsAreOwned` | `Spec => []QueuedIsOwned` |
| | `OnlyListedPeersAreDialed` | `Spec => []OnlyListedAreDialed` |
| `ProgramsProofs` | `LinkIsOne` | `Spec => []OneLink` |
| | `FeedTellsTheTruth` | `Spec => []FeedIsTrue`, with the types of the page |
| | `WebSideFollows` | `ProgramsSpec => []WebFollowsTcp`, with the types of the programs |
| `ConsoleProofs` | `ConsoleIsSound` | `Spec => []ConsoleInv` |
| | `TimersDoNotLeak` | `Spec => []NoTimerLeaks`, with the types of the console |
| | `StopStaysReachable` | `Spec => []StopIsReachable` |
| | `FinishedScansAreFinal` | `Spec => []FinishedIsFinal` |
| | `GridIsTruthful` | `Spec => []GridIsTrue` |
| `RoutesProofs` | `RoutesAreSound` | `Spec => []RoutesInv` |
| | `ListsAreOfOneMoment` | `Spec => []RowsAreOfOneMoment` |
| | `PageIsConsistent` | `Spec => []PageAgrees`, with the types of the viewer |
| | `ClicksGoForward` | `Spec => ButtonGoesForward` |

*Assumptions.* Requests have at least one address, one port and a worker count
within `MaxWorkers` (`TotalIsCounted` proves the first two of the parser: an
accepted total is not zero).
`ClampAssumption` bounds the number of workers when the unlocked clamp can pick
up the total of another request: then that total, too, must be within
`MaxWorkers`. The proofs do not need it; it keeps TLC from running into the
bound of `SpawnWorkers`. The jobs of `ScanEngine` are finite sets of targets,
as the lists of the parser are. `RoutesView` has
finitely many local addresses, as a machine has, and no pid is the word "PID" in
the heading of a `netstat`.

Addresses have at least one octet of at least one bit, the fields that are tried
are any pairs of a target field and a sequence of tokens (`TypedAssumption`), and
`MaxIps` is any bound on the list under construction, `MaxFound` any on the
addresses of a name.

*One scan.* `NoSendOnClosed` is not inductive: that no worker is left when the
channel is closed depends on workers being spawned once and before the closer
looks. `LifeOK` says so: before its workers are spawned a scan has touched
nothing (`Untouched`), `resultsChan` is closed only behind the last worker, and
the scan is over only when the channel is drained. It is inductive together with
`TypeOK`, because a step of one scan leaves every other scan alone (`OthersSame`,
`SameKeeps`) and no call of the object touches the channels. `ProbeAtMostOnce`
needs `PortsOK`: ports taken from the channel are divided among the workers, each
works through the addresses of its port in order, and what is probed is exactly
what is behind the workers (`ProbedInOrder`). Both hold whatever `ps.ctx` is, so
they survive every interleaving of `Start` and `Stop`.

*No result lost.* `Balance` of a scan adds the finiteness of `probed` to the
equation. A dial adds one on both sides, because its target is new
(`FreshTarget`); every other step moves one result from one place to the next.

*The object.* `ObjectOK` holds as long as scans do not overlap: only the current
scan is alive, the flag tells whether it is alive and not stopped, the counter is
what its collector recorded, the open ports are its own. It is kept by `Start`
because a `Start` that finds no goroutine of a stopped scan finds none at all
(`StartFindsNobody`). It needs `ResultsOwn` (what is on its way carries its scan)
and, for the end of a scan, `GoesOn`: nobody closed `portsChan` early, no worker
returned before the channel was closed and empty, and every port taken is dialed
on every address or has a worker on it. The goroutines ask `ps.ctx`, which is
their own context or that of a later scan, so `GoesOn` speaks of scans that come
after the last one stopped (`NotStopped`), and holds of overlapping scans, too.

*Refinement.* For `ScanEngine` a target is reported when it was dialed and is no
longer on the way, so a result must be in one place only (`Apart`): the record of
the collector then reports one target that was not reported yet, and a dial, a
send and a receive move a target without a change that a caller could see
(`QuietMoves`). What ends a scan is `GoesOn` again. None of it needs the
condition `~overlapped`: this is what the scanner guarantees to callers that do
not wait. Under `SerialSpec` scans never overlap, and `Start`, `Stop`,
`CollectorRecord`, `CollectorFinish` map to `Begin`, `Stop`, `Count`, `End` of
`ScanJob`; everything else is a stutter (`OthersStutter`).

*The client map.* The map is right about an address only if its connections are
registered and removed one after the other, and the channels promise nothing of
the kind. `HubInv` (in `ChatHubProofs`) says what is left: a connection is handed
over once and asked to be removed once (`OnceEach`: where its handler is tells
whether it can be in `AddClient` and whether in `RemoveClient`), one that the hub
registers after its removal is `overtaken`, and two connections of one address
that the hub has both still to register or to remove have met (`Apart`). So when
the broadcaster registers a connection over another one, or deletes one by the
removal of another, the two have met; if they have not, the address is theirs
alone. Every step of either server is one of six moves of the hub (`HubArrives`,
`HubMoves`, `HubIsHanded`, `HubIsAsked`, and the broadcaster's `HubRegisters` and
`HubUnregisters`) or leaves it alone (`HubStays`), so both servers share the
argument.

*The orders.* `SenderOrder` follows from what a sender will say next: `NextNo`
is above every number of his that is queued anywhere (`OrderInv`), so that a new
message comes after all of them, and the broadcaster moves the head of one
ordered queue to the ends of others. `SameOrder` compares two clients, each of
whom may have lost messages to a full channel or a writer that gave up. What
waits in `Broadcast` was offered to nobody yet, so the two can differ only by
what one of them was not given; and a writer loses messages only between those
it has written and those still queued (`MiddleLost`), which keeps the order of
the rest.

*The table of the honeypot.* `RowsAreTrue` speaks of rows, and rows are written
by threads, so `TableInv` says of both what they know of each other: a thread at
work has a row of its own that is still as it was inserted (`OwnRow`), and every
row belongs to the thread whose `event_id` it is and says what this thread
decided (`RowOK`). What a thread has decided depends on how far it is
(`ThreadOK`): a status of "completed" is written only behind the last port. Most
steps change neither the table nor what rows depend on and share one lemma
(`QuietStep`); those that write keep every row but their own (`RowKept`), since
no two threads have the same `event_id`. Failures of the database and the end of
the process need no case of their own in the rows: they stop threads, and what
the rows say was true when it was written.

*Whom it dials.* `DialInv` adds to each connection what its history must say
while the list stands as it does (`ConnOK`): if the source is listed now, it was
listed at some time since the connection. So the moment at which a scan reads
`config.json` is covered, and every edit keeps it. A connection from within
points to an earlier one that dialed, whose history only grows.

*The link of the lounge.* `OneLink` is inductive once it is known that there is a
socket exactly from the entrance on (`LinkOK`). All sockets but the last are
closed, so whichever handler runs is one of the last (`OnlyTheLast`), and a
timer is set only by a close, of which each socket has one.

*The feed of the lounge.* The count and the rows agree because every handler
that touches one touches the other; what takes work is the rows of uploads.
`UploadsOK` says that they are of different uploads which all run: so taking away
one row takes away that of one upload (`WithoutIsOthers`), and there are as many
rows as uploads that have one (`RowsAreCounted`). Everybody heard is listed, the
user himself because nothing is echoed before the entrance (`MessagesOK`). That
the page never makes more than `MaxSockets` sockets needs `SocketsOK`: the last
one it may make does not break.

*The console.* Between the scanner and the page lie requests, so the invariant
speaks of what is on its way. `EngineInv` is what the engine alone keeps: reports
of the current scan are of its targets, and its counters count them while scans do
not overlap. `Taken` says what a status answer is still good for when it arrives:
of the current scan it has the right total, its live results were reported, and if
it says the scan is over, it is. A step of the engine keeps that of every answer
at once (`SnapsKeep`), for reports only grow and a scan that was replaced is not
the current one. `OneTimer` adds to the property that one submit waits at a time
and that the controls are free until it is answered, `StopInv` where a running
scan is known: at the page, or in an answer on its way. `Blanked` is why an old
answer finds nothing to spoil: before a start is answered the page shows no total
and no grid. The grid is filled by a loop over the live results, so what one
result does (`PlaceKeeps`, `PlaceShows`) is carried through the loop by induction
over its length (`PlaceAllKeeps`); a grid of as many cells as the scan has targets
has a free one for every new target, because the targets mapped are among those
reported, and the cells used are numbered without gaps.

*The routes.* While lines are named, the lines left and the rows made are as many
as the sockets netstat took, and all of different sockets (`Counts`). When no line
is left there are as many rows as sockets, all different, so every socket has one
(`AllThere`, a pigeonhole). A line remembers whether its process ended since
(`MarkedLines`); as long as it has not, the pid still means that process, so the
word that is looked up is that of its name (`Honest`). On the page the filter is a
recursion over the rows, shown by induction to find exactly the rows with the
text, in order (`FilterFinds`). `ButtonGoesForward` needs more than itself: one
refresh of the button is under way at a time, and the list it brings, once it is
taken, is not older than one the button has brought (`ButtonInv`).

*The lists of a request.* The properties speak of numbers and the code of octets,
so the first part is arithmetic. Comparing addresses octet by octet compares
their numbers (`NumbersCompare`), `incrementIP` with its carries goes to the next
number and from the highest to 0 (`IncrementIsNext`), and a mask, which cuts off
octets or parts of one, leaves the first number of the block (`MaskIsBlock`):
each by induction over the octets, with what the first of them are worth
(`DigitsUpto`). Hence `InNetwork` is membership in an interval
(`NetworkIsBlock`). The invariant `TargetsInv` follows the list while it is built:
it counts on from its first number, possibly past the end of the space
(`CountsFrom`, `Wrap`); that of a network is not longer than the block, and the
loop is left only when it is as long, unless the prefix length is 0, for which
the loop is never left and nothing is claimed of the list; that of a range has
not passed its last address. A list that counts and is not longer than the space
has no address twice, also where it wraps. `PortsInv` says that the map holds
what the tokens read so far mean; a slice of a set has each of its elements once
(`SliceHasEachOnce`), so the pairs of both lists are as many as the product of
their lengths (`PairsOfLists`). `Pow2` is a recursive function in place of the
operator `^`, of which the provers know nothing.

*The operator's words.* `WebFollowsTcp` needs what is offered to the browser and
what waits in the broadcaster's channel apart: both carry increasing numbers,
every number offered is below every one that waits, and what was given and not
missed is in one of the two (`NoneLost`), what was missed in neither (`WordsOK`).
Then the broadcaster's step moves the head of the second to the end of the first,
or drops it when the browser's channel is full, and a second call appends a number
above all. That the web side is never ahead, and behind by the one between its two
calls, is a matter of where the main program is (`MainOK`). All other steps of the
two servers, the clients and whoever has their ports leave these queues alone.

*Induction over data.* The library's induction rules take an operator as a
parameter and cannot be used here. `SetInduction`, in `ConsoleProofs`,
`RoutesProofs` and `PortScannerProofs`, states induction for a set of naturals
instead and follows from the well-foundedness of `<`; a recursive function is
shown to exist the same way (`PlacedExists`, `KeptExists`, `Pow2IsDefined`,
`ValueSteps`), for its definition is a CHOOSE.

*Model-checked only.* The liveness of every part: liveness under fairness is
beyond the prover. Every invariant and every action property that a passing run
checks, and both refinements, are proved. The two violation runs refute what
they state.

## 5. Not modelled

* Scanner: the choice of the port at the start (it depends on when the garbage
  collector closes a listener), `/api/interfaces`, which reads the machine;
  banners and service names, speeds, IPv6 networks; of the page the presets, the
  search, the sorting and the text of the exports.
* Chat: `/status` and the status route, which read two counts; `SendToClient` and
  `IsConnected`, which nobody calls; of the page the themes, emojis, the search
  and the download of the log.
* Routes: the history database, which no code opens; the lookup of host names,
  which the page never asks for; the CSV export.
* Honeypot: the dashboard, two routes that read the table.
* The DNS script: input and output around one call of a library.
* Pages and styles.

None of these keeps state that another part depends on.

## 6. Plan

The modules that were planned are written, and the safety properties that were
planned to be proved are. Worth adding when the code changes:

1. A consumer of the TCP clients' `Send` channels, once the server has one: then
   `chat_tcp` can ask that a message is delivered to everybody, not only queued.
2. A condition for callers of the scanner that the object itself can tell, once
   `Start` waits for the goroutines of a stopped scan: `~overlapped` could then be
   dropped from the properties, and `ScannerImplementsJob` would hold of `Spec`.
3. IPv6 networks in `Targets`, once `expandCIDR` treats their first and last
   address on their own terms.
