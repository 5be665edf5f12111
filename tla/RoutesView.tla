----------------------------- MODULE RoutesView -----------------------------
(***************************************************************************)
(* The viewer of TCP routes, which the repository holds in two versions:    *)
(*   "desktop"  Practical 1/tcp-routes-gui/main.go                          *)
(*   "basic"    Practical 1/projec/tcp-routes-gui/main.go                   *)
(* Both serve a page that shows the output of netstat with the name of the  *)
(* process behind every line, which is looked up by one call of tasklist    *)
(* per line.  Every request is served by a goroutine of its own, and        *)
(* processes end and start all the while, so a list is put together over    *)
(* many moments.  The page is refreshed when it is loaded and by its        *)
(* button; the button is out of use during a refresh of its own only.       *)
(***************************************************************************)
EXTENDS Naturals, Sequences, FiniteSets, SequencesExt

CONSTANTS
  Pid, Name,    \* process identifiers, and the names of programs
  FirstWord,    \* the first word of a name, which can be another name
  Local,        \* local addresses: numbers, which stand for their order
  Uses,         \* the addresses a program opens sockets at
  MaxStarts,    \* bound on the processes that start
  MaxClicks,    \* bound on the clicks of the button
  Texts         \* what is typed into the filter: words, "" for nothing

ASSUME RoutesAssumption ==
  /\ Local \subseteq Nat /\ IsFiniteSet(Local) /\ Uses \in [Name -> SUBSET Local]
  /\ MaxStarts \in Nat /\ MaxClicks \in Nat
  /\ FirstWord \in [Name -> STRING] /\ Texts \subseteq STRING
  /\ {"", "Unknown"} \cap Name = {} /\ "PID" \notin Pid

\* The refreshes: 0 is that of the load, the others are those of the button.
Refreshes == 0 .. MaxClicks

VARIABLES
  version,          \* which of the two programs this is
  \* the machine
  process,          \* the name of the process with a pid, "" for none
  socket,           \* the pid behind a local address, or the empty set
  starts,           \* how many processes have started
  \* the requests under way
  fetch,            \* per refresh: where it is, lines to name, rows made
  snaps,            \* how often netstat was run
  \* the page
  loaded, clicks,
  allConnections,
  shown, connCount, \* the rows of the table and the number in the footer
  status,           \* what it says, and the number it found
  disabled,         \* the button is disabled
  filterText,       \* the text in the field, "" for none
  \* history
  shownFrom         \* the refresh whose answer is shown, and its snapshot

machineVars == <<process, socket, starts>>
pageVars    == <<loaded, clicks, allConnections, shown, connCount, status,
                 disabled, filterText, shownFrom>>
vars        == <<version, machineVars, fetch, snaps, pageVars>>

Idle == [pc |-> "idle", lines |-> <<>>, rows |-> <<>>, at |-> 0, taken |-> {}]

Init ==
  /\ version \in {"desktop", "basic"}
  /\ process = [p \in Pid |-> ""] /\ socket = [a \in Local |-> {}] /\ starts = 0
  /\ fetch = [k \in Refreshes |-> Idle] /\ snaps = 0
  /\ loaded = FALSE /\ clicks = 0
  /\ allConnections = <<>> /\ shown = <<>> /\ connCount = 0
  /\ status = <<"idle">> /\ disabled = FALSE /\ filterText = ""
  /\ shownFrom = [refresh |-> 0, at |-> 0]

-----------------------------------------------------------------------------
(* The machine: a process starts and opens sockets, and it ends.            *)

Open == {a \in Local : socket[a] # {}}
ProcessStarts(p, n) ==
  /\ process[p] = "" /\ Uses[n] \cap Open = {} /\ starts < MaxStarts
  /\ process' = [process EXCEPT ![p] = n]
  /\ socket' = [a \in Local |-> IF a \in Uses[n] THEN {p} ELSE socket[a]]
  /\ starts' = starts + 1
  /\ UNCHANGED <<version, fetch, snaps, pageVars>>

\* Its sockets are closed, and its pid can be given to another process.  The
\* lines that still name it are marked.
ProcessEnds(p) ==
  /\ process[p] # ""
  /\ process' = [process EXCEPT ![p] = ""]
  /\ socket' = [a \in Local |-> socket[a] \ {p}]
  /\ fetch' = [k \in Refreshes |->
       [fetch[k] EXCEPT !.lines =
          [i \in DOMAIN @ |-> IF @[i].pid = p THEN [@[i] EXCEPT !.gone = TRUE] ELSE @[i]]]]
  /\ UNCHANGED <<version, starts, snaps, pageVars>>

-----------------------------------------------------------------------------
(* getTCPConnections.                                                       *)

\* What netstat prints: its headings, then a line for every socket in the
\* order of the system's table.  was and gone are history.
Heading == [local |-> 0, pid |-> "PID", was |-> "", gone |-> FALSE]
LineOf(a) == LET p == CHOOSE q \in socket[a] : TRUE IN
  [local |-> a, pid |-> p, was |-> process[p], gone |-> FALSE]
netstat(k) ==
  /\ fetch[k].pc = "sent"
  /\ snaps' = snaps + 1
  /\ \/ \E order \in SetToSeqs(Open) :
          fetch' = [fetch EXCEPT ![k] =
            [@ EXCEPT !.pc = "naming", !.at = snaps + 1, !.taken = Open,
                      !.lines = <<Heading>> \o [i \in DOMAIN order |-> LineOf(order[i])]]]
     \* It fails: the list is empty, and the answer says success.
     \/ fetch' = [fetch EXCEPT ![k] = [@ EXCEPT !.pc = "naming", !.at = snaps + 1]]
  /\ UNCHANGED <<version, machineVars, pageVars>>

\* A heading gives no row.
parseTCPLine(line) == line.pid # "PID"

\* tasklist finds the process that has the pid now, of whose name the first word is
\* kept, or it fails.  In the basic version its filter lacks the pid, and it always
\* fails.
AnyName(p) == Name                                             \* mutant
NamesNow(p) == {process[p]} \ {""}
getProcessNameDesktop(p) == {FirstWord[n] : n \in NamesNow(p)} \cup {"Unknown"}
getProcessNameBasic(p)   == {"Unknown"}
getProcessName(p) ==
  IF version = "desktop" THEN getProcessNameDesktop(p) ELSE getProcessNameBasic(p)

RowOf(line, n) == [local |-> line.local, pid |-> line.pid, name |-> n,
                   was |-> line.was, gone |-> line.gone]
NameLine(k) ==
  LET line == Head(fetch[k].lines)
      rest == [fetch[k] EXCEPT !.lines = Tail(@)]
  IN
  /\ fetch[k].lines # <<>>
  /\ \/ ~parseTCPLine(line) /\ fetch' = [fetch EXCEPT ![k] = rest]
     \/ /\ parseTCPLine(line)
        /\ \E n \in getProcessName(line.pid) :
             fetch' = [fetch EXCEPT ![k] =
                         [rest EXCEPT !.rows = Append(@, RowOf(line, n))]]
  /\ UNCHANGED <<version, machineVars, snaps, pageVars>>

\* The desktop version sorts the rows by their address.
ByAddress(rows) == \A i, j \in DOMAIN rows : i < j => rows[i].local <= rows[j].local
Arranged(rows) ==
  IF version = "desktop"
    THEN {s \in {[i \in DOMAIN rows |-> rows[p[i]]] : p \in Bijection(DOMAIN rows, DOMAIN rows)} :
            ByAddress(s)}
    ELSE {rows}
Sent(rows) == [i \in DOMAIN rows |->
                 [local |-> rows[i].local, pid |-> rows[i].pid, name |-> rows[i].name]]

\* handleConnections answers.  The desktop version first stores the list in a
\* database that no code opens: the attempt is only printed.
handleConnections(k) ==
  /\ fetch[k].pc = "naming" /\ fetch[k].lines = <<>>
  /\ \E rows \in Arranged(fetch[k].rows) :
       fetch' = [fetch EXCEPT ![k] = [@ EXCEPT !.pc = "answered", !.rows = Sent(rows)]]
  /\ UNCHANGED <<version, machineVars, snaps, pageVars>>

-----------------------------------------------------------------------------
(* The page.                                                                *)

\* A refresh shows "Loading", and a click disables the button it came from;
\* on a load the target of the event is the document.
DisablesNone(k) == disabled                                    \* mutant
Disables(k) == k # 0 \/ disabled
Send(k) ==
  /\ fetch' = [fetch EXCEPT ![k] = [Idle EXCEPT !.pc = "sent"]]
  /\ status' = <<"loading">> /\ disabled' = Disables(k)
  /\ UNCHANGED <<version, machineVars, snaps, allConnections, shown, connCount,
                 filterText, shownFrom>>
PageLoads == ~loaded /\ loaded' = TRUE /\ Send(0) /\ UNCHANGED clicks
ClickRefresh ==
  /\ loaded /\ ~disabled /\ clicks < MaxClicks
  /\ clicks' = clicks + 1 /\ Send(clicks + 1) /\ UNCHANGED loaded

\* The rows of the table; the desktop version counts them, too.
displayConnections(rows) == shown' = rows
Counted(n) == IF version = "desktop" THEN n ELSE connCount

\* At the end of a refresh the button it disabled is enabled again.
StaysDisabled(k) == disabled                                   \* mutant
StillDisabled(k) == k = 0 /\ disabled
Returns(k) == /\ fetch' = [fetch EXCEPT ![k] = Idle]
              /\ disabled' = StillDisabled(k)

\* The answer is shown whole, whatever the text in the field.
refreshConnections(k) ==
  LET rows == fetch[k].rows IN
  /\ fetch[k].pc = "answered"
  /\ allConnections' = rows /\ displayConnections(rows)
  /\ status' = <<"found", Len(rows)>> /\ connCount' = Counted(Len(rows))
  /\ shownFrom' = [refresh |-> k, at |-> fetch[k].at]
  /\ Returns(k)
  /\ UNCHANGED <<version, machineVars, snaps, loaded, clicks, filterText>>

\* The request or its answer is lost; the page cannot tell which.
RefreshFails(k) ==
  /\ fetch[k].pc = "sent"
  /\ status' = <<"error">>
  /\ Returns(k)
  /\ UNCHANGED <<version, machineVars, snaps, loaded, clicks, allConnections,
                 shown, connCount, filterText, shownFrom>>

\* The rows in which a text is found, in their order.
Filter(rows, text) ==
  LET kept[n \in 0 .. Len(rows)] ==
        IF n = 0 THEN <<>>
        ELSE IF text \in {"", rows[n].name} THEN Append(kept[n - 1], rows[n]) ELSE kept[n - 1]
  IN kept[Len(rows)]

\* The text in the field is changed: it is looked for in all rows.
MatchesShown(text) == Filter(shown, text)                      \* mutant
Matches(text) == Filter(allConnections, text)
filterConnections(text) ==
  /\ text # filterText
  /\ filterText' = text
  /\ displayConnections(Matches(text)) /\ connCount' = Counted(Len(Matches(text)))
  /\ UNCHANGED <<version, machineVars, fetch, snaps, loaded, clicks,
                 allConnections, status, disabled, shownFrom>>

-----------------------------------------------------------------------------
Refresh(k) == netstat(k) \/ NameLine(k) \/ handleConnections(k) \/ refreshConnections(k)
Next ==
  \/ \E p \in Pid, n \in Name : ProcessStarts(p, n)
  \/ \E p \in Pid : ProcessEnds(p)
  \/ PageLoads \/ ClickRefresh
  \/ \E k \in Refreshes : Refresh(k) \/ RefreshFails(k)
  \/ \E text \in Texts : filterConnections(text)

Spec == Init /\ [][Next]_vars

\* The server goes on with what the button asks for; users, processes and the
\* refresh of the load do as they like.
FairSpec == Spec /\ \A k \in Refreshes \ {0} : WF_vars(Refresh(k))
=============================================================================
