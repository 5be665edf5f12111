------------------------------ MODULE Honeypot ------------------------------
(***************************************************************************)
(* The honeypot of practical 4: app.py accepts connections, one thread      *)
(* each, database.py keeps a row per connection, scanner.py dials the peer  *)
(* if config.json lists it.  Every call of the database is a transaction    *)
(* and a step of its own; it can fail.  The process can end at any point    *)
(* and be started again: its threads are gone then, the rows are not.       *)
(***************************************************************************)
EXTENDS Naturals, Sequences, FiniteSets

CONSTANTS
  Peers,        \* source addresses of connections
  Local,        \* the address under which the honeypot itself dials out
  Listens,      \* [Peers -> set of ports], what a peer has open
  scanPorts,    \* "scan_ports", a sequence
  honeypotPort, \* "honeypot_port"
  Lists,        \* the values "authorized_targets" takes when it is edited
  Broken,       \* what a scan reads of a file half written
  MaxConns,     \* bound on the connections made
  MaxVisits,    \* bound on those that come from outside
  MaxEdits, MaxRuns

ASSUME HoneypotAssumption ==
  /\ Local \in Peers /\ Listens \in [Peers -> SUBSET Nat]
  /\ honeypotPort \in Nat /\ scanPorts \in Seq(Nat)
  /\ Lists \subseteq SUBSET Peers /\ Lists # {} /\ Broken \notin Lists
  /\ MaxConns \in Nat /\ MaxVisits \in Nat /\ MaxEdits \in Nat /\ MaxRuns \in Nat \ {0}

Conns == 1 .. MaxConns

VARIABLES
  up,          \* the process runs
  listening,   \* the accept loop of honeypot() runs
  runs, edits, \* how often it was started, config.json saved
  authorized,  \* "authorized_targets" of config.json, or Broken
  conns,       \* the connections made, as records of their source
  thread,      \* where handle_connection is with each of them
  event_id, port_n, open_ports,   \* its locals
  status,      \* the row update_scan is to write
  events       \* the table: conn, scan_status and open_ports of each row

config  == <<authorized, edits>>
process == <<up, runs, listening>>
locals  == <<event_id, port_n, open_ports, status>>
vars == <<config, process, conns, thread, locals, events>>

Init ==
  /\ up = TRUE /\ runs = 1 /\ edits = 0
  /\ listening \in BOOLEAN     \* bind may fail
  /\ authorized \in Lists
  /\ conns = <<>> /\ events = <<>>
  /\ thread = [c \in Conns |-> "none"]
  /\ event_id = [c \in Conns |-> 0]
  /\ port_n = [c \in Conns |-> 1]
  /\ open_ports = [c \in Conns |-> {}]
  /\ status = [c \in Conns |-> "none"]

Goto(c, from, to) == thread[c] = from /\ thread' = [thread EXCEPT ![c] = to]

\* A connection is complete when it is in the backlog of the listening socket.
\* "on" and "off" are history: the source was, or was not, listed at some time
\* since; "inner" tells that a scan of the honeypot made the connection.
Room == up /\ listening /\ Len(conns) < MaxConns
On(list, p) == list # Broken /\ p \in list
Listed(p) == On(authorized, p)
Connect(p, inner) ==
  conns' = Append(conns, [source |-> p, inner |-> inner, on |-> Listed(p), off |-> ~Listed(p)])

Visit(p) ==
  /\ Room /\ Cardinality({c \in DOMAIN conns : ~conns[c].inner}) < MaxVisits
  /\ Connect(p, FALSE)
  /\ UNCHANGED <<config, process, thread, locals, events>>

\* The accept loop of honeypot(), in order, one daemon thread per connection.
honeypot(c) ==
  /\ up /\ listening /\ c \in DOMAIN conns
  /\ \A d \in 1 .. c - 1 : thread[d] # "none"
  /\ Goto(c, "none", "accepted")
  /\ UNCHANGED <<config, process, conns, locals, events>>

\* accept() fails, or no thread can be started: nothing catches it, and the loop
\* ends.  Its socket is closed with the connection it was at and with the backlog;
\* the threads and the pages of the process go on.
LoopEnds ==
  /\ up /\ listening /\ listening' = FALSE
  /\ thread' = [c \in Conns |-> IF c \in DOMAIN conns /\ thread[c] = "none" THEN "killed"
                                                                            ELSE thread[c]]
  /\ UNCHANGED <<config, up, runs, conns, locals, events>>

\* The row is written as queued.  A failure is not caught: the thread ends.
add_event(c) ==
  /\ \/ /\ Goto(c, "accepted", "recorded")
        /\ events' = Append(events, [conn |-> c, scan_status |-> "queued", open_ports |-> {}])
        /\ event_id' = [event_id EXCEPT ![c] = Len(events')]
     \/ Goto(c, "accepted", "ended") /\ UNCHANGED <<events, event_id>>
  /\ UNCHANGED <<config, process, conns, port_n, open_ports, status>>

Anybody(p) == TRUE                                             \* mutant
is_authorized(p) == p \in authorized

\* PermissionError, and any other exception of the scan, is caught.
NotCaught(c) == Goto(c, "recorded", "ended") /\ UNCHANGED status   \* mutant
Caught(c) == Goto(c, "recorded", "updating")
             /\ status' = [status EXCEPT ![c] = "error"]

\* config.json is read once, before the first port.
scan_target(c) ==
  /\ thread[c] = "recorded"
  /\ IF authorized = Broken THEN Caught(c)
     ELSE IF is_authorized(conns[c].source)
       THEN Goto(c, "recorded", "scanning") /\ status' = [status EXCEPT ![c] = "completed"]
       ELSE /\ Goto(c, "recorded", "updating")
            /\ status' = [status EXCEPT ![c] = "blocked_not_authorized"]
  /\ UNCHANGED <<config, process, conns, event_id, port_n, open_ports, events>>

\* The answer of a port may come too late; a connection to the own port is one
\* more connection to the honeypot, from the own address.
SamePort(c) == port_n                                          \* mutant
NextPort(c) == [port_n EXCEPT ![c] = @ + 1]
connect_ex(c) ==
  LET port == scanPorts[port_n[c]]
      own  == conns[c].source = Local /\ port = honeypotPort
  IN
  /\ thread[c] = "scanning" /\ port_n[c] <= Len(scanPorts)
  /\ port_n' = NextPort(c)
  /\ \/ UNCHANGED <<conns, open_ports>>
     \/ /\ IF own THEN Room /\ Connect(Local, TRUE)
                  ELSE port \in Listens[conns[c].source] /\ UNCHANGED conns
        /\ open_ports' = [open_ports EXCEPT ![c] = @ \cup {port}]
  /\ UNCHANGED <<config, process, thread, event_id, status, events>>

\* A socket cannot be made, which nothing in the loop catches.
NoSocket(c) ==
  /\ port_n[c] <= Len(scanPorts)
  /\ Goto(c, "scanning", "updating")
  /\ status' = [status EXCEPT ![c] = "error"]
  /\ UNCHANGED <<config, process, conns, event_id, port_n, open_ports, events>>

ScanReturns(c) ==
  /\ port_n[c] > Len(scanPorts)
  /\ Goto(c, "scanning", "updating")
  /\ UNCHANGED <<config, process, conns, locals, events>>

\* When the database fails inside the try block the row becomes an error; when
\* it fails in a handler of an exception the thread ends.
NewestRow(c) == Len(events)                                    \* mutant
RowOf(c) == event_id[c]
Write(c, s, ports) ==
  events' = [events EXCEPT ![RowOf(c)] =
               [conn |-> @.conn, scan_status |-> s, open_ports |-> ports]]

update_scan(c) ==
  /\ thread[c] = "updating"
  /\ \/ /\ Goto(c, "updating", "answering")
        /\ Write(c, status[c], IF status[c] = "completed" THEN open_ports[c] ELSE {})
     \/ /\ Goto(c, "updating", IF status[c] = "completed" THEN "excepting" ELSE "ended")
        /\ UNCHANGED events
  /\ UNCHANGED <<config, process, conns, locals>>

except_Exception(c) ==
  /\ thread[c] = "excepting"
  /\ \/ Goto(c, "excepting", "answering") /\ Write(c, "error", {})
     \/ Goto(c, "excepting", "ended") /\ UNCHANGED events
  /\ UNCHANGED <<config, process, conns, locals>>

\* The answer is sent, or the peer is gone; either way the connection is closed.
sendall(c) ==
  /\ Goto(c, "answering", "ended")
  /\ UNCHANGED <<config, process, conns, locals, events>>

handle_connection(c) ==
  \/ add_event(c) \/ scan_target(c) \/ connect_ex(c) \/ ScanReturns(c)
  \/ update_scan(c) \/ except_Exception(c) \/ sendall(c)

-----------------------------------------------------------------------------
\* Somebody saves config.json; a scan may read it in between.
Noted(conn, listed) ==
  [source |-> conn.source, inner |-> conn.inner,
   on |-> conn.on \/ listed, off |-> conn.off \/ ~listed]
Edit ==
  /\ edits < MaxEdits /\ edits' = edits + 1
  /\ \E list \in Lists \cup {Broken} :
       /\ authorized' = list
       /\ conns' = [c \in DOMAIN conns |-> Noted(conns[c], On(list, conns[c].source))]
  /\ UNCHANGED <<process, thread, locals, events>>

\* The threads are daemons and the backlog is the kernel's: all of it is lost.
Exit ==
  /\ up /\ up' = FALSE /\ listening' = FALSE
  /\ thread' = [c \in Conns |-> IF c \in DOMAIN conns /\ thread[c] # "ended" THEN "killed"
                                                                           ELSE thread[c]]
  /\ UNCHANGED <<config, runs, conns, locals, events>>

\* init_db leaves an existing table as it is.
Restart ==
  /\ ~up /\ runs < MaxRuns
  /\ up' = TRUE /\ runs' = runs + 1 /\ listening' \in BOOLEAN
  /\ UNCHANGED <<config, conns, thread, locals, events>>

Next ==
  \/ \E p \in Peers : Visit(p)
  \/ \E c \in Conns : honeypot(c) \/ handle_connection(c) \/ NoSocket(c)
  \/ LoopEnds \/ Edit \/ Exit \/ Restart

Spec == Init /\ [][Next]_vars

\* Threads are scheduled, the accept loop among them; no socket need ever fail.
Fairness == \A c \in Conns : WF_vars(honeypot(c)) /\ WF_vars(handle_connection(c))
FairSpec == Spec /\ Fairness
=============================================================================
