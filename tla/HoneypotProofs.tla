--------------------------- MODULE HoneypotProofs ---------------------------
(***************************************************************************)
(* Whom the honeypot dials, and what its table tells, for every number of   *)
(* connections, every set of peers and lists, and every order in which the  *)
(* list is edited, the database fails and the process ends and starts.      *)
(***************************************************************************)
EXTENDS HoneypotProps, TLAPS, SequenceTheorems

\* The table and the connections have their types, too, and a thread that got
\* to some point is a thread of a connection.
Row == [conn : Conns, open_ports : SUBSET Nat,
        scan_status : {"queued", "completed", "blocked_not_authorized", "error"}]
Typed ==
  /\ TypeOK
  /\ Len(conns) <= MaxConns /\ events \in Seq(Row)
  /\ \A c \in Conns : thread[c] # "none" => c \in DOMAIN conns

\* What a thread has done so far, at each place of handle_connection.
AtWork == {"recorded", "scanning", "updating", "excepting"}
Done(c) == port_n[c] = Len(scanPorts) + 1
ThreadOK(c) ==
  /\ thread[c] \in {"none", "accepted"} => event_id[c] = 0
  /\ thread[c] \in {"none", "accepted", "recorded"} =>
       status[c] = "none" /\ port_n[c] = 1 /\ open_ports[c] = {}
  /\ thread[c] = "scanning" => status[c] = "completed"
  /\ thread[c] = "updating" => status[c] # "none" /\ (status[c] = "completed" => Done(c))
  /\ thread[c] = "excepting" => status[c] = "completed" /\ Done(c)

\* A port that is listed as open is open, or it is the honeypot's own.
TrulyOpen(p) == Listens[p] \cup (IF p = Local THEN {honeypotPort} ELSE {})
PortsOK(c) == c \in DOMAIN conns => open_ports[c] \subseteq TrulyOpen(conns[c].source)

\* A thread at work has a row of its own, which is as it was inserted.
OwnRow(c) ==
  thread[c] \in AtWork =>
    /\ event_id[c] \in DOMAIN events
    /\ events[event_id[c]] = [conn |-> c, scan_status |-> "queued", open_ports |-> {}]

\* Every row belongs to one connection and says what its thread decided.
RowOK(i) ==
  LET row == events[i]  c == row.conn IN
  /\ event_id[c] = i /\ thread[c] \notin {"none", "accepted"}
  /\ row.scan_status \in {"queued", status[c], "error"}
  /\ row.scan_status = "completed" => Done(c)
  /\ row.open_ports \subseteq TrulyOpen(conns[c].source)
  /\ row.scan_status # "completed" => row.open_ports = {}
  /\ row.scan_status = "queued" =>
       thread[c] \in AtWork \cup {"killed"} \/ (thread[c] = "ended" /\ status[c] # "none")

\* What the history of a connection says of the list and of its origin.
ConnOK(c) ==
  /\ Listed(conns[c].source) => conns[c].on
  /\ ~Listed(conns[c].source) => conns[c].off
  /\ Dialed(c) => conns[c].on
  /\ status[c] = "blocked_not_authorized" => conns[c].off
  /\ conns[c].inner =>
       \E d \in 1 .. c - 1 : conns[d].source = Local /\ port_n[d] > 1 /\ conns[d].on

TableInv ==
  /\ Typed
  /\ \A c \in Conns : ThreadOK(c) /\ PortsOK(c) /\ OwnRow(c)
  /\ \A i \in DOMAIN events : RowOK(i)
DialInv ==
  /\ TableInv
  /\ \A c \in DOMAIN conns : ConnOK(c)

-----------------------------------------------------------------------------

\* A function on the first numbers is a sequence.
LEMMA FunctionIsSeq ==
  ASSUME NEW S, NEW n \in Nat, NEW f \in [1 .. n -> S]
  PROVE  f \in Seq(S) /\ Len(f) = n /\ DOMAIN f = 1 .. n
OBVIOUS

\* The table and the connections as sets of places and what is there.
LEMMA Places ==
  ASSUME Typed
  PROVE  /\ Len(events) \in Nat /\ events \in [1 .. Len(events) -> Row]
         /\ DOMAIN events = 1 .. Len(events)
         /\ Len(conns) \in Nat /\ conns \in [1 .. Len(conns) -> Link]
         /\ DOMAIN conns = 1 .. Len(conns)
BY LenProperties DEF Typed, TypeOK

\* Writing a row changes the row of the thread and nothing else.
LEMMA WriteEffect ==
  ASSUME Typed, NEW c \in Conns, NEW q \in SUBSET Nat,
         NEW t \in {"completed", "blocked_not_authorized", "error"}, Write(c, t, q)
  PROVE  /\ events' \in Seq(Row) /\ Len(events') = Len(events)
         /\ DOMAIN events' = DOMAIN events
         /\ \A i \in DOMAIN events :
              events'[i] = IF i = event_id[c]
                             THEN [conn |-> events[i].conn, scan_status |-> t,
                                   open_ports |-> q]
                             ELSE events[i]
<1> DEFINE New(i) == [conn |-> events[i].conn, scan_status |-> t, open_ports |-> q]
<1>1. \A i \in DOMAIN events : events[i] \in Row /\ New(i) \in Row
  BY Places DEF Row
<1>2. events' = [events EXCEPT ![event_id[c]] = New(event_id[c])]
  BY DEF Write, RowOf
<1> HIDE DEF New
<1>3. events' \in [1 .. Len(events) -> Row]
  BY <1>1, <1>2, Places
<1>4. \A i \in DOMAIN events : events'[i] = IF i = event_id[c] THEN New(i) ELSE events[i]
  BY <1>2, Places
<1>5. events' \in Seq(Row) /\ Len(events') = Len(events) /\ DOMAIN events' = DOMAIN events
  BY <1>3, Places, FunctionIsSeq
<1> QED BY <1>4, <1>5 DEF New

\* Saving config.json changes what is noted of a connection, never its source.
LEMMA EditEffect ==
  ASSUME Typed, NEW list,
         conns' = [c \in DOMAIN conns |-> Noted(conns[c], On(list, conns[c].source))]
  PROVE  /\ conns' \in Seq(Link) /\ Len(conns') = Len(conns)
         /\ DOMAIN conns' = DOMAIN conns
         /\ \A c \in DOMAIN conns :
              /\ conns'[c].source = conns[c].source /\ conns'[c].inner = conns[c].inner
              /\ conns[c].on \/ On(list, conns[c].source) => conns'[c].on
              /\ conns[c].off \/ ~On(list, conns[c].source) => conns'[c].off
<1>1. \A c \in DOMAIN conns : conns[c] \in Link
  BY Places
<1>2. ASSUME NEW c \in DOMAIN conns, NEW b, b = On(list, conns[c].source)
      PROVE  /\ b \in BOOLEAN
             /\ conns'[c] = [source |-> conns[c].source, inner |-> conns[c].inner,
                             on |-> conns[c].on \/ b, off |-> conns[c].off \/ ~b]
  BY <1>2 DEF Noted, On
<1>3. ASSUME NEW c \in DOMAIN conns
      PROVE  /\ conns'[c] \in Link
             /\ conns'[c].source = conns[c].source /\ conns'[c].inner = conns[c].inner
             /\ conns[c].on \/ On(list, conns[c].source) => conns'[c].on
             /\ conns[c].off \/ ~On(list, conns[c].source) => conns'[c].off
  <2>1. PICK b : b = On(list, conns[c].source)
    OBVIOUS
  <2> DEFINE x == conns[c]
             y == conns'[c]
  <2>2. b \in BOOLEAN /\ x \in Link
    BY <1>1, <1>2, <2>1
  <2>3. y = [source |-> x.source, inner |-> x.inner, on |-> x.on \/ b,
        off |-> x.off \/ ~b]
    BY <1>2, <2>1
  <2> HIDE DEF x, y
  <2>4. y.source = x.source /\ y.inner = x.inner /\ (x.on \/ b => y.on) /\ (x.off \/ ~b => y.off)
    BY <2>3
  <2>5. x.source \in Peers /\ x.inner \in BOOLEAN
    BY <2>2 DEF Link
  <2>6. (x.on \/ b) \in BOOLEAN /\ (x.off \/ ~b) \in BOOLEAN
    BY Zenon
  <2>7. y \in Link
    BY <2>3, <2>5, <2>6 DEF Link
  <2> QED BY <2>1, <2>4, <2>7 DEF x, y
<1>4. conns' \in [1 .. Len(conns) -> Link]
  BY <1>3, Places
<1>5. conns' \in Seq(Link) /\ Len(conns') = Len(conns) /\ DOMAIN conns' = DOMAIN conns
  BY <1>4, Places, FunctionIsSeq
<1> QED BY <1>3, <1>5

\* A connection that is made is added to those there are.
LEMMA ConnectEffect ==
  ASSUME Typed, NEW p \in Peers, NEW inner \in BOOLEAN, Connect(p, inner)
  PROVE  /\ conns' \in Seq(Link) /\ Len(conns') = Len(conns) + 1
         /\ DOMAIN conns' = DOMAIN conns \cup {Len(conns) + 1}
         /\ \A c \in DOMAIN conns : conns'[c] = conns[c]
         /\ conns'[Len(conns) + 1].source = p /\ conns'[Len(conns) + 1].inner = inner
         /\ Listed(p) => conns'[Len(conns) + 1].on
         /\ ~Listed(p) => conns'[Len(conns) + 1].off
<1> DEFINE e == [source |-> p, inner |-> inner, on |-> Listed(p), off |-> ~Listed(p)]
<1>1. Listed(p) \in BOOLEAN /\ (~Listed(p)) \in BOOLEAN
  <2>1. Listed(p) \in BOOLEAN
    BY DEF Listed, On
  <2>2. (~Listed(p)) \in BOOLEAN
    BY Zenon
  <2> QED BY <2>1, <2>2
<1>2. e \in Link
  BY <1>1 DEF Link
<1>3. conns' = Append(conns, e)
  BY DEF Connect
<1> HIDE DEF e
<1>4. conns \in Seq(Link)
  BY DEF Typed, TypeOK
<1>5. conns' \in Seq(Link) /\ Len(conns') = Len(conns) + 1
      /\ (\A c \in 1 .. Len(conns) : conns'[c] = conns[c]) /\ conns'[Len(conns) + 1] = e
  BY <1>2, <1>3, <1>4
<1>6. DOMAIN conns' = 1 .. Len(conns) + 1
  BY <1>5
<1>7. e.source = p /\ e.inner = inner /\ (Listed(p) => e.on) /\ (~Listed(p) => e.off)
  <2>1. PICK b : b = Listed(p)
    OBVIOUS
  <2>2. e = [source |-> p, inner |-> inner, on |-> b, off |-> ~b]
    BY <2>1, Zenon DEF e
  <2> QED BY <1>1, <2>1, <2>2
<1> QED BY <1>5, <1>6, <1>7, Places

\* What is known of the thread k that row i belongs to ...
Owned(k) == \/ thread[k] \in AtWork \cup {"killed"}
            \/ thread[k] = "ended" /\ status[k] # "none"
About(i, k) ==
  /\ k = events[i].conn /\ k \in DOMAIN conns /\ event_id[k] = i
  /\ thread[k] \notin {"none", "accepted"}
  /\ thread[k] \in AtWork => events[i].scan_status = "queued"
  /\ events[i].scan_status = "queued" => Owned(k)
LEMMA RowHasThread ==
  ASSUME TableInv, NEW i \in DOMAIN events
  PROVE  \E k \in Conns : About(i, k)
<1> DEFINE k == events[i].conn
<1>1. events[i] \in Row /\ RowOK(i)
  BY Places DEF TableInv
<1>2. k \in Conns
  BY <1>1 DEF Row
<1>3. k \in DOMAIN conns
  BY <1>1, <1>2 DEF RowOK, TableInv, Typed
<1>4. thread[k] \in AtWork => events[i].scan_status = "queued"
  <2>1. event_id[k] = i /\ OwnRow(k)
    BY <1>1, <1>2 DEF RowOK, TableInv
  <2> HIDE DEF k
  <2> QED BY <2>1 DEF OwnRow
<1>5. About(i, k)
  BY <1>1, <1>3, <1>4 DEF About, RowOK, Owned
<1> QED BY <1>2, <1>5

\* ... and what a step has to leave of both for the row to stay true.
Keeps(i, k) ==
  /\ events'[i] = events[i] /\ event_id'[k] = event_id[k]
  /\ conns'[k].source = conns[k].source
  /\ thread'[k] \notin {"none", "accepted"}
  /\ events[i].scan_status = "queued" => Owned(k)'
  /\ events[i].scan_status # "queued" => status'[k] = status[k] /\ port_n'[k] = port_n[k]
LEMMA RowKept ==
  ASSUME TableInv, NEW i \in DOMAIN events, NEW k \in Conns, About(i, k), Keeps(i, k)
  PROVE  RowOK(i)'
<1>1. RowOK(i)
  BY DEF TableInv
<1>2. CASE events[i].scan_status = "queued"
  BY <1>1, <1>2 DEF About, Keeps, RowOK, Owned, TrulyOpen
<1>3. CASE events[i].scan_status # "queued"
  BY <1>1, <1>3 DEF About, Keeps, RowOK, Done, TrulyOpen
<1> QED BY <1>2, <1>3

\* A step that leaves the table and the connections alone, and in which no
\* thread comes to work or leaves its row behind.
Quiet(d) ==
  /\ ThreadOK(d)'
  /\ thread'[d] \in AtWork => thread[d] \in AtWork
  /\ thread[d] \notin {"none", "accepted"} => thread'[d] \notin {"none", "accepted"}
  /\ Owned(d) => Owned(d)'
  /\ thread[d] \notin AtWork => status'[d] = status[d] /\ port_n'[d] = port_n[d]
LEMMA QuietStep ==
  ASSUME TableInv, Typed', UNCHANGED <<conns, events, event_id, open_ports>>,
         \A d \in Conns : Quiet(d)
  PROVE  TableInv'
<1>1. ASSUME NEW d \in Conns
      PROVE  ThreadOK(d)' /\ PortsOK(d)' /\ OwnRow(d)'
  BY DEF TableInv, Quiet, PortsOK, TrulyOpen, OwnRow
<1>2. ASSUME NEW i \in DOMAIN events
      PROVE  RowOK(i)'
  <2>1. PICK k \in Conns : About(i, k)
    BY RowHasThread
  <2>2. Quiet(k)
    OBVIOUS
  <2>3. Keeps(i, k)
    BY <2>1, <2>2 DEF About, Keeps, Quiet, Owned
  <2> QED BY <2>1, <2>3, RowKept
<1> QED BY <1>1, <1>2 DEF TableInv

\* The accept loop is quiet, ...
LEMMA honeypotStep ==
  ASSUME TableInv, NEW c \in Conns, honeypot(c)
  PROVE  TableInv'
<1> USE HoneypotAssumption DEF TableInv, honeypot, Goto, config, process, locals
<1>1. Typed'
  BY DEF Typed, TypeOK, Conns
<1>2. ASSUME NEW d \in Conns
      PROVE  Quiet(d)
  BY <1>1 DEF Typed, TypeOK, ThreadOK, Done, Quiet, Owned, AtWork
<1> QED BY <1>1, <1>2, QuietStep

\* ... so is the decision whether to scan, ...
LEMMA scan_targetStep ==
  ASSUME TableInv, NEW c \in Conns, scan_target(c)
  PROVE  TableInv'
<1> USE HoneypotAssumption DEF TableInv, scan_target, Caught, Goto, config, process
<1>1. Typed'
  BY DEF Typed, TypeOK, Conns
<1>2. ASSUME NEW d \in Conns
      PROVE  Quiet(d)
  BY <1>1 DEF Typed, TypeOK, ThreadOK, Done, Quiet, Owned, AtWork
<1> QED BY <1>1, <1>2, QuietStep

\* ... the end of a scan, ...
LEMMA ScanReturnsStep ==
  ASSUME TableInv, NEW c \in Conns, ScanReturns(c)
  PROVE  TableInv'
<1> USE HoneypotAssumption DEF TableInv, ScanReturns, Goto, config, process, locals
<1>1. Typed'
  BY DEF Typed, TypeOK, Conns
<1>2. ASSUME NEW d \in Conns
      PROVE  Quiet(d)
  BY <1>1 DEF Typed, TypeOK, ThreadOK, Done, Quiet, Owned, AtWork
<1> QED BY <1>1, <1>2, QuietStep

\* ... the answer, ...
LEMMA sendallStep ==
  ASSUME TableInv, NEW c \in Conns, sendall(c)
  PROVE  TableInv'
<1> USE HoneypotAssumption DEF TableInv, sendall, Goto, config, process, locals
<1>1. Typed'
  BY DEF Typed, TypeOK, Conns
<1>2. ASSUME NEW d \in Conns
      PROVE  Quiet(d)
  BY <1>1 DEF Typed, TypeOK, ThreadOK, Done, Quiet, Owned, AtWork
<1> QED BY <1>1, <1>2, QuietStep

\* ... a socket that cannot be made, ...
LEMMA NoSocketStep ==
  ASSUME TableInv, NEW c \in Conns, NoSocket(c)
  PROVE  TableInv'
<1> USE HoneypotAssumption DEF TableInv, NoSocket, Goto, config, process
<1>1. Typed'
  BY DEF Typed, TypeOK, Conns
<1>2. ASSUME NEW d \in Conns
      PROVE  Quiet(d)
  BY <1>1 DEF Typed, TypeOK, ThreadOK, Done, Quiet, Owned, AtWork
<1> QED BY <1>1, <1>2, QuietStep

\* ... the end of the process, ...
LEMMA ExitStep ==
  ASSUME TableInv, Exit
  PROVE  TableInv'
<1> USE HoneypotAssumption DEF TableInv, Exit, config, locals
<1>0. DOMAIN conns \subseteq Conns
  BY Places DEF Typed, Conns
<1>1. Typed'
  BY <1>0 DEF Typed, TypeOK, Conns
<1>2. ASSUME NEW d \in Conns
      PROVE  Quiet(d)
  BY <1>1 DEF Typed, TypeOK, ThreadOK, Done, Quiet, Owned, AtWork
<1> QED BY <1>1, <1>2, QuietStep

\* ... the end of the accept loop, ...
LEMMA LoopEndsStep ==
  ASSUME TableInv, LoopEnds
  PROVE  TableInv'
<1> USE HoneypotAssumption DEF TableInv, LoopEnds, config, locals
<1>0. DOMAIN conns \subseteq Conns
  BY Places DEF Typed, Conns
<1>1. Typed'
  BY <1>0 DEF Typed, TypeOK, Conns
<1>2. ASSUME NEW d \in Conns
      PROVE  Quiet(d)
  BY <1>1 DEF Typed, TypeOK, ThreadOK, Done, Quiet, Owned, AtWork
<1> QED BY <1>1, <1>2, QuietStep

\* ... the start of the process, ...
LEMMA RestartStep ==
  ASSUME TableInv, Restart
  PROVE  TableInv'
<1> USE HoneypotAssumption DEF TableInv, Restart, config, locals
<1>1. Typed'
  BY DEF Typed, TypeOK, Conns
<1>2. ASSUME NEW d \in Conns
      PROVE  Quiet(d)
  BY <1>1 DEF Typed, TypeOK, ThreadOK, Done, Quiet, Owned, AtWork
<1> QED BY <1>1, <1>2, QuietStep

\* ... and a step of somebody else.
LEMMA StutterStep ==
  ASSUME TableInv, UNCHANGED vars
  PROVE  TableInv'
<1> USE HoneypotAssumption DEF TableInv, vars, config, process, locals
<1>1. Typed'
  BY DEF Typed, TypeOK, Conns
<1>2. ASSUME NEW d \in Conns
      PROVE  Quiet(d)
  BY <1>1 DEF Typed, TypeOK, ThreadOK, Done, Quiet, Owned, AtWork
<1> QED BY <1>1, <1>2, QuietStep

\* A connection from outside keeps the table in order, ...
LEMMA VisitStep ==
  ASSUME TableInv, NEW p \in Peers, Visit(p)
  PROVE  TableInv'
<1> USE HoneypotAssumption DEF TableInv
<1>0. /\ conns' \in Seq(Link) /\ Len(conns') = Len(conns) + 1
      /\ DOMAIN conns' = DOMAIN conns \cup {Len(conns) + 1}
      /\ \A d \in DOMAIN conns : conns'[d] = conns[d]
      /\ Len(conns) + 1 \in Conns
  <2>1. Connect(p, FALSE) /\ Len(conns) < MaxConns
    BY Zenon DEF Visit, Room
  <2>2. Len(conns) + 1 \in Conns
    BY <2>1, Places DEF Conns
  <2> QED BY <2>1, <2>2, ConnectEffect
<1>1. Typed'
  BY <1>0 DEF Typed, TypeOK, Visit, Room, Conns, config, process, locals
<1>2. ASSUME NEW d \in Conns
      PROVE  ThreadOK(d)'
  BY <1>1, <1>0 DEF Typed, TypeOK, ThreadOK, Done, Visit, Room, config, process, locals
<1>4. ASSUME NEW d \in Conns
      PROVE  OwnRow(d)'
  BY <1>1, <1>0 DEF Typed, TypeOK, OwnRow, AtWork, Visit, Room, config, process, locals
<1>3. ASSUME NEW d \in Conns
      PROVE  PortsOK(d)'
  <2>1. CASE d \in DOMAIN conns
    BY <2>1, <1>0 DEF PortsOK, TrulyOpen, Visit, locals
  <2>2. CASE d \notin DOMAIN conns
    BY <2>2 DEF PortsOK, TrulyOpen, ThreadOK, Typed, Visit, locals
  <2> QED BY <2>1, <2>2
<1>5. ASSUME NEW i \in DOMAIN events
      PROVE  RowOK(i)'
  <2>1. PICK k \in Conns : About(i, k)
    BY RowHasThread
  <2>2. Keeps(i, k)
    BY <2>1, <1>0
      DEF About, Keeps, Owned, AtWork, ThreadOK, Typed, TypeOK, Visit, Room, config,
          process, locals
  <2> QED BY <2>1, <2>2, RowKept
<1> QED BY <1>1, <1>2, <1>3, <1>4, <1>5, events' = events
  DEF Visit, Room, config, process, locals

\* ... so do a port dialed, which can make one more connection, ...
LEMMA connect_exStep ==
  ASSUME TableInv, NEW c \in Conns, connect_ex(c)
  PROVE  TableInv'
<1> USE HoneypotAssumption DEF TableInv
<1> DEFINE port == scanPorts[port_n[c]]
<1>01. port \in Range(scanPorts) /\ c \in DOMAIN conns /\ up
  <2>1. DOMAIN scanPorts = 1 .. Len(scanPorts) /\ port_n[c] \in DOMAIN scanPorts
    BY DEF connect_ex, Typed, TypeOK
  <2>2. c \in DOMAIN conns /\ up
    BY DEF connect_ex, Typed, TypeOK
  <2> QED BY <2>1, <2>2 DEF Range
<1>02. /\ conns' \in Seq(Link) /\ Len(conns') <= MaxConns
       /\ \A d \in DOMAIN conns : d \in DOMAIN conns' /\ conns'[d] = conns[d]
  <2>1. CASE UNCHANGED conns
    BY <2>1 DEF Typed, TypeOK
  <2>2. CASE Room /\ Connect(Local, TRUE)
    <3>1. Len(conns) + 1 <= MaxConns
      BY <2>2, Places DEF Room
    <3> QED BY <3>1, <2>2, ConnectEffect
  <2> QED BY <2>1, <2>2 DEF connect_ex
<1>03. /\ \A d \in Conns : d # c => open_ports'[d] = open_ports[d]
       /\ open_ports' \in [Conns -> SUBSET Range(scanPorts)]
       /\ open_ports'[c] \subseteq TrulyOpen(conns[c].source)
  <2>1. open_ports[c] \subseteq TrulyOpen(conns[c].source)
    BY <1>01 DEF PortsOK
  <2>2. CASE UNCHANGED open_ports
    BY <2>1, <2>2 DEF Typed, TypeOK
  <2>3. CASE open_ports' = [open_ports EXCEPT ![c] = @ \cup {port}]
             /\ port \in TrulyOpen(conns[c].source)
    BY <2>1, <2>3, <1>01 DEF Typed, TypeOK
  <2> QED BY <2>2, <2>3 DEF connect_ex, TrulyOpen
<1>04. /\ thread' = thread /\ event_id' = event_id /\ status' = status /\ events' = events
       /\ up' = up /\ listening' = listening /\ runs' = runs /\ edits' = edits
       /\ thread[c] = "scanning"
       /\ port_n' = [port_n EXCEPT ![c] = @ + 1] /\ port_n[c] <= Len(scanPorts)
  BY DEF connect_ex, NextPort, config, process
<1>05. port_n' \in [Conns -> 1 .. Len(scanPorts) + 1]
  BY <1>04 DEF Typed, TypeOK
<1>1. Typed'
  BY <1>01, <1>02, <1>03, <1>04, <1>05 DEF Typed, TypeOK
<1>2. ASSUME NEW d \in Conns
      PROVE  ThreadOK(d)'
  <2>1. CASE d = c
    BY <2>1, <1>04, <1>05 DEF Typed, TypeOK, ThreadOK
  <2>2. CASE d # c
    BY <2>2, <1>03, <1>04 DEF Typed, TypeOK, ThreadOK, Done
  <2> QED BY <2>1, <2>2
<1>4. ASSUME NEW d \in Conns
      PROVE  OwnRow(d)'
  BY <1>1 DEF Typed, TypeOK, OwnRow, AtWork, connect_ex, NextPort, config, process
<1>3. ASSUME NEW d \in Conns
      PROVE  PortsOK(d)'
  <2>1. CASE d \in DOMAIN conns
    BY <2>1, <1>02, <1>03 DEF PortsOK, TrulyOpen
  <2>2. CASE d \notin DOMAIN conns
    BY <2>2, <1>01, <1>03 DEF PortsOK, ThreadOK, Typed
  <2> QED BY <2>1, <2>2
<1>5. ASSUME NEW i \in DOMAIN events
      PROVE  RowOK(i)'
  <2>1. PICK k \in Conns : About(i, k)
    BY RowHasThread
  <2>2. Keeps(i, k)
    BY <2>1, <1>02
      DEF About, Keeps, Owned, AtWork, ThreadOK, Typed, TypeOK, connect_ex, NextPort,
          config, process
  <2> QED BY <2>1, <2>2, RowKept
<1> QED BY <1>1, <1>2, <1>3, <1>4, <1>5, events' = events
  DEF connect_ex, NextPort, config, process

\* ... an edit of config.json, ...
LEMMA EditStep ==
  ASSUME TableInv, Edit
  PROVE  TableInv'
<1> USE HoneypotAssumption DEF TableInv
<1>0. /\ conns' \in Seq(Link) /\ Len(conns') = Len(conns) /\ DOMAIN conns' = DOMAIN conns
      /\ \A d \in DOMAIN conns : conns'[d].source = conns[d].source
  BY EditEffect DEF Edit
<1>1. Typed'
  BY <1>0 DEF Typed, TypeOK, Edit, process, locals
<1>2. ASSUME NEW d \in Conns
      PROVE  ThreadOK(d)'
  BY <1>1, <1>0 DEF Typed, TypeOK, ThreadOK, Done, Edit, process, locals
<1>3. ASSUME NEW d \in Conns
      PROVE  PortsOK(d)'
  BY <1>1, <1>0 DEF Typed, TypeOK, ThreadOK, PortsOK, TrulyOpen, Edit, process, locals
<1>4. ASSUME NEW d \in Conns
      PROVE  OwnRow(d)'
  BY <1>1, <1>0 DEF Typed, TypeOK, OwnRow, AtWork, Edit, process, locals
<1>5. ASSUME NEW i \in DOMAIN events
      PROVE  RowOK(i)'
  <2>1. PICK k \in Conns : About(i, k)
    BY RowHasThread
  <2>2. Keeps(i, k)
    BY <2>1, <1>0
      DEF About, Keeps, Owned, AtWork, ThreadOK, Typed, TypeOK, Edit, process, locals
  <2> QED BY <2>1, <2>2, RowKept
<1> QED BY <1>1, <1>2, <1>3, <1>4, <1>5, events' = events DEF Edit, process, locals

\* ... a row that is inserted, ...
LEMMA add_eventStep ==
  ASSUME TableInv, NEW c \in Conns, add_event(c)
  PROVE  TableInv'
<1> USE HoneypotAssumption DEF TableInv
<1>00. PICK n : n = Len(events) + 1
  OBVIOUS
<1> DEFINE r == [conn |-> c, scan_status |-> "queued", open_ports |-> {}]
<1>01. c \in DOMAIN conns /\ thread[c] = "accepted"
  BY DEF add_event, Goto, Typed
<1>02. CASE UNCHANGED <<events, event_id>> /\ Goto(c, "accepted", "ended")
  <2>1. Typed'
    BY <1>02 DEF Typed, TypeOK, add_event, Goto, config, process
  <2>2. ASSUME NEW d \in Conns
        PROVE  ThreadOK(d)' /\ PortsOK(d)' /\ OwnRow(d)'
    BY <1>02, <2>1
      DEF Typed, TypeOK, ThreadOK, Done, PortsOK, TrulyOpen, OwnRow, AtWork,
      add_event, Goto, config, process
  <2>3. ASSUME NEW i \in DOMAIN events
        PROVE  RowOK(i)'
    <3>1. PICK k \in Conns : About(i, k)
      BY RowHasThread
    <3>2. Keeps(i, k)
      BY <3>1, <1>02, <1>01
        DEF About, Keeps, Owned, AtWork, Typed, TypeOK, add_event, Goto
    <3> QED BY <3>1, <3>2, RowKept
  <2> QED BY <1>02, <2>1, <2>2, <2>3
<1>03. CASE /\ Goto(c, "accepted", "recorded") /\ events' = Append(events, r)
            /\ event_id' = [event_id EXCEPT ![c] = Len(events')]
  <2>1. r \in Row
    BY DEF Row
  <2> HIDE DEF r
  <2>2. /\ events' \in Seq(Row) /\ Len(events') = n /\ n \in Nat
        /\ \A i \in 1 .. Len(events) : events'[i] = events[i]
        /\ events'[n] = r
    BY <1>00, <1>03, <2>1 DEF Typed
  <2>3. DOMAIN events' = DOMAIN events \cup {n} /\ n \notin DOMAIN events
    BY <2>2, <1>00, Places
  <2>4. Typed'
    BY <1>03, <2>2 DEF Typed, TypeOK, add_event, Goto, config, process
  <2>5. ASSUME NEW d \in Conns
        PROVE  ThreadOK(d)' /\ PortsOK(d)'
    BY <1>03, <2>4 DEF Typed, TypeOK, ThreadOK, Done, PortsOK, TrulyOpen,
      add_event, Goto, config, process
  <2>6. ASSUME NEW d \in Conns
        PROVE  OwnRow(d)'
    <3>1. CASE d = c
      BY <1>03, <2>2, <2>3, <3>1 DEF OwnRow, Typed, TypeOK, r
    <3>2. CASE d # c
      BY <1>03, <2>2, <2>3, <3>2, Places
        DEF OwnRow, AtWork, Typed, TypeOK, add_event, Goto
    <3> QED BY <3>1, <3>2
  <2>7. ASSUME NEW i \in DOMAIN events
        PROVE  RowOK(i)'
    <3>1. PICK k \in Conns : About(i, k)
      BY RowHasThread
    <3>2. k # c
      BY <3>1, <1>01 DEF About
    <3>3. Keeps(i, k)
      BY <3>1, <3>2, <1>03, <2>2, Places
        DEF About, Keeps, Owned, AtWork, Typed, TypeOK, add_event, Goto
    <3> QED BY <3>1, <3>3, RowKept
  <2>8. RowOK(n)'
    <3>1. event_id'[c] = n /\ thread'[c] = "recorded"
      BY <1>03, <2>2 DEF Goto, Typed, TypeOK
    <3>2. events'[n].conn = c /\ events'[n].scan_status = "queued" /\ events'[n].open_ports = {}
      BY <2>2 DEF r
    <3> QED BY <3>1, <3>2 DEF RowOK, AtWork
  <2> QED BY <2>3, <2>4, <2>5, <2>6, <2>7, <2>8
<1> QED BY <1>02, <1>03 DEF add_event

\* ... the row that gets its result, ...
LEMMA update_scanStep ==
  ASSUME TableInv, NEW c \in Conns, update_scan(c)
  PROVE  TableInv'
<1> USE HoneypotAssumption DEF TableInv
<1> DEFINE t == status[c]
           q == IF status[c] = "completed" THEN open_ports[c] ELSE {}
           here == event_id[c]
<1>01. /\ c \in DOMAIN conns /\ thread[c] \in AtWork /\ here \in DOMAIN events
       /\ events[here].conn = c /\ events[here].scan_status = "queued"
  <2>1. c \in DOMAIN conns /\ thread[c] \in AtWork
    BY DEF update_scan, Typed, AtWork
  <2>2. here \in DOMAIN events
        /\ events[here] = [conn |-> c, scan_status |-> "queued", open_ports |-> {}]
    BY <2>1 DEF OwnRow
  <2> HIDE DEF here
  <2> QED BY <2>1, <2>2
<1>02. t \in {"completed", "blocked_not_authorized", "error"} /\ status[c] # "none"
  BY DEF Typed, TypeOK, ThreadOK, update_scan
<1>03. CASE UNCHANGED events /\ thread' \in {[thread EXCEPT ![c] = "excepting"],
      [thread EXCEPT ![c] = "ended"]}
            /\ (thread'[c] = "excepting" => status[c] = "completed" /\ thread[c] = "updating")
  <2>1. Typed'
    BY <1>03, <1>01 DEF Typed, TypeOK, update_scan, config, process, locals
  <2>2. ASSUME NEW d \in Conns
        PROVE  Quiet(d)
    BY <1>03, <1>02, <1>01
      DEF Typed, TypeOK, ThreadOK, Done, Quiet, Owned, AtWork, update_scan, locals
  <2> QED BY <1>03, <2>1, <2>2, QuietStep DEF update_scan, locals
<1>04. CASE Write(c, t, q) /\ thread' = [thread EXCEPT ![c] = "answering"]
  <2>1. q \in SUBSET Nat /\ q \subseteq TrulyOpen(conns[c].source)
        /\ (t = "completed" => Done(c)) /\ (t # "completed" => q = {}) /\ t \in {status[c], "error"}
    BY <1>01, <1>02 DEF Typed, TypeOK, Range, ThreadOK, PortsOK, TrulyOpen, update_scan
  <2> HIDE DEF t, q
  <2>2. /\ events' \in Seq(Row) /\ Len(events') = Len(events)
        /\ DOMAIN events' = DOMAIN events
        /\ \A i \in DOMAIN events :
             events'[i] = IF i = here
                            THEN [conn |-> events[i].conn, scan_status |-> t,
                                  open_ports |-> q]
                            ELSE events[i]
    BY <2>1, <1>02, <1>04, WriteEffect
  <2>3. Typed'
    BY <1>04, <1>01, <2>2 DEF Typed, TypeOK, update_scan, config, process, locals
  <2>4. ASSUME NEW d \in Conns
        PROVE  ThreadOK(d)' /\ PortsOK(d)'
    BY <1>04, <2>3
      DEF Typed, TypeOK, ThreadOK, Done, PortsOK, TrulyOpen, update_scan, locals
  <2>5. ASSUME NEW d \in Conns
        PROVE  OwnRow(d)'
    <3>1. CASE d = c
      BY <1>04, <3>1 DEF OwnRow, AtWork, Typed, TypeOK
    <3>2. CASE d # c /\ thread[d] \in AtWork
      <4>1. event_id[d] \in DOMAIN events
            /\ events[event_id[d]] = [conn |-> d, scan_status |-> "queued",
                  open_ports |-> {}]
        BY <3>2 DEF OwnRow
      <4>2. event_id[d] # here
        BY <3>2, <4>1, <1>01
      <4> QED BY <1>04, <2>2, <4>1, <4>2 DEF OwnRow, update_scan, locals
    <3>3. CASE d # c /\ thread[d] \notin AtWork
      BY <1>04, <3>3 DEF OwnRow, Typed, TypeOK
    <3> QED BY <3>1, <3>2, <3>3
  <2>6. ASSUME NEW i \in DOMAIN events
        PROVE  RowOK(i)'
    <3>1. PICK k \in Conns : About(i, k)
      BY RowHasThread
    <3>2. CASE k = c
      <4>1. i = here /\ events'[i] = [conn |-> c, scan_status |-> t, open_ports |-> q]
        BY <3>1, <3>2, <2>2, <1>01 DEF About
      <4>2. UNCHANGED <<event_id, status, port_n, conns>> /\ thread'[c] = "answering"
        BY <1>04 DEF Typed, TypeOK, update_scan, locals
      <4> QED BY <4>1, <4>2, <2>1, <1>02 DEF RowOK, Done, TrulyOpen
    <3>3. CASE k # c
      <4>1. i # here
        BY <3>1, <3>3, <1>01 DEF About
      <4>2. Keeps(i, k)
        BY <3>1, <3>3, <4>1, <1>04, <2>2
          DEF About, Keeps, Owned, AtWork, Typed, TypeOK, update_scan, locals
      <4> QED BY <3>1, <4>2, RowKept
    <3> QED BY <3>2, <3>3
  <2> QED BY <2>2, <2>3, <2>4, <2>5, <2>6
<1> HIDE DEF t, q
<1>2. CASE Goto(c, thread[c], "answering") /\ Write(c, t, q)
  BY <1>2, <1>04 DEF Goto
<1>3. CASE /\ UNCHANGED events
           /\ thread' = [thread EXCEPT ![c] =
                IF thread[c] = "updating" /\ status[c] = "completed" THEN "excepting"
                                                                    ELSE "ended"]
  BY <1>3, <1>03, <1>01 DEF Typed, TypeOK
<1> QED BY <1>2, <1>3 DEF update_scan, Goto, t, q

\* ... and the row that becomes an error.
LEMMA except_ExceptionStep ==
  ASSUME TableInv, NEW c \in Conns, except_Exception(c)
  PROVE  TableInv'
<1> USE HoneypotAssumption DEF TableInv
<1> DEFINE t == "error"
           q == {}
           here == event_id[c]
<1>01. /\ c \in DOMAIN conns /\ thread[c] \in AtWork /\ here \in DOMAIN events
       /\ events[here].conn = c /\ events[here].scan_status = "queued"
  <2>1. c \in DOMAIN conns /\ thread[c] \in AtWork
    BY DEF except_Exception, Typed, AtWork
  <2>2. here \in DOMAIN events
        /\ events[here] = [conn |-> c, scan_status |-> "queued", open_ports |-> {}]
    BY <2>1 DEF OwnRow
  <2> HIDE DEF here
  <2> QED BY <2>1, <2>2
<1>02. t \in {"completed", "blocked_not_authorized", "error"} /\ status[c] # "none"
  BY DEF Typed, TypeOK, ThreadOK, except_Exception
<1>03. CASE UNCHANGED events /\ thread' \in {[thread EXCEPT ![c] = "excepting"],
      [thread EXCEPT ![c] = "ended"]}
            /\ (thread'[c] = "excepting" => status[c] = "completed" /\ thread[c] = "updating")
  <2>1. Typed'
    BY <1>03, <1>01 DEF Typed, TypeOK, except_Exception, config, process, locals
  <2>2. ASSUME NEW d \in Conns
        PROVE  Quiet(d)
    BY <1>03, <1>02, <1>01
      DEF Typed, TypeOK, ThreadOK, Done, Quiet, Owned, AtWork, except_Exception, locals
  <2> QED BY <1>03, <2>1, <2>2, QuietStep DEF except_Exception, locals
<1>04. CASE Write(c, t, q) /\ thread' = [thread EXCEPT ![c] = "answering"]
  <2>1. q \in SUBSET Nat /\ q \subseteq TrulyOpen(conns[c].source)
        /\ (t = "completed" => Done(c)) /\ (t # "completed" => q = {}) /\ t \in {status[c], "error"}
    BY <1>01, <1>02
      DEF Typed, TypeOK, Range, ThreadOK, PortsOK, TrulyOpen, except_Exception
  <2> HIDE DEF t, q
  <2>2. /\ events' \in Seq(Row) /\ Len(events') = Len(events)
        /\ DOMAIN events' = DOMAIN events
        /\ \A i \in DOMAIN events :
             events'[i] = IF i = here
                            THEN [conn |-> events[i].conn, scan_status |-> t,
                                  open_ports |-> q]
                            ELSE events[i]
    BY <2>1, <1>02, <1>04, WriteEffect
  <2>3. Typed'
    BY <1>04, <1>01, <2>2 DEF Typed, TypeOK, except_Exception, config, process, locals
  <2>4. ASSUME NEW d \in Conns
        PROVE  ThreadOK(d)' /\ PortsOK(d)'
    BY <1>04, <2>3
      DEF Typed, TypeOK, ThreadOK, Done, PortsOK, TrulyOpen, except_Exception, locals
  <2>5. ASSUME NEW d \in Conns
        PROVE  OwnRow(d)'
    <3>1. CASE d = c
      BY <1>04, <3>1 DEF OwnRow, AtWork, Typed, TypeOK
    <3>2. CASE d # c /\ thread[d] \in AtWork
      <4>1. event_id[d] \in DOMAIN events
            /\ events[event_id[d]] = [conn |-> d, scan_status |-> "queued",
                  open_ports |-> {}]
        BY <3>2 DEF OwnRow
      <4>2. event_id[d] # here
        BY <3>2, <4>1, <1>01
      <4> QED BY <1>04, <2>2, <4>1, <4>2 DEF OwnRow, except_Exception, locals
    <3>3. CASE d # c /\ thread[d] \notin AtWork
      BY <1>04, <3>3 DEF OwnRow, Typed, TypeOK
    <3> QED BY <3>1, <3>2, <3>3
  <2>6. ASSUME NEW i \in DOMAIN events
        PROVE  RowOK(i)'
    <3>1. PICK k \in Conns : About(i, k)
      BY RowHasThread
    <3>2. CASE k = c
      <4>1. i = here /\ events'[i] = [conn |-> c, scan_status |-> t, open_ports |-> q]
        BY <3>1, <3>2, <2>2, <1>01 DEF About
      <4>2. UNCHANGED <<event_id, status, port_n, conns>> /\ thread'[c] = "answering"
        BY <1>04 DEF Typed, TypeOK, except_Exception, locals
      <4> QED BY <4>1, <4>2, <2>1, <1>02 DEF RowOK, Done, TrulyOpen
    <3>3. CASE k # c
      <4>1. i # here
        BY <3>1, <3>3, <1>01 DEF About
      <4>2. Keeps(i, k)
        BY <3>1, <3>3, <4>1, <1>04, <2>2
          DEF About, Keeps, Owned, AtWork, Typed, TypeOK, except_Exception, locals
      <4> QED BY <3>1, <4>2, RowKept
    <3> QED BY <3>2, <3>3
  <2> QED BY <2>2, <2>3, <2>4, <2>5, <2>6
<1> HIDE DEF t, q
<1>2. CASE Goto(c, thread[c], "answering") /\ Write(c, t, q)
  BY <1>2, <1>04 DEF Goto
<1>3. CASE /\ UNCHANGED events
           /\ thread' = [thread EXCEPT ![c] =
                IF thread[c] = "updating" /\ status[c] = "completed" THEN "excepting"
                                                                    ELSE "ended"]
  BY <1>3, <1>03, <1>01 DEF Typed, TypeOK
<1> QED BY <1>2, <1>3 DEF except_Exception, Goto, t, q


\* The table is in order when it is empty.
LEMMA TableInit == Init => TableInv
<1> SUFFICES ASSUME Init
             PROVE  TableInv
  OBVIOUS
<1> USE HoneypotAssumption DEF Init
<1>1. Typed
  BY DEF Typed, TypeOK, Conns, Range
<1>2. \A c \in Conns : ThreadOK(c) /\ PortsOK(c) /\ OwnRow(c)
  BY DEF ThreadOK, PortsOK, OwnRow, AtWork
<1>3. DOMAIN events = {}
  OBVIOUS
<1> QED BY <1>1, <1>2, <1>3 DEF TableInv

\* The table is in order at all times: the invariant behind the theorems below.
THEOREM TableIsInOrder == Spec => []TableInv
<1>1. ASSUME TableInv, [Next]_vars
      PROVE  TableInv'
  <2>1. CASE UNCHANGED vars
    BY <1>1, <2>1, StutterStep
  <2>2. ASSUME NEW p \in Peers, Visit(p)
        PROVE  TableInv'
    BY <1>1, <2>2, VisitStep
  <2>3. ASSUME NEW c \in Conns, honeypot(c) \/ handle_connection(c) \/ NoSocket(c)
        PROVE  TableInv'
    BY <1>1, <2>3, honeypotStep, add_eventStep, scan_targetStep, connect_exStep,
          ScanReturnsStep,
       update_scanStep, except_ExceptionStep, sendallStep, NoSocketStep
         DEF handle_connection
  <2>4. CASE LoopEnds \/ Edit \/ Exit \/ Restart
    BY <1>1, <2>4, LoopEndsStep, EditStep, ExitStep, RestartStep
  <2> QED BY <1>1, <2>1, <2>2, <2>3, <2>4 DEF Next
<1> QED BY <1>1, TableInit, PTL DEF Spec

\* A row tells the truth about its own connection, to the end (app.py 20-34,
\* database.py 26-52).
THEOREM RowsAreTruthful == Spec => []RowsAreTrue
<1>1. TableInv => RowsAreTrue
  BY DEF TableInv, Typed, RowsAreTrue, RowOK, TrulyOpen, Done
<1> QED BY <1>1, TableIsInOrder, PTL

\* A row says queued only while a thread works on it, or when the process ended
\* or the database failed (app.py 25-34).
THEOREM QueuedRowsAreOwned == Spec => []QueuedIsOwned
<1>1. TableInv => QueuedIsOwned
  BY DEF TableInv, QueuedIsOwned, RowOK, AtWork
<1> QED BY <1>1, TableIsInOrder, PTL

-----------------------------------------------------------------------------
\* A step that dials nobody new, and blocks nobody, but by the list.
LEMMA DialSame ==
  ASSUME DialInv, UNCHANGED <<conns, port_n, authorized>>,
         \A c \in DOMAIN conns :
           /\ thread'[c] = "scanning" => thread[c] = "scanning" \/ Listed(conns[c].source)
           /\ status'[c] = "blocked_not_authorized" =>
                status[c] = "blocked_not_authorized" \/ ~Listed(conns[c].source)
  PROVE  \A c \in DOMAIN conns' : ConnOK(c)'
BY DEF DialInv, ConnOK, Dialed, Listed

\* A connection from outside is dialed by nobody.
LEMMA VisitDials ==
  ASSUME DialInv, NEW p \in Peers, Visit(p)
  PROVE  \A c \in DOMAIN conns' : ConnOK(c)'
<1>1. PICK n : n = Len(conns) + 1
  OBVIOUS
<1>2. Typed /\ Connect(p, FALSE) /\ Len(conns) < MaxConns
  BY Zenon DEF DialInv, TableInv, Visit, Room
<1>3. /\ DOMAIN conns' = DOMAIN conns \cup {n}
      /\ \A c \in DOMAIN conns : conns'[c] = conns[c]
      /\ conns'[n].source = p /\ conns'[n].inner = FALSE
      /\ (Listed(p) => conns'[n].on) /\ (~Listed(p) => conns'[n].off)
  BY <1>1, <1>2, ConnectEffect
<1>4. n \in Conns /\ n \notin DOMAIN conns
  BY <1>1, <1>2, Places, HoneypotAssumption DEF Conns
<1>5. UNCHANGED <<authorized, thread, port_n, status>>
  BY DEF Visit, config, locals
<1>6. ASSUME NEW c \in DOMAIN conns
      PROVE  ConnOK(c)'
  <2>1. \A d \in 1 .. c - 1 : d \in DOMAIN conns
    BY <1>2, Places
  <2> QED BY <1>3, <1>5, <2>1 DEF DialInv, ConnOK, Dialed, Listed
<1>7. ConnOK(n)'
  <2>1. thread[n] = "none" /\ status[n] = "none" /\ port_n[n] = 1
    BY <1>4 DEF DialInv, TableInv, Typed, ThreadOK
  <2> QED BY <1>3, <1>5, <2>1 DEF ConnOK, Dialed, Listed
<1> QED BY <1>3, <1>6, <1>7

\* An edit notes on every connection whether its source is listed.
LEMMA EditDials ==
  ASSUME DialInv, Edit
  PROVE  \A c \in DOMAIN conns' : ConnOK(c)'
<1>1. PICK list : /\ authorized' = list
                  /\ conns' = [c \in DOMAIN conns |->
                                  Noted(conns[c], On(list, conns[c].source))]
  BY DEF Edit
<1>2. /\ DOMAIN conns' = DOMAIN conns
      /\ \A c \in DOMAIN conns :
           /\ conns'[c].source = conns[c].source /\ conns'[c].inner = conns[c].inner
           /\ conns[c].on \/ On(list, conns[c].source) => conns'[c].on
           /\ conns[c].off \/ ~On(list, conns[c].source) => conns'[c].off
  BY <1>1, EditEffect DEF DialInv, TableInv
<1>3. UNCHANGED <<thread, port_n, status>>
  BY DEF Edit, locals
<1>4. ASSUME NEW c \in DOMAIN conns
      PROVE  ConnOK(c)'
  <2>1. \A d \in 1 .. c - 1 : d \in DOMAIN conns
    BY Places DEF DialInv, TableInv
  <2> QED BY <1>1, <1>2, <1>3, <2>1 DEF DialInv, ConnOK, Dialed, Listed
<1> QED BY <1>2, <1>4

\* A port dialed is one of a listed peer, and an inner connection comes of it.
LEMMA connect_exDials ==
  ASSUME DialInv, NEW c \in Conns, connect_ex(c)
  PROVE  \A d \in DOMAIN conns' : ConnOK(d)'
<1>1. /\ UNCHANGED <<authorized, thread, status>>
      /\ thread[c] = "scanning" /\ port_n' = [port_n EXCEPT ![c] = @ + 1]
  BY DEF connect_ex, NextPort, config
<1>2. c \in DOMAIN conns /\ port_n \in [Conns -> Nat] /\ port_n[c] >= 1 /\ Typed
  BY <1>1, HoneypotAssumption DEF DialInv, TableInv, Typed, TypeOK
<1>3. port_n'[c] > 1 /\ \A d \in Conns : port_n'[d] >= port_n[d] /\ (d # c => port_n'[d] = port_n[d])
  BY <1>1, <1>2
<1>4. \A d \in DOMAIN conns : d \in Conns /\ \A e \in 1 .. d - 1 : e \in DOMAIN conns
  BY <1>2, Places, HoneypotAssumption DEF Typed, Conns
<1>5. conns[c].on
  BY <1>1, <1>2 DEF DialInv, ConnOK, Dialed
<1>6. ASSUME NEW d \in DOMAIN conns, \A e \in DOMAIN conns : conns'[e] = conns[e]
      PROVE  ConnOK(d)'
  <2>1. ConnOK(d)
    BY DEF DialInv
  <2>2. Dialed(d)' => conns'[d].on
    BY <2>1, <1>1, <1>3, <1>4, <1>5, <1>6 DEF ConnOK, Dialed
  <2>3. ASSUME conns'[d].inner
        PROVE  \E e \in 1 .. d - 1 : conns'[e].source = Local /\ port_n'[e] > 1 /\ conns'[e].on
    <3>1. PICK e \in 1 .. d - 1 : conns[e].source = Local /\ port_n[e] > 1 /\ conns[e].on
      BY <2>1, <2>3, <1>6 DEF ConnOK
    <3>2. e \in DOMAIN conns /\ e \in Conns
      BY <1>4
    <3> QED BY <3>1, <3>2, <1>2, <1>3, <1>6
  <2> QED BY <2>1, <2>2, <2>3, <1>1, <1>6 DEF ConnOK, Listed
<1>7. CASE UNCHANGED conns
  BY <1>6, <1>7
<1>8. CASE conns[c].source = Local /\ Room /\ Connect(Local, TRUE)
  <2>1. PICK n : n = Len(conns) + 1
    OBVIOUS
  <2>2. /\ DOMAIN conns' = DOMAIN conns \cup {n}
        /\ \A d \in DOMAIN conns : conns'[d] = conns[d]
        /\ conns'[n].source = Local
        /\ (Listed(Local) => conns'[n].on) /\ (~Listed(Local) => conns'[n].off)
    BY <1>8, <2>1, <1>2, ConnectEffect, HoneypotAssumption
  <2>3. n \in Conns /\ n \notin DOMAIN conns /\ c \in 1 .. n - 1
    BY <1>8, <2>1, <1>2, Places, HoneypotAssumption DEF Conns, Room
  <2>4. ConnOK(n)'
    <3>1. thread[n] = "none" /\ status[n] = "none" /\ port_n'[n] = 1
      BY <2>3, <1>2, <1>3 DEF DialInv, TableInv, Typed, ThreadOK
    <3>2. \E e \in 1 .. n - 1 : conns'[e].source = Local /\ port_n'[e] > 1 /\ conns'[e].on
      BY <1>2, <1>3, <1>5, <1>8, <2>2, <2>3
    <3> QED BY <1>1, <2>2, <3>1, <3>2 DEF ConnOK, Dialed, Listed
  <2> QED BY <2>2, <2>4, <1>6
<1> QED BY <1>7, <1>8 DEF connect_ex

\* Every step keeps what is known of who is dialed.
LEMMA DialStep ==
  ASSUME DialInv, [Next]_vars
  PROVE  \A c \in DOMAIN conns' : ConnOK(c)'
<1> USE DEF config, locals
<1>0. DOMAIN thread = Conns /\ DOMAIN status = Conns /\ DOMAIN conns \subseteq Conns
  <2>1. Typed
    BY DEF DialInv, TableInv
  <2>2. DOMAIN conns \subseteq Conns
    BY <2>1, Places, HoneypotAssumption DEF Typed, Conns
  <2> QED BY <2>1, <2>2 DEF Typed, TypeOK
<1>1. ASSUME NEW p \in Peers, Visit(p)
      PROVE  \A c \in DOMAIN conns' : ConnOK(c)'
  BY <1>1, VisitDials
<1>2. ASSUME NEW c \in Conns, connect_ex(c)
      PROVE  \A d \in DOMAIN conns' : ConnOK(d)'
  BY <1>2, connect_exDials
<1>3. CASE Edit
  BY <1>3, EditDials
<1>4. ASSUME NEW c \in Conns, scan_target(c)
      PROVE  \A d \in DOMAIN conns' : ConnOK(d)'
  BY <1>0, <1>4, DialSame DEF scan_target, Caught, Goto, is_authorized, Listed, On
<1>5. ASSUME NEW c \in Conns, honeypot(c) \/ add_event(c) \/ sendall(c)
      PROVE  \A d \in DOMAIN conns' : ConnOK(d)'
  BY <1>0, <1>5, DialSame DEF honeypot, add_event, sendall, Goto
<1>6. ASSUME NEW c \in Conns, ScanReturns(c) \/ NoSocket(c)
      PROVE  \A d \in DOMAIN conns' : ConnOK(d)'
  BY <1>0, <1>6, DialSame DEF ScanReturns, NoSocket, Goto
<1>7. ASSUME NEW c \in Conns, update_scan(c) \/ except_Exception(c)
      PROVE  \A d \in DOMAIN conns' : ConnOK(d)'
  BY <1>0, <1>7, DialSame DEF update_scan, except_Exception, Goto
<1>8. CASE LoopEnds \/ Exit \/ Restart \/ UNCHANGED vars
  BY <1>0, <1>8, DialSame DEF LoopEnds, Exit, Restart, vars
<1> QED BY <1>1, <1>2, <1>3, <1>4, <1>5, <1>6, <1>7, <1>8 DEF Next, handle_connection

\* A peer is dialed only if it was listed since it had connected, and blocked
\* only if it was not; an inner connection comes from a scan of the own address
\* (scanner.py 12-34, app.py 27-34).
THEOREM OnlyListedPeersAreDialed == Spec => []OnlyListedAreDialed
<1>1. Init /\ TableInv => DialInv
  <2> SUFFICES ASSUME Init, TableInv
               PROVE  DialInv
    OBVIOUS
  <2>1. DOMAIN conns = {}
    BY DEF Init
  <2> QED BY <2>1 DEF DialInv
<1>2. DialInv /\ TableInv' /\ [Next]_vars => DialInv'
  BY DialStep DEF DialInv
<1>3. DialInv => OnlyListedAreDialed
  <2> SUFFICES ASSUME DialInv, NEW c \in DOMAIN conns
               PROVE  /\ Dialed(c) => conns[c].on
                      /\ status[c] = "blocked_not_authorized" => conns[c].off
                      /\ conns[c].inner => \E d \in 1 .. c - 1 :
                           conns[d].source = Local /\ Dialed(d) /\ conns[d].on
    BY DEF OnlyListedAreDialed
  <2> QED BY DEF DialInv, ConnOK, Dialed
<1> QED BY <1>1, <1>2, <1>3, TableIsInOrder, PTL DEF Spec
=============================================================================
