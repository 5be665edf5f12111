--------------------------- MODULE HoneypotProps ---------------------------
(***************************************************************************)
(* What the table of events tells, and whom the honeypot dials.             *)
(***************************************************************************)
EXTENDS Honeypot, Functions

Link == [source : Peers, inner : BOOLEAN, on : BOOLEAN, off : BOOLEAN]

\* Every variable has its type; a connection is killed only by the end of the
\* process or of the accept loop, and then its thread is gone for good.
TypeOK ==
  /\ up \in BOOLEAN /\ listening \in BOOLEAN
  /\ runs \in 1 .. MaxRuns /\ edits \in 0 .. MaxEdits
  /\ conns \in Seq(Link)
  /\ thread \in [Conns -> {"none", "accepted", "recorded", "scanning", "updating",
                           "excepting", "answering", "ended", "killed"}]
  /\ event_id \in [Conns -> 0 .. Len(events)]
  /\ port_n \in [Conns -> 1 .. Len(scanPorts) + 1]
  /\ open_ports \in [Conns -> SUBSET Range(scanPorts)]
  /\ status \in [Conns -> {"none", "completed", "blocked_not_authorized", "error"}]
  /\ ~up => \A c \in DOMAIN conns : thread[c] \in {"ended", "killed"}

Dialed(c) == port_n[c] > 1 \/ thread[c] = "scanning"

\* A peer is dialed only if config.json listed it at some time after it had
\* connected, whatever the list was before, and blocked only if it was not; a
\* connection that nobody made from outside comes from a scan of the honeypot's
\* own, listed, address (scanner.py 12-34, app.py 27-34).
OnlyListedAreDialed ==
  /\ \A c \in DOMAIN conns :
       /\ Dialed(c) => conns[c].on
       /\ status[c] = "blocked_not_authorized" => conns[c].off
       /\ conns[c].inner =>
            \E d \in 1 .. c - 1 : conns[d].source = Local /\ Dialed(d) /\ conns[d].on

\* A row tells the truth about its own connection, to the end: there is one row
\* per connection, it says what its thread decided or that something failed,
\* completed only after every port was dialed, and the ports it lists are ports
\* of that peer (app.py 20-34, database.py 26-52).
RowsAreTrue ==
  TypeOK /\ \A i \in DOMAIN events :
    LET row == events[i]  c == row.conn  peer == conns[c].source IN
    /\ event_id[c] = i
    /\ row.scan_status \in {"queued", status[c], "error"}
    /\ row.scan_status = "completed" => port_n[c] = Len(scanPorts) + 1
    /\ row.open_ports \subseteq
         Listens[peer] \cup (IF peer = Local THEN {honeypotPort} ELSE {})
    /\ row.scan_status # "completed" => row.open_ports = {}

\* A row says queued only while a thread works on it, unless the process ended
\* meanwhile or the database failed when the result was to be written; then it
\* says so for ever (app.py 25-34).
QueuedIsOwned ==
  \A i \in DOMAIN events :
    LET c == events[i].conn IN
    events[i].scan_status = "queued" =>
      \/ thread[c] \in {"recorded", "scanning", "updating", "excepting", "killed"}
      \/ thread[c] = "ended" /\ status[c] # "none"

-----------------------------------------------------------------------------
\* Every connection is closed: by its thread, by the end of the accept loop or by
\* that of the process.
EveryPeerIsLetGo ==
  \A c \in Conns : c \in DOMAIN conns ~> thread[c] \in {"ended", "killed"}
=============================================================================
