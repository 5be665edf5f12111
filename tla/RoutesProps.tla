---------------------------- MODULE RoutesProps ----------------------------
(***************************************************************************)
(* What the page of RoutesView must never show, and what it must eventually *)
(* do.                                                                      *)
(***************************************************************************)
EXTENDS RoutesView

Words == {FirstWord[n] : n \in Name}
Row   == [local : Local, pid : Pid, name : Words \cup {"Unknown"}]
Rows(k) == ToSet(fetch[k].rows)

\* Every variable has its type; a refresh that is not under way holds nothing.
TypeOK ==
  /\ process \in [Pid -> Name \cup {""}]
  /\ \A a \in Local : \A p \in socket[a] : socket[a] = {p} /\ process[p] # ""
  /\ \A k \in Refreshes :
       /\ fetch[k].pc = "idle" => fetch[k] = Idle
       /\ fetch[k].pc = "answered" => Rows(k) \subseteq Row
       /\ fetch[k].at \in 0 .. snaps
  /\ ToSet(allConnections) \subseteq Row /\ ToSet(shown) \subseteq Row
  /\ status[1] \in {"idle", "loading", "error", "found"}

\* A list that is put together while processes end and start is a list of one
\* moment all the same: a row for every socket netstat saw and none twice, and
\* where it names a process, it does so by the first word of the name of the
\* process which had the pid then, unless that process ended before it was looked
\* up (getTCPConnections, getProcessName).  The word alone does not tell programs
\* apart: it can be the name of another one.
RowsAreOfOneMoment ==
  \A k \in Refreshes :
    /\ fetch[k].pc = "answered" =>
         /\ {r.local : r \in Rows(k)} = fetch[k].taken
         /\ Len(fetch[k].rows) = Cardinality(fetch[k].taken)
    /\ fetch[k].pc = "naming" =>
         \A r \in Rows(k) : r.name \in {FirstWord[r.was], "Unknown"} \/ r.gone

\* A list has the rows in which a text is found: all of them, nothing else, and
\* in their order.
HasRowsWith(text, list, rows) ==
  LET hits == {i \in DOMAIN rows : text \in {"", rows[i].name}} IN
  \E at \in [DOMAIN list -> hits] :
    /\ \A h \in hits : \E j \in DOMAIN list : at[j] = h
    /\ \A i, j \in DOMAIN list : i < j => at[i] < at[j]
    /\ \A j \in DOMAIN list : list[j] = rows[at[j]]

\* The parts of the page agree, in whatever order refreshes and the filter
\* come: the table shows all rows or those of the text in the field, the footer
\* counts what is shown, the status tells how many there are, "Loading" stands
\* only while a refresh is under way, and the button is out of use exactly
\* while one of its own is (refreshConnections, filterConnections).
PageAgrees ==
  /\ TypeOK
  /\ \E text \in {"", filterText} : HasRowsWith(text, shown, allConnections)
  /\ version = "desktop" => connCount = Len(shown)
  /\ status[1] = "found" => status[2] = Len(allConnections)
  /\ status[1] = "loading" => \E k \in Refreshes : fetch[k].pc # "idle"
  /\ disabled <=> \E k \in Refreshes \ {0} : fetch[k].pc # "idle"

\* What the button brings never goes back in time: an older list can replace a
\* newer one only when a refresh of the button meets that of the load.
ButtonGoesForward ==
  [][shownFrom'.at < shownFrom.at => 0 \in {shownFrom'.refresh, shownFrom.refresh}]_vars

\* The button comes back after every click.
ButtonComesBack == disabled ~> ~disabled
=============================================================================
