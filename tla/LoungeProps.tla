---------------------------- MODULE LoungeProps ----------------------------
(***************************************************************************)
(* What the lounge page must never show, and what it must eventually do.    *)
(***************************************************************************)
EXTENDS Lounge

Names == {Self, Admin, Bot} \cup Others
Rows  == {uploadRows[n] : n \in 1 .. Len(uploadRows)}

\* Every variable has its type, and an upload has at most one row, which is
\* there only while it runs (processSimulatedUpload 2111-2142).
TypeOK ==
  /\ joined \in BOOLEAN /\ online \in BOOLEAN /\ retries \in Nat
  /\ sock \in Seq({"connecting", "open", "dead", "failed", "closed"})
  /\ Len(sock) <= MaxSockets
  /\ outbox \in Seq({Self, Bot})
  /\ clientParticipants \subseteq Names \ {Admin} /\ senders \subseteq Names
  /\ msgRows \in Nat /\ clientLogsCount \in Nat
  /\ upload \in [Uploads -> {"none", "ticking", "reading", "done"}]
  /\ percentage \in [Uploads -> 0 .. Steps] /\ bar \in [Uploads -> 0 .. Steps]
  /\ Rows \subseteq {u \in Uploads : upload[u] = "ticking"}
  /\ Len(uploadRows) = Cardinality(Rows) /\ flushed \subseteq Uploads
  /\ activityTicker \in BOOLEAN /\ typing \in BOOLEAN

\* From the entrance on there is one link or one attempt to get it back, never
\* two: every old socket is closed, and the last one is either not closed yet or
\* has its one timer.  The badge says Online for as long as the socket is open,
\* and beyond that only until the page is told (initializeSocketLink 1790-1814).
OneLink ==
  joined =>
    /\ \A s \in 1 .. Len(sock) - 1 : sock[s] = "closed"
    /\ retries = IF sock[Len(sock)] = "closed" THEN 1 ELSE 0
    /\ IsOpen => online
    /\ online => sock[Current] \in {"open", "dead"}

\* The counter is the number of message rows in the feed, whatever was flushed,
\* everybody who was heard is on the list of participants, and a running upload
\* has its row unless it was flushed: nothing but Flush takes away the row that
\* an interval is looking for (1893-1922, 2131-2141, 2196-2201).
FeedIsTrue ==
  /\ TypeOK
  /\ clientLogsCount = msgRows
  /\ senders \ {Admin} \subseteq clientParticipants
  /\ \A u \in Uploads : upload[u] = "ticking" => u \in Rows \/ u \in flushed

-----------------------------------------------------------------------------
\* The link comes back each time it breaks.
LinkComesBack == joined ~> []<>IsOpen

\* An upload is completed, also beside others whose bar it moves, unless its row
\* was flushed: then its interval looks for a bar for ever.
UploadsComplete == \A u \in Uploads : upload[u] = "ticking" ~> upload[u] = "done" \/ u \in flushed
=============================================================================
