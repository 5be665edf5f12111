---------------------------- MODULE RoutesProofs ----------------------------
(***************************************************************************)
(* What the viewer of TCP routes shows is true, for every set of processes, *)
(* programs and addresses, every number of clicks, and however the refresh  *)
(* of the load, those of the button and the filter come in between.         *)
(***************************************************************************)
EXTENDS RoutesProps, TLAPS, SequenceTheorems, FiniteSetTheorems, WellFoundedInduction

-----------------------------------------------------------------------------
(* Induction over a set of numbers.                                         *)

Less == {p \in Nat \X Nat : p[1] < p[2]}
LEMMA LessIsWellFounded == IsWellFoundedOn(Less, Nat)
<1>1. Less = OpToRel(<, Nat)
  BY Zenon DEF Less, OpToRel
<1> QED BY <1>1, NatLessThanWellFounded, Zenon

LEMMA SetInduction ==
  ASSUME NEW P \in SUBSET Nat, 0 \in P, \A n \in P : n + 1 \in P
  PROVE  \A n \in Nat : n \in P
<1> SUFFICES ASSUME Nat \ P # {}
             PROVE  FALSE
  OBVIOUS
<1>1. PICK n \in Nat \ P : \A k \in Nat \ P : <<k, n>> \notin Less
  BY WFMin, LessIsWellFounded
<1>2. n # 0 /\ n - 1 \in Nat /\ <<n - 1, n>> \in Less
  BY <1>1 DEF Less
<1>3. n - 1 \in P /\ n = (n - 1) + 1
  BY <1>1, <1>2
<1> QED BY <1>1, <1>3

-----------------------------------------------------------------------------
(* The filter.                                                              *)

Hit(rows, text, i) == text \in {"", rows[i].name}

\* The function that Filter builds exists, so that it is what it says.
SoFar(kept, rows, text, m) ==
  kept = [n \in 0 .. m |->
            IF n = 0 THEN <<>>
            ELSE IF text \in {"", rows[n].name} THEN Append(kept[n - 1], rows[n])
                                                ELSE kept[n - 1]]
KeptSoFar(rows, text, m) == CHOOSE kept : SoFar(kept, rows, text, m)
LEMMA KeptExists ==
  ASSUME NEW rows, NEW text
  PROVE  \A m \in Nat : \E kept : SoFar(kept, rows, text, m)
<1> DEFINE Step(s, n) == IF text \in {"", rows[n].name} THEN Append(s, rows[n]) ELSE s
           Is(p, m) == p = [n \in 0 .. m |-> IF n = 0 THEN <<>> ELSE Step(p[n - 1], n)]
           P == {m \in Nat : \E p : Is(p, m)}
<1> HIDE DEF Step
<1>1. 0 \in P
  <2> DEFINE p == [n \in 0 .. 0 |-> <<>>]
  <2>1. Is(p, 0)
    OBVIOUS
  <2> QED BY <2>1
<1>2. ASSUME NEW m \in P
      PROVE  m + 1 \in P
  <2>1. PICK p : Is(p, m)
    OBVIOUS
  <2> DEFINE q == [n \in 0 .. m + 1 |-> IF n <= m THEN p[n] ELSE Step(p[m], m + 1)]
  <2>2. \A n \in 0 .. m : p[n] = IF n = 0 THEN <<>> ELSE Step(p[n - 1], n)
    BY <2>1
  <2>3. ASSUME NEW n \in 0 .. m + 1
        PROVE  q[n] = IF n = 0 THEN <<>> ELSE Step(q[n - 1], n)
    <3>1. CASE n \in 0 .. m
      BY <2>2, <3>1
    <3>2. CASE n = m + 1
      BY <3>2
    <3> QED BY <3>1, <3>2
  <2>4. q = [n \in 0 .. m + 1 |-> q[n]]
    OBVIOUS
  <2> HIDE DEF q
  <2>5. Is(q, m + 1)
    BY <2>3, <2>4
  <2> HIDE DEF Is
  <2> QED BY <2>5
<1> HIDE DEF P
<1>3. P \in SUBSET Nat
  BY DEF P
<1>4. \A m \in Nat : m \in P
  BY <1>1, <1>2, <1>3, SetInduction
<1>5. ASSUME NEW p, NEW m, Is(p, m)
      PROVE  SoFar(p, rows, text, m)
  BY <1>5, Zenon DEF SoFar, Step
<1> QED BY <1>4, <1>5 DEF P

LEMMA FilterIsKept ==
  ASSUME NEW rows, NEW text, Len(rows) \in Nat
  PROVE  LET kept == KeptSoFar(rows, text, Len(rows)) IN
         /\ Filter(rows, text) = kept[Len(rows)] /\ kept[0] = <<>>
         /\ \A n \in 1 .. Len(rows) :
              kept[n] = IF Hit(rows, text, n) THEN Append(kept[n - 1], rows[n]) ELSE kept[n - 1]
<1> DEFINE kept == KeptSoFar(rows, text, Len(rows))
<1>1. Filter(rows, text) = kept[Len(rows)]
  BY Zenon DEF Filter, KeptSoFar, SoFar
<1>2. SoFar(kept, rows, text, Len(rows))
  <2>1. \E r : SoFar(r, rows, text, Len(rows))
    BY KeptExists
  <2> QED BY <2>1, Zenon DEF KeptSoFar
<1> DEFINE Step(s, n) == IF Hit(rows, text, n) THEN Append(s, rows[n]) ELSE s
<1> HIDE DEF kept
<1>3. kept[0] = <<>> /\ \A n \in 1 .. Len(rows) : kept[n] = Step(kept[n - 1], n)
  <2>1. kept = [n \in 0 .. Len(rows) |-> IF n = 0 THEN <<>> ELSE Step(kept[n - 1], n)]
    BY <1>2, Zenon DEF SoFar, Hit
  <2> HIDE DEF Step
  <2> QED BY <2>1
<1> QED BY <1>1, <1>3 DEF kept

\* s is what a text finds in the first m rows.
Found(s, rows, text, m) ==
  \E at \in [1 .. Len(s) -> 1 .. m] :
    /\ \A j \in 1 .. Len(s) : Hit(rows, text, at[j]) /\ s[j] = rows[at[j]]
    /\ \A h \in 1 .. m : Hit(rows, text, h) => \E j \in 1 .. Len(s) : at[j] = h
    /\ \A i, j \in 1 .. Len(s) : i < j => at[i] < at[j]

LEMMA OneMore ==
  ASSUME NEW S, NEW rows \in Seq(S), NEW text, NEW m \in Nat, m + 1 <= Len(rows),
         NEW s \in Seq(S), Found(s, rows, text, m)
  PROVE  LET t == IF Hit(rows, text, m + 1) THEN Append(s, rows[m + 1]) ELSE s IN
         t \in Seq(S) /\ Found(t, rows, text, m + 1)
<1> DEFINE len == Len(s)
<1>1. len \in Nat /\ Len(rows) \in Nat /\ rows[m + 1] \in S
  BY LenProperties, ElementOfSeq
<1>2. PICK at \in [1 .. len -> 1 .. m] :
        /\ \A j \in 1 .. len : Hit(rows, text, at[j]) /\ s[j] = rows[at[j]]
        /\ \A h \in 1 .. m : Hit(rows, text, h) => \E j \in 1 .. len : at[j] = h
        /\ \A i, j \in 1 .. len : i < j => at[i] < at[j]
  BY DEF Found
<1> HIDE DEF len
<1>3. CASE Hit(rows, text, m + 1)
  <2> DEFINE t == Append(s, rows[m + 1])
             to == [j \in 1 .. len + 1 |-> IF j = len + 1 THEN m + 1 ELSE at[j]]
  <2>1. /\ t \in Seq(S) /\ Len(t) = len + 1 /\ t[len + 1] = rows[m + 1]
        /\ \A j \in 1 .. len : t[j] = s[j]
    BY <1>1, AppendProperties DEF len
  <2>2. to \in [1 .. len + 1 -> 1 .. m + 1]
    BY <1>1, <1>2
  <2>3. \A j \in 1 .. len + 1 : \/ j = len + 1 /\ to[j] = m + 1
                                \/ j \in 1 .. len /\ to[j] = at[j] /\ at[j] \in 1 .. m
    BY <1>1, <1>2
  <2> HIDE DEF t, to
  <2>4. \A j \in 1 .. len + 1 : Hit(rows, text, to[j]) /\ t[j] = rows[to[j]]
    BY <1>2, <1>3, <2>1, <2>3
  <2>5. ASSUME NEW h \in 1 .. m + 1, Hit(rows, text, h)
        PROVE  \E j \in 1 .. len + 1 : to[j] = h
    <3>1. CASE h = m + 1
      <4>1. len + 1 \in 1 .. len + 1 /\ to[len + 1] = m + 1
        BY <1>1, <2>3
      <4> QED BY <3>1, <4>1
    <3>2. CASE h \in 1 .. m
      <4>1. PICK j \in 1 .. len : at[j] = h
        BY <1>2, <2>5, <3>2
      <4>2. j \in 1 .. len + 1 /\ j # len + 1
        BY <1>1
      <4> QED BY <2>3, <4>1, <4>2
    <3> QED BY <3>1, <3>2
  <2>6. \A i, j \in 1 .. len + 1 : i < j => to[i] < to[j]
    <3> SUFFICES ASSUME NEW i \in 1 .. len + 1, NEW j \in 1 .. len + 1, i < j
                 PROVE  to[i] < to[j]
      OBVIOUS
    <3>1. i \in 1 .. len /\ to[i] = at[i] /\ at[i] \in 1 .. m
      BY <1>1, <2>3
    <3>2. CASE j = len + 1
      <4>1. to[j] = m + 1
        BY <1>1, <2>3, <3>2
      <4> QED BY <3>1, <4>1
    <3>3. CASE j \in 1 .. len
      <4>1. to[j] = at[j]
        BY <1>1, <2>3, <3>3
      <4> QED BY <1>2, <3>1, <3>3, <4>1
    <3> QED BY <2>3, <3>2, <3>3
  <2>7. Found(t, rows, text, m + 1)
    <3>1. to \in [1 .. Len(t) -> 1 .. m + 1]
      BY <2>1, <2>2
    <3>2. \A j \in 1 .. Len(t) : Hit(rows, text, to[j]) /\ t[j] = rows[to[j]]
      BY <2>1, <2>4
    <3>3. \A h \in 1 .. m + 1 : Hit(rows, text, h) => \E j \in 1 .. Len(t) : to[j] = h
      BY <2>1, <2>5
    <3>4. \A i, j \in 1 .. Len(t) : i < j => to[i] < to[j]
      BY <2>1, <2>6
    <3> QED BY <3>1, <3>2, <3>3, <3>4, Zenon DEF Found
  <2> QED BY <1>3, <2>1, <2>7 DEF t
<1>4. CASE ~Hit(rows, text, m + 1)
  <2>1. at \in [1 .. len -> 1 .. m + 1]
    BY <1>2
  <2>2. \A h \in 1 .. m + 1 : Hit(rows, text, h) => h \in 1 .. m
    BY <1>4
  <2>3. Found(s, rows, text, m + 1)
    BY <1>2, <2>1, <2>2 DEF Found, len
  <2> QED BY <1>4, <2>3
<1> QED BY <1>3, <1>4

\* Filter finds all rows with the text, nothing else, and in their order.
LEMMA FilterFinds ==
  ASSUME NEW S, NEW rows \in Seq(S), NEW text
  PROVE  Filter(rows, text) \in Seq(S) /\ Found(Filter(rows, text), rows, text, Len(rows))
<1> DEFINE kept == KeptSoFar(rows, text, Len(rows))
           N == Len(rows)
<1>1. N \in Nat
  BY LenProperties
<1>2. /\ Filter(rows, text) = kept[N] /\ kept[0] = <<>>
      /\ \A n \in 1 .. N :
           kept[n] = IF Hit(rows, text, n) THEN Append(kept[n - 1], rows[n]) ELSE kept[n - 1]
  BY <1>1, FilterIsKept
<1> HIDE DEF kept
<1> DEFINE P == {m \in Nat : m <= N => kept[m] \in Seq(S) /\ Found(kept[m], rows, text, m)}
<1>3. 0 \in P
  <2>1. <<>> \in Seq(S) /\ Len(<<>>) = 0
    BY EmptySeq
  <2>2. Found(<<>>, rows, text, 0)
    <3> DEFINE at == [j \in 1 .. 0 |-> j]
    <3>1. at \in [1 .. Len(<<>>) -> 1 .. 0] /\ 1 .. Len(<<>>) = {} /\ 1 .. 0 = {}
      BY <2>1
    <3> QED BY <3>1, Zenon DEF Found
  <2> QED BY <1>2, <2>1, <2>2
<1>4. ASSUME NEW m \in P
      PROVE  m + 1 \in P
  <2> SUFFICES ASSUME m + 1 <= N
               PROVE  kept[m + 1] \in Seq(S) /\ Found(kept[m + 1], rows, text, m + 1)
    OBVIOUS
  <2>1. m \in Nat /\ m <= N /\ m + 1 \in 1 .. N /\ (m + 1) - 1 = m
    BY <1>1
  <2>2. kept[m] \in Seq(S) /\ Found(kept[m], rows, text, m)
    BY <2>1
  <2>3. kept[m + 1] = IF Hit(rows, text, m + 1) THEN Append(kept[m], rows[m + 1]) ELSE kept[m]
    BY <1>2, <2>1
  <2> QED BY <2>1, <2>2, <2>3, OneMore
<1> HIDE DEF P
<1>5. P \in SUBSET Nat
  BY DEF P
<1>6. \A m \in Nat : m \in P
  BY <1>3, <1>4, <1>5, SetInduction
<1> QED BY <1>1, <1>2, <1>6 DEF P

-----------------------------------------------------------------------------
(* The state.                                                               *)

MachineInv ==
  /\ process \in [Pid -> Name \cup {""}] /\ socket \in [Local -> SUBSET Pid]
  /\ \A a \in Local : \A p \in socket[a] : socket[a] = {p} /\ process[p] # ""

\* The types of a refresh: its lines, and its rows with their history.
Line     == [local : Local, pid : Pid, was : Name, gone : BOOLEAN]
NamedRow == [local : Local, pid : Pid, name : Words \cup {"Unknown"}, was : Name, gone : BOOLEAN]
Fetch == [pc : {"idle", "sent", "naming", "answered"}, lines : Seq({Heading} \cup Line),
          rows : Seq(NamedRow \cup Row), at : Nat, taken : SUBSET Local]

\* The addresses in a list are different ones of a set.
Distinct(s, set) ==
  /\ \A i \in 1 .. Len(s) : s[i].local \in set
  /\ \A i, j \in 1 .. Len(s) : i # j => s[i].local # s[j].local

\* While lines are named: a heading comes first; the lines and the rows are as
\* many as the sockets that were taken, each of another socket; and a line or a
\* row is right about its process as long as that has not ended.
Headed(f) == f.lines # <<>> /\ f.lines[1] = Heading
Left(f)   == IF Headed(f) THEN Len(f.lines) - 1 ELSE Len(f.lines)
Counts(f) ==
  /\ f.rows \in Seq(NamedRow) /\ IsFiniteSet(f.taken)
  /\ \A i \in 1 .. Len(f.lines) : f.lines[i] = Heading => i = 1 /\ f.rows = <<>>
  /\ Len(f.rows) + Left(f) = Cardinality(f.taken)
  /\ Distinct(f.rows, f.taken)
  /\ \A i \in 1 .. Len(f.lines) : f.lines[i] # Heading =>
       /\ f.lines[i].local \in f.taken
       /\ \A j \in 1 .. Len(f.lines) :
            j # i /\ f.lines[j] # Heading => f.lines[j].local # f.lines[i].local
       /\ \A j \in 1 .. Len(f.rows) : f.rows[j].local # f.lines[i].local
Current(line) == line.gone \/ process[line.pid] = line.was
Honest(f) ==
  /\ \A i \in 1 .. Len(f.lines) : f.lines[i] # Heading => Current(f.lines[i])
  /\ \A i \in 1 .. Len(f.rows) : f.rows[i].name \in {FirstWord[f.rows[i].was], "Unknown"} \/ f.rows[i].gone
Answered(f) ==
  /\ f.rows \in Seq(Row) /\ f.lines = <<>> /\ IsFiniteSet(f.taken)
  /\ Len(f.rows) = Cardinality(f.taken) /\ Distinct(f.rows, f.taken)
FetchOK(f) ==
  /\ f \in Fetch /\ f.at <= snaps
  /\ f.pc = "idle" => f = Idle
  /\ f.pc = "sent" => f = [Idle EXCEPT !.pc = "sent"]
  /\ f.pc = "naming" => Counts(f) /\ Honest(f)
  /\ f.pc = "answered" => Answered(f)
FetchInv ==
  /\ snaps \in Nat /\ fetch \in [Refreshes -> Fetch]
  /\ \A k \in Refreshes : FetchOK(fetch[k])

\* The page.
Busy(k) == fetch[k].pc # "idle"
PageInv ==
  /\ version \in {"desktop", "basic"}
  /\ allConnections \in Seq(Row) /\ shown \in Seq(Row)
  /\ \E text \in {"", filterText} : HasRowsWith(text, shown, allConnections)
  /\ version = "desktop" => connCount = Len(shown)
  /\ status[1] \in {"idle", "loading", "error", "found"}
  /\ status[1] = "found" => status[2] = Len(allConnections)

\* One refresh of the button at a time, and none that has not been clicked for;
\* what it brings is not older than what one of the button has brought.
ButtonInv ==
  /\ clicks \in 0 .. MaxClicks /\ loaded \in BOOLEAN /\ disabled \in BOOLEAN
  /\ ~loaded => clicks = 0 /\ ~Busy(0)
  /\ status[1] = "loading" => \E k \in Refreshes : Busy(k)
  /\ disabled <=> \E k \in Refreshes \ {0} : Busy(k)
  /\ \A k \in Refreshes \ {0} : Busy(k) =>
       k <= clicks /\ \A j \in Refreshes \ {0} : Busy(j) => j = k
  /\ shownFrom.refresh \in Refreshes /\ shownFrom.at \in 0 .. snaps
  /\ shownFrom.refresh # 0 =>
       \A k \in Refreshes \ {0} :
         fetch[k].pc \in {"naming", "answered"} => shownFrom.at <= fetch[k].at
RoutesInv == MachineInv /\ FetchInv /\ PageInv /\ ButtonInv

\* A list with as many addresses as a set, all different and of the set, has
\* them all.
LEMMA AllThere ==
  ASSUME NEW S, IsFiniteSet(S), NEW s, Len(s) = Cardinality(S), DOMAIN s = 1 .. Len(s),
         Distinct(s, S)
  PROVE  {s[i].local : i \in 1 .. Len(s)} = S
<1> DEFINE D == 1 .. Cardinality(S)
           f == [i \in D |-> s[i].local]
<1>1. f \in Injection(D, S)
  BY DEF Distinct, Injection, IsInjective
<1>2. Cardinality(S) \in Nat
  BY FS_CardinalityType
<1>3. Cardinality(D) = Cardinality(S)
  BY <1>2, FS_Interval
<1>4. f \in Surjection(D, S)
  BY <1>1, <1>3, FS_Injection
<1>5. \A x \in S : \E i \in D : s[i].local = x
  BY <1>4 DEF Surjection
<1>6. \A i \in D : s[i].local \in S
  BY DEF Distinct
<1> QED BY <1>5, <1>6

\* What the invariant says of the properties.
LEMMA InvImplies ==
  ASSUME RoutesInv
  PROVE  RowsAreOfOneMoment /\ PageAgrees
<1>1. ASSUME NEW k \in Refreshes, fetch[k].pc = "answered"
      PROVE  /\ {r.local : r \in Rows(k)} = fetch[k].taken
             /\ Len(fetch[k].rows) = Cardinality(fetch[k].taken)
             /\ Rows(k) \subseteq Row
  <2> DEFINE rows == fetch[k].rows
  <2>1. Answered(fetch[k])
    BY <1>1 DEF RoutesInv, FetchInv, FetchOK
  <2>2. rows \in Seq(Row) /\ DOMAIN rows = 1 .. Len(rows)
    BY <2>1, LenProperties DEF Answered
  <2>3. {rows[i].local : i \in 1 .. Len(rows)} = fetch[k].taken
    BY <2>1, <2>2, AllThere DEF Answered
  <2>4. Rows(k) = {rows[i] : i \in 1 .. Len(rows)}
    BY <2>2 DEF Rows, ToSet
  <2>5. \A i \in 1 .. Len(rows) : rows[i] \in Row
    BY <2>2, ElementOfSeq
  <2> QED BY <2>1, <2>3, <2>4, <2>5 DEF Answered
<1>2. ASSUME NEW k \in Refreshes, fetch[k].pc = "naming", NEW r \in Rows(k)
      PROVE  r.name \in {FirstWord[r.was], "Unknown"} \/ r.gone
  <2>1. Honest(fetch[k]) /\ fetch[k].rows \in Seq(NamedRow)
    BY <1>2 DEF RoutesInv, FetchInv, FetchOK, Counts
  <2>2. DOMAIN fetch[k].rows = 1 .. Len(fetch[k].rows)
    BY <2>1, LenProperties
  <2> QED BY <1>2, <2>1, <2>2 DEF Rows, ToSet, Honest
<1>3. TypeOK
  <2>1. \A k \in Refreshes : fetch[k].pc = "idle" => fetch[k] = Idle
    BY DEF RoutesInv, FetchInv, FetchOK
  <2>2. \A k \in Refreshes : fetch[k].at \in 0 .. snaps
    BY DEF RoutesInv, FetchInv, FetchOK, Fetch
  <2>3. ToSet(allConnections) \subseteq Row /\ ToSet(shown) \subseteq Row
    <3>1. ASSUME NEW s \in Seq(Row)
          PROVE  ToSet(s) \subseteq Row
      <4>1. DOMAIN s = 1 .. Len(s) /\ \A i \in 1 .. Len(s) : s[i] \in Row
        BY LenProperties, ElementOfSeq
      <4> QED BY <4>1 DEF ToSet
    <3> QED BY <3>1 DEF RoutesInv, PageInv
  <2>4. status[1] \in {"idle", "loading", "error", "found"}
    BY DEF RoutesInv, PageInv
  <2> QED BY <1>1, <2>1, <2>2, <2>3, <2>4 DEF TypeOK, RoutesInv, MachineInv
<1> QED BY <1>1, <1>2, <1>3 DEF RowsAreOfOneMoment, PageAgrees, RoutesInv, PageInv, ButtonInv, Busy

-----------------------------------------------------------------------------
(* The steps of the machine.                                                *)

LEMMA RefreshNumbers == MaxClicks \in Nat /\ Refreshes \subseteq Nat /\ 0 \in Refreshes
<1>1. MaxClicks \in Nat
  BY RoutesAssumption, Zenon
<1> QED BY <1>1 DEF Refreshes

\* A step of the machine or the server leaves the page alone; a refresh under
\* way stays that way, and its moment is the old one or a new one.
LEMMA PageStays ==
  ASSUME RoutesInv, FetchInv', UNCHANGED <<version, pageVars>>,
         snaps' = snaps \/ snaps' = snaps + 1,
         \A k \in Refreshes :
           /\ fetch'[k].pc = "idle" <=> fetch[k].pc = "idle"
           /\ \/ /\ fetch'[k].at = fetch[k].at
                 /\ fetch'[k].pc \in {"naming", "answered"} => fetch[k].pc \in {"naming", "answered"}
              \/ fetch'[k].at > snaps
  PROVE  PageInv' /\ ButtonInv'
<1>1. PageInv'
  BY DEF RoutesInv, PageInv, pageVars
<1>2. snaps \in Nat /\ snaps' \in Nat /\ snaps <= snaps'
  BY DEF RoutesInv, FetchInv
<1>3. \A k \in Refreshes : Busy(k)' <=> Busy(k)
  BY DEF Busy
<1>4. ASSUME shownFrom.refresh # 0, NEW k \in Refreshes \ {0},
             fetch'[k].pc \in {"naming", "answered"}
      PROVE  shownFrom.at <= fetch'[k].at
  <2>1. shownFrom.at \in 0 .. snaps
    BY DEF RoutesInv, ButtonInv
  <2>2. fetch'[k].at \in Nat
    BY DEF FetchInv, Fetch
  <2>3. CASE fetch'[k].at > snaps
    BY <1>2, <2>1, <2>2, <2>3
  <2>4. CASE fetch'[k].at = fetch[k].at /\ fetch[k].pc \in {"naming", "answered"}
    BY <1>4, <2>4 DEF RoutesInv, ButtonInv
  <2> QED BY <1>4, <2>3, <2>4
<1>5. disabled' \in BOOLEAN /\ loaded' \in BOOLEAN
  BY Zenon DEF RoutesInv, ButtonInv, pageVars
<1>6. shownFrom' = shownFrom /\ shownFrom.at \in 0 .. snaps'
  BY <1>2 DEF RoutesInv, ButtonInv, pageVars
<1>7. ButtonInv'
  <2>1. UNCHANGED <<status, clicks, loaded, disabled, shownFrom>>
    BY DEF pageVars
  <2> HIDE DEF Busy
  <2>2. disabled' <=> \E k \in Refreshes \ {0} : Busy(k)'
    BY <1>3, <2>1 DEF RoutesInv, ButtonInv
  <2>3. \A k \in Refreshes \ {0} : Busy(k)' =>
          k <= clicks' /\ \A j \in Refreshes \ {0} : Busy(j)' => j = k
    BY <1>3, <2>1 DEF RoutesInv, ButtonInv
  <2>4. /\ ~loaded' => clicks' = 0 /\ ~Busy(0)'
        /\ status'[1] = "loading" => \E k \in Refreshes : Busy(k)'
    <3>1. 0 \in Refreshes
      BY RefreshNumbers
    <3> QED BY <1>3, <2>1, <3>1 DEF RoutesInv, ButtonInv
  <2>5. clicks' \in 0 .. MaxClicks /\ shownFrom'.refresh \in Refreshes
    BY <2>1 DEF RoutesInv, ButtonInv
  <2> QED BY <1>4, <1>5, <1>6, <2>2, <2>3, <2>4, <2>5 DEF ButtonInv
<1> QED BY <1>1, <1>7

LEMMA StartKeeps ==
  ASSUME RoutesInv, NEW p \in Pid, NEW n \in Name, ProcessStarts(p, n)
  PROVE  RoutesInv'
<1>1. /\ process[p] = "" /\ Uses[n] \cap Open = {}
      /\ process' = [process EXCEPT ![p] = n]
      /\ socket' = [a \in Local |-> IF a \in Uses[n] THEN {p} ELSE socket[a]]
      /\ UNCHANGED <<version, fetch, snaps, pageVars>>
  BY DEF ProcessStarts
<1>2. MachineInv'
  <2>1. process' \in [Pid -> Name \cup {""}] /\ socket' \in [Local -> SUBSET Pid]
    BY <1>1 DEF RoutesInv, MachineInv
  <2>2. ASSUME NEW a \in Local, NEW q \in socket'[a]
        PROVE  socket'[a] = {q} /\ process'[q] # ""
    <3>1. CASE a \in Uses[n]
      <4>1. socket'[a] = {p} /\ q = p
        BY <1>1, <2>2, <3>1
      <4>2. process'[p] = n /\ n # ""
        BY <1>1, RoutesAssumption DEF RoutesInv, MachineInv
      <4> QED BY <4>1, <4>2
    <3>2. CASE a \notin Uses[n]
      <4>1. socket'[a] = socket[a]
        BY <1>1, <3>2
      <4>2. q \in Pid /\ socket[a] = {q} /\ process[q] # "" /\ q # p
        BY <1>1, <2>2, <4>1 DEF RoutesInv, MachineInv
      <4> QED BY <1>1, <4>1, <4>2 DEF RoutesInv, MachineInv
    <3> QED BY <3>1, <3>2
  <2> QED BY <2>1, <2>2 DEF MachineInv
\* No line names a process that is still to come.
<1>3. FetchInv'
  <2>1. ASSUME NEW k \in Refreshes, fetch[k].pc = "naming"
        PROVE  Honest(fetch[k])'
    <3> DEFINE f == fetch[k]
    <3>1. Honest(f) /\ f \in Fetch
      BY <2>1 DEF RoutesInv, FetchInv, FetchOK
    <3>2. ASSUME NEW i \in 1 .. Len(f.lines), f.lines[i] # Heading
          PROVE  Current(f.lines[i])'
      <4>1. f.lines[i] \in Line
        <5>1. f.lines \in Seq({Heading} \cup Line)
          BY <3>1 DEF Fetch
        <5> QED BY <3>2, <5>1, ElementOfSeq
      <4>2. Current(f.lines[i])
        BY <3>1, <3>2 DEF Honest
      <4>3. f.lines[i].pid \in Pid /\ f.lines[i].was # ""
        BY <4>1, RoutesAssumption DEF Line
      <4> QED BY <1>1, <4>2, <4>3 DEF Current, RoutesInv, MachineInv
    <3> QED BY <1>1, <3>1, <3>2 DEF Honest
  <2>2. fetch' = fetch /\ snaps' = snaps
    BY <1>1
  <2>3. \A k \in Refreshes : FetchOK(fetch[k])'
    BY <2>1, <2>2 DEF RoutesInv, FetchInv, FetchOK
  <2> QED BY <2>2, <2>3 DEF RoutesInv, FetchInv
<1>4. snaps' = snaps /\ fetch' = fetch /\ UNCHANGED <<version, pageVars>>
  BY <1>1
<1>5. PageInv' /\ ButtonInv'
  BY <1>3, <1>4, PageStays
<1> QED BY <1>2, <1>3, <1>5 DEF RoutesInv

\* A process that ends marks the lines that name it, which changes none of
\* their addresses.
Marked(lines, p) ==
  [i \in DOMAIN lines |-> IF lines[i].pid = p THEN [lines[i] EXCEPT !.gone = TRUE] ELSE lines[i]]
LEMMA MarkedLines ==
  ASSUME NEW lines \in Seq({Heading} \cup Line), NEW p \in Pid
  PROVE  /\ Marked(lines, p) \in Seq({Heading} \cup Line)
         /\ Len(Marked(lines, p)) = Len(lines)
         /\ \A i \in 1 .. Len(lines) :
              LET new == Marked(lines, p)[i]  old == lines[i] IN
              /\ new = Heading <=> old = Heading
              /\ new.local = old.local /\ new.pid = old.pid /\ new.was = old.was
              /\ old.gone \/ (old.pid = p /\ old # Heading) => new.gone
<1> DEFINE new == Marked(lines, p)
<1>1. DOMAIN lines = 1 .. Len(lines) /\ Len(lines) \in Nat
  BY LenProperties
<1>2. ASSUME NEW i \in 1 .. Len(lines)
      PROVE  /\ new[i] \in {Heading} \cup Line
             /\ new[i] = Heading <=> lines[i] = Heading
             /\ new[i].local = lines[i].local /\ new[i].pid = lines[i].pid
             /\ new[i].was = lines[i].was
             /\ lines[i].gone \/ (lines[i].pid = p /\ lines[i] # Heading) => new[i].gone
  <2>1. new[i] = IF lines[i].pid = p THEN [lines[i] EXCEPT !.gone = TRUE] ELSE lines[i]
    BY <1>1 DEF Marked
  <2>2. CASE lines[i] = Heading
    <3>1. Heading.pid = "PID" /\ p # "PID" /\ Heading.gone = FALSE
      BY RoutesAssumption DEF Heading
    <3>2. new[i] = Heading
      BY <2>1, <2>2, <3>1
    <3> HIDE DEF new
    <3> QED BY <2>2, <3>1, <3>2
  <2>3. CASE lines[i] # Heading
    <3>1. lines[i] \in Line
      BY <2>3, ElementOfSeq
    <3>2. lines[i].pid # "PID"
      BY <3>1, RoutesAssumption DEF Line
    <3> HIDE DEF new
    <3>3. new[i] = lines[i] \/ new[i] = [lines[i] EXCEPT !.gone = TRUE]
      BY <2>1
    <3>4. new[i] \in Line /\ new[i].local = lines[i].local /\ new[i].pid = lines[i].pid
          /\ new[i].was = lines[i].was
      BY <3>1, <3>3 DEF Line
    <3>5. lines[i].gone \/ lines[i].pid = p => new[i].gone
      <4>1. CASE lines[i].pid = p
        BY <2>1, <3>1, <4>1 DEF Line
      <4>2. CASE lines[i].pid # p
        BY <2>1, <4>2
      <4> QED BY <4>1, <4>2
    <3>6. new[i] # Heading
      <4>1. Heading.pid = "PID"
        BY DEF Heading
      <4> QED BY <3>2, <3>4, <4>1
    <3> QED BY <2>3, <3>4, <3>5, <3>6
  <2> QED BY <2>2, <2>3
<1>3. new \in Seq({Heading} \cup Line) /\ Len(new) = Len(lines)
  <2>1. new = [i \in 1 .. Len(lines) |-> new[i]]
    BY <1>1 DEF Marked
  <2> HIDE DEF new
  <2> QED BY <1>1, <1>2, <2>1
<1> QED BY <1>2, <1>3

LEMMA EndKeeps ==
  ASSUME RoutesInv, NEW p \in Pid, ProcessEnds(p)
  PROVE  RoutesInv'
<1>1. /\ process[p] # "" /\ process' = [process EXCEPT ![p] = ""]
      /\ socket' = [a \in Local |-> socket[a] \ {p}]
      /\ fetch' = [k \in Refreshes |->
                     [fetch[k] EXCEPT !.lines = Marked(fetch[k].lines, p)]]
      /\ UNCHANGED <<version, snaps, pageVars>>
  BY DEF ProcessEnds, Marked
<1>2. MachineInv'
  BY <1>1 DEF RoutesInv, MachineInv
<1>3. ASSUME NEW k \in Refreshes
      PROVE  /\ fetch'[k] \in Fetch /\ FetchOK(fetch[k])'
             /\ fetch'[k].pc = fetch[k].pc /\ fetch'[k].at = fetch[k].at
  <2> DEFINE f == fetch[k]
             g == fetch'[k]
             new == Marked(f.lines, p)
  <2>1. f \in Fetch /\ FetchOK(f) /\ g = [f EXCEPT !.lines = new]
    BY <1>1 DEF RoutesInv, FetchInv
  <2>2. f.lines \in Seq({Heading} \cup Line)
    BY <2>1 DEF Fetch
  <2>3. /\ new \in Seq({Heading} \cup Line) /\ Len(new) = Len(f.lines)
        /\ \A i \in 1 .. Len(f.lines) :
             /\ new[i] = Heading <=> f.lines[i] = Heading
             /\ new[i].local = f.lines[i].local /\ new[i].pid = f.lines[i].pid
             /\ new[i].was = f.lines[i].was
             /\ f.lines[i].gone \/ (f.lines[i].pid = p /\ f.lines[i] # Heading) => new[i].gone
    BY <2>2, MarkedLines
  <2> HIDE DEF new, f, g
  <2>4. /\ g \in Fetch /\ g.pc = f.pc /\ g.at = f.at /\ g.rows = f.rows /\ g.taken = f.taken
        /\ g.lines = new
    BY <2>1, <2>3 DEF Fetch
  <2>5. f.lines = <<>> => g = f
    <3>1. ASSUME f.lines = <<>>
          PROVE  new = <<>>
      BY <2>2, <2>3, <3>1, EmptySeq
    <3> QED BY <2>1, <3>1 DEF Fetch
  <2>6. f.pc = "naming" => Counts(g)
    <3> SUFFICES ASSUME f.pc = "naming"
                 PROVE  Counts(g)
      OBVIOUS
    <3>1. Counts(f)
      BY <2>1 DEF FetchOK
    <3>2. Left(g) = Left(f)
      <4>1. Len(f.lines) \in Nat /\ (Len(f.lines) = 0 <=> f.lines = <<>>)
            /\ (Len(new) = 0 <=> new = <<>>)
        BY <2>2, <2>3, EmptySeq, LenProperties
      <4>2. Headed(g) <=> Headed(f)
        BY <2>3, <2>4, <4>1 DEF Headed
      <4> QED BY <2>3, <2>4, <4>2 DEF Left
    <3> QED BY <2>3, <2>4, <3>1, <3>2 DEF Counts
  <2>7. f.pc = "naming" => Honest(fetch[k])'
    <3> SUFFICES ASSUME f.pc = "naming"
                 PROVE  Honest(fetch[k])'
      OBVIOUS
    <3>1. Honest(f)
      BY <2>1 DEF FetchOK
    <3>2. ASSUME NEW i \in 1 .. Len(new), new[i] # Heading
          PROVE  new[i].gone \/ process'[new[i].pid] = new[i].was
      <4>1. f.lines[i] # Heading /\ Current(f.lines[i])
        BY <2>3, <3>1, <3>2 DEF Honest
      <4>2. f.lines[i] \in Line
        BY <2>2, <2>3, <4>1, ElementOfSeq
      <4>3. CASE f.lines[i].gone \/ f.lines[i].pid = p
        BY <2>3, <4>1, <4>3
      <4>4. CASE ~f.lines[i].gone /\ f.lines[i].pid # p
        <5>1. process'[f.lines[i].pid] = process[f.lines[i].pid]
          BY <1>1, <4>2, <4>4 DEF Line, RoutesInv, MachineInv
        <5> QED BY <2>3, <4>1, <4>4, <5>1 DEF Current
      <4> QED BY <4>3, <4>4
    <3> QED BY <2>4, <3>1, <3>2 DEF Honest, Current, g
  <2>8. FetchOK(fetch[k])'
    <3>1. f.pc \in {"idle", "sent"} => f.lines = <<>>
      BY <2>1 DEF FetchOK, Idle
    <3>2. f.pc = "answered" => Answered(g)
      BY <2>1, <2>4, <2>5 DEF FetchOK, Answered
    <3>3. snaps' = snaps
      BY <1>1
    <3> QED BY <2>1, <2>4, <2>5, <2>6, <2>7, <3>1, <3>2, <3>3 DEF FetchOK, g
  <2> QED BY <2>4, <2>8 DEF f, g
<1>4. FetchInv'
  <2>1. fetch' \in [Refreshes -> Fetch]
    BY <1>1, <1>3
  <2> QED BY <1>1, <1>3, <2>1 DEF RoutesInv, FetchInv
<1>5. snaps' = snaps /\ UNCHANGED <<version, pageVars>>
  BY <1>1
<1>6. PageInv' /\ ButtonInv'
  BY <1>3, <1>4, <1>5, PageStays
<1> QED BY <1>2, <1>4, <1>6 DEF RoutesInv

-----------------------------------------------------------------------------
(* The steps of the server.                                                 *)

\* A step that changes one refresh.
LEMMA OneFetch ==
  ASSUME RoutesInv, NEW k \in Refreshes, NEW g \in Fetch,
         fetch' = [fetch EXCEPT ![k] = g], process' = process,
         snaps' = snaps \/ snaps' = snaps + 1, FetchOK(fetch[k])'
  PROVE  FetchInv' /\ fetch'[k] = g /\ \A j \in Refreshes \ {k} : fetch'[j] = fetch[j]
<1>1. /\ fetch' \in [Refreshes -> Fetch] /\ fetch'[k] = g
      /\ \A j \in Refreshes \ {k} : fetch'[j] = fetch[j]
  BY DEF RoutesInv, FetchInv
<1>2. ASSUME NEW j \in Refreshes \ {k}
      PROVE  FetchOK(fetch[j])'
  <2>1. FetchOK(fetch[j]) /\ fetch'[j] = fetch[j] /\ fetch[j].at \in Nat
    BY <1>1 DEF RoutesInv, FetchInv, Fetch
  <2>2. fetch[j].at <= snaps'
    BY <2>1 DEF FetchOK, RoutesInv, FetchInv
  <2>3. Honest(fetch[j]) => Honest(fetch[j])'
    BY <2>1 DEF Honest, Current
  <2> QED BY <2>1, <2>2, <2>3 DEF FetchOK
<1>3. snaps' \in Nat
  BY DEF RoutesInv, FetchInv
<1> QED BY <1>1, <1>2, <1>3 DEF FetchInv

LEMMA ServerKeeps ==
  ASSUME RoutesInv, NEW k \in Refreshes, NEW g \in Fetch,
         fetch' = [fetch EXCEPT ![k] = g], UNCHANGED <<version, machineVars, pageVars>>,
         Busy(k), g.pc # "idle", FetchOK(fetch[k])',
         \/ /\ snaps' = snaps /\ g.at = fetch[k].at /\ fetch[k].pc \in {"naming", "answered"}
         \/ snaps' = snaps + 1 /\ g.at = snaps + 1
  PROVE  RoutesInv'
<1>1. FetchInv' /\ fetch'[k] = g /\ \A j \in Refreshes \ {k} : fetch'[j] = fetch[j]
  BY OneFetch DEF machineVars
<1>2. PageInv' /\ ButtonInv'
  <2>1. ASSUME NEW j \in Refreshes
        PROVE  /\ fetch'[j].pc = "idle" <=> fetch[j].pc = "idle"
               /\ \/ /\ fetch'[j].at = fetch[j].at
                     /\ fetch'[j].pc \in {"naming", "answered"} =>
                          fetch[j].pc \in {"naming", "answered"}
                  \/ fetch'[j].at > snaps
    <3>1. snaps \in Nat
      BY DEF RoutesInv, FetchInv
    <3> QED BY <1>1, <3>1 DEF Busy
  <2>2. snaps' = snaps \/ snaps' = snaps + 1
    OBVIOUS
  <2> QED BY <1>1, <2>1, <2>2, PageStays
<1>3. MachineInv'
  BY DEF RoutesInv, MachineInv, machineVars
<1> QED BY <1>1, <1>2, <1>3 DEF RoutesInv

\* netstat prints a line for every open socket, each of them once.
LEMMA NetstatKeeps ==
  ASSUME RoutesInv, NEW k \in Refreshes, netstat(k)
  PROVE  RoutesInv'
<1> DEFINE f == fetch[k]
<1>1. /\ f.pc = "sent" /\ f = [Idle EXCEPT !.pc = "sent"] /\ Busy(k)
      /\ snaps \in Nat /\ snaps' = snaps + 1
      /\ UNCHANGED <<version, machineVars, pageVars>>
  BY DEF netstat, RoutesInv, FetchInv, FetchOK, Busy
<1>2. f.rows = <<>> /\ f.lines = <<>> /\ f.taken = {} /\ f \in Fetch
  BY <1>1 DEF Idle, RoutesInv, FetchInv
<1>3. ASSUME NEW order \in SetToSeqs(Open),
             fetch' = [fetch EXCEPT ![k] =
               [@ EXCEPT !.pc = "naming", !.at = snaps + 1, !.taken = Open,
                         !.lines = <<Heading>> \o [i \in DOMAIN order |-> LineOf(order[i])]]]
      PROVE  RoutesInv'
  <2> DEFINE N == Cardinality(Open)
             tail == [i \in DOMAIN order |-> LineOf(order[i])]
             lines == <<Heading>> \o tail
             g == [f EXCEPT !.pc = "naming", !.at = snaps + 1, !.taken = Open, !.lines = lines]
  <2>1. Open \subseteq Local /\ IsFiniteSet(Open) /\ N \in Nat
    BY RoutesAssumption, FS_Subset, FS_CardinalityType DEF Open
  <2>2. /\ order \in [1 .. N -> Open]
        /\ \A i, j \in 1 .. N : i # j => order[i] # order[j]
    BY DEF SetToSeqs
  <2>3. ASSUME NEW a \in Open
        PROVE  LineOf(a) \in Line /\ LineOf(a).local = a /\ Current(LineOf(a))
    <3> DEFINE p == CHOOSE q \in socket[a] : TRUE
    <3>1. p \in socket[a] /\ p \in Pid /\ process[p] # ""
      BY <2>1 DEF Open, RoutesInv, MachineInv
    <3>2. LineOf(a) = [local |-> a, pid |-> p, was |-> process[p], gone |-> FALSE]
      BY Zenon DEF LineOf
    <3> HIDE DEF p
    <3>3. process[p] \in Name /\ a \in Local
      BY <2>1, <3>1 DEF RoutesInv, MachineInv
    <3>4. /\ LineOf(a).local = a /\ LineOf(a).pid = p /\ LineOf(a).was = process[p]
          /\ LineOf(a) \in Line
      <4>1. [local |-> a, pid |-> p, was |-> process[p], gone |-> FALSE] \in Line
        BY <3>1, <3>3 DEF Line
      <4> QED BY <3>2, <4>1
    <3> QED BY <3>4, Zenon DEF Current
  <2> HIDE DEF N
  <2>4. tail \in Seq({Heading} \cup Line) /\ Len(tail) = N
        /\ \A i \in 1 .. N : tail[i] = LineOf(order[i])
    <3>1. tail = [i \in 1 .. N |-> LineOf(order[i])]
      BY <2>2
    <3>2. \A i \in 1 .. N : LineOf(order[i]) \in {Heading} \cup Line
      BY <2>2, <2>3
    <3> HIDE DEF tail
    <3> QED BY <2>1, <3>1, <3>2
  <2> HIDE DEF tail
  <2>5. /\ lines \in Seq({Heading} \cup Line) /\ Len(lines) = N + 1 /\ lines[1] = Heading
        /\ \A i \in 2 .. N + 1 : lines[i] = LineOf(order[i - 1])
    <3>1. <<Heading>> \in Seq({Heading} \cup Line) /\ Len(<<Heading>>) = 1 /\ <<Heading>>[1] = Heading
      OBVIOUS
    <3>2. /\ lines \in Seq({Heading} \cup Line) /\ Len(lines) = 1 + N
          /\ \A i \in 1 .. 1 + N : lines[i] = IF i <= 1 THEN <<Heading>>[i] ELSE tail[i - 1]
      BY <2>4, <3>1, ConcatProperties
    <3> QED BY <2>1, <2>4, <3>1, <3>2
  <2> HIDE DEF lines
  <2>6. /\ g \in Fetch /\ g.pc = "naming" /\ g.at = snaps + 1 /\ g.taken = Open /\ g.lines = lines
        /\ g.rows = <<>>
    <3>1. snaps + 1 \in Nat /\ Open \in SUBSET Local
      BY <1>1, <2>1
    <3> HIDE DEF f
    <3> QED BY <1>2, <2>5, <3>1 DEF Fetch
  <2>7. fetch' = [fetch EXCEPT ![k] = g] /\ fetch'[k] = g
    BY <1>3, Zenon DEF g, lines, tail, RoutesInv, FetchInv
  <2> HIDE DEF g, f
  <2>8. ASSUME NEW i \in 1 .. Len(lines), lines[i] # Heading
        PROVE  /\ lines[i] \in Line /\ i \in 2 .. N + 1 /\ i - 1 \in 1 .. N
               /\ lines[i].local = order[i - 1] /\ lines[i].local \in Open /\ Current(lines[i])
    <3>1. i \in 2 .. N + 1 /\ i - 1 \in 1 .. N
      BY <2>1, <2>5, <2>8
    <3>2. lines[i] = LineOf(order[i - 1]) /\ order[i - 1] \in Open
      BY <2>2, <2>5, <3>1
    <3> QED BY <2>3, <3>1, <3>2
  <2>9. Counts(g)
    <3>1. Left(g) = N /\ Len(g.rows) = 0 /\ g.rows \in Seq(NamedRow)
      <4>1. lines # <<>>
        BY <2>1, <2>5, EmptySeq
      <4> QED BY <2>1, <2>5, <2>6, <4>1, EmptySeq DEF Left, Headed
    <3>2. \A i \in 1 .. Len(lines) : lines[i] = Heading => i = 1
      <4> SUFFICES ASSUME NEW i \in 1 .. Len(lines), i # 1
                   PROVE  lines[i] # Heading
        OBVIOUS
      <4>1. i \in 2 .. N + 1 /\ i - 1 \in 1 .. N
        BY <2>1, <2>5
      <4>2. lines[i] \in Line
        BY <2>2, <2>3, <2>5, <4>1
      <4>3. lines[i].pid \in Pid /\ Heading.pid = "PID"
        BY <4>2 DEF Line, Heading
      <4> QED BY <4>3, RoutesAssumption
    <3>3. ASSUME NEW i \in 1 .. Len(lines), lines[i] # Heading,
                 NEW j \in 1 .. Len(lines), j # i, lines[j] # Heading
          PROVE  lines[j].local # lines[i].local
      <4>1. i - 1 # j - 1
        BY <2>1, <2>5, <3>3
      <4> QED BY <2>2, <2>8, <3>3, <4>1
    <3>4. Distinct(g.rows, g.taken)
      BY <3>1 DEF Distinct
    <3>5. Len(g.rows) + Left(g) = Cardinality(g.taken)
      BY <2>1, <2>6, <3>1 DEF N
    <3> QED BY <2>1, <2>6, <2>8, <3>1, <3>2, <3>3, <3>4, <3>5 DEF Counts
  <2>10. Honest(fetch[k])'
    <3>1. \A i \in 1 .. Len(lines) :
            lines[i] # Heading => lines[i].gone \/ process'[lines[i].pid] = lines[i].was
      BY <1>1, <2>8 DEF Current, machineVars
    <3> QED BY <2>6, <2>7, <3>1, EmptySeq DEF Honest, Current
  <2>11. FetchOK(fetch[k])'
    BY <1>1, <2>6, <2>7, <2>9, <2>10 DEF FetchOK
  <2> QED BY <1>1, <2>6, <2>7, <2>11, ServerKeeps
<1>4. ASSUME fetch' = [fetch EXCEPT ![k] = [@ EXCEPT !.pc = "naming", !.at = snaps + 1]]
      PROVE  RoutesInv'
  <2> DEFINE g == [f EXCEPT !.pc = "naming", !.at = snaps + 1]
  <2>1. /\ g \in Fetch /\ g.pc = "naming" /\ g.at = snaps + 1 /\ g.taken = {} /\ g.lines = <<>>
        /\ g.rows = <<>>
    <3>1. snaps + 1 \in Nat
      BY <1>1
    <3> HIDE DEF f
    <3> QED BY <1>2, <3>1 DEF Fetch
  <2>2. fetch' = [fetch EXCEPT ![k] = g] /\ fetch'[k] = g
    BY <1>4, Zenon DEF RoutesInv, FetchInv
  <2> HIDE DEF g
  <2>3. Counts(g)
    BY <2>1, EmptySeq, FS_EmptySet DEF Counts, Distinct, Left, Headed
  <2>4. Honest(fetch[k])'
    BY <2>1, <2>2, EmptySeq DEF Honest
  <2>5. FetchOK(fetch[k])'
    BY <1>1, <2>1, <2>2, <2>3, <2>4 DEF FetchOK
  <2> QED BY <1>1, <2>1, <2>2, <2>5, ServerKeeps
<1> QED BY <1>3, <1>4 DEF netstat

\* A line is named: the heading is dropped, any other line becomes a row.
LEMMA NameLineKeeps ==
  ASSUME RoutesInv, NEW k \in Refreshes, NameLine(k)
  PROVE  RoutesInv'
<1> DEFINE f == fetch[k]
           line == Head(f.lines)
<1>1. f \in Fetch /\ FetchOK(f) /\ f.lines # <<>>
  BY DEF NameLine, RoutesInv, FetchInv
<1>2. f.pc = "naming" /\ Counts(f) /\ Honest(f) /\ Busy(k)
  <2>1. f.pc \in {"idle", "sent", "answered"} => f.lines = <<>>
    BY <1>1 DEF FetchOK, Idle, Answered
  <2>2. f.pc \in {"idle", "sent", "naming", "answered"}
    BY <1>1 DEF Fetch
  <2>3. f.pc = "naming"
    BY <1>1, <2>1, <2>2
  <2> QED BY <1>1, <2>3 DEF FetchOK, Busy
<1>3. /\ f.lines \in Seq({Heading} \cup Line) /\ f.rows \in Seq(NamedRow)
      /\ Len(f.lines) \in Nat /\ Len(f.lines) # 0 /\ Len(f.rows) \in Nat
      /\ line = f.lines[1] /\ line \in {Heading} \cup Line
      /\ Tail(f.lines) \in Seq({Heading} \cup Line) /\ Len(Tail(f.lines)) = Len(f.lines) - 1
      /\ \A i \in 1 .. Len(f.lines) - 1 : Tail(f.lines)[i] = f.lines[i + 1]
  <2>1. f.lines \in Seq({Heading} \cup Line) /\ f.rows \in Seq(NamedRow)
    BY <1>1, <1>2 DEF Fetch, Counts
  <2> HIDE DEF f
  <2>2. /\ f.lines[1] \in {Heading} \cup Line /\ Tail(f.lines) \in Seq({Heading} \cup Line)
        /\ Len(Tail(f.lines)) = Len(f.lines) - 1
        /\ \A i \in 1 .. Len(f.lines) - 1 : Tail(f.lines)[i] = f.lines[i + 1]
    BY <1>1, <2>1, HeadTailProperties
  <2>3. Len(f.lines) \in Nat /\ Len(f.lines) # 0 /\ Len(f.rows) \in Nat /\ line = f.lines[1]
    BY <1>1, <2>1, LenProperties, EmptySeq
  <2> QED BY <2>1, <2>2, <2>3
<1>9. /\ Len(f.rows) + Left(f) = Cardinality(f.taken) /\ Distinct(f.rows, f.taken)
      /\ IsFiniteSet(f.taken)
      /\ \A i \in 1 .. Len(f.lines) : f.lines[i] = Heading => i = 1 /\ f.rows = <<>>
  BY <1>2 DEF Counts
<1>10. \A i \in 1 .. Len(f.lines) : f.lines[i] # Heading =>
         /\ f.lines[i].local \in f.taken /\ Current(f.lines[i])
         /\ \A j \in 1 .. Len(f.lines) :
              j # i /\ f.lines[j] # Heading => f.lines[j].local # f.lines[i].local
         /\ \A j \in 1 .. Len(f.rows) : f.rows[j].local # f.lines[i].local
  BY <1>2 DEF Counts, Honest
\* What is left are lines that were there, none of them a heading.
<1> DEFINE rest == Tail(f.lines)
<1> HIDE DEF f
<1>4. \A i \in 1 .. Len(rest) :
        i + 1 \in 1 .. Len(f.lines) /\ rest[i] = f.lines[i + 1] /\ rest[i] # Heading
  BY <1>3, <1>9
<1> HIDE DEF line, rest
<1>5. rest \in Seq({Heading} \cup Line) /\ Len(rest) = Len(f.lines) - 1
  BY <1>3 DEF rest
<1>6. ASSUME NEW g \in Fetch, g.pc = "naming", g.at = f.at, g.lines = rest, g.taken = f.taken
      PROVE  /\ Left(g) = Len(f.lines) - 1
             /\ \A i \in 1 .. Len(g.lines) : g.lines[i] # Heading
             /\ \A i \in 1 .. Len(g.lines) : Current(g.lines[i])
             /\ \A i \in 1 .. Len(g.lines) :
                  /\ g.lines[i].local \in g.taken
                  /\ \A j \in 1 .. Len(g.lines) : j # i => g.lines[j].local # g.lines[i].local
                  /\ \A j \in 1 .. Len(f.rows) : f.rows[j].local # g.lines[i].local
  <2>1. ~Headed(g)
    BY <1>3, <1>4, <1>5, <1>6, EmptySeq DEF Headed
  <2>2. Left(g) = Len(f.lines) - 1
    BY <1>5, <1>6, <2>1 DEF Left
  <2>3. ASSUME NEW i \in 1 .. Len(rest), NEW j \in 1 .. Len(rest), j # i
        PROVE  rest[j].local # rest[i].local
    <3>1. i + 1 # j + 1
      BY <1>3, <1>5, <2>3
    <3> QED BY <1>4, <1>10, <2>3, <3>1
  <2>4. \A i \in 1 .. Len(rest) :
          /\ rest[i] # Heading /\ Current(rest[i]) /\ rest[i].local \in f.taken
          /\ \A j \in 1 .. Len(f.rows) : f.rows[j].local # rest[i].local
    BY <1>4, <1>10
  <2> QED BY <1>6, <2>2, <2>3, <2>4
<1>7. CASE line = Heading
  <2> DEFINE g == [f EXCEPT !.lines = rest]
  <2>1. /\ g \in Fetch /\ g.pc = "naming" /\ g.at = f.at /\ g.lines = rest /\ g.taken = f.taken
        /\ g.rows = f.rows
    <3> QED BY <1>1, <1>2, <1>5 DEF Fetch
  <2>2. fetch' = [fetch EXCEPT ![k] = g] /\ UNCHANGED <<version, machineVars, snaps, pageVars>>
    <3>1. ~parseTCPLine(line)
      BY <1>7 DEF parseTCPLine, Heading
    <3>2. /\ ~parseTCPLine(line) => fetch' = [fetch EXCEPT ![k] = g]
          /\ UNCHANGED <<version, machineVars, snaps, pageVars>>
      BY Zenon DEF NameLine, line, rest, f
    <3> QED BY <3>1, <3>2
  <2>3. fetch'[k] = g
    BY <2>2 DEF RoutesInv, FetchInv
  <2> HIDE DEF g
  <2>4. f.rows = <<>> /\ Len(g.rows) = 0 /\ Left(f) = Len(f.lines) - 1
    <3>1. f.rows = <<>> /\ Headed(f)
      <4>1. 1 \in 1 .. Len(f.lines) /\ f.lines[1] = Heading
        BY <1>3, <1>7
      <4> QED BY <1>1, <1>9, <4>1 DEF Headed
    <3> QED BY <2>1, <3>1, EmptySeq DEF Left
  <2>5. Counts(g)
    <3>1. Distinct(g.rows, g.taken)
      BY <2>4 DEF Distinct
    <3> QED BY <1>3, <1>6, <1>9, <2>1, <2>4, <3>1 DEF Counts
  <2>6. Honest(fetch[k])'
    <3>1. \A i \in 1 .. Len(rest) : rest[i].gone \/ process'[rest[i].pid] = rest[i].was
      BY <1>6, <2>1, <2>2 DEF Current, machineVars
    <3> QED BY <2>1, <2>3, <2>4, <3>1 DEF Honest, Current
  <2>7. FetchOK(fetch[k])'
    BY <1>1, <2>1, <2>2, <2>3, <2>5, <2>6 DEF FetchOK
  <2> QED BY <1>2, <2>1, <2>2, <2>7, ServerKeeps DEF f
<1>8. CASE line # Heading
  <2>1. line \in Line /\ Current(line) /\ line.pid # "PID" /\ ~Headed(f)
    <3>1. line \in Line
      BY <1>3, <1>8
    <3>2. line.pid # "PID"
      BY <3>1, RoutesAssumption DEF Line
    <3>3. 1 \in 1 .. Len(f.lines)
      BY <1>3
    <3> QED BY <1>3, <1>8, <1>10, <3>1, <3>2, <3>3 DEF Headed
  <2>2. PICK n \in getProcessName(line.pid) :
          /\ fetch' = [fetch EXCEPT ![k] =
                        [[f EXCEPT !.lines = rest] EXCEPT !.rows = Append(@, RowOf(line, n))]]
          /\ UNCHANGED <<version, machineVars, snaps, pageVars>>
    <3>1. parseTCPLine(line)
      BY <2>1 DEF parseTCPLine
    <3>2. \E n \in getProcessName(line.pid) :
            fetch' = [fetch EXCEPT ![k] =
                        [[f EXCEPT !.lines = rest] EXCEPT !.rows = Append(@, RowOf(line, n))]]
      BY <3>1, Zenon DEF NameLine, line, rest, f
    <3>3. UNCHANGED <<version, machineVars, snaps, pageVars>>
      BY Zenon DEF NameLine
    <3> QED BY <3>2, <3>3, Zenon
  <2> DEFINE row == RowOf(line, n)
             rows == Append(f.rows, row)
             g == [[f EXCEPT !.lines = rest] EXCEPT !.rows = Append(@, row)]
  \* The name is the first word of that of the process with this pid, or none.
  <2>3. /\ row \in NamedRow /\ row.local = line.local
        /\ row.name \in {FirstWord[row.was], "Unknown"} \/ row.gone
    <3>1. n = "Unknown" \/ (n = FirstWord[process[line.pid]] /\ process[line.pid] # "")
      BY <2>2, Zenon DEF getProcessName, getProcessNameDesktop, getProcessNameBasic, NamesNow
    <3>2. n \in Words \cup {"Unknown"}
      <4>1. line.pid \in Pid /\ process[line.pid] \in Name \cup {""}
        BY <2>1 DEF Line, RoutesInv, MachineInv
      <4> QED BY <3>1, <4>1 DEF Words
    <3>3. n = "Unknown" \/ n = FirstWord[line.was] \/ line.gone
      BY <2>1, <3>1 DEF Current
    <3> QED BY <2>1, <3>2, <3>3 DEF RowOf, NamedRow, Line
  <2> HIDE DEF row
  <2>4. /\ rows \in Seq(NamedRow) /\ Len(rows) = Len(f.rows) + 1 /\ rows[Len(f.rows) + 1] = row
        /\ \A i \in 1 .. Len(f.rows) : rows[i] = f.rows[i]
    BY <1>3, <2>3, AppendProperties
  <2>5. \A i \in 1 .. Len(rows) : \/ i = Len(f.rows) + 1 /\ rows[i] = row
                                  \/ i \in 1 .. Len(f.rows) /\ rows[i] = f.rows[i]
    BY <1>3, <2>4
  <2> HIDE DEF rows
  <2>6. /\ g \in Fetch /\ g.pc = "naming" /\ g.at = f.at /\ g.lines = rest /\ g.taken = f.taken
        /\ g.rows = rows
    <3>1. rows \in Seq(NamedRow \cup Row)
      BY <2>4
    <3>2. g = [[f EXCEPT !.lines = rest] EXCEPT !.rows = rows]
      BY <1>1 DEF Fetch, rows
    <3> HIDE DEF g
    <3> QED BY <1>1, <1>2, <1>5, <3>1, <3>2 DEF Fetch
  <2>7. fetch' = [fetch EXCEPT ![k] = g]
    BY <2>2, Zenon DEF row
  <2>8. fetch'[k] = g
    BY <2>7 DEF RoutesInv, FetchInv
  <2> HIDE DEF g
  <2>9. Counts(g)
    <3>1. /\ line.local \in f.taken
          /\ \A j \in 1 .. Len(f.rows) : f.rows[j].local # line.local
          /\ \A j \in 1 .. Len(rest) : rest[j].local # line.local
      <4>1. 1 \in 1 .. Len(f.lines)
        BY <1>3
      <4>2. \A j \in 1 .. Len(rest) : j + 1 # 1
        BY <1>3, <1>5
      <4> QED BY <1>3, <1>4, <1>8, <1>10, <4>1, <4>2
    <3>2. Distinct(rows, g.taken)
      <4>1. \A i \in 1 .. Len(rows) : rows[i].local \in g.taken
        BY <1>9, <2>3, <2>5, <2>6, <3>1 DEF Distinct
      <4>2. ASSUME NEW i \in 1 .. Len(rows), NEW j \in 1 .. Len(rows), i # j
            PROVE  rows[i].local # rows[j].local
        BY <1>9, <2>3, <2>5, <3>1, <4>2 DEF Distinct
      <4> QED BY <4>1, <4>2 DEF Distinct
    <3>3. Len(rows) + Left(g) = Cardinality(g.taken)
      <4>1. Left(f) = Len(f.lines) /\ Left(g) = Len(f.lines) - 1
        BY <1>6, <2>1, <2>6 DEF Left
      <4>2. Len(f.rows) + Len(f.lines) = Cardinality(g.taken)
        BY <1>9, <2>6, <4>1
      <4>3. Len(rows) = Len(f.rows) + 1 /\ Len(f.rows) \in Nat /\ Len(f.lines) \in Nat
        BY <1>3, <2>4
      <4>4. \A a, b \in Nat : (a + 1) + (b - 1) = a + b
        OBVIOUS
      <4> QED BY <4>1, <4>2, <4>3, <4>4
    <3>4. \A i \in 1 .. Len(rest) : \A j \in 1 .. Len(rows) : rows[j].local # rest[i].local
      <4> SUFFICES ASSUME NEW i \in 1 .. Len(rest), NEW j \in 1 .. Len(rows)
                   PROVE  rows[j].local # rest[i].local
        OBVIOUS
      <4>1. rest[i].local # line.local
        BY <3>1
      <4>2. \A h \in 1 .. Len(f.rows) : f.rows[h].local # rest[i].local
        BY <1>6, <2>6
      <4> QED BY <2>3, <2>5, <4>1, <4>2
    <3> QED BY <1>6, <1>9, <2>4, <2>6, <3>2, <3>3, <3>4 DEF Counts
  <2>10. Honest(fetch[k])'
    <3>1. \A i \in 1 .. Len(rest) : rest[i].gone \/ process'[rest[i].pid] = rest[i].was
      BY <1>6, <2>2, <2>6 DEF Current, machineVars
    <3>2. \A i \in 1 .. Len(rows) : rows[i].name \in {FirstWord[rows[i].was], "Unknown"} \/ rows[i].gone
      BY <1>2, <2>3, <2>5 DEF Honest
    <3> QED BY <2>6, <2>8, <3>1, <3>2 DEF Honest, Current
  <2>11. FetchOK(fetch[k])'
    BY <1>1, <2>2, <2>6, <2>8, <2>9, <2>10 DEF FetchOK
  <2> QED BY <1>2, <2>2, <2>6, <2>7, <2>11, ServerKeeps DEF f
<1> QED BY <1>7, <1>8


\* The answer: the rows, in the desktop version sorted, without their history.
LEMMA AnswerKeeps ==
  ASSUME RoutesInv, NEW k \in Refreshes, handleConnections(k)
  PROVE  RoutesInv'
<1> DEFINE f == fetch[k]
<1>1. f \in Fetch /\ f.pc = "naming" /\ f.lines = <<>> /\ FetchOK(f) /\ Busy(k)
  BY DEF handleConnections, RoutesInv, FetchInv, Busy
<1>2. /\ f.rows \in Seq(NamedRow) /\ IsFiniteSet(f.taken)
      /\ Len(f.rows) = Cardinality(f.taken) /\ Distinct(f.rows, f.taken)
      /\ Len(f.rows) \in Nat /\ DOMAIN f.rows = 1 .. Len(f.rows)
  <2>1. Counts(f)
    BY <1>1 DEF FetchOK
  <2>2. f.rows \in Seq(NamedRow)
    BY <2>1 DEF Counts
  <2>3. Left(f) = 0
    BY <1>1, EmptySeq DEF Left, Headed
  <2>4. Len(f.rows) \in Nat /\ DOMAIN f.rows = 1 .. Len(f.rows)
    BY <2>2, LenProperties
  <2>5. Len(f.rows) + 0 = Cardinality(f.taken)
    BY <2>1, <2>3 DEF Counts
  <2> QED BY <2>1, <2>2, <2>4, <2>5 DEF Counts
<1> DEFINE D == 1 .. Len(f.rows)
<1>3. PICK rows \in Arranged(f.rows) :
        fetch' = [fetch EXCEPT ![k] = [@ EXCEPT !.pc = "answered", !.rows = Sent(rows)]]
  BY Zenon DEF handleConnections
<1>4. UNCHANGED <<version, machineVars, snaps, pageVars>>
  BY Zenon DEF handleConnections
<1>5. PICK p \in [D -> D] : /\ \A i, j \in D : i # j => p[i] # p[j]
                           /\ rows = [i \in D |-> f.rows[p[i]]]
  <2>1. CASE version = "desktop"
    <3>1. PICK p \in Bijection(D, D) : rows = [i \in D |-> f.rows[p[i]]]
      BY <1>2, <1>3, <2>1 DEF Arranged
    <3>2. p \in [D -> D] /\ \A i, j \in D : i # j => p[i] # p[j]
      BY <3>1 DEF Bijection, Injection, IsInjective
    <3> QED BY <3>1, <3>2
  <2>2. CASE version # "desktop"
    <3> DEFINE p == [i \in D |-> i]
    <3>1. rows = f.rows
      BY <1>3, <2>2 DEF Arranged
    <3>2. f.rows = [i \in D |-> f.rows[i]]
      BY <1>2
    <3>3. rows = [i \in D |-> f.rows[p[i]]]
      BY <3>1, <3>2
    <3>4. p \in [D -> D] /\ \A i, j \in D : i # j => p[i] # p[j]
      OBVIOUS
    <3> QED BY <3>3, <3>4
  <2> QED BY <2>1, <2>2
<1> DEFINE sent == Sent(rows)
           g == [f EXCEPT !.pc = "answered", !.rows = sent]
<1>6. /\ sent \in Seq(Row) /\ Len(sent) = Len(f.rows)
      /\ \A i \in D : sent[i].local = f.rows[p[i]].local
  <2>1. sent = [i \in D |-> [local |-> f.rows[p[i]].local, pid |-> f.rows[p[i]].pid,
                            name |-> f.rows[p[i]].name]]
    <3>1. DOMAIN rows = D /\ \A i \in D : rows[i] = f.rows[p[i]]
      BY <1>5
    <3> QED BY <3>1 DEF Sent
  <2>2. \A i \in D : f.rows[p[i]] \in NamedRow
    <3>1. \A i \in D : p[i] \in 1 .. Len(f.rows)
      BY <1>5
    <3> QED BY <1>2, <3>1, ElementOfSeq
  <2> HIDE DEF sent, f
  <2>3. \A i \in D : sent[i] \in Row /\ sent[i].local = f.rows[p[i]].local
    BY <2>1, <2>2 DEF NamedRow, Row
  <2>4. sent \in Seq(Row) /\ Len(sent) = Len(f.rows)
    <3>1. sent = [i \in 1 .. Len(f.rows) |-> sent[i]]
      BY <2>1
    <3> QED BY <1>2, <2>3, <3>1
  <2> QED BY <2>3, <2>4
<1> HIDE DEF sent
<1>7. /\ g \in Fetch /\ g.pc = "answered" /\ g.rows = sent /\ g.lines = <<>>
      /\ g.at = f.at /\ g.taken = f.taken
  <2>1. sent \in Seq(NamedRow \cup Row)
    BY <1>6
  <2> HIDE DEF f
  <2> QED BY <1>1, <2>1 DEF Fetch
<1>8. fetch' = [fetch EXCEPT ![k] = g]
  BY <1>3, Zenon DEF sent
<1>9. fetch'[k] = g
  BY <1>8 DEF RoutesInv, FetchInv
<1>10. Answered(g)
  <2>1. Distinct(sent, f.taken)
    <3>1. ASSUME NEW i \in D
          PROVE  sent[i].local \in f.taken /\ p[i] \in D
      BY <1>2, <1>5, <1>6 DEF Distinct
    <3>2. ASSUME NEW i \in D, NEW j \in D, i # j
          PROVE  sent[i].local # sent[j].local
      <4>1. p[i] \in D /\ p[j] \in D /\ p[i] # p[j]
        BY <1>5, <3>1, <3>2
      <4>2. f.rows[p[i]].local # f.rows[p[j]].local
        BY <1>2, <4>1 DEF Distinct
      <4> QED BY <1>6, <4>2
    <3> QED BY <1>6, <3>1, <3>2 DEF Distinct
  <2> QED BY <1>2, <1>6, <1>7, <2>1 DEF Answered
<1> HIDE DEF g
<1>11. FetchOK(fetch[k])'
  <2>1. snaps' = snaps /\ f.at <= snaps
    BY <1>1, <1>4 DEF FetchOK
  <2> QED BY <1>7, <1>9, <1>10, <2>1 DEF FetchOK
<1> QED BY <1>1, <1>4, <1>7, <1>8, <1>11, ServerKeeps

-----------------------------------------------------------------------------
(* The steps of the page.                                                   *)

\* A list has itself as the rows in which the empty text is found.
LEMMA AllRows ==
  ASSUME NEW rows \in Seq(Row)
  PROVE  HasRowsWith("", rows, rows)
<1> DEFINE at == [i \in DOMAIN rows |-> i]
<1>1. DOMAIN rows = 1 .. Len(rows) /\ Len(rows) \in Nat
  BY LenProperties
<1>2. /\ at \in [DOMAIN rows -> {i \in DOMAIN rows : "" \in {"", rows[i].name}}]
      /\ \A i \in DOMAIN rows : at[i] = i
  OBVIOUS
<1> HIDE DEF at
<1> QED BY <1>1, <1>2 DEF HasRowsWith

LEMMA FilteredRows ==
  ASSUME NEW rows \in Seq(Row), NEW text
  PROVE  Filter(rows, text) \in Seq(Row) /\ HasRowsWith(text, Filter(rows, text), rows)
<1> DEFINE s == Filter(rows, text)
<1>1. s \in Seq(Row) /\ Found(s, rows, text, Len(rows))
  BY FilterFinds
<1>2. DOMAIN rows = 1 .. Len(rows) /\ DOMAIN s = 1 .. Len(s)
  BY <1>1, LenProperties
<1> HIDE DEF s
<1>3. PICK at \in [1 .. Len(s) -> 1 .. Len(rows)] :
        /\ \A j \in 1 .. Len(s) : Hit(rows, text, at[j]) /\ s[j] = rows[at[j]]
        /\ \A h \in 1 .. Len(rows) : Hit(rows, text, h) => \E j \in 1 .. Len(s) : at[j] = h
        /\ \A i, j \in 1 .. Len(s) : i < j => at[i] < at[j]
  BY <1>1 DEF Found
<1>4. at \in [DOMAIN s -> {i \in DOMAIN rows : text \in {"", rows[i].name}}]
  BY <1>2, <1>3 DEF Hit
<1>5. \A h \in {i \in DOMAIN rows : text \in {"", rows[i].name}} : \E j \in DOMAIN s : at[j] = h
  BY <1>2, <1>3 DEF Hit
<1>6. HasRowsWith(text, s, rows)
  BY <1>2, <1>3, <1>4, <1>5 DEF HasRowsWith
<1> QED BY <1>1, <1>6 DEF s

LEMMA FilterKeeps ==
  ASSUME RoutesInv, NEW text \in Texts, filterConnections(text)
  PROVE  RoutesInv'
<1> DEFINE s == Filter(allConnections, text)
<1>1. /\ filterText' = text /\ shown' = s /\ connCount' = Counted(Len(s))
      /\ UNCHANGED <<version, machineVars, fetch, snaps, loaded, clicks,
                     allConnections, status, disabled, shownFrom>>
  BY DEF filterConnections, displayConnections, Matches
<1>2. s \in Seq(Row) /\ HasRowsWith(text, s, allConnections)
  BY FilteredRows DEF RoutesInv, PageInv
<1> HIDE DEF s
<1>3. PageInv'
  <2>1. version = "desktop" => connCount' = Len(s)
    BY <1>1 DEF Counted
  <2>2. HasRowsWith(filterText', shown', allConnections')
    BY <1>1, <1>2
  <2> QED BY <1>1, <1>2, <2>1, <2>2 DEF RoutesInv, PageInv
<1>4. MachineInv' /\ FetchInv'
  <2>1. fetch' = fetch /\ snaps' = snaps /\ UNCHANGED machineVars
    BY <1>1
  <2> QED BY <2>1 DEF RoutesInv, MachineInv, FetchInv, FetchOK, Honest, Current, machineVars
<1>5. ButtonInv'
  BY <1>1 DEF RoutesInv, ButtonInv, Busy
<1> QED BY <1>3, <1>4, <1>5 DEF RoutesInv

\* A refresh is sent by the load, or by the button when it is enabled.
LEMMA SendKeeps ==
  ASSUME RoutesInv, PageLoads \/ ClickRefresh
  PROVE  RoutesInv'
<1> DEFINE g == [Idle EXCEPT !.pc = "sent"]
<1>1. PICK k \in Refreshes :
        /\ Send(k)
        /\ \/ k = 0 /\ ~loaded /\ loaded' = TRUE /\ clicks' = clicks
           \/ loaded /\ loaded' = loaded /\ ~disabled /\ k = clicks + 1 /\ clicks' = k
  <2>1. CASE PageLoads
    BY <2>1, RefreshNumbers DEF PageLoads
  <2>2. CASE ClickRefresh
    <3>1. clicks + 1 \in Refreshes
      BY <2>2, RefreshNumbers DEF ClickRefresh, RoutesInv, ButtonInv, Refreshes
    <3> QED BY <2>2, <3>1 DEF ClickRefresh
  <2> QED BY <2>1, <2>2
<1>2. /\ fetch' = [fetch EXCEPT ![k] = g] /\ status' = <<"loading">> /\ disabled' = Disables(k)
      /\ UNCHANGED <<version, machineVars, snaps, allConnections, shown, connCount,
                     filterText, shownFrom>>
  BY <1>1 DEF Send
<1>3. g \in Fetch /\ g.pc = "sent" /\ g.at = 0
  <2>1. <<>> \in Seq({Heading} \cup Line) /\ <<>> \in Seq(NamedRow \cup Row)
    BY EmptySeq
  <2> QED BY <2>1 DEF Idle, Fetch
<1> HIDE DEF g
<1>4. fetch'[k] = g
  BY <1>2 DEF RoutesInv, FetchInv
<1>5. FetchOK(fetch[k])'
  <2>1. snaps' = snaps /\ 0 <= snaps
    BY <1>2 DEF RoutesInv, FetchInv
  <2> QED BY <1>3, <1>4, <2>1 DEF FetchOK, g
<1>6. FetchInv' /\ \A j \in Refreshes \ {k} : fetch'[j] = fetch[j]
  BY <1>2, <1>3, <1>5, OneFetch DEF machineVars
<1>7. MachineInv'
  BY <1>2 DEF RoutesInv, MachineInv, machineVars
<1>8. PageInv'
  BY <1>2 DEF RoutesInv, PageInv
\* No other refresh of the button is under way, if this is one.
<1>9. ButtonInv'
  <2>1. /\ Busy(k)' /\ \A j \in Refreshes \ {k} : Busy(j)' <=> Busy(j)
        /\ k # 0 => \A j \in Refreshes \ {0} : ~Busy(j)
    BY <1>1, <1>3, <1>4, <1>6 DEF Busy, RoutesInv, ButtonInv
  <2>2. disabled' <=> k # 0 \/ disabled
    BY <1>2 DEF Disables
  <2>3. clicks' \in 0 .. MaxClicks /\ clicks <= clicks' /\ (k # 0 => clicks' = k)
    BY <1>1, RefreshNumbers DEF RoutesInv, ButtonInv, Refreshes
  <2>4. disabled' \in BOOLEAN /\ loaded' \in BOOLEAN /\ loaded'
    <3>1. loaded \in BOOLEAN /\ disabled \in BOOLEAN
      BY Zenon DEF RoutesInv, ButtonInv
    <3>2. disabled' \in BOOLEAN
      BY <1>2, <3>1, Zenon DEF Disables
    <3>4. loaded' = TRUE \/ (loaded /\ loaded' = loaded)
      BY <1>1, Zenon
    <3>3. loaded'
      BY <3>4
    <3> QED BY <3>1, <3>2, <3>3, <3>4, Zenon
  <2> HIDE DEF Busy
  <2>5. disabled' <=> \E j \in Refreshes \ {0} : Busy(j)'
    BY <2>1, <2>2 DEF RoutesInv, ButtonInv
  <2>6. ASSUME NEW i \in Refreshes \ {0}, Busy(i)'
        PROVE  i <= clicks' /\ \A j \in Refreshes \ {0} : Busy(j)' => j = i
    <3>1. CASE k = 0
      BY <2>1, <2>3, <2>6, <3>1, RefreshNumbers DEF RoutesInv, ButtonInv
    <3>2. CASE k # 0
      BY <2>1, <2>3, <2>6, <3>2, RefreshNumbers
    <3> QED BY <3>1, <3>2
  <2>7. shownFrom.refresh # 0 =>
          \A j \in Refreshes \ {0} :
            fetch'[j].pc \in {"naming", "answered"} => shownFrom.at <= fetch'[j].at
    BY <1>3, <1>4, <1>6 DEF RoutesInv, ButtonInv
  <2>8. shownFrom' = shownFrom /\ snaps' = snaps /\ status' = <<"loading">>
    BY <1>2
  <2> QED BY <2>1, <2>3, <2>4, <2>5, <2>6, <2>7, <2>8 DEF RoutesInv, ButtonInv
<1> QED BY <1>6, <1>7, <1>8, <1>9 DEF RoutesInv

\* A refresh comes to its end, with an answer or without: k is idle again.
LEMMA ReturnKeeps ==
  ASSUME RoutesInv, NEW k \in Refreshes, Busy(k), Returns(k),
         UNCHANGED <<version, machineVars, snaps, loaded, clicks>>
  PROVE  /\ FetchInv' /\ MachineInv'
         /\ fetch'[k] = Idle /\ \A j \in Refreshes \ {k} : fetch'[j] = fetch[j]
         /\ disabled' \in BOOLEAN
         /\ disabled' <=> \E j \in Refreshes \ {0} : Busy(j)'
         /\ k # 0 => \A j \in Refreshes \ {0} : ~Busy(j)'
         /\ \A j \in Refreshes : Busy(j)' => Busy(j)
<1>1. fetch' = [fetch EXCEPT ![k] = Idle] /\ (disabled' <=> k = 0 /\ disabled)
      /\ disabled' \in BOOLEAN
  BY Zenon DEF Returns, StillDisabled
<1>2. Idle \in Fetch /\ Idle.pc = "idle" /\ Idle.at = 0
  BY DEF Idle, Fetch
<1>3. fetch'[k] = Idle
  BY <1>1 DEF RoutesInv, FetchInv
<1>4. FetchOK(fetch[k])'
  <2>1. snaps' = snaps /\ 0 <= snaps
    BY DEF RoutesInv, FetchInv
  <2> QED BY <1>2, <1>3, <2>1 DEF FetchOK
<1>5. FetchInv' /\ \A j \in Refreshes \ {k} : fetch'[j] = fetch[j]
  BY <1>1, <1>2, <1>4, OneFetch DEF machineVars
<1>6. MachineInv'
  BY DEF RoutesInv, MachineInv, machineVars
<1>7. ~Busy(k)' /\ \A j \in Refreshes \ {k} : Busy(j)' <=> Busy(j)
  BY <1>2, <1>3, <1>5 DEF Busy
<1> HIDE DEF Busy
<1>8. k # 0 => \A j \in Refreshes \ {0} : ~Busy(j)'
  BY <1>7 DEF RoutesInv, ButtonInv
<1>9. disabled' <=> \E j \in Refreshes \ {0} : Busy(j)'
  BY <1>1, <1>7, <1>8 DEF RoutesInv, ButtonInv
<1> QED BY <1>1, <1>3, <1>5, <1>6, <1>7, <1>8, <1>9

\* Then the parts of the page about the button are right.
LEMMA ReturnButton ==
  ASSUME RoutesInv, NEW k \in Refreshes, Busy(k), Returns(k),
         UNCHANGED <<version, machineVars, snaps, loaded, clicks>>,
         status'[1] # "loading",
         \/ shownFrom' = shownFrom
         \/ shownFrom' = [refresh |-> k, at |-> fetch[k].at]
  PROVE  ButtonInv'
<1>1. /\ FetchInv' /\ fetch'[k] = Idle /\ \A j \in Refreshes \ {k} : fetch'[j] = fetch[j]
      /\ disabled' \in BOOLEAN
      /\ disabled' <=> \E j \in Refreshes \ {0} : Busy(j)'
      /\ k # 0 => \A j \in Refreshes \ {0} : ~Busy(j)'
      /\ \A j \in Refreshes : Busy(j)' => Busy(j)
  BY ReturnKeeps
<1>2. shownFrom'.refresh \in Refreshes /\ shownFrom'.at \in 0 .. snaps'
  <2>1. fetch[k].at \in 0 .. snaps
    BY DEF RoutesInv, FetchInv, FetchOK, Fetch
  <2> QED BY <2>1 DEF RoutesInv, ButtonInv
<1>3. ASSUME shownFrom'.refresh # 0, NEW j \in Refreshes \ {0},
             fetch'[j].pc \in {"naming", "answered"}
      PROVE  shownFrom'.at <= fetch'[j].at
  <2>1. Busy(j)' /\ k = 0
    BY <1>1, <1>3 DEF Busy
  <2>2. shownFrom' = shownFrom /\ fetch'[j] = fetch[j]
    BY <1>1, <1>3, <2>1
  <2> QED BY <1>3, <2>2 DEF RoutesInv, ButtonInv
<1>4. UNCHANGED <<loaded, clicks>> /\ loaded' \in BOOLEAN
  BY Zenon DEF RoutesInv, ButtonInv
<1> HIDE DEF Busy
<1>5. \A i \in Refreshes \ {0} : Busy(i)' =>
        i <= clicks' /\ \A j \in Refreshes \ {0} : Busy(j)' => j = i
  BY <1>1, <1>4 DEF RoutesInv, ButtonInv
<1>6. ~loaded' => clicks' = 0 /\ ~Busy(0)'
  BY <1>1, <1>4, RefreshNumbers DEF RoutesInv, ButtonInv
<1>7. clicks' \in 0 .. MaxClicks
  BY <1>4 DEF RoutesInv, ButtonInv
<1> QED BY <1>1, <1>2, <1>3, <1>4, <1>5, <1>6, <1>7 DEF ButtonInv

LEMMA AnsweredKeeps ==
  ASSUME RoutesInv, NEW k \in Refreshes, refreshConnections(k)
  PROVE  /\ RoutesInv'
         /\ shownFrom'.at < shownFrom.at => 0 \in {shownFrom'.refresh, shownFrom.refresh}
<1> DEFINE rows == fetch[k].rows
<1>1. /\ fetch[k].pc = "answered" /\ Busy(k) /\ Returns(k)
      /\ allConnections' = rows /\ shown' = rows
      /\ status' = <<"found", Len(rows)>> /\ connCount' = Counted(Len(rows))
      /\ shownFrom' = [refresh |-> k, at |-> fetch[k].at]
      /\ UNCHANGED <<version, machineVars, snaps, loaded, clicks, filterText>>
  BY DEF refreshConnections, displayConnections, Busy
<1>2. rows \in Seq(Row)
  BY <1>1 DEF RoutesInv, FetchInv, FetchOK, Answered
<1> HIDE DEF rows
<1>3. FetchInv' /\ MachineInv'
  BY <1>1, ReturnKeeps
<1>4. ButtonInv'
  <2>1. status'[1] # "loading"
    BY <1>1
  <2> QED BY <1>1, <2>1, ReturnButton
<1>5. PageInv'
  <2>1. version = "desktop" => connCount' = Len(rows)
    BY <1>1 DEF Counted
  <2>2. HasRowsWith("", shown', allConnections')
    BY <1>1, <1>2, AllRows
  <2> QED BY <1>1, <1>2, <2>1, <2>2 DEF RoutesInv, PageInv
\* What a refresh of the button brings is not older than what another brought.
<1>6. ASSUME shownFrom'.at < shownFrom.at
      PROVE  0 \in {shownFrom'.refresh, shownFrom.refresh}
  <2> SUFFICES ASSUME k # 0, shownFrom.refresh # 0
               PROVE  FALSE
    BY <1>1
  <2>1. shownFrom.at <= fetch[k].at /\ shownFrom.at \in Nat /\ fetch[k].at \in Nat
    BY <1>1 DEF RoutesInv, ButtonInv, FetchInv, Fetch
  <2> QED BY <1>1, <1>6, <2>1
<1> QED BY <1>3, <1>4, <1>5, <1>6 DEF RoutesInv

LEMMA FailsKeeps ==
  ASSUME RoutesInv, NEW k \in Refreshes, RefreshFails(k)
  PROVE  RoutesInv'
<1>1. /\ Busy(k) /\ Returns(k) /\ status' = <<"error">>
      /\ UNCHANGED <<version, machineVars, snaps, loaded, clicks, allConnections, shown,
                     connCount, filterText, shownFrom>>
  BY DEF RefreshFails, Busy
<1>2. FetchInv' /\ MachineInv'
  BY <1>1, ReturnKeeps
<1>3. ButtonInv'
  <2>1. status'[1] # "loading"
    BY <1>1
  <2> QED BY <1>1, <2>1, ReturnButton
<1>4. PageInv'
  BY <1>1 DEF RoutesInv, PageInv
<1> QED BY <1>2, <1>3, <1>4 DEF RoutesInv

-----------------------------------------------------------------------------
(* The theorems.                                                            *)

LEMMA InitInv == Init => RoutesInv
<1> SUFFICES ASSUME Init PROVE RoutesInv
  OBVIOUS
<1>1. MachineInv
  BY DEF Init, MachineInv
<1>2. Idle \in Fetch /\ Idle.pc = "idle" /\ Idle.at = 0
  BY DEF Idle, Fetch
<1>3. FetchInv
  <2>1. snaps = 0 /\ fetch = [k \in Refreshes |-> Idle]
    BY DEF Init
  <2>2. FetchOK(Idle)
    BY <1>2, <2>1 DEF FetchOK
  <2> QED BY <1>2, <2>1, <2>2 DEF FetchInv
<1>4. PageInv
  <2>1. <<>> \in Seq(Row) /\ Len(<<>>) = 0
    BY EmptySeq
  <2> QED BY <2>1, AllRows DEF Init, PageInv
<1>5. ButtonInv
  <2>1. \A k \in Refreshes : ~Busy(k)
    BY <1>2 DEF Init, Busy
  <2>2. disabled = FALSE /\ disabled \in BOOLEAN /\ loaded \in BOOLEAN
    BY Zenon DEF Init
  <2>3. clicks \in 0 .. MaxClicks /\ shownFrom.refresh = 0 /\ shownFrom.at \in 0 .. snaps
    <3>1. clicks = 0 /\ snaps = 0 /\ shownFrom = [refresh |-> 0, at |-> 0]
      BY Zenon DEF Init
    <3> QED BY <3>1, RefreshNumbers
  <2> HIDE DEF Busy
  <2> QED BY <2>1, <2>2, <2>3, RefreshNumbers DEF Init, ButtonInv
<1> QED BY <1>1, <1>3, <1>4, <1>5 DEF RoutesInv

\* Of all steps, only an answer that is shown changes where the rows are from.
LEMMA NextInv ==
  ASSUME RoutesInv, [Next]_vars
  PROVE  /\ RoutesInv'
         /\ shownFrom'.at < shownFrom.at => 0 \in {shownFrom'.refresh, shownFrom.refresh}
<1> DEFINE Back == shownFrom'.at < shownFrom.at => 0 \in {shownFrom'.refresh, shownFrom.refresh}
<1>1. ASSUME shownFrom' = shownFrom
      PROVE  Back
  <2>1. shownFrom.at \in Nat
    BY DEF RoutesInv, ButtonInv
  <2> QED BY <1>1, <2>1
<1> HIDE DEF Back
<1>2. ASSUME NEW p \in Pid, NEW n \in Name, ProcessStarts(p, n)
      PROVE  RoutesInv' /\ Back
  BY <1>1, <1>2, StartKeeps DEF ProcessStarts, pageVars
<1>3. ASSUME NEW p \in Pid, ProcessEnds(p)
      PROVE  RoutesInv' /\ Back
  BY <1>1, <1>3, EndKeeps DEF ProcessEnds, pageVars
<1>4. ASSUME PageLoads \/ ClickRefresh
      PROVE  RoutesInv' /\ Back
  <2>1. RoutesInv'
    BY <1>4, SendKeeps
  <2>2. shownFrom' = shownFrom
    BY <1>4, Zenon DEF PageLoads, ClickRefresh, Send
  <2> QED BY <1>1, <2>1, <2>2
<1>5. ASSUME NEW k \in Refreshes, netstat(k) \/ NameLine(k) \/ handleConnections(k)
      PROVE  RoutesInv' /\ Back
  BY <1>1, <1>5, NetstatKeeps, NameLineKeeps, AnswerKeeps
     DEF netstat, NameLine, handleConnections, pageVars
<1>6. ASSUME NEW k \in Refreshes, refreshConnections(k)
      PROVE  RoutesInv' /\ Back
  BY <1>6, AnsweredKeeps DEF Back
<1>7. ASSUME NEW k \in Refreshes, RefreshFails(k)
      PROVE  RoutesInv' /\ Back
  BY <1>1, <1>7, FailsKeeps DEF RefreshFails
<1>8. ASSUME NEW text \in Texts, filterConnections(text)
      PROVE  RoutesInv' /\ Back
  BY <1>1, <1>8, FilterKeeps DEF filterConnections
<1>9. ASSUME UNCHANGED vars
      PROVE  RoutesInv' /\ Back
  <2>1. UNCHANGED <<version, machineVars, fetch, snaps, pageVars>>
    BY <1>9 DEF vars
  <2>2. MachineInv' /\ FetchInv'
    BY <2>1 DEF RoutesInv, MachineInv, FetchInv, FetchOK, Honest, Current, machineVars
  <2>3. PageInv' /\ ButtonInv'
    BY <2>1, <2>2, PageStays
  <2>4. Back
    BY <1>1, <2>1 DEF pageVars
  <2>5. RoutesInv'
    BY <2>2, <2>3, Zenon DEF RoutesInv
  <2> QED BY <2>4, <2>5
<1>10. RoutesInv' /\ Back
  <2>1. ASSUME NEW k \in Refreshes, Refresh(k)
        PROVE  RoutesInv' /\ Back
    BY <2>1, <1>5, <1>6, Zenon DEF Refresh
  <2>2. Next \/ UNCHANGED vars
    OBVIOUS
  <2> QED BY <2>1, <2>2, <1>2, <1>3, <1>4, <1>7, <1>8, <1>9, Zenon DEF Next
<1> QED BY <1>10 DEF Back

\* The invariant of the machine, the refreshes and the page holds in every
\* reachable state: the one behind the theorems below (handleConnections,
\* refreshConnections).
THEOREM RoutesAreSound == Spec => []RoutesInv
<1>1. RoutesInv /\ [Next]_vars => RoutesInv'
  BY NextInv
<1> QED BY <1>1, InitInv, PTL DEF Spec

\* A list that was put together while processes came and went is the one of the
\* moment netstat ran: a row for every socket and none twice, and where a name is
\* shown it is the first word of that of the process netstat saw, unless that has
\* ended (getTCPConnections, getProcessName).
THEOREM ListsAreOfOneMoment == Spec => []RowsAreOfOneMoment
<1>1. RoutesInv => RowsAreOfOneMoment
  BY InvImplies
<1> QED BY <1>1, RoutesAreSound, PTL

\* The table, the footer, the status line and the button agree, however the
\* refreshes and the filter overlap, and the table is the list or what the
\* filter finds in it (refreshConnections, filterConnections).
THEOREM PageIsConsistent == Spec => []PageAgrees
<1>1. RoutesInv => PageAgrees
  BY InvImplies
<1> QED BY <1>1, RoutesAreSound, PTL

\* Clicking again never brings back an older list, unless the refresh of the
\* load comes in between (refreshConnections).
THEOREM ClicksGoForward == Spec => ButtonGoesForward
<1>1. RoutesInv /\ [Next]_vars =>
        [shownFrom'.at < shownFrom.at => 0 \in {shownFrom'.refresh, shownFrom.refresh}]_vars
  BY NextInv
<1> QED BY <1>1, RoutesAreSound, PTL DEF Spec, ButtonGoesForward
=============================================================================
