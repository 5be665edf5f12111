--------------------------- MODULE ConsoleProofs ---------------------------
(***************************************************************************)
(* What the console shows is true, for every number of scans, submits and   *)
(* polls, every set of jobs, every size of the grid and of the buffers, and *)
(* however requests and answers overtake each other.                        *)
(***************************************************************************)
EXTENDS ConsoleProps, TLAPS, SequenceTheorems, FiniteSetTheorems, WellFoundedInduction

-----------------------------------------------------------------------------
(* The engine.                                                              *)

Scan == 1 .. MaxScans

\* The types of the object; a scan reports only its own targets, and one that
\* has not been started has none.
EngineOK ==
  /\ isRunning \in BOOLEAN /\ overlapped \in BOOLEAN
  /\ ctx \in 0 .. MaxScans /\ alive \subseteq 1 .. ctx
  /\ work \in [Scan -> Jobs \cup {{}}] /\ reported \in [Scan -> SUBSET Target]
  /\ \A g \in Scan : reported[g] \subseteq work[g] /\ IsFiniteSet(work[g])
  /\ \A g \in Scan : g > ctx => reported[g] = {}
  /\ scannedPorts \in Nat /\ totalPorts \in Nat
  /\ openPorts \subseteq Result
  /\ liveScanned \in Seq(Result) /\ Len(liveScanned) <= LiveCap
  /\ totalPorts = IF ctx = 0 THEN 0 ELSE Cardinality(work[ctx])

\* As long as no Start found a stopped scan alive, the object is that of the
\* current scan.
OwnScan ==
  ~overlapped =>
    /\ alive \subseteq {ctx}
    /\ isRunning => ctx \in alive
    /\ ctx \in alive /\ ~isRunning => ctx \in cancelled
    /\ ctx # 0 => scannedPorts = Cardinality(reported[ctx])
    /\ \A n \in 1 .. Len(liveScanned) : ctx # 0 /\ liveScanned[n].target \in reported[ctx]
EngineInv == EngineOK /\ OwnScan

\* What every step of the engine but a Start leaves as it is, and what a scan
\* that has reported everything leaves alone.
Calm ==
  /\ ctx' = ctx /\ work' = work /\ totalPorts' = totalPorts /\ overlapped' = overlapped
  /\ isRunning' => isRunning
  /\ ~overlapped =>
       /\ ctx # 0 => reported[ctx] \subseteq reported'[ctx]
       /\ ctx # 0 /\ scannedPorts = totalPorts =>
            scannedPorts' = scannedPorts /\ openPorts' = openPorts

\* A scan has reported everything when it has counted as many results as it has
\* targets.
LEMMA AllReported ==
  ASSUME EngineInv, ~overlapped, ctx # 0
  PROVE  /\ ctx \in Scan /\ IsFiniteSet(work[ctx]) /\ IsFiniteSet(reported[ctx])
         /\ scannedPorts = totalPorts => reported[ctx] = work[ctx]
<1>1. ctx \in Scan /\ IsFiniteSet(work[ctx]) /\ reported[ctx] \subseteq work[ctx]
  BY EngineAssumption DEF EngineInv, EngineOK, Scan
<1>2. scannedPorts = Cardinality(reported[ctx]) /\ totalPorts = Cardinality(work[ctx])
  BY DEF EngineInv, EngineOK, OwnScan
<1> QED BY <1>1, <1>2, FS_Subset

LEMMA EngineStarts ==
  ASSUME EngineInv, NEW job \in Jobs, Start(job)
  PROVE  /\ EngineInv'
         /\ ctx' = ctx + 1 /\ isRunning' /\ ~isRunning /\ (overlapped => overlapped')
<1>1. /\ ctx' = ctx + 1 /\ ctx < MaxScans /\ ctx \in Nat /\ ctx + 1 \in Scan
      /\ isRunning' = TRUE /\ ~isRunning
      /\ overlapped' = (overlapped \/ alive \cap cancelled # {})
      /\ work' = [work EXCEPT ![ctx + 1] = job] /\ totalPorts' = Cardinality(job)
      /\ scannedPorts' = 0 /\ openPorts' = {} /\ liveScanned' = <<>>
      /\ alive' = alive \cup {ctx + 1} /\ UNCHANGED <<cancelled, reported>>
  BY EngineAssumption DEF Start, EngineInv, EngineOK, Scan
<1>2. IsFiniteSet(job) /\ Cardinality(job) \in Nat
  BY EngineAssumption, FS_CardinalityType
<1>3. EngineOK'
  <2>1. /\ work' \in [Scan -> Jobs \cup {{}}] /\ work'[ctx + 1] = job
        /\ \A g \in Scan : g # ctx + 1 => work'[g] = work[g]
    BY <1>1 DEF EngineInv, EngineOK
  <2>2. \A g \in Scan : reported'[g] \subseteq work'[g] /\ IsFiniteSet(work'[g])
    BY <1>1, <1>2, <2>1 DEF EngineInv, EngineOK
  <2>3. /\ ctx' \in 0 .. MaxScans /\ alive' \subseteq 1 .. ctx'
        /\ \A g \in Scan : g > ctx' => reported'[g] = {}
    BY <1>1, EngineAssumption DEF EngineInv, EngineOK, Scan
  <2>4. liveScanned' \in Seq(Result) /\ Len(liveScanned') <= LiveCap
    BY <1>1, EngineAssumption
  <2>5. isRunning' \in BOOLEAN /\ overlapped' \in BOOLEAN
    BY <1>1, Zenon
  <2> QED BY <1>1, <1>2, <2>1, <2>2, <2>3, <2>4, <2>5 DEF EngineInv, EngineOK
<1>4. OwnScan'
  <2> SUFFICES ASSUME ~overlapped'
               PROVE  OwnScan'
    BY DEF OwnScan
  <2>1. ~overlapped /\ alive \cap cancelled = {}
    BY <1>1
  <2>2. alive = {}
    BY <1>1, <2>1 DEF EngineInv, OwnScan
  <2>3. reported'[ctx'] = {}
    BY <1>1 DEF EngineInv, EngineOK
  <2> QED BY <1>1, <2>2, <2>3, FS_EmptySet DEF OwnScan
<1> QED BY <1>1, <1>3, <1>4 DEF EngineInv

LEMMA ReportCalm ==
  ASSUME EngineInv, NEW g \in Scan, NEW t \in work[g], NEW o \in Outcomes, Report(g, t, o)
  PROVE  EngineInv' /\ Calm
<1> DEFINE res == [scan |-> g, target |-> t, outcome |-> o]
<1>1. /\ g \in alive /\ t \notin reported[g]
      /\ reported' = [reported EXCEPT ![g] = @ \cup {t}]
      /\ scannedPorts' = scannedPorts + 1
      /\ openPorts' = openPorts \/ openPorts' = openPorts \cup {res}
      /\ \/ liveScanned' = liveScanned
         \/ Len(liveScanned) < LiveCap /\ liveScanned' = Append(liveScanned, res)
      /\ UNCHANGED <<isRunning, totalPorts, ctx, cancelled, work, alive, overlapped>>
  <2>1. /\ g \in alive /\ t \in work[g] \ reported[g]
        /\ reported' = [reported EXCEPT ![g] = @ \cup {t}]
        /\ scannedPorts' = scannedPorts + 1
        /\ openPorts' = IF o = "connected" THEN openPorts \cup {res} ELSE openPorts
        /\ liveScanned' = IF Len(liveScanned) < LiveCap THEN Append(liveScanned, res)
                                                        ELSE liveScanned
        /\ UNCHANGED <<isRunning, totalPorts, ctx, cancelled, work, alive, overlapped>>
    BY Zenon DEF Report
  <2> HIDE DEF res
  <2> QED BY <2>1
<1> g \in 1 .. ctx
  BY <1>1 DEF EngineInv, EngineOK
<1>2. res \in Result /\ res.target = t /\ t \in Target
  BY DEF EngineInv, EngineOK, Result, Scan, Target
<1>3. /\ \A h \in Scan : reported'[h] = IF h = g THEN reported[g] \cup {t} ELSE reported[h]
      /\ reported' \in [Scan -> SUBSET Target]
  BY <1>1, <1>2 DEF EngineInv, EngineOK
<1>4. /\ liveScanned' \in Seq(Result) /\ Len(liveScanned') <= LiveCap
      /\ \A n \in 1 .. Len(liveScanned') :
           \/ liveScanned'[n].target = t
           \/ n \in 1 .. Len(liveScanned) /\ liveScanned'[n] = liveScanned[n]
  <2>1. liveScanned \in Seq(Result) /\ Len(liveScanned) <= LiveCap /\ LiveCap \in Nat
    BY EngineAssumption DEF EngineInv, EngineOK
  <2>2. CASE liveScanned' = liveScanned
    BY <2>1, <2>2
  <2>3. CASE Len(liveScanned) < LiveCap /\ liveScanned' = Append(liveScanned, res)
    <3> HIDE DEF res
    <3>1. /\ liveScanned' \in Seq(Result) /\ Len(liveScanned') = Len(liveScanned) + 1
          /\ liveScanned'[Len(liveScanned) + 1] = res
          /\ \A n \in 1 .. Len(liveScanned) : liveScanned'[n] = liveScanned[n]
      BY <2>1, <2>3, <1>2, AppendProperties
    <3>2. Len(liveScanned) \in Nat
      BY <2>1, LenProperties
    <3>3. Len(liveScanned') <= LiveCap
      BY <2>1, <2>3, <3>1, <3>2
    <3>4. ASSUME NEW n \in 1 .. Len(liveScanned')
          PROVE  n = Len(liveScanned) + 1 \/ n \in 1 .. Len(liveScanned)
      BY <3>1, <3>2
    <3> QED BY <1>2, <3>1, <3>3, <3>4
  <2> QED BY <1>1, <2>2, <2>3
<1> HIDE DEF res
<1>5. EngineOK'
  BY <1>1, <1>2, <1>3, <1>4 DEF EngineInv, EngineOK
<1>6. ~overlapped => g = ctx /\ ctx # 0
  BY <1>1 DEF EngineInv, OwnScan
<1>7. ASSUME ~overlapped
      PROVE  Cardinality(reported'[ctx]) = scannedPorts' /\ scannedPorts # totalPorts
  <2>1. g = ctx /\ IsFiniteSet(reported[ctx]) /\ reported'[ctx] = reported[ctx] \cup {t}
    BY <1>3, <1>6, <1>7, AllReported
  <2>2. Cardinality(reported'[ctx]) = Cardinality(reported[ctx]) + 1
    BY <1>1, <2>1, FS_AddElement
  <2>3. reported[ctx] # work[ctx]
    BY <1>1, <2>1
  <2> QED BY <1>1, <1>6, <1>7, <2>1, <2>2, <2>3, AllReported DEF EngineInv, OwnScan
<1>8. OwnScan'
  BY <1>1, <1>3, <1>4, <1>6, <1>7 DEF EngineInv, OwnScan
<1>9. Calm
  BY <1>1, <1>3, <1>6, <1>7 DEF Calm
<1> QED BY <1>5, <1>8, <1>9 DEF EngineInv

\* What a Stop, a snapshot and the end of a scan do.
LEMMA EngineCalm ==
  ASSUME EngineInv,
         \/ Stop \/ GetStatus \/ UNCHANGED engineVars
         \/ \E g \in 1 .. MaxScans : Goroutines(g)
  PROVE  EngineInv' /\ Calm
<1>1. CASE Stop \/ GetStatus \/ UNCHANGED engineVars \/ \E g \in Scan : End(g)
  <2>1. /\ UNCHANGED <<totalPorts, scannedPorts, openPorts, ctx, work, reported, overlapped>>
        /\ alive' \subseteq alive
        /\ liveScanned' = liveScanned \/ liveScanned' = <<>>
        /\ \/ isRunning' = isRunning /\ UNCHANGED <<cancelled, alive>>
           \/ isRunning' = FALSE /\ cancelled' = cancelled \cup {ctx} /\ alive' = alive
           \/ \E g \in alive : isRunning' = FALSE /\ alive' = alive \ {g} /\ cancelled' = cancelled
    BY <1>1 DEF Stop, GetStatus, End, engineVars
  <2>2. EngineOK'
    <3>1. liveScanned' \in Seq(Result) /\ Len(liveScanned') <= LiveCap
      <4>1. <<>> \in Seq(Result) /\ Len(<<>>) = 0 /\ 0 <= LiveCap
        BY EmptySeq, EngineAssumption
      <4> QED BY <2>1, <4>1, Zenon DEF EngineInv, EngineOK
    <3>2. isRunning' \in BOOLEAN
      BY <2>1, Zenon DEF EngineInv, EngineOK
    <3> QED BY <2>1, <3>1, <3>2 DEF EngineInv, EngineOK
  <2>3. OwnScan'
    BY <2>1 DEF EngineInv, OwnScan
  <2>4. Calm
    BY <2>1 DEF Calm
  <2> QED BY <2>2, <2>3, <2>4 DEF EngineInv
<1>2. ASSUME NEW g \in Scan, NEW t \in work[g], NEW o \in Outcomes, Report(g, t, o)
      PROVE  EngineInv' /\ Calm
  BY <1>2, ReportCalm
<1> QED BY <1>1, <1>2 DEF Goroutines, Scan

-----------------------------------------------------------------------------
(* Induction.  The library's theorem of induction takes an operator, which  *)
(* the provers cannot instantiate; this one takes a set.                    *)

Less == {p \in Nat \X Nat : p[1] < p[2]}
LEMMA LessIsWellFounded == IsWellFoundedOn(Less, Nat)
<1>1. Less = OpToRel(<, Nat)
  BY Zenon DEF Less, OpToRel
<1> QED BY <1>1, NatLessThanWellFounded, Zenon

LEMMA SetInduction ==
  ASSUME NEW P \in SUBSET Nat, 0 \in P, \A n \in P : n + 1 \in P
  PROVE  \A n \in Nat : n \in P
<1> SUFFICES ASSUME Nat \ P # {}
             PROVE  FALSE
  OBVIOUS
<1>1. PICK n \in Nat \ P : \A k \in Nat \ P : <<k, n>> \notin Less
  BY WFMin, LessIsWellFounded
<1>2. n # 0 /\ n - 1 \in Nat /\ <<n - 1, n>> \in Less
  BY <1>1 DEF Less
<1>3. n - 1 \in P /\ n = (n - 1) + 1
  BY <1>1, <1>2
<1> QED BY <1>1, <1>3

-----------------------------------------------------------------------------
(* The grid.                                                                *)

Cell == {"placeholder", "pending", "container"} \cup Result

\* The types of a grid g = [map, cells].
GridOK(g) ==
  /\ g.map \in [DOMAIN g.map -> (0 .. gridNo) \X (Nat \ {0})]
  /\ IsFiniteSet(DOMAIN g.map)
  /\ g.cells \in Seq(Cell)

\* It has n cells; those of the targets in the map, all of them in T, are its
\* own, the first ones, and each shows its target.
Shows(g, n, T) ==
  /\ Len(g.cells) = n /\ DOMAIN g.map \subseteq T
  /\ \A t \in DOMAIN g.map :
       /\ g.map[t][1] = gridNo
       /\ g.map[t][2] \in 1 .. n /\ g.map[t][2] <= Cardinality(DOMAIN g.map)
       /\ g.cells[g.map[t][2]].target = t

\* One result: the map stays or gets the target and the next cell, and the
\* cell of the target, if it is one of this grid, shows the result.
Grown(m, t, k) == [u \in DOMAIN m \cup {t} |-> IF u = t THEN <<gridNo, k>> ELSE m[u]]
NextCell(g) == Cardinality(DOMAIN g.map) + 1
LEMMA PlaceCases ==
  \A g, res :
    LET h == Place(g, res) IN
    /\ \/ h.map = g.map
       \/ /\ res.target \notin DOMAIN g.map /\ NextCell(g) <= Len(g.cells)
          /\ h.map = Grown(g.map, res.target, NextCell(g))
    /\ \/ /\ res.target \in DOMAIN h.map /\ h.map[res.target][1] = gridNo
          /\ h.cells = [g.cells EXCEPT ![h.map[res.target][2]] = res]
       \/ /\ ~(res.target \in DOMAIN h.map /\ h.map[res.target][1] = gridNo)
          /\ h.cells = g.cells
<1> TAKE g, res
<1> DEFINE new == res.target \notin DOMAIN g.map
           m   == IF new /\ NextCell(g) <= Len(g.cells) THEN Grown(g.map, res.target, NextCell(g))
                                                        ELSE g.map
           here == res.target \in DOMAIN m /\ m[res.target][1] = gridNo
           c    == IF here THEN [g.cells EXCEPT ![m[res.target][2]] = res] ELSE g.cells
<1>1. Place(g, res) = [map |-> m, cells |-> c]
  BY Zenon DEF Place, NextCell, Grown
<1>2. Place(g, res).map = m /\ Place(g, res).cells = c
  BY <1>1
<1> QED BY <1>2, Zenon

LEMMA PlaceKeeps ==
  ASSUME NEW g, GridOK(g), gridNo \in Nat, NEW res \in Result
  PROVE  GridOK(Place(g, res))
<1> DEFINE h == Place(g, res)
           t == res.target
<1> HIDE DEF h
<1>1. NextCell(g) \in Nat \ {0}
  BY FS_CardinalityType DEF GridOK, NextCell
<1>4. /\ \/ h.map = g.map
         \/ /\ t \notin DOMAIN g.map /\ NextCell(g) <= Len(g.cells)
            /\ h.map = Grown(g.map, t, NextCell(g))
      /\ \/ /\ t \in DOMAIN h.map /\ h.map[t][1] = gridNo
            /\ h.cells = [g.cells EXCEPT ![h.map[t][2]] = res]
         \/ ~(t \in DOMAIN h.map /\ h.map[t][1] = gridNo) /\ h.cells = g.cells
  BY PlaceCases DEF h
<1>2. h.map \in [DOMAIN h.map -> (0 .. gridNo) \X (Nat \ {0})] /\ IsFiniteSet(DOMAIN h.map)
  <2>1. CASE h.map = g.map
    BY <2>1 DEF GridOK
  <2>2. CASE h.map = Grown(g.map, t, NextCell(g))
    <3>1. <<gridNo, NextCell(g)>> \in (0 .. gridNo) \X (Nat \ {0})
      BY <1>1
    <3>2. DOMAIN h.map = DOMAIN g.map \cup {t}
      BY <2>2 DEF Grown
    <3>3. IsFiniteSet(DOMAIN h.map)
      <4>1. IsFiniteSet(DOMAIN g.map)
        BY DEF GridOK
      <4> QED BY <3>2, <4>1, FS_AddElement, Zenon
    <3> QED BY <2>2, <3>1, <3>2, <3>3 DEF GridOK, Grown
  <2> QED BY <1>4, <2>1, <2>2
<1>3. h.cells \in Seq(Cell)
  <2>1. CASE h.cells = g.cells
    BY <2>1 DEF GridOK
  <2>2. ASSUME NEW k, h.cells = [g.cells EXCEPT ![k] = res]
        PROVE  h.cells \in Seq(Cell)
    <3>1. CASE k \in 1 .. Len(g.cells)
      BY <2>2, <3>1, ExceptSeq DEF GridOK, Cell
    <3>2. CASE k \notin 1 .. Len(g.cells)
      <4>1. g.cells \in [1 .. Len(g.cells) -> Cell]
        BY LenProperties DEF GridOK
      <4>2. [g.cells EXCEPT ![k] = res] = g.cells
        BY <4>1, <3>2
      <4> QED BY <2>2, <4>2 DEF GridOK
    <3> QED BY <3>1, <3>2
  <2>3. h.cells = g.cells \/ h.cells = [g.cells EXCEPT ![h.map[t][2]] = res]
    BY <1>4
  <2> QED BY <2>1, <2>2, <2>3
<1> QED BY <1>2, <1>3 DEF GridOK, h

LEMMA PlaceShows ==
  ASSUME NEW g, GridOK(g), gridNo \in Nat, NEW res \in Result,
         NEW n \in Nat, NEW T, Shows(g, n, T), res.target \in T
  PROVE  Shows(Place(g, res), n, T)
<1> DEFINE h == Place(g, res)
           t == res.target
           card == Cardinality(DOMAIN g.map)
<1> HIDE DEF h, card
<1>1. card \in Nat /\ NextCell(g) = card + 1
  BY FS_CardinalityType DEF GridOK, NextCell, card
<1>2. /\ g.cells \in Seq(Cell) /\ Len(g.cells) = n
      /\ \A u \in DOMAIN g.map : /\ g.map[u][1] = gridNo
                                 /\ g.map[u][2] \in 1 .. n /\ g.map[u][2] <= card
                                 /\ g.cells[g.map[u][2]].target = u
  BY DEF GridOK, Shows, card
<1>5. /\ \/ h.map = g.map
         \/ /\ t \notin DOMAIN g.map /\ NextCell(g) <= Len(g.cells)
            /\ h.map = Grown(g.map, t, NextCell(g))
      /\ \/ /\ t \in DOMAIN h.map /\ h.map[t][1] = gridNo
            /\ h.cells = [g.cells EXCEPT ![h.map[t][2]] = res]
         \/ ~(t \in DOMAIN h.map /\ h.map[t][1] = gridNo) /\ h.cells = g.cells
  BY PlaceCases DEF h
\* The map still has a cell of its own for each of its targets.
<1>3. /\ DOMAIN h.map \subseteq T
      /\ \A u \in DOMAIN h.map : /\ h.map[u][1] = gridNo /\ h.map[u][2] \in 1 .. n
                                 /\ h.map[u][2] <= Cardinality(DOMAIN h.map)
      /\ \A u \in DOMAIN h.map \ {t} : u \in DOMAIN g.map /\ h.map[u] = g.map[u]
      /\ \A u \in DOMAIN h.map \ {t} : t \in DOMAIN h.map => h.map[u][2] # h.map[t][2]
  <2>1. CASE h.map = g.map
    BY <1>2, <2>1 DEF Shows, card
  <2>2. CASE /\ t \notin DOMAIN g.map /\ NextCell(g) <= Len(g.cells)
             /\ h.map = Grown(g.map, t, NextCell(g))
    <3>1. /\ DOMAIN h.map = DOMAIN g.map \cup {t} /\ h.map[t] = <<gridNo, card + 1>>
          /\ \A u \in DOMAIN g.map : u # t => h.map[u] = g.map[u]
      BY <1>1, <2>2 DEF Grown
    <3>2. Cardinality(DOMAIN h.map) = card + 1
      BY <2>2, <3>1, FS_AddElement DEF GridOK, card
    <3> QED BY <1>1, <1>2, <2>2, <3>1, <3>2 DEF Shows
  <2> QED BY <1>5, <2>1, <2>2
<1>4. /\ Len(h.cells) = n
      /\ \A u \in DOMAIN h.map : h.cells[h.map[u][2]].target = u
  <2>1. CASE t \in DOMAIN h.map
    <3> DEFINE k == h.map[t][2]
    <3>1. k \in 1 .. Len(g.cells) /\ h.map[t][1] = gridNo
      BY <1>2, <1>3, <2>1
    <3>2. h.cells = [g.cells EXCEPT ![k] = res]
      BY <1>5, <2>1, <3>1
    <3> HIDE DEF k
    <3>3. /\ Len(h.cells) = Len(g.cells)
          /\ \A j \in 1 .. Len(g.cells) : h.cells[j] = IF j = k THEN res ELSE g.cells[j]
      BY <1>2, <3>1, <3>2, ExceptSeq DEF Cell
    <3> QED BY <1>2, <1>3, <2>1, <3>1, <3>3 DEF k
  <2>2. CASE t \notin DOMAIN h.map
    BY <1>2, <1>3, <1>5, <2>2
  <2> QED BY <2>1, <2>2
<1> QED BY <1>3, <1>4 DEF Shows, h

\* The results of a poll, one after the other: the function that PlaceAll builds
\* exists, so that it is what its definition says.
SoFar(p, g, live, m) ==
  p = [n \in 0 .. m |-> IF n = 0 THEN g ELSE Place(p[n - 1], live[n])]
PlacedSoFar(g, live, m) == CHOOSE p : SoFar(p, g, live, m)
LEMMA PlacedExists ==
  ASSUME NEW g, NEW live
  PROVE  \A m \in Nat : \E p : SoFar(p, g, live, m)
<1> DEFINE Is(p, m) == SoFar(p, g, live, m)
           P == {m \in Nat : \E p : Is(p, m)}
<1> USE DEF SoFar
<1>1. 0 \in P
  <2> DEFINE p == [n \in 0 .. 0 |-> g]
  <2>1. Is(p, 0)
    OBVIOUS
  <2> QED BY <2>1
<1>2. ASSUME NEW m \in P
      PROVE  m + 1 \in P
  <2>1. PICK p : Is(p, m)
    OBVIOUS
  <2> DEFINE q == [n \in 0 .. m + 1 |-> IF n <= m THEN p[n] ELSE Place(p[m], live[m + 1])]
  <2>2. \A n \in 0 .. m : p[n] = IF n = 0 THEN g ELSE Place(p[n - 1], live[n])
    BY <2>1
  <2>3. ASSUME NEW n \in 0 .. m + 1
        PROVE  q[n] = IF n = 0 THEN g ELSE Place(q[n - 1], live[n])
    <3>1. CASE n \in 0 .. m
      BY <2>2, <3>1
    <3>2. CASE n = m + 1
      BY <3>2
    <3> QED BY <3>1, <3>2
  <2>4. q = [n \in 0 .. m + 1 |-> q[n]]
    OBVIOUS
  <2> HIDE DEF q
  <2>5. Is(q, m + 1)
    BY <2>3, <2>4
  <2> QED BY <2>5
<1> HIDE DEF P
<1>3. P \in SUBSET Nat
  BY DEF P
<1>4. \A m \in Nat : m \in P
  BY <1>1, <1>2, <1>3, SetInduction
<1> QED BY <1>4 DEF P

LEMMA PlaceAllIsPlaced ==
  ASSUME NEW g, NEW live, Len(live) \in Nat
  PROVE  LET p == PlacedSoFar(g, live, Len(live)) IN
         /\ PlaceAll(g, live) = p[Len(live)] /\ p[0] = g
         /\ \A n \in 1 .. Len(live) : p[n] = Place(p[n - 1], live[n])
<1> DEFINE p == PlacedSoFar(g, live, Len(live))
<1>1. PlaceAll(g, live) = p[Len(live)]
  BY Zenon DEF PlaceAll, PlacedSoFar, SoFar
<1>2. SoFar(p, g, live, Len(live))
  <2>1. \E r : SoFar(r, g, live, Len(live))
    BY PlacedExists
  <2> QED BY <2>1, Zenon DEF PlacedSoFar
<1> HIDE DEF p
<1>3. p[0] = g /\ \A n \in 1 .. Len(live) : p[n] = Place(p[n - 1], live[n])
  BY <1>2 DEF SoFar
<1> QED BY <1>1, <1>3 DEF p

\* So the grid keeps its types and what it shows over a whole poll.
LEMMA PlaceAllKeeps ==
  ASSUME NEW g, GridOK(g), gridNo \in Nat, NEW live \in Seq(Result)
  PROVE  /\ GridOK(PlaceAll(g, live))
         /\ \A n \in Nat : \A T :
              Shows(g, n, T) /\ (\A i \in 1 .. Len(live) : live[i].target \in T)
                => Shows(PlaceAll(g, live), n, T)
<1> DEFINE p == PlacedSoFar(g, live, Len(live))
           N == Len(live)
<1>1. N \in Nat /\ \A i \in 1 .. N : live[i] \in Result
  BY LenProperties, ElementOfSeq
<1>2. /\ PlaceAll(g, live) = p[N] /\ p[0] = g
      /\ \A n \in 1 .. N : p[n] = Place(p[n - 1], live[n])
  BY <1>1, PlaceAllIsPlaced
<1> HIDE DEF p, N
<1>3. \A m \in Nat : m <= N => GridOK(p[m])
  <2> DEFINE P == {m \in Nat : m <= N => GridOK(p[m])}
  <2>1. 0 \in P
    BY <1>2
  <2>2. ASSUME NEW m \in P
        PROVE  m + 1 \in P
    <3>1. m + 1 <= N => /\ m + 1 \in 1 .. N /\ (m + 1) - 1 = m /\ m <= N
      BY <1>1
    <3> QED BY <1>1, <1>2, <3>1, PlaceKeeps
  <2> HIDE DEF P
  <2>3. P \in SUBSET Nat
    BY DEF P
  <2>4. \A m \in Nat : m \in P
    BY <2>1, <2>2, <2>3, SetInduction
  <2> QED BY <2>4 DEF P
<1>4. ASSUME NEW n \in Nat, NEW T, Shows(g, n, T), \A i \in 1 .. N : live[i].target \in T
      PROVE  \A m \in Nat : m <= N => Shows(p[m], n, T)
  <2> DEFINE P == {m \in Nat : m <= N => Shows(p[m], n, T)}
  <2>1. 0 \in P
    BY <1>2, <1>4
  <2>2. ASSUME NEW m \in P
        PROVE  m + 1 \in P
    <3>1. m + 1 <= N => /\ m + 1 \in 1 .. N /\ (m + 1) - 1 = m /\ m <= N
      BY <1>1
    <3> QED BY <1>1, <1>2, <1>3, <1>4, <3>1, PlaceShows
  <2> HIDE DEF P
  <2>3. P \in SUBSET Nat
    BY DEF P
  <2>4. \A m \in Nat : m \in P
    BY <2>1, <2>2, <2>3, SetInduction
  <2> QED BY <2>4 DEF P
<1> QED BY <1>1, <1>2, <1>3, <1>4 DEF N

-----------------------------------------------------------------------------
(* The state of the console.                                                *)

\* A status answer, on its way or not.
Snapshots == [scan : 0 .. MaxScans, running : BOOLEAN, total : Nat, scanned : Nat,
              open : SUBSET Result, live : Seq(Result)]
PollVals == {<<>>, <<"sent">>} \cup {<<"answer", snap>> : snap \in Snapshots}
Snap(p)  == poll[p][2]

\* The types of the rest.
PcVals == {"none", "sent", "starting", "ok", "refused", "done"}
Labels == {"Ready", "Scanning", "Finished", "Stopped"}
RequestsOK ==
  /\ subPc \in [Submit -> PcVals] /\ subAns \in [Submit -> [scan : 0 .. MaxScans, total : Nat]]
  /\ poll \in [PollSlots -> PollVals]
  /\ stopping \in BOOLEAN
PageOK ==
  /\ timers \subseteq Submit /\ pollInterval \in timers \cup {0}
  /\ locked \in BOOLEAN /\ exportsOn \in BOOLEAN
  /\ shown \in [scanned : Nat, total : Nat, label : Labels]
  /\ scanResultsList \subseteq Result /\ totalPortsCount \in Nat
  /\ form \in [Submit -> Jobs]
PageGrid == [map |-> gridPortMap, cells |-> cells]
GridsOK ==
  /\ gridNo \in Nat /\ GridOK(PageGrid)
  /\ rolling \in Seq(Seq(Result)) /\ \A n \in 1 .. Len(rolling) : Len(rolling[n]) <= RollCap
ConsoleOK == EngineInv /\ RequestsOK /\ PageOK /\ GridsOK

\* What an answer on its way says of its scan is still true or was overtaken.
Taken(snap) ==
  /\ Len(snap.live) <= LiveCap
  /\ snap.scan <= ctx
  /\ snap.scan = ctx /\ ~snap.running => ~isRunning
  /\ snap.scan = ctx /\ ~overlapped =>
       /\ snap.total = totalPorts /\ (ctx = 0 => totalPorts = 0)
       /\ ctx # 0 /\ snap.scanned = snap.total =>
            scannedPorts = totalPorts /\ snap.open = openPorts
       /\ \A n \in 1 .. Len(snap.live) : ctx # 0 /\ snap.live[n].target \in reported[ctx]
SnapsInv == \A p \in PollSlots : Len(poll[p]) = 2 => Taken(Snap(p))

\* One timer, set while the controls are locked, and one submit at a time.
OneTimer ==
  Never({"doubleSubmit"}) =>
    /\ timers = (IF locked THEN {pollInterval} ELSE {}) /\ (locked <=> pollInterval # 0)
    /\ \A i, j \in Waiting : i = j
    /\ Waiting # {} => ~locked
    /\ \A i \in Submit : subPc[i] = "ok" => subAns[i].total = totalPorts

\* A scan that runs is known to the page, or the answer is on its way.
StopInv ==
  Never({"lateAnswer", "lostStart"}) /\ isRunning =>
    locked \/ \E i \in Submit : subPc[i] \in {"starting", "ok"}

\* Before the answer to a submit the page shows nothing; then it shows the scan.
Blanked ==
  Never({"doubleSubmit", "lateAnswer"}) =>
    /\ Waiting # {} => shown.total = 0 /\ totalPortsCount = 0 /\ gridPortMap = NoCells
    /\ locked => shown.label = "Scanning"
FinishedInv ==
  Never({"doubleSubmit", "lateAnswer"}) /\ ~overlapped
  /\ shown.label = "Finished" /\ shown.total # 0 =>
     /\ ctx # 0 /\ scannedPorts = totalPorts /\ shown.total = totalPorts
     /\ scanResultsList = openPorts /\ Exported = openPorts
GridInv ==
  Never({"doubleSubmit", "lateAnswer"}) /\ ~overlapped
  /\ 0 < totalPortsCount /\ totalPortsCount <= GridLimit =>
     ctx # 0 /\ Shows(PageGrid, Cardinality(work[ctx]), reported[ctx])

ConsoleInv == /\ ConsoleOK /\ SnapsInv /\ OneTimer /\ StopInv
              /\ Blanked /\ FinishedInv /\ GridInv

\* A slot is free, holds a request, or an answer.
LEMMA PollCases ==
  ASSUME RequestsOK, NEW p \in PollSlots
  PROVE  \/ poll[p] = <<>> /\ Len(poll[p]) = 0
         \/ poll[p] = <<"sent">> /\ Len(poll[p]) = 1
         \/ Len(poll[p]) = 2 /\ Snap(p) \in Snapshots /\ poll[p] = <<"answer", Snap(p)>>
<1>1. poll[p] \in PollVals
  BY DEF RequestsOK
<1>2. ASSUME NEW snap \in Snapshots, poll[p] = <<"answer", snap>>
      PROVE  Len(poll[p]) = 2 /\ Snap(p) = snap
  BY <1>2 DEF Snap
<1> QED BY <1>1, <1>2 DEF PollVals

\* These are what the properties ask for.
LEMMA InvImplies ==
  ASSUME ConsoleInv
  PROVE  NoTimerLeaks /\ StopIsReachable /\ FinishedIsFinal /\ GridIsTrue
<1>1. TypeOK
  <2>1. ASSUME NEW p \in PollSlots
        PROVE  \/ poll[p] \in {<<>>, <<"sent">>}
               \/ Len(poll[p]) = 2 /\ Len(poll[p][2].live) <= LiveCap
    BY PollCases DEF ConsoleInv, ConsoleOK, SnapsInv, Taken, Snap
  <2>2. subAns \in [Submit -> [scan : 0 .. MaxScans, total : Nat]]
    BY DEF ConsoleInv, ConsoleOK, RequestsOK
  <2>3. /\ isRunning \in BOOLEAN /\ stopping \in BOOLEAN /\ locked \in BOOLEAN
        /\ exportsOn \in BOOLEAN
    BY Zenon DEF ConsoleInv, ConsoleOK, RequestsOK, PageOK, EngineInv, EngineOK
  <2>4. gridPortMap \in [DOMAIN gridPortMap -> (0 .. gridNo) \X (Nat \ {0})]
    BY DEF ConsoleInv, ConsoleOK, GridsOK, GridOK, PageGrid
  <2> QED BY <2>1, <2>2, <2>3, <2>4
          DEF TypeOK, ConsoleInv, ConsoleOK, RequestsOK, PageOK, GridsOK, EngineInv, EngineOK,
              PcVals, Labels
<1>2. NoTimerLeaks
  BY <1>1 DEF NoTimerLeaks, ConsoleInv, OneTimer
<1>3. StopIsReachable
  BY DEF StopIsReachable, ConsoleInv, StopInv, Waiting
<1>4. FinishedIsFinal
  BY AllReported DEF FinishedIsFinal, ConsoleInv, ConsoleOK, FinishedInv, EngineInv, EngineOK
<1>5. GridIsTrue
  BY DEF GridIsTrue, ConsoleInv, GridInv, Shows, PageGrid
<1> QED BY <1>2, <1>3, <1>4, <1>5

-----------------------------------------------------------------------------
(* What the parts of the invariant survive.                                 *)

\* What disturbs the page is never forgotten.
Remembers == disturbed \subseteq disturbed'
LEMMA NeverWas ==
  ASSUME Remembers, NEW what, Never(what)'
  PROVE  Never(what)
BY DEF Remembers, Never

\* Answers on their way survive a calm engine, and a Start overtakes them.
LEMMA SnapsKeep ==
  ASSUME ConsoleOK, SnapsInv, EngineInv',
         \/ Calm
         \/ ctx' = ctx + 1 /\ (overlapped => overlapped'),
         \A p \in PollSlots : poll'[p] = poll[p] \/ Len(poll'[p]) # 2
  PROVE  SnapsInv'
<1> SUFFICES ASSUME NEW p \in PollSlots, Len(poll'[p]) = 2
             PROVE  Taken(Snap(p))'
  BY DEF SnapsInv
<1>1. Snap(p)' = Snap(p) /\ Taken(Snap(p)) /\ Snap(p) \in Snapshots
  <2>1. poll'[p] = poll[p]
    OBVIOUS
  <2> QED BY <2>1, PollCases DEF SnapsInv, Snap, ConsoleOK
<1>2. ctx \in Nat /\ ctx' \in Nat /\ Snap(p).scan \in Nat
  BY <1>1, EngineAssumption DEF ConsoleOK, EngineInv, EngineOK, Snapshots
<1>3. CASE Calm
  <2> DEFINE snap == Snap(p)
  <2>1. snap' = snap /\ Taken(snap)
    BY <1>1
  <2> HIDE DEF snap
  <2>2. ctx' = ctx /\ totalPorts' = totalPorts /\ overlapped' = overlapped
        /\ (isRunning' => isRunning)
    BY <1>3 DEF Calm
  <2>3. ~overlapped /\ ctx # 0 => /\ reported[ctx] \subseteq reported'[ctx]
                                  /\ scannedPorts = totalPorts =>
                                       scannedPorts' = scannedPorts /\ openPorts' = openPorts
    BY <1>3 DEF Calm
  <2> QED BY <2>1, <2>2, <2>3 DEF Taken, snap
<1>4. CASE ctx' = ctx + 1 /\ (overlapped => overlapped')
  BY <1>1, <1>2, <1>4 DEF Taken
<1> QED BY <1>3, <1>4

LEMMA FinishedKeeps ==
  ASSUME FinishedInv, Calm, Remembers, UNCHANGED <<shown, scanResultsList, exportsOn>>
  PROVE  FinishedInv'
BY NeverWas DEF FinishedInv, Calm, Exported

LEMMA GridKeeps ==
  ASSUME GridInv, Calm, Remembers, UNCHANGED <<totalPortsCount, gridVars>>
  PROVE  GridInv'
BY NeverWas DEF GridInv, Calm, Shows, PageGrid, gridVars

\* A step of the engine alone, on which nothing of the page is written.
LEMMA EngineStepKeeps ==
  ASSUME ConsoleInv, EngineInv', Calm,
         stopping' \in BOOLEAN, UNCHANGED <<subPc, subAns, poll, pageVars, histVars>>
  PROVE  ConsoleInv'
<1>1. Remembers
  BY DEF Remembers, histVars
<1>2. ConsoleOK'
  BY DEF ConsoleInv, ConsoleOK, RequestsOK, PageOK, GridsOK, GridOK, PageGrid,
         pageVars, gridVars, histVars
<1>3. SnapsInv' /\ FinishedInv' /\ GridInv'
  BY <1>1, SnapsKeep, FinishedKeeps, GridKeeps DEF ConsoleInv, pageVars
<1>4. OneTimer' /\ StopInv' /\ Blanked'
  BY DEF ConsoleInv, OneTimer, StopInv, Blanked, Never, Waiting, Calm, pageVars, gridVars, histVars
<1> QED BY <1>2, <1>3, <1>4 DEF ConsoleInv

-----------------------------------------------------------------------------
(* The steps.                                                               *)

\* Disturb only adds, and what it adds counts from then on.
LEMMA DisturbAdds ==
  ASSUME NEW what, NEW cond \in BOOLEAN, Disturb(what, cond)
  PROVE  Remembers /\ (cond => what \in disturbed')
BY DEF Disturb, Remembers

\* The engine does not move.
LEMMA EngineRests ==
  ASSUME EngineInv, UNCHANGED engineVars
  PROVE  EngineInv' /\ Calm
BY EngineCalm

LEMMA ScanningKeeps ==
  ASSUME ConsoleInv,
         \/ Scanning
         \/ ServerStop \/ ClickStop \/ UNCHANGED vars
  PROVE  ConsoleInv'
<1>1. EngineInv' /\ Calm
  BY EngineCalm DEF Scanning, ServerStop, ClickStop, ConsoleInv, ConsoleOK, vars
<1>2. stopping' \in BOOLEAN /\ UNCHANGED <<subPc, subAns, poll, pageVars, histVars>>
  BY DEF Scanning, ServerStop, ClickStop, ConsoleInv, ConsoleOK, RequestsOK, vars, reqVars
<1> QED BY <1>1, <1>2, EngineStepKeeps

LEMMA SubmitFormKeeps ==
  ASSUME ConsoleInv, NEW i \in Submit, SubmitForm(i)
  PROVE  ConsoleInv'
<1>1. /\ ~locked /\ subPc[i] = "none"
      /\ subPc' = [subPc EXCEPT ![i] = "sent"]
      /\ shown' = [shown EXCEPT !.scanned = 0, !.total = 0]
      /\ scanResultsList' = {} /\ exportsOn' = FALSE /\ totalPortsCount' = 0
      /\ gridPortMap' = NoCells
      /\ UNCHANGED <<engineVars, form, subAns, poll, stopping, timers, pollInterval, locked,
                     gridNo, cells, rolling>>
  BY DEF SubmitForm, ClearMap, Mishap
<1>2. Remembers /\ (Waiting # {} => "doubleSubmit" \in disturbed')
  BY DisturbAdds DEF SubmitForm
<1>3. EngineInv' /\ Calm
  BY <1>1, EngineRests DEF ConsoleInv, ConsoleOK
<1>4. /\ shown'.scanned = 0 /\ shown'.total = 0 /\ shown'.label = shown.label
      /\ shown' \in [scanned : Nat, total : Nat, label : Labels]
  BY <1>1 DEF ConsoleInv, ConsoleOK, PageOK
<1>5. ConsoleOK'
  <2>1. NoCells \in [DOMAIN NoCells -> (0 .. gridNo) \X (Nat \ {0})] /\ IsFiniteSet(DOMAIN NoCells)
    BY FS_EmptySet DEF NoCells
  <2>2. GridsOK'
    BY <1>1, <2>1 DEF ConsoleInv, ConsoleOK, GridsOK, GridOK, PageGrid
  <2>3. RequestsOK' /\ PageOK'
    BY <1>1, <1>4 DEF ConsoleInv, ConsoleOK, RequestsOK, PageOK, PcVals
  <2> QED BY <1>3, <2>2, <2>3 DEF ConsoleOK
<1>6. SnapsInv'
  BY <1>1, <1>3, SnapsKeep DEF ConsoleInv
<1>7. Waiting' = Waiting \cup {i} /\ \A j \in Submit : subPc'[j] = "ok" => subPc[j] = "ok"
  BY <1>1 DEF Waiting, ConsoleInv, ConsoleOK, RequestsOK
<1>8. OneTimer'
  <2>1. Never({"doubleSubmit"})' => Waiting = {} /\ Never({"doubleSubmit"})
    BY <1>2, NeverWas DEF Never
  <2> QED BY <1>1, <1>3, <1>7, <2>1 DEF OneTimer, ConsoleInv, Calm
<1>9. StopInv'
  <2>1. Never({"lateAnswer", "lostStart"})' => Never({"lateAnswer", "lostStart"})
    BY <1>2, NeverWas
  <2>2. \A j \in Submit : subPc[j] \in {"starting", "ok"} => subPc'[j] = subPc[j]
    BY <1>1 DEF ConsoleInv, ConsoleOK, RequestsOK
  <2> QED BY <1>1, <1>3, <2>1, <2>2 DEF StopInv, ConsoleInv, Calm
<1>10. Blanked' /\ FinishedInv' /\ GridInv'
  BY <1>1, <1>4 DEF Blanked, FinishedInv, GridInv
<1> QED BY <1>5, <1>6, <1>8, <1>9, <1>10 DEF ConsoleInv

\* handleScanStart, accepted or refused.
LEMMA ServerStartKeeps ==
  ASSUME ConsoleInv, NEW i \in Submit, ServerStart(i)
  PROVE  ConsoleInv'
<1>1. PICK pc \in {"starting", "refused"} :
        /\ subPc[i] = "sent" /\ subPc' = [subPc EXCEPT ![i] = pc]
        /\ UNCHANGED <<subAns, poll, stopping, pageVars, histVars>>
        /\ \/ pc = "starting" /\ Start(form[i])
           \/ pc = "refused" /\ UNCHANGED engineVars
  BY DEF ServerStart
<1>2. /\ EngineInv'
      /\ \/ /\ pc = "starting" /\ ctx' = ctx + 1 /\ (overlapped => overlapped') /\ ~isRunning
         \/ pc = "refused" /\ Calm
  BY <1>1, EngineStarts, EngineRests DEF ConsoleInv, ConsoleOK, PageOK
<1>3. Waiting' = Waiting /\ i \in Waiting /\ \A j \in Submit : subPc'[j] = "ok" => subPc[j] = "ok" /\ j # i
  BY <1>1 DEF Waiting, ConsoleInv, ConsoleOK, RequestsOK
<1>4. ConsoleOK'
  BY <1>1, <1>2 DEF ConsoleInv, ConsoleOK, RequestsOK, PcVals, PageOK, GridsOK, GridOK, PageGrid,
                    pageVars, gridVars, histVars
<1>5. SnapsInv'
  BY <1>1, <1>2, SnapsKeep DEF ConsoleInv
<1>6. OneTimer'
  BY <1>1, <1>3 DEF OneTimer, ConsoleInv, Never, Waiting, pageVars, histVars
<1>7. StopInv'
  <2>1. CASE pc = "starting"
    BY <1>1, <2>1 DEF StopInv, ConsoleInv, ConsoleOK, RequestsOK
  <2>2. CASE pc = "refused" /\ Calm
    <3>1. \A j \in Submit : subPc[j] \in {"starting", "ok"} => subPc'[j] = subPc[j]
      BY <1>1 DEF ConsoleInv, ConsoleOK, RequestsOK
    <3> QED BY <1>1, <2>2, <3>1 DEF StopInv, ConsoleInv, Calm, Never, pageVars, histVars
  <2> QED BY <1>2, <2>1, <2>2
<1>8. Blanked' /\ FinishedInv' /\ GridInv'
  BY <1>1, <1>3 DEF Blanked, FinishedInv, GridInv, ConsoleInv, Never, pageVars, gridVars, histVars
<1> QED BY <1>4, <1>5, <1>6, <1>7, <1>8 DEF ConsoleInv

LEMMA ServerTotalKeeps ==
  ASSUME ConsoleInv, NEW i \in Submit, ServerTotal(i)
  PROVE  ConsoleInv'
<1>1. /\ subPc[i] = "starting" /\ subPc' = [subPc EXCEPT ![i] = "ok"]
      /\ subAns' = [subAns EXCEPT ![i] = [scan |-> ctx, total |-> totalPorts]]
      /\ UNCHANGED <<poll, stopping, pageVars, histVars>>
  BY DEF ServerTotal
<1>2. EngineInv' /\ Calm /\ Remembers
  BY <1>1, EngineCalm DEF ServerTotal, ConsoleInv, ConsoleOK, Remembers, histVars
<1>3. /\ Waiting' = Waiting /\ i \in Waiting
      /\ \A j \in Submit : j # i => subPc'[j] = subPc[j] /\ subAns'[j] = subAns[j]
      /\ subPc'[i] = "ok" /\ subAns'[i].total = totalPorts
      /\ subAns' \in [Submit -> [scan : 0 .. MaxScans, total : Nat]]
  BY <1>1 DEF Waiting, ConsoleInv, ConsoleOK, RequestsOK, EngineInv, EngineOK
<1>4. ConsoleOK'
  BY <1>1, <1>2, <1>3 DEF ConsoleInv, ConsoleOK, RequestsOK, PcVals, PageOK, GridsOK, GridOK,
                          PageGrid, pageVars, gridVars, histVars
<1>5. SnapsInv' /\ FinishedInv' /\ GridInv'
  BY <1>1, <1>2, SnapsKeep, FinishedKeeps, GridKeeps DEF ConsoleInv, pageVars
<1>6. OneTimer'
  BY <1>1, <1>2, <1>3 DEF OneTimer, ConsoleInv, Never, Calm, pageVars, histVars
<1>7. StopInv'
  BY <1>3, <1>1 DEF StopInv
<1>8. Blanked'
  BY <1>1, <1>3 DEF Blanked, ConsoleInv, Never, pageVars, gridVars, histVars
<1> QED BY <1>4, <1>5, <1>6, <1>7, <1>8 DEF ConsoleInv

LEMMA StartAnsweredKeeps ==
  ASSUME ConsoleInv, NEW i \in Submit, StartAnswered(i)
  PROVE  ConsoleInv'
<1> DEFINE total == subAns[i].total
<1>1. /\ subPc[i] = "ok" /\ subPc' = [subPc EXCEPT ![i] = "done"]
      /\ subAns' = [subAns EXCEPT ![i] = NoAnswer]
      /\ locked' = TRUE /\ totalPortsCount' = total
      /\ gridNo' = gridNo + 1 /\ rolling' = <<>>
      /\ cells' = IF total > GridLimit THEN <<"placeholder">> ELSE [n \in 1 .. total |-> "pending"]
      /\ shown' = [shown EXCEPT !.label = "Scanning"]
      /\ timers' = timers \cup {i} /\ pollInterval' = i
      /\ UNCHANGED <<engineVars, poll, stopping, scanResultsList, exportsOn, gridPortMap, histVars>>
  BY DEF StartAnswered, NewGrid
<1>2. EngineInv' /\ Calm /\ Remembers
  BY <1>1, EngineRests DEF ConsoleInv, ConsoleOK, Remembers, histVars
<1>3. /\ total \in Nat /\ i # 0 /\ i \in Waiting
      /\ Waiting' = Waiting \ {i}
      /\ \A j \in Submit : subPc'[j] = "ok" => subPc[j] = "ok" /\ subAns'[j] = subAns[j]
      /\ shown' \in [scanned : Nat, total : Nat, label : Labels] /\ shown'.label = "Scanning"
      /\ shown'.total = shown.total
  <2>1. i # 0 /\ total \in Nat
    BY ConsoleAssumption DEF Submit, ConsoleInv, ConsoleOK, RequestsOK
  <2>2. Waiting' = Waiting \ {i} /\ i \in Waiting
    BY <1>1 DEF Waiting, ConsoleInv, ConsoleOK, RequestsOK
  <2>3. \A j \in Submit : subPc'[j] = "ok" => subPc[j] = "ok" /\ subAns'[j] = subAns[j]
    BY <1>1 DEF ConsoleInv, ConsoleOK, RequestsOK
  <2>4. /\ shown' \in [scanned : Nat, total : Nat, label : Labels] /\ shown'.label = "Scanning"
        /\ shown'.total = shown.total
    BY <1>1 DEF ConsoleInv, ConsoleOK, PageOK, Labels
  <2> QED BY <2>1, <2>2, <2>3, <2>4
<1> HIDE DEF total
<1>4. cells' \in Seq(Cell) /\ (total <= GridLimit => Len(cells') = total)
  <2>1. CASE total > GridLimit
    BY <1>1, <1>3, <2>1, ConsoleAssumption DEF Cell
  <2>2. CASE ~(total > GridLimit)
    BY <1>1, <1>3, <2>2 DEF Cell
  <2> QED BY <2>1, <2>2
<1>5. ConsoleOK'
  <2>1. RequestsOK'
    <3>1. NoAnswer \in [scan : 0 .. MaxScans, total : Nat]
      BY EngineAssumption DEF NoAnswer
    <3> QED BY <1>1, <3>1 DEF ConsoleInv, ConsoleOK, RequestsOK, PcVals
  <2>2. PageOK'
    BY <1>1, <1>3 DEF ConsoleInv, ConsoleOK, PageOK, histVars
  <2>3. GridsOK'
    BY <1>1, <1>4, EmptySeq DEF ConsoleInv, ConsoleOK, GridsOK, GridOK, PageGrid
  <2> QED BY <1>2, <2>1, <2>2, <2>3 DEF ConsoleOK
<1>6. SnapsInv'
  BY <1>1, <1>2, SnapsKeep DEF ConsoleInv
<1>7. OneTimer'
  BY <1>1, <1>2, <1>3 DEF OneTimer, ConsoleInv, Never, Calm, histVars
<1>8. StopInv' /\ FinishedInv'
  BY <1>1, <1>3 DEF StopInv, FinishedInv
<1>9. Blanked'
  BY <1>1, <1>3 DEF Blanked, OneTimer, ConsoleInv, Never, histVars
<1>10. GridInv'
  <2> SUFFICES ASSUME Never({"doubleSubmit", "lateAnswer"})', ~overlapped',
                      0 < total, total <= GridLimit
               PROVE  ctx' # 0 /\ Shows(PageGrid, Cardinality(work[ctx]), reported[ctx])'
    BY <1>1 DEF GridInv
  <2>1. gridPortMap = NoCells /\ total = totalPorts
    BY <1>1, <1>3 DEF Never, ConsoleInv, Blanked, OneTimer, histVars, total
  <2>2. ctx # 0 /\ total = Cardinality(work[ctx])
    BY <1>3, <2>1 DEF ConsoleInv, ConsoleOK, EngineInv, EngineOK
  <2>3. DOMAIN gridPortMap' = {} /\ Len(cells') = total
    BY <1>1, <1>4, <2>1 DEF NoCells
  <2>4. PageGrid'.map = gridPortMap' /\ PageGrid'.cells = cells'
    BY DEF PageGrid
  <2> QED BY <1>1, <2>2, <2>3, <2>4 DEF Shows, engineVars
<1> QED BY <1>5, <1>6, <1>7, <1>8, <1>9, <1>10 DEF ConsoleInv

LEMMA StartFailsKeeps ==
  ASSUME ConsoleInv, NEW i \in Submit, StartFails(i)
  PROVE  ConsoleInv'
<1>1. /\ subPc[i] \in {"refused", "sent", "ok"} /\ subPc' = [subPc EXCEPT ![i] = "done"]
      /\ subAns' = [subAns EXCEPT ![i] = NoAnswer]
      /\ UNCHANGED <<engineVars, form, poll, stopping, pageVars>>
  BY DEF StartFails, Mishap
<1>2. Remembers /\ (subPc[i] = "ok" => "lostStart" \in disturbed')
  BY DisturbAdds DEF StartFails
<1>3. EngineInv' /\ Calm
  BY <1>1, EngineRests DEF ConsoleInv, ConsoleOK
<1>4. /\ Waiting' = Waiting \ {i}
      /\ \A j \in Submit : j # i => subPc'[j] = subPc[j] /\ subAns'[j] = subAns[j]
      /\ subPc'[i] = "done"
  BY <1>1 DEF Waiting, ConsoleInv, ConsoleOK, RequestsOK
<1>5. ConsoleOK'
  <2>1. NoAnswer \in [scan : 0 .. MaxScans, total : Nat]
    BY EngineAssumption DEF NoAnswer
  <2> QED BY <1>1, <1>3, <2>1 DEF ConsoleInv, ConsoleOK, RequestsOK, PcVals, PageOK, GridsOK,
                                  GridOK, PageGrid, pageVars, gridVars
<1>6. SnapsInv' /\ FinishedInv' /\ GridInv'
  BY <1>1, <1>2, <1>3, SnapsKeep, FinishedKeeps, GridKeeps DEF ConsoleInv, pageVars
<1>7. OneTimer'
  <2>1. Never({"doubleSubmit"})' => Never({"doubleSubmit"})
    BY <1>2, NeverWas
  <2> QED BY <1>1, <1>3, <1>4, <2>1 DEF OneTimer, ConsoleInv, Calm, pageVars
<1>8. StopInv'
  <2>1. Never({"lateAnswer", "lostStart"})' =>
          Never({"lateAnswer", "lostStart"}) /\ subPc[i] \notin {"starting", "ok"}
    BY <1>1, <1>2, NeverWas DEF Never
  <2> QED BY <1>1, <1>3, <1>4, <2>1 DEF StopInv, ConsoleInv, Calm, pageVars
<1>9. Blanked'
  <2>1. Never({"doubleSubmit", "lateAnswer"})' => Never({"doubleSubmit", "lateAnswer"})
    BY <1>2, NeverWas
  <2> QED BY <1>1, <1>4, <2>1 DEF Blanked, ConsoleInv, pageVars, gridVars
<1> QED BY <1>5, <1>6, <1>7, <1>8, <1>9 DEF ConsoleInv

\* A poll that is sent, answered by the server, or lost.
LEMMA PollStepKeeps ==
  ASSUME ConsoleInv, NEW p \in PollSlots, Tick(p) \/ ServerStatus(p) \/ PollFails(p)
  PROVE  ConsoleInv'
<1>1. /\ UNCHANGED <<subPc, subAns, stopping, pageVars, disturbed, form>>
      /\ \E v : poll' = [poll EXCEPT ![p] = v]
      /\ \A q \in PollSlots : q # p => poll'[q] = poll[q]
  <2>1. \E v : poll' = [poll EXCEPT ![p] = v]
    BY Zenon DEF Tick, ServerStatus, PollFails
  <2>2. UNCHANGED <<subPc, subAns, stopping, pageVars, disturbed, form>>
    BY DEF Tick, ServerStatus, PollFails, Mishap, histVars
  <2> QED BY <2>1, <2>2 DEF ConsoleInv, ConsoleOK, RequestsOK
<1>2. EngineInv' /\ Calm /\ Remembers
  BY <1>1, EngineCalm DEF Tick, ServerStatus, PollFails, ConsoleInv, ConsoleOK, Remembers
<1>3. /\ poll'[p] \in PollVals
      /\ Len(poll'[p]) = 2 => Snap(p)' = Snapshot /\ ServerStatus(p)
  <2>1. CASE Tick(p) \/ PollFails(p)
    <3>1. \/ poll' = [poll EXCEPT ![p] = <<"sent">>]
          \/ poll' = [poll EXCEPT ![p] = <<>>]
      BY <2>1, Zenon DEF Tick, PollFails
    <3>2. p \in DOMAIN poll
      BY DEF ConsoleInv, ConsoleOK, RequestsOK
    <3>3. poll'[p] = <<"sent">> \/ poll'[p] = <<>>
      BY <3>1, <3>2, Zenon
    <3>4. poll'[p] \in PollVals
      BY <3>3, Zenon DEF PollVals
    <3>5. Len(poll'[p]) # 2
      BY <3>3
    <3> QED BY <3>4, <3>5
  <2>2. CASE ServerStatus(p)
    <3>1. poll'[p] = <<"answer", Snapshot>>
      BY <2>2 DEF ServerStatus, ConsoleInv, ConsoleOK, RequestsOK
    <3>2. Snapshot \in Snapshots
      BY DEF Snapshot, Snapshots, ConsoleInv, ConsoleOK, EngineInv, EngineOK
    <3> HIDE DEF Snapshot
    <3>3. Snap(p)' = Snapshot
      BY <3>1 DEF Snap
    <3> QED BY <2>2, <3>1, <3>2, <3>3 DEF PollVals
  <2> QED BY <2>1, <2>2
<1>4. ConsoleOK'
  <2>1. poll' \in [PollSlots -> PollVals]
    BY <1>1, <1>3 DEF ConsoleInv, ConsoleOK, RequestsOK
  <2> QED BY <1>1, <1>2, <2>1 DEF ConsoleInv, ConsoleOK, RequestsOK, PageOK, GridsOK, GridOK,
                                  PageGrid, pageVars, gridVars
\* The new answer is a snapshot of what the engine still is.
<1>5. SnapsInv'
  <2> SUFFICES ASSUME NEW q \in PollSlots, Len(poll'[q]) = 2
               PROVE  Taken(Snap(q))'
    BY DEF SnapsInv
  <2>1. CASE q # p
    <3>1. poll'[q] = poll[q] /\ Taken(Snap(q)) /\ Snap(q)' = Snap(q)
      BY <1>1, <2>1 DEF ConsoleInv, SnapsInv, Snap
    <3> QED BY <1>2, <3>1 DEF Taken, Calm
  <2>2. CASE q = p
    <3>1. /\ Snap(p)' = Snapshot /\ GetStatus
      BY <1>3, <2>2 DEF ServerStatus
    <3> DEFINE snap == Snap(p)'
    <3>2. /\ snap.scan = ctx /\ snap.running = isRunning /\ snap.total = totalPorts
          /\ snap.scanned = scannedPorts /\ snap.open = openPorts /\ snap.live = liveScanned
      BY <3>1 DEF Snapshot
    <3> HIDE DEF snap
    <3>3. UNCHANGED <<ctx, isRunning, totalPorts, scannedPorts, openPorts, reported, overlapped>>
      BY <3>1 DEF GetStatus
    <3> QED BY <2>2, <3>2, <3>3, EngineAssumption
            DEF Taken, ConsoleInv, ConsoleOK, EngineInv, EngineOK, OwnScan, snap
  <2> QED BY <2>1, <2>2
<1>6. FinishedInv' /\ GridInv'
  BY <1>1, <1>2, FinishedKeeps, GridKeeps DEF ConsoleInv, pageVars
<1>7. OneTimer' /\ StopInv' /\ Blanked'
  BY <1>1, <1>2 DEF OneTimer, StopInv, Blanked, ConsoleInv, Never, Waiting, Calm, pageVars, gridVars
<1> QED BY <1>4, <1>5, <1>6, <1>7 DEF ConsoleInv

\* The container of a poll holds at most RollCap results.
LEMMA KeptIsCapped ==
  ASSUME NEW live \in Seq(Result)
  PROVE  Kept(live) \in Seq(Result) /\ Len(Kept(live)) <= RollCap
<1> DEFINE n == Len(live)
<1>1. n \in Nat /\ RollCap \in Nat \ {0} /\ \A i \in 1 .. n : live[i] \in Result
  BY ConsoleAssumption, LenProperties, ElementOfSeq
<1>2. CASE n <= RollCap
  BY <1>2 DEF Kept
<1>3. CASE ~(n <= RollCap)
  <2>1. Kept(live) = SubSeq(live, n - RollCap + 1, n)
    BY <1>3 DEF Kept
  <2> HIDE DEF n
  <2>2. /\ n - RollCap + 1 \in Int /\ n \in Int /\ n - RollCap + 1 <= n
        /\ n - (n - RollCap + 1) + 1 = RollCap
        /\ \A i \in n - RollCap + 1 .. n : live[i] \in Result
    BY <1>1, <1>3
  <2> QED BY <2>1, <2>2, SubSeqProperties
<1> QED BY <1>2, <1>3

LEMMA PollAnsweredKeeps ==
  ASSUME ConsoleInv, NEW p \in PollSlots, PollAnswered(p)
  PROVE  ConsoleInv'
<1> DEFINE snap == Snap(p)
           over == ~snap.running
           placed == PlaceAll(PageGrid, snap.live)
<1>1. /\ Len(poll[p]) = 2 /\ poll' = [poll EXCEPT ![p] = <<>>]
      /\ \/ UNCHANGED <<cells, rolling, gridPortMap>>
         \/ /\ totalPortsCount > GridLimit
            /\ rolling' = Append(rolling, Kept(snap.live)) /\ cells' = Append(cells, "container")
            /\ UNCHANGED gridPortMap
         \/ gridPortMap' = placed.map /\ cells' = placed.cells /\ UNCHANGED rolling
      /\ scanResultsList' = snap.open
      /\ shown' = [scanned |-> snap.scanned, total |-> snap.total,
                   label |-> IF over THEN OverLabel(snap) ELSE shown.label]
      /\ \/ /\ over /\ timers' = timers \ {pollInterval} /\ pollInterval' = 0 /\ locked' = FALSE
            /\ exportsOn' = (exportsOn \/ snap.open # {})
         \/ ~over /\ UNCHANGED <<timers, pollInterval, locked, exportsOn>>
      /\ UNCHANGED <<engineVars, subPc, subAns, stopping, totalPortsCount, gridNo, form>>
  <2>1. /\ IF snap.live = <<>> THEN UNCHANGED <<cells, rolling, gridPortMap>>
                               ELSE updateGrid(snap.live)
        /\ IF over THEN /\ ClearTimer /\ locked' = FALSE
                        /\ exportsOn' = (exportsOn \/ snap.open # {})
                   ELSE UNCHANGED <<timers, pollInterval, locked, exportsOn>>
        /\ shown' = [scanned |-> snap.scanned, total |-> snap.total,
                     label |-> IF over THEN OverLabel(snap) ELSE shown.label]
        /\ Len(poll[p]) = 2 /\ poll' = [poll EXCEPT ![p] = <<>>]
        /\ scanResultsList' = snap.open
        /\ UNCHANGED <<engineVars, subPc, subAns, stopping, totalPortsCount, gridNo, form>>
    BY Zenon DEF PollAnswered, Snap, Over
  <2>2. updateGrid(snap.live) =>
          \/ /\ totalPortsCount > GridLimit
             /\ rolling' = Append(rolling, Kept(snap.live)) /\ cells' = Append(cells, "container")
             /\ UNCHANGED gridPortMap
          \/ gridPortMap' = placed.map /\ cells' = placed.cells /\ UNCHANGED rolling
    BY Zenon DEF updateGrid, PageGrid
  <2> HIDE DEF snap, over, placed
  <2> QED BY <2>1, <2>2 DEF ClearTimer
<1>2. Remembers /\ (snap.scan # ctx \/ ~locked => "lateAnswer" \in disturbed')
  BY DisturbAdds DEF PollAnswered, Snap
<1>3. EngineInv' /\ Calm
  BY <1>1, EngineRests DEF ConsoleInv, ConsoleOK
<1>4. /\ snap \in Snapshots /\ snap.live \in Seq(Result) /\ Taken(snap)
      /\ OverLabel(snap) = IF snap.scanned = snap.total THEN "Finished" ELSE "Stopped"
  <2>1. snap \in Snapshots
    <3>1. Len(poll[p]) = 2 /\ RequestsOK
      BY <1>1 DEF ConsoleInv, ConsoleOK
    <3>2. Snap(p) \in Snapshots
      BY <3>1, PollCases, EmptySeq
    <3> QED BY <3>2, Zenon
  <2>2. Taken(snap)
    BY <1>1 DEF ConsoleInv, SnapsInv
  <2>3. OverLabel(snap) = IF snap.scanned = snap.total THEN "Finished" ELSE "Stopped"
    BY Zenon DEF OverLabel
  <2> HIDE DEF snap
  <2>4. snap.live \in Seq(Result)
    BY <2>1 DEF Snapshots
  <2> QED BY <2>1, <2>2, <2>3, <2>4
<1>5. /\ GridOK(placed)
      /\ \A n \in Nat : \A T :
           Shows(PageGrid, n, T) /\ (\A i \in 1 .. Len(snap.live) : snap.live[i].target \in T)
             => Shows(placed, n, T)
  BY <1>4, PlaceAllKeeps DEF ConsoleInv, ConsoleOK, GridsOK
<1>6. /\ shown' \in [scanned : Nat, total : Nat, label : Labels]
      /\ shown'.total = snap.total
      /\ shown'.label = IF over THEN OverLabel(snap) ELSE shown.label
  <2>1. (IF over THEN OverLabel(snap) ELSE shown.label) \in Labels
    BY <1>4 DEF Labels, ConsoleInv, ConsoleOK, PageOK
  <2>2. snap.scanned \in Nat /\ snap.total \in Nat
    BY <1>4 DEF Snapshots
  <2> QED BY <1>1, <2>1, <2>2
<1>7. snap.open \in SUBSET Result /\ snap.running \in BOOLEAN
  BY <1>4 DEF Snapshots
<1> HIDE DEF snap, placed
<1>8. ConsoleOK'
  <2>1. RequestsOK'
    BY <1>1 DEF ConsoleInv, ConsoleOK, RequestsOK, PollVals
  <2>2. PageOK'
    <3>1. exportsOn' \in BOOLEAN /\ locked' \in BOOLEAN
      BY <1>1, Zenon DEF ConsoleInv, ConsoleOK, PageOK
    <3> QED BY <1>1, <1>6, <1>7, <3>1 DEF ConsoleInv, ConsoleOK, PageOK
  <2>3. GridsOK'
    <3>1. CASE UNCHANGED <<cells, rolling, gridPortMap>>
      BY <1>1, <3>1 DEF ConsoleInv, ConsoleOK, GridsOK, GridOK, PageGrid
    <3>2. CASE /\ rolling' = Append(rolling, Kept(snap.live))
               /\ cells' = Append(cells, "container") /\ UNCHANGED gridPortMap
      <4>1. rolling \in Seq(Seq(Result)) /\ cells \in Seq(Cell) /\ "container" \in Cell
        BY DEF ConsoleInv, ConsoleOK, GridsOK, GridOK, PageGrid, Cell
      <4>2. /\ rolling' \in Seq(Seq(Result)) /\ Len(rolling') = Len(rolling) + 1
            /\ rolling'[Len(rolling) + 1] = Kept(snap.live)
            /\ \A n \in 1 .. Len(rolling) : rolling'[n] = rolling[n]
        BY <1>4, <3>2, <4>1, KeptIsCapped, AppendProperties
      <4>3. \A n \in 1 .. Len(rolling') : Len(rolling'[n]) <= RollCap
        <5>1. Len(rolling) \in Nat
          BY <4>1, LenProperties
        <5>2. \A n \in 1 .. Len(rolling') : n = Len(rolling) + 1 \/ n \in 1 .. Len(rolling)
          BY <4>2, <5>1
        <5> QED BY <1>4, <4>2, <5>2, KeptIsCapped DEF ConsoleInv, ConsoleOK, GridsOK
      <4>4. cells' \in Seq(Cell)
        BY <3>2, <4>1, AppendProperties
      <4> QED BY <1>1, <3>2, <4>2, <4>3, <4>4 DEF ConsoleInv, ConsoleOK, GridsOK, GridOK, PageGrid
    <3>3. CASE gridPortMap' = placed.map /\ cells' = placed.cells /\ UNCHANGED rolling
      BY <1>1, <1>5, <3>3 DEF ConsoleInv, ConsoleOK, GridsOK, GridOK, PageGrid
    <3> QED BY <1>1, <3>1, <3>2, <3>3
  <2> QED BY <1>3, <2>1, <2>2, <2>3 DEF ConsoleOK
<1>9. SnapsInv'
  <2>1. \A q \in PollSlots : poll'[q] = poll[q] \/ Len(poll'[q]) # 2
    BY <1>1 DEF ConsoleInv, ConsoleOK, RequestsOK
  <2> QED BY <1>3, <2>1, SnapsKeep DEF ConsoleInv
\* The answer was not late: it is of the current scan and finds the page locked.
<1>10. Never({"doubleSubmit", "lateAnswer"})' =>
         /\ Never({"doubleSubmit", "lateAnswer"}) /\ snap.scan = ctx /\ locked
         /\ Never({"doubleSubmit"})
  BY <1>2, NeverWas DEF Never
<1>11. OneTimer'
  <2>1. Never({"doubleSubmit"})' => Never({"doubleSubmit"})
    BY <1>2, NeverWas
  <2> QED BY <1>1, <1>3, <2>1 DEF OneTimer, ConsoleInv, Waiting, Calm
<1>12. StopInv'
  <2>1. Never({"lateAnswer", "lostStart"})' =>
          Never({"lateAnswer", "lostStart"}) /\ snap.scan = ctx /\ locked
    BY <1>2, NeverWas DEF Never
  <2>2. CASE over
    <3>1. snap.scan = ctx => ~isRunning
      BY <1>4, <2>2 DEF Taken
    <3> QED BY <1>3, <2>1, <3>1 DEF StopInv, Calm
  <2>3. CASE ~over
    <3>1. locked' = locked /\ subPc' = subPc
      BY <1>1, <2>3
    <3> QED BY <1>3, <2>1, <3>1 DEF StopInv, Calm
  <2> QED BY <2>2, <2>3
<1>13. Blanked'
  BY <1>1, <1>6, <1>10 DEF Blanked, OneTimer, ConsoleInv, Waiting
<1>14. FinishedInv'
  <2> SUFFICES ASSUME Never({"doubleSubmit", "lateAnswer"})', ~overlapped',
                      shown'.label = "Finished", shown'.total # 0
               PROVE  FinishedInv'
    BY DEF FinishedInv
  <2>1. over /\ snap.scanned = snap.total
    BY <1>1, <1>4, <1>6, <1>10 DEF ConsoleInv, Blanked
  <2>2. /\ ctx # 0 /\ snap.total = totalPorts /\ scannedPorts = totalPorts
        /\ snap.open = openPorts
    BY <1>1, <1>4, <1>6, <1>10, <2>1 DEF Taken, engineVars
  <2> QED BY <1>1, <1>6, <2>1, <2>2 DEF FinishedInv, Exported, engineVars
<1>15. GridInv'
  <2> SUFFICES ASSUME Never({"doubleSubmit", "lateAnswer"})', ~overlapped',
                      0 < totalPortsCount, totalPortsCount <= GridLimit
               PROVE  ctx' # 0 /\ Shows(PageGrid, Cardinality(work[ctx]), reported[ctx])'
    BY <1>1 DEF GridInv
  <2> DEFINE n == Cardinality(work[ctx])
  <2>1. ctx # 0 /\ Shows(PageGrid, n, reported[ctx]) /\ ~overlapped
    BY <1>1, <1>10 DEF ConsoleInv, GridInv, engineVars
  <2>2. \A i \in 1 .. Len(snap.live) : snap.live[i].target \in reported[ctx]
    BY <1>4, <1>10, <2>1 DEF Taken
  <2>3. n \in Nat
    BY <2>1, AllReported, FS_CardinalityType DEF ConsoleInv, ConsoleOK
  <2>4. Shows(placed, n, reported[ctx])
    BY <1>5, <2>1, <2>2, <2>3 DEF snap, placed
  <2>5. ~(totalPortsCount > GridLimit)
    BY ConsoleAssumption DEF ConsoleInv, ConsoleOK, PageOK
  <2>6. \/ gridPortMap' = gridPortMap /\ cells' = cells
        \/ gridPortMap' = placed.map /\ cells' = placed.cells
    BY <1>1, <2>5
  <2> QED BY <1>1, <2>1, <2>4, <2>6 DEF Shows, PageGrid, engineVars
<1> QED BY <1>8, <1>9, <1>11, <1>12, <1>13, <1>14, <1>15 DEF ConsoleInv

-----------------------------------------------------------------------------
(* The theorems.                                                            *)

LEMMA InitInv == Init => ConsoleInv
<1> SUFFICES ASSUME Init PROVE ConsoleInv
  OBVIOUS
<1>1. EngineInv
  <2>1. EngineOK
    <3>1. liveScanned \in Seq(Result) /\ Len(liveScanned) = 0
      BY EmptySeq DEF Init, EngineInit
    <3>2. \A g \in Scan : work[g] = {} /\ reported[g] = {}
      BY DEF Init, EngineInit, Scan
    <3>3. work \in [Scan -> Jobs \cup {{}}] /\ reported \in [Scan -> SUBSET Target]
      BY DEF Init, EngineInit, Scan
    <3>4. isRunning \in BOOLEAN /\ overlapped \in BOOLEAN
      BY Zenon DEF Init, EngineInit
    <3>5. /\ ctx = 0 /\ alive = {} /\ scannedPorts = 0 /\ totalPorts = 0 /\ openPorts = {}
          /\ 0 \in 0 .. MaxScans /\ 0 <= LiveCap
      BY EngineAssumption DEF Init, EngineInit
    <3> QED BY <3>1, <3>2, <3>3, <3>4, <3>5, FS_EmptySet DEF EngineOK
  <2> QED BY <2>1 DEF EngineInv, OwnScan, Init, EngineInit
<1>2. RequestsOK /\ PageOK
  <2>1. subAns \in [Submit -> [scan : 0 .. MaxScans, total : Nat]]
    BY EngineAssumption DEF Init, NoAnswer
  <2>2. shown \in [scanned : Nat, total : Nat, label : Labels]
    BY DEF Init, Blank, Labels
  <2>3. subPc \in [Submit -> PcVals] /\ poll \in [PollSlots -> PollVals]
    BY DEF Init, PcVals, PollVals
  <2>4. stopping \in BOOLEAN /\ locked \in BOOLEAN /\ exportsOn \in BOOLEAN
    BY Zenon DEF Init
  <2> QED BY <2>1, <2>2, <2>3, <2>4 DEF Init, RequestsOK, PageOK
<1>3. GridsOK
  <2>1. /\ NoCells \in [DOMAIN NoCells -> (0 .. gridNo) \X (Nat \ {0})]
        /\ IsFiniteSet(DOMAIN NoCells)
    BY FS_EmptySet DEF NoCells
  <2>2. cells \in Seq(Cell) /\ rolling \in Seq(Seq(Result)) /\ Len(rolling) = 0
    BY EmptySeq DEF Init, Cell
  <2> QED BY <2>1, <2>2 DEF Init, GridsOK, GridOK, PageGrid
<1>4. SnapsInv /\ OneTimer /\ StopInv /\ Blanked /\ FinishedInv /\ GridInv
  BY DEF Init, EngineInit, SnapsInv, OneTimer, StopInv, Blanked, FinishedInv, GridInv,
         Waiting, Blank
<1> QED BY <1>1, <1>2, <1>3, <1>4 DEF ConsoleInv, ConsoleOK

LEMMA NextInv == ConsoleInv /\ [Next]_vars => ConsoleInv'
<1> SUFFICES ASSUME ConsoleInv, [Next]_vars PROVE ConsoleInv'
  OBVIOUS
<1>1. ASSUME NEW i \in Submit,
             \/ SubmitForm(i) \/ ServerStart(i) \/ ServerTotal(i)
             \/ StartAnswered(i) \/ StartFails(i)
      PROVE  ConsoleInv'
  BY <1>1, SubmitFormKeeps, ServerStartKeeps, ServerTotalKeeps, StartAnsweredKeeps, StartFailsKeeps
<1>2. ASSUME NEW p \in PollSlots,
             Tick(p) \/ ServerStatus(p) \/ PollAnswered(p) \/ PollFails(p)
      PROVE  ConsoleInv'
  BY <1>2, PollStepKeeps, PollAnsweredKeeps
<1>3. CASE ClickStop \/ ServerStop \/ Scanning \/ UNCHANGED vars
  BY <1>3, ScanningKeeps
<1> QED BY <1>1, <1>2, <1>3 DEF Next

\* The invariant of the console and its page holds in every reachable state: the
\* one behind the theorems below (app.js, main.go).
THEOREM ConsoleIsSound == Spec => []ConsoleInv
BY InitInv, NextInv, PTL DEF Spec

\* As long as the form is not submitted while a start is under way, the one
\* timer that is set is the one that the page can clear, and it is set exactly
\* while the controls are locked (app.js 179, 294-300).
THEOREM TimersDoNotLeak == Spec => []NoTimerLeaks
BY ConsoleIsSound, InvImplies, PTL

\* A scan that runs shows the Stop button, unless the page was told late of
\* another one or never of this one (app.js 165-169, 293-300).
THEOREM StopStaysReachable == Spec => []StopIsReachable
BY ConsoleIsSound, InvImplies, PTL

\* What the page calls finished is: every target is reported, and what it lists
\* and exports is all that was found (app.js 286-317).
THEOREM FinishedScansAreFinal == Spec => []FinishedIsFinal
BY ConsoleIsSound, InvImplies, PTL

\* Every cell that the grid gave to a result shows the result of its own target,
\* for every number of targets and every order of results (app.js 358-388).
THEOREM GridIsTruthful == Spec => []GridIsTrue
BY ConsoleIsSound, InvImplies, PTL
=============================================================================
