--------------------------- MODULE ChatHubProofs ---------------------------
(***************************************************************************)
(* Why the client map of either chat server tells the truth, however        *)
(* registrations and removals overtake each other, and also when an address *)
(* comes back while the hub still has to do with its last connection.  The  *)
(* two servers differ in what they do between the registration and the      *)
(* removal of a connection; here this is a Move.                            *)
(***************************************************************************)
EXTENDS ChatHub, TLAPS, SequenceTheorems

Places == {"new", "accepted", "welcome", "reading", "leaving", "removing", "closing", "closed"}
Early  == {"new", "accepted"}
Late   == {"closing", "closed"}

mapVars == <<clients, addChan, removeChan, overtaken, met>>

Typed ==
  /\ clients \in [Addr -> Conn \cup {NoConn}]
  /\ addChan \in Seq(Conn) /\ removeChan \in Seq(Conn)
  /\ overtaken \subseteq Conn /\ met \subseteq Conn
  /\ hpc \in [Conn -> Places]

NoDup(q) == \A i, j \in 1 .. Len(q) : q[i] = q[j] => i = j

\* A connection is registered once and removed once, in its time.
OnceEach ==
  /\ NoDup(addChan) /\ NoDup(removeChan)
  /\ \A c \in Conn : c \in In(addChan) => hpc[c] \notin Early
  /\ \A c \in Conn : c \in In(removeChan) => hpc[c] \in Late
  /\ \A c \in Conn : c \in In(addChan) /\ Forgotten(c) => c \in overtaken

\* Two connections of one address that the hub has both not settled have met.
Apart ==
  \A c, d \in Conn : Twins(c, d) /\ Unsettled(c) /\ Unsettled(d) => c \in met

HubInv == Typed /\ OnceEach /\ Apart /\ MapIsTrue

-----------------------------------------------------------------------------
(* Sequences without repetition as queues.                                  *)

\* What is put into a queue is one more member.
LEMMA PutMember ==
  ASSUME NEW S, NEW q \in Seq(S), NEW c \in S
  PROVE  /\ Append(q, c) \in Seq(S)
         /\ In(Append(q, c)) = In(q) \cup {c}
         /\ NoDup(q) /\ c \notin In(q) => NoDup(Append(q, c))
         /\ Len(Append(q, c)) = Len(q) + 1 /\ Append(q, c)[Len(q) + 1] = c
         /\ \A i \in 1 .. Len(q) : Append(q, c)[i] = q[i]
<1> DEFINE r == Append(q, c)
<1>1. /\ r \in Seq(S) /\ Len(r) = Len(q) + 1 /\ r[Len(q) + 1] = c
      /\ \A i \in 1 .. Len(q) : r[i] = q[i]
  BY AppendProperties
<1>2. Len(q) \in Nat
  BY LenProperties
<1>3. In(r) = In(q) \cup {c}
  <2>1. ASSUME NEW x \in In(r) PROVE x \in In(q) \cup {c}
    <3>1. PICK i \in 1 .. Len(r) : x = r[i]
      BY <2>1 DEF In
    <3>2. i \in 1 .. Len(q) \/ i = Len(q) + 1
      BY <3>1, <1>1, <1>2
    <3> QED BY <3>1, <3>2, <1>1 DEF In
  <2>2. ASSUME NEW x \in In(q) \cup {c} PROVE x \in In(r)
    <3>1. \E i \in 1 .. Len(r) : x = r[i]
      BY <2>2, <1>1, <1>2 DEF In
    <3> QED BY <3>1 DEF In
  <2> QED BY <2>1, <2>2
<1>4. ASSUME NoDup(q), c \notin In(q) PROVE NoDup(r)
  BY <1>1, <1>2, <1>4 DEF NoDup, In
<1> QED BY <1>1, <1>3, <1>4

\* What is taken from a queue without repetition is not in it any more.
LEMMA TakeMember ==
  ASSUME NEW S, NEW q \in Seq(S), q # <<>>, NoDup(q)
  PROVE  /\ Head(q) \in S /\ Head(q) \in In(q) /\ q[1] = Head(q)
         /\ Tail(q) \in Seq(S) /\ NoDup(Tail(q))
         /\ In(Tail(q)) = In(q) \ {Head(q)}
         /\ Len(q) \in Nat \ {0} /\ Len(Tail(q)) = Len(q) - 1
         /\ \A i \in 1 .. Len(q) - 1 : Tail(q)[i] = q[i + 1]
<1> DEFINE r == Tail(q)
<1>1. /\ r \in Seq(S) /\ Len(r) = Len(q) - 1
      /\ \A i \in 1 .. Len(r) : r[i] = q[i + 1]
  BY HeadTailProperties
<1>2. Len(q) \in Nat \ {0} /\ Head(q) = q[1] /\ Head(q) \in S
  BY EmptySeq, LenProperties, HeadTailProperties
<1>3. NoDup(r)
  BY <1>1, <1>2 DEF NoDup
<1>4. In(r) = In(q) \ {Head(q)}
  <2>1. ASSUME NEW x \in In(r) PROVE x \in In(q) \ {Head(q)}
    <3>1. PICK i \in 1 .. Len(r) : x = r[i]
      BY <2>1 DEF In
    <3>2. x = q[i + 1] /\ i + 1 \in 1 .. Len(q) /\ i + 1 # 1 /\ 1 \in 1 .. Len(q)
      BY <3>1, <1>1, <1>2
    <3>3. x # q[1]
      BY <3>2 DEF NoDup
    <3> QED BY <3>2, <3>3, <1>2 DEF In
  <2>2. ASSUME NEW x \in In(q), x # Head(q) PROVE x \in In(r)
    <3>1. PICK i \in 1 .. Len(q) : x = q[i]
      BY <2>2 DEF In
    <3>2. i - 1 \in 1 .. Len(r) /\ r[i - 1] = x
      BY <3>1, <2>2, <1>1, <1>2
    <3> QED BY <3>2 DEF In
  <2> QED BY <2>1, <2>2
<1>5. Head(q) \in In(q)
  BY <1>2 DEF In
<1> QED BY <1>1, <1>2, <1>3, <1>4, <1>5

-----------------------------------------------------------------------------
(* The steps of a connection.                                               *)

\* At the start nobody is there.
LEMMA HubStarts ==
  ASSUME HubInit
  PROVE  HubInv
<1>1. /\ addChan \in Seq(Conn) /\ removeChan \in Seq(Conn)
      /\ Len(addChan) = 0 /\ Len(removeChan) = 0
  BY EmptySeq DEF HubInit
<1>2. /\ clients \in [Addr -> Conn \cup {NoConn}] /\ \A a \in Addr : clients[a] = NoConn
      /\ hpc \in [Conn -> Places] /\ \A c \in Conn : hpc[c] = "new"
      /\ overtaken = {} /\ met = {}
  BY DEF HubInit, Places
<1>3. Typed
  BY <1>1, <1>2 DEF Typed
<1>4. OnceEach
  BY <1>1, <1>2 DEF OnceEach, NoDup, In
<1>5. Apart
  BY <1>2 DEF Apart, Unsettled
<1>6. MapIsTrue
  BY <1>2, ConnAssumption DEF MapIsTrue, Present
<1> QED BY <1>3, <1>4, <1>5, <1>6 DEF HubInv

\* A step that leaves the map, its channels and the handlers alone.
LEMMA HubStays ==
  ASSUME HubInv, UNCHANGED <<mapVars, hpc>>
  PROVE  HubInv'
BY DEF HubInv, mapVars, Typed, OnceEach, NoDup, In, Forgotten, Apart, Twins, Unsettled,
  MapIsTrue, Present

\* A connection arrives and meets those of its address that are not settled.
LEMMA HubArrives ==
  ASSUME HubInv, NEW c \in Conn, Arrive(c)
  PROVE  HubInv' /\ UNCHANGED <<clients, addChan, removeChan, bcast, sendQ>>
<1> DEFINE others == {d \in Conn : Twins(c, d) /\ Unsettled(d)}
<1>1. /\ hpc \in [Conn -> Places] /\ hpc[c] = "new" /\ hpc'[c] = "accepted"
      /\ hpc' \in [Conn -> Places] /\ \A d \in Conn : d # c => hpc'[d] = hpc[d]
  BY DEF Arrive, Goto, HubInv, Typed, Places
<1>2. UNCHANGED <<clients, addChan, removeChan, bcast, sendQ, overtaken>>
  BY DEF Arrive
<1>3. /\ met \subseteq met' /\ met' \subseteq Conn /\ others \subseteq met'
      /\ others # {} => c \in met'
  BY DEF Arrive, Meet, HubInv, Typed
<1>4. Typed'
  BY <1>1, <1>2, <1>3 DEF HubInv, Typed
<1>5. /\ \A d \in Conn : (Forgotten(d)' <=> Forgotten(d)) /\ (Present(d)' <=> Present(d))
      /\ \A d \in Conn : d # c => (Unsettled(d)' <=> Unsettled(d))
  BY <1>1, <1>2 DEF Forgotten, Present, Unsettled, In
<1>6. OnceEach'
  BY <1>1, <1>2, <1>5 DEF HubInv, OnceEach, NoDup, In, Early, Late
<1>7. Apart'
  <2> SUFFICES ASSUME NEW x \in Conn, NEW y \in Conn, Twins(x, y), Unsettled(x)', Unsettled(y)'
               PROVE  x \in met'
    BY DEF Apart, Twins
  <2>1. CASE x = c
    BY <2>1, <1>3, <1>5 DEF Twins
  <2>2. CASE y = c
    BY <2>2, <1>3, <1>5 DEF Twins
  <2>3. CASE x # c /\ y # c
    BY <2>3, <1>3, <1>5 DEF HubInv, Apart
  <2> QED BY <2>1, <2>2, <2>3
<1>8. MapIsTrue'
  BY <1>2, <1>3, <1>5 DEF HubInv, MapIsTrue
<1> QED BY <1>2, <1>4, <1>6, <1>7, <1>8 DEF HubInv

\* A handler goes on without passing its registration or its removal.
LEMMA HubMoves ==
  ASSUME HubInv, NEW c \in Conn, NEW t \in Places \ {"new"},
         hpc[c] # "new", hpc' = [hpc EXCEPT ![c] = t], UNCHANGED mapVars,
         hpc[c] \in Early <=> t \in Early, hpc[c] \in Late <=> t \in Late
  PROVE  HubInv'
<1>1. /\ hpc' \in [Conn -> Places] /\ hpc'[c] = t
      /\ \A d \in Conn : d # c => hpc'[d] = hpc[d]
      /\ \A d \in Conn : /\ hpc'[d] \in Early <=> hpc[d] \in Early
                         /\ hpc'[d] \in Late <=> hpc[d] \in Late
                         /\ hpc'[d] = "new" <=> hpc[d] = "new"
  BY DEF HubInv, Typed
<1>2. /\ clients' = clients /\ addChan' = addChan /\ removeChan' = removeChan
      /\ overtaken' = overtaken /\ met' = met
  BY DEF mapVars
<1>3. Typed'
  BY <1>1, <1>2 DEF HubInv, Typed
<1>4. \A d \in Conn : /\ Forgotten(d)' <=> Forgotten(d)
                      /\ Present(d)' <=> Present(d)
                      /\ Unsettled(d)' <=> Unsettled(d)
  BY <1>1, <1>2 DEF Forgotten, Present, Unsettled, In, Early, Late
<1>5. OnceEach'
  BY <1>1, <1>2, <1>4 DEF HubInv, OnceEach, NoDup, In
<1>6. Apart'
  BY <1>2, <1>4 DEF HubInv, Apart, Twins
<1>7. MapIsTrue'
  BY <1>2, <1>4 DEF HubInv, MapIsTrue
<1> QED BY <1>3, <1>5, <1>6, <1>7 DEF HubInv

\* A connection is handed over for registration.
LEMMA HubIsHanded ==
  ASSUME HubInv, NEW c \in Conn, NEW t \in Places \ (Early \cup Late),
         hpc[c] = "accepted", hpc' = [hpc EXCEPT ![c] = t], PutAdd(c)
  PROVE  HubInv'
<1>1. /\ hpc' \in [Conn -> Places] /\ hpc'[c] = t
      /\ \A d \in Conn : d # c => hpc'[d] = hpc[d]
  BY DEF HubInv, Typed
<1>2. /\ clients' = clients /\ removeChan' = removeChan
      /\ overtaken' = overtaken /\ met' = met
      /\ addChan' = Append(addChan, c) /\ addChan \in Seq(Conn)
  BY DEF PutAdd, history, HubInv, Typed
<1>3. c \notin In(addChan) /\ c \notin In(removeChan) /\ hpc[c] \notin Late
  BY DEF HubInv, OnceEach, Early, Late
<1>4. /\ addChan' \in Seq(Conn) /\ In(addChan') = In(addChan) \cup {c} /\ NoDup(addChan')
  BY <1>2, <1>3, PutMember DEF HubInv, OnceEach
<1>5. In(addChan)' = In(addChan) \cup {c} /\ In(removeChan)' = In(removeChan)
  BY <1>4, <1>2 DEF In
<1>6. Typed'
  BY <1>1, <1>2, <1>4 DEF HubInv, Typed
<1>7. \A d \in Conn : /\ Forgotten(d)' <=> Forgotten(d)
                      /\ Present(d)' <=> Present(d)
                      /\ Unsettled(d)' <=> Unsettled(d)
  BY <1>1, <1>3, <1>5 DEF Forgotten, Present, Unsettled, Early, Late
<1>8. OnceEach'
  <2>1. NoDup(addChan)' /\ NoDup(removeChan)'
    BY <1>2, <1>4 DEF HubInv, OnceEach, NoDup
  <2>2. \A d \in Conn : (d \in In(addChan))' => hpc'[d] \notin Early
    BY <1>1, <1>5 DEF HubInv, OnceEach
  <2>3. \A d \in Conn : (d \in In(removeChan))' => hpc'[d] \in Late
    BY <1>1, <1>3, <1>5 DEF HubInv, OnceEach
  <2>4. \A d \in Conn : (d \in In(addChan))' /\ Forgotten(d)' => d \in overtaken'
    BY <1>2, <1>3, <1>5, <1>7 DEF HubInv, OnceEach, Forgotten, Late
  <2> QED BY <2>1, <2>2, <2>3, <2>4 DEF OnceEach, Early, Late
<1>9. Apart'
  BY <1>2, <1>7 DEF HubInv, Apart, Twins
<1>10. MapIsTrue'
  BY <1>2, <1>7 DEF HubInv, MapIsTrue
<1> QED BY <1>6, <1>8, <1>9, <1>10 DEF HubInv

\* A handler asks for the removal of its connection.
LEMMA HubIsAsked ==
  ASSUME HubInv, NEW c \in Conn, hpc[c] \notin Early \cup Late,
         hpc' = [hpc EXCEPT ![c] = "closing"], PutRemove(c)
  PROVE  HubInv'
<1>1. /\ hpc' \in [Conn -> Places] /\ hpc'[c] = "closing"
      /\ \A d \in Conn : d # c => hpc'[d] = hpc[d]
  BY DEF HubInv, Typed, Places
<1>2. /\ clients' = clients /\ addChan' = addChan
      /\ overtaken' = overtaken /\ met' = met
      /\ removeChan' = Append(removeChan, c) /\ removeChan \in Seq(Conn)
  BY DEF PutRemove, history, HubInv, Typed
<1>3. c \notin In(removeChan)
  BY DEF HubInv, OnceEach
<1>4. /\ removeChan' \in Seq(Conn) /\ NoDup(removeChan')
      /\ In(removeChan') = In(removeChan) \cup {c}
  BY <1>2, <1>3, PutMember DEF HubInv, OnceEach
<1>5. In(removeChan)' = In(removeChan) \cup {c} /\ In(addChan)' = In(addChan)
  BY <1>4, <1>2 DEF In
<1>6. Typed'
  BY <1>1, <1>2, <1>4 DEF HubInv, Typed
<1>7. \A d \in Conn : /\ Forgotten(d)' <=> Forgotten(d)
                      /\ Present(d)' <=> Present(d)
                      /\ Unsettled(d)' <=> Unsettled(d)
  BY <1>1, <1>3, <1>5 DEF Forgotten, Present, Unsettled, Early, Late
<1>8. OnceEach'
  <2>1. NoDup(addChan)' /\ NoDup(removeChan)'
    BY <1>2, <1>4 DEF HubInv, OnceEach, NoDup
  <2>2. \A d \in Conn : (d \in In(addChan))' => hpc'[d] \notin Early
    BY <1>1, <1>5 DEF HubInv, OnceEach, Early
  <2>3. \A d \in Conn : (d \in In(removeChan))' => hpc'[d] \in Late
    BY <1>1, <1>5 DEF HubInv, OnceEach, Late
  <2>4. \A d \in Conn : (d \in In(addChan))' /\ Forgotten(d)' => d \in overtaken'
    BY <1>2, <1>5, <1>7 DEF HubInv, OnceEach
  <2> QED BY <2>1, <2>2, <2>3, <2>4 DEF OnceEach, Early, Late
<1>9. Apart'
  BY <1>2, <1>7 DEF HubInv, Apart, Twins
<1>10. MapIsTrue'
  BY <1>2, <1>7 DEF HubInv, MapIsTrue
<1> QED BY <1>6, <1>8, <1>9, <1>10 DEF HubInv

-----------------------------------------------------------------------------
(* The steps of the broadcaster.                                            *)

\* A connection is registered: whoever else is present at its address is not
\* settled, and neither is this one, so they have met.
LEMMA HubRegisters ==
  ASSUME HubInv, Register, hpc' = hpc
  PROVE  HubInv'
<1>0. addChan # <<>> /\ Head(addChan) \in Conn
  BY TakeMember DEF Register, HubInv, Typed, OnceEach
<1> PICK c \in Conn : c = Head(addChan)
  BY <1>0
<1> DEFINE a == AddrOf[c]
<1>1. /\ addChan # <<>> /\ addChan' = Tail(addChan) /\ removeChan' = removeChan
      /\ clients' = [clients EXCEPT ![a] = c] /\ overtaken' = overtaken /\ met' = met
  BY DEF Register, history
<1>2. /\ c \in In(addChan) /\ addChan' \in Seq(Conn) /\ NoDup(addChan')
      /\ In(addChan') = In(addChan) \ {c}
  BY <1>1, TakeMember DEF HubInv, Typed, OnceEach
<1>3. In(addChan)' = In(addChan) \ {c} /\ In(removeChan)' = In(removeChan)
  <2>1. In(addChan)' = In(addChan') /\ In(removeChan)' = In(removeChan)
    BY <1>1 DEF In
  <2> QED BY <2>1, <1>2
<1>4. a \in Addr /\ clients \in [Addr -> Conn \cup {NoConn}]
      /\ \A d \in Conn : AddrOf[d] \in Addr
  BY ConnAssumption DEF HubInv, Typed
<1>5. /\ clients' \in [Addr -> Conn \cup {NoConn}] /\ clients'[a] = c
      /\ \A b \in Addr : b # a => clients'[b] = clients[b]
  BY <1>1, <1>4
<1>6. Typed'
  BY <1>1, <1>2, <1>5 DEF HubInv, Typed
<1>7. /\ \A d \in Conn : (Forgotten(d)' <=> Forgotten(d)) /\ (Unsettled(d)' => Unsettled(d))
      /\ \A d \in Conn : d # c => (Present(d)' <=> Present(d))
  BY <1>3 DEF Forgotten, Present, Unsettled
<1>8. OnceEach'
  <2>1. NoDup(addChan)' /\ NoDup(removeChan)'
    BY <1>1, <1>2 DEF HubInv, OnceEach, NoDup
  <2>2. \A d \in Conn : (d \in In(addChan))' => hpc'[d] \notin Early
    BY <1>3 DEF HubInv, OnceEach
  <2>3. \A d \in Conn : (d \in In(removeChan))' => hpc'[d] \in Late
    BY <1>3 DEF HubInv, OnceEach
  <2>4. \A d \in Conn : (d \in In(addChan))' /\ Forgotten(d)' => d \in overtaken'
    BY <1>1, <1>3, <1>7 DEF HubInv, OnceEach
  <2> QED BY <2>1, <2>2, <2>3, <2>4 DEF OnceEach, Early, Late
<1>9. Apart'
  BY <1>1, <1>7 DEF HubInv, Apart, Twins
<1>10. MapIsTrue'
  <2> SUFFICES ASSUME NEW d \in Conn
               PROVE  /\ clients'[AddrOf[d]] = d => Present(d)' \/ d \in overtaken
                      /\ Present(d)' => clients'[AddrOf[d]] = d \/ d \in met
    BY <1>1 DEF MapIsTrue
  <2>1. CASE AddrOf[d] # a
    <3>1. d # c /\ clients'[AddrOf[d]] = clients[AddrOf[d]]
      BY <2>1, <1>4, <1>5
    <3> QED BY <3>1, <1>7 DEF HubInv, MapIsTrue
  <2>2. CASE d = c
    <3>1. hpc[c] \notin Early /\ (Forgotten(c) => c \in overtaken)
      BY <1>2 DEF HubInv, OnceEach
    <3>2. Present(c)' \/ c \in overtaken
      BY <3>1, <1>2, <1>3, <1>7 DEF Present, Early
    <3> QED BY <3>2, <2>2, <1>5
  <2>3. CASE d # c /\ AddrOf[d] = a
    <3>1. Unsettled(c)
      BY <1>2 DEF HubInv, OnceEach, Unsettled, Early
    <3>2. Present(d) => Unsettled(d)
      BY DEF Present, Unsettled
    <3>3. Present(d) => d \in met
      BY <2>3, <3>1, <3>2 DEF HubInv, Apart, Twins
    <3> QED BY <3>3, <2>3, <1>5, <1>7
  <2> QED BY <2>1, <2>2, <2>3
<1> QED BY <1>6, <1>8, <1>9, <1>10 DEF HubInv

\* An address is forgotten: whoever else is present at it has met the connection
\* that asked.
LEMMA HubUnregisters ==
  ASSUME HubInv, Unregister, hpc' = hpc
  PROVE  HubInv'
<1>0. removeChan # <<>> /\ Head(removeChan) \in Conn
  BY TakeMember DEF Unregister, HubInv, Typed, OnceEach
<1> PICK c \in Conn : c = Head(removeChan)
  BY <1>0
<1> DEFINE a == AddrOf[c]
<1>1. /\ removeChan # <<>> /\ removeChan' = Tail(removeChan) /\ addChan' = addChan
      /\ clients' = [clients EXCEPT ![a] = NoConn] /\ met' = met
      /\ overtaken' = IF c \in In(addChan) THEN overtaken \cup {c} ELSE overtaken
  BY DEF Unregister, Forget
<1>2. /\ c \in In(removeChan) /\ removeChan' \in Seq(Conn) /\ NoDup(removeChan')
      /\ In(removeChan') = In(removeChan) \ {c}
  BY <1>1, TakeMember DEF HubInv, Typed, OnceEach
<1>3. In(removeChan)' = In(removeChan) \ {c} /\ In(addChan)' = In(addChan)
  <2>1. In(removeChan)' = In(removeChan') /\ In(addChan)' = In(addChan)
    BY <1>1 DEF In
  <2> QED BY <2>1, <1>2
<1>4. a \in Addr /\ clients \in [Addr -> Conn \cup {NoConn}]
      /\ \A d \in Conn : AddrOf[d] \in Addr
  BY ConnAssumption DEF HubInv, Typed
<1>5. /\ clients' \in [Addr -> Conn \cup {NoConn}] /\ clients'[a] = NoConn
      /\ \A b \in Addr : b # a => clients'[b] = clients[b]
  BY <1>1, <1>4
<1>6. overtaken \subseteq overtaken' /\ overtaken' \subseteq Conn
  BY <1>1 DEF HubInv, Typed
<1>7. Typed'
  BY <1>1, <1>2, <1>5, <1>6 DEF HubInv, Typed
<1>8. /\ \A d \in Conn : d # c => (Forgotten(d)' <=> Forgotten(d)) /\ (Present(d)' <=> Present(d))
      /\ \A d \in Conn : Unsettled(d)' => Unsettled(d)
  BY <1>3 DEF Forgotten, Present, Unsettled
<1>9. OnceEach'
  <2>1. NoDup(addChan)' /\ NoDup(removeChan)'
    BY <1>1, <1>2 DEF HubInv, OnceEach, NoDup
  <2>2. \A d \in Conn : (d \in In(addChan))' => hpc'[d] \notin Early
    BY <1>3 DEF HubInv, OnceEach
  <2>3. \A d \in Conn : (d \in In(removeChan))' => hpc'[d] \in Late
    BY <1>3 DEF HubInv, OnceEach
  <2>4. \A d \in Conn : (d \in In(addChan))' /\ Forgotten(d)' => d \in overtaken'
    BY <1>1, <1>3, <1>6, <1>8 DEF HubInv, OnceEach
  <2> QED BY <2>1, <2>2, <2>3, <2>4 DEF OnceEach, Early, Late
<1>10. Apart'
  BY <1>1, <1>8 DEF HubInv, Apart, Twins
<1>11. MapIsTrue'
  <2> SUFFICES ASSUME NEW d \in Conn
               PROVE  /\ clients'[AddrOf[d]] = d => Present(d)' \/ d \in overtaken'
                      /\ Present(d)' => clients'[AddrOf[d]] = d \/ d \in met
    BY <1>1 DEF MapIsTrue
  <2>1. CASE AddrOf[d] # a
    <3>1. d # c /\ clients'[AddrOf[d]] = clients[AddrOf[d]]
      BY <2>1, <1>4, <1>5
    <3> QED BY <3>1, <1>6, <1>8 DEF HubInv, MapIsTrue
  <2>2. CASE AddrOf[d] = a
    <3>1. clients'[AddrOf[d]] # d
      BY <2>2, <1>5, ConnAssumption
    <3>2. hpc[c] \in Late
      BY <1>2 DEF HubInv, OnceEach
    <3>3. CASE d = c
      <4>1. ~Present(c)'
        BY <3>2, <1>3 DEF Present, Forgotten, Late
      <4> QED BY <4>1, <3>1, <3>3
    <3>4. CASE d # c
      <4>1. Unsettled(c)
        BY <3>2, <1>2 DEF Unsettled, Forgotten, Late
      <4>2. Present(d) => Unsettled(d)
        BY DEF Present, Unsettled
      <4>3. Present(d) => d \in met
        BY <2>2, <3>4, <4>1, <4>2 DEF HubInv, Apart, Twins
      <4> QED BY <4>3, <3>1, <3>4, <1>8
    <3> QED BY <3>3, <3>4
  <2> QED BY <2>1, <2>2
<1> QED BY <1>7, <1>9, <1>10, <1>11 DEF HubInv

-----------------------------------------------------------------------------
(* What the queues hold.                                                    *)

\* The queues hold messages, and no more than they can; who is registered for an
\* address has it.
QueuesOK ==
  /\ Len(addChan) <= ChanCap /\ Len(removeChan) <= ChanCap
  /\ bcast \in Seq(Message) /\ Len(bcast) <= ChanCap
  /\ sendQ \in [Conn -> Seq(Message)] /\ \A c \in Conn : Len(sendQ[c]) <= SendCap
  /\ \A a \in Addr : clients[a] \in Conn => AddrOf[clients[a]] = a

\* At the start they are empty.
LEMMA QueuesStart == ASSUME HubInit PROVE QueuesOK
BY EmptySeq, CapAssumption, ConnAssumption DEF HubInit, QueuesOK

\* Nothing is put anywhere.
LEMMA QueuesSame == ASSUME QueuesOK, UNCHANGED hubVars PROVE QueuesOK'
BY DEF QueuesOK, hubVars

\* One more message in Broadcast.
LEMMA MessagePut ==
  ASSUME QueuesOK, NEW m \in Message, PutMessage(m)
  PROVE  QueuesOK' /\ UNCHANGED mapVars
<1>1. /\ Len(bcast) < ChanCap /\ bcast' = Append(bcast, m)
      /\ UNCHANGED <<clients, addChan, removeChan, sendQ, overtaken, met>>
  BY DEF PutMessage, Room, Queued, history
<1>2. bcast' \in Seq(Message) /\ Len(bcast') = Len(bcast) + 1 /\ Len(bcast) \in Nat
  BY <1>1, AppendProperties, LenProperties DEF QueuesOK
<1>3. Len(bcast') <= ChanCap
  BY <1>1, <1>2, CapAssumption
<1> QED BY <1>1, <1>2, <1>3 DEF QueuesOK, mapVars

\* A connection in one of the other two channels.
LEMMA ConnectionPut ==
  ASSUME HubInv, QueuesOK, NEW c \in Conn, PutAdd(c) \/ PutRemove(c)
  PROVE  QueuesOK'
<1>1. addChan \in Seq(Conn) /\ removeChan \in Seq(Conn) /\ Len(addChan) \in Nat
      /\ Len(removeChan) \in Nat
  BY LenProperties DEF HubInv, Typed
<1>2. CASE PutAdd(c)
  <2>1. /\ Len(addChan) < ChanCap /\ addChan' = Append(addChan, c)
        /\ UNCHANGED <<clients, removeChan, bcast, sendQ>>
    BY <1>2 DEF PutAdd, Room
  <2>2. Len(addChan') <= ChanCap
    BY <1>1, <2>1, AppendProperties, CapAssumption
  <2> QED BY <2>1, <2>2 DEF QueuesOK
<1>3. CASE PutRemove(c)
  <2>1. /\ Len(removeChan) < ChanCap /\ removeChan' = Append(removeChan, c)
        /\ UNCHANGED <<clients, addChan, bcast, sendQ>>
    BY <1>3 DEF PutRemove, Room
  <2>2. Len(removeChan') <= ChanCap
    BY <1>1, <2>1, AppendProperties, CapAssumption
  <2> QED BY <2>1, <2>2 DEF QueuesOK
<1> QED BY <1>2, <1>3

\* The broadcaster registers, forgets or hands a message to the Send channels.
LEMMA BroadcasterServes ==
  ASSUME HubInv, QueuesOK, Broadcaster, hpc' = hpc
  PROVE  HubInv' /\ QueuesOK'
<1>1. CASE Register
  <2>1. /\ addChan # <<>> /\ addChan' = Tail(addChan)
        /\ clients' = [clients EXCEPT ![AddrOf[Head(addChan)]] = Head(addChan)]
        /\ UNCHANGED <<removeChan, bcast, sendQ>>
    BY <1>1 DEF Register
  <2>2. Len(addChan) \in Nat /\ Len(addChan') = Len(addChan) - 1
    BY <2>1, TakeMember DEF HubInv, Typed, OnceEach
  <2>3. Len(addChan') <= ChanCap
    BY <2>2, CapAssumption DEF QueuesOK
  <2>4. \A a \in Addr : clients'[a] \in Conn => AddrOf[clients'[a]] = a
    BY <2>1 DEF HubInv, Typed, QueuesOK
  <2>5. QueuesOK'
    BY <2>1, <2>3, <2>4 DEF QueuesOK
  <2> QED BY <1>1, <2>5, HubRegisters
<1>2. CASE Unregister
  <2>1. /\ removeChan # <<>> /\ removeChan' = Tail(removeChan)
        /\ clients' = [clients EXCEPT ![AddrOf[Head(removeChan)]] = NoConn]
        /\ UNCHANGED <<addChan, bcast, sendQ>>
    BY <1>2 DEF Unregister, Forget
  <2>2. Len(removeChan) \in Nat /\ Len(removeChan') = Len(removeChan) - 1
    BY <2>1, TakeMember DEF HubInv, Typed, OnceEach
  <2>3. Len(removeChan') <= ChanCap
    BY <2>2, CapAssumption DEF QueuesOK
  <2>4. \A a \in Addr : clients'[a] \in Conn => AddrOf[clients'[a]] = a
    BY <2>1, ConnAssumption DEF HubInv, Typed, QueuesOK
  <2>5. QueuesOK'
    BY <2>1, <2>3, <2>4 DEF QueuesOK
  <2> QED BY <1>2, <2>5, HubUnregisters
<1>3. CASE Broadcast
  <2>1. /\ bcast # <<>> /\ bcast' = Tail(bcast)
        /\ sendQ' = [c \in Conn |-> IF c \in Registered /\ SendRoom(c)
                                      THEN Append(sendQ[c], Head(bcast)) ELSE sendQ[c]]
        /\ UNCHANGED <<clients, addChan, removeChan, overtaken, met>>
    BY <1>3 DEF Broadcast, Remaining, Rest, history
  <2>2. bcast' \in Seq(Message) /\ Len(bcast') <= ChanCap /\ Head(bcast) \in Message
    BY <2>1, HeadTailProperties, LenProperties, CapAssumption DEF QueuesOK
  <2>3. ASSUME NEW c \in Conn
        PROVE  sendQ'[c] \in Seq(Message) /\ Len(sendQ'[c]) <= SendCap
    <3>1. sendQ[c] \in Seq(Message) /\ Len(sendQ[c]) \in Nat /\ Len(sendQ[c]) <= SendCap
      BY LenProperties DEF QueuesOK
    <3>2. CASE c \in Registered /\ SendRoom(c)
      <4>1. sendQ'[c] = Append(sendQ[c], Head(bcast)) /\ Len(sendQ[c]) < SendCap
        BY <2>1, <3>2 DEF SendRoom
      <4> QED BY <4>1, <3>1, <2>2, AppendProperties, CapAssumption
    <3>3. CASE ~(c \in Registered /\ SendRoom(c))
      BY <2>1, <3>1, <3>3
    <3> QED BY <3>2, <3>3
  <2>4. sendQ' \in [Conn -> Seq(Message)]
    BY <2>1, <2>3
  <2>5. QueuesOK'
    BY <2>1, <2>2, <2>3, <2>4 DEF QueuesOK
  <2>6. HubInv'
    BY <2>1, HubStays DEF mapVars
  <2> QED BY <2>5, <2>6
<1> QED BY <1>1, <1>2, <1>3 DEF Broadcaster
=============================================================================
