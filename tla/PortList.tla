------------------------------ MODULE PortList ------------------------------
(***************************************************************************)
(* How the scanner turns its port field into a list of ports: ParsePorts of *)
(* practical3/scanner/scanner.go.  A token of the comma-separated field is  *)
(* a step.                                                                  *)
(***************************************************************************)
EXTENDS Naturals, Sequences, FiniteSets, SequencesExt

CONSTANTS
  MaxPort      \* 65535 in the code

\* A trimmed token: nothing, one number, two numbers around a "-", or text
\* that strconv.Atoi or the split refuses.
Blank       == [form |-> "blank"]
One(p)      == [form |-> "one", port |-> p]
Span(p, q)  == [form |-> "span", from |-> p, to |-> q]
Garbage     == [form |-> "garbage"]
Token       == {Blank, Garbage} \cup [form : {"one"}, port : Nat]
                 \cup [form : {"span"}, from : Nat, to : Nat]

ASSUME PortAssumption == MaxPort \in Nat \ {0}

VARIABLES
  field,     \* the port field: the sequence of its tokens
  portPc,        \* "tokens", "done" or "error"
  next,      \* the token the loop is at
  portMap,   \* the ports seen so far
  ports      \* the resulting slice

portVars == <<field, portPc, next, portMap, ports>>

PortsInit ==
  /\ portPc = IF field = <<>> THEN "error" ELSE "tokens"
  /\ next = 1
  /\ portMap = {}
  /\ ports = <<>>

\* A span is read upwards whichever way it was typed.
First(t) == t.from                                             \* mutant
Low(t)   == IF t.from > t.to THEN t.to ELSE t.from
High(t)  == IF t.from > t.to THEN t.from ELSE t.to
PortsOf(t) ==
  CASE t.form = "blank"   -> {}
    [] t.form = "garbage" -> {}
    [] t.form = "one"     -> {t.port}
    [] t.form = "span"    -> Low(t) .. High(t)

InRange(p) == p >= 1 /\ p <= MaxPort
Accepted(t) ==
  CASE t.form = "blank"   -> TRUE
    [] t.form = "garbage" -> FALSE
    [] t.form = "one"     -> InRange(t.port)
    [] t.form = "span"    -> InRange(Low(t)) /\ InRange(High(t))

ReadToken ==
  /\ portPc = "tokens" /\ next <= Len(field)
  /\ IF Accepted(field[next])
       THEN /\ portMap' = portMap \cup PortsOf(field[next])
            /\ next' = next + 1 /\ portPc' = portPc
       ELSE /\ portPc' = "error"
            /\ UNCHANGED <<next, portMap>>
  /\ UNCHANGED <<field, ports>>

\* The map is turned into a slice in the order Go ranges over it, which is
\* any order.
Finish ==
  /\ portPc = "tokens" /\ next > Len(field)
  /\ portPc' = "done"
  /\ ports' \in SetToSeqs(portMap)
  /\ UNCHANGED <<field, next, portMap>>

PortsNext == ReadToken \/ Finish

-----------------------------------------------------------------------------
\* Every variable has its type.
PortsTypeOK ==
  /\ portPc \in {"tokens", "done", "error"}
  /\ next \in 1 .. Len(field) + 1
  /\ portMap \subseteq 1 .. MaxPort
  /\ \A i \in 1 .. Len(ports) : ports[i] \in 1 .. MaxPort

\* What the field says, token by token.
Means(t, p) == \/ t.form = "one" /\ p = t.port
               \/ /\ t.form = "span"
                  /\ (t.from <= p /\ p <= t.to) \/ (t.to <= p /\ p <= t.from)
Written(t) == CASE t.form = "one"  -> {t.port}
                [] t.form = "span" -> {t.from, t.to}
                [] OTHER           -> {}
Valid(t) == t.form # "garbage" /\ Written(t) \subseteq 1 .. MaxPort

\* A field is refused exactly if some token of it is wrong, wherever it stands,
\* and otherwise the slice has every port the field means, once (ParsePorts
\* 559-606, Start 149-161 multiplies its length).
SliceIsExact ==
  /\ portPc = "error" => field = <<>> \/ \E i \in 1 .. Len(field) : ~Valid(field[i])
  /\ portPc = "done" =>
       /\ \A i \in 1 .. Len(field) : Valid(field[i])
       /\ \A p \in 0 .. MaxPort + 1 :
            Cardinality({i \in 1 .. Len(ports) : ports[i] = p}) =
              IF \E i \in 1 .. Len(field) : Means(field[i], p) THEN 1 ELSE 0
=============================================================================
