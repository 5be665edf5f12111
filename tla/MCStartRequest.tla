--------------------------- MODULE MCStartRequest ---------------------------
(* Small address spaces and port fields for StartRequest, with numbers on    *)
(* both sides of the legal range of ports.                                   *)
EXTENDS StartRequest

Ranges   == {Between(a, b) : a, b \in Address}
              \cup {Suffix(a, n) : a \in Address, n \in Octet}
\* Prefix length 0 is left out: the loop of expandCIDR never ends on it.
Networks == {Cidr(a, k) : a \in Address, k \in 1 .. Bits}
Others   == {Single(a) : a \in Address} \cup {HostName(n) : n \in 0 .. 2}
              \cup {NoNetwork}
AllInputs == Ranges \cup Networks \cup Others

Tokens == {Blank, Garbage} \cup {One(p) : p \in 0 .. MaxPort + 1}
            \cup {Span(p, q) : p, q \in 0 .. MaxPort + 1}
AllFields == UNION {[1 .. n -> Tokens] : n \in 0 .. 2}

\* Every target field with one port field, and every port field with one
\* target field.
TypedFields == (AllInputs \X {<<Span(2, 1)>>})
                 \cup ({Single([i \in 1 .. NumOctets |-> 1])} \X AllFields)
=============================================================================
