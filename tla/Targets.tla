------------------------------ MODULE Targets ------------------------------
(***************************************************************************)
(* How the scanner turns its target field into a list of addresses:         *)
(* ParseTargets, expandCIDR, expandIPRange and incrementIP of               *)
(* practical3/scanner/scanner.go.  An iteration of a loop is a step.  The   *)
(* code has 4 octets of 8 bits; here both numbers are parameters, so that   *)
(* the end of the address space is within reach.  An address is the         *)
(* sequence of its octets, the most significant one first.                  *)
(***************************************************************************)
EXTENDS Naturals, Sequences

CONSTANTS
  NumOctets,   \* 4 in the code
  OctetBits,   \* 8 in the code
  MaxIps,      \* bound on the length of the list under construction
  MaxFound     \* bound on the addresses that a name stands for

\* The powers of 2.
Pow2[n \in Nat] == IF n = 0 THEN 1 ELSE 2 * Pow2[n - 1]

Octet   == 0 .. Pow2[OctetBits] - 1
Address == [1 .. NumOctets -> Octet]
Bits    == NumOctets * OctetBits

\* The forms of a target field once it is trimmed: "a/ones"; "a-b"; "a-n", n
\* replacing the last octet; one address; a host name with some hyphens; text
\* with a "/" that is no network.
Cidr(a, ones)    == [form |-> "cidr", ip |-> a, ones |-> ones]
Between(a, b)    == [form |-> "range", ip |-> a, end |-> b]
Suffix(a, n)     == [form |-> "suffix", ip |-> a, octet |-> n]
Single(a)        == [form |-> "single", ip |-> a]
HostName(hyphens) == [form |-> "host", hyphens |-> hyphens]
NoNetwork        == [form |-> "nonetwork"]
TargetField ==
  [form : {"cidr"}, ip : Address, ones : 0 .. Bits]
    \cup [form : {"range"}, ip : Address, end : Address]
    \cup [form : {"suffix"}, ip : Address, octet : Octet]
    \cup [form : {"single"}, ip : Address]
    \cup [form : {"host"}, hyphens : Nat] \cup {NoNetwork}

ASSUME AddressAssumption == NumOctets \in Nat \ {0} /\ OctetBits \in Nat \ {0}
ASSUME MaxIpsAssumption == MaxIps \in Nat \ {0} /\ MaxFound \in 1 .. MaxIps

VARIABLES
  input,      \* the field
  targetPc,   \* "parse", "cidr", "range", "lookup", "done" or "error"
  curr,       \* the address the loop is at
  ips         \* the list under construction, then the result

targetVars == <<input, targetPc, curr, ips>>

\* incrementIP: an octet is incremented if all octets behind it overflow; the
\* highest address becomes 0.
Top == Pow2[OctetBits] - 1
NoCarry(ip) == [ip EXCEPT ![NumOctets] = (@ + 1) % Pow2[OctetBits]]   \* mutant
incrementIP(ip) ==
  [i \in 1 .. NumOctets |->
     IF \A j \in i + 1 .. NumOctets : ip[j] = Top THEN (ip[i] + 1) % Pow2[OctetBits]
                                                  ELSE ip[i]]

\* bytes.Compare(a, b) > 0
Greater(a, b) ==
  \E i \in 1 .. NumOctets : a[i] > b[i] /\ \A j \in 1 .. i - 1 : a[j] = b[j]

\* ip.Mask: octet i keeps the bits of the prefix that fall into it.
Kept(i, ones) ==
  LET before == (i - 1) * OctetBits IN
  IF ones <= before THEN 0
  ELSE IF ones >= before + OctetBits THEN OctetBits ELSE ones - before
Masked(ip, ones) ==
  [i \in 1 .. NumOctets |-> ip[i] - (ip[i] % Pow2[OctetBits - Kept(i, ones)])]

\* ipnet.Contains(ip) for the network of the input.
InNetwork(ip) == Masked(ip, input.ones) = Masked(input.ip, input.ones)

TargetsInit ==
  /\ targetPc = "parse"
  /\ curr = [i \in 1 .. NumOctets |-> 0]
  /\ ips = <<>>

-----------------------------------------------------------------------------
\* ParseTargets looks at the field only: "/" first, then exactly one "-", then
\* an address, then a name.  A part of a name is no address.
ParseTargets ==
  /\ targetPc = "parse"
  /\ CASE input.form = "cidr" ->
            targetPc' = "cidr" /\ curr' = Masked(input.ip, input.ones) /\ ips' = ips
       [] input.form \in {"range", "suffix"} ->
            targetPc' = "range" /\ curr' = input.ip /\ ips' = ips
       [] input.form = "single" ->
            targetPc' = "done" /\ ips' = <<input.ip>> /\ curr' = curr
       [] input.form = "nonetwork" ->
            targetPc' = "error" /\ UNCHANGED <<curr, ips>>
       [] input.form = "host" ->
            /\ targetPc' = IF input.hyphens = 1 THEN "error" ELSE "lookup"
            /\ UNCHANGED <<curr, ips>>
  /\ UNCHANGED input

\* expandCIDR: the addresses of the network ...
CidrNext ==
  /\ targetPc = "cidr"
  /\ InNetwork(curr)
  /\ Len(ips) < MaxIps
  /\ ips' = Append(ips, curr)
  /\ curr' = incrementIP(curr)
  /\ UNCHANGED <<input, targetPc>>

\* ... without the first and the last of them, if it has more than 2.
HostsOnly == Bits - input.ones > 1 /\ Len(ips) > 2
CidrDone ==
  /\ targetPc = "cidr"
  /\ ~InNetwork(curr)
  /\ ips' = IF HostsOnly THEN SubSeq(ips, 2, Len(ips) - 1) ELSE ips
  /\ targetPc' = "done"
  /\ UNCHANGED <<input, curr>>

\* expandIPRange: the last octet alone takes the others from the start.
RangeEnd == IF input.form = "suffix" THEN [input.ip EXCEPT ![NumOctets] = input.octet]
                                     ELSE input.end
AtOrPastEnd(ip) == ip = RangeEnd \/ Greater(ip, RangeEnd)      \* mutant
PastEnd(ip) == Greater(ip, RangeEnd)
RangeNext ==
  /\ targetPc = "range"
  /\ Len(ips) < MaxIps
  /\ ips' = Append(ips, curr)
  /\ IF curr = RangeEnd \/ PastEnd(incrementIP(curr))
       THEN targetPc' = "done" /\ curr' = curr
       ELSE targetPc' = targetPc /\ curr' = incrementIP(curr)
  /\ UNCHANGED input

\* net.LookupIP fails or yields addresses, of which the IPv4 ones are kept, all
\* of them and as often as they come; without one it is an error.
Found == UNION {[1 .. n -> Address] : n \in 1 .. MaxFound}
LookupHost ==
  /\ targetPc = "lookup"
  /\ \/ targetPc' = "error" /\ ips' = ips
     \/ targetPc' = "done" /\ ips' \in Found
  /\ UNCHANGED <<input, curr>>

TargetsNext == ParseTargets \/ CidrNext \/ CidrDone \/ RangeNext \/ LookupHost

-----------------------------------------------------------------------------
(* What the lists must be, stated on numbers.                               *)

\* The number an address stands for.
Number(ip) ==
  LET value[i \in 0 .. NumOctets] ==
        IF i = 0 THEN 0 ELSE value[i - 1] * Pow2[OctetBits] + ip[i]
  IN value[NumOctets]
Numbers == [i \in 1 .. Len(ips) |-> Number(ips[i])]

\* A list of consecutive numbers.
From(lo, hi) == [i \in 1 .. (hi + 1 - lo) |-> lo + i - 1]

\* Every variable has its type, and the bound on the list is never reached.
TargetsTypeOK ==
  /\ targetPc \in {"parse", "cidr", "range", "lookup", "done", "error"}
  /\ curr \in Address
  /\ Len(ips) <= MaxIps /\ \A i \in 1 .. Len(ips) : ips[i] \in Address

\* The list of a network must be the block of 2^(Bits - ones) addresses that
\* holds the given one, without its first and last when it has more than two
\* (expandCIDR 469-481; 475: "For subnets larger than /31, remove network
\* address (.0) and broadcast address (.255)").
CidrIsBlock ==
  targetPc = "done" /\ input.form = "cidr" =>
    LET size == Pow2[Bits - input.ones]
        low  == Number(input.ip) - (Number(input.ip) % size)
    IN Numbers = IF size > 2 THEN From(low + 1, low + size - 2)
                             ELSE From(low, low + size - 1)

\* The list of a range must be every address from the first to the last; when the
\* last is below the first it is the first alone -- unless the first is the
\* highest address of all (expandIPRange 519-534).
RangeIsInterval ==
  targetPc = "done" /\ input.form \in {"range", "suffix"} =>
    LET lo == Number(input.ip)
        hi == Number(RangeEnd)
    IN lo = Pow2[Bits] - 1 \/ Numbers = IF lo <= hi THEN From(lo, hi) ELSE <<lo>>

\* A scan of a network or a range, in either of its forms, is of the addresses the
\* target field means: one that is left out is never probed, and one too many is
\* somebody else's.
TargetsAreExact == CidrIsBlock /\ RangeIsInterval
=============================================================================
