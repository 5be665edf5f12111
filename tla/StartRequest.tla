---------------------------- MODULE StartRequest ----------------------------
(***************************************************************************)
(* The first half of PortScanner.Start (practical3/scanner/scanner.go): the *)
(* target field and then the port field of a request are turned into lists, *)
(* all of it while ps.mu is held, and the request is refused or accepted.   *)
(* An accepted one is a request of module PortScanner.                      *)
(***************************************************************************)
EXTENDS Targets, PortList

CONSTANTS Typed    \* the pairs of a target field and a port field that are tried

ASSUME TypedAssumption == Typed \subseteq TargetField \X Seq(Token)

VARIABLES
  verdict,   \* "pending" while ps.mu is held, then "refused" or "accepted"
  total      \* ps.totalPorts

requestVars == <<targetVars, portVars, verdict, total>>

RequestInit ==
  /\ \E t \in Typed : input = t[1] /\ field = t[2]
  /\ TargetsInit /\ PortsInit
  /\ verdict = "pending" /\ total = 0

\* ParseTargets, then, if it found an address, ParsePorts.
ParseTargetField ==
  /\ verdict = "pending"
  /\ TargetsNext
  /\ UNCHANGED <<portVars, verdict, total>>
ParsePortField ==
  /\ verdict = "pending"
  /\ targetPc = "done" /\ ips # <<>>
  /\ PortsNext
  /\ UNCHANGED <<targetVars, verdict, total>>

\* An error of either, or an empty list, refuses the request.
HasPorts == portPc = "done" /\ ports # <<>>
Refuse ==
  /\ verdict = "pending"
  /\ \/ targetPc = "error" \/ (targetPc = "done" /\ ips = <<>>)
     \/ portPc = "error" \/ (portPc = "done" /\ ports = <<>>)
  /\ verdict' = "refused"
  /\ UNCHANGED <<targetVars, portVars, total>>
Accept ==
  /\ verdict = "pending"
  /\ HasPorts
  /\ verdict' = "accepted"
  /\ total' = Len(ips) * Len(ports)
  /\ UNCHANGED <<targetVars, portVars>>

RequestNext == ParseTargetField \/ ParsePortField \/ Refuse \/ Accept
RequestSpec == RequestInit /\ [][RequestNext]_requestVars

\* The goroutine of the request is scheduled, and a name lookup returns.
RequestFairSpec == RequestSpec /\ WF_requestVars(RequestNext)

-----------------------------------------------------------------------------
\* Both parsers and the request itself have their types.
RequestTypeOK ==
  /\ TargetsTypeOK /\ PortsTypeOK
  /\ verdict \in {"pending", "refused", "accepted"} /\ total \in Nat

\* The port list is exactly what the field means and has no port twice, and the
\* size of an accepted scan is not zero: it has one probe for every listed address
\* and every different port (Start 127-147 and 159).  Module PortScanner assumes
\* this of its requests.  The probes are also of different pairs of an address and
\* a port, unless the target is a host name: a lookup may yield an address twice,
\* which is then probed twice.
ProbesAsked == {<<i, ports[j]>> : i \in 1 .. Len(ips), j \in 1 .. Len(ports)}
PairsAsked  == {<<ips[i], ports[j]>> : i \in 1 .. Len(ips), j \in 1 .. Len(ports)}
TotalIsExact ==
  RequestTypeOK /\ SliceIsExact /\ (verdict = "accepted" =>
    /\ total > 0
    /\ total = Cardinality(ProbesAsked)
    /\ input.form # "host" => total = Cardinality(PairsAsked))

\* Start returns: parsing cannot hold ps.mu, which GetStatus and Stop need, for
\* ever.  (A network of prefix length 0 is excluded, see Networks.)
StartReturns == <>(verdict # "pending")
=============================================================================
