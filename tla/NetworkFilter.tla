---------------------------- MODULE NetworkFilter ----------------------------
(***************************************************************************)
(* From the parameters of a network attack to the packets it affects:      *)
(* the providers of the six attacks (action_network*.go), four of which    *)
(* condense the endpoints to protect as CondenseNets says, and             *)
(* buildWinDivertFilter (network/windivert.go), whose filter WinDivert     *)
(* evaluates per packet.  A bandwidth limit is a set of QoS policies,      *)
(* which Windows applies to what leaves for their networks and ports.      *)
(***************************************************************************)
EXTENDS CondenseNets

CONSTANTS
  Requests,   \* parameters: attack, cidrs, ports and interfaces
  Interface,  \* interface names of the host -> their index
  AnyNet,     \* akn.NetAny, as networks without ports
  AnyPort,    \* akn.PortRangeAny
  Packets,    \* records with proto, family, inbound, ifIdx, src, sport, dst and dport
  NoFilter    \* the filter has not been built yet

Cidr == [family : STRING, lo : Nat, hi : Nat]
PortRange == [from : Nat, to : Nat]

ASSUME FilterAssumption ==
  /\ AnyNet \subseteq Cidr /\ AnyPort \in PortRange
  /\ \A r \in Requests :
       /\ r.attack \in {"blackhole", "delay", "corrupt", "loss", "dns", "bandwidth"}
       /\ r.cidrs \subseteq Cidr /\ r.ports \subseteq PortRange
       \* Two attacks have no parameter for interfaces, one has none for networks and
       \* requires a port.
       /\ r.attack \in {"dns", "bandwidth"} => r.interfaces = {}
       /\ r.attack = "dns" => r.cidrs = {} /\ r.ports # {}

\* Any address is in 0.0.0.0/0 or in ::/0.  That any port is in AnyPort is not assumed: the
\* largest one a parameter takes is 65534 (action_network_dns.go:55, utils/network_test.go:170).
ASSUME PacketAssumption ==
  \A p \in Packets :
    /\ p.inbound \in BOOLEAN
    /\ \A a \in {p.src, p.dst} : \E n \in AnyNet : p.family = n.family /\ a \in n.lo .. n.hi
    /\ p.proto \in {"tcp", "udp"} => p.sport \in Nat /\ p.dport \in Nat

VARIABLES request, filter

filterVars == <<condenseVars, request, filter>>

-----------------------------------------------------------------------------
(* Prepare.  nwps are the restricted endpoints and, except for a bandwidth   *)
(* limit, the extension's own ports.                                         *)

OrAny(given, any) == IF given = {} THEN any ELSE given

WithPorts(cidrs, ports) ==
  {[family |-> c.family, lo |-> c.lo, hi |-> c.hi, from |-> p.from, to |-> p.to] :
     c \in cidrs, p \in ports}
Includes(r) == WithPorts(OrAny(r.cidrs, AnyNet), OrAny(r.ports, {AnyPort}))

\* Names that the host does not have are dropped by akn.GetNetworkInterfaceIndexesByName.
InterfaceIndexes(r) == {Interface[i] : i \in r.interfaces \cap DOMAIN Interface}

Init == CondenseInit /\ request \in Requests /\ filter = NoFilter

\* mapToNetworkFilter, whose result the attacks give a direction.
MapToNetworkFilter(r, direction) ==
  [include |-> Includes(r), exclude |-> {result[i] : i \in DOMAIN result},
   ifIdx |-> InterfaceIndexes(r), direction |-> direction]

Blackhole(r) == r.attack = "blackhole" /\ filter' = MapToNetworkFilter(r, "All")
Delay(r) == r.attack = "delay" /\ filter' = MapToNetworkFilter(r, "Outgoing")
CorruptPackages(r) == r.attack = "corrupt" /\ filter' = MapToNetworkFilter(r, "Outgoing")
PackageLoss(r) == r.attack = "loss" /\ filter' = MapToNetworkFilter(r, "Outgoing")

Excluding(r) == r.attack \in {"blackhole", "delay", "corrupt", "loss"}

BuildFilter ==
  /\ at = "done" /\ filter = NoFilter
  /\ \/ Blackhole(request) \/ Delay(request)
     \/ CorruptPackages(request) \/ PackageLoss(request)
  /\ UNCHANGED <<condenseVars, request>>

\* What goes out to some port, with no exclude.
OutgoingTo(nets) ==
  [include |-> nets, exclude |-> {}, ifIdx |-> {}, direction |-> "Outgoing"]

\* The attack on DNS spares nobody.
BlockDns ==
  /\ request.attack = "dns" /\ filter = NoFilter
  /\ filter' = OutgoingTo(WithPorts(AnyNet, request.ports))
  /\ UNCHANGED <<condenseVars, request>>

\* (Bug variants, each named for its bug, stand before the definition they vary.)
OverlapInside(a, b) == Covers(b, a)
Overlap(a, b) == /\ a.family = b.family
                 /\ a.lo <= b.hi /\ b.lo <= a.hi
                 /\ a.from <= b.to /\ b.from <= a.to

\* QoS policies cannot exclude: a limit that overlaps a restricted endpoint is rejected,
\* and so is one without hostname or IP.
LimitBandwidth ==
  /\ request.attack = "bandwidth" /\ filter = NoFilter
  /\ request.cidrs # {}
  /\ \A n \in Includes(request), i \in DOMAIN nwps : ~Overlap(n, nwps[i])
  /\ filter' = OutgoingTo(Includes(request))
  /\ UNCHANGED <<condenseVars, request>>

Next ==
  \/ Excluding(request) /\ CondenseNext /\ UNCHANGED <<request, filter>>
  \/ BuildFilter \/ BlockDns \/ LimitBandwidth

Spec == Init /\ [][Next]_filterVars /\ WF_filterVars(Next)

-----------------------------------------------------------------------------
(* The filter.  A test of a field that a packet does not have fails.         *)

InNet(p, addr, n) == p.family = n.family /\ addr >= n.lo /\ addr <= n.hi

HasPorts(p) == p.proto \in {"tcp", "udp"}

PortInOpen(p, port, n) == HasPorts(p) /\ port >= n.from /\ port < n.to
PortIn(p, port, n) == HasPorts(p) /\ port >= n.from /\ port <= n.to
PortNotIn(p, port, n) == HasPorts(p) /\ (port < n.from \/ port > n.to)

DirectionTest(f, p) == f.direction # "All" => p.inbound = (f.direction = "Incoming")

InterfaceTest(f, p) == f.ifIdx = {} \/ p.ifIdx \in f.ifIdx

IncludeTest(f, p) ==
  \/ f.include = {}
  \/ \E n \in f.include :
    \/ f.direction # "Incoming" /\ InNet(p, p.dst, n) /\ PortIn(p, p.dport, n)
    \/ f.direction # "Outgoing" /\ InNet(p, p.src, n) /\ PortIn(p, p.sport, n)

ExcludeDestinations(f, p) ==
  \A n \in f.exclude : InNet(p, p.dst, n) => PortNotIn(p, p.dport, n)

\* (p ? q : true) on both ends: the filter speaks of both, whatever the direction.
ExcludeTest(f, p) ==
  \A n \in f.exclude : /\ InNet(p, p.dst, n) => PortNotIn(p, p.dport, n)
                       /\ InNet(p, p.src, n) => PortNotIn(p, p.sport, n)

Affects(f, p) == /\ HasPorts(p) /\ DirectionTest(f, p) /\ InterfaceTest(f, p)
                 /\ IncludeTest(f, p) /\ ExcludeTest(f, p)

-----------------------------------------------------------------------------
(* Properties *)

Built == filter # NoFilter
Ends(p) == {[addr |-> p.src, port |-> p.sport], [addr |-> p.dst, port |-> p.dport]}
Of(p, e, n) == /\ p.family = n.family /\ e.addr \in n.lo .. n.hi
               /\ e.port \in n.from .. n.to

\* No attack that takes excludes affects traffic to or from the agent, its extensions and
\* other restricted endpoints (action_network.go:196-201), however they were condensed.
Protected(p) == \E i \in DOMAIN nwps, e \in Ends(p) : Of(p, e, nwps[i])
ProtectedUntouched ==
  Built /\ Excluding(request) => \A p \in Packets : Affects(filter, p) => ~Protected(p)

\* A bandwidth limit throttles nothing that goes to a restricted endpoint
\* (action_network_bandwidth.go:159).
Remote(p) == [addr |-> p.dst, port |-> p.dport]
LimitSparesRestricted ==
  Built /\ request.attack = "bandwidth" =>
    \A p \in Packets : Affects(filter, p) => \A i \in DOMAIN nwps : ~Of(p, Remote(p), nwps[i])

\* Otherwise an attack affects what its parameters ask for: TCP and UDP, on the
\* interfaces, to one of the networks and ports or, if it blocks both directions, from
\* one of them.  Parameters without networks ask for all of them, and parameters without
\* ports for the ports of akn.PortRangeAny (action_network.go:177-189), and for no other.
OneInterfaceExists(r) == r.interfaces = {} \/ InterfaceIndexes(r) # {}
OnInterfaces(r, p) ==
  r.interfaces = {} \/ \E i \in r.interfaces \cap DOMAIN Interface : p.ifIdx = Interface[i]
Asked(r, e, p) ==
  /\ r.cidrs = {} \/ \E c \in r.cidrs : p.family = c.family /\ e.addr \in c.lo .. c.hi
  /\ \/ r.ports = {} /\ e.port \in AnyPort.from .. AnyPort.to
     \/ \E q \in r.ports : e.port \in q.from .. q.to
Wanted(r, p) ==
  /\ p.proto \in {"tcp", "udp"} /\ OnInterfaces(r, p)
  /\ r.attack # "blackhole" => ~p.inbound
  /\ \E e \in Ends(p) : Asked(r, e, p) /\ (r.attack # "blackhole" => e = Remote(p))
AffectedAsWanted ==
  Built /\ result = nwps /\ OneInterfaceExists(request) =>
    \A p \in Packets :
      Affects(filter, p) <=> Wanted(request, p) /\ (Excluding(request) => ~Protected(p))
=============================================================================
