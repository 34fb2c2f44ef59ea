-------------------------- MODULE MCNetworkFilter --------------------------
(* A network of eight addresses per family for TLC. *)
EXTENDS NetworkFilter

CONSTANT Named  \* interfaces that requests name

Cidrs == {<<0, 7>>, <<0, 3>>, <<4, 7>>} \cup {<<2 * i, 2 * i + 1>> : i \in 0 .. 3}
           \cup {<<i, i>> : i \in 0 .. 7}
PortRanges == {<<80, 80>>, <<1, 99>>}
NetOf(f, c, q) == [family |-> f, lo |-> c[1], hi |-> c[2], from |-> q[1], to |-> q[2]]
AllNets == {NetOf(f, c, q) : f \in {"v4", "v6"}, c \in Cidrs, q \in PortRanges}

\* The smallest network that contains both addresses.
SmallestAround(a, b) ==
  LET around == {c \in Cidrs : c[1] <= a.lo /\ a.hi <= c[2] /\ c[1] <= b.lo /\ b.hi <= c[2]}
      c == CHOOSE c \in around : \A d \in around : c[2] - c[1] <= d[2] - d[1]
  IN [a EXCEPT !.lo = c[1], !.hi = c[2]]

\* Addresses have three bits in one family and seven in the other.
MaskLen(n) ==
  (IF n.family = "v4" THEN 3 ELSE 7) - (CHOOSE k \in 0 .. 3 : 2 ^ k = n.hi - n.lo + 1)

\* Neighbours of one and of two levels with port 80 and with all ports, the own address 1
\* with its port 80, and two networks of the other family, in any order: up to four of
\* them, and five if one pair of neighbours covers the other, whose merge becomes stale.
Pairs == {NetOf("v4", <<i, i>>, q) : i \in {4, 5}, q \in PortRanges}
Pool == Pairs \cup {NetOf("v4", <<i, i>>, <<80, 80>>) : i \in {1, 6}}
          \cup {NetOf("v6", c, <<1, 99>>) : c \in {<<4, 5>>, <<6, 6>>}}
Lists == {s \in UNION {[1 .. n -> Pool] : n \in 1 .. 5} :
            /\ \A i, j \in DOMAIN s : i # j => s[i] # s[j]
            /\ Len(s) = 5 => Pairs \subseteq {s[i] : i \in DOMAIN s}}

CidrOf(f, lo, hi) == [family |-> f, lo |-> lo, hi |-> hi]
Port(from, to) == [from |-> from, to |-> to]
Request(attack, cidrs, ports, interfaces) ==
  [attack |-> attack, cidrs |-> cidrs, ports |-> ports, interfaces |-> interfaces]
SomeRequests ==
  {Request("blackhole", {}, {}, {}),
   Request("delay", {CidrOf("v4", 4, 7)}, {Port(79, 80)}, Named),
   Request("corrupt", {CidrOf("v4", 4, 4), CidrOf("v4", 6, 7)}, {}, {}),
   Request("loss", {}, {Port(81, 81), Port(80, 80)}, Named),
   Request("dns", {}, {Port(80, 80)}, {}),
   Request("bandwidth", {}, {}, {}),
   Request("bandwidth", {CidrOf("v4", 4, 7)}, {}, {}),
   Request("bandwidth", {CidrOf("v4", 2, 3), CidrOf("v6", 5, 5)}, {Port(80, 81)}, {})}

Interfaces == [eth |-> 1, wlan |-> 2]
NetAny == {CidrOf("v4", 0, 7), CidrOf("v6", 0, 7)}
\* There is one port more than any port, as 65535 is one more than 65534.
PortRangeAny == Port(1, 99)

\* Traffic between the host, 1, and four others, and what differs from it in one field.
Packet(proto, family, inbound, i, remote, rport, lport) ==
  [proto |-> proto, family |-> family, inbound |-> inbound, ifIdx |-> i,
   src |-> IF inbound THEN remote ELSE 1, sport |-> IF inbound THEN rport ELSE lport,
   dst |-> IF inbound THEN 1 ELSE remote, dport |-> IF inbound THEN lport ELSE rport]
Traffic ==
  {Packet(k[1], k[2], inbound, k[3], remote, rport, lport) :
     k \in {<<"tcp", "v4", 1>>, <<"udp", "v6", 1>>, <<"icmp", "v4", 1>>, <<"udp", "v4", 2>>},
     inbound \in BOOLEAN, remote \in {2, 4, 5, 6}, rport \in {80, 81, 100}, lport \in {80, 81}}
=============================================================================
