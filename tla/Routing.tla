------------------------------- MODULE Routing -------------------------------
(***************************************************************************)
(* The route table as package windev sees it through winipcfg: what        *)
(* ConfigureRouting computes from a configuration and the rows it adds and *)
(* deletes.  An address has W bits, and a prefix is the set of addresses   *)
(* it covers: a longer prefix is a smaller set.                            *)
(***************************************************************************)
EXTENDS Integers, Sequences, FiniteSets

CONSTANTS
  W,         \* the width of an address (32 in the code)
  Tun,       \* the LUID of the tunnel interface
  Phys,      \* the LUIDs of the physical interfaces
  Gateways,  \* the next hops a physical default route may have
  OnLink     \* the next hop of the tunnel's routes, 0.0.0.0

ASSUME RoutingAssumption ==
  /\ W \in Nat \ {0, 1}
  /\ Tun \notin Phys
  /\ OnLink \notin Gateways

(* The powers of two the prefixes are made of.                             *)
ASSUME PowerAssumption ==
  /\ 2^0 = 1 /\ 2^(W - 1) \in Nat \ {0, 1}
  /\ 2^W = 2 * 2^(W - 1)

Addrs == 0 .. (2^W - 1)
Prefix(a, bits) == {x \in Addrs : x \div 2^(W - bits) = a \div 2^(W - bits)}
Prefixes == {Prefix(a, b) : a \in Addrs, b \in 0 .. W}
Default == Prefix(0, 0)
Host(a) == Prefix(a, W)

(* A row of the table; destination, interface and next hop are its key.    *)
Route == [dst : Prefixes, luid : Phys \cup {Tun},
          hop : Gateways \cup {OnLink}, metric : Nat]
Row(dst, luid, hop, metric) ==
  [dst |-> dst, luid |-> luid, hop |-> hop, metric |-> metric]

(* The rows with a key: AddRoute fails when there is one.                  *)
Matching(table, dst, luid, hop) ==
  {r \in table : r.dst = dst /\ r.luid = luid /\ r.hop = hop}

(* FlushRoutes deletes every row of an interface.                          *)
FlushRoutes(table, luid) == {r \in table : r.luid # luid}

(* The rows the system may use for address a: the longest prefix, then the *)
(* lowest metric.                                                          *)
Lookup(table, a) ==
  LET covering == {r \in table : a \in r.dst}
  IN  {r \in covering :
         \A q \in covering : \/ r.dst \subseteq q.dst /\ r.dst # q.dst
                             \/ r.dst = q.dst /\ r.metric <= q.metric}

-----------------------------------------------------------------------------
(* A configuration is a sequence of peers, each with an endpoint (a set of *)
(* at most one address: a name that resolves to no IPv4 address, or an     *)
(* empty one, is the empty set) and the AllowedIPs that parse.             *)
Peer == [endpoint : {{}} \cup {{a} : a \in Addrs}, allowed : SUBSET Prefixes]

(* resolveEndpoint, when the lookups of the peers in answered succeed: the *)
(* address of the first peer that has one.                                 *)
ResolveEndpoint(peers, answered) ==
  LET have == {i \in answered : peers[i].endpoint # {}}
  IN  IF have = {} THEN {}
      ELSE peers[CHOOSE i \in have : \A j \in have : i <= j].endpoint

(* defaultRoute: the default routes off the excluded interface with the    *)
(* lowest metric; the code takes the first in the order of the table.      *)
DefaultRoutes(table, exclude) ==
  LET rows == {r \in table : r.dst = Default /\ r.luid # exclude}
  IN  {r \in rows : \A q \in rows : r.metric <= q.metric}

AllowedIPs(peers) == UNION {peers[i].allowed : i \in DOMAIN peers}

(* Mutant: no split of the default.                                        *)
TunnelPrefixesUnsplit(peers) == AllowedIPs(peers)

(* Mutant: the second half starts one bit too high.                        *)
TunnelPrefixesOverflow(peers) ==
  LET allowed == AllowedIPs(peers)
  IN  IF Default \in allowed
      THEN (allowed \ {Default}) \cup {Prefix(0, 1), Prefix(2^W, 1)}
      ELSE allowed

(* addTunnelRoutes: the prefixes it routes to the tunnel.  The default is  *)
(* split in two halves, to win over the physical default.                  *)
TunnelPrefixes(peers) ==
  LET allowed == AllowedIPs(peers)
  IN  IF Default \in allowed
      THEN (allowed \ {Default}) \cup {Prefix(0, 1), Prefix(2^(W - 1), 1)}
      ELSE allowed
=============================================================================
