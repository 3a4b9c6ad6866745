-------------------------- MODULE MCInterfaceTable --------------------------
(* Model-checking instances of InterfaceTable.  One IPv4 address with two  *)
(* prefix lengths, one of them not valid, one IPv6 prefix by two next hops *)
(* (in zone 1, and in a zone known by name), and an invalid address.       *)
EXTENDS InterfaceTable

CONSTANTS tun, eth, one, name, none

MCParseUint  == [z \in Zones |-> IF z = one THEN 1 ELSE 0]
MCFormatUint == [n \in 1 .. MaxScope |-> one]

V4(w) == [is |-> "inet", word |-> w]
V6(h, z) == [is |-> "inet6", hi |-> h, lo |-> 1, zone |-> z]
Via(a, bits, hop) == [dst |-> PrefixFrom(a, bits), hop |-> hop]

MCOtherItems == {Via(V4(1), 24, V4(0)), Via(V6(1, NoZone), 64, V6(0, one))}
MCItems == MCOtherItems \cup
           {Via(V4(1), 33, V4(0)), Via(V6(1, NoZone), 64, V6(0, name)),
            Via(Invalid, 0, V4(0))}
=============================================================================
