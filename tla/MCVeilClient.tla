---------------------------- MODULE MCVeilClient ----------------------------
(* Model-checking instances of VeilClient: addresses of two bits, one or   *)
(* two physical interfaces.                                                *)
EXTENDS VeilClient

CONSTANTS tun, eth, wifi, g1, g2, onlink

Full  == [endpoint |-> {3}, allowed |-> {Default}]
Split == [endpoint |-> {2}, allowed |-> {Prefix(2, 1), Prefix(0, 2)}]
Other == [endpoint |-> {0}, allowed |-> {Prefix(0, 1)}]
Quiet == [endpoint |-> {},  allowed |-> {}]

OneServer  == {<<Split>>, <<Quiet, Full>>}
TwoServers == {<<Full, Other>>}

OneDefault  == {Row(Default, eth, g1, 0)}
TwoDefaults == OneDefault \cup {Row(Default, wifi, g2, 1)}
Pinned      == OneDefault \cup {Row(Host(3), eth, g1, 0),
                                 Row(Prefix(0, 1), eth, g1, 0)}

AllTables == {{}, TwoDefaults, Pinned}
PlainTable == {OneDefault}
=============================================================================
