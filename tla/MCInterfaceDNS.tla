--------------------------- MODULE MCInterfaceDNS ---------------------------
(* Model-checking instances of InterfaceDNS: a server of each family.      *)
EXTENDS InterfaceDNS

CONSTANTS a4, a6, none, corp, nul, junk

MCFamilyOf == [s \in Servers |-> IF s = a6 THEN "inet6" ELSE "inet"]
MCLists == {<<>>, <<a4>>, <<a6>>, <<a4, a6>>}
=============================================================================
