---------------------------- MODULE MCWinTunnel ----------------------------
(* Model-checking instances of WinTunnel.                                  *)
EXTENDS WinTunnel, TLC

Symmetry == Permutations(Callers) \cup Permutations(Names)
=============================================================================
