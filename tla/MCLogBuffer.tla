---------------------------- MODULE MCLogBuffer ----------------------------
(* Model-checking instances of LogBuffer.                                  *)
EXTENDS LogBuffer, TLC

Symmetry == Permutations(Writers) \cup Permutations(Pollers)
=============================================================================
