-------------------------- MODULE MCControlChannel --------------------------
(* Model-checking instance of ControlChannel: the goroutines share the     *)
(* Client of one connection; TunnelMoves stands for the other connections. *)
EXTENDS ControlChannel

CONSTANT k1

MCClientOf == [c \in Callers |-> k1]
=============================================================================
