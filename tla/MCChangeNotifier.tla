-------------------------- MODULE MCChangeNotifier --------------------------
(* Model-checking instances of ChangeNotifier.                             *)
EXTENDS ChangeNotifier
=============================================================================
