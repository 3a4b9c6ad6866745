---------------------------- MODULE MCNativeTun ----------------------------
(* Model-checking instances of NativeTun.                                  *)
EXTENDS NativeTun
=============================================================================
