--------------------------- MODULE MCControlLease ---------------------------
(* ControlLease for TLC: the constants are given in the .cfg file.         *)
EXTENDS ControlLease
=============================================================================
