---------------------------- MODULE MCRemoteRun -----------------------------
(* RemoteRun for TLC: the constants are given in the .cfg files.           *)
EXTENDS RemoteRun
=============================================================================
