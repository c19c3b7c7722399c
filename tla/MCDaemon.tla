------------------------------ MODULE MCDaemon ------------------------------
(***************************************************************************)
(* Daemon on small instances.                                              *)
(***************************************************************************)
EXTENDS Daemon, TLC
CONSTANTS h1, h2, a1, a2
MCTimer == {"scan", "connect"}
Symmetry == Permutations(Handle) \cup Permutations(Addr)
=============================================================================
