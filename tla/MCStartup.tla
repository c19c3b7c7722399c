------------------------------ MODULE MCStartup ------------------------------
(***************************************************************************)
(* Startup with two process ids that are read as they were written.        *)
(***************************************************************************)
EXTENDS Startup
CONSTANTS p1, p2
MCCut == [p \in Pid |-> p]
=============================================================================
