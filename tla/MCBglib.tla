------------------------------- MODULE MCBglib -------------------------------
(***************************************************************************)
(* Bglib on a small instance, and what is checked of it.                   *)
(***************************************************************************)
EXTENDS Bglib
CONSTANTS e1, c1
MCOneShot == {e1}
MCCommand == {c1}
=============================================================================
