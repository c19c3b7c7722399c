------------------------------- MODULE MCModes -------------------------------
(***************************************************************************)
(* Modes with tests of one and two seconds, of less than one, of           *)
(* transmission, reception and neither, and a file of two packets.         *)
(***************************************************************************)
EXTENDS Modes
MCTimer == {"dtm"}
MCTest == {[tx |-> 1, rx |-> 2], [tx |-> Off, rx |-> 1], [tx |-> 2, rx |-> Off],
           [tx |-> 0, rx |-> 0], [tx |-> Off, rx |-> Off]}
=============================================================================
