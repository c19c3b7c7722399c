------------------------------- MODULE MCGatt -------------------------------
(***************************************************************************)
(* Gatt with devices of up to two characteristics, one of them written     *)
(* without a response, and one characteristic of the NCP.                  *)
(***************************************************************************)
EXTENDS Gatt, TLC
CONSTANTS h1, h2, c1, c2, l1
MCHandles == Permutations(Handle)
=============================================================================
