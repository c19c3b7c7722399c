----------------------------- MODULE MCDiscover -----------------------------
(***************************************************************************)
(* Discover with devices of two services, one of which has a               *)
(* characteristic with a descriptor, the other a characteristic, or with   *)
(* some of these attributes.                                               *)
(***************************************************************************)
EXTENDS Discover, TLC
CONSTANTS h1, h2, s1, s2, c1, c2, d1
MCTimer == {"discover"}
MCTree == {<<s1, "device">>, <<s2, "device">>, <<c1, s1>>, <<c2, s2>>, <<d1, c1>>}
MCParentOf == [a \in Attr |-> (CHOOSE e \in MCTree : e[1] = a)[2]]
MCHandles == Permutations(Handle)
=============================================================================
