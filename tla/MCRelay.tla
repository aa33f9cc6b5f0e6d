------------------------------- MODULE MCRelay --------------------------------
(* Instances of Relay for TLC.                                             *)
EXTENDS Relay, TLC

CONSTANTS a1, a2, c1, c2, l1, l2, l3, l4

MCRank1 == a1 :> 1
MCRank2 == a1 :> 1 @@ a2 :> 2

\* Connections and loops are interchangeable; agents are ordered.
MCSymmetry == Permutations(Conns) \cup Permutations(Loops)
=============================================================================
