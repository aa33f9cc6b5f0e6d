----------------------------- MODULE MCAgentdctl ------------------------------
(* An instance of Agentdctl for TLC: two commands at once on one agent with  *)
(* two fields, each of which a flag may change.                              *)
EXTENDS Agentdctl

CONSTANTS a1, b1, b2, c1, c2

MCFlags ==
    {[enabled |-> FALSE, body |-> None],
     [enabled |-> None, body |-> b2]}
=============================================================================
