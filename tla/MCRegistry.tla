------------------------------ MODULE MCRegistry ------------------------------
(* An instance of Registry for TLC: one agent with two configs, two callers. *)
EXTENDS Registry, TLC

CONSTANTS a1, b1, o1, o2
=============================================================================
