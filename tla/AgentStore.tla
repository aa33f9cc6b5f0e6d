------------------------------ MODULE AgentStore ------------------------------
(***************************************************************************)
(* What the agent registry promises, without its mutex, its temp files and *)
(* the order of its steps: an atomic map of agents whose files always      *)
(* change together with it.                                                *)
(*                                                                         *)
(* A mutation changes the map and the agent's file in one step.  A reload  *)
(* replaces the map by files that all load.  A kill loses the map only.    *)
(* The promise ends at a power loss: it may take back a change that has    *)
(* been answered, but only to an earlier complete version of the file,     *)
(* never to anything else.  Module Registry implements this specification, *)
(* module Relay uses it as its registry.                                   *)
(***************************************************************************)
EXTENDS Changes

CONSTANT
    Unloadable  \* contents an operator may give a file that load() rejects

VARIABLES
    up,    \* the daemon is running
    reg,   \* the map readers see: agent -> config or None
    file,  \* the agents' files
    safe   \* the files as they would be found after a power loss

storeVars == <<up, reg, file, safe>>

Empty == [a \in Agents |-> None]

Init ==
    /\ up = TRUE
    /\ reg \in Registries
    /\ file = reg
    /\ safe = reg

-----------------------------------------------------------------------------
\* register, update, set_enabled, unregister: map and file change together.
Set(a, c) ==
    /\ up
    /\ reg' = [reg EXCEPT ![a] = c]
    /\ file' = [file EXCEPT ![a] = c]
    /\ safe' \in {safe, file'}
    /\ up' = up

\* The map becomes what the files say; one that does not load stops it.
Reload ==
    /\ up
    /\ file \in Registries
    /\ reg' = file
    /\ up' = up /\ UNCHANGED <<file, safe>>

\* The operator changes one file, with the daemon running or not.
Edit(a, c) ==
    /\ file' = [file EXCEPT ![a] = c]
    /\ safe' \in {safe, file'}
    /\ up' = up /\ reg' = reg

\* What the file system shows becomes safe.
Flush ==
    /\ safe' = file
    /\ up' = up /\ UNCHANGED <<reg, file>>

Kill ==
    /\ up
    /\ up' = FALSE
    /\ reg' = Empty
    /\ UNCHANGED <<file, safe>>

\* With the daemon running or not.
PowerLoss ==
    /\ up' = FALSE
    /\ reg' = Empty
    /\ \E old \in SUBSET Agents :
           file' = [a \in Agents |-> IF a \in old THEN safe[a] ELSE file[a]]
    /\ safe' = file'

Start ==
    /\ ~up
    /\ file \in Registries
    /\ up' = TRUE
    /\ reg' = file
    /\ UNCHANGED <<file, safe>>

Next ==
    \/ \E a \in Agents, c \in Configs \cup {None} : Set(a, c)
    \/ \E a \in Agents, c \in Configs \cup {None} \cup Unloadable : Edit(a, c)
    \/ Reload \/ Flush \/ Kill \/ PowerLoss \/ Start

Spec == Init /\ [][Next]_storeVars
=============================================================================
