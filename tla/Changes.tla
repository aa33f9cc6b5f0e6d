-------------------------------- MODULE Changes -------------------------------
(***************************************************************************)
(* Agent configurations and the changes the registry announces             *)
(* (AgentConfig, Change and the diff of Registry::reload, src/registry.rs).*)
(***************************************************************************)

CONSTANTS
    Agents,  \* agent ids
    Bodies,  \* the fields of a config other than enabled, taken together
    None     \* not registered

Configs == [enabled : BOOLEAN, body : Bodies]

ASSUME NoneIsNoConfig == None \notin Configs

Registries == [Agents -> Configs \cup {None}]

\* Mutant of ChangeKind: Enabled and Disabled swapped.
ChangeKindSwapped(was, is) ==
    IF was = is THEN None
    ELSE IF was = None THEN "Added"
    ELSE IF is = None THEN "Removed"
    ELSE IF was.enabled = is.enabled THEN "Updated"
    ELSE IF is.enabled THEN "Disabled" ELSE "Enabled"

\* The variant a reload announces for an agent; None when nothing changed.
\* A flip of enabled hides every other field's change.
ChangeKind(was, is) ==
    IF was = is THEN None
    ELSE IF was = None THEN "Added"
    ELSE IF is = None THEN "Removed"
    ELSE IF was.enabled = is.enabled THEN "Updated"
    ELSE IF is.enabled THEN "Enabled" ELSE "Disabled"

Changed(old, new) == {a \in Agents : ChangeKind(old[a], new[a]) # None}
=============================================================================
