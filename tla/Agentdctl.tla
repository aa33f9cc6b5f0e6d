------------------------------ MODULE Agentdctl -------------------------------
(***************************************************************************)
(* agentdctl (src/bin/agentdctl.rs) and the daemon's control socket        *)
(* (src/control.rs, src/main.rs).  A command is one request, except that   *)
(* update lists the agents, merges its flags over what it has read and     *)
(* sends the whole config back.  Several commands may run at once; the     *)
(* daemon may be killed or stopped, and started again, between any two     *)
(* steps.  The registry is the atomic store of module AgentStore.          *)
(***************************************************************************)
EXTENDS Changes

CONSTANTS
    Clients,  \* agentdctl processes that may run at once
    Flags     \* the flags update may be given (see FlagType)

\* None: the flag is not given.
FlagType == [enabled : BOOLEAN \cup {None}, body : Bodies \cup {None}]

ASSUME FlagsAssumption == Flags \subseteq FlagType

\* A config that register sends is enabled.
Commands ==
    [op : {"register"}, agent : Agents, cfg : {c \in Configs : c.enabled}]
        \cup [op : {"update"}, agent : Agents, flags : Flags]
        \cup [op : {"unregister", "reload"}, agent : Agents]

ASSUME NoneIsNoCommand == None \notin Commands

VARIABLES
    up,      \* the daemon runs
    reg,     \* its registry
    file,    \* agents.d
    socket,  \* the control socket's file: absent, live, stale
    pc,      \* where each client is
    cmd,     \* what it was asked to do, None when there is no such process
    cfg,     \* update: the config it has read, merged once it is to be sent
    ideal    \* history: what the commands on an agent mean when taken in turn,
             \* as long as none overlapped another or was cut off without an
             \* answer, and no file was edited

storeVars   == <<reg, file>>
clientVars  == <<pc, cmd, cfg>>
vars        == <<up, storeVars, socket, clientVars, ideal>>

Store == INSTANCE AgentStore WITH safe <- file, Unloadable <- {}

\* unlisted, closed: the connection was cut before the answer to a list, to
\* any other request.
PCs == {"none", "list", "listing", "listed", "unlisted",
        "send", "sending", "ok", "error", "closed"}

Init ==
    /\ up = FALSE
    /\ file \in Registries
    /\ reg = [a \in Agents |-> None]
    /\ socket \in {"absent", "stale"}
    /\ pc = [c \in Clients |-> "none"]
    /\ cmd = [c \in Clients |-> None]
    /\ cfg = [c \in Clients |-> None]
    /\ ideal = file

-----------------------------------------------------------------------------
(* The command line.                                                       *)

Busy(a) == {c \in Clients : cmd[c] # None /\ cmd[c].agent = a}

Goto(c, from, to) == pc[c] = from /\ pc' = [pc EXCEPT ![c] = to]

\* What commands on a mean can no longer be told from the order they ended in.
Spoil(a) == [b \in DOMAIN ideal \ {a} |-> ideal[b]]

Merge(old, f) ==
    [enabled |-> IF f.enabled = None THEN old.enabled ELSE f.enabled,
     body    |-> IF f.body = None THEN old.body ELSE f.body]

\* A process is started.
Invoke(c, k) ==
    /\ Goto(c, "none", IF k.op = "update" THEN "list" ELSE "send")
    /\ cmd' = [cmd EXCEPT ![c] = k]
    /\ ideal' = IF Busy(k.agent) = {} THEN ideal ELSE Spoil(k.agent)
    /\ UNCHANGED <<up, storeVars, socket, cfg>>

\* rpc: connect and write the request.
Connect(c) ==
    /\ socket = "live"
    /\ Goto(c, "list", "listing") \/ Goto(c, "send", "sending")
    /\ UNCHANGED <<up, storeVars, socket, cmd, cfg, ideal>>

\* Mutant of MergeFlags: only the flags are sent.
MergeFlagsAlone(c) ==
    /\ Goto(c, "listed", "send")
    /\ cfg[c] # None
    /\ cfg' = [cfg EXCEPT ![c] = cmd[c].flags]
    /\ UNCHANGED <<up, storeVars, socket, cmd, ideal>>

\* Mutant of MergeFlags: a missing --enable disables the agent.
MergeFlagsResets(c) ==
    /\ Goto(c, "listed", "send")
    /\ cfg[c] # None
    /\ cfg' = [cfg EXCEPT ![c] = [Merge(@, cmd[c].flags) EXCEPT !.enabled = cmd[c].flags.enabled = TRUE]]
    /\ UNCHANGED <<up, storeVars, socket, cmd, ideal>>

\* update: find the agent in the answer, merge the flags.
MergeFlags(c) ==
    /\ Goto(c, "listed", "send")
    /\ cfg[c] # None
    /\ cfg' = [cfg EXCEPT ![c] = Merge(cfg[c], cmd[c].flags)]
    /\ UNCHANGED <<up, storeVars, socket, cmd, ideal>>

\* The process ends.
End(c) ==
    /\ pc' = [pc EXCEPT ![c] = "none"]
    /\ cmd' = [cmd EXCEPT ![c] = None]
    /\ cfg' = [cfg EXCEPT ![c] = None]
    /\ UNCHANGED <<up, storeVars, socket>>

\* What the user means by a command, given what held before.
Meaning(k, old) ==
    CASE k.op = "register"   -> k.cfg
      [] k.op = "update"     -> Merge(old, k.flags)
      [] k.op = "unregister" -> None
      [] k.op = "reload"     -> old

\* It reports success.
Succeed(c) ==
    /\ pc[c] = "ok"
    /\ End(c)
    /\ ideal' = [a \in DOMAIN ideal |->
                    IF a = cmd[c].agent THEN Meaning(cmd[c], ideal[a]) ELSE ideal[a]]

\* It fails: no daemon to connect to, no such agent in the list, an error from
\* the daemon, or the connection was closed before the answer.  Only when the
\* request was one that changes something is it unknown whether it did.
Fail(c) ==
    /\ \/ pc[c] \in {"list", "send"} /\ socket # "live"
       \/ pc[c] = "listed" /\ cfg[c] = None
       \/ pc[c] \in {"unlisted", "error", "closed"}
    /\ End(c)
    /\ ideal' = IF pc[c] = "closed" THEN Spoil(cmd[c].agent) ELSE ideal

-----------------------------------------------------------------------------
(* The daemon.                                                             *)

ServeList(c) ==
    /\ up
    /\ Goto(c, "listing", "listed")
    /\ cfg' = [cfg EXCEPT ![c] = reg[cmd[c].agent]]
    /\ UNCHANGED <<up, storeVars, socket, cmd, ideal>>

\* The operation's existence check and its effect on the store.
Perform(c) ==
    LET k == cmd[c] IN
    \/ k.op = "register"   /\ reg[k.agent] = None /\ Store!Set(k.agent, k.cfg)
    \/ k.op = "update"     /\ reg[k.agent] # None /\ Store!Set(k.agent, cfg[c])
    \/ k.op = "unregister" /\ reg[k.agent] # None /\ file[k.agent] # None
                           /\ Store!Set(k.agent, None)
    \/ k.op = "reload"     /\ Store!Reload

ServeOk(c) ==
    /\ up
    /\ Goto(c, "sending", "ok")
    /\ Perform(c)
    /\ UNCHANGED <<socket, cmd, cfg, ideal>>

\* Mutant of ServeError: no answer is written.
ServeErrorSilent(c) ==
    /\ up
    /\ pc[c] = "sending"
    /\ UNCHANGED vars

\* The check or a file operation fails.
ServeError(c) ==
    /\ up
    /\ Goto(c, "sending", "error")
    /\ UNCHANGED <<up, storeVars, socket, cmd, cfg, ideal>>

\* The registry is loaded and the consumers are synced ...
Start ==
    /\ Store!Start
    /\ UNCHANGED <<socket, clientVars, ideal>>

\* Mutant of Bind: an existing file is left alone.
BindNoRemove ==
    /\ up /\ socket = "absent"
    /\ socket' = "live"
    /\ UNCHANGED <<up, storeVars, clientVars, ideal>>

\* ... then the socket is bound; a file left behind is removed first.
Bind ==
    /\ up /\ socket # "live"
    /\ socket' = "live"
    /\ UNCHANGED <<up, storeVars, clientVars, ideal>>

\* The process ends with its connections.  An answer that was already written
\* can still be read.
Die ==
    /\ Store!Kill
    /\ \E read \in SUBSET {c \in Clients : pc[c] \in {"ok", "error"}} :
           pc' = [c \in Clients |->
                     CASE pc[c] = "listing"                                          -> "unlisted"
                       [] pc[c] \in {"sending", "ok", "error"} /\ c \notin read -> "closed"
                       [] OTHER                                                     -> pc[c]]
    /\ UNCHANGED <<cmd, cfg, ideal>>

\* A graceful exit removes the socket's file, a kill does not.  The exit follows
\* a drain, during which the socket is served as before: what clients do then
\* is a step before this one.  (Module Relay has the drain.)
Exit == socket = "live" /\ Die /\ socket' = "absent"
Kill == Die /\ socket' = IF socket = "live" THEN "stale" ELSE socket

\* The operator edits an agent's file.
Edit(a, f) ==
    /\ Store!Edit(a, f)
    /\ ideal' = Spoil(a)
    /\ UNCHANGED <<socket, clientVars>>

-----------------------------------------------------------------------------
Client(c) == Connect(c) \/ MergeFlags(c) \/ Succeed(c) \/ Fail(c)
Serve(c)  == ServeList(c) \/ ServeOk(c) \/ ServeError(c)

Next ==
    \/ \E c \in Clients : (\E k \in Commands : Invoke(c, k)) \/ Client(c) \/ Serve(c)
    \/ Start \/ Bind \/ Exit \/ Kill
    \/ \E a \in Agents, f \in Configs \cup {None} : Edit(a, f)

Spec == Init /\ [][Next]_vars

\* Processes are scheduled; the daemon answers a request it has read (it may
\* wait for the server meanwhile) and binds its socket once it is up.
FairSpec ==
    /\ Spec
    /\ WF_vars(Bind)
    /\ \A c \in Clients : WF_vars(Client(c)) /\ WF_vars(Serve(c))

-----------------------------------------------------------------------------
(* Properties.                                                             *)

TypeOK ==
    /\ up \in BOOLEAN
    /\ reg \in Registries
    /\ file \in Registries
    /\ socket \in {"absent", "live", "stale"}
    /\ pc \in [Clients -> PCs]
    /\ cmd \in [Clients -> Commands \cup {None}]
    /\ cfg \in [Clients -> Configs \cup {None}]
    /\ \E D \in SUBSET Agents : ideal \in [D -> Configs \cup {None}]

\* A command that overlaps no other is neither lost nor half done: when no
\* command on an agent is under way the registry holds exactly what the ones
\* that reported success mean, flags merged one after the other, although an
\* update reads and writes in two requests with kills, exits and restarts of
\* the daemon in between; and one that failed for any reason but a connection
\* cut before the answer has changed nothing.
InTurnNothingLost ==
    up => \A a \in DOMAIN ideal : Busy(a) = {} => reg[a] = ideal[a]

\* Every command ends, whatever becomes of the daemon.
CommandsEnd == \A c \in Clients : pc[c] # "none" ~> pc[c] = "none"

\* A daemon that stays up can be reached, whatever an earlier one left behind.
DaemonReachable == up ~> (socket = "live" \/ ~up)

-----------------------------------------------------------------------------
(* A claim of the repository that the code does not keep.                  *)

\* src/bin/agentdctl.rs: "Update a registered agent (flags merge over the
\* current config)": over the config the update replaces, that is.
FlagsMergeOverCurrent ==
    [][\A c \in Clients :
          ServeOk(c) /\ cmd[c].op = "update" =>
              LET a == cmd[c].agent IN reg'[a] = Merge(reg[a], cmd[c].flags)]_vars
=============================================================================
