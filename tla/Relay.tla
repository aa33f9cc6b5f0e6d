-------------------------------- MODULE Relay ---------------------------------
(***************************************************************************)
(* The control plane and the relay's consumers: the control operations and *)
(* SIGHUP reloads of DaemonHandle (src/control.rs), Relay::apply_changes   *)
(* with its pull loops (src/relay.rs), and the start and graceful shutdown *)
(* of the daemon (src/main.rs).                                            *)
(*                                                                         *)
(* Every control connection is a task; the main task syncs the consumers   *)
(* at start, serves SIGHUP and, on SIGTERM or Ctrl-C, shuts down.  They    *)
(* share the registry, the pulls map and the set of dispatch tasks.  A     *)
(* registry mutation is atomic (it is one of module AgentStore, which      *)
(* module Registry implements), applying its changes is not: the relay     *)
(* awaits the server for each consumer it binds.                           *)
(***************************************************************************)
EXTENDS Changes, Integers

CONSTANTS
    Rank,      \* the order of the agents' ids
    Conns,     \* control connections
    Main,      \* the main task
    Loops,     \* pull-loop tasks, reused once finished
    Signals,   \* the signals that may be sent to the daemon
    Overlap,   \* whether operations may overlap, or each waits for the last
    MaxTasks   \* bound on dispatch tasks alive at once

ASSUME RankAssumption    ==
    /\ Rank \in [Agents -> Nat]
    /\ \A a, b \in Agents : Rank[a] = Rank[b] => a = b
ASSUME OverlapAssumption == Overlap \in BOOLEAN
ASSUME TasksAssumption   == MaxTasks \in Nat
ASSUME NoneAssumption    ==
    None \notin Agents \cup Loops \cup {"Added", "Updated", "Enabled", "Disabled", "Removed"}
ASSUME SignalsAssumption == Signals \subseteq {"HUP", "TERM", "INT"}

Threads == Conns \cup {Main}

\* A config's body stands for its max_concurrency; conc is the one the
\* change's config carries.
Change ==
    [kind : {"Added", "Updated", "Enabled", "Disabled"}, agent : Agents, conc : Bodies]
        \cup [kind : {"Removed"}, agent : Agents]

VARIABLES
    phase,      \* starting, serving, running, draining, joining, stopped
    reg,        \* the registry's map
    file,       \* agents.d: the map, and the operator's edits on top
    signals,    \* signals the main task's listeners have noted
    todo,       \* thread -> changes it has still to apply, one per agent
    pc,         \* thread -> where apply_changes is
    conc,       \* thread -> the max_concurrency it binds with
    fresh,      \* thread -> the loop start_pull has spawned but not listed
    pulls,      \* Relay.pulls: agent -> its pull loop, or None
    loop,       \* loop -> the agent it pulls for, None when not running
    aborted,    \* loops told to stop
    consumer,   \* the server's durable consumers: MaxAckPending, or None
    tasks,      \* dispatch tasks in Relay.dispatch_tasks that still run
    missed      \* history: a failed bind, and whether a reload came after it

threadVars == <<todo, pc, conc, fresh>>
loopVars   == <<pulls, loop, aborted>>
vars       == <<phase, reg, file, signals, threadVars, loopVars, consumer, tasks, missed>>

Store == INSTANCE AgentStore WITH up <- TRUE, safe <- file, Unloadable <- {}

-----------------------------------------------------------------------------
(* Helpers.                                                                *)

ChangeOf(kind, a, cfg) ==
    IF kind = "Removed" THEN [kind |-> kind, agent |-> a]
                        ELSE [kind |-> kind, agent |-> a, conc |-> cfg.body]

\* The diff of a reload: one change per changed agent.
ChangeList(old, new) ==
    {ChangeOf(ChangeKind(old[a], new[a]), a, new[a]) : a \in Changed(old, new)}

\* sync_consumers: every enabled agent of the registry as Added.
StartupChanges(r) ==
    {ChangeOf("Added", a, r[a]) : a \in {b \in Agents : r[b] # None /\ r[b].enabled}}

\* Changes are applied in the order of their agents' ids.
First(changes) ==
    CHOOSE c \in changes : \A d \in changes : Rank[c.agent] <= Rank[d.agent]

\* The change t is at.
Current(t) == First(todo[t])

Target(t) == Current(t).agent

\* Thread t is about to apply a change of one of these kinds.
Applies(t, kinds) ==
    pc[t] = "applying" /\ todo[t] # {} /\ Current(t).kind \in kinds

NextChange(t) ==
    /\ todo' = [todo EXCEPT ![t] = @ \ {Current(t)}]
    /\ pc' = [pc EXCEPT ![t] = "applying"]

\* Mutants of StopPull: an entry is assumed to be there; the handle is dropped,
\* which detaches the loop; the entry stays.
StopPullUnchecked(a) ==
    /\ pulls' = [pulls EXCEPT ![a] = None]
    /\ aborted' = aborted \cup {pulls[a]}

StopPullDetaches(a) ==
    /\ pulls' = [pulls EXCEPT ![a] = None]
    /\ UNCHANGED aborted

StopPullKeepsEntry(a) ==
    /\ aborted' = aborted \cup ({pulls[a]} \ {None})
    /\ UNCHANGED pulls

\* stop_pull: the entry leaves the map and its loop is told to stop.
StopPull(a) ==
    /\ pulls' = [pulls EXCEPT ![a] = None]
    /\ aborted' = aborted \cup ({pulls[a]} \ {None})

AllIdle == \A t \in Threads : pc[t] = "idle"

-----------------------------------------------------------------------------
\* The daemon has loaded its registry and connected; consumers of an earlier
\* life may still exist on the server.
Init ==
    /\ phase = "starting"
    /\ file \in Registries
    /\ reg = file
    /\ signals = {}
    /\ todo = [t \in Threads |-> IF t = Main THEN StartupChanges(reg) ELSE {}]
    /\ pc = [t \in Threads |-> IF t = Main THEN "applying" ELSE "idle"]
    /\ conc = [t \in Threads |-> None]
    /\ fresh = [t \in Threads |-> None]
    /\ pulls = [a \in Agents |-> None]
    /\ loop = [l \in Loops |-> None]
    /\ aborted = {}
    /\ consumer \in [Agents -> Bodies \cup {None}]
    /\ tasks = 0
    /\ missed = [a \in Agents |-> "no"]

-----------------------------------------------------------------------------
(* Control operations: the registry mutation, then apply().                *)

\* The control socket is served from the end of the first sync, before the
\* signal handlers are installed, to the exit; the server task keeps running
\* while the daemon drains.  SIGHUP is taken by the main task's loop, which
\* does nothing else once it shuts down.
Accepts(t) ==
    /\ pc[t] = "idle"
    /\ phase \in IF t = Main THEN {"running"}
                            ELSE {"serving", "running", "draining", "joining"}
    /\ Overlap \/ AllIdle

\* A thread begins to apply the changes of an operation that took effect.
\* (DaemonHandle::apply first drops the dispatcher's state of the changed
\* agents: ApplyChanges of module Dispatcher.)
Begin(t, changes) ==
    /\ pc' = [pc EXCEPT ![t] = "applying"]
    /\ todo' = [todo EXCEPT ![t] = changes]

\* register, update or unregister takes effect in the map and on disk.
Mutate(c, a, cfg, kind) ==
    /\ Accepts(c)
    /\ Store!Set(a, cfg)
    /\ Begin(c, {ChangeOf(kind, a, cfg)})
    /\ UNCHANGED <<phase, signals, conc, fresh, loopVars, consumer, tasks, missed>>

Register(c, a, cfg) == reg[a] = None /\ Mutate(c, a, cfg, "Added")

Update(c, a, cfg) == reg[a] # None /\ Mutate(c, a, cfg, "Updated")

Unregister(c, a) == reg[a] # None /\ file[a] # None /\ Mutate(c, a, None, "Removed")

\* The main task's select! takes a signal; the Ctrl-C listener of this turn is
\* dropped with whatever it has noted.
Take(sig) == sig \in signals /\ signals' = signals \ {sig, "INT"}

\* Mutant of Heard: SIGTERM, too, has a listener of this turn only.
HeardAfresh(t) ==
    IF t = Main THEN "HUP" \in signals /\ signals' = {} ELSE UNCHANGED signals

\* What starts a reload: a control request, or SIGHUP.
Heard(t) == IF t = Main THEN Take("HUP") ELSE UNCHANGED signals

Reload(t) ==
    /\ Accepts(t)
    /\ Heard(t)
    /\ Store!Reload
    /\ Begin(t, ChangeList(reg, file))
    /\ missed' = [a \in Agents |-> IF missed[a] = "failed" THEN "reloaded" ELSE missed[a]]
    /\ UNCHANGED <<phase, conc, fresh, loopVars, consumer, tasks>>

\* The files cannot be read: the previous registry is kept.
ReloadError(t) ==
    /\ Accepts(t)
    /\ Heard(t)
    /\ UNCHANGED <<phase, reg, file, threadVars, loopVars, consumer, tasks, missed>>

\* The operator edits agents.d.
Edit(a, cfg) ==
    /\ file[a] # cfg
    /\ Store!Edit(a, cfg)
    /\ UNCHANGED <<phase, signals, threadVars, loopVars, consumer, tasks, missed>>

-----------------------------------------------------------------------------
(* Relay::apply_changes, one change at a time.                             *)

\* Added, Enabled: ask the server, with the change's own config.
BindNew(t) ==
    /\ Applies(t, {"Added", "Enabled"})
    /\ pc' = [pc EXCEPT ![t] = "binding"]
    /\ conc' = [conc EXCEPT ![t] = Current(t).conc]
    /\ UNCHANGED <<phase, reg, file, signals, todo, fresh, loopVars, consumer, tasks, missed>>

\* Updated: stop the loop ...
StopUpdated(t) ==
    /\ Applies(t, {"Updated"})
    /\ StopPull(Target(t))
    /\ pc' = [pc EXCEPT ![t] = "stopped"]
    /\ UNCHANGED <<phase, reg, file, signals, todo, conc, fresh, loop, consumer, tasks, missed>>

\* ... then read the registry, and rebind if the agent is enabled there.
Rebind(t) ==
    LET a == Target(t) IN
    /\ pc[t] = "stopped"
    /\ IF reg[a] # None /\ reg[a].enabled
       THEN /\ pc' = [pc EXCEPT ![t] = "binding"]
            /\ conc' = [conc EXCEPT ![t] = reg[a].body]
            /\ UNCHANGED todo
       ELSE NextChange(t) /\ UNCHANGED conc
    /\ UNCHANGED <<phase, reg, file, signals, fresh, loopVars, consumer, tasks, missed>>

StopOne(t) ==
    /\ Applies(t, {"Disabled", "Removed"})
    /\ StopPull(Target(t))
    /\ NextChange(t)
    /\ UNCHANGED <<phase, reg, file, signals, conc, fresh, loop, consumer, tasks, missed>>

\* get_or_create_consumer: a consumer that exists is returned as it is.
GetOrCreate(a, n) ==
    consumer' = [consumer EXCEPT ![a] = IF @ = None THEN n ELSE @]

\* The bind succeeds; start_pull spawns the loop ...
BindOk(t) ==
    LET a == Target(t) IN
    /\ pc[t] = "binding"
    /\ GetOrCreate(a, conc[t])
    /\ \E l \in {k \in Loops : loop[k] = None} :
           /\ loop' = [loop EXCEPT ![l] = a]
           /\ fresh' = [fresh EXCEPT ![t] = l]
    /\ pc' = [pc EXCEPT ![t] = "spawned"]
    /\ conc' = [conc EXCEPT ![t] = None]
    /\ missed' = [missed EXCEPT ![a] = "no"]
    /\ UNCHANGED <<phase, reg, file, signals, todo, pulls, aborted, tasks>>

\* Mutant of ListLoop: the handle of the loop it replaces is dropped.
ListLoopDetaches(t) ==
    /\ pc[t] = "spawned"
    /\ pulls' = [pulls EXCEPT ![Target(t)] = fresh[t]]
    /\ fresh' = [fresh EXCEPT ![t] = None]
    /\ NextChange(t)
    /\ UNCHANGED <<phase, reg, file, signals, conc, loop, aborted, consumer, tasks, missed>>

\* ... and puts it into the map, stopping the one it replaces.
ListLoop(t) ==
    LET a == Target(t) IN
    /\ pc[t] = "spawned"
    /\ pulls' = [pulls EXCEPT ![a] = fresh[t]]
    /\ aborted' = aborted \cup ({pulls[a]} \ {None})
    /\ fresh' = [fresh EXCEPT ![t] = None]
    /\ NextChange(t)
    /\ UNCHANGED <<phase, reg, file, signals, conc, loop, consumer, tasks, missed>>

\* The server cannot be reached: logged, and on to the next change.
BindFail(t) ==
    /\ pc[t] = "binding"
    /\ missed' = [missed EXCEPT ![Target(t)] = "failed"]
    /\ conc' = [conc EXCEPT ![t] = None]
    /\ NextChange(t)
    /\ UNCHANGED <<phase, reg, file, signals, fresh, loopVars, consumer, tasks>>

\* Every change is applied: the response is sent, or the startup goes on to bind
\* the control socket and to spawn the task that serves it.
Done(t) ==
    /\ pc[t] = "applying" /\ todo[t] = {}
    /\ pc' = [pc EXCEPT ![t] = "idle"]
    /\ phase' = IF phase = "starting" THEN "serving" ELSE phase
    /\ UNCHANGED <<reg, file, signals, todo, conc, fresh, loopVars, consumer, tasks, missed>>

\* The signal handlers are installed and the main task enters its loop.
Listen ==
    /\ phase = "serving"
    /\ phase' = "running"
    /\ UNCHANGED <<reg, file, signals, threadVars, loopVars, consumer, tasks, missed>>

-----------------------------------------------------------------------------
(* Pull loops, dispatch tasks, shutdown.                                   *)

\* Mutant of SpawnDispatch: shutdown() does not keep the lock while it joins.
SpawnDispatchUnlocked(l) ==
    /\ loop[l] # None
    /\ phase # "stopped"
    /\ tasks < MaxTasks
    /\ tasks' = tasks + 1
    /\ UNCHANGED <<phase, reg, file, signals, threadVars, loopVars, consumer, missed>>

\* A loop spawns a dispatch task for a message it fetched; it needs the lock
\* of dispatch_tasks, which shutdown() keeps while it joins.  A loop that was
\* told to stop may have got past its last await.
SpawnDispatch(l) ==
    /\ loop[l] # None
    /\ phase \notin {"joining", "stopped"}
    /\ tasks < MaxTasks
    /\ tasks' = tasks + 1
    /\ UNCHANGED <<phase, reg, file, signals, threadVars, loopVars, consumer, missed>>

\* A dispatch resolves its delivery.
EndDispatch ==
    /\ tasks > 0
    /\ tasks' = tasks - 1
    /\ UNCHANGED <<phase, reg, file, signals, threadVars, loopVars, consumer, missed>>

\* An aborted loop ends at its next await.
EndLoop(l) ==
    /\ l \in aborted
    /\ loop' = [loop EXCEPT ![l] = None]
    /\ aborted' = aborted \ {l}
    /\ UNCHANGED <<phase, reg, file, signals, threadVars, pulls, consumer, tasks, missed>>

\* A signal is sent to the running daemon.  SIGHUP and SIGTERM have listeners
\* that live as long as the loop; ctrl_c() makes a new one at every turn, so a
\* Ctrl-C during a reload is noted by nobody.
Raise(sig) ==
    /\ phase = "running"
    /\ sig \notin signals
    /\ sig = "INT" => pc[Main] = "idle"
    /\ signals' = signals \cup {sig}
    /\ UNCHANGED <<phase, reg, file, threadVars, loopVars, consumer, tasks, missed>>

\* shutdown() empties the map and aborts the loops it held ...
Shutdown ==
    /\ phase = "running" /\ pc[Main] = "idle"
    /\ signals \cap {"TERM", "INT"} # {}
    /\ phase' = "draining"
    /\ signals' = {}
    /\ pulls' = [a \in Agents |-> None]
    /\ aborted' = aborted \cup ({pulls[a] : a \in Agents} \ {None})
    /\ UNCHANGED <<reg, file, threadVars, loop, consumer, tasks, missed>>

\* ... takes the lock of dispatch_tasks ...
Join ==
    /\ phase = "draining"
    /\ phase' = "joining"
    /\ UNCHANGED <<reg, file, signals, threadVars, loopVars, consumer, tasks, missed>>

\* The process exits and takes every task with it.
Stop ==
    /\ phase' = "stopped"
    /\ signals' = {}
    /\ todo' = [t \in Threads |-> {}]
    /\ pc' = [t \in Threads |-> "idle"]
    /\ conc' = [t \in Threads |-> None]
    /\ fresh' = [t \in Threads |-> None]
    /\ pulls' = [a \in Agents |-> None]
    /\ loop' = [l \in Loops |-> None]
    /\ aborted' = {}
    /\ tasks' = 0
    /\ UNCHANGED <<reg, file, consumer, missed>>

\* ... and returns when every dispatch has ended.
Exit == phase = "joining" /\ tasks = 0 /\ Stop

\* Before the handlers are installed any of the signals, SIGHUP too, ends the
\* daemon (so does a socket that cannot be bound).
Interrupt == phase \in {"starting", "serving"} /\ Signals # {} /\ Stop

-----------------------------------------------------------------------------
Operation(c) ==
    \/ \E a \in Agents, cfg \in Configs : Register(c, a, cfg) \/ Update(c, a, cfg)
    \/ \E a \in Agents : Unregister(c, a)

Apply(t) ==
    \/ BindNew(t) \/ StopUpdated(t) \/ Rebind(t) \/ StopOne(t)
    \/ BindOk(t) \/ ListLoop(t) \/ BindFail(t) \/ Done(t)

Next ==
    \/ \E c \in Conns : Operation(c)
    \/ \E t \in Threads : Reload(t) \/ ReloadError(t) \/ Apply(t)
    \/ \E sig \in Signals : Raise(sig)
    \/ \E a \in Agents, cfg \in Configs \cup {None} : Edit(a, cfg)
    \/ \E l \in Loops : SpawnDispatch(l) \/ EndLoop(l)
    \/ EndDispatch \/ Listen \/ Shutdown \/ Join \/ Exit \/ Interrupt

Spec == Init /\ [][Next]_vars

\* Tasks are scheduled and dispatches end (EveryDispatchResolves of module
\* Dispatcher); select! picks at random among the signals that are ready, so a
\* stream of SIGHUPs does not hide SIGTERM for ever.  Nothing obliges anybody
\* to call the daemon or to stop it.
Fairness ==
    /\ SF_vars(Shutdown)
    /\ WF_vars(EndDispatch) /\ WF_vars(Listen) /\ WF_vars(Join) /\ WF_vars(Exit)
    /\ \A t \in Threads : WF_vars(Apply(t))
    /\ \A l \in Loops : WF_vars(EndLoop(l))

FairSpec == Spec /\ Fairness

-----------------------------------------------------------------------------
(* Properties.                                                             *)

TypeOK ==
    /\ phase \in {"starting", "serving", "running", "draining", "joining", "stopped"}
    /\ reg \in Registries
    /\ file \in Registries
    /\ signals \subseteq Signals
    /\ todo \in [Threads -> SUBSET Change]
    /\ pc \in [Threads -> {"idle", "applying", "stopped", "binding", "spawned"}]
    /\ conc \in [Threads -> Bodies \cup {None}]
    /\ fresh \in [Threads -> Loops \cup {None}]
    /\ pulls \in [Agents -> Loops \cup {None}]
    /\ loop \in [Loops -> Agents \cup {None}]
    /\ aborted \subseteq Loops
    /\ consumer \in [Agents -> Bodies \cup {None}]
    /\ tasks \in 0..MaxTasks
    /\ missed \in [Agents -> {"no", "failed", "reloaded"}]

Quiet == phase \in {"serving", "running"} /\ AllIdle
IsEnabled(a) == reg[a] # None /\ reg[a].enabled
IsPulled(a)  == \E l \in Loops : loop[l] = a /\ l \notin aborted

\* A running loop can always be stopped: it is the one listed for its agent,
\* or a thread is about to list it, or it has been told to stop.  A loop that
\* fell out of the map would go on pulling for an agent that is disabled or
\* removed, and twice for one that is updated.
NoStrayLoop ==
    \A l \in Loops :
        loop[l] # None =>
            \/ pulls[loop[l]] = l
            \/ l \in aborted
            \/ \E t \in Threads : fresh[t] = l /\ Target(t) = loop[l]

\* The map holds no handle of a loop that ended or was told to stop.
ListedIsRunning ==
    \A a \in Agents : pulls[a] # None => loop[pulls[a]] = a /\ pulls[a] \notin aborted

\* When operations do not overlap, an enabled agent is being pulled for once
\* they are applied, unless its last bind failed.
EnabledIsPulled ==
    Quiet => \A a \in Agents : IsEnabled(a) /\ missed[a] = "no" => IsPulled(a)

\* When operations do not overlap, nothing is pulled for an agent that has
\* been unregistered.
RemovedIsNotPulled ==
    Quiet => \A a \in Agents : reg[a] = None => ~IsPulled(a)

\* SIGTERM ends in an exit as long as dispatches end, even when it is sent in
\* the middle of a reload or in a stream of SIGHUPs: neither the reload nor a
\* pull loop that a control request starts meanwhile can hold the drain up.
SigtermStops == "TERM" \in signals ~> phase = "stopped"

-----------------------------------------------------------------------------
(* Claims of the repository that the code does not keep.                   *)

\* src/relay.rs: "consumer bind failed; agent not consumed until next
\* reload": after a reload it is consumed, unless its bind failed again.
ReloadRetriesBind ==
    Quiet => \A a \in Agents : IsEnabled(a) /\ missed[a] # "failed" => IsPulled(a)

\* src/relay.rs: "Rebind in case concurrency (MaxAckPending) changed": once
\* an Updated agent is rebound, its consumer has the new max_concurrency.
RebindSetsMaxAck ==
    \A t \in Threads :
        pc[t] = "spawned" /\ Current(t).kind = "Updated"
            => consumer[Target(t)] = reg[Target(t)].body

\* src/control.rs: "concurrent connections are fine (registry mutations
\* serialize internally)": EnabledIsPulled whatever overlaps.
ConcurrentIsFine == EnabledIsPulled

\* src/main.rs: "SIGTERM/Ctrl-C -> graceful shutdown": a Ctrl-C that was noted
\* is acted on.
CtrlCStops == "INT" \in signals ~> phase = "stopped"

\* src/relay.rs, shutdown: "stop pulling, wait for all in-flight dispatches":
\* while it waits, nothing pulls.
DrainStopsPulling == phase = "joining" => \A a \in Agents : ~IsPulled(a)
=============================================================================
