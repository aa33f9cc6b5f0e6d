------------------------------ MODULE Dispatcher ------------------------------
(***************************************************************************)
(* The event dispatcher of agentd (src/dispatcher.rs): it turns a relay    *)
(* delivery into a run of the agent's local handler.  Every delivery is a  *)
(* tokio task; tasks run in parallel, so each stretch of Dispatcher::      *)
(* dispatch between two accesses to shared state is an action of its own.  *)
(*                                                                         *)
(* Shared with the tasks are the registry's in-memory map (changed by the  *)
(* control plane, which then tells the dispatcher to drop the changed      *)
(* agents' state), the dispatcher's per-agent AgentState, and the durable  *)
(* dedup store.  The relay may hand over any message at any time and in    *)
(* any number of copies: JetStream delivers at least once.                 *)
(***************************************************************************)
EXTENDS Integers, FiniteSets

CONSTANTS
    Agents,         \* agent ids
    Events,         \* event ids, Blank among them
    Blank,          \* an event_id that is empty after trim()
    Messages,       \* the messages the stream holds (see MessageType)
    MaxEventBytes,  \* the daemon's max_event_bytes
    Configs,        \* the configurations an agent may be given
    Tasks,          \* dispatch tasks, reused once a delivery is resolved
    SemIds,         \* semaphore allocations, reused once unreferenced
    Ops,            \* control-plane operations that may be under way at once
    None            \* absence: unregistered agent, no AgentState, ...

ConfigType == [enabled : BOOLEAN, conc : Nat \ {0}]

\* agent is the consumer's agent, to the envelope's agent_id.
MessageType ==
    [agent : Agents, to : Agents, event : Events,
     bytes : Nat, json : BOOLEAN, version : Nat]

ASSUME ConfigAssumption  == Configs \subseteq ConfigType
ASSUME MessageAssumption == Messages \subseteq MessageType
ASSUME SizeAssumption    == MaxEventBytes \in Nat
ASSUME TaskAssumption    == IsFiniteSet(Tasks)
ASSUME NoneAssumption    == None \notin Messages \cup ConfigType \cup [id : SemIds, cap : Nat]

Semaphores == [id : SemIds, cap : Nat \ {0}]

VARIABLES
    reg,        \* Registry.inner: agent -> config or None
    ctl,        \* operation -> agents whose change is not yet applied
    permits,    \* AgentState.permits of each agent, None when it has no entry
    inFlight,   \* AgentState.in_flight of each agent ({} when no entry)
    poll,       \* the config a pull loop's available() has just read, or None
    completed,  \* the dedup store: events recorded per agent
    pc,         \* where each dispatch task is
    msg,        \* the delivery a task works on
    cfg,        \* the config snapshot a task took, until its last use here
    sem,        \* the semaphore a task waits for or holds a permit of
    ran,        \* history: events whose handler was waited for to its end
    blind,      \* history: tasks whose dedup lookup failed
    disturbed   \* history: agents whose AgentState was dropped under a task

sharedVars  == <<reg, ctl, permits, inFlight, poll, completed>>
taskVars    == <<pc, msg, cfg, sem>>
historyVars == <<ran, blind, disturbed>>
vars        == <<sharedVars, taskVars, historyVars>>

PCs == {"idle", "admitted", "waiting", "holding", "missed", "registered",
        "running", "exited", "recorded", "acking", "terming"}

Init ==
    /\ reg \in [Agents -> Configs \cup {None}]
    /\ ctl = [o \in Ops |-> {}]
    /\ permits = [a \in Agents |-> None]
    /\ inFlight = [a \in Agents |-> {}]
    /\ poll = [a \in Agents |-> None]
    /\ completed = [a \in Agents |-> {}]
    /\ pc = [t \in Tasks |-> "idle"]
    /\ msg = [t \in Tasks |-> None]
    /\ cfg = [t \in Tasks |-> None]
    /\ sem = [t \in Tasks |-> None]
    /\ ran = [a \in Agents |-> {}]
    /\ blind = {}
    /\ disturbed = {}

-----------------------------------------------------------------------------
(* Helpers.                                                                *)

AgentOf(t) == msg[t].agent
EventOf(t) == msg[t].event

\* Tasks of agent a that obtained a semaphore and are not resolved yet.
Live(a) == {t \in Tasks : msg[t] # None /\ AgentOf(t) = a /\ sem[t] # None}

\* Tasks that hold a permit of semaphore s: it is given back when the task
\* resolves its delivery and returns.
Holders(s) == {t \in Tasks : sem[t] = s /\ pc[t] # "waiting"}

\* Between the in-flight insert and remove_in_flight.
Registered(t) == pc[t] \in {"registered", "running", "exited", "recorded"}

Goto(t, from, to) == pc[t] = from /\ pc' = [pc EXCEPT ![t] = to]

\* Allocations nobody references.  There are enough SemIds for one always to
\* be left: each task and each agent's state refers to at most one.
FreshIds ==
    SemIds \ ({sem[t].id : t \in {u \in Tasks : sem[u] # None}}
              \cup {permits[a].id : a \in {b \in Agents : permits[b] # None}})

\* The task returns: its permit and everything it holds is dropped.
Finish(t) ==
    /\ pc' = [pc EXCEPT ![t] = "idle"]
    /\ msg' = [msg EXCEPT ![t] = None]
    /\ sem' = [sem EXCEPT ![t] = None]
    /\ blind' = blind \ {t}
    /\ UNCHANGED cfg
    /\ disturbed' = IF Live(AgentOf(t)) \subseteq {t}
                    THEN disturbed \ {AgentOf(t)}
                    ELSE disturbed

\* EventEnvelope::parse
Parses(m) == m.json /\ m.version = 1 /\ m.event # Blank

\* Mutant of Routable: a disabled agent is taken for an enabled one.
RoutableDisabled(m) ==
    /\ m.bytes <= MaxEventBytes
    /\ Parses(m)
    /\ m.to = m.agent
    /\ reg[m.agent] # None

\* The checks of dispatch() before any state is touched.
Routable(m) ==
    /\ m.bytes <= MaxEventBytes
    /\ Parses(m)
    /\ m.to = m.agent
    /\ reg[m.agent] # None
    /\ reg[m.agent].enabled

-----------------------------------------------------------------------------
(* Dispatcher::dispatch, step by step.                                     *)

\* The delivery arrives and passes the checks; the config is copied.
Admit(t, m) ==
    /\ Goto(t, "idle", "admitted")
    /\ Routable(m)
    /\ msg' = [msg EXCEPT ![t] = m]
    /\ cfg' = [cfg EXCEPT ![t] = reg[m.agent]]
    /\ UNCHANGED <<sharedVars, sem, historyVars>>

\* The delivery fails a check and is to be terminated.
Reject(t, m) ==
    /\ Goto(t, "idle", "terming")
    /\ ~Routable(m)
    /\ msg' = [msg EXCEPT ![t] = m]
    /\ UNCHANGED <<sharedVars, cfg, sem, historyVars>>

\* Mutant of CreateState: one permit too few.
CreateStateOffByOne(a, n) ==
    /\ permits[a] = None
    /\ \E id \in FreshIds : permits' = [permits EXCEPT ![a] = [id |-> id, cap |-> n - 1]]
    /\ inFlight' = [inFlight EXCEPT ![a] = {}]

\* ensure_state creates the agent's entry with a new semaphore of n permits.
CreateState(a, n) ==
    /\ permits[a] = None
    /\ \E id \in FreshIds : permits' = [permits EXCEPT ![a] = [id |-> id, cap |-> n]]
    /\ inFlight' = [inFlight EXCEPT ![a] = {}]

\* ensure_state with the snapshot's concurrency; start waiting for a permit.
EnsureState(t) ==
    /\ Goto(t, "admitted", "waiting")
    /\ \/ CreateState(AgentOf(t), cfg[t].conc)
       \/ permits[AgentOf(t)] # None /\ UNCHANGED <<permits, inFlight>>
    /\ sem' = [sem EXCEPT ![t] = permits'[AgentOf(t)]]
    /\ cfg' = [cfg EXCEPT ![t] = None]
    /\ UNCHANGED <<reg, ctl, poll, completed, msg, historyVars>>

\* Mutant of Acquire: one permit too many.
AcquireOneMore(t) ==
    /\ Goto(t, "waiting", "holding")
    /\ Cardinality(Holders(sem[t])) <= sem[t].cap
    /\ UNCHANGED <<sharedVars, msg, cfg, sem, historyVars>>

\* acquire_owned: any waiter may be served.
Acquire(t) ==
    /\ Goto(t, "waiting", "holding")
    /\ Cardinality(Holders(sem[t])) < sem[t].cap
    /\ UNCHANGED <<sharedVars, msg, cfg, sem, historyVars>>

\* is_completed says yes: acknowledge the duplicate.
LookupHit(t) ==
    /\ Goto(t, "holding", "acking")
    /\ EventOf(t) \in completed[AgentOf(t)]
    /\ UNCHANGED <<sharedVars, msg, cfg, sem, historyVars>>

\* Mutant of LookupMiss: the answer of the store is ignored.
LookupIgnored(t) ==
    /\ Goto(t, "holding", "missed")
    /\ UNCHANGED <<sharedVars, msg, cfg, sem, historyVars>>

LookupMiss(t) ==
    /\ Goto(t, "holding", "missed")
    /\ EventOf(t) \notin completed[AgentOf(t)]
    /\ UNCHANGED <<sharedVars, msg, cfg, sem, historyVars>>

\* The store fails: dispatch anyway (fail-open).
LookupError(t) ==
    /\ Goto(t, "holding", "missed")
    /\ blind' = blind \cup {t}
    /\ UNCHANGED <<sharedVars, msg, cfg, sem, ran, disturbed>>

\* Mutant of Insert: the result of in_flight.insert() is ignored.
InsertUnchecked(t) ==
    LET a == AgentOf(t) IN
    /\ Goto(t, "missed", "registered")
    /\ permits' = [permits EXCEPT ![a] = IF @ = None THEN sem[t] ELSE @]
    /\ inFlight' = [inFlight EXCEPT ![a] = @ \cup {EventOf(t)}]
    /\ UNCHANGED <<reg, ctl, poll, completed, msg, cfg, sem, historyVars>>

\* The in-flight critical section inserts the event.  An entry that is gone
\* is recreated around the semaphore this task already holds.
Insert(t) ==
    LET a == AgentOf(t) IN
    /\ Goto(t, "missed", "registered")
    /\ EventOf(t) \notin inFlight[a]
    /\ permits' = [permits EXCEPT ![a] = IF @ = None THEN sem[t] ELSE @]
    /\ inFlight' = [inFlight EXCEPT ![a] = @ \cup {EventOf(t)}]
    /\ UNCHANGED <<reg, ctl, poll, completed, msg, cfg, sem, historyVars>>

\* Mutant of DropDuplicate: the copy is acknowledged.
DropDuplicateAcks(t) ==
    /\ Goto(t, "missed", "acking")
    /\ EventOf(t) \in inFlight[AgentOf(t)]
    /\ UNCHANGED <<sharedVars, msg, cfg, sem, historyVars>>

\* The event is in flight already: the copy is dropped, not acknowledged.
DropDuplicate(t) ==
    /\ pc[t] = "missed"
    /\ EventOf(t) \in inFlight[AgentOf(t)]
    /\ Finish(t)
    /\ UNCHANGED <<sharedVars, ran>>

\* Mutant of RemoveInFlight: the whole entry is emptied.
RemoveAllInFlight(t) == inFlight' = [inFlight EXCEPT ![AgentOf(t)] = {}]

\* remove_in_flight
RemoveInFlight(t) ==
    inFlight' = [inFlight EXCEPT ![AgentOf(t)] = @ \ {EventOf(t)}]

\* command.spawn() succeeds.
Spawn(t) ==
    /\ Goto(t, "registered", "running")
    /\ UNCHANGED <<sharedVars, msg, cfg, sem, historyVars>>

\* Mutants of SpawnFail: the mark stays; the delivery is acknowledged.
SpawnFailKeepsMark(t) ==
    /\ Goto(t, "registered", "terming")
    /\ UNCHANGED <<sharedVars, msg, cfg, sem, historyVars>>

SpawnFailAcks(t) ==
    /\ Goto(t, "registered", "acking")
    /\ RemoveInFlight(t)
    /\ UNCHANGED <<reg, ctl, permits, poll, completed, msg, cfg, sem, historyVars>>

\* command.spawn() fails: terminal.
SpawnFail(t) ==
    /\ Goto(t, "registered", "terming")
    /\ RemoveInFlight(t)
    /\ UNCHANGED <<reg, ctl, permits, poll, completed, msg, cfg, sem, historyVars>>

\* child.wait() returns: the handler exited, with whatever status (an error of
\* wait() itself counts as status -1).
HandlerExit(t) ==
    /\ Goto(t, "running", "exited")
    /\ ran' = [ran EXCEPT ![AgentOf(t)] = @ \cup {EventOf(t)}]
    /\ UNCHANGED <<sharedVars, msg, cfg, sem, blind, disturbed>>

Mark(t) ==
    /\ Goto(t, "exited", "recorded")
    /\ completed' = [completed EXCEPT ![AgentOf(t)] = @ \cup {EventOf(t)}]
    /\ UNCHANGED <<reg, ctl, permits, inFlight, poll, msg, cfg, sem, historyVars>>

\* mark_completed fails: logged, and the delivery is acknowledged anyway.
MarkError(t) ==
    /\ Goto(t, "exited", "recorded")
    /\ UNCHANGED <<sharedVars, msg, cfg, sem, historyVars>>

Unregister(t) ==
    /\ Goto(t, "recorded", "acking")
    /\ RemoveInFlight(t)
    /\ UNCHANGED <<reg, ctl, permits, poll, completed, msg, cfg, sem, historyVars>>

\* The double ack: whether or not the server confirms it, dispatch() returns.
Ack(t) ==
    /\ pc[t] = "acking"
    /\ Finish(t)
    /\ UNCHANGED <<sharedVars, ran>>

\* term() is sent once, its failure ignored.
Term(t) ==
    /\ pc[t] = "terming"
    /\ Finish(t)
    /\ UNCHANGED <<sharedVars, ran>>

-----------------------------------------------------------------------------
(* The relay's pull loop and the control plane, as the dispatcher sees     *)
(* them, and the end of the process.                                       *)

\* available() reads the registry ...
PollRead(a) ==
    /\ poll[a] = None
    /\ reg[a] # None /\ reg[a].enabled
    /\ poll' = [poll EXCEPT ![a] = reg[a]]
    /\ UNCHANGED <<reg, ctl, permits, inFlight, completed, taskVars, historyVars>>

\* ... and then ensures the agent's state with what it read.
PollEnsure(a) ==
    /\ poll[a] # None
    /\ poll' = [poll EXCEPT ![a] = None]
    /\ \/ CreateState(a, poll[a].conc)
       \/ permits[a] # None /\ UNCHANGED <<permits, inFlight>>
    /\ UNCHANGED <<reg, ctl, completed, taskVars, historyVars>>

\* register, update, set_enabled or unregister of one agent takes effect in
\* the registry.
Mutate(o, a, c) ==
    /\ ctl[o] = {}
    /\ reg[a] # None \/ c # None
    /\ reg' = [reg EXCEPT ![a] = c]
    /\ ctl' = [ctl EXCEPT ![o] = {a}]
    /\ UNCHANGED <<permits, inFlight, poll, completed, taskVars, historyVars>>

\* A reload that finds several agents' files changed.
Reload(o, r) ==
    LET changed == {a \in Agents : r[a] # reg[a]} IN
    /\ ctl[o] = {}
    /\ changed # {}
    /\ reg' = r
    /\ ctl' = [ctl EXCEPT ![o] = changed]
    /\ UNCHANGED <<permits, inFlight, poll, completed, taskVars, historyVars>>

\* Dispatcher::apply_changes drops the state of every changed agent.
ApplyChanges(o) ==
    /\ ctl[o] # {}
    /\ ctl' = [ctl EXCEPT ![o] = {}]
    /\ permits' = [a \in Agents |-> IF a \in ctl[o] THEN None ELSE permits[a]]
    /\ inFlight' = [a \in Agents |-> IF a \in ctl[o] THEN {} ELSE inFlight[a]]
    /\ disturbed' = disturbed \cup {a \in ctl[o] : Live(a) # {}}
    /\ UNCHANGED <<reg, poll, completed, taskVars, ran, blind>>

\* The daemon dies and starts again: only the registry's files and the dedup
\* store survive.  Its handlers die with it, as they do under the systemd unit
\* of docs/ops-guide.md, whose stop ends the whole control group.
Crash ==
    /\ ctl' = [o \in Ops |-> {}]
    /\ permits' = [a \in Agents |-> None]
    /\ inFlight' = [a \in Agents |-> {}]
    /\ poll' = [a \in Agents |-> None]
    /\ pc' = [t \in Tasks |-> "idle"]
    /\ msg' = [t \in Tasks |-> None]
    /\ cfg' = [t \in Tasks |-> None]
    /\ sem' = [t \in Tasks |-> None]
    /\ blind' = {}
    /\ disturbed' = {}
    /\ UNCHANGED <<reg, completed, ran>>

-----------------------------------------------------------------------------
Receive(t) == \E m \in Messages : Admit(t, m) \/ Reject(t, m)

Lookup(t) == LookupHit(t) \/ LookupMiss(t) \/ LookupError(t)

\* The steps of a dispatch inside the daemon that wait for nobody.
Internal(t) ==
    \/ EnsureState(t) \/ Lookup(t)
    \/ Insert(t) \/ DropDuplicate(t)
    \/ Spawn(t) \/ SpawnFail(t)
    \/ Mark(t) \/ MarkError(t) \/ Unregister(t)

Proceed(t) == Internal(t) \/ Ack(t) \/ Term(t)

Task(t) == Receive(t) \/ Acquire(t) \/ HandlerExit(t) \/ Proceed(t)

Poll(a) == PollRead(a) \/ PollEnsure(a)

Control(o) ==
    \/ \E a \in Agents, c \in Configs \cup {None} : Mutate(o, a, c)
    \/ \E r \in [Agents -> Configs \cup {None}] : Reload(o, r)
    \/ ApplyChanges(o)

Next ==
    \/ \E t \in Tasks : Task(t)
    \/ \E a \in Agents : Poll(a)
    \/ \E o \in Ops : Control(o)
    \/ Crash

Spec == Init /\ [][Next]_vars

\* Tasks are scheduled; tokio's semaphore serves its waiters in order, so a
\* waiter cannot be overtaken for ever; handlers exit (agentd has no timeout
\* and waits as long as they take).
Fairness ==
    \A t \in Tasks :
        /\ WF_vars(Proceed(t))
        /\ SF_vars(Acquire(t))
        /\ WF_vars(HandlerExit(t))

FairSpec == Spec /\ Fairness

-----------------------------------------------------------------------------
(* Properties.                                                             *)

TypeOK ==
    /\ reg \in [Agents -> Configs \cup {None}]
    /\ ctl \in [Ops -> SUBSET Agents]
    /\ permits \in [Agents -> Semaphores \cup {None}]
    /\ inFlight \in [Agents -> SUBSET Events]
    /\ poll \in [Agents -> Configs \cup {None}]
    /\ completed \in [Agents -> SUBSET Events]
    /\ pc \in [Tasks -> PCs]
    /\ msg \in [Tasks -> Messages \cup {None}]
    /\ cfg \in [Tasks -> Configs \cup {None}]
    /\ sem \in [Tasks -> Semaphores \cup {None}]
    /\ ran \in [Agents -> SUBSET Events]
    /\ blind \subseteq Tasks
    /\ disturbed \subseteq Agents
    /\ \A t \in Tasks : msg[t] = None <=> pc[t] = "idle"

\* ADR-0001: while a handler runs, no second one is started for the same
\* agent and event, as long as no configuration change has dropped the
\* agent's state under a dispatch.
InFlightExclusive ==
    \A t, u \in Tasks :
        /\ Registered(t) /\ Registered(u)
        /\ AgentOf(t) = AgentOf(u) /\ EventOf(t) = EventOf(u)
        /\ AgentOf(t) \notin disturbed
        => t = u

\* An in-flight mark always belongs to a dispatch that will remove it, even
\* across configuration changes: a mark nobody removes would make every later
\* copy of the event be dropped unacknowledged until the daemon restarts.
NoLeakedMark ==
    \A a \in Agents : \A e \in inFlight[a] :
        \E t \in Tasks : Registered(t) /\ AgentOf(t) = a /\ EventOf(t) = e

\* What in_flight() reports is exact while the agent is undisturbed: every
\* dispatch past the check is in the set.
MarkedWhileRegistered ==
    \A t \in Tasks :
        Registered(t) /\ AgentOf(t) \notin disturbed
            => EventOf(t) \in inFlight[AgentOf(t)]

\* The handlers of an undisturbed agent never outnumber the permits of the
\* semaphore its state now has.
WithinConcurrency ==
    \A a \in Agents \ disturbed :
        LET busy == {t \in Tasks : Registered(t) /\ AgentOf(t) = a}
        IN  busy # {} => permits[a] # None /\ Cardinality(busy) <= permits[a].cap

\* A serial agent's handler is never run for an event already recorded as
\* completed, unless the lookup itself failed.
SerialNoRerun ==
    \A t \in Tasks :
        /\ pc[t] = "running" /\ t \notin blind
        /\ AgentOf(t) \notin disturbed
        /\ sem[t].cap = 1
        => EventOf(t) \notin completed[AgentOf(t)]

\* A delivery is acknowledged only when the agent's handler has run to its
\* exit for that event, in this life of the daemon or an earlier one.
AckOnlyHandled ==
    \A t \in Tasks : pc[t] = "acking" => EventOf(t) \in ran[AgentOf(t)]

\* Every delivery is resolved: the permit is always obtained in the end and
\* no combination of duplicates, changes and store failures blocks a task.
EveryDispatchResolves == \A t \in Tasks : pc[t] # "idle" ~> pc[t] = "idle"

\* An agent that is disabled or unregistered for good stops being run: the
\* dispatches that copied its config before the change finish, whatever they
\* waited for, and no redelivery starts its handler again ("stops consuming;
\* in-flight drains", agentdctl update --disable).
Off(a)     == reg[a] = None \/ ~reg[a].enabled
Drained(a) == \A t \in Tasks : Registered(t) => AgentOf(t) # a
OffAgentDrains == \A a \in Agents : <>[]Off(a) => <>[]Drained(a)

-----------------------------------------------------------------------------
(* Claims of the repository that the code does not keep.                   *)

\* docs/agent-guide.md: "duplicates after completion are suppressed by the
\* dedup store", for every agent, whatever its max_concurrency.
NoRerun ==
    \A t \in Tasks :
        /\ pc[t] = "running" /\ t \notin blind
        /\ AgentOf(t) \notin disturbed
        => EventOf(t) \notin completed[AgentOf(t)]

\* ADR-0001 / whitepaper 21.2: a redelivery of an event whose handler is
\* running does not start a second concurrent handler.
NoSecondHandler ==
    \A t, u \in Tasks :
        /\ pc[t] = "running" /\ pc[u] = "running"
        /\ AgentOf(t) = AgentOf(u) /\ EventOf(t) = EventOf(u)
        => t = u

\* dispatcher.rs, apply_changes: "State is recreated lazily with the new
\* concurrency".  Read when nothing is under way for the agent.
StateHasNewConcurrency ==
    \A a \in Agents :
        /\ permits[a] # None /\ reg[a] # None /\ reg[a].enabled
        /\ poll[a] = None
        /\ \A o \in Ops : a \notin ctl[o]
        /\ \A t \in Tasks : msg[t] = None \/ AgentOf(t) # a
        => permits[a].cap = reg[a].conc
=============================================================================
