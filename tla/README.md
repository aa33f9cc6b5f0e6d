# A verification project for agentd

`agentd` (crate `agent-daemon`) is a daemon that pulls events for local agents
from a NATS JetStream stream, runs the agent's handler process once per event
and acknowledges the event when the handler has exited. This directory holds
TLA+ models of it, the TLC instances that check them, and TLAPS proofs of their
safety properties and of the refinements between them.

## 1. Inventory

| Component | State | Operations | Interacts with |
|---|---|---|---|
| Dispatcher (`dispatcher.rs`) | per agent: a semaphore of `max_concurrency` permits and the set of in-flight event ids | `dispatch`, `available`, `apply_changes`, `in_flight` | reads the registry, reads and writes the dedup store, spawns handlers, acks through the relay's acker; called by the pull loops and the control plane |
| Dedup store (`dedup.rs`) | SQLite table of completed (agent, event) with the time of completion | `is_completed`, `mark_completed`, purge at open | called by the dispatcher; either call may fail |
| Event envelope (`event.rs`) | none | `parse` | called by the dispatcher |
| Registry (`registry.rs`) | map agent → config; one TOML file per agent; a mutation mutex | `register`, `update`, `set_enabled`, `unregister`, `reload`, `load`, `get`, `snapshot` | called by the control plane, the dispatcher and the relay; operators edit the files |
| Relay (`relay.rs`) | map agent → pull-loop handle; `JoinSet` of dispatch tasks behind an async mutex; the server's durable consumers | `sync_consumers`, `apply_changes`, `shutdown`, the pull loops, keepalives | JetStream, dispatcher, registry |
| Control plane (`control.rs`) | none of its own | `register`, `update`, `unregister`, `reload`, `list`, `status` over a Unix socket | registry, then dispatcher, then relay (`DaemonHandle::apply`) |
| Daemon (`main.rs`) | the phase of its life | start, SIGHUP, SIGTERM | all of the above |
| JetStream (external) | stream, durable consumers, pending acks | delivery, redelivery after `AckWait`, `MaxAckPending`, retention (`max_age`) | relay |
| agentdctl (`bin/agentdctl.rs`) | what an `update` has read | `register`, `update`, `unregister`, `reload`; `list`, `status`, `init` | the control socket; several may run at once |
| Configuration (`config.rs`) | `AckWait`, progress interval, TTL, size limit | `load`, `validate` | read once at start |
| Agent ids, logging | none the daemon's behaviour depends on | – | – |

What makes it hard:

* every delivery, control connection, pull loop and keepalive is a tokio task
  on a multi-threaded runtime; `dispatch` has four critical sections with
  awaits and lock releases between them;
* a configuration change drops the dispatcher's state of an agent while
  dispatches of it are running (handlers are never killed);
* the registry's mutations are serialized, but applying their changes is not,
  and it awaits the server half-way;
* delivery is at least once, acks and keepalives may be lost, the daemon may
  die between the handler's exit, the completion record and the ack;
* two clocks: AckWait and the keepalive's sleep against each other, and the
  wall clock of the dedup records against the stream's retention;
* a command of agentdctl may be two requests, with the daemon restarted in
  between, and signals reach the main task only where its `select!` listens;
* registry files are replaced by write, fsync, rename, and read by `reload`,
  which also sweeps temp files.

What correctness means, per component: no event handled twice at once or again
after completion, no more handlers than permits, no mark or permit leaked,
every delivery resolved (dispatcher); ack only after the handler, order for
serial agents, no message lost or stuck (delivery); files and map agree, no
torn file, restart recovers (registry); pull loops follow the registry, none is
out of reach, SIGTERM ends in an exit (relay, daemon); the lease outlives every
dispatch and the record outlives the message (keepalive, dedup store); a
command that is not overlapped does what it says (agentdctl). `PROJECT.json` lists the hazards at their
lines and the properties aimed at each.

## 2. Modules

| Module | Models | Used by |
|---|---|---|
| `Dispatcher` | `Dispatcher` and the dedup store, under any relay | `MCDispatcher`, `DispatcherProofs`, `Delivery` |
| `DispatcherProofs` | – (theorems about `Dispatcher`) | |
| `Delivery` | `Dispatcher` + pull loop + JetStream consumer | `MCDelivery`, `DeliveryProofs` |
| `DeliveryProofs` | – (theorems about `Delivery`) | |
| `Changes` | `AgentConfig`, `Change`, the diff of `reload` | `AgentStore`, `Registry`, `Relay`, `Agentdctl` |
| `AgentStore` | what the registry promises: an atomic map whose files change together with it | implemented by `Registry`; the registry of `Relay` and `Agentdctl` |
| `Registry` | the registry and its files | `MCRegistry`, `RegistryProofs` |
| `RegistryProofs` | – (theorems about `Registry`, and that it implements `AgentStore`) | |
| `Relay` | control operations, `apply_changes`, pull loops, signals, start and shutdown | `MCRelay`, `RelayProofs` |
| `RelayProofs` | – (theorems about `Relay`) | |
| `Agentdctl` | agentdctl's commands, the control socket, the daemon's lives | `MCAgentdctl`, `AgentdctlProofs` |
| `AgentdctlProofs` | – (theorems about `Agentdctl`) | |
| `Lifetime` | one message against time: lease, keepalive, retention, dedup record | `MCLifetime`, `LifetimeProofs` |
| `LifetimeProofs` | – (theorems about `Lifetime`) | |

Definitions whose comment begins with "Mutant of" are deliberately wrong
variants of the definition that follows. No specification uses them; each
property is checked to fail when one of them takes the original's place.

### Dispatcher

`dispatch()` is cut where shared state is read or written or an await ends:

    idle -Admit-> admitted -EnsureState-> waiting -Acquire-> holding
      -LookupMiss/LookupError-> missed -Insert-> registered -Spawn-> running
      -HandlerExit-> exited -Mark/MarkError-> recorded -Unregister-> acking -Ack-> idle

with the early exits `Reject` (to `terming`), `LookupHit` (to `acking`),
`DropDuplicate` (to `idle`, without an ack) and `SpawnFail` (to `terming`).
`permits[a] = None` says that `states` has no entry for `a`. A semaphore is an
allocation (`id`) with a capacity, so that an old and a new semaphore of one
agent are told apart; ids are reused once nothing refers to them, which keeps
the model finite without a bound on the number of changes. A permit is held by
every task whose `sem` is that semaphore and which is past `waiting`; it is
given back when `dispatch` returns. A failing `child.wait()` is treated by the
code as an exit with status -1 and is part of `HandlerExit`.

`Mutate` and `Reload` change the registry's map; `ApplyChanges`, a separate
step, is `DaemonHandle::apply` calling `Dispatcher::apply_changes`. `Receive`
hands over any message at any time: every redelivery policy of the server is
covered. `Crash` keeps the registry and the dedup store; the handlers die with
the daemon, as under the systemd unit of `docs/ops-guide.md`.

Three history variables appear only in properties: `ran`, `blind` (the lookup
failed and the code dispatched anyway) and `disturbed` (agents whose state was
dropped while a dispatch of theirs was using it, until the last of these
dispatches has ended).

### Delivery

Composes `Dispatcher` with the stream: `Fetch` is `available()` followed by a
fetch request of that size, one at a time per agent (what the server sends to a
fetch that has ended is lost: `LoseDelivery` before its end), `Deliver` the arrival of a message and the spawn of
its task, `LoseDelivery`, `SettleLost` and `AckWaitElapses` the failures. The
server is external: `Deliverable` says that it delivers in stream order, at most
`MaxAckPending` unsettled messages, and again what is `due`. `AckWaitElapses`
may happen at any time: a keepalive may fail for as long as the connection is
down. The history variable `lapsed` records that it happened to a message a
task was working on, and `HeldWithinLimit` promises its bound until then; the
other properties hold regardless. Every step of the composition is a
step of `Dispatcher` or leaves its variables unchanged (theorem
`ImplementsDispatcher`), so what is proved about `Dispatcher` holds here.

### Registry

One action per file operation of `persist` and `unregister`, under the mutex
`lock`. `disk` is what the file system shows, `stable` what a power loss would
leave, `dirty` the files whose data had not been synced when they were renamed;
`PowerLoss` picks any mixture, with the daemon running or not. `Edit` is an
operator, `Bad` any file that `load` rejects. `edited` and `cut` are history
variables; `cut` has the changes a kill caught between file and map and those,
answered or not, whose file was not stable when the power failed (`unregister`
does not sync the directory, and `persist` ignores a failing sync).

Two sequences of the code are one step. `load` reads file by file: each file is
read once and under the mutex, and an operator's edit of one file commutes with
the reading of another, so every outcome is that of a load at one instant with
the edits before or after it. `WriteTmp` creates and writes the temp file: until
`sync_all` nothing relies on its content, and a torn file is what is found if it
were renamed before.

### AgentStore, and the registry as an implementation of it

The abstract specification of the registry: a map of agents and their files
that change together (`Set`), a reload that takes over files that all load, a
kill that loses the map, a power loss that may take a file back to an earlier
complete version, also from a change that was answered, and never to anything
else. `Registry` implements it
(`ImplementsStore`) under the mapping `file <- disk`, `safe <- stable` and
`reg <- Visible`: a mutation takes effect at the rename or the removal of the
file, so the map a caller may rely on is `memory`, except that between that step
and the insertion into the map it already has the new value. Every other step of
`persist`, `unregister` and the sweep of temp files is a stutter or makes files
safe (`Flush`). The mapping is
what makes it sound that `Relay` and `Agentdctl` use the atomic steps of
`AgentStore` (`Store!Set`, `Store!Reload`, `Store!Start`, ...) as their
registry.

### Relay

A registry mutation is one step (of `AgentStore`), applying its changes
is one step per access to the server or the `pulls` map. `todo` is the set of
changes a thread has yet to apply, at most one per agent; the code sorts them by
agent id, so the next one is the one of least `Rank`. `fresh` is the loop
that `start_pull` has spawned and not yet listed. `Overlap = FALSE` makes each
operation wait for the previous one, which is the case in which consumers do
follow the registry; `Overlap = TRUE` is the program. `missed` is a history
variable about failed binds.

`signals` is what the listeners of the main task have noted. SIGHUP and SIGTERM
have listeners that live as long as the loop, so a signal that comes while a
reload is being applied is kept; `tokio::signal::ctrl_c()` makes a new listener
at every turn, so a Ctrl-C during a reload is noted by nobody and one that loses
the `select!` against SIGHUP is dropped (`Raise`, `Take`). The start has two
phases: `starting`, the sync of the consumers, and `serving`, in which the
control socket is bound and served and the handlers are not yet installed
(`Listen` ends it); a signal during either ends the daemon (`Interrupt`).

### Agentdctl

A client is a process: `Invoke`, `Connect`, the daemon's `ServeOk` or
`ServeError`, `Succeed` or `Fail`. `update` has two requests; between `ServeList`
and the second one it holds `cfg`, a copy of what it read. The daemon may be
killed or stopped at any step (`Die`): a connection whose request was not
answered, or whose answer was not yet in the client's buffer, is `closed`
(`unlisted` when the request was a list, which changes nothing); a kill leaves the socket's file `stale`, a graceful exit removes it, `Bind`
replaces it. The drain before a graceful exit serves clients as before, so
`Exit` is its end only. `ideal` is a history variable: what the commands that reported
success mean when taken one after the other, kept for an agent until two
commands on it overlap, the answer to a request that changes something is lost
or its file is edited. Applying a
change to the consumers is left to `Relay`.

### Lifetime

One message, published at time 0. `lease` is what is left of AckWait at the
server, `timer` the time to the keepalive's next progress ack, which comes up to
`Lag` after its sleep (the timer, and the await of `ack_with` in the turn
before), `wire` the progress acks on their way, each at most `Delay` old; `Tick` lets time pass and stops at
whatever is due. A final ack is taken by the server (`SettleArrives`) before the
dispatch returns (`Finish`). `row` is `completed_at` in the dedup store, stamped by a wall
clock whose error `skew` may be stepped at any time within `Skew`; `Start` is a
restart that purges by `Cutoff`. `LeaseMargin` and `RecordMargin` are the
relations the properties need and `validate()` does not ask for: it only wants
`Interval < AckWait` and `TTL > 0` (`ValidConfig`). The defaults (90 s and
300 s, 14 and 7 days) satisfy both with `MaxLost = 1` while lag and delay
together stay below a minute.

## 3. Runs

All passing runs finish; none is cut off by a constraint. State counts are
distinct states.

| Run | States | Shows |
|---|---|---|
| `DispatcherReconfig` | 1.7 M | all safety properties of the dispatcher with 2 tasks, 2 events, an invalid message, 3 configurations, changes and crashes |
| `DispatcherLive` | 289 k | every dispatch resolves; the handlers of an agent that is switched off for good drain |
| `DeliverySerial` | 1.1 M | serial agent, 2 messages, losses, configuration changes: order, ack after exit, one start per life, no more than `MaxAckPending` messages held although the fetch size is read early |
| `DeliveryLive` | 67 k | the same messages and losses with a crash instead of changes: order, ack after exit and one start per life across it, and every message is settled |
| `Registry` | 55 k | 2 callers, edits, kills, power losses: files and map agree, no torn file, the sweep is harmless, restart and reload bring in only edits and cut changes, every call returns; all of it implements `AgentStore` |
| `RelaySequential` | 1.2 M | 2 agents: consumers follow the registry when operations do not overlap |
| `RelayOverlap` | 384 k | whatever overlaps, no pull loop is out of reach and no listed one is dead; a SIGTERM ends in an exit, with reloads, other signals and control operations in its way |
| `Agentdctl` | 215 k | 2 commands at once, a daemon killed, stopped and restarted, operator edits: commands that do not overlap take effect exactly as meant, every command ends, the daemon is reachable |
| `Lifetime` | 752 k | lost, late and delayed progress acks, permit waits, restarts, clock steps: the lease holds under a dispatch, the record outlives the message |

Runs that are expected to find a violation state a sentence of the repository
that the code does not keep; `findings` in `PROJECT.json` quotes it.

| Run | Sentence | What happens |
|---|---|---|
| `DeliveryRerun` | duplicates after completion are suppressed | lookup and in-flight check are two critical sections; with concurrency 2 a copy slips between |
| `DeliveryOverlap` | no second concurrent handler | a change drops the in-flight set under a running handler |
| `RelayRace` | concurrent connections are fine | changes are applied in the wrong order; an enabled agent is not pulled for |

Further sentences are stated as definitions and belong to no run; TLC refutes
each of them when it is put in place of a configuration's properties:

* `ReloadRetriesBind` in `RelaySequential.cfg` (`src/relay.rs:222`, "consumer
  bind failed; agent not consumed until next reload", and
  `docs/ops-guide.md:123`): a reload finds no difference between files and
  registry and binds nothing;
* `RebindSetsMaxAck` in `RelaySequential.cfg` with `Agents = {a1}`,
  `Rank <- MCRank1` and `Bodies = {1, 2}` (`src/relay.rs:231`, "Rebind in case
  concurrency (MaxAckPending) changed"): `get_or_create_consumer` returns the
  consumer as it is. `Delivery` therefore takes `MaxAckPending` as a constant of
  its own, apart from the `max_concurrency` of the configurations;
* `CtrlCStops` in `RelayOverlap.cfg` (`src/main.rs:132`, "SIGTERM/Ctrl-C →
  graceful shutdown"): a Ctrl-C that is pending together with a SIGHUP is
  dropped with its listener;
* `StateHasNewConcurrency` in `DispatcherReconfig.cfg` (`src/dispatcher.rs:114`,
  "State is recreated lazily with the new concurrency"): a dispatch or a poll
  that read the old config puts the old number of permits back, and they stay.
  `WithinConcurrency` is about the semaphore in force, whichever that is;
* `FlagsMergeOverCurrent` in `Agentdctl.cfg` (`src/bin/agentdctl.rs:73`, "flags
  merge over the current config"): they are merged over the config the first
  request read; of two overlapping updates one is lost;
* `StrictlyInOrder` in `DeliverySerial.cfg` with `MaxAckPending <- MCPending2`
  (`docs/agent-guide.md:102`): a consumer created with `MaxAckPending` 2 keeps
  it when the agent is lowered to `max_concurrency = 1`, and two redeliveries
  may then wait for the one permit in the wrong order;
* `DrainStopsPulling` in `RelayOverlap.cfg` (`src/relay.rs:306`, "stop pulling,
  wait for all in-flight dispatches"): a control operation starts a pull loop
  during the drain.

Sentences found wrong without a model: the header of `src/agent_id.rs` gives a
grammar with `.` between tokens, the code splits at `_`; `ensure_stream`
"create or reconcile" (`src/relay.rs:62`) leaves an existing stream as it is;
`purge_expired` "the run loop will call it periodically" (`src/dedup.rs:113`) is
called at open only (`Lifetime` models the code).

Properties of the passing runs that speak of "undisturbed" agents, of serial
agents or of operations that do not overlap are the parts of these sentences
that do hold.

### Bounds

One agent is enough for `Dispatcher` and `Delivery`: no step of one agent's
dispatch reads another agent's state (a reload changes several agents at once,
which the proofs cover). Two tasks are the smallest number with a race; the
proofs cover any number. Two events distinguish "another event of the agent"
from "the same". Capacities 1 and 2 are the serial and the concurrent case.
`SemIds` has one id more than can be referenced (`MCDispatcher` assumes it);
without configuration changes (`DeliveryLive`, `DeliveryRerun`) one id is
enough. `MaxCrashes` bounds the crashes of a `Delivery` behaviour: a second
crash starts from a state like the first one's, and crashes of `Dispatcher` are
not bounded. `MaxTasks` bounds the dispatch tasks alive at once in `Relay`,
where only the difference between none and some matters. `Registry` needs two
callers for its races; its agents share only the mutex, the sweep and the fate of
a load (one bad file rejects all), so
one is enough there, and `RelaySequential` has reloads that touch two. Symmetry
is declared for tasks, semaphore ids, events, loops and connections where the
instance treats them alike, never in a run with a liveness property. The
`Delivery` runs do not check deadlock: an agent that is not registered, or a
stream that is settled, leaves nothing to do.

`Agentdctl` has one agent with two fields, each changed by one flag, and two
processes: the smallest instance in which an update can undo another.
`Lifetime` has one message (leases, timers and rows of different messages do not
meet); `MaxTime` lies beyond `MaxAge` and the TTL, so that every purge and the
end of retention happen within it; the proofs have no such bound in them but the
constant itself. `Registry`'s refinement is checked on the same instance as its
other properties, and proved for every one.

### Fairness

* Tasks of a tokio runtime are scheduled: weak fairness of the internal steps
  of a dispatch, of applying changes and of the pull loop.
* tokio's semaphore is FIFO, so no waiter is overtaken for ever: strong
  fairness of `Acquire`. The registry's mutex: strong fairness of `Step`.
* `tokio::select!` polls its branches in random order, so a SIGTERM that stays
  noted is taken in the end although SIGHUPs keep coming: strong fairness of
  `Shutdown`. Without it `SigtermStops` fails.
* agentdctl processes are scheduled, the daemon answers what it has read and
  binds its socket once it is up: weak fairness of `Client`, `Serve` and `Bind`.
* Handlers exit: weak fairness of `HandlerExit`. agentd has no timeout and
  waits as long as they take; without this nothing could be promised.
* The connection comes back: what is sent again and again (a message, an ack,
  a term) arrives in the end: strong fairness of `Consume`, `AckArrives` and
  `TermArrives`. `AckWait` elapses: weak fairness.
* Nothing obliges a client, an operator or a crash to act.

## 4. Proofs

`DispatcherProofs` proves, for every set of agents, events, configurations,
operations and semaphore ids and every finite set of tasks:

* `TypeCorrect`: `Spec => []TypeOK`
* `Exclusive`, `MarksAreOwned`, `MarksAreExact`, `SerialAtMostOnce`,
  `AckAfterExit`, `Bounded`: the safety properties of `DispatcherReconfig`.

Assumptions, all named in `Dispatcher`: configurations have a positive
`max_concurrency`, messages and configurations have their types, `Tasks` is
finite, `None` is none of the values it stands beside.

The argument. None of the properties is inductive. The invariant `IInv` adds:

* `TaskShape`: which of config and semaphore a task holds where;
* `OneGeneration`: all tasks of an undisturbed agent hold the semaphore its
  state has. This is what a dropped state breaks, and why the properties speak
  of undisturbed agents;
* `PermitBound`: holders never exceed the capacity, for every semaphore, the
  dropped ones included;
* `StillUnrecorded`: a serial agent's event stays unrecorded from the lookup to
  the exit. The only step that could record it is `Mark` of another task of the
  same agent; that task would hold a permit of the same semaphore
  (`OneGeneration`) of capacity 1 (`PermitBound`), so it is the same task
  (`SerialHolder`). With capacity 2 the argument fails, and so does the
  property: run `DeliveryRerun`;
* `RanFirst`: records, and tasks past the exit, have a handler run behind them.

There is one lemma per conjunct with a step per action, and `Invariance`
combines them.

`DeliveryProofs` proves, for every stream, every `MaxAckPending` and number of
crashes:

* `ImplementsDispatcher`: `DeliverySpec => Spec`. Every step of the composition
  is a step of the dispatcher or a stutter, and with it the theorems above hold
  of the composition;
* `DeliveryTypeCorrect`, `AckedHandled`, `SerialOrder`: `DeliveryTypeOK`,
  `AckedWasHandled` and `SerialInOrder` of the runs.

* `WithinMaxAckPending`: `HeldWithinLimit`, for every number of tasks;
* `StartedOnce`: the action property `OncePerLife`.

`DeliveryInv` adds to `IInv`:

* `Held`: a task works on the message its index names; with `RanFirst` an
  arriving ack is that of a handled event;
* `InOrder`: everything before a delivered message is settled when
  `MaxAckPending` is 1. This is stronger than the property and about the
  server's deliveries, not the tasks: redeliveries, crashes and changes, which
  deliver nothing new, cannot break it;
* `PendingBound` and `HeldOnce`: the server keeps at most `MaxAckPending`
  messages pending, and until a lease lapses the message in a task's hands is
  pending, not due, and in no other task's hands. The tasks of an agent thus map
  one to one into its pending messages, which bounds them; the size of the
  fetch, read before the tasks take their permits, plays no part;
* `BegunIsRecorded`: while the store works, an event whose handler was started
  is recorded, or its task is between `command.spawn()` and `mark_completed`. A
  second start would have seen the record (`StillUnrecorded`) or the in-flight
  mark (`InFlightExclusive`). Only the first half needs a serial agent.

`LifetimeProofs` proves, for every value of the constants that satisfies
`LeaseMargin` and `RecordMargin`:

* `LeaseHolds`: `Spec => []LeaseKept`. `LeaseInv` says what the lease still
  covers: with no progress ack on its way, the time to the next one, the periods
  of the acks that may still be lost, each `Interval + Lag` at most, and one
  delay (`Needed`); with one on its way, the rest of its delay. A task may wait for its permit or run for ever; the
  argument never looks at what it does;
* `RecordHolds`: `Spec => []RecordedNotRerun`. `RecordInv` bounds a row from
  below by the publication less the clock's error, so a cutoff taken while the
  message can still be delivered, at most `MaxAge` later and off by the error
  once more, spares it (`PurgeSpares`);
* `TypeCorrect`: `TypeOK`.

`RegistryProofs` proves, for every set of agents, configurations and callers:

* `TypeCorrect`, `FilesFollowMap`, `NoTornFile`, `SweepSparesTmp`: `TypeOK`,
  `DiskIsMemory`, `NeverTorn`, `TmpSurvives`;
* `RestartKeepsMap`, `ReloadOnlyEdits`: the action properties `RestartRecovers`
  and `ReloadAppliesEdits`;
* `RegistryIsStore`: `Spec => Store!Spec` under the mapping of section 2. The
  lemma `StoreStep` says for each action which step of the store it is or that it
  is a stutter (`Rename` and `RemoveFile` are `Set`, a successful `Reload` is
  `Reload`, the sync of the directory and the kernel's writeback are `Flush`);
  `Visible` is what makes the insertion into the map no step of its own.

The invariant `IInv` adds `CallerShape` (past its first step a caller holds the
mutex, and what it checked of the map still holds), `TmpIsMine` (its temp file
holds its config, synced before the rename), `NothingTorn`, and the two halves
of "the files are the map": `DiskIsVisible` while the daemon runs, with an
operation counted from its rename on, and `DiskIsLastMap` while it is down. The
property `DiskIsMemory` speaks of a free mutex only; without `DiskIsVisible`
nothing is known at the moment the mutex is given back.

`RelayProofs` proves, for every set of agents, connections and loops:

* `TypeCorrect`, `LoopsAreTracked`, `ListIsLive`: `TypeOK`, `NoStrayLoop` and
  `ListedIsRunning`, with any overlap of operations. `LoopInv` adds
  `FreshIsMine`: a loop that was spawned and not listed is known to one thread
  only, pulls for the agent of that thread's change and was not told to stop;
* `EnabledArePulled`, `RemovedAreNotPulled`: `EnabledIsPulled` and
  `RemovedIsNotPulled` under the hypothesis `~Overlap`, that is when every
  operation waits for the previous one. Without it the first is false: run
  `RelayRace`. `SerialInv` adds that one thread is at work (`OneAtATime`), that
  the changes it has yet to apply still say what the registry holds
  (`ChangesMatch`; this is what overlapping operations break), and that every
  agent with no change to come is listed as the registry wants it (`Settled`).
  A reload may change any number of agents; that there is a next change at all
  rests on `LeastNat`, from the well-foundedness of `<`.

`AgentdctlProofs` proves, for every set of agents, processes and flags:

* `TypeCorrect` and `CommandsInTurn`: `TypeOK` and `InTurnNothingLost`. `IInv`
  says for an agent whose commands are still taken in turn that map and file
  agree (`FileIsMap`), that between commands the file is what they mean
  (`FileIsIdeal`), and for each point of a command how far it got (`Progress`):
  an update that has read or merged holds what the file still says, although the
  daemon may have died and come back since.

Assumptions on the constants, beside those of `Dispatcher`: a stream is a
sequence of messages and `MaxAckPending` positive; `None` is no config, and in
`Registry` no caller, call or temp file, in `Relay` no agent, loop or kind of
change, in `Agentdctl` no command; `Rank`
gives distinct agents distinct numbers; flags have their type. TLC evaluates
each of them in the runs. The inductive invariants were checked by TLC on the
runs' instances before they were proved.

Every invariant and every action property of the passing runs is stated by a
theorem, and so is the refinement. Only model-checked are the liveness
properties, because fairness and ENABLED are outside the prover's reach:
`EveryDispatchResolves`, `OffAgentDrains`, `EverySettled`, `EveryCallReturns`,
`SigtermStops`, `CommandsEnd` and `DaemonReachable`.

## 5. Not modelled

* Clocks elsewhere than in `Lifetime`: the fetch expiry, the slow-handler
  warning, the back-off of `accept`. Timeouts are nondeterministic there.
* Process details: stdin writing, environment, exit codes, a handler's
  children, handlers that outlive a daemon started by hand (`kill_on_drop` is
  not set; under systemd they end with its control group).
* The TOML of the configuration and of the agents' files, the JSON framing, the
  socket's permissions, path defaults, connecting to the server (the client
  library retries), creating the stream.
* The agent-id grammar: a check of one string, character by character, with
  unit and property tests beside it. The models take ids as opaque; that
  distinct ids have distinct files, subjects and consumers is by prefixing.
* Logging and error types: output only.
* Read-only operations (`list` by itself, `status`, `snapshot`,
  `consumer_backlog`, `in_flight`).
* Two daemons on one socket or one `agents.d`: `docs/ops-guide.md` calls it a
  misconfiguration.

## 6. Plan

1. Done: `Dispatcher`, `Delivery`, `Lifetime`, `Registry` with the store it
   implements, `Relay` with its signals, `Agentdctl`, and the proofs of their
   safety properties.
2. What `Relay` keeps when operations do overlap: the weakest condition on two
   operations under which `EnabledIsPulled` survives, stated and proved in place
   of `~Overlap`.
3. The safety part of `SigtermStops`: what the drain waits for, as an invariant.
