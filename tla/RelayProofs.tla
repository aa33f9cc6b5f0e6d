------------------------------ MODULE RelayProofs -----------------------------
(***************************************************************************)
(* Proofs about the control plane and the pull loops, for every set of     *)
(* agents, connections and loops: no loop escapes the pulls map however    *)
(* operations overlap; and when they do not overlap, what is pulled follows *)
(* the registry.                                                           *)
(***************************************************************************)
EXTENDS Relay, WellFoundedInduction, TLAPS

-----------------------------------------------------------------------------
(* The inductive invariants.                                               *)

\* What a thread has at each point of apply_changes.
ThreadShape ==
    \A t \in Threads :
        /\ pc[t] = "idle" => todo[t] = {}
        /\ pc[t] \in {"stopped", "binding", "spawned"} => todo[t] # {}
        /\ pc[t] = "stopped" => Current(t).kind = "Updated"
        /\ pc[t] \in {"binding", "spawned"} =>
               Current(t).kind \in {"Added", "Enabled", "Updated"}
        /\ pc[t] = "spawned" <=> fresh[t] # None

TypeInv == TypeOK /\ ThreadShape

\* A loop that is spawned and not yet listed belongs to one thread, pulls for
\* the agent of its change, and nobody else knows of it.
FreshIsMine ==
    /\ \A t \in Threads : fresh[t] # None =>
           /\ loop[fresh[t]] = Target(t)
           /\ fresh[t] \notin aborted
           /\ \A a \in Agents : pulls[a] # fresh[t]
    /\ \A t, u \in Threads : fresh[t] # None /\ fresh[t] = fresh[u] => t = u

\* Only a loop that runs is told to stop.
AbortedRuns == \A l \in aborted : loop[l] # None

Tracked == FreshIsMine /\ AbortedRuns /\ ListedIsRunning /\ NoStrayLoop

LoopInv == TypeInv /\ Tracked

\* Operations that wait for each other: one thread is at work ...
OneAtATime == \A t, u \in Threads : pc[t] # "idle" /\ pc[u] # "idle" => t = u

\* ... on changes that still say what the registry holds.
ChangesMatch ==
    \A t \in Threads : \A c \in todo[t] :
        /\ c.kind = "Removed" <=> reg[c.agent] = None
        /\ c.kind = "Disabled" => ~reg[c.agent].enabled

Pending(a) == \E t \in Threads : \E c \in todo[t] : c.agent = a

\* The daemon has not begun to shut down.
Working == phase \in {"starting", "serving", "running"}

\* An agent with no change to be applied is listed as the registry wants it.
Settled ==
    Working =>
        \A a \in Agents : ~Pending(a) =>
            /\ IsEnabled(a) /\ missed[a] = "no" => pulls[a] # None
            /\ reg[a] = None => pulls[a] = None

SerialInv == LoopInv /\ OneAtATime /\ ChangesMatch /\ Settled

-----------------------------------------------------------------------------
(* Facts about the operators of the model.                                 *)

\* A set of naturals that is not empty has a least element.
LEMMA LeastNat ==
  ASSUME NEW S \in SUBSET Nat, S # {}
  PROVE  \E n \in S : \A m \in S : n <= m
  <1>1. PICK n \in S : \A m \in S : <<m, n>> \notin OpToRel(<, Nat)
    BY NatLessThanWellFounded, WFMin
  <1>2. \A m \in S : ~(m < n)
    BY <1>1 DEF OpToRel
  <1> QED
    BY <1>2

\* The fields of a change.
LEMMA ChangeFields ==
  ASSUME NEW c \in Change
  PROVE  /\ c.agent \in Agents
         /\ c.kind \in {"Added", "Updated", "Enabled", "Disabled", "Removed"}
         /\ c.kind # "Removed" => c.conc \in Bodies
  BY DEF Change

\* A thread with changes to apply is at one of them.
LEMMA CurrentIsTodo ==
  ASSUME TypeOK, NEW t \in Threads, todo[t] # {}
  PROVE  /\ Current(t) \in todo[t]
         /\ Current(t) \in Change
         /\ Target(t) \in Agents
  <1>1. todo[t] \subseteq Change
    BY DEF TypeOK
  <1> DEFINE ranks == {Rank[c.agent] : c \in todo[t]}
  <1>2. ranks \in SUBSET Nat /\ ranks # {}
    BY <1>1, ChangeFields, RankAssumption
  <1>3. PICK n \in ranks : \A m \in ranks : n <= m
    BY <1>2, LeastNat
  <1>4. PICK c \in todo[t] : n = Rank[c.agent]
    BY <1>3
  <1>5. \A d \in todo[t] : Rank[c.agent] <= Rank[d.agent]
    BY <1>3, <1>4
  <1>6. Current(t) \in todo[t]
    BY <1>5 DEF Current, First
  <1> QED
    BY <1>1, <1>6, ChangeFields DEF Target

\* The change that is announced has the kind, the agent and, unless the agent
\* is gone, the config it was made from.
LEMMA ChangeOfType ==
  ASSUME NEW k \in {"Added", "Updated", "Enabled", "Disabled", "Removed"},
         NEW a \in Agents, NEW cfg \in Configs \cup {None}, k # "Removed" => cfg \in Configs
  PROVE  /\ ChangeOf(k, a, cfg) \in Change
         /\ ChangeOf(k, a, cfg).kind = k
         /\ ChangeOf(k, a, cfg).agent = a
  <1>1. CASE k = "Removed"
    BY <1>1 DEF ChangeOf, Change
  <1>2. CASE k # "Removed"
    <2>1. cfg.body \in Bodies
      BY <1>2 DEF Configs
    <2> QED
      BY <1>2, <2>1 DEF ChangeOf, Change
  <1> QED
    BY <1>1, <1>2

\* What the diff of a reload says of an agent, from its old and new config.
LEMMA KindFacts ==
  ASSUME NEW was \in Configs \cup {None}, NEW is \in Configs \cup {None}
  PROVE  /\ ChangeKind(was, is) = None <=> was = is
         /\ was # is =>
                /\ ChangeKind(was, is) \in {"Added", "Updated", "Enabled", "Disabled", "Removed"}
                /\ ChangeKind(was, is) = "Removed" <=> is = None
                /\ ChangeKind(was, is) = "Disabled" => ~is.enabled
  BY NoneAssumption DEF ChangeKind

\* The diff of a reload names exactly the agents it changes, and agrees with
\* the new map.
LEMMA DiffFacts ==
  ASSUME NEW old \in Registries, NEW new \in Registries
  PROVE  /\ ChangeList(old, new) \in SUBSET Change
         /\ \A a \in Agents : old[a] # new[a] <=> \E c \in ChangeList(old, new) : c.agent = a
         /\ \A c \in ChangeList(old, new) :
                /\ c.kind = "Removed" <=> new[c.agent] = None
                /\ c.kind = "Disabled" => ~new[c.agent].enabled
  <1> DEFINE ch(a) == ChangeOf(ChangeKind(old[a], new[a]), a, new[a])
  <1>1. \A a \in Agents : a \in Changed(old, new) <=> old[a] # new[a]
    BY KindFacts DEF Changed, Registries
  <1>2. ASSUME NEW a \in Agents, old[a] # new[a]
        PROVE  /\ ch(a) \in Change /\ ch(a).agent = a
               /\ ch(a).kind = "Removed" <=> new[a] = None
               /\ ch(a).kind = "Disabled" => ~new[a].enabled
    <2>1. old[a] \in Configs \cup {None} /\ new[a] \in Configs \cup {None}
      BY DEF Registries
    <2>2. /\ ChangeKind(old[a], new[a]) \in {"Added", "Updated", "Enabled", "Disabled", "Removed"}
          /\ ChangeKind(old[a], new[a]) = "Removed" <=> new[a] = None
          /\ ChangeKind(old[a], new[a]) = "Disabled" => ~new[a].enabled
      BY <1>2, <2>1, KindFacts
    <2> QED
      BY <2>1, <2>2, ChangeOfType
  <1>3. ChangeList(old, new) = {ch(a) : a \in Changed(old, new)}
    BY DEF ChangeList
  <1>4. Changed(old, new) \subseteq Agents
    BY DEF Changed
  <1> HIDE DEF ch
  <1> QED
    BY <1>1, <1>2, <1>3, <1>4

\* The startup announces every enabled agent, and no other.
LEMMA StartupFacts ==
  ASSUME NEW r \in Registries
  PROVE  /\ StartupChanges(r) \in SUBSET Change
         /\ \A a \in Agents : r[a] # None /\ r[a].enabled =>
                \E c \in StartupChanges(r) : c.agent = a
         /\ \A c \in StartupChanges(r) : c.kind = "Added" /\ r[c.agent] # None
  <1> DEFINE on == {b \in Agents : r[b] # None /\ r[b].enabled}
             ch(a) == ChangeOf("Added", a, r[a])
  <1>1. ASSUME NEW a \in on
        PROVE  ch(a) \in Change /\ ch(a).kind = "Added" /\ ch(a).agent = a /\ r[a] # None
    BY ChangeOfType DEF Registries
  <1>2. StartupChanges(r) = {ch(a) : a \in on}
    BY DEF StartupChanges
  <1>3. \A a \in Agents : r[a] # None /\ r[a].enabled => a \in on
    OBVIOUS
  <1> HIDE DEF ch, on
  <1> QED
    BY <1>1, <1>2, <1>3

-----------------------------------------------------------------------------
(* Types and threads.                                                      *)

\* The parts of the state that a step of a thread may leave alone.
LEMMA SameChange ==
  ASSUME NEW t \in Threads, todo'[t] = todo[t]
  PROVE  Current(t)' = Current(t) /\ Target(t)' = Target(t)
  BY DEF Current, Target

\* Initially the main task has the startup's changes to apply.
LEMMA InitTypeInv == Init => TypeInv
  <1> SUFFICES ASSUME Init PROVE TypeInv
    OBVIOUS
  <1>1. StartupChanges(reg) \in SUBSET Change /\ reg \in Registries
    BY StartupFacts DEF Init
  <1>2. TypeOK
    BY <1>1, TasksAssumption DEF Init, TypeOK, Threads
  <1>3. ThreadShape
    BY DEF Init, ThreadShape
  <1> QED
    BY <1>2, <1>3 DEF TypeInv

\* What register, update, unregister and reload have in common: an idle thread
\* begins to apply changes that name every agent whose config is replaced, and
\* that say of each what the registry now holds.
Begins(t, changes) ==
    /\ Accepts(t)
    /\ Begin(t, changes)
    /\ reg' \in Registries /\ file' \in Registries
    /\ \A a \in Agents : reg'[a] # reg[a] => \E c \in changes : c.agent = a
    /\ \A c \in changes :
           /\ c.kind = "Removed" <=> reg'[c.agent] = None
           /\ c.kind = "Disabled" => ~reg'[c.agent].enabled
    /\ signals' \subseteq Signals
    /\ missed' \in [Agents -> {"no", "failed", "reloaded"}]
    /\ \A a \in Agents : missed'[a] = "no" <=> missed[a] = "no"
    /\ UNCHANGED <<phase, conc, fresh, loopVars, consumer, tasks>>

\* Each mutation through the control plane is such a beginning.
LEMMA OperationBegins ==
  ASSUME TypeOK, NEW c \in Conns, Operation(c)
  PROVE  \E changes \in SUBSET Change : Begins(c, changes)
  <1>1. ASSUME NEW a \in Agents, NEW cfg \in Configs \cup {None}, NEW k \in {"Added", "Updated", "Removed"},
               k = "Removed" <=> cfg = None, Mutate(c, a, cfg, k)
        PROVE  Begins(c, {ChangeOf(k, a, cfg)}) /\ {ChangeOf(k, a, cfg)} \in SUBSET Change
    <2>1. /\ ChangeOf(k, a, cfg) \in Change
          /\ ChangeOf(k, a, cfg).kind = k
          /\ ChangeOf(k, a, cfg).agent = a
      BY <1>1, ChangeOfType
    <2>2. reg' = [reg EXCEPT ![a] = cfg] /\ file' = [file EXCEPT ![a] = cfg]
      BY <1>1 DEF Mutate, Store!Set
    <2>3. reg' \in Registries /\ file' \in Registries
      BY <2>2 DEF TypeOK, Registries
    <2>4. reg'[a] = cfg /\ \A b \in Agents \ {a} : reg'[b] = reg[b]
      BY <2>2 DEF TypeOK, Registries
    <2>5. Accepts(c) /\ Begin(c, {ChangeOf(k, a, cfg)})
      BY <1>1 DEF Mutate
    <2>6. UNCHANGED <<phase, signals, conc, fresh, loopVars, consumer, tasks, missed>>
      BY <1>1 DEF Mutate
    <2> QED
      BY <1>1, <2>1, <2>3, <2>4, <2>5, <2>6 DEF Begins, TypeOK
  <1>2. CASE \E a \in Agents, cfg \in Configs : Register(c, a, cfg) \/ Update(c, a, cfg)
    <2>1. PICK a \in Agents, cfg \in Configs : Register(c, a, cfg) \/ Update(c, a, cfg)
      BY <1>2
    <2>2. PICK k \in {"Added", "Updated"} : Mutate(c, a, cfg, k)
      BY <2>1 DEF Register, Update
    <2> QED
      BY <1>1, <2>2, NoneIsNoConfig
  <1>3. CASE \E a \in Agents : Unregister(c, a)
    BY <1>1, <1>3 DEF Unregister
  <1> QED
    BY <1>2, <1>3 DEF Operation

\* So is a reload.
LEMMA ReloadBegins ==
  ASSUME TypeOK, NEW t \in Threads, Reload(t)
  PROVE  \E changes \in SUBSET Change : Begins(t, changes)
  <1>1. reg \in Registries /\ file \in Registries /\ reg' = file /\ file' = file
    BY DEF TypeOK, Reload, Store!Reload
  <1>2. signals' \subseteq Signals
    BY DEF TypeOK, Reload, Heard, Take
  <1>3. /\ missed' \in [Agents -> {"no", "failed", "reloaded"}]
        /\ \A a \in Agents : missed'[a] = "no" <=> missed[a] = "no"
    BY DEF TypeOK, Reload
  <1>4. Accepts(t) /\ Begin(t, ChangeList(reg, file))
    BY DEF Reload
  <1>5. UNCHANGED <<phase, conc, fresh, loopVars, consumer, tasks>>
    BY DEF Reload
  <1>6. Begins(t, ChangeList(reg, file))
    BY <1>1, <1>2, <1>3, <1>4, <1>5, DiffFacts DEF Begins
  <1> QED
    BY <1>1, <1>6, DiffFacts

\* A beginning keeps the types.
LEMMA BeginTypeInv ==
  ASSUME TypeInv, NEW t \in Threads, NEW changes \in SUBSET Change, Begins(t, changes)
  PROVE  TypeInv'
  <1>1. TypeOK'
    BY DEF TypeInv, TypeOK, Begins, Begin, loopVars
  <1>2. ThreadShape'
    BY SameChange DEF TypeInv, TypeOK, ThreadShape, Begins, Accepts, Begin
  <1> QED
    BY <1>1, <1>2 DEF TypeInv

\* A thread that goes on to its next change keeps the types of its todo list.
LEMMA NextChangeType ==
  ASSUME TypeInv, NEW t \in Threads, NextChange(t)
  PROVE  /\ todo' \in [Threads -> SUBSET Change]
         /\ pc' \in [Threads -> {"idle", "applying", "stopped", "binding", "spawned"}]
         /\ pc'[t] = "applying"
         /\ \A u \in Threads \ {t} : pc'[u] = pc[u] /\ todo'[u] = todo[u]
  BY DEF TypeInv, TypeOK, NextChange

\* Every step keeps the types and the shape of the threads.
LEMMA NextTypeInv == ASSUME TypeInv, [Next]_vars PROVE TypeInv'
  <1> USE DEF TypeInv
  <1>1. ASSUME NEW t \in Threads, NEW changes \in SUBSET Change, Begins(t, changes)
        PROVE  TypeInv'
    BY <1>1, BeginTypeInv
  <1>2. ASSUME UNCHANGED <<todo, pc, fresh>>, TypeOK'
        PROVE  TypeInv'
    BY <1>2 DEF ThreadShape, Current
  <1>3. ASSUME NEW t \in Threads, ReloadError(t)
        PROVE  TypeInv'
    BY <1>2, <1>3 DEF ReloadError, Heard, Take, TypeOK, threadVars, loopVars
  <1>4. ASSUME NEW t \in Threads, BindNew(t)
        PROVE  TypeInv'
    <2>1. Current(t) \in Change /\ Current(t).kind \in {"Added", "Enabled"} /\ todo[t] # {}
      BY <1>4, CurrentIsTodo DEF BindNew, Applies
    <2>2. TypeOK'
      BY <1>4, <2>1, ChangeFields DEF BindNew, TypeOK, loopVars
    <2>3. ThreadShape'
      BY <1>4, <2>1 DEF BindNew, Applies, TypeOK, ThreadShape, Current
    <2> QED
      BY <2>2, <2>3
  <1>5. ASSUME NEW t \in Threads, StopUpdated(t)
        PROVE  TypeInv'
    <2>1. Current(t).kind = "Updated" /\ todo[t] # {} /\ Target(t) \in Agents
      BY <1>5, CurrentIsTodo DEF StopUpdated, Applies
    <2>2. TypeOK'
      BY <1>5, <2>1 DEF StopUpdated, StopPull, TypeOK
    <2>3. ThreadShape'
      BY <1>5, <2>1 DEF StopUpdated, Applies, TypeOK, ThreadShape, Current
    <2> QED
      BY <2>2, <2>3
  <1>6. ASSUME NEW t \in Threads, NextChange(t), pc[t] # "spawned", UNCHANGED fresh, TypeOK'
        PROVE  TypeInv'
    BY <1>6, NextChangeType DEF ThreadShape, Current
  <1>7. ASSUME NEW t \in Threads, Rebind(t)
        PROVE  TypeInv'
    <2>1. CASE NextChange(t) /\ UNCHANGED conc
      BY <1>6, <1>7, <2>1, NextChangeType DEF Rebind, TypeOK, loopVars
    <2>2. CASE /\ reg[Target(t)] # None
               /\ pc' = [pc EXCEPT ![t] = "binding"]
               /\ conc' = [conc EXCEPT ![t] = reg[Target(t)].body]
               /\ UNCHANGED todo
      <3>1. Current(t).kind = "Updated" /\ todo[t] # {} /\ Target(t) \in Agents
        BY <1>7, CurrentIsTodo DEF Rebind, ThreadShape
      <3>2. reg[Target(t)].body \in Bodies
        BY <2>2, <3>1 DEF TypeOK, Registries, Configs
      <3>3. TypeOK'
        BY <1>7, <2>2, <3>2 DEF Rebind, TypeOK, loopVars
      <3>4. ThreadShape'
        BY <1>7, <2>2, <3>1 DEF Rebind, TypeOK, ThreadShape, Current
      <3> QED
        BY <3>3, <3>4
    <2> QED
      BY <1>7, <2>1, <2>2 DEF Rebind
  <1>8. ASSUME NEW t \in Threads, StopOne(t)
        PROVE  TypeInv'
    <2>1. Target(t) \in Agents /\ pc[t] = "applying" /\ NextChange(t)
      BY <1>8, CurrentIsTodo DEF StopOne, Applies
    <2>2. TypeOK'
      BY <1>8, <2>1, NextChangeType DEF StopOne, StopPull, TypeOK
    <2> QED
      BY <1>6, <1>8, <2>1, <2>2 DEF StopOne
  <1>9. ASSUME NEW t \in Threads, BindOk(t)
        PROVE  TypeInv'
    <2>1. /\ Target(t) \in Agents /\ todo[t] # {}
          /\ Current(t).kind \in {"Added", "Enabled", "Updated"}
      BY <1>9, CurrentIsTodo DEF BindOk, ThreadShape
    <2>2. PICK l \in Loops : /\ loop' = [loop EXCEPT ![l] = Target(t)]
                             /\ fresh' = [fresh EXCEPT ![t] = l]
      BY <1>9 DEF BindOk
    <2>3. consumer' \in [Agents -> Bodies \cup {None}]
      BY <1>9, <2>1 DEF BindOk, GetOrCreate, TypeOK
    <2>4. TypeOK'
      BY <1>9, <2>1, <2>2, <2>3 DEF BindOk, TypeOK
    <2>5. ThreadShape'
      BY <1>9, <2>1, <2>2, NoneAssumption DEF BindOk, TypeOK, ThreadShape, Current
    <2> QED
      BY <2>4, <2>5
  <1>10. ASSUME NEW t \in Threads, ListLoop(t)
         PROVE  TypeInv'
    <2>1. Target(t) \in Agents /\ fresh[t] \in Loops
      BY <1>10, CurrentIsTodo DEF ListLoop, ThreadShape, TypeOK
    <2>2. NextChange(t) /\ fresh' = [fresh EXCEPT ![t] = None]
      BY <1>10 DEF ListLoop
    <2>3. TypeOK'
      BY <1>10, <2>1, <2>2, NextChangeType DEF ListLoop, TypeOK
    <2>4. ThreadShape'
      BY <2>2, NextChangeType DEF TypeOK, ThreadShape, Current
    <2> QED
      BY <2>3, <2>4
  <1>11. ASSUME NEW t \in Threads, BindFail(t)
         PROVE  TypeInv'
    <2>1. Target(t) \in Agents /\ NextChange(t)
      BY <1>11, CurrentIsTodo DEF BindFail, ThreadShape
    <2>2. TypeOK'
      BY <1>11, <2>1, NextChangeType DEF BindFail, TypeOK, loopVars
    <2> QED
      BY <1>6, <1>11, <2>1, <2>2 DEF BindFail
  <1>12. ASSUME NEW t \in Threads, Done(t)
         PROVE  TypeInv'
    <2>1. TypeOK'
      BY <1>12 DEF Done, TypeOK, loopVars
    <2>2. ThreadShape'
      BY <1>12 DEF Done, TypeOK, ThreadShape, Current
    <2> QED
      BY <2>1, <2>2
  <1>13. ASSUME NEW a \in Agents, NEW cfg \in Configs \cup {None}, Edit(a, cfg)
         PROVE  TypeInv'
    <2>1. reg' = reg /\ file' = [file EXCEPT ![a] = cfg]
      BY <1>13 DEF Edit, Store!Edit
    <2> QED
      BY <1>2, <1>13, <2>1 DEF Edit, TypeOK, Registries, threadVars, loopVars
  <1>14. ASSUME NEW sig \in Signals, Raise(sig)
         PROVE  TypeInv'
    BY <1>2, <1>14 DEF Raise, TypeOK, threadVars, loopVars
  <1>15. ASSUME NEW l \in Loops, SpawnDispatch(l) \/ EndLoop(l)
         PROVE  TypeInv'
    BY <1>2, <1>15, TasksAssumption DEF SpawnDispatch, EndLoop, TypeOK, threadVars, loopVars
  <1>16. CASE EndDispatch \/ Listen \/ Join
    BY <1>2, <1>16, TasksAssumption DEF EndDispatch, Listen, Join, TypeOK, threadVars, loopVars
  <1>17. CASE Shutdown
    BY <1>2, <1>17 DEF Shutdown, TypeOK, threadVars
  <1>18. CASE Stop
    <2>1. TypeOK'
      BY <1>18, TasksAssumption DEF Stop, TypeOK
    <2>2. ThreadShape'
      BY <1>18 DEF Stop, ThreadShape
    <2> QED
      BY <2>1, <2>2
  <1>19. CASE UNCHANGED vars
    BY <1>2, <1>19 DEF vars, TypeOK, threadVars, loopVars
  <1> QED
    <2>1. ASSUME NEW c \in Conns, Operation(c)
          PROVE  TypeInv'
      BY <1>1, <2>1, OperationBegins DEF Threads
    <2>2. ASSUME NEW t \in Threads, Reload(t)
          PROVE  TypeInv'
      BY <1>1, <2>2, ReloadBegins
    <2> QED
      BY <2>1, <2>2, <1>3, <1>4, <1>5, <1>7, <1>8, <1>9, <1>10, <1>11, <1>12, <1>13, <1>14,
         <1>15, <1>16, <1>17, <1>18, <1>19
      DEF Next, Apply, Exit, Interrupt

-----------------------------------------------------------------------------
(* Pull loops.                                                             *)

\* Threads that hold an unlisted loop stay at the change they spawned it for.
HoldersStay == \A t \in Threads : fresh[t] # None => todo'[t] = todo[t]

\* A step that leaves the loops alone keeps track of them.
LEMMA LoopFrame ==
  ASSUME TypeInv, Tracked, HoldersStay, UNCHANGED <<fresh, pulls, loop, aborted>>
  PROVE  Tracked'
  <1>1. \A t \in Threads : fresh[t] # None => Target(t)' = Target(t)
    BY SameChange DEF HoldersStay
  <1>2. FreshIsMine'
    BY <1>1 DEF Tracked, FreshIsMine
  <1>3. AbortedRuns' /\ ListedIsRunning'
    BY DEF Tracked, AbortedRuns, ListedIsRunning
  <1>4. NoStrayLoop'
    BY <1>1, NoneAssumption DEF Tracked, NoStrayLoop
  <1> QED
    BY <1>2, <1>3, <1>4 DEF Tracked

\* So does stop_pull.
LEMMA StopPullTracked ==
  ASSUME TypeInv, Tracked, HoldersStay, NEW a \in Agents, StopPull(a), UNCHANGED <<fresh, loop>>
  PROVE  Tracked'
  <1>1. \A t \in Threads : fresh[t] # None => Target(t)' = Target(t)
    BY SameChange DEF HoldersStay
  <1>2. /\ pulls'[a] = None
        /\ \A b \in Agents \ {a} : pulls'[b] = pulls[b]
        /\ aborted' = aborted \cup ({pulls[a]} \ {None})
    BY DEF StopPull, TypeInv, TypeOK
  <1>3. FreshIsMine'
    BY <1>1, <1>2 DEF Tracked, FreshIsMine
  <1>4. AbortedRuns'
    BY <1>2, NoneAssumption DEF Tracked, AbortedRuns, ListedIsRunning
  <1>5. ListedIsRunning'
    BY <1>2 DEF Tracked, ListedIsRunning
  <1>6. NoStrayLoop'
    BY <1>1, <1>2, NoneAssumption DEF Tracked, NoStrayLoop, TypeInv, TypeOK
  <1> QED
    BY <1>3, <1>4, <1>5, <1>6 DEF Tracked

\* A new loop takes a task that is neither listed, nor about to be, nor still
\* being stopped.
LEMMA BindOkTracked ==
  ASSUME TypeInv, Tracked, NEW t \in Threads, BindOk(t)
  PROVE  Tracked'
  <1>1. PICK l \in Loops : /\ loop[l] = None
                           /\ loop' = [loop EXCEPT ![l] = Target(t)]
                           /\ fresh' = [fresh EXCEPT ![t] = l]
    BY DEF BindOk
  <1>2. /\ Target(t) \in Agents /\ fresh[t] = None
        /\ UNCHANGED <<todo, pulls, aborted>>
    BY CurrentIsTodo DEF BindOk, TypeInv, ThreadShape
  <1>3. \A u \in Threads : Target(u)' = Target(u)
    BY <1>2, SameChange
  <1>4. /\ \A a \in Agents : pulls[a] # l
        /\ \A u \in Threads : fresh[u] # l
        /\ l \notin aborted
    <2>1. \A a \in Agents : pulls[a] # l
      BY <1>1, NoneAssumption DEF Tracked, ListedIsRunning
    <2>2. \A u \in Threads : fresh[u] = l => Target(u) \in Agents
      BY <1>1, CurrentIsTodo, NoneAssumption DEF TypeInv, ThreadShape
    <2> QED
      BY <1>1, <2>1, <2>2, NoneAssumption DEF Tracked, FreshIsMine, AbortedRuns
  <1>5. /\ loop'[l] = Target(t) /\ \A k \in Loops \ {l} : loop'[k] = loop[k]
        /\ fresh'[t] = l /\ \A u \in Threads \ {t} : fresh'[u] = fresh[u]
    BY <1>1 DEF TypeInv, TypeOK
  <1>6. FreshIsMine'
    BY <1>2, <1>3, <1>4, <1>5 DEF Tracked, FreshIsMine, TypeInv, TypeOK
  <1>7. AbortedRuns'
    BY <1>2, <1>4, <1>5 DEF Tracked, AbortedRuns, TypeInv, TypeOK
  <1>8. ListedIsRunning'
    BY <1>2, <1>4, <1>5 DEF Tracked, ListedIsRunning, TypeInv, TypeOK
  <1>9. NoStrayLoop'
    <2>1. ASSUME NEW k \in Loops \ {l}, loop[k] # None
          PROVE  \/ pulls[loop[k]] = k
                 \/ k \in aborted
                 \/ \E u \in Threads : fresh'[u] = k /\ Target(u)' = loop[k]
      BY <1>2, <1>3, <1>5, <2>1, NoneAssumption DEF Tracked, NoStrayLoop
    <2>2. fresh'[t] = l /\ Target(t)' = loop'[l]
      BY <1>3, <1>5
    <2> QED
      BY <1>2, <1>5, <2>1, <2>2 DEF NoStrayLoop
  <1> QED
    BY <1>6, <1>7, <1>8, <1>9 DEF Tracked

\* Listing a loop stops the one it replaces.
LEMMA ListLoopTracked ==
  ASSUME TypeInv, Tracked, NEW t \in Threads, ListLoop(t)
  PROVE  Tracked'
  <1> DEFINE a == Target(t)
             l == fresh[t]
  <1>1. /\ a \in Agents /\ l \in Loops /\ l # None
        /\ loop[l] = a /\ l \notin aborted /\ \A b \in Agents : pulls[b] # l
    BY CurrentIsTodo DEF ListLoop, TypeInv, TypeOK, ThreadShape, Tracked, FreshIsMine
  <1>2. /\ pulls'[a] = l /\ \A b \in Agents \ {a} : pulls'[b] = pulls[b]
        /\ fresh'[t] = None /\ \A u \in Threads \ {t} : fresh'[u] = fresh[u]
        /\ aborted' = aborted \cup ({pulls[a]} \ {None})
        /\ loop' = loop
    BY <1>1 DEF ListLoop, TypeInv, TypeOK
  <1>3. \A u \in Threads \ {t} : todo'[u] = todo[u] /\ Target(u)' = Target(u)
    BY SameChange, NextChangeType DEF ListLoop
  <1>4. \A u \in Threads \ {t} : fresh[u] # l
    BY <1>1 DEF Tracked, FreshIsMine
  <1> HIDE DEF a, l
  <1>5. FreshIsMine'
    BY <1>1, <1>2, <1>3, <1>4 DEF Tracked, FreshIsMine
  <1>6. AbortedRuns'
    BY <1>1, <1>2, NoneAssumption DEF Tracked, AbortedRuns, ListedIsRunning
  <1>7. ListedIsRunning'
    BY <1>1, <1>2 DEF Tracked, ListedIsRunning
  <1>8. NoStrayLoop'
    BY <1>1, <1>2, <1>3, NoneAssumption DEF Tracked, NoStrayLoop, TypeInv, TypeOK, a, l
  <1> QED
    BY <1>5, <1>6, <1>7, <1>8 DEF Tracked

\* No step of any thread, signal or shutdown loses track of a loop.
LEMMA TrackedStep ==
  ASSUME TypeInv, Tracked, [Next]_vars
  PROVE  Tracked'
  <1>1. ASSUME NEW t \in Threads, NEW changes \in SUBSET Change, Begins(t, changes)
        PROVE  Tracked'
    <2>1. HoldersStay
      BY <1>1 DEF Begins, Accepts, Begin, TypeInv, TypeOK, ThreadShape, HoldersStay
    <2> QED
      BY <1>1, <2>1, LoopFrame DEF Begins, loopVars
  <1>2. ASSUME NEW t \in Threads, pc[t] # "spawned", NextChange(t)
        PROVE  HoldersStay
    BY <1>2, NextChangeType DEF HoldersStay, TypeInv, ThreadShape
  <1>3. ASSUME NEW t \in Threads, BindNew(t) \/ Rebind(t) \/ BindFail(t) \/ Done(t) \/ ReloadError(t)
        PROVE  Tracked'
    <2>1. UNCHANGED todo \/ (NextChange(t) /\ pc[t] # "spawned")
      BY <1>3 DEF BindNew, Rebind, BindFail, Done, ReloadError, threadVars
    <2>2. HoldersStay
      BY <1>2, <2>1 DEF HoldersStay
    <2> QED
      BY <1>3, <2>2, LoopFrame
      DEF BindNew, Rebind, BindFail, Done, ReloadError, threadVars, loopVars
  <1>4. ASSUME NEW t \in Threads, StopUpdated(t)
        PROVE  Tracked'
    <2>1. Target(t) \in Agents
      BY <1>4, CurrentIsTodo DEF StopUpdated, Applies, TypeInv
    <2> QED
      BY <1>4, <2>1, StopPullTracked DEF StopUpdated, HoldersStay
  <1>5. ASSUME NEW t \in Threads, StopOne(t)
        PROVE  Tracked'
    <2>1. Target(t) \in Agents /\ HoldersStay
      BY <1>2, <1>5, CurrentIsTodo DEF StopOne, Applies, TypeInv
    <2> QED
      BY <1>5, <2>1, StopPullTracked DEF StopOne
  <1>6. ASSUME NEW l \in Loops, EndLoop(l)
        PROVE  Tracked'
    <2>1. /\ loop'[l] = None /\ \A k \in Loops \ {l} : loop'[k] = loop[k]
          /\ aborted' = aborted \ {l} /\ l \in aborted
          /\ UNCHANGED <<todo, fresh, pulls>>
      BY <1>6 DEF EndLoop, TypeInv, TypeOK, threadVars
    <2>2. \A t \in Threads : Target(t)' = Target(t)
      BY <2>1, SameChange
    <2>3. FreshIsMine'
      BY <2>1, <2>2 DEF Tracked, FreshIsMine, TypeInv, TypeOK
    <2>4. AbortedRuns'
      BY <2>1 DEF Tracked, AbortedRuns, TypeInv, TypeOK
    <2>5. ListedIsRunning'
      BY <2>1 DEF Tracked, ListedIsRunning, TypeInv, TypeOK
    <2>6. NoStrayLoop'
      BY <2>1, <2>2 DEF Tracked, NoStrayLoop
    <2> QED
      BY <2>3, <2>4, <2>5, <2>6 DEF Tracked
  <1>7. CASE Shutdown
    <2>1. /\ \A a \in Agents : pulls'[a] = None
          /\ aborted' = aborted \cup ({pulls[a] : a \in Agents} \ {None})
          /\ UNCHANGED <<todo, fresh, loop>>
      BY <1>7 DEF Shutdown, threadVars
    <2>2. \A t \in Threads : Target(t)' = Target(t)
      BY <2>1, SameChange
    <2>3. FreshIsMine'
      BY <2>1, <2>2 DEF Tracked, FreshIsMine
    <2>4. AbortedRuns'
      BY <2>1, NoneAssumption DEF Tracked, AbortedRuns, ListedIsRunning
    <2>5. ListedIsRunning'
      BY <2>1 DEF ListedIsRunning
    <2>6. NoStrayLoop'
      BY <2>1, <2>2, NoneAssumption DEF Tracked, NoStrayLoop, TypeInv, TypeOK
    <2> QED
      BY <2>3, <2>4, <2>5, <2>6 DEF Tracked
  <1>8. CASE Stop
    BY <1>8 DEF Stop, Tracked, FreshIsMine, AbortedRuns, ListedIsRunning, NoStrayLoop
  <1>9. ASSUME UNCHANGED <<todo, fresh, pulls, loop, aborted>>
        PROVE  Tracked'
    BY <1>9, LoopFrame DEF HoldersStay
  <1>10. ASSUME \/ \E sig \in Signals : Raise(sig)
                \/ \E a \in Agents, cfg \in Configs \cup {None} : Edit(a, cfg)
                \/ \E l \in Loops : SpawnDispatch(l)
                \/ EndDispatch \/ Listen \/ Join \/ UNCHANGED vars
         PROVE  Tracked'
    BY <1>9, <1>10
    DEF Raise, Edit, SpawnDispatch, EndDispatch, Listen, Join, vars, threadVars, loopVars
  <1>11. ASSUME NEW c \in Conns, Operation(c)
         PROVE  Tracked'
    BY <1>1, <1>11, OperationBegins DEF Threads, TypeInv
  <1>12. ASSUME NEW t \in Threads, Reload(t)
         PROVE  Tracked'
    BY <1>1, <1>12, ReloadBegins DEF TypeInv
  <1> QED
    BY <1>3, <1>4, <1>5, <1>6, <1>7, <1>8, <1>10, <1>11, <1>12, BindOkTracked, ListLoopTracked
    DEF Next, Apply, Exit, Interrupt

\* Initially there is no loop to keep track of.
LEMMA InitLoopInv == Init => LoopInv
  <1>1. Init => Tracked
    BY NoneAssumption
    DEF Init, Tracked, FreshIsMine, AbortedRuns, ListedIsRunning, NoStrayLoop
  <1> QED
    BY <1>1, InitTypeInv DEF LoopInv

\* The parts hold together in every reachable state, with any overlap.
THEOREM LoopInvariance == Spec => []LoopInv
  <1>1. LoopInv /\ [Next]_vars => LoopInv'
    BY NextTypeInv, TrackedStep DEF LoopInv
  <1> QED
    BY <1>1, InitLoopInv, PTL DEF Spec

\* The variables keep their types: no thread applies an agent it was not given,
\* and the pulls map names loops only.
THEOREM TypeCorrect == Spec => []TypeOK
  <1>1. LoopInv => TypeOK
    BY DEF LoopInv, TypeInv
  <1> QED
    BY <1>1, LoopInvariance, PTL

\* However control requests, reloads and the shutdown overlap, every pull loop
\* that runs is listed, about to be listed, or told to stop.
THEOREM LoopsAreTracked == Spec => []NoStrayLoop
  <1>1. LoopInv => NoStrayLoop
    BY DEF LoopInv, Tracked
  <1> QED
    BY <1>1, LoopInvariance, PTL

\* However they overlap, the map holds no handle of a loop that ended or was
\* told to stop.
THEOREM ListIsLive == Spec => []ListedIsRunning
  <1>1. LoopInv => ListedIsRunning
    BY DEF LoopInv, Tracked
  <1> QED
    BY <1>1, LoopInvariance, PTL

-----------------------------------------------------------------------------
(* Operations that do not overlap.                                         *)

\* A thread that goes on leaves the others idle, and its own changes fewer.
LEMMA SerialFrame ==
  ASSUME TypeInv, OneAtATime, ChangesMatch, NEW t \in Threads, pc[t] # "idle",
         pc' \in [Threads -> {"idle", "applying", "stopped", "binding", "spawned"}],
         todo'[t] \subseteq todo[t], UNCHANGED reg,
         \A u \in Threads \ {t} : pc'[u] = pc[u] /\ todo'[u] = todo[u]
  PROVE  OneAtATime' /\ ChangesMatch'
  <1>1. \A u \in Threads \ {t} : pc[u] = "idle"
    BY DEF OneAtATime
  <1>2. OneAtATime'
    BY <1>1 DEF OneAtATime
  <1>3. \A u \in Threads : todo'[u] \subseteq todo[u]
    OBVIOUS
  <1>4. ChangesMatch'
    BY <1>3 DEF ChangesMatch
  <1> QED
    BY <1>2, <1>4

\* What a thread's steps leave to be applied.
LEMMA ApplyFrame ==
  ASSUME TypeInv, NEW t \in Threads, Apply(t)
  PROVE  /\ pc[t] # "idle"
         /\ pc' \in [Threads -> {"idle", "applying", "stopped", "binding", "spawned"}]
         /\ todo'[t] \subseteq todo[t]
         /\ UNCHANGED <<reg>>
         /\ \A u \in Threads \ {t} : pc'[u] = pc[u] /\ todo'[u] = todo[u]
  <1>1. ASSUME NextChange(t)
        PROVE  /\ pc' \in [Threads -> {"idle", "applying", "stopped", "binding", "spawned"}]
               /\ todo'[t] \subseteq todo[t]
               /\ \A u \in Threads \ {t} : pc'[u] = pc[u] /\ todo'[u] = todo[u]
    BY <1>1 DEF NextChange, TypeInv, TypeOK
  <1>2. ASSUME NEW p \in {"idle", "applying", "stopped", "binding", "spawned"},
               pc' = [pc EXCEPT ![t] = p], UNCHANGED todo
        PROVE  /\ pc' \in [Threads -> {"idle", "applying", "stopped", "binding", "spawned"}]
               /\ todo'[t] \subseteq todo[t]
               /\ \A u \in Threads \ {t} : pc'[u] = pc[u] /\ todo'[u] = todo[u]
    BY <1>2 DEF TypeInv, TypeOK
  <1>3. pc[t] # "idle" /\ UNCHANGED reg
    BY DEF Apply, BindNew, StopUpdated, Rebind, StopOne, BindOk, ListLoop, BindFail, Done, Applies
  <1>4. \/ NextChange(t)
        \/ \E p \in {"idle", "applying", "stopped", "binding", "spawned"} :
               pc' = [pc EXCEPT ![t] = p] /\ UNCHANGED todo
    BY DEF Apply, BindNew, StopUpdated, Rebind, StopOne, BindOk, ListLoop, BindFail, Done
  <1> QED
    BY <1>1, <1>2, <1>3, <1>4

\* While operations wait for each other, one thread works, on changes that
\* still describe the registry.
LEMMA SerialStep ==
  ASSUME ~Overlap, TypeInv, OneAtATime, ChangesMatch, [Next]_vars
  PROVE  OneAtATime' /\ ChangesMatch'
  <1>1. ASSUME NEW t \in Threads, NEW changes \in SUBSET Change, Begins(t, changes)
        PROVE  OneAtATime' /\ ChangesMatch'
    <2>1. \A u \in Threads : pc[u] = "idle" /\ todo[u] = {}
      BY <1>1 DEF Begins, Accepts, AllIdle, TypeInv, ThreadShape
    <2>2. /\ todo'[t] = changes
          /\ \A u \in Threads \ {t} : pc'[u] = "idle" /\ todo'[u] = {}
      BY <1>1, <2>1 DEF Begins, Begin, TypeInv, TypeOK
    <2>3. OneAtATime'
      BY <2>2 DEF OneAtATime
    <2>4. ChangesMatch'
      BY <1>1, <2>2 DEF ChangesMatch, Begins
    <2> QED
      BY <2>3, <2>4
  <1>2. ASSUME NEW t \in Threads, Apply(t)
        PROVE  OneAtATime' /\ ChangesMatch'
    BY <1>2, ApplyFrame, SerialFrame
  <1>3. ASSUME UNCHANGED <<pc, todo, reg>>
        PROVE  OneAtATime' /\ ChangesMatch'
    BY <1>3 DEF OneAtATime, ChangesMatch
  <1>4. ASSUME \/ \E t \in Threads : ReloadError(t)
               \/ \E sig \in Signals : Raise(sig)
               \/ \E a \in Agents, cfg \in Configs \cup {None} : Edit(a, cfg)
               \/ \E l \in Loops : SpawnDispatch(l) \/ EndLoop(l)
               \/ EndDispatch \/ Listen \/ Shutdown \/ Join \/ UNCHANGED vars
        PROVE  OneAtATime' /\ ChangesMatch'
    BY <1>3, <1>4 DEF ReloadError, Raise, Edit, Store!Edit, SpawnDispatch, EndLoop,
                      EndDispatch, Listen, Shutdown, Join, vars, threadVars
  <1>5. CASE Stop
    BY <1>5 DEF Stop, OneAtATime, ChangesMatch
  <1>6. ASSUME NEW c \in Conns, Operation(c)
        PROVE  OneAtATime' /\ ChangesMatch'
    BY <1>1, <1>6, OperationBegins DEF Threads, TypeInv
  <1>7. ASSUME NEW t \in Threads, Reload(t)
        PROVE  OneAtATime' /\ ChangesMatch'
    BY <1>1, <1>7, ReloadBegins DEF TypeInv
  <1> QED
    BY <1>2, <1>4, <1>5, <1>6, <1>7 DEF Next, Exit, Interrupt

\* Settled, for one agent.
Well(a) ==
    /\ IsEnabled(a) /\ missed[a] = "no" => pulls[a] # None
    /\ reg[a] = None => pulls[a] = None

\* A step that concerns one agent leaves the others settled.
LEMMA OthersSettled ==
  ASSUME Settled, NEW a \in Agents, UNCHANGED reg,
         Working' => Working,
         \A b \in Agents \ {a} : pulls'[b] = pulls[b] /\ missed'[b] = missed[b],
         \A b \in Agents \ {a} : Pending(b) => Pending(b)',
         Pending(a)' \/ Well(a)'
  PROVE  Settled'
  BY DEF Settled, IsEnabled, Well

\* Going on to the next change takes one agent off the list.
LEMMA NextChangePending ==
  ASSUME TypeInv, NEW t \in Threads, NextChange(t)
  PROVE  \A b \in Agents \ {Target(t)} : Pending(b) => Pending(b)'
  <1> SUFFICES ASSUME NEW b \in Agents \ {Target(t)}, NEW u \in Threads,
                      NEW c \in todo[u], c.agent = b
               PROVE  c \in todo'[u]
    BY DEF Pending
  <1> QED
    BY DEF NextChange, Target, TypeInv, TypeOK

\* A change that is applied leaves its agent listed as the registry wants it,
\* unless its bind failed.
LEMMA SettledStep ==
  ASSUME ~Overlap, TypeInv, OneAtATime, ChangesMatch, Settled, [Next]_vars
  PROVE  Settled'
  <1> USE DEF Working
  <1>1. ASSUME NEW t \in Threads, NEW changes \in SUBSET Change, Begins(t, changes)
        PROVE  Settled'
    <2>1. \A a \in Agents : ~Pending(a)
      BY <1>1 DEF Begins, Accepts, AllIdle, TypeInv, ThreadShape, Pending
    <2>2. ASSUME NEW a \in Agents, ~Pending(a)'
          PROVE  reg'[a] = reg[a]
      BY <1>1, <2>2 DEF Begins, Begin, TypeInv, TypeOK, Pending
    <2>3. /\ UNCHANGED <<pulls, phase>>
          /\ \A a \in Agents : missed'[a] = "no" <=> missed[a] = "no"
      BY <1>1 DEF Begins, loopVars
    <2> QED
      BY <2>1, <2>2, <2>3 DEF Settled, IsEnabled
  <1>2. ASSUME NEW t \in Threads, todo[t] # {}
        PROVE  /\ Target(t) \in Agents /\ Pending(Target(t))
               /\ Current(t).kind = "Removed" <=> reg[Target(t)] = None
               /\ Current(t).kind = "Disabled" => ~reg[Target(t)].enabled
    BY <1>2, CurrentIsTodo DEF ChangesMatch, Pending, Target, TypeInv
  <1>3. ASSUME UNCHANGED todo
        PROVE  \A a \in Agents : Pending(a) => Pending(a)'
    BY <1>3 DEF Pending
  <1>4. ASSUME UNCHANGED <<todo, reg, pulls, missed>>,
               Working' => Working
        PROVE  Settled'
    BY <1>3, <1>4 DEF Settled, IsEnabled
  <1>5. ASSUME NEW t \in Threads, BindNew(t) \/ Done(t) \/ ReloadError(t)
        PROVE  Settled'
    BY <1>4, <1>5 DEF BindNew, Done, ReloadError, loopVars, threadVars
  <1>6. ASSUME NEW t \in Threads, StopUpdated(t)
        PROVE  Settled'
    <2>1. Target(t) \in Agents /\ Pending(Target(t))
      BY <1>2, <1>6 DEF StopUpdated, Applies
    <2>2. \A b \in Agents \ {Target(t)} : pulls'[b] = pulls[b] /\ missed'[b] = missed[b]
      BY <1>6, <2>1 DEF StopUpdated, StopPull, TypeInv, TypeOK
    <2> QED
      BY <1>3, <1>6, <2>1, <2>2, OthersSettled DEF StopUpdated
  <1>7. ASSUME NEW t \in Threads, BindOk(t)
        PROVE  Settled'
    <2>1. Target(t) \in Agents /\ Pending(Target(t))
      BY <1>2, <1>7 DEF BindOk, TypeInv, ThreadShape
    <2>2. \A b \in Agents \ {Target(t)} : pulls'[b] = pulls[b] /\ missed'[b] = missed[b]
      BY <1>7, <2>1 DEF BindOk, TypeInv, TypeOK
    <2> QED
      BY <1>3, <1>7, <2>1, <2>2, OthersSettled DEF BindOk
  <1>8. ASSUME NEW t \in Threads, Rebind(t)
        PROVE  Settled'
    <2>1. CASE UNCHANGED todo
      BY <1>4, <1>8, <2>1 DEF Rebind, loopVars
    <2>2. CASE NextChange(t) /\ ~IsEnabled(Target(t))
      <3>1. PICK a \in Agents : a = Target(t) /\ reg[a] # None
        BY <1>2, <1>8 DEF Rebind, TypeInv, ThreadShape
      <3>2. Well(a)'
        BY <1>8, <2>2, <3>1 DEF Rebind, Well, IsEnabled
      <3> QED
        BY <1>8, <2>2, <3>1, <3>2, NextChangePending, OthersSettled DEF Rebind, loopVars
    <2> QED
      BY <1>8, <2>1, <2>2 DEF Rebind, IsEnabled
  <1>9. ASSUME NEW t \in Threads, StopOne(t)
        PROVE  Settled'
    <2>1. PICK a \in Agents : a = Target(t) /\ (reg[a] = None \/ ~reg[a].enabled)
      BY <1>2, <1>9 DEF StopOne, Applies
    <2>2. /\ pulls'[a] = None
          /\ \A b \in Agents \ {a} : pulls'[b] = pulls[b] /\ missed'[b] = missed[b]
      BY <1>9, <2>1 DEF StopOne, StopPull, TypeInv, TypeOK
    <2>3. Well(a)'
      BY <1>9, <2>1, <2>2 DEF StopOne, Well, IsEnabled
    <2> QED
      BY <1>9, <2>1, <2>2, <2>3, NextChangePending, OthersSettled DEF StopOne
  <1>10. ASSUME NEW t \in Threads, BindFail(t)
         PROVE  Settled'
    <2>1. PICK a \in Agents : a = Target(t) /\ reg[a] # None
      BY <1>2, <1>10 DEF BindFail, TypeInv, ThreadShape
    <2>2. /\ missed'[a] = "failed"
          /\ \A b \in Agents \ {a} : pulls'[b] = pulls[b] /\ missed'[b] = missed[b]
      BY <1>10, <2>1 DEF BindFail, loopVars, TypeInv, TypeOK
    <2>3. Well(a)'
      BY <1>10, <2>1, <2>2 DEF BindFail, Well
    <2> QED
      BY <1>10, <2>1, <2>2, <2>3, NextChangePending, OthersSettled DEF BindFail
  <1>11. ASSUME NEW t \in Threads, ListLoop(t)
         PROVE  Settled'
    <2>1. PICK a \in Agents : a = Target(t) /\ reg[a] # None
      BY <1>2, <1>11 DEF ListLoop, TypeInv, ThreadShape
    <2>2. /\ pulls'[a] # None
          /\ \A b \in Agents \ {a} : pulls'[b] = pulls[b] /\ missed'[b] = missed[b]
      BY <1>11, <2>1 DEF ListLoop, TypeInv, TypeOK, ThreadShape
    <2>3. Well(a)'
      BY <1>11, <2>1, <2>2 DEF ListLoop, Well
    <2> QED
      BY <1>11, <2>1, <2>2, <2>3, NextChangePending, OthersSettled DEF ListLoop
  <1>12. ASSUME \/ \E sig \in Signals : Raise(sig)
                \/ \E a \in Agents, cfg \in Configs \cup {None} : Edit(a, cfg)
                \/ \E l \in Loops : SpawnDispatch(l) \/ EndLoop(l)
                \/ EndDispatch \/ Listen \/ UNCHANGED vars
         PROVE  Settled'
    BY <1>4, <1>12 DEF Raise, Edit, Store!Edit, SpawnDispatch, EndLoop, EndDispatch,
                       Listen, vars, threadVars, loopVars
  <1>13. CASE Shutdown \/ Join \/ Stop
    BY <1>13 DEF Shutdown, Join, Stop, Settled
  <1>14. ASSUME NEW c \in Conns, Operation(c)
         PROVE  Settled'
    BY <1>1, <1>14, OperationBegins DEF Threads, TypeInv
  <1>15. ASSUME NEW t \in Threads, Reload(t)
         PROVE  Settled'
    BY <1>1, <1>15, ReloadBegins DEF TypeInv
  <1> QED
    BY <1>5, <1>6, <1>7, <1>8, <1>9, <1>10, <1>11, <1>12, <1>13, <1>14, <1>15
    DEF Next, Apply, Exit, Interrupt

\* Operations that do not overlap keep the registry, the changes under way and
\* the pulls map together.
THEOREM SerialInvariance == ~Overlap => (Spec => []SerialInv)
  <1> SUFFICES ASSUME ~Overlap PROVE Spec => []SerialInv
    OBVIOUS
  <1>1. Init => OneAtATime /\ ChangesMatch /\ Settled
    <2> SUFFICES ASSUME Init PROVE OneAtATime /\ ChangesMatch /\ Settled
      OBVIOUS
    <2>1. /\ todo[Main] = StartupChanges(reg) /\ reg \in Registries /\ Main \in Threads
          /\ \A t \in Threads \ {Main} : todo[t] = {} /\ pc[t] = "idle"
      BY DEF Init, Threads
    <2>2. OneAtATime
      BY <2>1 DEF OneAtATime
    <2>3. ChangesMatch
      BY <2>1, StartupFacts DEF ChangesMatch
    <2>4. \A a \in Agents : IsEnabled(a) => Pending(a)
      BY <2>1, StartupFacts DEF IsEnabled, Pending
    <2>5. Settled
      BY <2>4 DEF Settled, Init
    <2> QED
      BY <2>2, <2>3, <2>5
  <1>2. SerialInv /\ [Next]_vars => SerialInv'
    BY NextTypeInv, TrackedStep, SerialStep, SettledStep DEF SerialInv, LoopInv
  <1>3. Init => SerialInv
    BY <1>1, InitLoopInv DEF SerialInv
  <1> QED
    BY <1>2, <1>3, PTL DEF Spec

\* When operations do not overlap, every enabled agent is pulled for once they
\* are applied, unless its last bind failed.
THEOREM EnabledArePulled == ~Overlap => (Spec => []EnabledIsPulled)
  <1> SUFFICES ASSUME ~Overlap PROVE Spec => []EnabledIsPulled
    OBVIOUS
  <1>1. SerialInv => EnabledIsPulled
    <2> SUFFICES ASSUME SerialInv, Quiet, NEW a \in Agents, IsEnabled(a), missed[a] = "no"
                 PROVE  IsPulled(a)
      BY DEF EnabledIsPulled
    <2>1. ~Pending(a)
      BY DEF SerialInv, LoopInv, TypeInv, ThreadShape, Quiet, AllIdle, Pending
    <2>2. pulls[a] # None /\ pulls[a] \in Loops
      BY <2>1 DEF SerialInv, LoopInv, TypeInv, TypeOK, Settled, Working, Quiet
    <2> QED
      BY <2>2 DEF SerialInv, LoopInv, Tracked, ListedIsRunning, IsPulled
  <1> QED
    BY <1>1, SerialInvariance, PTL

\* When operations do not overlap, nothing is pulled for an agent that has been
\* unregistered.
THEOREM RemovedAreNotPulled == ~Overlap => (Spec => []RemovedIsNotPulled)
  <1> SUFFICES ASSUME ~Overlap PROVE Spec => []RemovedIsNotPulled
    OBVIOUS
  <1>1. SerialInv => RemovedIsNotPulled
    <2> SUFFICES ASSUME SerialInv, Quiet, NEW a \in Agents, reg[a] = None,
                        NEW l \in Loops, loop[l] = a, l \notin aborted
                 PROVE  FALSE
      BY DEF RemovedIsNotPulled, IsPulled
    <2>1. ~Pending(a)
      BY DEF SerialInv, LoopInv, TypeInv, ThreadShape, Quiet, AllIdle, Pending
    <2>2. pulls[a] = None
      BY <2>1 DEF SerialInv, Settled, Working, Quiet
    <2>3. \A t \in Threads : fresh[t] = None
      BY DEF SerialInv, LoopInv, TypeInv, ThreadShape, Quiet, AllIdle
    <2> QED
      BY <2>2, <2>3, NoneAssumption DEF SerialInv, LoopInv, Tracked, NoStrayLoop
  <1> QED
    BY <1>1, SerialInvariance, PTL
=============================================================================
