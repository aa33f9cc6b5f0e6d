--------------------------- MODULE DispatcherProofs ---------------------------
(***************************************************************************)
(* Proofs that the safety properties of Dispatcher hold for every set of   *)
(* agents, events, tasks, configurations and concurrent operations.        *)
(***************************************************************************)
EXTENDS Dispatcher, FiniteSetTheorems, TLAPS

-----------------------------------------------------------------------------
(* The inductive invariant.                                                *)

\* What a task holds at each point of dispatch().
TaskShape ==
    \A t \in Tasks :
        /\ pc[t] = "admitted" => cfg[t] # None
        /\ pc[t] \in {"idle", "admitted"} => sem[t] = None
        /\ pc[t] \notin {"idle", "admitted", "terming"} => sem[t] # None

\* The tasks of an undisturbed agent share the semaphore of its state.
OneGeneration ==
    \A t \in Tasks :
        sem[t] # None /\ AgentOf(t) \notin disturbed
            => permits[AgentOf(t)] = sem[t]

\* A semaphore never has more holders than permits.
PermitBound == \A s \in Semaphores : Cardinality(Holders(s)) <= s.cap

\* Between its lookup and its handler's exit, a serial agent's task works on
\* an event that is still not recorded.
StillUnrecorded ==
    \A t \in Tasks :
        /\ pc[t] \in {"missed", "registered", "running"} /\ t \notin blind
        /\ AgentOf(t) \notin disturbed
        /\ sem[t].cap = 1
        => EventOf(t) \notin completed[AgentOf(t)]

\* An event is recorded, and its in-flight mark removed, only after its
\* handler has exited.
RanFirst ==
    /\ \A a \in Agents : completed[a] \subseteq ran[a]
    /\ \A t \in Tasks :
           pc[t] \in {"exited", "recorded", "acking"} => EventOf(t) \in ran[AgentOf(t)]

TypeInv == TypeOK /\ TaskShape

IInv ==
    /\ TypeInv
    /\ OneGeneration
    /\ PermitBound
    /\ NoLeakedMark
    /\ MarkedWhileRegistered
    /\ InFlightExclusive
    /\ StillUnrecorded
    /\ RanFirst

-----------------------------------------------------------------------------
(* Types.                                                                  *)

\* Initially nothing is under way.
LEMMA InitTypeInv == Init => TypeInv
  BY NoneAssumption DEF Init, TypeInv, TypeOK, TaskShape, PCs

\* The fields of the records a task holds.
LEMMA Fields ==
  ASSUME TypeInv
  PROVE  /\ \A t \in Tasks : pc[t] # "idle" =>
                /\ msg[t] \in Messages
                /\ AgentOf(t) \in Agents
                /\ EventOf(t) \in Events
         /\ \A c \in Configs : c.conc \in Nat \ {0} /\ c.enabled \in BOOLEAN
         /\ \A s \in Semaphores : s.cap \in Nat \ {0}
         /\ None \notin Semaphores
         /\ None \notin Configs
  BY ConfigAssumption, MessageAssumption, NoneAssumption
  DEF TypeInv, TypeOK, AgentOf, EventOf, MessageType, ConfigType, Semaphores

\* Every step keeps the types.
LEMMA NextTypeInv == TypeInv /\ [Next]_vars => TypeInv'
  <1> SUFFICES ASSUME TypeInv, [Next]_vars
               PROVE  TypeInv'
    OBVIOUS
  <1> USE Fields DEF TypeInv, TypeOK, TaskShape, PCs
  <1> USE DEF sharedVars, taskVars, historyVars, Goto, Finish
  <1>1. ASSUME NEW t \in Tasks, NEW m \in Messages, Admit(t, m) \/ Reject(t, m)
        PROVE  TypeInv'
    <2>1. m \in Messages \ {None} /\ m.agent \in Agents
      BY MessageAssumption, NoneAssumption DEF MessageType
    <2> QED
      BY <1>1, <2>1 DEF Admit, Reject, Routable
  <1>2. ASSUME NEW t \in Tasks, EnsureState(t)
        PROVE  TypeInv'
    BY <1>2 DEF EnsureState, CreateState, FreshIds, Semaphores
  <1>3. ASSUME NEW t \in Tasks, Acquire(t) \/ HandlerExit(t)
        PROVE  TypeInv'
    BY <1>3 DEF Acquire, HandlerExit
  <1>4. ASSUME NEW t \in Tasks, Lookup(t)
        PROVE  TypeInv'
    BY <1>4 DEF Lookup, LookupHit, LookupMiss, LookupError
  <1>5. ASSUME NEW t \in Tasks, Insert(t)
        PROVE  TypeInv'
    BY <1>5 DEF Insert
  <1>6. ASSUME NEW t \in Tasks, DropDuplicate(t) \/ Ack(t) \/ Term(t)
        PROVE  TypeInv'
    BY <1>6 DEF DropDuplicate, Ack, Term
  <1>7. ASSUME NEW t \in Tasks, Spawn(t) \/ SpawnFail(t) \/ Unregister(t)
        PROVE  TypeInv'
    BY <1>7 DEF Spawn, SpawnFail, Unregister, RemoveInFlight
  <1>8. ASSUME NEW t \in Tasks, Mark(t) \/ MarkError(t)
        PROVE  TypeInv'
    BY <1>8 DEF Mark, MarkError
  <1>9. ASSUME NEW a \in Agents, Poll(a)
        PROVE  TypeInv'
    BY <1>9 DEF Poll, PollRead, PollEnsure, CreateState, FreshIds, Semaphores
  <1>10. ASSUME NEW o \in Ops, Control(o)
         PROVE  TypeInv'
    BY <1>10 DEF Control, Mutate, Reload, ApplyChanges
  <1>11. CASE Crash
    BY <1>11, NoneAssumption DEF Crash
  <1>12. CASE UNCHANGED vars
    BY <1>12 DEF vars
  <1> QED
    BY <1>1, <1>2, <1>3, <1>4, <1>5, <1>6, <1>7, <1>8, <1>9, <1>10, <1>11, <1>12
    DEF Next, Task, Receive, Proceed, Internal

\* TypeOK: the dispatcher's state keeps its shape, and a task has a delivery
\* exactly while it is dispatching one.
THEOREM TypeCorrect == Spec => []TypeOK
  <1>1. Init => TypeInv
    BY InitTypeInv
  <1>2. TypeInv /\ [Next]_vars => TypeInv'
    BY NextTypeInv
  <1>3. TypeInv => TypeOK
    BY DEF TypeInv
  <1> QED
    BY <1>1, <1>2, <1>3, PTL DEF Spec

-----------------------------------------------------------------------------
(* Each conjunct of the invariant is kept by every step.                   *)

\* A state is dropped under a task only by marking its agent disturbed.
LEMMA GenerationStep ==
  ASSUME TypeInv, OneGeneration, [Next]_vars
  PROVE  OneGeneration'
  <1> USE Fields DEF TypeInv, TypeOK, TaskShape, OneGeneration, Live
  <1> USE DEF sharedVars, taskVars, historyVars, Goto, Finish, AgentOf, EventOf
  <1>1. ASSUME NEW t \in Tasks, NEW m \in Messages, Admit(t, m) \/ Reject(t, m)
        PROVE  OneGeneration'
    BY <1>1 DEF Admit, Reject
  <1>2. ASSUME NEW t \in Tasks, EnsureState(t)
        PROVE  OneGeneration'
    <2>1. \A u \in Tasks \ {t} : sem[u] # None /\ AgentOf(u) \notin disturbed
              => permits'[AgentOf(u)] = permits[AgentOf(u)]
      <3>1. CASE CreateState(AgentOf(t), cfg[t].conc)
        BY <1>2, <3>1 DEF EnsureState, CreateState
      <3>2. CASE UNCHANGED permits
        BY <3>2
      <3> QED
        BY <1>2, <3>1, <3>2 DEF EnsureState
    <2>2. sem'[t] = permits'[AgentOf(t)]
      BY <1>2 DEF EnsureState
    <2>3. \A u \in Tasks \ {t} : sem'[u] = sem[u]
      BY <1>2 DEF EnsureState
    <2> QED
      BY <1>2, <2>1, <2>2, <2>3 DEF EnsureState
  <1>3. ASSUME NEW t \in Tasks, Acquire(t) \/ HandlerExit(t)
        PROVE  OneGeneration'
    BY <1>3 DEF Acquire, HandlerExit
  <1>4. ASSUME NEW t \in Tasks, Lookup(t)
        PROVE  OneGeneration'
    BY <1>4 DEF Lookup, LookupHit, LookupMiss, LookupError
  <1>5. ASSUME NEW t \in Tasks, Insert(t)
        PROVE  OneGeneration'
    BY <1>5 DEF Insert
  <1>6. ASSUME NEW t \in Tasks, DropDuplicate(t) \/ Ack(t) \/ Term(t)
        PROVE  OneGeneration'
    BY <1>6 DEF DropDuplicate, Ack, Term
  <1>7. ASSUME NEW t \in Tasks, Spawn(t) \/ SpawnFail(t) \/ Unregister(t)
        PROVE  OneGeneration'
    BY <1>7 DEF Spawn, SpawnFail, Unregister, RemoveInFlight
  <1>8. ASSUME NEW t \in Tasks, Mark(t) \/ MarkError(t)
        PROVE  OneGeneration'
    BY <1>8 DEF Mark, MarkError
  <1>9. ASSUME NEW a \in Agents, Poll(a)
        PROVE  OneGeneration'
    BY <1>9 DEF Poll, PollRead, PollEnsure, CreateState
  <1>10. ASSUME NEW o \in Ops, Control(o)
        PROVE  OneGeneration'
    BY <1>10 DEF Control, Mutate, Reload, ApplyChanges
  <1>11. CASE Crash
    BY <1>11 DEF Crash
  <1>12. CASE UNCHANGED vars
    BY <1>12 DEF vars
  <1> QED
    BY <1>1, <1>2, <1>3, <1>4, <1>5, <1>6, <1>7, <1>8, <1>9, <1>10, <1>11, <1>12
    DEF Next, Task, Receive, Proceed, Internal

\* A mark is inserted by a registered task, and that task removes it.
LEMMA OwnerStep ==
  ASSUME TypeInv, NoLeakedMark, [Next]_vars
  PROVE  NoLeakedMark'
  <1> USE Fields DEF TypeInv, TypeOK, TaskShape, NoLeakedMark, Registered
  <1> USE DEF sharedVars, taskVars, historyVars, Goto, Finish, AgentOf, EventOf
  <1>1. ASSUME NEW t \in Tasks, NEW m \in Messages, Admit(t, m) \/ Reject(t, m)
        PROVE  NoLeakedMark'
    BY <1>1 DEF Admit, Reject
  <1>2. ASSUME NEW t \in Tasks, EnsureState(t)
        PROVE  NoLeakedMark'
    BY <1>2 DEF EnsureState, CreateState
  <1>3. ASSUME NEW t \in Tasks, Acquire(t) \/ HandlerExit(t)
        PROVE  NoLeakedMark'
    BY <1>3 DEF Acquire, HandlerExit
  <1>4. ASSUME NEW t \in Tasks, Lookup(t)
        PROVE  NoLeakedMark'
    BY <1>4 DEF Lookup, LookupHit, LookupMiss, LookupError
  <1>5. ASSUME NEW t \in Tasks, Insert(t)
        PROVE  NoLeakedMark'
    BY <1>5 DEF Insert
  <1>6. ASSUME NEW t \in Tasks, DropDuplicate(t) \/ Ack(t) \/ Term(t)
        PROVE  NoLeakedMark'
    <2> SUFFICES ASSUME NEW a \in Agents, NEW e \in inFlight[a]
                 PROVE  \E u \in Tasks : Registered(u)' /\ AgentOf(u)' = a /\ EventOf(u)' = e
      BY <1>6 DEF DropDuplicate, Ack, Term
    <2>1. PICK u \in Tasks : Registered(u) /\ AgentOf(u) = a /\ EventOf(u) = e
      OBVIOUS
    <2>2. u # t
      BY <1>6, <2>1 DEF DropDuplicate, Ack, Term
    <2>3. pc'[u] = pc[u] /\ msg'[u] = msg[u]
      BY <1>6, <2>2 DEF DropDuplicate, Ack, Term
    <2> QED
      BY <2>1, <2>3
  <1>7. ASSUME NEW t \in Tasks, Spawn(t) \/ SpawnFail(t) \/ Unregister(t)
        PROVE  NoLeakedMark'
    BY <1>7 DEF Spawn, SpawnFail, Unregister, RemoveInFlight
  <1>8. ASSUME NEW t \in Tasks, Mark(t) \/ MarkError(t)
        PROVE  NoLeakedMark'
    BY <1>8 DEF Mark, MarkError
  <1>9. ASSUME NEW a \in Agents, Poll(a)
        PROVE  NoLeakedMark'
    BY <1>9 DEF Poll, PollRead, PollEnsure, CreateState
  <1>10. ASSUME NEW o \in Ops, Control(o)
        PROVE  NoLeakedMark'
    BY <1>10 DEF Control, Mutate, Reload, ApplyChanges
  <1>11. CASE Crash
    BY <1>11 DEF Crash
  <1>12. CASE UNCHANGED vars
    BY <1>12 DEF vars
  <1> QED
    BY <1>1, <1>2, <1>3, <1>4, <1>5, <1>6, <1>7, <1>8, <1>9, <1>10, <1>11, <1>12
    DEF Next, Task, Receive, Proceed, Internal

\* Of an undisturbed agent, a task's mark stays until the task removes it.
LEMMA MarkedStep ==
  ASSUME TypeInv, OneGeneration, InFlightExclusive, MarkedWhileRegistered, [Next]_vars
  PROVE  MarkedWhileRegistered'
  <1> USE Fields DEF TypeInv, TypeOK, TaskShape, OneGeneration, InFlightExclusive, MarkedWhileRegistered, Registered, Live
  <1> USE DEF sharedVars, taskVars, historyVars, Goto, Finish, AgentOf, EventOf
  <1>1. ASSUME NEW t \in Tasks, NEW m \in Messages, Admit(t, m) \/ Reject(t, m)
        PROVE  MarkedWhileRegistered'
    BY <1>1 DEF Admit, Reject
  <1>2. ASSUME NEW t \in Tasks, EnsureState(t)
        PROVE  MarkedWhileRegistered'
    <2>1. \A u \in Tasks : Registered(u) /\ AgentOf(u) \notin disturbed
              => inFlight'[AgentOf(u)] = inFlight[AgentOf(u)]
      <3>1. CASE CreateState(AgentOf(t), cfg[t].conc)
        BY <1>2, <3>1 DEF EnsureState, CreateState
      <3>2. CASE UNCHANGED inFlight
        BY <3>2
      <3> QED
        BY <1>2, <3>1, <3>2 DEF EnsureState
    <2> QED
      BY <1>2, <2>1 DEF EnsureState
  <1>3. ASSUME NEW t \in Tasks, Acquire(t) \/ HandlerExit(t)
        PROVE  MarkedWhileRegistered'
    BY <1>3 DEF Acquire, HandlerExit
  <1>4. ASSUME NEW t \in Tasks, Lookup(t)
        PROVE  MarkedWhileRegistered'
    BY <1>4 DEF Lookup, LookupHit, LookupMiss, LookupError
  <1>5. ASSUME NEW t \in Tasks, Insert(t)
        PROVE  MarkedWhileRegistered'
    BY <1>5 DEF Insert
  <1>6. ASSUME NEW t \in Tasks, DropDuplicate(t) \/ Ack(t) \/ Term(t)
        PROVE  MarkedWhileRegistered'
    BY <1>6 DEF DropDuplicate, Ack, Term
  <1>7. ASSUME NEW t \in Tasks, Spawn(t) \/ SpawnFail(t) \/ Unregister(t)
        PROVE  MarkedWhileRegistered'
    BY <1>7 DEF Spawn, SpawnFail, Unregister, RemoveInFlight
  <1>8. ASSUME NEW t \in Tasks, Mark(t) \/ MarkError(t)
        PROVE  MarkedWhileRegistered'
    BY <1>8 DEF Mark, MarkError
  <1>9. ASSUME NEW a \in Agents, Poll(a)
        PROVE  MarkedWhileRegistered'
    <2>1. \A u \in Tasks : Registered(u) /\ AgentOf(u) \notin disturbed
              => inFlight'[AgentOf(u)] = inFlight[AgentOf(u)]
      <3>1. CASE CreateState(a, poll[a].conc)
        BY <1>9, <3>1 DEF CreateState
      <3>2. CASE UNCHANGED inFlight
        BY <3>2
      <3> QED
        BY <1>9, <3>1, <3>2 DEF Poll, PollRead, PollEnsure
    <2> QED
      BY <1>9, <2>1 DEF Poll, PollRead, PollEnsure
  <1>10. ASSUME NEW o \in Ops, Control(o)
        PROVE  MarkedWhileRegistered'
    BY <1>10 DEF Control, Mutate, Reload, ApplyChanges
  <1>11. CASE Crash
    BY <1>11 DEF Crash
  <1>12. CASE UNCHANGED vars
    BY <1>12 DEF vars
  <1> QED
    BY <1>1, <1>2, <1>3, <1>4, <1>5, <1>6, <1>7, <1>8, <1>9, <1>10, <1>11, <1>12
    DEF Next, Task, Receive, Proceed, Internal

\* The in-flight check lets no second task in.
LEMMA ExclusiveStep ==
  ASSUME TypeInv, MarkedWhileRegistered, InFlightExclusive, [Next]_vars
  PROVE  InFlightExclusive'
  <1> USE Fields DEF TypeInv, TypeOK, TaskShape, MarkedWhileRegistered, InFlightExclusive, Registered, Live
  <1> USE DEF sharedVars, taskVars, historyVars, Goto, Finish, AgentOf, EventOf
  <1>1. ASSUME NEW t \in Tasks, NEW m \in Messages, Admit(t, m) \/ Reject(t, m)
        PROVE  InFlightExclusive'
    BY <1>1 DEF Admit, Reject
  <1>2. ASSUME NEW t \in Tasks, EnsureState(t)
        PROVE  InFlightExclusive'
    BY <1>2 DEF EnsureState, CreateState
  <1>3. ASSUME NEW t \in Tasks, Acquire(t) \/ HandlerExit(t)
        PROVE  InFlightExclusive'
    BY <1>3 DEF Acquire, HandlerExit
  <1>4. ASSUME NEW t \in Tasks, Lookup(t)
        PROVE  InFlightExclusive'
    BY <1>4 DEF Lookup, LookupHit, LookupMiss, LookupError
  <1>5. ASSUME NEW t \in Tasks, Insert(t)
        PROVE  InFlightExclusive'
    BY <1>5 DEF Insert
  <1>6. ASSUME NEW t \in Tasks, DropDuplicate(t) \/ Ack(t) \/ Term(t)
        PROVE  InFlightExclusive'
    BY <1>6 DEF DropDuplicate, Ack, Term
  <1>7. ASSUME NEW t \in Tasks, Spawn(t) \/ SpawnFail(t) \/ Unregister(t)
        PROVE  InFlightExclusive'
    BY <1>7 DEF Spawn, SpawnFail, Unregister, RemoveInFlight
  <1>8. ASSUME NEW t \in Tasks, Mark(t) \/ MarkError(t)
        PROVE  InFlightExclusive'
    BY <1>8 DEF Mark, MarkError
  <1>9. ASSUME NEW a \in Agents, Poll(a)
        PROVE  InFlightExclusive'
    BY <1>9 DEF Poll, PollRead, PollEnsure, CreateState
  <1>10. ASSUME NEW o \in Ops, Control(o)
        PROVE  InFlightExclusive'
    BY <1>10 DEF Control, Mutate, Reload, ApplyChanges
  <1>11. CASE Crash
    BY <1>11 DEF Crash
  <1>12. CASE UNCHANGED vars
    BY <1>12 DEF vars
  <1> QED
    BY <1>1, <1>2, <1>3, <1>4, <1>5, <1>6, <1>7, <1>8, <1>9, <1>10, <1>11, <1>12
    DEF Next, Task, Receive, Proceed, Internal

\* Events are recorded and acknowledged after the handler's exit.
LEMMA RanStep ==
  ASSUME TypeInv, RanFirst, [Next]_vars
  PROVE  RanFirst'
  <1> USE Fields DEF TypeInv, TypeOK, TaskShape, RanFirst
  <1> USE DEF sharedVars, taskVars, historyVars, Goto, Finish, AgentOf, EventOf
  <1>1. ASSUME NEW t \in Tasks, NEW m \in Messages, Admit(t, m) \/ Reject(t, m)
        PROVE  RanFirst'
    BY <1>1 DEF Admit, Reject
  <1>2. ASSUME NEW t \in Tasks, EnsureState(t)
        PROVE  RanFirst'
    BY <1>2 DEF EnsureState, CreateState
  <1>3. ASSUME NEW t \in Tasks, Acquire(t) \/ HandlerExit(t)
        PROVE  RanFirst'
    BY <1>3 DEF Acquire, HandlerExit
  <1>4. ASSUME NEW t \in Tasks, Lookup(t)
        PROVE  RanFirst'
    BY <1>4 DEF Lookup, LookupHit, LookupMiss, LookupError
  <1>5. ASSUME NEW t \in Tasks, Insert(t)
        PROVE  RanFirst'
    BY <1>5 DEF Insert
  <1>6. ASSUME NEW t \in Tasks, DropDuplicate(t) \/ Ack(t) \/ Term(t)
        PROVE  RanFirst'
    BY <1>6 DEF DropDuplicate, Ack, Term
  <1>7. ASSUME NEW t \in Tasks, Spawn(t) \/ SpawnFail(t) \/ Unregister(t)
        PROVE  RanFirst'
    BY <1>7 DEF Spawn, SpawnFail, Unregister, RemoveInFlight
  <1>8. ASSUME NEW t \in Tasks, Mark(t) \/ MarkError(t)
        PROVE  RanFirst'
    BY <1>8 DEF Mark, MarkError
  <1>9. ASSUME NEW a \in Agents, Poll(a)
        PROVE  RanFirst'
    BY <1>9 DEF Poll, PollRead, PollEnsure, CreateState
  <1>10. ASSUME NEW o \in Ops, Control(o)
        PROVE  RanFirst'
    BY <1>10 DEF Control, Mutate, Reload, ApplyChanges
  <1>11. CASE Crash
    BY <1>11 DEF Crash
  <1>12. CASE UNCHANGED vars
    BY <1>12 DEF vars
  <1> QED
    BY <1>1, <1>2, <1>3, <1>4, <1>5, <1>6, <1>7, <1>8, <1>9, <1>10, <1>11, <1>12
    DEF Next, Task, Receive, Proceed, Internal

\* Two holders of a semaphore with one permit are the same task.
LEMMA SerialHolder ==
  ASSUME PermitBound,
         NEW s \in Semaphores, s.cap = 1,
         NEW t \in Holders(s), NEW u \in Holders(s)
  PROVE  t = u
  <1> SUFFICES ASSUME t # u
               PROVE  FALSE
    OBVIOUS
  <1>1. IsFiniteSet(Holders(s))
    BY TaskAssumption, FS_Subset DEF Holders
  <1>2. Cardinality({t}) = 1 /\ IsFiniteSet({t})
    BY FS_Singleton
  <1>3. Cardinality({t} \cup {u}) = 2
    BY <1>2, FS_AddElement
  <1>4. Cardinality({t} \cup {u}) <= Cardinality(Holders(s))
    BY <1>1, FS_Subset
  <1>5. Cardinality(Holders(s)) \in Nat
    BY <1>1, FS_CardinalityType
  <1> QED
    BY <1>3, <1>4, <1>5 DEF PermitBound

\* Only acquire_owned adds a holder to a semaphore.
LEMMA HoldersStep ==
  ASSUME TypeInv, NEW s \in Semaphores, [Next]_vars
  PROVE  \/ Holders(s)' \subseteq Holders(s)
         \/ \E t \in Tasks : Acquire(t) /\ sem[t] = s /\ Holders(s)' = Holders(s) \cup {t}
  <1> USE Fields DEF TypeInv, TypeOK, TaskShape, Holders
  <1> USE DEF sharedVars, taskVars, historyVars, Goto, Finish
  <1> DEFINE Goal == \/ Holders(s)' \subseteq Holders(s)
                     \/ \E t \in Tasks : /\ Acquire(t) /\ sem[t] = s
                                         /\ Holders(s)' = Holders(s) \cup {t}
  <1>1. ASSUME NEW t \in Tasks, NEW m \in Messages, Admit(t, m) \/ Reject(t, m)
        PROVE  Holders(s)' \subseteq Holders(s)
    BY <1>1 DEF Admit, Reject
  <1>2. ASSUME NEW t \in Tasks, EnsureState(t)
        PROVE  Holders(s)' \subseteq Holders(s)
    BY <1>2 DEF EnsureState, CreateState
  <1>3. ASSUME NEW t \in Tasks, Acquire(t)
        PROVE  Goal
    <2>1. CASE sem[t] = s
      <3>1. Holders(s)' = Holders(s) \cup {t}
        BY <1>3, <2>1 DEF Acquire
      <3> QED
        BY <1>3, <2>1, <3>1
    <2>2. CASE sem[t] # s
      <3>1. Holders(s)' \subseteq Holders(s)
        BY <1>3, <2>2 DEF Acquire
      <3> QED
        BY <3>1
    <2> QED
      BY <2>1, <2>2
  <1>13. ASSUME NEW t \in Tasks, HandlerExit(t)
         PROVE  Holders(s)' \subseteq Holders(s)
    BY <1>13 DEF HandlerExit
  <1>4. ASSUME NEW t \in Tasks, Lookup(t)
        PROVE  Holders(s)' \subseteq Holders(s)
    BY <1>4 DEF Lookup, LookupHit, LookupMiss, LookupError
  <1>5. ASSUME NEW t \in Tasks, Insert(t)
        PROVE  Holders(s)' \subseteq Holders(s)
    BY <1>5 DEF Insert
  <1>6. ASSUME NEW t \in Tasks, DropDuplicate(t) \/ Ack(t) \/ Term(t)
        PROVE  Holders(s)' \subseteq Holders(s)
    BY <1>6 DEF DropDuplicate, Ack, Term
  <1>7. ASSUME NEW t \in Tasks, Spawn(t) \/ SpawnFail(t) \/ Unregister(t)
        PROVE  Holders(s)' \subseteq Holders(s)
    BY <1>7 DEF Spawn, SpawnFail, Unregister, RemoveInFlight
  <1>8. ASSUME NEW t \in Tasks, Mark(t) \/ MarkError(t)
        PROVE  Holders(s)' \subseteq Holders(s)
    BY <1>8 DEF Mark, MarkError
  <1>9. ASSUME NEW a \in Agents, Poll(a)
        PROVE  Holders(s)' \subseteq Holders(s)
    BY <1>9 DEF Poll, PollRead, PollEnsure, CreateState
  <1>10. ASSUME NEW o \in Ops, Control(o)
        PROVE  Holders(s)' \subseteq Holders(s)
    BY <1>10 DEF Control, Mutate, Reload, ApplyChanges
  <1>11. Crash => Holders(s)' \subseteq Holders(s)
    BY DEF Crash
  <1>12. UNCHANGED vars => Holders(s)' \subseteq Holders(s)
    BY DEF vars
  <1> QED
    BY <1>1, <1>2, <1>3, <1>4, <1>5, <1>6, <1>7, <1>8, <1>9, <1>10, <1>11, <1>12, <1>13
    DEF Next, Task, Receive, Proceed, Internal

\* A permit is given only when one is free.
LEMMA PermitStep ==
  ASSUME TypeInv, PermitBound, [Next]_vars
  PROVE  PermitBound'
  <1> SUFFICES ASSUME NEW s \in Semaphores
               PROVE  Cardinality(Holders(s)') <= s.cap
    BY DEF PermitBound, Holders
  <1>1. IsFiniteSet(Holders(s)) /\ Cardinality(Holders(s)) \in Nat
    BY TaskAssumption, FS_Subset, FS_CardinalityType DEF Holders
  <1>2. Cardinality(Holders(s)) <= s.cap /\ s.cap \in Nat
    BY Fields DEF PermitBound
  <1>3. CASE Holders(s)' \subseteq Holders(s)
    <2>1. Cardinality(Holders(s)') <= Cardinality(Holders(s)) /\ Cardinality(Holders(s)') \in Nat
      BY <1>1, <1>3, FS_Subset, FS_CardinalityType
    <2> QED
      BY <1>1, <1>2, <2>1
  <1>4. ASSUME NEW t \in Tasks, Acquire(t), sem[t] = s, Holders(s)' = Holders(s) \cup {t}
        PROVE  Cardinality(Holders(s)') <= s.cap
    <2>1. Cardinality(Holders(s)) < s.cap
      BY <1>4 DEF Acquire
    <2>2. t \notin Holders(s)
      BY <1>4 DEF Acquire, Goto, Holders
    <2>3. Cardinality(Holders(s) \cup {t}) = Cardinality(Holders(s)) + 1
      BY <1>1, <2>2, FS_AddElement
    <2> QED
      BY <1>1, <1>2, <1>4, <2>1, <2>3
  <1> QED
    BY <1>3, <1>4, HoldersStep

\* While a serial agent's task works on an event, no other task records it.
LEMMA UnrecordedStep ==
  ASSUME TypeInv, OneGeneration, PermitBound, StillUnrecorded, [Next]_vars
  PROVE  StillUnrecorded'
  <1> USE Fields DEF TypeInv, TypeOK, TaskShape, StillUnrecorded, Live
  <1> USE DEF sharedVars, taskVars, historyVars, Goto, Finish, AgentOf, EventOf
  <1>1. ASSUME NEW t \in Tasks, NEW m \in Messages, Admit(t, m) \/ Reject(t, m)
        PROVE  StillUnrecorded'
    BY <1>1 DEF Admit, Reject
  <1>2. ASSUME NEW t \in Tasks, EnsureState(t)
        PROVE  StillUnrecorded'
    BY <1>2 DEF EnsureState, CreateState
  <1>3. ASSUME NEW t \in Tasks, Acquire(t) \/ HandlerExit(t)
        PROVE  StillUnrecorded'
    BY <1>3 DEF Acquire, HandlerExit
  <1>4. ASSUME NEW t \in Tasks, Lookup(t)
        PROVE  StillUnrecorded'
    BY <1>4 DEF Lookup, LookupHit, LookupMiss, LookupError
  <1>5. ASSUME NEW t \in Tasks, Insert(t)
        PROVE  StillUnrecorded'
    BY <1>5 DEF Insert
  <1>6. ASSUME NEW t \in Tasks, DropDuplicate(t) \/ Ack(t) \/ Term(t)
        PROVE  StillUnrecorded'
    BY <1>6 DEF DropDuplicate, Ack, Term
  <1>7. ASSUME NEW t \in Tasks, Spawn(t) \/ SpawnFail(t) \/ Unregister(t)
        PROVE  StillUnrecorded'
    BY <1>7 DEF Spawn, SpawnFail, Unregister, RemoveInFlight
  <1>8. ASSUME NEW t \in Tasks, Mark(t) \/ MarkError(t)
        PROVE  StillUnrecorded'
    <2>1. CASE MarkError(t)
      BY <1>8, <2>1 DEF MarkError
    <2>2. CASE Mark(t)
      <3> SUFFICES ASSUME NEW u \in Tasks,
                          pc'[u] \in {"missed", "registered", "running"}, u \notin blind,
                          msg[u].agent \notin disturbed, sem[u].cap = 1
                   PROVE  msg[u].event \notin completed'[msg[u].agent]
        BY <2>2 DEF Mark
      <3>1. u # t /\ pc[u] = pc'[u]
        BY <2>2 DEF Mark
      <3>2. msg[u].event \notin completed[msg[u].agent]
        BY <3>1
      <3>3. CASE msg[u].agent = msg[t].agent
        <4>1. sem[u] = permits[msg[u].agent] /\ sem[u] # None
          BY <3>1 DEF OneGeneration
        <4>2. sem[t] = permits[msg[u].agent]
          BY <2>2, <3>3 DEF OneGeneration, Mark
        <4>3. sem[u] \in Semaphores /\ t \in Holders(sem[u]) /\ u \in Holders(sem[u])
          BY <2>2, <3>1, <4>1, <4>2 DEF Holders, Mark
        <4>4. t = u
          BY <4>3, SerialHolder
        <4> QED
          BY <3>1, <4>4
      <3>4. CASE msg[u].agent # msg[t].agent
        BY <2>2, <3>2, <3>4 DEF Mark
      <3> QED
        BY <3>3, <3>4
    <2> QED
      BY <1>8, <2>1, <2>2
  <1>9. ASSUME NEW a \in Agents, Poll(a)
        PROVE  StillUnrecorded'
    BY <1>9 DEF Poll, PollRead, PollEnsure, CreateState
  <1>10. ASSUME NEW o \in Ops, Control(o)
        PROVE  StillUnrecorded'
    BY <1>10 DEF Control, Mutate, Reload, ApplyChanges
  <1>11. CASE Crash
    BY <1>11 DEF Crash
  <1>12. CASE UNCHANGED vars
    BY <1>12 DEF vars
  <1> QED
    BY <1>1, <1>2, <1>3, <1>4, <1>5, <1>6, <1>7, <1>8, <1>9, <1>10, <1>11, <1>12
    DEF Next, Task, Receive, Proceed, Internal

-----------------------------------------------------------------------------
(* The theorems.                                                           *)

\* IInv holds in every reachable state.
THEOREM Invariance == Spec => []IInv
  <1>1. Init => IInv
    <2> SUFFICES ASSUME Init
                 PROVE  IInv
      OBVIOUS
    <2>1. TypeInv
      BY InitTypeInv
    <2>2. PermitBound
      <3> SUFFICES ASSUME NEW s \in Semaphores
                   PROVE  Cardinality(Holders(s)) <= s.cap
        BY DEF PermitBound
      <3>1. Holders(s) = {}
        BY <2>1, Fields DEF Holders, Init
      <3> QED
        BY <2>1, <3>1, Fields, FS_EmptySet
    <2>3. OneGeneration /\ NoLeakedMark /\ MarkedWhileRegistered /\ InFlightExclusive
      BY DEF Init, OneGeneration, NoLeakedMark, MarkedWhileRegistered, InFlightExclusive, Registered
    <2>4. StillUnrecorded /\ RanFirst
      BY DEF Init, StillUnrecorded, RanFirst
    <2> QED
      BY <2>1, <2>2, <2>3, <2>4 DEF IInv
  <1>2. IInv /\ [Next]_vars => IInv'
    BY NextTypeInv, GenerationStep, OwnerStep, MarkedStep, ExclusiveStep,
       RanStep, PermitStep, UnrecordedStep
    DEF IInv
  <1> QED
    BY <1>1, <1>2, PTL DEF Spec

\* InFlightExclusive: for every number of tasks and every concurrency, no two
\* handlers of one agent and event overlap while the agent is undisturbed.
THEOREM Exclusive == Spec => []InFlightExclusive
  BY Invariance, PTL DEF IInv

\* NoLeakedMark: a mark in in_flight always has a live dispatch that will
\* remove it, under any interleaving of configuration changes.
THEOREM MarksAreOwned == Spec => []NoLeakedMark
  BY Invariance, PTL DEF IInv

\* MarkedWhileRegistered: the set in_flight() counts misses no dispatch of an
\* undisturbed agent.
THEOREM MarksAreExact == Spec => []MarkedWhileRegistered
  BY Invariance, PTL DEF IInv

\* SerialNoRerun: a serial agent's handler never runs for a recorded event.
THEOREM SerialAtMostOnce == Spec => []SerialNoRerun
  <1>1. IInv => SerialNoRerun
    BY DEF IInv, StillUnrecorded, SerialNoRerun
  <1> QED
    BY <1>1, Invariance, PTL

\* AckOnlyHandled: an acknowledged delivery's handler has run to its exit.
THEOREM AckAfterExit == Spec => []AckOnlyHandled
  <1>1. IInv => AckOnlyHandled
    BY DEF IInv, RanFirst, AckOnlyHandled
  <1> QED
    BY <1>1, Invariance, PTL

\* WithinConcurrency: an undisturbed agent's handlers never outnumber the
\* permits of its current semaphore.
THEOREM Bounded == Spec => []WithinConcurrency
  <1>1. ASSUME IInv
        PROVE  WithinConcurrency
    <2> SUFFICES ASSUME NEW a \in Agents \ disturbed,
                        {t \in Tasks : Registered(t) /\ AgentOf(t) = a} # {}
                 PROVE  /\ permits[a] # None
                        /\ Cardinality({t \in Tasks : Registered(t) /\ AgentOf(t) = a})
                             <= permits[a].cap
      BY DEF WithinConcurrency
    <2> DEFINE busy == {t \in Tasks : Registered(t) /\ AgentOf(t) = a}
    <2>1. \A t \in busy : sem[t] # None /\ sem[t] = permits[a] /\ pc[t] # "waiting"
      BY <1>1 DEF IInv, TypeInv, TaskShape, OneGeneration, Registered
    <2>2. permits[a] # None /\ permits[a] \in Semaphores
      BY <1>1, <2>1 DEF IInv, TypeInv, TypeOK
    <2>3. busy \subseteq Holders(permits[a])
      BY <2>1 DEF Holders
    <2>4. IsFiniteSet(Holders(permits[a]))
      BY TaskAssumption, FS_Subset DEF Holders
    <2>5. Cardinality(busy) <= Cardinality(Holders(permits[a]))
      BY <2>3, <2>4, FS_Subset
    <2>6. Cardinality(Holders(permits[a])) <= permits[a].cap
      BY <1>1, <2>2 DEF IInv, PermitBound
    <2>7. /\ Cardinality(busy) \in Nat
          /\ Cardinality(Holders(permits[a])) \in Nat
          /\ permits[a].cap \in Nat
      BY <1>1, <2>2, <2>3, <2>4, FS_Subset, FS_CardinalityType, Fields DEF IInv
    <2> QED
      BY <2>2, <2>5, <2>6, <2>7
  <1> QED
    BY <1>1, Invariance, PTL
=============================================================================
