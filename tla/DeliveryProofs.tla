---------------------------- MODULE DeliveryProofs ----------------------------
(***************************************************************************)
(* Proofs about Delivery for every stream, every number of tasks and of    *)
(* agents: the composition implements Dispatcher, so what DispatcherProofs *)
(* proves holds in it, and with that the server only takes acks of events  *)
(* that were handled and a consumer with MaxAckPending 1 is in order.      *)
(***************************************************************************)
EXTENDS Delivery, DispatcherProofs

-----------------------------------------------------------------------------
(* The inductive invariant, on top of the dispatcher's IInv.               *)

ServerTypeOK ==
    /\ idx \in [Tasks -> Idx \cup {None}]
    /\ want \in [Agents -> Nat]
    /\ delivered \subseteq Idx
    /\ due \subseteq delivered
    /\ acked \subseteq delivered
    /\ termed \subseteq delivered
    /\ crashes \in 0..MaxCrashes
    /\ lapsed \in BOOLEAN
    /\ begun \in [Agents -> SUBSET Events]
    /\ storeFailed \in BOOLEAN

\* A task works on the message its index names, which was delivered.
Held ==
    \A t \in Tasks :
        pc[t] # "idle" => idx[t] \in delivered /\ msg[t] = Stream[idx[t]]

\* With MaxAckPending 1 a message is delivered only after every earlier one of
\* its agent is settled; redeliveries need no argument of their own.
InOrder ==
    \A i \in delivered :
        MaxAckPending[Stream[i].agent] = 1 =>
            \A j \in IdxOf(Stream[i].agent) : j < i => j \in Settled

\* The server keeps what it waits an ack for within MaxAckPending.
PendingBound == \A a \in Agents : Cardinality(Pending(a)) <= MaxAckPending[a]

\* While keepalives get through, a message some task works on is pending, so
\* that the server sends it to no other task.
HeldOnce ==
    ~lapsed =>
        \A t \in Tasks : pc[t] # "idle" =>
            /\ idx[t] \notin Settled \cup due
            /\ \A u \in Tasks : pc[u] # "idle" /\ idx[u] = idx[t] => u = t

\* While the store works, no lookup was answered by an error, and an event
\* whose handler was started is recorded unless that handler is still on its
\* way from command.spawn() to mark_completed.
BegunIsRecorded ==
    ~storeFailed =>
        /\ blind = {}
        /\ \A a \in Agents : \A e \in begun[a] \ completed[a] :
               \E t \in Tasks : /\ pc[t] \in {"running", "exited"}
                                /\ AgentOf(t) = a /\ EventOf(t) = e

DeliveryInv ==
    /\ ServerTypeOK
    /\ Held
    /\ AckedWasHandled
    /\ InOrder
    /\ PendingBound
    /\ HeldOnce
    /\ BegunIsRecorded

-----------------------------------------------------------------------------
(* The composition implements the dispatcher.                              *)

\* A step of the composition is a step of the dispatcher, or leaves it alone.
LEMMA DeliveryStepIsStep ==
  ASSUME [DeliveryNext]_deliveryVars
  PROVE  [Next]_vars
  <1>1. ASSUME NEW t \in Tasks, NEW i \in Idx, Deliver(t, i)
        PROVE  Next
    BY <1>1, StreamAssumption DEF Deliver, Idx, Next, Task, Receive
  <1>2. ASSUME NEW i \in Idx, LoseDelivery(i) \/ AckWaitElapses(i)
        PROVE  UNCHANGED vars
    BY <1>2 DEF LoseDelivery, AckWaitElapses
  <1>3. ASSUME NEW a \in Agents, Fetch(a)
        PROVE  Next
    BY <1>3 DEF Fetch, Next, Poll
  <1>4. ASSUME NEW a \in Agents, EndFetch(a)
        PROVE  UNCHANGED vars
    BY <1>4 DEF EndFetch
  <1>5. ASSUME NEW t \in Tasks, Work(t)
        PROVE  Next
    BY <1>5 DEF Work, Next, Task, Proceed
  <1>6. ASSUME NEW t \in Tasks, AckArrives(t) \/ TermArrives(t) \/ SettleLost(t)
        PROVE  Next
    BY <1>6 DEF AckArrives, TermArrives, SettleLost, Next, Task, Proceed
  <1>7. CASE Background
    BY <1>7 DEF Background, Next, Poll
  <1>8. CASE DeliveryCrash
    BY <1>8 DEF DeliveryCrash, Next
  <1>9. CASE UNCHANGED deliveryVars
    BY <1>9 DEF deliveryVars
  <1> QED
    BY <1>1, <1>2, <1>3, <1>4, <1>5, <1>6, <1>7, <1>8, <1>9 DEF DeliveryNext, Consume

\* The dispatcher fed by a pull loop from a JetStream consumer is a dispatcher
\* in any environment, the one Spec of module Dispatcher describes.
THEOREM ImplementsDispatcher == DeliverySpec => Spec
  <1>1. DeliveryInit => Init
    BY DEF DeliveryInit
  <1>2. [DeliveryNext]_deliveryVars => [Next]_vars
    BY DeliveryStepIsStep
  <1> QED
    BY <1>1, <1>2, PTL DEF DeliverySpec, Spec

-----------------------------------------------------------------------------
(* The steps of a task.                                                    *)

\* The messages of the stream and their agents.
LEMMA StreamFacts ==
  /\ IsFiniteSet(Idx) /\ Idx \subseteq Nat
  /\ \A i \in Idx : Stream[i] \in Messages /\ Stream[i].agent \in Agents
                                         /\ Stream[i].event \in Events
  <1>1. Idx = 1..Len(Stream) /\ Len(Stream) \in Nat
    BY StreamAssumption DEF Idx
  <1>2. IsFiniteSet(1..Len(Stream))
    BY <1>1, FS_Interval
  <1> QED
    BY <1>1, <1>2, StreamAssumption, MessageAssumption DEF MessageType

\* A step of a dispatch keeps its message or ends it, leaves the other tasks
\* alone, and never forgets a run of a handler.
LEMMA WorkFrame ==
  ASSUME TypeInv, NEW t \in Tasks,
         Internal(t) \/ Acquire(t) \/ HandlerExit(t) \/ Ack(t) \/ Term(t)
  PROVE  /\ pc[t] # "idle"
         /\ \A u \in Tasks \ {t} : pc'[u] = pc[u] /\ msg'[u] = msg[u]
         /\ pc'[t] # "idle" => msg'[t] = msg[t]
         /\ \A a \in Agents : ran[a] \subseteq ran'[a] /\ completed[a] \subseteq completed'[a]
         /\ Ack(t) \/ Term(t) => pc'[t] = "idle"
  <1> USE DEF TypeInv, TypeOK, Goto, Finish, sharedVars, historyVars
  <1>1. CASE EnsureState(t) \/ Lookup(t) \/ Insert(t) \/ Spawn(t) \/ SpawnFail(t)
               \/ Mark(t) \/ MarkError(t) \/ Unregister(t) \/ Acquire(t)
    BY <1>1 DEF EnsureState, Lookup, LookupHit, LookupMiss, LookupError, Insert, Spawn,
                SpawnFail, Mark, MarkError, Unregister, Acquire, Ack, Term
  <1>2. CASE HandlerExit(t)
    BY <1>2 DEF HandlerExit, Ack, Term
  <1>3. CASE DropDuplicate(t) \/ Ack(t) \/ Term(t)
    BY <1>3 DEF DropDuplicate, Ack, Term
  <1> QED
    BY <1>1, <1>2, <1>3 DEF Internal

\* What the dispatcher does on its own concerns no task's message.
LEMMA OtherFrame ==
  ASSUME TypeInv,
         (\E a \in Agents : Poll(a)) \/ (\E o \in Ops : Control(o)) \/ UNCHANGED vars
  PROVE  UNCHANGED <<pc, msg, ran, completed, blind>>
  <1>1. ASSUME NEW a \in Agents, Poll(a)
        PROVE  UNCHANGED <<pc, msg, ran, completed, blind>>
    BY <1>1 DEF Poll, PollRead, PollEnsure, taskVars, historyVars
  <1>2. ASSUME NEW o \in Ops, Control(o)
        PROVE  UNCHANGED <<pc, msg, ran, completed, blind>>
    BY <1>2 DEF Control, Mutate, Reload, ApplyChanges, taskVars, historyVars
  <1>3. CASE UNCHANGED vars
    BY <1>3 DEF vars, sharedVars, taskVars, historyVars
  <1> QED
    BY <1>1, <1>2, <1>3

-----------------------------------------------------------------------------
(* The invariant is kept, one lemma per conjunct.                          *)

\* A fetch asks for the free permits, which are never fewer than none.
LEMMA FetchIsNat ==
  ASSUME IInv, NEW a \in Agents, Fetch(a)
  PROVE  permits'[a].cap - Cardinality(Holders(permits'[a])) \in Nat
  <1> DEFINE s == permits'[a]
  <1>1. permits[a] # None \/ \E id \in SemIds : s = [id |-> id, cap |-> poll[a].conc]
    BY DEF Fetch, PollEnsure, CreateState, FreshIds, IInv, TypeInv, TypeOK
  <1>2. poll[a] \in Configs /\ poll[a].conc \in Nat \ {0}
    BY Fields DEF Fetch, PollEnsure, IInv, TypeInv, TypeOK
  <1>3. s \in Semaphores
    <2>1. CASE permits[a] = None
      <3>1. PICK id \in SemIds : s = [id |-> id, cap |-> poll[a].conc]
        BY <1>1, <2>1
      <3> QED
        BY <1>2, <3>1 DEF Semaphores
    <2>2. CASE permits[a] # None
      BY <2>2 DEF Fetch, PollEnsure, CreateState, IInv, TypeInv, TypeOK
    <2> QED
      BY <2>1, <2>2
  <1>4. \A x \in Semaphores : Cardinality(Holders(x)) <= x.cap
    BY DEF IInv, PermitBound
  <1>5. IsFiniteSet(Holders(s))
    BY TaskAssumption, FS_Subset DEF Holders
  <1>6. Cardinality(Holders(s)) \in Nat
    BY <1>5, FS_CardinalityType
  <1>7. s.cap \in Nat
    BY <1>3 DEF Semaphores
  <1> QED
    BY <1>3, <1>4, <1>6, <1>7

LEMMA ServerTypeStep ==
  ASSUME IInv, ServerTypeOK, Held, [DeliveryNext]_deliveryVars
  PROVE  ServerTypeOK'
  <1> USE StreamFacts, BoundAssumption DEF ServerTypeOK, lifeVars, serverVars
  <1>1. ASSUME NEW t \in Tasks, NEW i \in Idx, Deliver(t, i)
        PROVE  ServerTypeOK'
    BY <1>1 DEF Deliver, Send
  <1>2. ASSUME NEW i \in Idx, LoseDelivery(i) \/ AckWaitElapses(i)
        PROVE  ServerTypeOK'
    <2>1. CASE LoseDelivery(i)
      BY <2>1 DEF LoseDelivery, Send
    <2>2. CASE AckWaitElapses(i)
      <3>1. lapsed' \in BOOLEAN
        BY <2>2, Zenon DEF AckWaitElapses
      <3> QED
        BY <2>2, <3>1 DEF AckWaitElapses
    <2> QED
      BY <1>2, <2>1, <2>2
  <1>3. ASSUME NEW a \in Agents, Fetch(a)
        PROVE  ServerTypeOK'
    BY <1>3, FetchIsNat DEF Fetch
  <1>4. ASSUME NEW a \in Agents, EndFetch(a)
        PROVE  ServerTypeOK'
    BY <1>4 DEF EndFetch
  <1>5. ASSUME NEW t \in Tasks, Work(t)
        PROVE  ServerTypeOK'
    <2>1. AgentOf(t) \in Agents /\ EventOf(t) \in Events
      BY <1>5, WorkFrame, Fields DEF Work, IInv
    <2> QED
      BY <1>5, <2>1 DEF Work
  <1>6. ASSUME NEW t \in Tasks, AckArrives(t) \/ TermArrives(t) \/ SettleLost(t)
        PROVE  ServerTypeOK'
    <2>1. idx[t] \in delivered
      BY <1>6 DEF Held, AckArrives, TermArrives, SettleLost, Ack, Term
    <2> QED
      BY <1>6, <2>1 DEF AckArrives, TermArrives, SettleLost, SettleWith
  <1>7. CASE Background
    BY <1>7 DEF Background
  <1>8. CASE DeliveryCrash
    <2>1. crashes' \in 0..MaxCrashes
      BY <1>8 DEF DeliveryCrash
    <2>2. idx' \in [Tasks -> Idx \cup {None}] /\ want' \in [Agents -> Nat]
            /\ begun' \in [Agents -> SUBSET Events]
      BY <1>8 DEF DeliveryCrash
    <2> QED
      BY <1>8, <2>1, <2>2 DEF DeliveryCrash
  <1>9. CASE UNCHANGED deliveryVars
    BY <1>9 DEF deliveryVars
  <1> QED
    BY <1>1, <1>2, <1>3, <1>4, <1>5, <1>6, <1>7, <1>8, <1>9 DEF DeliveryNext, Consume

LEMMA HeldStep ==
  ASSUME TypeInv, ServerTypeOK, Held, [DeliveryNext]_deliveryVars
  PROVE  Held'
  <1> USE DEF Held, ServerTypeOK, serverVars
  <1>1. ASSUME NEW t \in Tasks, NEW i \in Idx, Deliver(t, i)
        PROVE  Held'
    BY <1>1 DEF Deliver, Send, Admit, Reject, Goto, TypeInv, TypeOK
  <1>2. ASSUME NEW i \in Idx, LoseDelivery(i) \/ AckWaitElapses(i)
        PROVE  Held'
    BY <1>2 DEF LoseDelivery, AckWaitElapses, Send, vars, taskVars
  <1>3. ASSUME NEW a \in Agents, Fetch(a) \/ EndFetch(a)
        PROVE  Held'
    BY <1>3, OtherFrame DEF Fetch, EndFetch, Poll
  <1>4. ASSUME NEW t \in Tasks, Work(t)
        PROVE  Held'
    BY <1>4, WorkFrame DEF Work
  <1>5. ASSUME NEW t \in Tasks, AckArrives(t) \/ TermArrives(t) \/ SettleLost(t)
        PROVE  Held'
    BY <1>5, WorkFrame DEF AckArrives, TermArrives, SettleLost, SettleWith
  <1>6. CASE Background
    BY <1>6, OtherFrame DEF Background, Poll
  <1>7. CASE DeliveryCrash
    BY <1>7 DEF DeliveryCrash, Crash
  <1>8. CASE UNCHANGED deliveryVars
    BY <1>8 DEF deliveryVars, vars, taskVars
  <1> QED
    BY <1>1, <1>2, <1>3, <1>4, <1>5, <1>6, <1>7, <1>8 DEF DeliveryNext, Consume

\* An ack that arrives is the one of a task at "acking", whose handler has run
\* (AckOnlyHandled), for the message it holds.
LEMMA AckedStep ==
  ASSUME IInv, ServerTypeOK, Held, AckedWasHandled, [DeliveryNext]_deliveryVars
  PROVE  AckedWasHandled'
  <1>1. \A i \in acked : Stream[i].agent \in Agents
    BY StreamFacts DEF ServerTypeOK
  <1> USE <1>1 DEF AckedWasHandled, serverVars
  <1>2. ASSUME NEW t \in Tasks, NEW i \in Idx, Deliver(t, i)
        PROVE  AckedWasHandled'
    BY <1>2 DEF Deliver, Admit, Reject, historyVars
  <1>3. ASSUME NEW i \in Idx, LoseDelivery(i) \/ AckWaitElapses(i)
        PROVE  AckedWasHandled'
    BY <1>3 DEF LoseDelivery, AckWaitElapses, vars, historyVars
  <1>4. ASSUME NEW a \in Agents, Fetch(a) \/ EndFetch(a)
        PROVE  AckedWasHandled'
    BY <1>4, OtherFrame DEF Fetch, EndFetch, Poll, IInv
  <1>5. ASSUME NEW t \in Tasks, Work(t)
        PROVE  AckedWasHandled'
    BY <1>5, WorkFrame DEF Work, IInv
  <1>6. ASSUME NEW t \in Tasks, AckArrives(t)
        PROVE  AckedWasHandled'
    <2>1. Stream[idx[t]].event \in ran[Stream[idx[t]].agent]
      BY <1>6 DEF AckArrives, Ack, IInv, RanFirst, Held, AgentOf, EventOf
    <2> QED
      BY <1>6, <2>1 DEF AckArrives, Ack
  <1>7. ASSUME NEW t \in Tasks, TermArrives(t) \/ SettleLost(t)
        PROVE  AckedWasHandled'
    BY <1>7 DEF TermArrives, SettleLost, Ack, Term
  <1>8. CASE Background
    BY <1>8, OtherFrame DEF Background, Poll, IInv
  <1>9. CASE DeliveryCrash
    BY <1>9 DEF DeliveryCrash, Crash
  <1>10. CASE UNCHANGED deliveryVars
    BY <1>10 DEF deliveryVars, vars, historyVars
  <1> QED
    BY <1>2, <1>3, <1>4, <1>5, <1>6, <1>7, <1>8, <1>9, <1>10 DEF DeliveryNext, Consume

\* The server sends a message for the first time only when nothing of the
\* agent is pending, which with the earlier ones delivered makes them settled;
\* what is settled stays so.
LEMMA InOrderStep ==
  ASSUME ServerTypeOK, InOrder, [DeliveryNext]_deliveryVars
  PROVE  InOrder'
  <1> USE DEF InOrder, serverVars, IdxOf, Settled
  <1>1. ASSUME NEW i \in Idx, Send(i), UNCHANGED <<acked, termed>>
        PROVE  InOrder'
    <2> DEFINE a == Stream[i].agent
    <2> SUFFICES ASSUME i \notin delivered, MaxAckPending[a] = 1,
                        NEW j \in IdxOf(a), j < i
                 PROVE  j \in Settled
      BY <1>1 DEF Send
    <2>1. j \in delivered /\ Cardinality(Pending(a)) < 1
      BY <1>1 DEF Send, Deliverable, ServerTypeOK
    <2>2. IsFiniteSet(Pending(a))
      BY StreamFacts, FS_Subset DEF Pending
    <2>3. Pending(a) = {}
      BY <2>1, <2>2, FS_CardinalityType, FS_EmptySet
    <2> QED
      BY <2>1, <2>3 DEF Pending
  <1>2. ASSUME NEW t \in Tasks, AckArrives(t) \/ TermArrives(t) \/ SettleLost(t)
        PROVE  InOrder'
    BY <1>2 DEF AckArrives, TermArrives, SettleLost, SettleWith
  <1>3. CASE UNCHANGED <<delivered, acked, termed>>
    BY <1>3
  <1> QED
    BY <1>1, <1>2, <1>3
    DEF DeliveryNext, Consume, Deliver, LoseDelivery, AckWaitElapses, Fetch, EndFetch, Work,
        Background, DeliveryCrash, deliveryVars

\* The server adds to what is pending only a message it never sent before, and
\* only below MaxAckPending.
LEMMA PendingStep ==
  ASSUME ServerTypeOK, PendingBound, [DeliveryNext]_deliveryVars
  PROVE  PendingBound'
  <1> SUFFICES ASSUME NEW a \in Agents
               PROVE  Cardinality(Pending(a)') <= MaxAckPending[a]
    BY DEF PendingBound
  <1>1. IsFiniteSet(Pending(a)) /\ Cardinality(Pending(a)) \in Nat
    BY StreamFacts, FS_Subset, FS_CardinalityType DEF Pending, IdxOf
  <1>2. Cardinality(Pending(a)) <= MaxAckPending[a] /\ MaxAckPending[a] \in Nat
    BY MaxAckAssumption DEF PendingBound
  <1>3. ASSUME Pending(a)' \subseteq Pending(a)
        PROVE  Cardinality(Pending(a)') <= MaxAckPending[a]
    <2>1. Cardinality(Pending(a)') <= Cardinality(Pending(a)) /\ Cardinality(Pending(a)') \in Nat
      BY <1>1, <1>3, FS_Subset, FS_CardinalityType
    <2> QED
      BY <1>1, <1>2, <2>1
  <1>4. ASSUME NEW i \in Idx, Send(i), UNCHANGED <<acked, termed>>
        PROVE  Cardinality(Pending(a)') <= MaxAckPending[a]
    <2>1. CASE i \in due \/ Stream[i].agent # a
      <3>1. Pending(a)' \subseteq Pending(a)
        BY <1>4, <2>1 DEF Send, Pending, IdxOf, Settled, ServerTypeOK
      <3> QED
        BY <3>1, <1>3
    <2>2. CASE i \notin due /\ Stream[i].agent = a
      <3>1. Cardinality(Pending(a)) < MaxAckPending[a] /\ i \notin delivered
        BY <1>4, <2>2 DEF Send, Deliverable
      <3>2. Pending(a)' = Pending(a) \cup {i} /\ i \notin Pending(a)
        BY <1>4, <2>2, <3>1 DEF Send, Deliverable, Pending, IdxOf, Settled
      <3>3. Cardinality(Pending(a) \cup {i}) = Cardinality(Pending(a)) + 1
        BY <1>1, <3>2, FS_AddElement
      <3> QED
        BY <1>1, <1>2, <3>1, <3>2, <3>3
    <2> QED
      BY <2>1, <2>2
  <1>5. ASSUME NEW t \in Tasks, AckArrives(t) \/ TermArrives(t) \/ SettleLost(t)
        PROVE  Cardinality(Pending(a)') <= MaxAckPending[a]
    <2>1. Pending(a)' \subseteq Pending(a)
      BY <1>5 DEF AckArrives, TermArrives, SettleLost, SettleWith, Pending, IdxOf, Settled
    <2> QED
      BY <2>1, <1>3
  <1>6. ASSUME UNCHANGED <<delivered, acked, termed>>
        PROVE  Cardinality(Pending(a)') <= MaxAckPending[a]
    BY <1>6, <1>2 DEF Pending, IdxOf, Settled
  <1> QED
    BY <1>4, <1>5, <1>6
    DEF DeliveryNext, Consume, Deliver, LoseDelivery, AckWaitElapses, Fetch, EndFetch, Work,
        Background, DeliveryCrash, deliveryVars, serverVars

\* A message in hand is pending and not due: it is sent again only once its
\* AckWait elapsed, which sets lapsed, and settled only by the task that holds
\* it.
LEMMA HeldOnceStep ==
  ASSUME TypeInv, ServerTypeOK, Held, HeldOnce, [DeliveryNext]_deliveryVars
  PROVE  HeldOnce'
  <1> SUFFICES ASSUME ~lapsed'
               PROVE  HeldOnce'
    BY DEF HeldOnce
  <1> USE DEF HeldOnce, Held, ServerTypeOK, serverVars, lifeVars, Settled
  <1>1. ASSUME NEW t \in Tasks, NEW i \in Idx, Deliver(t, i)
        PROVE  HeldOnce'
    <2>1. pc[t] = "idle" /\ idx'[t] = i /\ pc \in [Tasks -> PCs]
      BY <1>1 DEF Deliver, Admit, Reject, Goto, TypeInv, TypeOK
    <2>2. \A u \in Tasks \ {t} : pc'[u] = pc[u] /\ idx'[u] = idx[u]
      BY <1>1 DEF Deliver, Admit, Reject, Goto, TypeInv, TypeOK
    <2>3. \A u \in Tasks \ {t} : pc[u] # "idle" => idx[u] # i
      BY <1>1 DEF Deliver, Send, Deliverable
    <2>4. i \notin Settled' \cup due' /\ Settled' = Settled /\ due' \subseteq due
      BY <1>1 DEF Deliver, Send, Deliverable
    <2> QED
      BY <1>1, <2>1, <2>2, <2>3, <2>4 DEF Deliver
  <1>2. ASSUME NEW i \in Idx, LoseDelivery(i)
        PROVE  HeldOnce'
    BY <1>2 DEF LoseDelivery, Send, vars, taskVars
  <1>3. ASSUME NEW i \in Idx, AckWaitElapses(i)
        PROVE  HeldOnce'
    BY <1>3 DEF AckWaitElapses, vars, taskVars
  <1>4. ASSUME NEW a \in Agents, Fetch(a) \/ EndFetch(a)
        PROVE  HeldOnce'
    BY <1>4, OtherFrame DEF Fetch, EndFetch, Poll
  <1>5. ASSUME NEW t \in Tasks, Work(t)
        PROVE  HeldOnce'
    BY <1>5, WorkFrame DEF Work
  <1>6. ASSUME NEW t \in Tasks, AckArrives(t) \/ TermArrives(t) \/ SettleLost(t)
        PROVE  HeldOnce'
    <2>1. /\ pc[t] # "idle" /\ pc'[t] = "idle"
          /\ \A u \in Tasks \ {t} : pc'[u] = pc[u]
      BY <1>6, WorkFrame DEF AckArrives, TermArrives, SettleLost
    <2>2. \A u \in Tasks \ {t} : idx'[u] = idx[u]
      BY <1>6 DEF AckArrives, TermArrives, SettleLost, SettleWith
    <2>3. Settled' \subseteq Settled \cup {idx[t]} /\ due' \subseteq due /\ lapsed' = lapsed
      BY <1>6 DEF AckArrives, TermArrives, SettleLost, SettleWith
    <2> QED
      BY <2>1, <2>2, <2>3
  <1>7. CASE Background
    BY <1>7, OtherFrame DEF Background, Poll
  <1>8. CASE DeliveryCrash
    BY <1>8 DEF DeliveryCrash, Crash
  <1>9. CASE UNCHANGED deliveryVars
    BY <1>9 DEF deliveryVars, vars, taskVars
  <1> QED
    BY <1>1, <1>2, <1>3, <1>4, <1>5, <1>6, <1>7, <1>8, <1>9 DEF DeliveryNext, Consume

\* From command.spawn() to mark_completed the task itself stands for the
\* event, afterwards the store does; a store that fails ends the claim.
LEMMA BegunStep ==
  ASSUME TypeInv, ServerTypeOK, BegunIsRecorded, [DeliveryNext]_deliveryVars
  PROVE  BegunIsRecorded'
  <1> SUFFICES ASSUME ~storeFailed'
               PROVE  BegunIsRecorded'
    BY DEF BegunIsRecorded
  <1> USE DEF BegunIsRecorded, serverVars, lifeVars
  <1>1. ASSUME UNCHANGED <<storeFailed, begun, pc, msg, completed, blind>>
        PROVE  BegunIsRecorded'
    BY <1>1 DEF AgentOf, EventOf
  <1>2. ASSUME NEW t \in Tasks, NEW i \in Idx, Deliver(t, i)
        PROVE  BegunIsRecorded'
    BY <1>2 DEF Deliver, Admit, Reject, Goto, sharedVars, historyVars, AgentOf, EventOf,
                TypeInv, TypeOK
  <1>3. ASSUME NEW i \in Idx, LoseDelivery(i) \/ AckWaitElapses(i)
        PROVE  BegunIsRecorded'
    BY <1>1, <1>3 DEF LoseDelivery, AckWaitElapses, vars, sharedVars, taskVars, historyVars
  <1>4. ASSUME NEW a \in Agents, Fetch(a) \/ EndFetch(a)
        PROVE  BegunIsRecorded'
    BY <1>1, <1>4, OtherFrame DEF Fetch, EndFetch, Poll
  <1>5. ASSUME NEW t \in Tasks, Work(t)
        PROVE  BegunIsRecorded'
    <2>1. ~storeFailed /\ ~LookupError(t) /\ ~MarkError(t)
      BY <1>5 DEF Work
    <2>2. blind' = {}
      BY <1>5, <2>1
      DEF Work, Internal, Lookup, LookupHit, LookupMiss, EnsureState, Insert, DropDuplicate,
          Spawn, SpawnFail, Mark, Unregister, Acquire, HandlerExit, Finish, historyVars
    <2>3. pc[t] = "running" => pc'[t] = "exited"
      BY <1>5
      DEF Work, Internal, Lookup, LookupHit, LookupMiss, LookupError, EnsureState, Insert,
          DropDuplicate, Spawn, SpawnFail, Mark, MarkError, Unregister, Acquire, HandlerExit,
          Goto, TypeInv, TypeOK
    <2>4. pc[t] = "exited" => EventOf(t) \in completed'[AgentOf(t)]
      <3>1. pc[t] = "exited" => Mark(t)
        BY <1>5, <2>1
        DEF Work, Internal, Lookup, LookupHit, LookupMiss, LookupError, EnsureState, Insert,
            DropDuplicate, Spawn, SpawnFail, Unregister, Acquire, HandlerExit, Goto
      <3>2. AgentOf(t) \in Agents
        BY <1>5, WorkFrame, Fields DEF Work
      <3> QED
        BY <3>1, <3>2 DEF Mark, TypeInv, TypeOK
    <2> SUFFICES ASSUME NEW a \in Agents, NEW e \in begun'[a] \ completed'[a]
                 PROVE  \E u \in Tasks : /\ pc'[u] \in {"running", "exited"}
                                         /\ AgentOf(u)' = a /\ EventOf(u)' = e
      BY <2>2
    <2>5. CASE e \in begun[a]
      <3>1. e \notin completed[a]
        BY <1>5, WorkFrame DEF Work
      <3>2. PICK u \in Tasks : /\ pc[u] \in {"running", "exited"}
                               /\ AgentOf(u) = a /\ EventOf(u) = e
        BY <2>1, <2>5, <3>1
      <3>3. CASE u = t
        BY <1>5, <2>3, <2>4, <3>2, <3>3, WorkFrame DEF Work, AgentOf, EventOf
      <3>4. CASE u # t
        BY <1>5, <3>2, <3>4, WorkFrame DEF Work, AgentOf, EventOf
      <3> QED
        BY <3>3, <3>4
    <2>6. CASE e \notin begun[a]
      <3>1. pc'[t] = "running" /\ AgentOf(t) = a /\ EventOf(t) = e
        BY <1>5, <2>1, <2>6 DEF Work, ServerTypeOK
      <3> QED
        BY <1>5, <3>1, WorkFrame DEF Work, AgentOf, EventOf
    <2> QED
      BY <2>5, <2>6
  <1>6. ASSUME NEW t \in Tasks, AckArrives(t) \/ TermArrives(t) \/ SettleLost(t)
        PROVE  BegunIsRecorded'
    <2>1. /\ pc[t] \in {"acking", "terming"}
          /\ UNCHANGED <<completed, begun, storeFailed>> /\ blind' = blind \ {t}
      BY <1>6 DEF AckArrives, TermArrives, SettleLost, SettleWith, Ack, Term, Finish, sharedVars
    <2>2. \A u \in Tasks \ {t} : pc'[u] = pc[u] /\ msg'[u] = msg[u]
      BY <1>6, WorkFrame DEF AckArrives, TermArrives, SettleLost
    <2> QED
      BY <2>1, <2>2 DEF AgentOf, EventOf
  <1>7. CASE Background
    BY <1>1, <1>7, OtherFrame DEF Background, Poll
  <1>8. CASE DeliveryCrash
    BY <1>8 DEF DeliveryCrash, Crash
  <1>9. CASE UNCHANGED deliveryVars
    BY <1>1, <1>9 DEF deliveryVars, vars, sharedVars, taskVars, historyVars
  <1> QED
    BY <1>2, <1>3, <1>4, <1>5, <1>6, <1>7, <1>8, <1>9 DEF DeliveryNext, Consume

-----------------------------------------------------------------------------
(* Theorems.                                                               *)

\* The dispatcher's invariant and the delivery's hold together.
THEOREM DeliveryInvariance == DeliverySpec => []DeliveryInv
  <1>1. DeliveryInit => DeliveryInv
    <2> SUFFICES ASSUME DeliveryInit
                 PROVE  DeliveryInv
      OBVIOUS
    <2>1. ServerTypeOK
      <3>1. idx \in [Tasks -> Idx \cup {None}] /\ want \in [Agents -> Nat]
              /\ begun \in [Agents -> SUBSET Events]
        BY DEF DeliveryInit
      <3>2. crashes \in 0..MaxCrashes
        BY BoundAssumption DEF DeliveryInit
      <3> QED
        BY <3>1, <3>2 DEF DeliveryInit, ServerTypeOK
    <2>2. Held
      BY DEF DeliveryInit, Init, Held
    <2>3. AckedWasHandled /\ InOrder
      BY DEF DeliveryInit, AckedWasHandled, InOrder
    <2>4. PendingBound
      <3>1. \A a \in Agents : Pending(a) = {} /\ MaxAckPending[a] \in Nat
        BY MaxAckAssumption DEF DeliveryInit, Pending
      <3> QED
        BY <3>1, FS_EmptySet DEF PendingBound
    <2>5. HeldOnce /\ BegunIsRecorded
      BY DEF DeliveryInit, Init, HeldOnce, BegunIsRecorded
    <2> QED
      BY <2>1, <2>2, <2>3, <2>4, <2>5 DEF DeliveryInv
  <1>2. IInv /\ DeliveryInv /\ [DeliveryNext]_deliveryVars => DeliveryInv'
    BY ServerTypeStep, HeldStep, AckedStep, InOrderStep, PendingStep, HeldOnceStep, BegunStep
    DEF DeliveryInv, IInv
  <1> QED
    BY <1>1, <1>2, ImplementsDispatcher, Invariance, PTL DEF DeliverySpec

\* DeliveryTypeOK: among others, the number of messages a fetch asks for, the
\* capacity of the agent's semaphore less its holders, is never negative,
\* whatever change comes between available()'s two reads.
THEOREM DeliveryTypeCorrect == DeliverySpec => []DeliveryTypeOK
  <1>1. TypeOK /\ DeliveryInv => DeliveryTypeOK
    BY DEF DeliveryTypeOK, DeliveryInv, ServerTypeOK
  <1> QED
    BY <1>1, DeliveryInvariance, ImplementsDispatcher, TypeCorrect, PTL

\* AckedWasHandled: what the server took as acknowledged was handled to its
\* exit, across lost messages, redeliveries, changes and crashes.
THEOREM AckedHandled == DeliverySpec => []AckedWasHandled
  BY DeliveryInvariance, PTL DEF DeliveryInv

\* SerialInOrder: with MaxAckPending 1 a handler runs only when every earlier
\* message of its agent is settled.
THEOREM SerialOrder == DeliverySpec => []SerialInOrder
  <1>1. ASSUME DeliveryInv
        PROVE  SerialInOrder
    BY <1>1 DEF DeliveryInv, SerialInOrder, InOrder, Held, AgentOf
  <1> QED
    BY <1>1, DeliveryInvariance, PTL

\* HeldWithinLimit: while keepalives get through, the messages in hand for an
\* agent are distinct and at most its MaxAckPending, for every number of tasks
\* and whatever the pull loop asked for: the tasks map one to one to the
\* messages the server has pending.
THEOREM WithinMaxAckPending == DeliverySpec => []HeldWithinLimit
  <1>1. ASSUME TypeOK, DeliveryInv
        PROVE  HeldWithinLimit
    <2> SUFFICES ASSUME ~lapsed, NEW a \in Agents
                 PROVE  /\ Cardinality(Working(a)) <= MaxAckPending[a]
                        /\ \A t, u \in Working(a) : idx[t] = idx[u] => t = u
      BY DEF HeldWithinLimit
    <2>1. \A t \in Working(a) : /\ t \in Tasks /\ pc[t] # "idle"
                                /\ idx[t] \in Pending(a)
      <3> SUFFICES ASSUME NEW t \in Working(a)
                   PROVE  t \in Tasks /\ pc[t] # "idle" /\ idx[t] \in Pending(a)
        OBVIOUS
      <3>1. t \in Tasks /\ pc[t] # "idle" /\ AgentOf(t) = a
        BY <1>1 DEF Working, TypeOK
      <3>2. idx[t] \in delivered \ Settled /\ msg[t] = Stream[idx[t]]
        BY <1>1, <3>1 DEF DeliveryInv, Held, HeldOnce
      <3> QED
        BY <1>1, <3>1, <3>2 DEF DeliveryInv, ServerTypeOK, Pending, IdxOf, AgentOf
    <2>2. \A t, u \in Working(a) : idx[t] = idx[u] => t = u
      BY <1>1, <2>1 DEF DeliveryInv, HeldOnce
    <2> DEFINE f == [t \in Working(a) |-> idx[t]]
    <2>3. f \in Injection(Working(a), Pending(a))
      BY <2>1, <2>2 DEF Injection, IsInjective
    <2>4. IsFiniteSet(Pending(a))
      BY StreamFacts, FS_Subset DEF Pending, IdxOf
    <2>5. Cardinality(Working(a)) <= Cardinality(Pending(a)) /\ IsFiniteSet(Working(a))
      BY <2>3, <2>4, FS_Injection
    <2>6. Cardinality(Pending(a)) <= MaxAckPending[a]
      BY <1>1 DEF DeliveryInv, PendingBound
    <2>7. /\ Cardinality(Working(a)) \in Nat /\ Cardinality(Pending(a)) \in Nat
          /\ MaxAckPending[a] \in Nat
      BY <2>4, <2>5, FS_CardinalityType, MaxAckAssumption
    <2> QED
      BY <2>2, <2>5, <2>6, <2>7
  <1> QED
    BY <1>1, DeliveryInvariance, ImplementsDispatcher, TypeCorrect, PTL

\* OncePerLife: a serial agent's handler is started at most once for an event
\* in one life of the daemon.  An event begun before is recorded, which the
\* lookup would have seen (StillUnrecorded), or its task is still registered,
\* which the in-flight check excludes (InFlightExclusive).
THEOREM StartedOnce == DeliverySpec => OncePerLife
  <1>1. ASSUME IInv, DeliveryInv, NEW t \in Tasks, Spawn(t), ~storeFailed,
               sem[t].cap = 1, AgentOf(t) \notin disturbed
        PROVE  EventOf(t) \notin begun[AgentOf(t)]
    <2>1. pc[t] = "registered" /\ AgentOf(t) \in Agents
      BY <1>1, Fields DEF Spawn, Goto, IInv
    <2>2. EventOf(t) \notin completed[AgentOf(t)]
      BY <1>1, <2>1 DEF IInv, StillUnrecorded, DeliveryInv, BegunIsRecorded
    <2>3. ASSUME EventOf(t) \in begun[AgentOf(t)]
          PROVE  FALSE
      <3>1. PICK u \in Tasks : /\ pc[u] \in {"running", "exited"}
                               /\ AgentOf(u) = AgentOf(t) /\ EventOf(u) = EventOf(t)
        BY <1>1, <2>1, <2>2, <2>3 DEF DeliveryInv, BegunIsRecorded
      <3>2. u = t
        BY <1>1, <2>1, <3>1 DEF IInv, InFlightExclusive, Registered
      <3> QED
        BY <2>1, <3>1, <3>2
    <2> QED
      BY <2>3
  <1>2. IInv /\ DeliveryInv /\ [DeliveryNext]_deliveryVars =>
          [\A t \in Tasks :
              /\ Spawn(t) /\ ~storeFailed
              /\ sem[t].cap = 1 /\ AgentOf(t) \notin disturbed
              => EventOf(t) \notin begun[AgentOf(t)]]_deliveryVars
    BY <1>1
  <1> QED
    BY <1>2, DeliveryInvariance, ImplementsDispatcher, Invariance, PTL DEF DeliverySpec, OncePerLife
=============================================================================
