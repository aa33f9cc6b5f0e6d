------------------------------- MODULE Delivery -------------------------------
(***************************************************************************)
(* A message from the stream to its final ack: the dispatcher (module      *)
(* Dispatcher) composed with the relay's pull loop (src/relay.rs) and the  *)
(* JetStream consumer that feeds it.  The server is external: it is        *)
(* modelled from consumer_config and from the way the relay uses it        *)
(* (explicit acks, AckWait, MaxAckPending, in-order first delivery,        *)
(* redelivery of what was not settled in time).                            *)
(***************************************************************************)
EXTENDS Dispatcher, Sequences

CONSTANTS
    Stream,            \* the messages, in the order the stream holds them
    MaxAckPending,     \* agent -> MaxAckPending its consumer was created with
    MaxCrashes         \* bound on the number of crashes

ASSUME StreamAssumption == Stream \in Seq(Messages)
ASSUME MaxAckAssumption == MaxAckPending \in [Agents -> Nat \ {0}]
ASSUME BoundAssumption  == MaxCrashes \in Nat

Idx == DOMAIN Stream

VARIABLES
    idx,        \* the stream index of the delivery a task works on
    want,       \* agent -> messages its pull loop's fetch may still receive
    delivered,  \* indices sent to the daemon at least once
    due,        \* delivered indices whose AckWait elapsed
    acked,      \* indices the server took an ack for
    termed,     \* indices the server took a term for
    crashes,    \* the number of crashes so far
    lapsed,     \* history: AckWait elapsed for a message a task was working on
    begun,      \* history: events whose handler was started in this life, until
                \* the store fails
    storeFailed \* history: a call of the dedup store failed in this life

serverVars   == <<delivered, due, acked, termed>>
lifeVars     == <<crashes, lapsed, begun, storeFailed>>
deliveryVars == <<vars, idx, want, serverVars, lifeVars>>

DeliveryInit ==
    /\ Init
    /\ idx = [t \in Tasks |-> None]
    /\ want = [a \in Agents |-> 0]
    /\ delivered = {}
    /\ due = {}
    /\ acked = {}
    /\ termed = {}
    /\ crashes = 0
    /\ lapsed = FALSE
    /\ begun = [a \in Agents |-> {}]
    /\ storeFailed = FALSE

-----------------------------------------------------------------------------
(* The consumer.                                                           *)

IdxOf(a) == {i \in Idx : Stream[i].agent = a}
Settled  == acked \cup termed
Pending(a) == (delivered \cap IdxOf(a)) \ Settled

\* Mutants of Deliverable: no max_ack_pending; another deliver_policy than All.
DeliverableUnlimited(i) ==
    /\ i \notin Settled
    /\ \/ i \in due
       \/ /\ i \notin delivered
          /\ \A j \in IdxOf(Stream[i].agent) : j < i => j \in delivered

DeliverableFromAnywhere(i) ==
    LET a == Stream[i].agent IN
    /\ i \notin Settled
    /\ \/ i \in due
       \/ /\ i \notin delivered
          /\ Cardinality(Pending(a)) < MaxAckPending[a]

\* The server may send index i: again, once its AckWait elapsed, or for the
\* first time, in stream order and within MaxAckPending.
Deliverable(i) ==
    LET a == Stream[i].agent IN
    /\ i \notin Settled
    /\ \/ i \in due
       \/ /\ i \notin delivered
          /\ \A j \in IdxOf(a) : j < i => j \in delivered
          /\ Cardinality(Pending(a)) < MaxAckPending[a]

Send(i) ==
    /\ want[Stream[i].agent] > 0
    /\ Deliverable(i)
    /\ want' = [want EXCEPT ![Stream[i].agent] = @ - 1]
    /\ delivered' = delivered \cup {i}
    /\ due' = due \ {i}

\* AckWait elapses.  While a task works on the message its keepalive resets
\* AckWait, unless the connection is down for that long.
AckWaitElapses(i) ==
    /\ i \in delivered \ (Settled \cup due)
    /\ due' = due \cup {i}
    /\ lapsed' = (lapsed \/ \E t \in Tasks : idx[t] = i)
    /\ UNCHANGED <<vars, idx, want, delivered, acked, termed, crashes, begun, storeFailed>>

-----------------------------------------------------------------------------
(* The pull loop.                                                          *)

\* Mutant of Fetch: the waiters are counted as if they held a permit.
FetchCountsWaiters(a) ==
    /\ want[a] = 0
    /\ PollEnsure(a)
    /\ want' = [want EXCEPT ![a] =
                   permits'[a].cap - Cardinality({t \in Tasks : sem[t] = permits'[a]})]
    /\ UNCHANGED <<idx, serverVars, lifeVars>>

\* available() gives the number of messages the next fetch asks for.  Its last
\* two calls, ensure_state and available_permits, are one step: when a change
\* drops the state between them, only the size of the fetch can differ, and all
\* that matters of it is that it is not negative, whatever the semaphore
\* (PermitBound of DispatcherProofs).
Fetch(a) ==
    /\ want[a] = 0
    /\ PollEnsure(a)
    /\ want' = [want EXCEPT ![a] = permits'[a].cap - Cardinality(Holders(permits'[a]))]
    /\ UNCHANGED <<idx, serverVars, lifeVars>>

\* The fetch ends before it received all it asked for: expiry, a stalled
\* connection, or the loop is aborted.
EndFetch(a) ==
    /\ want[a] > 0
    /\ want' = [want EXCEPT ![a] = 0]
    /\ UNCHANGED <<vars, idx, serverVars, lifeVars>>

\* A message arrives and a task is spawned to dispatch it.
Deliver(t, i) ==
    /\ Send(i)
    /\ Admit(t, Stream[i]) \/ Reject(t, Stream[i])
    /\ idx' = [idx EXCEPT ![t] = i]
    /\ UNCHANGED <<acked, termed, lifeVars>>

\* A message is lost on its way, dropped for want of metadata, or left in the
\* buffer of an aborted loop.
LoseDelivery(i) ==
    /\ Send(i)
    /\ UNCHANGED <<vars, idx, acked, termed, lifeVars>>

-----------------------------------------------------------------------------
(* Dispatch, with its effect on the server.                                *)

\* What a task does inside the daemon; a dropped duplicate ends it.
Work(t) ==
    /\ Internal(t) \/ Acquire(t) \/ HandlerExit(t)
    /\ idx' = [idx EXCEPT ![t] = IF pc'[t] = "idle" THEN None ELSE @]
    /\ storeFailed' = (storeFailed \/ LookupError(t) \/ MarkError(t))
    /\ begun' = IF storeFailed' THEN [a \in Agents |-> {}]
                ELSE IF pc'[t] = "running"
                THEN [begun EXCEPT ![AgentOf(t)] = @ \cup {EventOf(t)}]
                ELSE begun
    /\ UNCHANGED <<want, serverVars, crashes, lapsed>>

SettleWith(t) == idx' = [idx EXCEPT ![t] = None] /\ UNCHANGED <<want, delivered, lifeVars>>

AckArrives(t) ==
    /\ Ack(t)
    /\ SettleWith(t)
    /\ acked' = acked \cup ({idx[t]} \ termed)
    /\ due' = due \ {idx[t]}
    /\ UNCHANGED termed

TermArrives(t) ==
    /\ Term(t)
    /\ SettleWith(t)
    /\ termed' = termed \cup ({idx[t]} \ acked)
    /\ due' = due \ {idx[t]}
    /\ UNCHANGED acked

\* The ack or term never reaches the server.
SettleLost(t) ==
    /\ Ack(t) \/ Term(t)
    /\ SettleWith(t)
    /\ UNCHANGED <<due, acked, termed>>

-----------------------------------------------------------------------------
DeliveryCrash ==
    /\ crashes < MaxCrashes
    /\ Crash
    /\ crashes' = crashes + 1
    /\ lapsed' = FALSE
    /\ begun' = [a \in Agents |-> {}]
    /\ storeFailed' = FALSE
    /\ idx' = [t \in Tasks |-> None]
    /\ want' = [a \in Agents |-> 0]
    /\ UNCHANGED serverVars

\* The pull loop reads the registry; the control plane changes it.
Background ==
    /\ \/ \E a \in Agents : want[a] = 0 /\ PollRead(a)
       \/ \E o \in Ops : Control(o)
    /\ UNCHANGED <<idx, want, serverVars, lifeVars>>

Consume(i) == \E t \in Tasks : Deliver(t, i)

DeliveryNext ==
    \/ \E i \in Idx : Consume(i) \/ LoseDelivery(i) \/ AckWaitElapses(i)
    \/ \E a \in Agents : Fetch(a) \/ EndFetch(a)
    \/ \E t \in Tasks : Work(t) \/ AckArrives(t) \/ TermArrives(t) \/ SettleLost(t)
    \/ Background
    \/ DeliveryCrash

DeliverySpec == DeliveryInit /\ [][DeliveryNext]_deliveryVars

\* Tasks run and handlers exit; the pull loop keeps polling; AckWait elapses;
\* what is sent again and again arrives in the end.
DeliveryFairness ==
    /\ \A t \in Tasks :
           /\ WF_deliveryVars(Work(t))
           /\ SF_deliveryVars(Acquire(t) /\ Work(t))
           /\ WF_deliveryVars(SettleLost(t) \/ AckArrives(t) \/ TermArrives(t))
           /\ SF_deliveryVars(AckArrives(t))
           /\ SF_deliveryVars(TermArrives(t))
    /\ \A a \in Agents :
           /\ WF_deliveryVars(PollRead(a) /\ Background)
           /\ WF_deliveryVars(Fetch(a))
           /\ WF_deliveryVars(EndFetch(a))
    /\ \A i \in Idx :
           /\ SF_deliveryVars(Consume(i))
           /\ WF_deliveryVars(AckWaitElapses(i))

FairDeliverySpec == DeliverySpec /\ DeliveryFairness

-----------------------------------------------------------------------------
(* Properties.                                                             *)

DeliveryTypeOK ==
    /\ TypeOK
    /\ idx \in [Tasks -> Idx \cup {None}]
    /\ want \in [Agents -> Nat]
    /\ delivered \subseteq Idx
    /\ due \subseteq delivered
    /\ acked \subseteq delivered
    /\ termed \subseteq delivered
    /\ crashes \in 0..MaxCrashes
    /\ lapsed \in BOOLEAN
    /\ begun \in [Agents -> SUBSET Events]
    /\ storeFailed \in BOOLEAN

Working(a) == {t \in Tasks : msg[t] # None /\ AgentOf(t) = a}

\* While keepalives get through, the daemon never holds more messages of an
\* agent than MaxAckPending, nor one message twice, although the pull loop
\* reads the free permits before the tasks it has spawned take theirs.
HeldWithinLimit ==
    ~lapsed =>
        \A a \in Agents :
            /\ Cardinality(Working(a)) <= MaxAckPending[a]
            /\ \A t, u \in Working(a) : idx[t] = idx[u] => t = u

\* An agent whose consumer has MaxAckPending 1 handles its messages in stream
\* order: a handler runs only when every earlier message is settled, across
\* lost acks, redeliveries, crashes and configuration changes.
SerialInOrder ==
    \A t \in Tasks :
        pc[t] = "running" /\ MaxAckPending[AgentOf(t)] = 1 =>
            \A j \in IdxOf(AgentOf(t)) : j < idx[t] => j \in Settled

\* The server takes an ack only for an event whose handler has run to its
\* exit.
AckedWasHandled == \A i \in acked : Stream[i].event \in ran[Stream[i].agent]

\* Whatever is lost or redelivered, a serial agent's handler is started at
\* most once for an event in one life of the daemon, as long as in that life
\* the dedup store works and no change drops the agent's state under a dispatch.
OncePerLife ==
    [][\A t \in Tasks :
          /\ Spawn(t) /\ ~storeFailed
          /\ sem[t].cap = 1 /\ AgentOf(t) \notin disturbed
          => EventOf(t) \notin begun[AgentOf(t)]]_deliveryVars

\* Every message of an agent that stays enabled is settled in the end, whatever
\* deliveries, acks and keepalives are lost and through crashes.
Consumed(a)  == reg[a] # None /\ reg[a].enabled
EverySettled ==
    \A i \in Idx : [](Consumed(Stream[i].agent)) => <>(i \in Settled)

-----------------------------------------------------------------------------
(* Claims of the repository that the code does not keep.                   *)

\* docs/agent-guide.md: with max_concurrency = 1 "events run strictly one at
\* a time, in delivery order": when a handler starts, no earlier message of
\* the agent is still to be handled.
StrictlyInOrder ==
    \A t \in Tasks :
        pc[t] = "running" /\ sem[t].cap = 1 =>
            \A j \in IdxOf(AgentOf(t)) :
                j < idx[t] => j \in Settled \/ Stream[j].event \in ran[AgentOf(t)]
=============================================================================
