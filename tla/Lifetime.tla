------------------------------- MODULE Lifetime -------------------------------
(***************************************************************************)
(* One message and the time: its lease at the server (AckWait), the        *)
(* in-progress acks that renew it while a dispatch is under way            *)
(* (in_progress_keepalive, src/relay.rs), its age in the stream (max_age   *)
(* of ensure_stream) and the record of its completion in the dedup store,  *)
(* purged by age when the daemon starts (src/dedup.rs).  The modules       *)
(* Dispatcher and Delivery say what may happen when the lease elapses or a *)
(* record is missing; this one says when that can be.                      *)
(*                                                                         *)
(* Time is discrete.  The message is published at time 0, so now is its    *)
(* age; the lease and the tokio timer run on real time, completed_at and   *)
(* the cutoff of a purge on the wall clock, which may be stepped.          *)
(***************************************************************************)
EXTENDS Integers

CONSTANTS
    AckWait,    \* ack_wait_secs
    Interval,   \* ack_progress_interval_secs
    Lag,        \* bound on what a turn of the keepalive takes beyond its sleep:
                \* the timer, and the await that hands the progress ack over
    TTL,        \* dedup_ttl()
    MaxAge,     \* max_age of the stream
    Delay,      \* bound on a message's way from the server to its task, and on
                \* a progress ack's way back
    MaxLost,    \* bound on progress acks lost in a row
    Skew,       \* bound on the error of the wall clock
    Epoch,      \* the wall clock when the message was published
    MaxTime,    \* bound on the time that is explored
    None

\* DaemonConfig::validate
ValidConfig == TTL > 0 /\ Interval < AckWait

\* The longest time between two progress acks.
Period == Interval + Lag

\* What validate() does not ask for: a lease outlives MaxLost lost progress
\* acks, and the record of an event outlives its message.
LeaseMargin  == (MaxLost + 1) * Period + 2 * Delay < AckWait
RecordMargin == TTL >= MaxAge + 2 * Skew

ASSUME NatAssumption ==
    {AckWait, Interval, Lag, TTL, MaxAge, Delay, MaxLost, Skew, Epoch, MaxTime} \subseteq Nat
ASSUME ConfigAssumption   == ValidConfig
ASSUME IntervalAssumption == Interval > 0
ASSUME LeaseAssumption    == LeaseMargin
ASSUME RecordAssumption   == RecordMargin
ASSUME NoneAssumption     == None \notin Int

VARIABLES
    now,      \* the time, and the age of the message
    skew,     \* the error of the wall clock
    up,       \* the daemon is running
    lease,    \* what is left of AckWait; 0: not delivered, elapsed or settled
    transit,  \* the age of a delivery on its way, or None
    acked,    \* the server took the final ack, or a term
    task,     \* the dispatch task: none, waiting, running, exited, settling
    timer,    \* the time to the keepalive's next progress ack
    lost,     \* progress acks lost in a row
    wire,     \* the ages of the progress acks on their way
    row,      \* completed_at of the event's row, or None
    marked,   \* history: a completion was recorded
    blind     \* history: the task's lookup in the store failed

serverVars == <<lease, acked>>
taskVars   == <<task, timer, lost, blind>>
storeVars  == <<row, marked>>
vars       == <<now, skew, up, serverVars, transit, taskVars, wire, storeVars>>

Init ==
    /\ now = 0
    /\ skew \in -Skew..Skew
    /\ up = TRUE
    /\ lease = 0 /\ transit = None /\ acked = FALSE
    /\ task = "none" /\ timer = 0 /\ lost = 0 /\ blind = FALSE
    /\ wire = {}
    /\ row = None /\ marked = FALSE

-----------------------------------------------------------------------------
(* Time.                                                                   *)

\* unix_now: seconds since 1970, 0 on a clock set before that.
Clock == IF Epoch + now + skew < 0 THEN 0 ELSE Epoch + now + skew

\* A unit of time passes, but not past the bound of something on its way nor
\* past the keepalive's next progress ack.
Tick ==
    /\ now < MaxTime
    /\ transit # None => transit < Delay
    /\ \A w \in wire : w < Delay
    /\ task # "none" => timer > 0
    /\ now' = now + 1
    /\ lease' = IF lease > 0 THEN lease - 1 ELSE 0
    /\ transit' = IF transit = None THEN None ELSE transit + 1
    /\ wire' = {w + 1 : w \in wire}
    /\ timer' = IF task = "none" THEN 0 ELSE timer - 1
    /\ UNCHANGED <<skew, up, acked, task, lost, blind, storeVars>>

\* The wall clock is stepped.
StepClock ==
    /\ skew' \in (-Skew..Skew) \ {skew}
    /\ UNCHANGED <<now, up, serverVars, transit, taskVars, wire, storeVars>>

-----------------------------------------------------------------------------
(* The server.                                                             *)

\* The message is sent while the stream holds it, not settled and not leased.
Deliver ==
    /\ up
    /\ ~acked /\ lease = 0 /\ now < MaxAge
    /\ transit = None
    /\ lease' = AckWait
    /\ transit' = 0
    /\ UNCHANGED <<now, skew, up, acked, taskVars, wire, storeVars>>

LoseDelivery ==
    /\ transit # None
    /\ transit' = None
    /\ UNCHANGED <<now, skew, up, serverVars, taskVars, wire, storeVars>>

\* A progress ack arrives: AckWait starts anew, if it has not elapsed.
ProgressArrives(w) ==
    /\ wire' = wire \ {w}
    /\ lease' = IF lease > 0 THEN AckWait ELSE 0
    /\ UNCHANGED <<now, skew, up, acked, transit, taskVars, storeVars>>

-----------------------------------------------------------------------------
(* The daemon.                                                             *)

\* The keepalive sleeps and then sends, a little late perhaps.
Sleep == timer' \in Interval..Period

\* The pull loop spawns the dispatch and its keepalive, which sleeps first.
Arrive ==
    /\ transit # None /\ task = "none"
    /\ transit' = None
    /\ task' = "waiting"
    /\ Sleep
    /\ lost' = 0
    /\ blind' = FALSE
    /\ UNCHANGED <<now, skew, up, serverVars, wire, storeVars>>

\* Mutants of Keepalive: it sends only while the handler runs, not while the
\* task waits for its permit; it sleeps two intervals.
KeepaliveRunningOnly ==
    /\ task # "none" /\ timer = 0
    /\ Sleep
    /\ wire' = IF task = "running" THEN wire \cup {0} ELSE wire
    /\ lost' = 0
    /\ UNCHANGED <<now, skew, up, serverVars, transit, task, blind, storeVars>>

KeepaliveLate ==
    /\ task # "none" /\ timer = 0
    /\ timer' = 2 * Period
    /\ wire' = wire \cup {0}
    /\ lost' = 0
    /\ UNCHANGED <<now, skew, up, serverVars, transit, task, blind, storeVars>>

\* A progress ack is sent, or fails or is lost, and the next sleep begins.
Keepalive ==
    /\ task # "none" /\ timer = 0
    /\ Sleep
    /\ \/ wire' = wire \cup {0} /\ lost' = 0
       \/ lost < MaxLost /\ lost' = lost + 1 /\ UNCHANGED wire
    /\ UNCHANGED <<now, skew, up, serverVars, transit, task, blind, storeVars>>

\* The task goes on.
Goto(from, to) ==
    /\ task = from
    /\ task' = to
    /\ UNCHANGED <<now, skew, up, serverVars, transit, timer, lost, wire>>

\* is_completed, once the task has its permit; on a miss, or when the store
\* fails, the handler starts.
LookupHit   == row # None /\ Goto("waiting", "settling") /\ UNCHANGED <<blind, storeVars>>
LookupMiss  == row = None /\ Goto("waiting", "running") /\ UNCHANGED <<blind, storeVars>>
LookupError == Goto("waiting", "running") /\ blind' = TRUE /\ UNCHANGED storeVars

\* A check or the spawn fails: the delivery is to be terminated.
Refuse == Goto("waiting", "settling") /\ UNCHANGED <<blind, storeVars>>

HandlerExit == Goto("running", "exited") /\ UNCHANGED <<blind, storeVars>>

\* mark_completed: INSERT OR IGNORE keeps the time of the first completion.
Mark ==
    /\ Goto("exited", "settling")
    /\ row' = IF row = None THEN Clock ELSE row
    /\ marked' = TRUE
    /\ UNCHANGED blind

MarkError == Goto("exited", "settling") /\ UNCHANGED <<blind, storeVars>>

\* The final ack, or the term, reaches the server.  The dispatch still waits for
\* the confirmation, and its keepalive goes on.
SettleArrives ==
    /\ task = "settling" /\ ~acked
    /\ acked' = TRUE /\ lease' = 0
    /\ UNCHANGED <<now, skew, up, transit, taskVars, wire, storeVars>>

\* The dispatch returns, confirmed or with an error, which aborts the keepalive.
Finish ==
    /\ task = "settling"
    /\ task' = "none" /\ timer' = 0 /\ lost' = 0 /\ blind' = FALSE
    /\ UNCHANGED <<now, skew, up, serverVars, transit, wire, storeVars>>

Crash ==
    /\ up
    /\ up' = FALSE
    /\ task' = "none" /\ timer' = 0 /\ lost' = 0 /\ blind' = FALSE
    /\ transit' = None
    /\ UNCHANGED <<now, skew, serverVars, wire, storeVars>>

\* Mutant of Cutoff: a record is kept as long as the stream keeps a message.
CutoffOfStream == IF Clock < MaxAge THEN 0 ELSE Clock - MaxAge

\* purge_expired: rows completed before this are deleted.
Cutoff == IF Clock < TTL THEN 0 ELSE Clock - TTL

\* The daemon starts; DedupStore::open purges.
Start ==
    /\ ~up
    /\ up' = TRUE
    /\ row' = IF row # None /\ row < Cutoff THEN None ELSE row
    /\ UNCHANGED <<now, skew, serverVars, transit, taskVars, wire, marked>>

-----------------------------------------------------------------------------
Next ==
    \/ Tick \/ StepClock
    \/ Deliver \/ LoseDelivery
    \/ \E w \in wire : ProgressArrives(w)
    \/ Arrive \/ Keepalive
    \/ LookupHit \/ LookupMiss \/ LookupError \/ Refuse
    \/ HandlerExit \/ Mark \/ MarkError
    \/ SettleArrives \/ Finish
    \/ Crash \/ Start

Spec == Init /\ [][Next]_vars

-----------------------------------------------------------------------------
(* Properties.                                                             *)

TypeOK ==
    /\ now \in 0..MaxTime
    /\ skew \in -Skew..Skew
    /\ up \in BOOLEAN
    /\ lease \in 0..AckWait
    /\ transit \in (0..Delay) \cup {None}
    /\ acked \in BOOLEAN
    /\ task \in {"none", "waiting", "running", "exited", "settling"}
    /\ timer \in 0..Period
    /\ lost \in 0..MaxLost
    /\ wire \subseteq 0..Delay
    /\ row \in Nat \cup {None}
    /\ marked \in BOOLEAN
    /\ blind \in BOOLEAN

\* Until its message is settled the lease never elapses under a dispatch,
\* however long the handler runs and the task waits for its permit: the server
\* does not deliver a second copy while the first is being worked on.
LeaseKept == task # "none" /\ ~acked => lease > 0

\* A handler never runs again for an event whose completion was recorded,
\* unless the lookup itself fails: no purge at a restart, after lost acks and
\* clock steps, removes a record while the stream can still deliver its
\* message.
RecordedNotRerun == task = "running" /\ ~blind => ~marked

-----------------------------------------------------------------------------
(* The inductive invariant behind them.                                    *)

\* What a lease must cover when no progress ack is on its way: the time to the
\* next, the acks that may still be lost, and the way of the one after them.
Needed == timer + (MaxLost - lost) * Period + Delay

LeaseInv ==
    /\ transit # None => task = "none" /\ lease >= AckWait - transit
    /\ task # "none" /\ ~acked =>
           IF wire = {} THEN lease > Needed
                        ELSE \E w \in wire : lease > Delay - w

RecordInv ==
    /\ ~up => task = "none" /\ transit = None
    /\ row # None => row >= Epoch - Skew
    /\ marked /\ (now < MaxAge \/ transit # None \/ task # "none") => row # None
    /\ task = "running" /\ ~blind => row = None
=============================================================================
