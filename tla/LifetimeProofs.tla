---------------------------- MODULE LifetimeProofs ----------------------------
(***************************************************************************)
(* LeaseKept and RecordedNotRerun for every AckWait, interval, TTL, MaxAge, *)
(* delay, loss and clock error that leave the two margins.                  *)
(***************************************************************************)
EXTENDS Lifetime, TLAPS

USE DEF ValidConfig

\* The constants, one by one.
LEMMA Constants ==
    /\ AckWait \in Nat /\ Interval \in Nat /\ TTL \in Nat /\ MaxAge \in Nat
    /\ Delay \in Nat /\ MaxLost \in Nat /\ Skew \in Nat /\ Epoch \in Nat
    /\ MaxTime \in Nat /\ Interval > 0 /\ None \notin Int
    /\ Period \in Nat /\ Period >= Interval
BY NatAssumption, IntervalAssumption, NoneAssumption DEF Period

\* Arithmetic of the lease margin: what MaxLost - n lost progress acks cost.
LEMMA Budget ==
    ASSUME NEW n \in 0..MaxLost
    PROVE  /\ (MaxLost - n) * Period \in Nat
           /\ (MaxLost - n) * Period + Period + 2 * Delay < AckWait
           /\ n < MaxLost =>
                  (MaxLost - n) * Period = (MaxLost - (n + 1)) * Period + Period
BY Constants, LeaseAssumption DEF LeaseMargin

-----------------------------------------------------------------------------
(* Types.                                                                  *)

\* The two halves of TypeOK, apart because numbers and Booleans are the
\* business of different provers.
NumbersOK ==
    /\ now \in 0..MaxTime
    /\ skew \in -Skew..Skew
    /\ lease \in 0..AckWait
    /\ transit \in (0..Delay) \cup {None}
    /\ task \in {"none", "waiting", "running", "exited", "settling"}
    /\ timer \in 0..Period
    /\ lost \in 0..MaxLost
    /\ wire \subseteq 0..Delay
    /\ row \in Nat \cup {None}

BooleansOK == {up, acked, marked, blind} \subseteq BOOLEAN

LEMMA TypeParts == TypeOK <=> NumbersOK /\ BooleansOK
BY Zenon DEF TypeOK, NumbersOK, BooleansOK

LEMMA NumbersStep == ASSUME NumbersOK, [Next]_vars PROVE NumbersOK'
<1> USE Constants DEF NumbersOK, serverVars, taskVars, storeVars
<1>1. CASE Tick
  BY <1>1 DEF Tick
<1>2. CASE StepClock
  BY <1>2 DEF StepClock
<1>3. CASE Deliver
  BY <1>3 DEF Deliver
<1>4. CASE LoseDelivery
  BY <1>4 DEF LoseDelivery
<1>5. CASE \E w \in wire : ProgressArrives(w)
  BY <1>5 DEF ProgressArrives
<1>6. CASE Arrive
  BY <1>6 DEF Arrive, Sleep
<1>7. CASE Keepalive
  <2>1. CASE wire' = wire \cup {0} /\ lost' = 0
    BY <1>7, <2>1 DEF Keepalive, Sleep
  <2>2. CASE lost < MaxLost /\ lost' = lost + 1 /\ UNCHANGED wire
    BY <1>7, <2>2 DEF Keepalive, Sleep
  <2> QED
    BY <1>7, <2>1, <2>2 DEF Keepalive
<1>8. CASE LookupHit \/ LookupMiss \/ LookupError \/ Refuse \/ HandlerExit \/ MarkError
  BY <1>8 DEF LookupHit, LookupMiss, LookupError, Refuse, HandlerExit, MarkError, Goto
<1>9. CASE Mark
  BY <1>9 DEF Mark, Goto, Clock
<1>10. CASE SettleArrives
  BY <1>10 DEF SettleArrives
<1>11. CASE Finish
  BY <1>11 DEF Finish
<1>12. CASE Crash
  BY <1>12 DEF Crash
<1>13. CASE Start
  BY <1>13 DEF Start
<1>14. CASE UNCHANGED vars
  BY <1>14 DEF vars
<1> QED
  BY <1>1, <1>2, <1>3, <1>4, <1>5, <1>6, <1>7, <1>8, <1>9, <1>10, <1>11, <1>12, <1>13,
     <1>14 DEF Next

\* Every variable keeps its type.
THEOREM TypeCorrect == Spec => []TypeOK
<1>1. Init => NumbersOK
  BY Constants DEF Init, NumbersOK
<1>2. Init => BooleansOK
  BY Zenon DEF Init, BooleansOK
<1>3. ASSUME BooleansOK, [Next]_vars PROVE BooleansOK'
  BY <1>3, Zenon DEF BooleansOK, Next, vars, serverVars, taskVars, storeVars, Tick,
     StepClock, Deliver, LoseDelivery, ProgressArrives, Arrive, Keepalive, Goto, LookupHit,
     LookupMiss, LookupError, Refuse, HandlerExit, Mark, MarkError, Finish, SettleArrives,
     Crash, Start
<1> QED
  BY <1>1, <1>2, <1>3, NumbersStep, TypeParts, PTL DEF Spec

-----------------------------------------------------------------------------
(* The lease.                                                              *)

\* The part of LeaseInv about a dispatch under way.
Covered ==
    task # "none" /\ ~acked =>
        IF wire = {} THEN lease > Needed
                     ELSE \E w \in wire : lease > Delay - w

LEMMA LeaseParts ==
    LeaseInv <=> Covered /\ (transit # None => task = "none" /\ lease >= AckWait - transit)
BY DEF LeaseInv, Covered

\* What a lease must cover when no progress ack is on its way.
LEMMA NeededBounds ==
    ASSUME NEW t \in 0..Period, NEW n \in 0..MaxLost
    PROVE  LET needed == t + (MaxLost - n) * Period + Delay
           IN  needed \in Nat /\ needed >= Delay + t /\ needed < AckWait - Delay
<1> DEFINE B == (MaxLost - n) * Period
<1>1. B \in Nat /\ B + Period + 2 * Delay < AckWait
  BY Budget
<1> HIDE DEF B
<1>2. LET needed == t + B + Delay
      IN  needed \in Nat /\ needed >= Delay + t /\ needed < AckWait - Delay
  BY <1>1, Constants
<1> QED
  BY <1>2 DEF B

LEMMA NeededFacts ==
    NumbersOK => Needed \in Nat /\ Needed >= Delay + timer /\ Needed < AckWait - Delay
BY NeededBounds DEF NumbersOK, Needed

\* A dispatch that is covered has a lease left.
LEMMA CoveredKept == ASSUME NumbersOK, Covered PROVE LeaseKept
<1> SUFFICES ASSUME task # "none", ~acked PROVE lease > 0
  BY DEF LeaseKept
<1>1. CASE wire = {}
  BY <1>1, NeededFacts, Constants DEF Covered, NumbersOK
<1>2. CASE wire # {}
  <2>1. PICK w \in wire : lease > Delay - w
    BY <1>2 DEF Covered
  <2> QED
    BY <2>1, Constants DEF NumbersOK
<1> QED
  BY <1>1, <1>2

\* Each step keeps LeaseInv.
LEMMA LeaseStep ==
    ASSUME NumbersOK, NumbersOK', LeaseInv, [Next]_vars
    PROVE  LeaseInv'
<1> USE Constants DEF serverVars, taskVars, storeVars
<1>n. Needed' \in Nat /\ Needed' < AckWait - Delay
  BY NeededBounds DEF NumbersOK, Needed
<1>a. Covered /\ (transit # None => task = "none" /\ lease >= AckWait - transit)
  BY LeaseParts
<1>b. LeaseKept
  BY <1>a, CoveredKept
<1>1. CASE Tick
  <2>1. transit' # None => task' = "none" /\ lease' >= AckWait - transit'
    BY <1>1, <1>a DEF Tick, NumbersOK
  <2>2. Covered'
    <3> SUFFICES ASSUME task # "none", ~acked
                 PROVE  IF wire' = {} THEN lease' > Needed' ELSE \E w \in wire' : lease' > Delay - w
      BY <1>1 DEF Tick, Covered
    <3>1. CASE wire = {}
      <4>1. wire' = {} /\ lease' = lease - 1 /\ timer' = timer - 1 /\ lost' = lost
        BY <1>1, <1>b, <3>1 DEF Tick, LeaseKept
      <4>2. Needed' = Needed - 1
        <5> DEFINE B == (MaxLost - lost) * Period
        <5>1. B \in Nat
          BY Budget DEF NumbersOK
        <5>2. Needed = timer + B + Delay /\ Needed' = (timer - 1) + B + Delay
          BY <4>1 DEF Needed
        <5> HIDE DEF B
        <5> QED
          BY <5>1, <5>2 DEF NumbersOK
      <4>3. lease > Needed
        BY <1>a, <3>1 DEF Covered
      <4> QED
        BY <4>1, <4>2, <4>3, NeededFacts DEF NumbersOK
    <3>2. CASE wire # {}
      <4>1. PICK w \in wire : lease > Delay - w
        BY <1>a, <3>2 DEF Covered
      <4>2. w + 1 \in wire' /\ lease' = lease - 1
        BY <1>1, <1>b DEF Tick, LeaseKept
      <4> QED
        BY <4>1, <4>2 DEF NumbersOK
    <3> QED
      BY <3>1, <3>2
  <2> QED
    BY <2>1, <2>2 DEF LeaseInv, Covered
<1>2. CASE Deliver
  BY <1>2, <1>b DEF Deliver, LeaseKept, LeaseInv, NumbersOK
<1>3. CASE \E w \in wire : ProgressArrives(w)
  <2> PICK w \in wire : ProgressArrives(w)
    BY <1>3
  <2>1. CASE lease = 0
    BY <2>1, <1>a, <1>b DEF ProgressArrives, LeaseKept, LeaseInv, NumbersOK
  <2>2. CASE lease # 0
    <3>1. lease' = AckWait /\ UNCHANGED <<task, transit, timer, lost>>
      BY <2>2 DEF ProgressArrives, NumbersOK
    <3>2. Needed' < AckWait
      BY <1>n
    <3>3. \A v \in wire' : AckWait > Delay - v
      BY NeededFacts DEF NumbersOK
    <3> QED
      BY <3>1, <3>2, <3>3, <1>a DEF LeaseInv, NumbersOK
  <2> QED
    BY <2>1, <2>2
<1>4. CASE Arrive
  <2>1. lease' = lease /\ transit' = None /\ wire' = wire /\ lease >= AckWait - Delay
    BY <1>4, <1>a DEF Arrive, NumbersOK
  <2>2. Needed' < AckWait - Delay
    BY <1>n
  <2>3. \A v \in wire : AckWait - Delay > Delay - v
    BY NeededFacts DEF NumbersOK
  <2> QED
    BY <2>1, <2>2, <2>3 DEF LeaseInv, NumbersOK
<1>5. CASE Keepalive
  <2> USE <1>5
  <2>1. transit = None /\ timer = 0 /\ timer' \in 0..Period
    BY <1>a DEF Keepalive, Sleep
  <2>2. CASE wire' = wire \cup {0} /\ lost' = 0
    <3>1. ~acked => \E w \in wire' : lease > Delay - w
      <4>1. CASE wire = {}
        BY <2>1, <2>2, <4>1, <1>a, <1>5, NeededFacts DEF Covered, NumbersOK, Keepalive
      <4>2. CASE wire # {}
        BY <2>1, <2>2, <4>2, <1>a, <1>5 DEF Covered, Keepalive
      <4> QED
        BY <4>1, <4>2
    <3> QED
      BY <2>1, <2>2, <3>1 DEF Keepalive, LeaseInv
  <2>3. CASE lost < MaxLost /\ lost' = lost + 1 /\ UNCHANGED wire
    <3>1. Needed' <= Needed /\ Needed \in Nat /\ Needed' \in Nat
      <4> DEFINE B == (MaxLost - lost) * Period
                 C == (MaxLost - (lost + 1)) * Period
      <4>1. B \in Nat /\ C \in Nat /\ B = C + Period
        BY Budget, <2>3 DEF NumbersOK
      <4>2. Needed = timer + B + Delay /\ Needed' = timer' + C + Delay
        BY <2>1, <2>3 DEF Needed
      <4> HIDE DEF B, C
      <4>3. Needed = C + Period + Delay
        BY <4>1, <4>2, <2>1
      <4>4. Needed' <= C + Period + Delay
        BY <4>1, <4>2, <2>1 DEF NumbersOK
      <4> QED
        BY <4>3, <4>4, <1>n, NeededFacts
    <3> QED
      BY <2>1, <2>3, <3>1, <1>a DEF Keepalive, LeaseInv, Covered, NumbersOK
  <2> QED
    BY <2>2, <2>3 DEF Keepalive
<1>6. CASE LoseDelivery
  BY <1>6, <1>a DEF LoseDelivery, LeaseInv, Covered, Needed
<1>7. CASE LookupHit \/ LookupMiss \/ LookupError \/ Refuse \/ HandlerExit \/ Mark \/ MarkError
  <2>1. task # "none" /\ UNCHANGED <<transit, lease, acked, timer, lost, wire>>
    BY <1>7 DEF LookupHit, LookupMiss, LookupError, Refuse, HandlerExit, Mark, MarkError, Goto
  <2> QED
    BY <2>1, <1>a DEF LeaseInv, Covered, Needed
<1>8. CASE SettleArrives
  BY <1>8, <1>a DEF SettleArrives, LeaseInv
<1>9. CASE Finish
  BY <1>9, <1>a DEF Finish, LeaseInv
<1>10. CASE Crash
  BY <1>10 DEF Crash, LeaseInv
<1>11. CASE StepClock
  BY <1>11 DEF StepClock, LeaseInv, Needed
<1>12. CASE Start
  BY <1>12 DEF Start, LeaseInv, Needed
<1>13. CASE UNCHANGED vars
  BY <1>13 DEF vars, LeaseInv, Needed
<1> QED
  BY <1>1, <1>2, <1>3, <1>4, <1>5, <1>6, <1>7, <1>8, <1>9, <1>10, <1>11, <1>12, <1>13 DEF Next

\* However long a handler runs, its message is never leased out again before it
\* is settled, while at most MaxLost progress acks in a row are lost and none is
\* more than Lag late.
THEOREM LeaseHolds == Spec => []LeaseKept
<1>1. Init => LeaseInv
  BY DEF Init, LeaseInv
<1>2. NumbersOK /\ LeaseInv => LeaseKept
  BY CoveredKept, LeaseParts
<1>3. TypeOK => NumbersOK
  BY TypeParts
<1>4. TypeOK' => NumbersOK'
  BY DEF TypeOK, NumbersOK
<1> QED
  BY <1>1, <1>2, <1>3, <1>4, LeaseStep, TypeCorrect, PTL DEF Spec

-----------------------------------------------------------------------------
(* The record.                                                             *)

\* A record is never dated before the earliest wall-clock time at which the
\* message can have been handled.
Dated == row # None => row >= Epoch - Skew

Attended == ~up => task = "none" /\ transit = None

Kept == marked /\ (now < MaxAge \/ transit # None \/ task # "none") => row # None

Fresh == task = "running" /\ ~blind => row = None

LEMMA RecordParts == RecordInv <=> Attended /\ Dated /\ Kept /\ Fresh
BY Zenon DEF RecordInv, Attended, Dated, Kept, Fresh

\* A purge spares the record while the stream holds the message.
LEMMA PurgeSpares ==
    ASSUME NumbersOK, Dated, row # None, now < MaxAge
    PROVE  ~(row < Cutoff)
<1>1. row \in Nat /\ row >= Epoch - Skew
  BY DEF NumbersOK, Dated
<1>2. now \in Nat /\ skew \in Int /\ skew <= Skew
  BY Constants DEF NumbersOK
<1>3. TTL >= MaxAge + 2 * Skew
  BY RecordAssumption DEF RecordMargin
<1> QED
  BY <1>1, <1>2, <1>3, Constants DEF Cutoff, Clock

LEMMA DatedStep == ASSUME NumbersOK, Dated, [Next]_vars PROVE Dated'
<1>1. CASE Mark
  <2>1. Clock \in Nat /\ Clock >= Epoch - Skew
    BY Constants DEF Clock, NumbersOK
  <2>2. row' = Clock \/ row' = row
    BY <1>1 DEF Mark
  <2> QED
    BY <2>1, <2>2 DEF Dated
<1>2. CASE Start
  <2>1. row' = None \/ row' = row
    BY <1>2 DEF Start
  <2> QED
    BY <2>1 DEF Dated
<1>3. CASE UNCHANGED row
  BY <1>3 DEF Dated
<1>4. Mark \/ Start \/ UNCHANGED row
  BY Zenon DEF Next, vars, storeVars, Tick, StepClock, Deliver, LoseDelivery, ProgressArrives,
     Arrive, Keepalive, LookupHit, LookupMiss, LookupError, Refuse, HandlerExit, MarkError,
     Finish, SettleArrives, Crash
<1> QED
  BY <1>1, <1>2, <1>3, <1>4

\* The other three parts, action by action.
LEMMA RecordStep ==
    ASSUME NumbersOK, RecordInv, [Next]_vars
    PROVE  Attended' /\ Kept' /\ Fresh'
<1> USE DEF Attended, Kept, Fresh, serverVars, taskVars, storeVars
<1>a. Attended /\ Dated /\ Kept /\ Fresh
  BY RecordParts
<1>1. CASE Tick
  <2>1. now' < MaxAge => now < MaxAge
    BY <1>1, Constants DEF Tick, NumbersOK
  <2>2. transit' # None <=> transit # None
    BY <1>1, Constants DEF Tick, NumbersOK
  <2> QED
    BY <1>1, <1>a, <2>1, <2>2, Zenon DEF Tick
<1>2. CASE Start
  <2>1. task = "none" /\ transit = None
    BY <1>2, <1>a, Zenon DEF Start
  <2>2. now < MaxAge => row' = row
    BY <1>2, <1>a, PurgeSpares, Zenon DEF Start
  <2> QED
    BY <1>2, <1>a, <2>1, <2>2, Zenon DEF Start
<1>3. CASE Mark
  <2>1. row' # None
    BY <1>3, Constants DEF Mark, Clock, NumbersOK
  <2> QED
    BY <1>3, <1>a, <2>1, Zenon DEF Mark, Goto
<1>4. CASE Deliver
  BY <1>4, <1>a, Zenon DEF Deliver
<1>5. CASE StepClock
  BY <1>5, <1>a, Zenon DEF StepClock
<1>6. CASE LoseDelivery
  BY <1>6, <1>a, Zenon DEF LoseDelivery
<1>7. CASE \E w \in wire : ProgressArrives(w)
  <2>1. UNCHANGED <<now, up, transit, task, blind, row, marked>>
    BY <1>7, Zenon DEF ProgressArrives
  <2> QED
    BY <1>a, <2>1, Zenon
<1>8. CASE Arrive
  BY <1>8, <1>a, Zenon DEF Arrive
<1>9. CASE Keepalive
  BY <1>9, <1>a, Zenon DEF Keepalive
<1>10. CASE LookupHit
  BY <1>10, <1>a, Zenon DEF LookupHit, Goto
<1>11. CASE LookupMiss
  BY <1>11, <1>a, Zenon DEF LookupMiss, Goto
<1>12. CASE LookupError
  BY <1>12, <1>a, Zenon DEF LookupError, Goto
<1>13. CASE Refuse
  BY <1>13, <1>a, Zenon DEF Refuse, Goto
<1>14. CASE HandlerExit
  BY <1>14, <1>a, Zenon DEF HandlerExit, Goto
<1>15. CASE MarkError
  BY <1>15, <1>a, Zenon DEF MarkError, Goto
<1>16. CASE SettleArrives
  BY <1>16, <1>a, Zenon DEF SettleArrives
<1>17. CASE Finish
  BY <1>17, <1>a, Zenon DEF Finish
<1>18. CASE Crash
  BY <1>18, <1>a, Zenon DEF Crash
<1>19. CASE UNCHANGED vars
  BY <1>19, <1>a, Zenon DEF vars
<1> QED
  BY <1>1, <1>2, <1>3, <1>4, <1>5, <1>6, <1>7, <1>8, <1>9, <1>10,
     <1>11, <1>12, <1>13, <1>14, <1>15, <1>16, <1>17, <1>18, <1>19, Zenon DEF Next

\* Whatever acks are lost, however often the daemon restarts and its clock is
\* stepped, a recorded event is not handled again unless a lookup fails.
THEOREM RecordHolds == Spec => []RecordedNotRerun
<1>1. Init => RecordInv
  BY Zenon DEF Init, RecordInv
<1>2. RecordInv => RecordedNotRerun
  BY Zenon DEF RecordInv, RecordedNotRerun
<1>3. TypeOK => NumbersOK
  BY TypeParts
<1>4. ASSUME NumbersOK, RecordInv, [Next]_vars PROVE RecordInv'
  <2>1. Dated' /\ Attended' /\ Kept' /\ Fresh'
    BY <1>4, DatedStep, RecordStep, RecordParts
  <2> QED
    BY <2>1, Zenon DEF RecordInv, Attended, Dated, Kept, Fresh
<1> QED
  BY <1>1, <1>2, <1>3, <1>4, TypeCorrect, PTL DEF Spec
=============================================================================
