------------------------------ MODULE MCLifetime ------------------------------
(* An instance of Lifetime for TLC: the tightest margins it allows, one     *)
(* progress ack in a row lost, and time enough for a record to expire.      *)
EXTENDS Lifetime

\* No larger lease margin and no larger record margin is needed.
ASSUME AckWait = (MaxLost + 1) * Period + 2 * Delay + 1
ASSUME TTL = MaxAge + 2 * Skew
ASSUME MaxTime > TTL + 2
=============================================================================
