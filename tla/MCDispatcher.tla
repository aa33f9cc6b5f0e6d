----------------------------- MODULE MCDispatcher -----------------------------
(* Instances of Dispatcher for TLC.                                        *)
EXTENDS Dispatcher, TLC

CONSTANTS a1, e1, e2, t1, t2, s1, s2, s3, o1

MCLimit == 2

\* A semaphore is always left to allocate.
ASSUME Cardinality(SemIds) >= Cardinality(Tasks) + Cardinality(Agents)

Valid(a, e) ==
    [agent |-> a, to |-> a, event |-> e,
     bytes |-> MCLimit, json |-> TRUE, version |-> 1]

\* Two events and a message that fails the checks.
MCMessages == {Valid(a1, e1), Valid(a1, e2), Valid(a1, Blank)}

\* Only copies of one event.
MCCopies == {Valid(a1, e1)}

Enabled(n)  == [enabled |-> TRUE, conc |-> n]
Disabled(n) == [enabled |-> FALSE, conc |-> n]

MCConfigs == {Enabled(1), Enabled(2), Disabled(1)}
MCSerial  == {Enabled(1), Disabled(1)}

\* Tasks, semaphores and the two events of MCMessages are interchangeable.
MCSymmetry ==
    Permutations(Tasks) \cup Permutations(SemIds) \cup Permutations({e1, e2})
=============================================================================
