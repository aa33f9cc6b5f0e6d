------------------------------ MODULE MCDelivery ------------------------------
(* Instances of Delivery for TLC.                                          *)
EXTENDS Delivery, TLC

CONSTANTS a1, e1, e2, t1, t2, s1, s2, s3, o1

MCLimit == 1

Valid(e) ==
    [agent |-> a1, to |-> a1, event |-> e, bytes |-> MCLimit, json |-> TRUE, version |-> 1]

\* Two events, a publisher's duplicate, one event.
MCTwo       == <<Valid(e1), Valid(e2)>>
MCRepeated  == <<Valid(e1), Valid(e1)>>
MCOne       == <<Valid(e1)>>
MCMessages  == {Stream[i] : i \in DOMAIN Stream}

Enabled(n) == [enabled |-> TRUE, conc |-> n]
MCOnly1  == {Enabled(1)}
MCOnly2  == {Enabled(2)}

MCPending1 == [a \in Agents |-> 1]
MCPending2 == [a \in Agents |-> 2]

MCSymmetry == Permutations(Tasks) \cup Permutations(SemIds)
=============================================================================
