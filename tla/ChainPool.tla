------------------------------ MODULE ChainPool ------------------------------
(* What a virtqueue promises its driver: up to Chains requests outstanding    *)
(* or taken back at a time, each under a head of its own.                     *)
EXTENDS Naturals, FiniteSets

CONSTANTS Head, Chains
VARIABLES inFlight, held

vars == <<inFlight, held>>

Init == inFlight = {} /\ held = {}

Submit(h) ==
    /\ h \notin inFlight \cup held
    /\ Cardinality(inFlight \cup held) < Chains
    /\ inFlight' = inFlight \cup {h}
    /\ UNCHANGED held

Take(h) ==
    /\ h \in inFlight
    /\ inFlight' = inFlight \ {h}
    /\ held' = held \cup {h}

Free(h) ==
    /\ h \in held
    /\ held' = held \ {h}
    /\ UNCHANGED inFlight

Next == \E h \in Head : Submit(h) \/ Take(h) \/ Free(h)

Spec == Init /\ [][Next]_vars
=============================================================================
