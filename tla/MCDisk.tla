------------------------------- MODULE MCDisk -------------------------------
(* The ring and the driver that submits through it, for TLC: the two share    *)
(* no variable here (BlockDriver sees the ring as the pool of chains the ring *)
(* is shown to implement), so a behaviour exercises one of them.              *)
EXTENDS SplitQueue, Sequences

CONSTANTS t1, t2, a
CONSTANTS Caller, Chain, QueueSize, BadId, Capacity, Timeout, MaxFaults
VARIABLES
    session,
    chains, inFlight, slots, dev, used, misled, irq, todo, woken, timers, rem,
    pc, head, answer, parked, pending, wakes

TwoCallers == {t1, t2}
OneChain == {a}

Driver == INSTANCE BlockDriver WITH free <- chains

requestVars == <<chains, inFlight, slots, dev, used, misled, irq, todo,
                 woken, timers, rem, pc, head, answer, parked, pending, wakes>>
diskVars == <<session, vars, requestVars>>

DiskInit == session \in {"requests", "ring"} /\ Init /\ Driver!Init

DiskNext ==
    \/ session = "requests" /\ Driver!Next /\ UNCHANGED <<session, vars>>
    \/ session = "ring" /\ Next /\ UNCHANGED <<session, requestVars>>

DiskSpec == DiskInit /\ [][DiskNext]_diskVars /\ Driver!Fairness

\* Every request that was submitted returns to its caller, with the device's
\* answer or timed out (the driver's liveness, BlockDriver).
RequestReturns == Driver!RequestReturns
=============================================================================
