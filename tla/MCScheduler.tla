---------------------------- MODULE MCScheduler -----------------------------
(* Instances of Scheduler for TLC. *)
EXTENDS Scheduler

\* Ordinary threads at one priority.
SamePrio == [t \in Thread |-> IF t \in Idle THEN PIdle ELSE PNormal]
Ordinary == Thread \ Idle
AllThreads == Thread
BootAndLast == {0, MaxThreads - 1}
LastThread == {MaxThreads - 1}
NoThreads == {}
=============================================================================
