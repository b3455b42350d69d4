------------------------------ MODULE RunQueue ------------------------------
(***************************************************************************)
(* The run queue of crates/qunix-sched/src/lib.rs as operators: three      *)
(* FIFO bands, the highest non-empty one served first.  A queue is a       *)
(* function from bands to sequences of thread ids.                         *)
(***************************************************************************)
EXTENDS Naturals, Sequences

\* enum Priority; ORDER walks the bands downwards.
PIdle == 0
PNormal == 1
PHigh == 2
Band == {PIdle, PNormal, PHigh}

\* RunQueue::new
NewQueue == [b \in Band |-> <<>>]

contains(q, id) == \E b \in Band : \E i \in 1..Len(q[b]) : q[b][i] = id

is_empty(q) == \A b \in Band : q[b] = <<>>

\* What counts as work: the idle band is never counted.
runnable_len(q) == Len(q[PHigh]) + Len(q[PNormal])

\* The band pop and steal serve (meaningful when the queue is not empty).
TopBand(q) == IF q[PHigh] # <<>> THEN PHigh
              ELSE IF q[PNormal] # <<>> THEN PNormal ELSE PIdle

\* Mutant: a push goes to the front of its band.
pushFront(q, id, prio) ==
    IF contains(q, id) THEN q ELSE [q EXCEPT ![prio] = <<id>> \o q[prio]]

\* RunQueue::push: a second push of a queued id is ignored.
push(q, id, prio) ==
    IF contains(q, id) THEN q ELSE [q EXCEPT ![prio] = Append(q[prio], id)]

\* RunQueue::pop takes the front of the served band ...
Popped(q) == Head(q[TopBand(q)])
pop(q) == [q EXCEPT ![TopBand(q)] = Tail(q[TopBand(q)])]

\* ... and RunQueue::steal its back.
Stolen(q) == q[TopBand(q)][Len(q[TopBand(q)])]
\* Mutant: a thief peeks instead of removing.
stealKeeps(q) == q

steal(q) ==
    [q EXCEPT ![TopBand(q)] = SubSeq(q[TopBand(q)], 1, Len(q[TopBand(q)]) - 1)]
=============================================================================
