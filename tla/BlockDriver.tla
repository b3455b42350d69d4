---------------------------- MODULE BlockDriver -----------------------------
(***************************************************************************)
(* One virtio block device and the threads that use it: the request path   *)
(* of kernel/src/block.rs and the futures, timers and block_on of          *)
(* kernel/src/task.rs.  The device is external.                            *)
(*                                                                         *)
(* A step is one critical section under DEVICE or TIMERS, or one unlocked  *)
(* decision of a polling thread.  The completion interrupt holds DEVICE    *)
(* while it drains the used ring, entry by entry.  The queue is the pool   *)
(* of chains that SplitQueue implements: a published head is the device's, *)
(* fetched or not, and the used ring is the sequence of its unread         *)
(* entries; park and unpark are the contract that Scheduler implements.    *)
(***************************************************************************)
EXTENDS Integers, Sequences, FiniteSets

CONSTANTS
    Caller,      \* threads issuing requests, one at a time each
    Chain,       \* the request chains the queue has descriptors for
    QueueSize,   \* entries of the used ring
    BadId,       \* an id past the descriptor table
    Capacity,    \* timer slots
    Timeout,     \* REQUEST_TIMEOUT_TICKS
    MaxFaults    \* bound on the false entries at large at a time

ASSUME QueueAssumption ==
    /\ IsFiniteSet(Chain) /\ BadId \notin Chain
    /\ QueueSize \in Nat /\ QueueSize >= Cardinality(Chain)
ASSUME CallerAssumption == IsFiniteSet(Caller)
ASSUME TimerAssumption ==
    Capacity \in Nat \ {0} /\ Timeout \in Nat \ {0} /\ MaxFaults \in Nat

VARIABLES
    free,      \* chains on the free list
    inFlight,  \* SplitQueue::in_flight
    slots,     \* Blk::slots
    dev,       \* how often each head is published and not yet returned by the device
    used,      \* used-ring entries the driver has not taken yet
    misled,    \* chains a false entry had the driver take back while the device has them
    irq,       \* a completion interrupt is pending
    todo,      \* entries the running interrupt still has to take, or None
    woken,     \* threads the running interrupt will unpark
    timers,    \* TIMERS: the caller whose Sleep owns each slot
    rem,       \* ticks until each caller's deadline
    pc,        \* where each caller is
    head,      \* the caller's Request::head
    answer,    \* what Completion resolved to
    parked, pending,  \* ParkState of each caller
    wakes      \* unparks decided on and not yet performed

ringVars == <<free, inFlight, slots>>
devVars == <<dev, used, misled>>
irqVars == <<irq, todo, woken>>
timeVars == <<timers, rem>>
threadVars == <<pc, head, answer>>
parkVars == <<parked, pending, wakes>>
vars == <<ringVars, devVars, irqVars, timeVars, threadVars, parkVars>>

None == -1
NoSlot == [thread |-> None, done |-> FALSE, abandoned |-> FALSE]
Timer == 1..Capacity

\* A sentinel is no thread and no descriptor.
ASSUME NoneAssumption == None \notin Caller /\ None \notin Chain

Init ==
    /\ free = Chain
    /\ inFlight = [d \in Chain |-> FALSE]
    /\ slots = [d \in Chain |-> NoSlot]
    /\ dev = [d \in Chain |-> 0] /\ used = <<>>
    /\ misled = {}
    /\ irq = FALSE /\ todo = None /\ woken = {}
    /\ timers = [i \in Timer |-> None]
    /\ rem = [t \in Caller |-> 0]
    /\ pc = [t \in Caller |-> "idle"]
    /\ head = [t \in Caller |-> None]
    /\ answer = [t \in Caller |-> "none"]
    /\ parked = [t \in Caller |-> FALSE] /\ pending = [t \in Caller |-> FALSE]
    /\ wakes = {}

-----------------------------------------------------------------------------
(* The queue *)

\* free_chain(h)
free_chain(h) ==
    /\ free' = free \cup {h}
    /\ inFlight' = [inFlight EXCEPT ![h] = FALSE]

\* Mutant: take_used checks only that the id is inside the ring.
AcceptsAny(id) == id \in Chain

\* What take_used accepts: an id inside the ring that was published and not
\* yet taken.
Accepts(id) == id \in Chain /\ inFlight[id]

-----------------------------------------------------------------------------
(* Timers and parking *)

\* DEVICE is held by the interrupt while it drains.
DeviceFree == todo = None

\* Sleep::drop frees the slot it registered, and only that one.
DropSleep(t) ==
    /\ timers' = [i \in Timer |-> IF timers[i] = t THEN None ELSE timers[i]]
    /\ rem' = [rem EXCEPT ![t] = 0]

\* reserve_deadline = try_sleep_ticks(Timeout): the first free slot, or QueueFull.
Reserve(t) ==
    /\ pc[t] = "idle"
    /\ \E i \in Timer :
        /\ timers[i] = None
        /\ \A j \in Timer : j < i => timers[j] # None
        /\ timers' = [timers EXCEPT ![i] = t]
    /\ rem' = [rem EXCEPT ![t] = Timeout]
    /\ pc' = [pc EXCEPT ![t] = "submit"]
    /\ UNCHANGED <<ringVars, devVars, irqVars, head, answer, parkVars>>

\* submit: everything up to the index write is invisible to the device.
Submit(t) ==
    /\ pc[t] = "submit" /\ DeviceFree
    /\ \/ \E h \in free :
            /\ free' = free \ {h}
            /\ inFlight' = [inFlight EXCEPT ![h] = TRUE]
            /\ slots' = [slots EXCEPT ![h] = [NoSlot EXCEPT !.thread = t]]
            /\ dev' = [dev EXCEPT ![h] = @ + 1]
            /\ head' = [head EXCEPT ![t] = h]
            /\ pc' = [pc EXCEPT ![t] = "poll"]
            /\ UNCHANGED timeVars
       \/ /\ free = {}
          /\ DropSleep(t)
          /\ pc' = [pc EXCEPT ![t] = "idle"]
          /\ UNCHANGED <<ringVars, dev, head>>
    /\ UNCHANGED <<used, misled, irqVars, answer, parkVars>>

\* Completion::poll asks the device first ...
PollDevice(t) ==
    /\ pc[t] = "poll" /\ DeviceFree
    /\ IF slots[head[t]].done
       THEN /\ answer' = [answer EXCEPT ![t] = "done"]
            /\ pc' = [pc EXCEPT ![t] = "resolve"]
       ELSE /\ pc' = [pc EXCEPT ![t] = "polltime"]
            /\ UNCHANGED answer
    /\ UNCHANGED <<ringVars, devVars, irqVars, timeVars, head, parkVars>>

\* ... and the clock second.
PollTime(t) ==
    /\ pc[t] = "polltime"
    /\ IF rem[t] = 0
       THEN /\ answer' = [answer EXCEPT ![t] = "timedout"]
            /\ pc' = [pc EXCEPT ![t] = "resolve"]
       ELSE /\ pc' = [pc EXCEPT ![t] = "pending"]
            /\ UNCHANGED answer
    /\ UNCHANGED <<ringVars, devVars, irqVars, timeVars, head, parkVars>>

\* Mutant: park does not look at a wake that came first.
ParkAlways(t) ==
    /\ pc[t] = "pending"
    /\ parked' = [parked EXCEPT ![t] = TRUE]
    /\ pc' = [pc EXCEPT ![t] = "parked"]
    /\ UNCHANGED <<ringVars, devVars, irqVars, timeVars, head, answer, pending, wakes>>

\* block_on parks after a Pending poll, unless a wake came first.
Park(t) ==
    /\ pc[t] = "pending"
    /\ IF pending[t]
       THEN /\ pending' = [pending EXCEPT ![t] = FALSE]
            /\ pc' = [pc EXCEPT ![t] = "poll"]
            /\ UNCHANGED parked
       ELSE /\ parked' = [parked EXCEPT ![t] = TRUE]
            /\ pc' = [pc EXCEPT ![t] = "parked"]
            /\ UNCHANGED pending
    /\ UNCHANGED <<ringVars, devVars, irqVars, timeVars, head, answer, wakes>>

\* park returns once unpark has cleared the flag; block_on polls again.
Resume(t) ==
    /\ pc[t] = "parked" /\ ~parked[t]
    /\ pc' = [pc EXCEPT ![t] = "poll"]
    /\ UNCHANGED <<ringVars, devVars, irqVars, timeVars, head, answer, parkVars>>

\* The resolved Completion is dropped, and its deadline with it.
Resolve(t) ==
    /\ pc[t] = "resolve"
    /\ DropSleep(t)
    /\ pc' = [pc EXCEPT ![t] = "finish"]
    /\ UNCHANGED <<ringVars, devVars, irqVars, head, answer, parkVars>>

\* finish: quarantine the chain of a timed-out request, release any other.
Finish(t) ==
    LET h == head[t]
    IN
    /\ pc[t] = "finish" /\ DeviceFree
    /\ IF answer[t] = "timedout"
       THEN /\ slots' = [slots EXCEPT ![h].abandoned = TRUE]
            /\ UNCHANGED <<free, inFlight>>
       ELSE /\ free_chain(h)
            /\ slots' = [slots EXCEPT ![h] = NoSlot]
    /\ pc' = [pc EXCEPT ![t] = "idle"]
    /\ head' = [head EXCEPT ![t] = None]
    /\ answer' = [answer EXCEPT ![t] = "none"]
    /\ UNCHANGED <<devVars, irqVars, timeVars, parkVars>>

\* The future is dropped between polls: its deadline first ...
Cancel(t) ==
    /\ pc[t] = "pending"
    /\ DropSleep(t)
    /\ pc' = [pc EXCEPT ![t] = "drop"]
    /\ UNCHANGED <<ringVars, devVars, irqVars, head, answer, parkVars>>

\* Mutant: a dropped request releases its chain without asking about the device.
RequestDropFrees(t) ==
    /\ pc[t] = "drop" /\ DeviceFree
    /\ free_chain(head[t])
    /\ slots' = [slots EXCEPT ![head[t]] = NoSlot]
    /\ pc' = [pc EXCEPT ![t] = "idle"]
    /\ head' = [head EXCEPT ![t] = None]
    /\ UNCHANGED <<devVars, irqVars, timeVars, answer, parkVars>>

\* ... then Request::drop, which releases a completed chain and quarantines
\* an outstanding one.
RequestDrop(t) ==
    LET h == head[t]
    IN
    /\ pc[t] = "drop" /\ DeviceFree
    /\ IF slots[h].done
       THEN /\ free_chain(h)
            /\ slots' = [slots EXCEPT ![h] = NoSlot]
       ELSE /\ slots' = [slots EXCEPT ![h].abandoned = TRUE]
            /\ UNCHANGED <<free, inFlight>>
    /\ pc' = [pc EXCEPT ![t] = "idle"]
    /\ head' = [head EXCEPT ![t] = None]
    /\ UNCHANGED <<devVars, irqVars, timeVars, answer, parkVars>>

-----------------------------------------------------------------------------
(* The device *)

\* A used entry.  The driver sees the id; whether the device has done with the chain,
\* or names it though it has not, nobody can see.
Entry(h, real) == [id |-> h, real |-> real]

\* Requests are answered in any order: data and status, then the used entry, then
\* the interrupt.
DeviceComplete(h) ==
    /\ dev[h] > 0
    /\ dev' = [dev EXCEPT ![h] = @ - 1]
    /\ used' = Append(used, Entry(h, TRUE))
    /\ irq' = TRUE
    /\ UNCHANGED <<ringVars, misled, todo, woken, timeVars, threadVars, parkVars>>

\* A device fault: an entry the device does not owe, at any time, for an id past the
\* descriptor table or for a head in any state (answered before, not yet, or free).
DeviceFault(id) ==
    /\ Cardinality({i \in DOMAIN used : ~used[i].real}) + Cardinality(misled) < MaxFaults
    /\ used' = Append(used, Entry(id, FALSE))
    /\ irq' = TRUE
    /\ UNCHANGED <<ringVars, dev, misled, todo, woken, timeVars, threadVars, parkVars>>

\* The device has chain h, or has an entry for it in u: published and not yet taken back.
Owes(h, u) ==
    dev[h] > 0 \/ \E i \in DOMAIN u : u[i] = Entry(h, TRUE)

-----------------------------------------------------------------------------
(* Interrupts *)

\* handle_completion takes DEVICE and reads used.idx once; an index further
\* ahead than the ring holds is refused.
CompletionIrq ==
    /\ irq /\ DeviceFree
    /\ irq' = FALSE
    /\ todo' = IF Len(used) > QueueSize THEN None ELSE Len(used)
    /\ UNCHANGED <<ringVars, devVars, woken, timeVars, threadVars, parkVars>>

\* One used entry: refused, reclaimed, or delivered to its submitter.
TakeUsed ==
    LET h == Head(used).id
    IN
    /\ todo # None /\ todo > 0
    /\ used' = Tail(used)
    /\ todo' = todo - 1
    /\ IF Accepts(h)
       THEN IF slots[h].abandoned
            THEN /\ free_chain(h)
                 /\ slots' = [slots EXCEPT ![h] = NoSlot]
                 /\ UNCHANGED woken
            ELSE /\ inFlight' = [inFlight EXCEPT ![h] = FALSE]
                 /\ slots' = [slots EXCEPT ![h].done = TRUE]
                 /\ woken' = woken \cup {slots[h].thread}
                 /\ UNCHANGED free
       ELSE UNCHANGED <<ringVars, woken>>
    /\ misled' = {c \in misled \cup {d \in Chain : d = h /\ Accepts(h) /\ ~Head(used).real} :
                    Owes(c, Tail(used))}
    /\ UNCHANGED <<dev, irq, timeVars, threadVars, parkVars>>

\* DEVICE is released; the submitters are unparked after it.
CompletionDone ==
    /\ todo = 0
    /\ todo' = None
    /\ woken' = {}
    /\ wakes' = wakes \cup woken
    /\ UNCHANGED <<ringVars, devVars, irq, timeVars, threadVars, parked, pending>>

\* The timer interrupt's TICKS increment ...
Tick ==
    /\ \E t \in Caller : rem[t] > 0
    /\ rem' = [t \in Caller |-> IF rem[t] > 0 THEN rem[t] - 1 ELSE 0]
    /\ UNCHANGED <<ringVars, devVars, irqVars, timers, threadVars, parkVars>>

\* Mutant: a due slot is freed and its owner not woken.
ExpireSilently ==
    LET due == {i \in Timer : timers[i] # None /\ rem[timers[i]] = 0}
    IN
    /\ due # {}
    /\ timers' = [i \in Timer |-> IF i \in due THEN None ELSE timers[i]]
    /\ UNCHANGED <<ringVars, devVars, irqVars, rem, threadVars, parkVars>>

\* ... and its expire_timers: every due slot is taken, its owner unparked later.
ExpireTimers ==
    LET due == {i \in Timer : timers[i] # None /\ rem[timers[i]] = 0}
    IN
    /\ due # {}
    /\ timers' = [i \in Timer |-> IF i \in due THEN None ELSE timers[i]]
    /\ wakes' = wakes \cup {timers[i] : i \in due}
    /\ UNCHANGED <<ringVars, devVars, irqVars, rem, threadVars, parked, pending>>

\* unpark: runnable if parked, remembered if not.
Unpark(t) ==
    /\ t \in wakes
    /\ wakes' = wakes \ {t}
    /\ IF parked[t]
       THEN parked' = [parked EXCEPT ![t] = FALSE] /\ UNCHANGED pending
       ELSE pending' = [pending EXCEPT ![t] = TRUE] /\ UNCHANGED parked
    /\ UNCHANGED <<ringVars, devVars, irqVars, timeVars, threadVars>>

-----------------------------------------------------------------------------
\* The caller's code that runs to completion once started.
CallerStep(t) ==
    \/ Submit(t) \/ PollDevice(t) \/ PollTime(t) \/ Park(t) \/ Resume(t)
    \/ Resolve(t) \/ Finish(t) \/ RequestDrop(t)

Device ==
    \/ \E h \in Chain : DeviceComplete(h)
    \/ \E id \in Chain \cup {BadId} : DeviceFault(id)

Handlers == CompletionIrq \/ TakeUsed \/ CompletionDone \/ ExpireTimers

Next ==
    \/ \E t \in Caller : Reserve(t) \/ CallerStep(t) \/ Cancel(t) \/ Unpark(t)
    \/ Device \/ Handlers \/ Tick

Spec == Init /\ [][Next]_vars

\* A started request keeps being polled, a processor spinning for DEVICE gets it
\* some time, interrupts are delivered and the timer ticks.  The device need
\* never answer.
Fairness ==
    /\ \A t \in Caller : SF_vars(CallerStep(t)) /\ WF_vars(Unpark(t))
    /\ WF_vars(CompletionIrq) /\ WF_vars(TakeUsed) /\ WF_vars(CompletionDone)
    /\ WF_vars(ExpireTimers) /\ WF_vars(Tick)

FairSpec == Spec /\ Fairness

-----------------------------------------------------------------------------
(* Properties *)

\* A chain is on the free list or has a slot, never both and never neither: no
\* sequence of completions, drops, time-outs and refused entries frees a chain
\* twice or forgets one.
FreeOrTracked == \A h \in Chain : h \in free <=> slots[h] = NoSlot

\* The chains the device may still read or write through.
DeviceOwned == {h \in Chain : dev[h] > 0}

\* A chain the device holds stays allocated and unanswered: no time-out, dropped
\* future or entry for another chain hands its bounce buffer to another request, and
\* no caller copies out of it, before the device is done with it.  Excepted is a chain
\* for which take_used accepted an entry the device did not owe (queue.rs checks that
\* the head is in flight, and a late duplicate of an earlier use passes once the chain
\* is published again), until the device has returned every copy it was given.
DeviceOwnsChain ==
    \A h \in DeviceOwned \ misled :
        /\ h \notin free /\ inFlight[h] /\ ~slots[h].done
        /\ \A t \in Caller : head[t] = h => answer[t] # "done"

\* The submitter a slot names is the thread holding that head, until the slot
\* is abandoned: a completion is never delivered to another request's thread.
SlotNamesHolder ==
    \A h \in Chain :
        slots[h].thread # None /\ ~slots[h].abandoned
            => /\ head[slots[h].thread] = h
               /\ \A t \in Caller : head[t] = h => t = slots[h].thread

\* The chains are accounted for, by the free list, the slots and the callers.
ChainsAccounted == FreeOrTracked /\ SlotNamesHolder

\* A parked caller is never left to the device alone: its deadline is
\* registered, or an interrupt that will unpark it has already been taken.
ParkedHasWaker ==
    \A t \in Caller :
        parked[t] => t \in wakes \/ t \in woken \/ \E i \in Timer : timers[i] = t

\* Request::drop and finish quarantine a chain "until the device returns it":
\* an abandoned chain is one whose completion is still to come.
AbandonedIsOutstanding == \A h \in Chain : slots[h].abandoned => inFlight[h]

\* Every submitted request returns to its caller, though the device may never
\* answer and may answer out of protocol.
RequestReturns == \A t \in Caller : pc[t] = "poll" ~> pc[t] = "idle"
=============================================================================
