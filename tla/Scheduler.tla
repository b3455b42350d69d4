----------------------------- MODULE Scheduler ------------------------------
(***************************************************************************)
(* The SMP scheduler of kernel/src/sched.rs with the park state of         *)
(* crates/qunix-sched/src/park.rs.                                         *)
(*                                                                         *)
(* A step is what one lock acquisition or one atomic instruction makes     *)
(* visible: schedule() is split into its queue visits, its section under   *)
(* SCHED, the context switch and the landing on the incoming stack, and    *)
(* every other CPU may run between them.  Thread and CPU ids are numbers,  *)
(* as in the code; the thread that adopted CPU c's boot stack has id c.    *)
(***************************************************************************)
EXTENDS RunQueue, FiniteSets

CONSTANTS
    NumCpus,      \* processors, all of them past sched::init
    MaxThreads,   \* bound on thread ids ever allocated
    Prio,         \* priority of each thread
    Parkers,      \* threads that call park (poll futures)
    Mortal        \* threads whose entry function ends in exit_current

Cpu == 0..(NumCpus - 1)
Thread == 0..(MaxThreads - 1)
Idle == Cpu
NoThread == MaxThreads

ASSUME CountsAssumption ==
    NumCpus \in Nat \ {0} /\ MaxThreads \in Nat /\ NumCpus <= MaxThreads

\* adopt_current gives the idle band to a boot stack; every spawn_kernel
\* caller asks for Normal (or High).
ASSUME PriorityAssumption ==
    /\ Prio \in [Thread -> Band]
    /\ \A t \in Thread : Prio[t] = PIdle <=> t \in Idle

ASSUME RolesAssumption ==
    Parkers \subseteq Thread /\ Mortal \subseteq Thread \ Idle

VARIABLES
    threads,    \* keys of Scheduler::threads
    nextId,     \* Scheduler::next_id
    reapable,   \* Scheduler::reapable
    slot,       \* position of a thread's entry in the table's storage
    state,      \* Thread::state
    parked,     \* ParkState::parked
    pending,    \* ParkState::pending
    ctx,        \* Thread::context: whose suspended stack it names
    queue,      \* PerCpu::run_queue
    current,    \* PerCpu::current_thread
    handoff,    \* HANDOFF_ID with the HANDOFF_PARKED tag
    stack,      \* the thread whose stack the CPU is executing on
    phase,      \* how far the CPU is through schedule()
    out,        \* schedule's argument
    next,       \* take_next's result; after the table section, to_ctx
    probe,      \* queues the steal loop has not visited yet
    from,       \* from_slot
    wake,       \* an interrupt handler's unpark between table and queue
    k,          \* where each thread's own code is
    pend        \* spawn_kernel's new id between table and queue

table == <<threads, nextId, reapable, slot, state, parked, pending, ctx>>
percpu == <<queue, current, handoff>>
machine == <<stack, phase, out, next, probe, from, wake, k, pend>>
vars == <<table, percpu, machine>>

ThreadStates == {"Ready", "Running", "Blocked", "Exited"}
Phases == {"thread", "take", "steal", "commit", "switch", "land", "reap"}
Halts == {"parkhalt", "exithalt", "idlehalt"}
Continuations ==
    Halts \cup {"none", "entry", "body", "parkcheck", "parkwoken", "parkagain", "exit"}

NoHandoff == [id |-> NoThread, tag |-> FALSE]

\* percpu state after sched::init has adopted the running context of each CPU.
InitPercpu ==
    /\ queue = [c \in Cpu |-> NewQueue]
    /\ current = [c \in Cpu |-> c]
    /\ handoff = [c \in Cpu |-> NoHandoff]

\* Every CPU has run sched::init and is executing its idle thread.
Init ==
    /\ InitPercpu
    /\ threads = Idle /\ nextId = NumCpus /\ reapable = {}
    /\ slot = [t \in Thread |-> t]
    /\ state = [t \in Thread |-> IF t \in Idle THEN "Running" ELSE "Ready"]
    /\ parked = [t \in Thread |-> FALSE]
    /\ pending = [t \in Thread |-> FALSE]
    /\ ctx = [t \in Thread |-> NoThread]
    /\ stack = [c \in Cpu |-> c]
    /\ phase = [c \in Cpu |-> "thread"]
    /\ out = [c \in Cpu |-> "Ready"]
    /\ next = [c \in Cpu |-> NoThread]
    /\ probe = [c \in Cpu |-> {}]
    /\ from = [c \in Cpu |-> 0]
    /\ wake = [c \in Cpu |-> NoThread]
    /\ k = [t \in Thread |-> IF t \in Idle THEN "body" ELSE "none"]
    /\ pend = [t \in Thread |-> NoThread]

-----------------------------------------------------------------------------
\* Executing the thread's own code, no interrupt handler on top of it.
Executing(c) == phase[c] = "thread" /\ wake[c] = NoThread

\* Interrupts are unmasked everywhere in a thread's own code except between
\* schedule's return and the halt in park.
Interruptible(c) ==
    Executing(c) /\ k[stack[c]] \in Halts \cup {"body", "parkwoken", "parkagain", "exit"}

\* Any interrupt ends a hlt; the code after it runs when the handler returns.
Awake(kk) == CASE kk = "parkhalt" -> "parkwoken"
               [] kk = "exithalt" -> "exit"
               [] kk = "idlehalt" -> "body"
               [] OTHER -> kk

is_current_anywhere(t) == \E c \in Cpu : current[c] = t

\* Enter schedule(o); the thread continues at kk when schedule returns.
EnterSchedule(c, o, kk) ==
    /\ phase' = [phase EXCEPT ![c] = "take"]
    /\ out' = [out EXCEPT ![c] = o]
    /\ k' = [k EXCEPT ![stack[c]] = kk]

-----------------------------------------------------------------------------
(* take_next *)

\* The first acquisition: local work, or start looking elsewhere.
TakeLocal(c) ==
    /\ phase[c] = "take"
    /\ IF runnable_len(queue[c]) > 0
       THEN /\ next' = [next EXCEPT ![c] = Popped(queue[c])]
            /\ queue' = [queue EXCEPT ![c] = pop(queue[c])]
            /\ phase' = [phase EXCEPT ![c] = "commit"]
            /\ UNCHANGED probe
       ELSE /\ probe' = [probe EXCEPT ![c] = Cpu \ {c}]
            /\ phase' = [phase EXCEPT ![c] = "steal"]
            /\ UNCHANGED <<next, queue>>
    /\ UNCHANGED <<table, current, handoff, stack, out, from, wake, k, pend>>

\* One remote queue, in id order.  A contended try_lock is skipped.
StealFrom(c) ==
    /\ phase[c] = "steal"
    /\ \E o \in probe[c] :
        /\ \A p \in probe[c] : o <= p
        /\ \/ /\ runnable_len(queue[o]) > 0
              /\ next' = [next EXCEPT ![c] = Stolen(queue[o])]
              /\ queue' = [queue EXCEPT ![o] = steal(queue[o])]
              /\ phase' = [phase EXCEPT ![c] = "commit"]
              /\ probe' = [probe EXCEPT ![c] = {}]
           \/ /\ probe' = [probe EXCEPT ![c] = probe[c] \ {o}]
              /\ UNCHANGED <<next, queue, phase>>
    /\ UNCHANGED <<table, current, handoff, stack, out, from, wake, k, pend>>

\* The last acquisition: this CPU's own idle thread, or nothing to switch to.
TakeLast(c) ==
    /\ phase[c] = "steal" /\ probe[c] = {}
    /\ IF ~is_empty(queue[c])
       THEN /\ next' = [next EXCEPT ![c] = Popped(queue[c])]
            /\ queue' = [queue EXCEPT ![c] = pop(queue[c])]
            /\ phase' = [phase EXCEPT ![c] = "commit"]
            /\ UNCHANGED out
       ELSE /\ phase' = [phase EXCEPT ![c] = IF out[c] = "Exited" THEN "thread" ELSE "reap"]
            /\ out' = [out EXCEPT ![c] = "Ready"]
            /\ UNCHANGED <<next, queue>>
    /\ UNCHANGED <<table, current, handoff, stack, probe, from, wake, k, pend>>

-----------------------------------------------------------------------------
(* schedule *)

\* Mutant: schedule trusts its caller's view of the park.
OutgoingStale(c) ==
    IF out[c] = "Exited" THEN NoHandoff
    ELSE [id |-> current[c], tag |-> out[c] = "Blocked"]

\* Mutant: an exiting thread is handed on like any other.
OutgoingAlways(c) == [id |-> current[c], tag |-> parked[current[c]]]

\* What schedule leaves in the handoff slot: a thread that is parked *now*,
\* under SCHED, is tagged; an exiting one is not handed on.
Outgoing(c) ==
    IF out[c] = "Exited" THEN NoHandoff
    ELSE [id |-> current[c], tag |-> parked[current[c]]]

\* Mutant: the exit path forgets to record the thread.
ReapableForgotten(c) == reapable

Reapable(c) == IF out[c] = "Exited" THEN reapable \cup {current[c]} ELSE reapable

\* The state the calling thread is left in; Exited is terminal.
OutgoingState(c) ==
    IF out[c] = "Exited" \/ state[current[c]] = "Exited" THEN "Exited"
    ELSE IF parked[current[c]] THEN "Blocked" ELSE "Ready"

\* The section under SCHED.  Its assertions are the conjuncts on next and
\* current; see ScheduleAsserts.
Commit(c) ==
    LET me == current[c]
        n == next[c]
    IN
    /\ phase[c] = "commit"
    /\ n \in threads /\ ctx[n] # NoThread /\ me \in threads
    /\ state' = [state EXCEPT ![me] = OutgoingState(c), ![n] = "Running"]
    /\ reapable' = Reapable(c)
    /\ handoff' = [handoff EXCEPT ![c] = Outgoing(c)]
    /\ current' = [current EXCEPT ![c] = n]
    /\ next' = [next EXCEPT ![c] = ctx[n]]
    /\ from' = [from EXCEPT ![c] = slot[me]]
    /\ phase' = [phase EXCEPT ![c] = "switch"]
    /\ UNCHANGED <<threads, nextId, slot, parked, pending, ctx, queue, stack, out,
                   probe, wake, k, pend>>

\* context::switch: the outgoing stack is saved through from_slot, into
\* whatever entry the table keeps there by now.
Switch(c) ==
    /\ phase[c] = "switch"
    /\ ctx' = [t \in Thread |->
                 IF t \in threads /\ slot[t] = from[c] THEN stack[c] ELSE ctx[t]]
    /\ stack' = [stack EXCEPT ![c] = next[c]]
    /\ next' = [next EXCEPT ![c] = NoThread]
    /\ from' = [from EXCEPT ![c] = 0]
    /\ out' = [out EXCEPT ![c] = "Ready"]
    /\ phase' = [phase EXCEPT ![c] = "land"]
    /\ UNCHANGED <<threads, nextId, reapable, slot, state, parked, pending, percpu,
                   probe, wake, k, pend>>

\* publish_handoff on the incoming stack: the tail of schedule, or the head of
\* thread_entry for a thread that never ran.
Land(c) ==
    LET h == handoff[c]
        t == stack[c]
    IN
    /\ phase[c] = "land"
    /\ handoff' = [handoff EXCEPT ![c] = NoHandoff]
    /\ queue' = IF h.id # NoThread /\ ~h.tag
                THEN [queue EXCEPT ![c] = push(queue[c], h.id, Prio[h.id])]
                ELSE queue
    /\ IF k[t] = "entry"
       THEN /\ k' = [k EXCEPT ![t] = "body"]
            /\ phase' = [phase EXCEPT ![c] = "thread"]
       ELSE /\ phase' = [phase EXCEPT ![c] = "reap"]
            /\ UNCHANGED k
    /\ UNCHANGED <<table, current, stack, out, next, probe, from, wake, pend>>

\* reap: entries of exited threads leave the table, except those still current;
\* the entries behind a removed one move up.
Reap(c) ==
    LET dead == {t \in reapable : ~is_current_anywhere(t)}
    IN
    /\ phase[c] = "reap"
    /\ threads' = threads \ dead
    /\ reapable' = reapable \ dead
    /\ slot' = [t \in Thread |-> slot[t] - Cardinality({d \in dead : slot[d] < slot[t]})]
    /\ phase' = [phase EXCEPT ![c] = "thread"]
    /\ UNCHANGED <<nextId, state, parked, pending, ctx, percpu, stack, out, next,
                   probe, from, wake, k, pend>>

-----------------------------------------------------------------------------
(* Threads *)

\* Mutant: park ignores a wake that came first.
WakeIgnored(t) == FALSE

\* ParkState::park consumes a wake that came first instead of parking.
WakePending(t) == pending[t]

\* The part of park under SCHED, from the call or from the loop's next round.
Park(c) ==
    LET t == stack[c]
    IN
    /\ Executing(c) /\ pend[t] = NoThread
    /\ \/ k[t] = "body" /\ t \in Parkers
       \/ k[t] = "parkagain"
    /\ IF WakePending(t)
       THEN /\ pending' = [pending EXCEPT ![t] = FALSE]
            /\ k' = [k EXCEPT ![t] = "body"]
            /\ UNCHANGED <<parked, state, phase, out>>
       ELSE /\ parked' = [parked EXCEPT ![t] = TRUE]
            /\ state' = [state EXCEPT ![t] = "Blocked"]
            /\ EnterSchedule(c, "Blocked", "parkcheck")
            /\ UNCHANGED pending
    /\ UNCHANGED <<threads, nextId, reapable, slot, ctx, percpu, stack, next, probe,
                   from, wake, pend>>

\* park's two looks at is_parked: masked before the halt, unmasked after it.
ParkCheck(c) ==
    LET t == stack[c]
    IN
    /\ Executing(c)
    /\ k[t] \in {"parkcheck", "parkwoken"}
    /\ k' = [k EXCEPT ![t] = IF ~parked[t] THEN "body"
                             ELSE IF k[t] = "parkcheck" THEN "parkhalt" ELSE "parkagain"]
    /\ UNCHANGED <<table, percpu, stack, phase, out, next, probe, from, wake, pend>>

\* yield_now
Yield(c) ==
    /\ Executing(c) /\ k[stack[c]] = "body" /\ stack[c] \notin Idle
    /\ EnterSchedule(c, "Ready", "body")
    /\ UNCHANGED <<table, percpu, stack, next, probe, from, wake, pend>>

\* One round of idle_loop: runnable_count decides between yielding and hlt.
IdleLoop(c) ==
    /\ Executing(c) /\ stack[c] \in Idle
    /\ k[stack[c]] = "body" /\ pend[stack[c]] = NoThread
    /\ IF \E o \in Cpu : runnable_len(queue[o]) > 0
       THEN EnterSchedule(c, "Ready", "body")
       ELSE k' = [k EXCEPT ![stack[c]] = "idlehalt"] /\ UNCHANGED <<phase, out>>
    /\ UNCHANGED <<table, percpu, stack, next, probe, from, wake, pend>>

\* spawn_kernel up to the release of SCHED ...
SpawnInsert(c) ==
    LET t == stack[c]
        u == nextId
    IN
    /\ Executing(c) /\ k[t] = "body" /\ pend[t] = NoThread
    /\ u < MaxThreads
    /\ threads' = threads \cup {u}
    /\ nextId' = nextId + 1
    /\ slot' = [slot EXCEPT ![u] = Cardinality(threads)]
    /\ ctx' = [ctx EXCEPT ![u] = u]
    /\ k' = [k EXCEPT ![u] = "entry"]
    /\ pend' = [pend EXCEPT ![t] = u]
    /\ UNCHANGED <<reapable, state, parked, pending, percpu, stack, phase, out, next,
                   probe, from, wake>>

\* ... and its push, on the queue of whichever CPU the spawner is on by then.
SpawnPush(c) ==
    LET t == stack[c]
    IN
    /\ Executing(c) /\ k[t] = "body" /\ pend[t] # NoThread
    /\ queue' = [queue EXCEPT ![c] = push(queue[c], pend[t], Prio[pend[t]])]
    /\ pend' = [pend EXCEPT ![t] = NoThread]
    /\ UNCHANGED <<table, current, handoff, stack, phase, out, next, probe, from, wake, k>>

\* One round of exit_current.
Exit(c) ==
    LET t == stack[c]
    IN
    /\ Executing(c) /\ pend[t] = NoThread
    /\ \/ k[t] = "body" /\ t \in Mortal
       \/ k[t] = "exit"
    /\ EnterSchedule(c, "Exited", "exithalt")
    /\ UNCHANGED <<table, percpu, stack, next, probe, from, wake, pend>>

-----------------------------------------------------------------------------
(* Interrupts *)

\* The timer: preempt() from the handler, whatever the thread was doing.
Tick(c) ==
    /\ Interruptible(c)
    /\ EnterSchedule(c, "Ready", Awake(k[stack[c]]))
    /\ UNCHANGED <<table, percpu, stack, next, probe, from, wake, pend>>

\* The wake IPI: no effect but ending a hlt.
WakeIpi(c) ==
    /\ Executing(c) /\ k[stack[c]] \in Halts
    /\ k' = [k EXCEPT ![stack[c]] = Awake(k[stack[c]])]
    /\ UNCHANGED <<table, percpu, stack, phase, out, next, probe, from, wake, pend>>

\* Mutant: unpark does not claim a handoff in progress.
NoHandoffs(u) == {}

\* claim_parked_handoff: the slots whose tagged word names u.
ParkedHandoffs(u) == {o \in Cpu : handoff[o] = [id |-> u, tag |-> TRUE]}

\* The queue unpark pushes to: an idle thread's own, else the local one.
HomeQueue(c, u) == IF u \in Idle THEN u ELSE c

\* unpark(u) under SCHED, from the timer's or the block device's handler on c.
Unpark(c, u) ==
    /\ Interruptible(c)
    /\ u < nextId
    /\ k' = [k EXCEPT ![stack[c]] = Awake(k[stack[c]])]
    /\ \/ /\ u \notin threads
          /\ UNCHANGED <<parked, pending, state, handoff, wake>>
       \/ /\ u \in threads /\ ~parked[u]
          /\ pending' = [pending EXCEPT ![u] = TRUE]
          /\ UNCHANGED <<parked, state, handoff, wake>>
       \/ /\ u \in threads /\ parked[u]
          /\ parked' = [parked EXCEPT ![u] = FALSE]
          /\ state' = [state EXCEPT ![u] = "Ready"]
          /\ \/ /\ is_current_anywhere(u)
                /\ UNCHANGED <<handoff, wake>>
             \/ /\ ~is_current_anywhere(u)
                /\ \E o \in ParkedHandoffs(u) :
                     handoff' = [handoff EXCEPT ![o] = [id |-> u, tag |-> FALSE]]
                /\ UNCHANGED wake
             \/ /\ ~is_current_anywhere(u)
                /\ ParkedHandoffs(u) = {}
                /\ wake' = [wake EXCEPT ![c] = u]
                /\ UNCHANGED handoff
          /\ UNCHANGED pending
    /\ UNCHANGED <<threads, nextId, reapable, slot, ctx, queue, current, stack, phase,
                   out, next, probe, from, pend>>

\* The push of that unpark.
UnparkPush(c) ==
    LET u == wake[c]
        o == HomeQueue(c, u)
    IN
    /\ u # NoThread
    /\ queue' = [queue EXCEPT ![o] = push(queue[o], u, Prio[u])]
    /\ wake' = [wake EXCEPT ![c] = NoThread]
    /\ UNCHANGED <<table, current, handoff, stack, phase, out, next, probe, from, k, pend>>

-----------------------------------------------------------------------------
\* schedule() and the code around it that runs to completion once started.
Progress(c) ==
    \/ TakeLocal(c) \/ StealFrom(c) \/ TakeLast(c)
    \/ Commit(c) \/ Switch(c) \/ Land(c) \/ Reap(c)
    \/ ParkCheck(c) \/ SpawnPush(c) \/ UnparkPush(c)
    \/ IdleLoop(c)

ThreadStep(c) == Park(c) \/ Yield(c) \/ SpawnInsert(c) \/ Exit(c)

Interrupt(c) == Tick(c) \/ WakeIpi(c) \/ \E u \in Parkers : Unpark(c, u)

Next == \E c \in Cpu : Progress(c) \/ ThreadStep(c) \/ Interrupt(c)

Spec == Init /\ [][Next]_vars

\* What a started thread of control may count on: code with no wait in it
\* finishes, and the periodic timer of every CPU is delivered when unmasked.
Fairness ==
    \A c \in Cpu :
        /\ WF_vars(Progress(c))
        /\ WF_vars(k[stack[c]] = "parkagain" /\ Park(c))
        /\ WF_vars(k[stack[c]] = "exit" /\ Exit(c))
        /\ SF_vars(Tick(c))

FairSpec == Spec /\ Fairness

-----------------------------------------------------------------------------
(* Properties *)

\* The table, the per-CPU slots and the machine hold what the code's types and
\* its "no thread" sentinels allow; every CPU has a current thread.
TypeOK ==
    /\ threads \subseteq Thread /\ nextId \in NumCpus..MaxThreads
    /\ reapable \subseteq Thread
    /\ slot \in [Thread -> Nat]
    /\ state \in [Thread -> ThreadStates]
    /\ parked \in [Thread -> BOOLEAN] /\ pending \in [Thread -> BOOLEAN]
    /\ ctx \in [Thread -> Thread \cup {NoThread}]
    /\ queue \in [Cpu -> [Band -> Seq(Thread)]]
    /\ current \in [Cpu -> Thread]
    /\ handoff \in [Cpu -> [id : Thread \cup {NoThread}, tag : BOOLEAN]]
    /\ stack \in [Cpu -> Thread]
    /\ phase \in [Cpu -> Phases]
    /\ out \in [Cpu -> ThreadStates]
    /\ next \in [Cpu -> Thread \cup {NoThread}]
    /\ probe \in [Cpu -> SUBSET Cpu]
    /\ from \in [Cpu -> Nat]
    /\ wake \in [Cpu -> Thread \cup {NoThread}]
    /\ k \in [Thread -> Continuations]
    /\ pend \in [Thread -> Thread \cup {NoThread}]

Queued(t) == \E c \in Cpu : contains(queue[c], t)

\* "A thread is never runnable and running at once" (module docs of sched.rs):
\* no two CPUs execute on one stack, and a CPU executes the thread its current
\* slot names except between the table section and the switch.
OneCpuPerStack ==
    /\ \A c, d \in Cpu : stack[c] = stack[d] => c = d
    /\ \A c \in Cpu : phase[c] # "switch" => current[c] = stack[c]

\* A thread in a run queue may be dispatched by any CPU at once, so it is there
\* exactly once, is on no CPU, is not parked, and its own context is saved.
QueuedIsDispatchable ==
    /\ \A c, d \in Cpu : \A a, b \in Band :
        \A i \in 1..Len(queue[c][a]), j \in 1..Len(queue[d][b]) :
            queue[c][a][i] = queue[d][b][j] => c = d /\ a = b /\ i = j
    /\ \A t \in Thread : Queued(t) =>
        /\ ~parked[t] /\ ctx[t] = t
        /\ \A c \in Cpu : stack[c] # t /\ next[c] # t

\* The assertions of schedule: the queue never names a dead thread, a thread
\* that never ran, and the running thread is in the table.
ScheduleAsserts ==
    \A c \in Cpu : phase[c] = "commit" =>
        next[c] \in threads /\ ctx[next[c]] # NoThread /\ current[c] \in threads

\* An idle thread executes on the stack its CPU booted on, so neither a steal
\* nor a wake from elsewhere ever carries it to another CPU or its queue.
IdleStaysHome ==
    \A c \in Cpu, t \in Idle :
        t # c => stack[c] # t /\ next[c] # t /\ ~contains(queue[c], t)

\* Somebody will put t back in front of a CPU: it executes, waits in a queue,
\* has been taken from one, or an unfinished handoff, wake or spawn names it.
Held(t) ==
    \/ Queued(t)
    \/ \E c \in Cpu : stack[c] = t \/ next[c] = t \/ wake[c] = t \/ handoff[c].id = t
    \/ \E s \in Thread : pend[s] = t

\* No thread is stranded: a thread that neither waits for a wake nor has exited
\* is always held by someone (park, unpark, publish_handoff and steal agree on
\* who queues it, whatever their order).
NoneStranded ==
    \A t \in threads : ~parked[t] /\ state[t] # "Exited" => Held(t)

\* Where a thread is between park's decision and its return.
ParkLoop == {"parkcheck", "parkhalt", "parkwoken", "parkagain"}

\* unpark is never lost: a thread that was woken before or during a park
\* returns from it.
WakeReturns ==
    \A t \in Parkers :
        (k[t] \in ParkLoop /\ (~parked[t] \/ pending[t])) ~> (k[t] = "body")

\* Queued work is eventually dispatched: among threads of one priority neither
\* the LIFO end thieves take from nor preemption starves one.
QueuedRuns ==
    \A t \in Thread \ Idle : Queued(t) ~> (\E c \in Cpu : stack[c] = t)

\* Between schedule's section under SCHED and its context switch the CPU still
\* stands on the outgoing stack and holds from_slot: reap, on any CPU, neither
\* frees that thread nor moves its entry.
OutgoingInPlace ==
    \A c \in Cpu : phase[c] = "switch" => stack[c] \in threads /\ from[c] = slot[stack[c]]

\* The stack and the address space of a thread that exited are released.
ExitedIsReaped == \A t \in Thread : (state[t] = "Exited") ~> (t \notin threads)
=============================================================================
