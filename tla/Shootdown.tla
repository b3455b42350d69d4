------------------------------ MODULE Shootdown -----------------------------
(***************************************************************************)
(* crates/qunix-hal-x86_64/src/tlb.rs, with what it runs between: unmap    *)
(* and unmap_and_prune of paging.rs, the IrqSpinLock of qunix-sync, the    *)
(* per-CPU blocks and online mask of percpu.rs, the IPIs of apic.rs, and   *)
(* application processors coming up as in kernel/src/smp.rs.  Threads move *)
(* between processors whenever interrupts are enabled, as the scheduler's  *)
(* timer tick lets them.                                                   *)
(***************************************************************************)
EXTENDS Integers

CONSTANTS
    CPUs,
    Started,      \* processors online from the start, the bootstrap one included
    Threads,
    Leaf,         \* Leaf[t]: the page t unmaps, or NoEntry
    Table,        \* Table[t]: the page table above it that t prunes, or NoEntry
    Holders,      \* threads that do their work inside the lock
    NoEntry, Idle, NoCpu,
    MaxPreempts   \* bound on involuntary switches away from a thread

ASSUME ShootdownConstants ==
    /\ Started \subseteq CPUs /\ Started # {} /\ Holders \subseteq Threads /\ MaxPreempts \in Nat
    /\ Idle \notin Threads /\ NoCpu \notin CPUs

Entries == ({Leaf[t] : t \in Threads} \cup {Table[t] : t \in Threads}) \ {NoEntry}
ALL == "TARGET_ALL"

VARIABLES
    stage,        \* how far each processor's bring-up is
    on,           \* the thread each processor runs, or Idle
    th,           \* each thread's place: program counter, IF and locals
    entry,        \* page-table entries: "mapped", "cleared" or "free"
    tlb,          \* entries each processor has cached
    IN_PROGRESS, TARGET, PENDING,
    ipi,          \* processors with the shootdown vector pending
    lock,         \* one IrqSpinLock: [locked, owner]
    depth,        \* LOCK_DEPTH
    preempts,
    owed,         \* history: processors the current shootdown still has to reach
    gap           \* history: processors one of the three windows below has hit

tlbVars == <<stage, on, th, entry, tlb, IN_PROGRESS, TARGET, PENDING, ipi, lock, depth, preempts, owed, gap>>
mem == <<entry, tlb, gap>>
prot == <<IN_PROGRESS, TARGET, PENDING, ipi, owed>>
cpus == <<stage, on, preempts>>
locks == <<lock, depth>>

TlbInit ==
    /\ stage = [c \in CPUs |-> IF c \in Started THEN "online" ELSE "pen"]
    /\ on = [c \in CPUs |-> Idle]
    /\ th = [t \in Threads |-> [pc |-> "start", irq |-> TRUE, at |-> NoCpu, remote |-> {},
                                ent |-> Leaf[t], svc |-> "none", svcCpu |-> NoCpu]]
    /\ entry = [x \in Entries |-> "mapped"] /\ tlb = [c \in CPUs |-> {}]
    /\ IN_PROGRESS = FALSE /\ TARGET = ALL /\ PENDING = {} /\ ipi = {}
    /\ lock = [locked |-> FALSE, owner |-> NoCpu] /\ depth = [c \in CPUs |-> 0]
    /\ preempts = 0 /\ owed = {} /\ gap = {}

\* The threads' processors.
online_mask == {c \in CPUs : stage[c] = "online"}
Schedules(c) == stage[c] \in {"open", "online"}
At(t, c, pc) == on[c] = t /\ th[t].pc = pc /\ th[t].svc = "none"
Step(t, pc) == th' = [th EXCEPT ![t].pc = pc]
IrqOn(c) == Schedules(c) /\ (on[c] # Idle => th[on[c]].irq)
-----------------------------------------------------------------------------
\* ap_entry.  Everything before interrupts::enable (its block, descriptor tables, local
\* APIC and idle context) shows to no other processor and is one step; mark_online, the
\* ONLINE count and idle_loop are another.
After(s) == IF s = "pen" THEN "open" ELSE "online"
Bringup(c) ==
    /\ stage[c] # "online" /\ on[c] = Idle
    /\ stage' = [stage EXCEPT ![c] = After(stage[c])]
    /\ UNCHANGED <<on, preempts, th, mem, prot, locks>>

\* A processor without a thread takes a ready one, stealing included; a tick takes
\* the processor from a thread that has interrupts enabled and gives it to another.
Ready(t) == th[t].pc # "done" /\ \A c \in CPUs : on[c] # t
Dispatch(c, t) ==
    /\ Schedules(c) /\ on[c] = Idle /\ Ready(t)
    /\ on' = [on EXCEPT ![c] = t]
    /\ UNCHANGED <<stage, preempts, th, mem, prot, locks>>
Preempt(c, t) ==
    /\ IrqOn(c) /\ on[c] # Idle /\ preempts < MaxPreempts /\ (t # Idle => Ready(t))
    /\ on' = [on EXCEPT ![c] = t] /\ preempts' = preempts + 1
    /\ UNCHANGED <<stage, th, mem, prot, locks>>

\* Walks cache what they find: everything mapped at once, the worst case for
\* staleness.  The third window: a processor that runs threads before mark_online is
\* in nobody's mask.
Access(c) ==
    LET found == {x \in Entries : entry[x] = "mapped"} IN
    /\ Schedules(c) /\ ~(found \subseteq tlb[c])
    /\ tlb' = [tlb EXCEPT ![c] = @ \cup found]
    /\ gap' = IF stage[c] = "online" THEN gap ELSE gap \cup {c}
    /\ UNCHANGED <<entry, cpus, th, prot, locks>>

\* invalidate on processor c, with the history of whom the shootdown reached.
Flushed(c, target) == [tlb EXCEPT ![c] = IF target = ALL THEN {} ELSE @ \ {target}]

\* service_pending with interrupts masked, in one step: the bit of a processor is
\* only set while the initiator waits for it, so TARGET stands still meanwhile.
ServiceNow(c) ==
    IF c \in PENDING
    THEN /\ tlb' = Flushed(c, TARGET) /\ PENDING' = PENDING \ {c} /\ owed' = owed \ {c}
    ELSE UNCHANGED <<tlb, PENDING, owed>>

shootdown_handler(c) ==
    /\ c \in ipi /\ IrqOn(c)
    /\ ipi' = ipi \ {c}
    /\ ServiceNow(c)
    /\ UNCHANGED <<cpus, th, entry, gap, IN_PROGRESS, TARGET, locks>>

\* service_pending from a wait loop.  With interrupts enabled an IPI or a tick may
\* fall between its three steps; the processor it is about was read in the first.
ServiceBegin(t, c) ==
    IF th[t].irq
    THEN /\ th' = IF c \in PENDING THEN [th EXCEPT ![t].svc = "found", ![t].svcCpu = c] ELSE th
         /\ UNCHANGED <<tlb, PENDING, owed>>
    ELSE ServiceNow(c) /\ UNCHANGED th
ServiceInvalidate(t, c) ==
    /\ on[c] = t /\ th[t].svc = "found"
    /\ tlb' = Flushed(c, TARGET) /\ owed' = owed \ {c}
    /\ th' = [th EXCEPT ![t].svc = "flushed"]
    /\ UNCHANGED <<entry, gap, cpus, IN_PROGRESS, TARGET, PENDING, ipi, locks>>
\* The second window: the bit cleared belongs to a shootdown this processor has not
\* served, because a handler answered first or the thread has moved.
ServiceAck(t, c) ==
    /\ on[c] = t /\ th[t].svc = "flushed"
    /\ LET k == th[t].svcCpu
       IN  /\ gap' = IF k \in PENDING \cap owed THEN gap \cup {k} ELSE gap
           /\ PENDING' = PENDING \ {k}
           /\ th' = [th EXCEPT ![t].svc = "none", ![t].svcCpu = NoCpu]
    /\ UNCHANGED <<entry, tlb, cpus, IN_PROGRESS, TARGET, ipi, owed, locks>>
-----------------------------------------------------------------------------
\* IrqSpinLock::lock and the drop of its guard.
LockBegin(t, c) ==
    /\ At(t, c, "start")
    /\ th' = IF t \in Holders THEN [th EXCEPT ![t].pc = "lock", ![t].irq = FALSE]
             ELSE [th EXCEPT ![t].pc = "clear"]
    /\ UNCHANGED <<cpus, mem, prot, locks>>
\* Mutant: a processor waiting for the lock does not answer.
service_nothing(t, c) == UNCHANGED <<th, tlb, PENDING, owed>>
service_while_waiting(t, c) == ServiceBegin(t, c)
LockSpin(t, c) ==
    /\ At(t, c, "lock") /\ lock.locked /\ c \in PENDING
    /\ service_while_waiting(t, c)
    /\ UNCHANGED <<cpus, entry, gap, IN_PROGRESS, TARGET, ipi, locks>>
TryLock(t, c) ==
    /\ At(t, c, "lock") /\ ~lock.locked
    /\ lock' = [lock EXCEPT !.locked = TRUE]
    /\ Step(t, "owner")
    /\ UNCHANGED <<cpus, mem, prot, depth>>
EnteredLock(t, c) ==
    /\ At(t, c, "owner")
    /\ lock' = [lock EXCEPT !.owner = c] /\ depth' = [depth EXCEPT ![c] = @ + 1]
    /\ Step(t, IF Leaf[t] = NoEntry THEN "drop" ELSE "clear")
    /\ UNCHANGED <<cpus, mem, prot>>
GuardDrop(t, c) ==
    /\ At(t, c, "drop")
    /\ lock' = [lock EXCEPT !.owner = NoCpu] /\ depth' = [depth EXCEPT ![c] = @ - 1]
    /\ Step(t, "release")
    /\ UNCHANGED <<cpus, mem, prot>>
Release(t, c) ==
    /\ At(t, c, "release")
    /\ lock' = [lock EXCEPT !.locked = FALSE]
    /\ th' = [th EXCEPT ![t].pc = "done", ![t].irq = TRUE]
    /\ on' = [on EXCEPT ![c] = Idle]
    /\ UNCHANGED <<stage, preempts, mem, prot, depth>>
-----------------------------------------------------------------------------
\* unmap, and unmap_and_prune when t has a table to prune: clear the entry, flush
\* here, shoot down everywhere else, hand the frame back.
ClearEntry(t, c) ==
    /\ At(t, c, "clear")
    /\ entry' = [entry EXCEPT ![th[t].ent] = "cleared"]
    /\ Step(t, "flush")
    /\ UNCHANGED <<cpus, tlb, gap, prot, locks>>
TargetOf(t) == IF th[t].ent = Table[t] THEN ALL ELSE th[t].ent
FlushLocal(t, c) ==
    /\ At(t, c, "flush")
    /\ tlb' = Flushed(c, TargetOf(t))
    /\ th' = [th EXCEPT ![t].pc = "mask", ![t].at = c]
    /\ UNCHANGED <<cpus, entry, gap, prot, locks>>

remote_mask(online, self_id) == online \ {self_id}
\* The first window: this processor is excluded, and the flush was another's.
ReadMask(t, c) ==
    /\ At(t, c, "mask")
    /\ LET remote == remote_mask(online_mask, c)
       IN  th' = [th EXCEPT ![t].pc = IF remote = {} THEN "free" ELSE "acquire",
                            ![t].remote = remote]
    /\ gap' = IF th[t].at = c THEN gap ELSE gap \cup {c}
    /\ UNCHANGED <<cpus, entry, tlb, prot, locks>>
Acquire(t, c) ==
    /\ At(t, c, "acquire") /\ ~IN_PROGRESS
    /\ IN_PROGRESS' = TRUE /\ Step(t, "target")
    /\ UNCHANGED <<cpus, mem, TARGET, PENDING, ipi, owed, locks>>
AcquireSpin(t, c) ==
    /\ At(t, c, "acquire") /\ IN_PROGRESS /\ c \in PENDING
    /\ ServiceBegin(t, c)
    /\ UNCHANGED <<cpus, entry, gap, IN_PROGRESS, TARGET, ipi, locks>>
StoreTarget(t, c) ==
    /\ At(t, c, "target")
    /\ TARGET' = TargetOf(t) /\ Step(t, "pending")
    /\ UNCHANGED <<cpus, mem, IN_PROGRESS, PENDING, ipi, owed, locks>>
StorePending(t, c) ==
    /\ At(t, c, "pending")
    /\ PENDING' = th[t].remote /\ owed' = th[t].remote /\ Step(t, "ipi")
    /\ UNCHANGED <<cpus, mem, IN_PROGRESS, TARGET, ipi, locks>>
\* One sent to the holding pen stays pending there and is taken at interrupts::enable,
\* where it finds no bit for a processor that is in nobody's mask: it is left out.
send_ipi_all_excluding_self(t, c) ==
    /\ At(t, c, "ipi")
    /\ ipi' = ipi \cup {k \in CPUs \ {c} : stage[k] # "pen"}
    /\ Step(t, "wait")
    /\ UNCHANGED <<cpus, mem, IN_PROGRESS, TARGET, PENDING, owed, locks>>
WaitSpin(t, c) ==
    /\ At(t, c, "wait") /\ c \in PENDING
    /\ ServiceBegin(t, c)
    /\ UNCHANGED <<cpus, entry, gap, IN_PROGRESS, TARGET, ipi, locks>>
\* Mutant: the initiator does not wait for the others.
FinishAtOnce(t, c) ==
    /\ At(t, c, "wait")
    /\ IN_PROGRESS' = FALSE /\ Step(t, "free")
    /\ UNCHANGED <<cpus, mem, TARGET, PENDING, ipi, owed, locks>>
EndShootdown(t, c) ==
    /\ At(t, c, "wait") /\ PENDING = {}
    /\ IN_PROGRESS' = FALSE /\ Step(t, "free")
    /\ UNCHANGED <<cpus, mem, TARGET, PENDING, ipi, owed, locks>>

\* The frame is the caller's again; a prune goes on with the emptied table.
Free(t, c) ==
    /\ At(t, c, "free")
    /\ entry' = [entry EXCEPT ![th[t].ent] = "free"]
    /\ LET more == Table[t] # NoEntry /\ th[t].ent # Table[t]
           pc == IF more THEN "clear" ELSE IF t \in Holders THEN "drop" ELSE "done"
       IN  /\ th' = [th EXCEPT ![t].pc = pc, ![t].ent = IF more THEN Table[t] ELSE @,
                               ![t].at = NoCpu, ![t].remote = {}]
           /\ on' = IF pc = "done" THEN [on EXCEPT ![c] = Idle] ELSE on
    /\ UNCHANGED <<stage, preempts, tlb, gap, prot, locks>>

ThreadStep(t, c) ==
    /\ on[c] = t
    /\ \/ LockBegin(t, c) \/ LockSpin(t, c) \/ TryLock(t, c) \/ EnteredLock(t, c)
       \/ GuardDrop(t, c) \/ Release(t, c)
       \/ ClearEntry(t, c) \/ FlushLocal(t, c) \/ ReadMask(t, c)
       \/ Acquire(t, c) \/ AcquireSpin(t, c) \/ StoreTarget(t, c) \/ StorePending(t, c)
       \/ send_ipi_all_excluding_self(t, c) \/ WaitSpin(t, c) \/ EndShootdown(t, c) \/ Free(t, c)
       \/ ServiceInvalidate(t, c) \/ ServiceAck(t, c)

\* The one circle of waits the code leaves open: a thread was preempted while it owned
\* IN_PROGRESS, and every processor is taken by a thread that spins with interrupts
\* masked, for its turn in shootdown or for the lock of one that does.
Inside == {t \in Threads : th[t].pc \in {"target", "pending", "ipi", "wait"}}
OwnerStarved ==
    /\ \E t \in Inside : \A c \in CPUs : on[c] # t
    /\ \A c \in CPUs : on[c] # Idle /\ ~th[on[c]].irq /\ th[on[c]].pc \in {"lock", "acquire"}

\* Every thread has finished and every processor is up, or nothing can move.
Quiet == /\ OwnerStarved \/ \A t \in Threads : th[t].pc = "done"
         /\ OwnerStarved \/ \A c \in CPUs : stage[c] = "online"
         /\ UNCHANGED tlbVars

TlbNext ==
    \/ \E c \in CPUs : Bringup(c) \/ Access(c) \/ shootdown_handler(c)
    \/ \E c \in CPUs, t \in Threads : Dispatch(c, t) \/ ThreadStep(t, c)
    \/ \E c \in CPUs, t \in Threads \cup {Idle} : Preempt(c, t)
    \/ Quiet

\* Processors execute; pending interrupts are delivered while enabled; the scheduler
\* gives a ready thread an idle processor.
TlbFairness ==
    /\ \A c \in CPUs : WF_tlbVars(Bringup(c) \/ shootdown_handler(c))
    /\ \A t \in Threads : WF_tlbVars(\E c \in CPUs : ThreadStep(t, c) \/ Dispatch(c, t))
TlbSpec == TlbInit /\ [][TlbNext]_tlbVars /\ TlbFairness
-----------------------------------------------------------------------------
\* When unmap or unmap_and_prune has handed a frame back, no processor still has a
\* translation through it, unless one of the three windows was hit on that
\* processor: its thread moved there between its own flush and reading the mask, its
\* bit was cleared for a shootdown it had not served, or it ran threads before
\* mark_online (tlb::shootdown, paging::unmap, smp::ap_entry).
NoStaleOutsideWindows ==
    \A c \in CPUs \ gap, x \in Entries : entry[x] = "free" => x \notin tlb[c]

\* As NoStaleOutsideWindows without the exceptions, which is what unmap's
\* documentation promises of every online processor.
NoStaleTranslation ==
    \A c \in CPUs, x \in Entries : entry[x] = "free" => x \notin tlb[c]

\* Only the shootdown in progress owns TARGET and PENDING: two initiators never
\* store at once and bits are only outstanding while one of them waits, whatever
\* thread was preempted in the middle (IN_PROGRESS of tlb::shootdown).
OneShootdown ==
    /\ \A t, u \in Inside : t = u
    /\ IN_PROGRESS <=> Inside # {}
    /\ PENDING # {} => \E t \in Inside : th[t].pc \in {"ipi", "wait"} /\ PENDING \subseteq th[t].remote

\* Every shootdown and every lock wait ends: processors spinning with interrupts
\* masked, for the lock or for their turn, still answer (service_while_waiting and
\* the service_pending calls in both loops of shootdown).  The only way not to end is
\* the circle OwnerStarved.
EveryoneReturns == <>(OwnerStarved \/ \A t \in Threads : th[t].pc = "done")
=============================================================================
