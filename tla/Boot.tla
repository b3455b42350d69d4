-------------------------------- MODULE Boot --------------------------------
(***************************************************************************)
(* Bringing up the processors: kmain on the bootstrap processor, smp::     *)
(* start_all and wait_for_all, ap_entry on the others, percpu's install    *)
(* and mark_online, and the interrupts that arrive meanwhile.  What a step *)
(* uses and what it provides are sets of facilities; a step or a handler   *)
(* that uses one that is not there leaves a trace in missing.              *)
(***************************************************************************)
EXTENDS Integers, FiniteSets

CONSTANTS
    CPUs, Bsp,
    MAX_CPUS,     \* width of the online mask and of the tables indexed by id
    Firmwares,    \* what firmware may report: [answered, apic, id, starts]
    Budget,       \* polls of wait_for_all
    MaxNaps       \* times a thread sleeps or spawns another during bring-up

\* The processors are finitely many, and no two have one APIC id.
ASSUME BootAssumption ==
    /\ IsFiniteSet(CPUs) /\ Bsp \in CPUs /\ MAX_CPUS \in Nat
    /\ \A f \in Firmwares : /\ f.apic \in [CPUs -> Nat]
                            /\ \A c, d \in CPUs : f.apic[c] = f.apic[d] => c = d

VARIABLES
    firmware,     \* the processors as reported, and those that really start
    at,           \* the step each processor takes next
    have,         \* facilities of each processor
    shared,       \* facilities of the whole machine
    apic_to_cpu, blocks, online_mask, idle_installed, installed, ONLINE,
    aside,        \* processors whose bring-up a switch has set aside
    queued,       \* runnable threads
    sleepers,     \* threads parked until a timer expires
    naps,         \* sleeps and spawns so far
    posted,       \* interrupts accepted by a processor's APIC and not yet taken
    left,         \* polls left to wait_for_all
    report,       \* what wait_for_all returned
    panicked,
    missing       \* <<step, facility>>: used before it was there

bootVars == <<firmware, at, have, shared, apic_to_cpu, blocks, online_mask, idle_installed,
              installed, ONLINE, aside, queued, sleepers, naps, posted, left, report, panicked, missing>>

Aps == CPUs \ {Bsp}
None == -1
Ids == 0..(MAX_CPUS - 1)
cpu_id(c) == IF c = Bsp THEN 0 ELSE firmware.id[c]

\* The order of kmain and of ap_entry: install_bsp and install_ap end in finish_install,
\* whose own order is name, gs, gdt, idt, publish.
AfterBsp == [serial |-> "name", name |-> "gs", gs |-> "gdt", gdt |-> "idt", idt |-> "publish",
             publish |-> "frames", frames |-> "heap", heap |-> "root", root |-> "sched",
             sched |-> "greet", greet |-> "yield1", yield1 |-> "vectors",
             vectors |-> "map_lapic", map_lapic |-> "apic", apic |-> "syscall",
             syscall |-> "timer", timer |-> "sti", sti |-> "online", online |-> "preempt",
             preempt |-> "init", init |-> "yield2", yield2 |-> "start", start |-> "wait",
             wait |-> "idle", idle |-> "idle"]
AfterApMasked == [alloc |-> "name", name |-> "gs", gs |-> "gdt", gdt |-> "idt", idt |-> "publish",
                  publish |-> "apic", apic |-> "vectors", vectors |-> "syscall",
                  syscall |-> "sched", sched |-> "timer", timer |-> "online",
                  online |-> "sti", sti |-> "count", count |-> "idle", idle |-> "idle"]
AfterAp == [alloc |-> "name", name |-> "gs", gs |-> "gdt", gdt |-> "idt", idt |-> "publish",
            publish |-> "apic", apic |-> "vectors", vectors |-> "syscall",
            syscall |-> "sched", sched |-> "timer", timer |-> "sti",
            sti |-> "online", online |-> "count", count |-> "idle", idle |-> "idle"]
After(c) == IF c = Bsp THEN AfterBsp[at[c]] ELSE AfterAp[at[c]]

\* What a step reaches through: the block behind GS, the allocators, the mapped APIC page,
\* the recorded kernel root, the processor's own idle thread.
Uses(s) ==
    CASE s \in {"gdt", "online"} -> {"gs"}
      [] s = "idt"       -> {"gs", "gdt"}
      [] s = "vectors"   -> {"gs", "idt"}
      [] s = "heap"      -> {"frames"}
      [] s = "alloc"     -> {"heap"}
      [] s = "map_lapic" -> {"frames"}
      [] s = "apic"      -> {"lapic mapped"}
      [] s = "syscall"   -> {"gdt"}
      [] s = "timer"     -> {"apic"}
      [] s = "sched"     -> {"gs", "heap"}
      [] s = "greet"     -> {"gs", "heap", "frames", "idle thread"}
      [] s = "init"      -> {"gs", "heap", "frames", "root", "idle thread"}
      [] s = "start"     -> {"heap", "lapic mapped"}
      [] s \in {"yield1", "yield2", "idle"} -> {"gs", "idle thread"}
      [] OTHER -> {}
Missing(c, s, uses) == {<<s, u>> : u \in uses \ (have[c] \cup shared)}

InitBoot(f) ==
    /\ firmware = f
    /\ at = [c \in CPUs |-> IF c = Bsp THEN "serial" ELSE "pen"]
    /\ have = [c \in CPUs |-> {}] /\ shared = {}
    /\ apic_to_cpu = [a \in Ids |-> None] /\ blocks = [i \in Ids |-> None]
    /\ online_mask = {} /\ idle_installed = {} /\ installed = 0 /\ ONLINE = 0
    /\ aside = {} /\ queued = 0 /\ sleepers = 0 /\ naps = 0 /\ posted = [c \in CPUs |-> {}]
    /\ left = Budget /\ report = "none" /\ panicked = FALSE /\ missing = {}

---------------------------------------------------------------------------
Stands(c, s) == ~panicked /\ at[c] = s /\ c \notin aside
Proceed(c) ==
    /\ at' = [at EXCEPT ![c] = After(c)]
    /\ missing' = missing \cup Missing(c, at[c], Uses(at[c]))
    /\ UNCHANGED <<firmware, panicked>>
Panic == panicked' = TRUE /\ UNCHANGED <<firmware, at, have, shared, apic_to_cpu, blocks,
    online_mask, idle_installed, installed, ONLINE, aside, queued, sleepers, naps, posted, left, report, missing>>
KeepTables == UNCHANGED <<apic_to_cpu, blocks, online_mask, idle_installed, installed, ONLINE>>
KeepThreads == UNCHANGED <<aside, queued, sleepers, naps, posted>>
KeepWait == UNCHANGED <<left, report>>

\* Steps that only provide a facility, to their processor or to the machine.
Provide(c, s, local, global) ==
    /\ Stands(c, s)
    /\ have' = [have EXCEPT ![c] = @ \cup local]
    /\ shared' = shared \cup global
    /\ Proceed(c) /\ KeepTables /\ KeepThreads /\ KeepWait
InitSerial == Provide(Bsp, "serial", {}, {"console"})
InitFrames == Provide(Bsp, "frames", {}, {"frames"})
InitHeap == Provide(Bsp, "heap", {}, {"heap"})
RecordKernelRoot == Provide(Bsp, "root", {}, {"root"})
AllocBlock(c) == Provide(c, "alloc", {}, {})
PointGs(c) == Provide(c, "gs", {"gs"}, {})
LoadGdt(c) == Provide(c, "gdt", {"gdt"}, {})
LoadIdt(c) == Provide(c, "idt", {"idt"}, {})
InstallLocalVectors(c) == Provide(c, "vectors", {"vectors"}, {})
MapLapic == Provide(Bsp, "map_lapic", {}, {"lapic mapped"})
EnableApic(c) == Provide(c, "apic", {"apic"}, {})
InitSyscall(c) == Provide(c, "syscall", {"syscall"}, {})
StartTimer(c) == Provide(c, "timer", {"timer"}, {})
EnableInterrupts(c) == Provide(c, "sti", {"irq"}, {})
EnablePreemption == Provide(Bsp, "preempt", {}, {"preemption"})

\* finish_install: the id is published under the APIC id first, the block last.
Name(c) ==
    /\ Stands(c, "name")
    /\ IF firmware.apic[c] >= MAX_CPUS THEN Panic
       ELSE /\ apic_to_cpu' = [apic_to_cpu EXCEPT ![firmware.apic[c]] = cpu_id(c)]
            /\ Proceed(c) /\ KeepThreads /\ KeepWait
            /\ UNCHANGED <<have, shared, blocks, online_mask, idle_installed, installed, ONLINE>>
Publish(c) ==
    /\ Stands(c, "publish")
    /\ IF cpu_id(c) >= MAX_CPUS THEN Panic
       ELSE /\ blocks' = [blocks EXCEPT ![cpu_id(c)] = c]
            /\ installed' = installed + 1
            /\ Proceed(c) /\ KeepThreads /\ KeepWait
            /\ UNCHANGED <<have, shared, apic_to_cpu, online_mask, idle_installed, ONLINE>>

\* sched::init adopts the running context, once per id.
AdoptIdleOnce(c) ==
    /\ Stands(c, "sched")
    /\ have' = [have EXCEPT ![c] = IF idle_installed # {} THEN @ ELSE @ \cup {"idle thread"}]
    /\ idle_installed' = idle_installed \cup {cpu_id(c)}
    /\ Proceed(c) /\ KeepThreads /\ KeepWait
    /\ UNCHANGED <<shared, apic_to_cpu, blocks, online_mask, installed, ONLINE>>
AdoptIdle(c) ==
    /\ Stands(c, "sched")
    /\ have' = [have EXCEPT ![c] = IF cpu_id(c) \in idle_installed THEN @ ELSE @ \cup {"idle thread"}]
    /\ idle_installed' = idle_installed \cup {cpu_id(c)}
    /\ Proceed(c) /\ KeepThreads /\ KeepWait
    /\ UNCHANGED <<shared, apic_to_cpu, blocks, online_mask, installed, ONLINE>>

\* Spawning the greeter and the init process; the second may find nothing to load.
Spawn ==
    /\ \E s \in {"greet", "init"} : Stands(Bsp, s)
    /\ queued' \in {queued + 1} \cup (IF at[Bsp] = "init" THEN {queued} ELSE {})
    /\ Proceed(Bsp) /\ KeepTables /\ KeepWait /\ UNCHANGED <<have, shared, aside, sleepers, naps, posted>>

\* yield_now: a queued thread takes the processor; the boot thread is behind every other.
Yield ==
    /\ \E s \in {"yield1", "yield2"} : Stands(Bsp, s)
    /\ IF queued > 0 THEN queued' = queued - 1 /\ aside' = aside \cup {Bsp} ELSE UNCHANGED <<queued, aside>>
    /\ Proceed(Bsp) /\ KeepTables /\ KeepWait /\ UNCHANGED <<have, shared, sleepers, naps, posted>>

\* percpu::mark_online and the count the bootstrap processor waits for.
MarkOnline(c) ==
    /\ Stands(c, "online")
    /\ online_mask' = online_mask \cup {cpu_id(c)}
    /\ Proceed(c) /\ KeepThreads /\ KeepWait
    /\ UNCHANGED <<have, shared, apic_to_cpu, blocks, idle_installed, installed, ONLINE>>
Count(c) ==
    /\ Stands(c, "count")
    /\ ONLINE' = ONLINE + 1
    /\ Proceed(c) /\ KeepThreads /\ KeepWait
    /\ UNCHANGED <<have, shared, apic_to_cpu, blocks, online_mask, idle_installed, installed>>

\* smp::start_all: every processor firmware lists but this one; some never arrive.
StartAll ==
    /\ Stands(Bsp, "start")
    /\ at' = [c \in CPUs |-> IF c = Bsp THEN After(Bsp)
                             ELSE IF firmware.answered /\ c \in firmware.starts THEN "alloc" ELSE at[c]]
    /\ missing' = missing \cup Missing(Bsp, "start", Uses("start"))
    /\ KeepTables /\ KeepThreads /\ KeepWait /\ UNCHANGED <<firmware, have, shared, panicked>>

\* smp::wait_for_all, one poll at a time.
cpu_count == IF firmware.answered THEN Cardinality(CPUs) ELSE 0
all_online == cpu_count > 0 /\ ONLINE >= cpu_count - 1
WaitForEveryone ==
    /\ Stands(Bsp, "wait") /\ all_online
    /\ report' = "all" /\ Proceed(Bsp) /\ UNCHANGED left
    /\ KeepTables /\ KeepThreads /\ UNCHANGED <<have, shared>>
WaitForAll ==
    /\ Stands(Bsp, "wait")
    /\ IF all_online \/ left = 0
       THEN report' = (IF all_online THEN "all" ELSE "timed out") /\ Proceed(Bsp) /\ UNCHANGED left
       ELSE left' = left - 1 /\ UNCHANGED <<firmware, at, missing, panicked, report>>
    /\ KeepTables /\ KeepThreads /\ UNCHANGED <<have, shared>>

\* sched::idle_loop hands the processor to queued work.
IdleLoop(c) ==
    /\ Stands(c, "idle") /\ queued > 0
    /\ queued' = queued - 1 /\ aside' = aside \cup {c}
    /\ Proceed(c) /\ KeepTables /\ KeepWait /\ UNCHANGED <<have, shared, sleepers, naps, posted>>

---------------------------------------------------------------------------
Interruptible(c) == ~panicked /\ "irq" \in have[c]
Handled(c, v, uses) == missing' = missing \cup Missing(c, v, uses)

\* timer_handler: expire_timers wakes sleepers, preempt switches only with preemption on and a current thread to save.
Tick(c) ==
    /\ Interruptible(c) /\ "timer" \in have[c]
    /\ Handled(c, "tick", {"gs", "vectors", "apic"})
    /\ \E expired \in 0..sleepers :
         LET ready == queued + expired
             switch == "preemption" \in shared /\ "idle thread" \in have[c] /\ c \notin aside /\ ready > 0
         IN  /\ sleepers' = sleepers - expired
             /\ queued' = IF switch THEN ready - 1 ELSE ready
             /\ aside' = IF switch THEN aside \cup {c} ELSE aside
    /\ KeepTables /\ KeepWait /\ UNCHANGED <<firmware, at, have, shared, naps, posted, panicked>>

\* shootdown_handler and wake_handler.
TakeIpi(c) ==
    /\ Interruptible(c)
    /\ \E v \in posted[c] :
         /\ posted' = [posted EXCEPT ![c] = @ \ {v}]
         /\ Handled(c, v, IF v = "shootdown" THEN {"gs", "idt", "apic"} ELSE {"vectors", "apic"})
    /\ KeepTables /\ KeepWait /\ UNCHANGED <<firmware, at, have, shared, aside, queued, sleepers, naps, panicked>>

\* The thread a processor was given spawns another (a wake), unmaps a page (a shootdown),
\* sleeps, or ends; with no other to run the boot thread goes on.  An APIC not yet enabled accepts nothing.
Post(c, v) == posted' = [o \in CPUs |->
    IF o # c /\ "apic" \in have[o] /\ "apic" \in have[c] THEN posted[o] \cup {v} ELSE posted[o]]
KeepThread == UNCHANGED <<firmware, at, have, shared, panicked, missing>>
ThreadActs(c) ==
    /\ ~panicked /\ c \in aside
    /\ \/ naps < MaxNaps /\ naps' = naps + 1 /\ queued' = queued + 1 /\ Post(c, "wake")
       \/ Post(c, "shootdown") /\ UNCHANGED <<queued, naps>>
    /\ KeepTables /\ KeepWait /\ KeepThread /\ UNCHANGED <<aside, sleepers>>
LeavesTo(c) == IF queued > 0 THEN queued' = queued - 1 /\ UNCHANGED aside
               ELSE aside' = aside \ {c} /\ UNCHANGED queued
ThreadSleeps(c) ==
    /\ ~panicked /\ c \in aside /\ naps < MaxNaps
    /\ naps' = naps + 1 /\ sleepers' = sleepers + 1 /\ LeavesTo(c)
    /\ KeepTables /\ KeepWait /\ KeepThread /\ UNCHANGED posted
ThreadEnds(c) ==
    /\ ~panicked /\ c \in aside /\ LeavesTo(c)
    /\ KeepTables /\ KeepWait /\ KeepThread /\ UNCHANGED <<sleepers, naps, posted>>

\* Steps both kinds of processor take, and those of one kind.
StepOf(c) ==
    \/ Name(c) \/ PointGs(c) \/ LoadGdt(c) \/ LoadIdt(c) \/ Publish(c) \/ InstallLocalVectors(c)
    \/ EnableApic(c) \/ InitSyscall(c) \/ AdoptIdle(c) \/ StartTimer(c) \/ EnableInterrupts(c)
    \/ MarkOnline(c) \/ IdleLoop(c)
BspSteps ==
    \/ StepOf(Bsp) \/ InitSerial \/ InitFrames \/ InitHeap \/ RecordKernelRoot \/ Spawn \/ Yield
    \/ MapLapic \/ EnablePreemption \/ StartAll \/ WaitForAll
ApSteps(c) == StepOf(c) \/ AllocBlock(c) \/ Count(c)
NextBoot ==
    \/ BspSteps
    \/ \E c \in Aps : ApSteps(c)
    \/ \E c \in CPUs : Tick(c) \/ TakeIpi(c) \/ ThreadActs(c) \/ ThreadSleeps(c) \/ ThreadEnds(c)
=============================================================================
