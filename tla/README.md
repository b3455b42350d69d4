# Formal models of qunix

qunix is an SMP x86_64 kernel in Rust with two host tools (`qpkg`, `xtask`).
These modules model the parts whose correctness depends on the order in which
processors, interrupts, devices, processes and crashes act, from CPU bring-up to the
package manager. `PROJECT.json` maps every definition to the lines it models and
lists components, runs, mutants, hazards and theorems.

    tlc -workers 2 -config Sched.cfg MCScheduler     # any run of PROJECT.json
    tlapm SplitQueue_proof.tla                       # any *_proof module

## The system and its modules

| Part | Source | Modules |
|---|---|---|
| Run queue, park state, scheduler | `qunix-sched`, `sched.rs`, `thread.rs`, `context.rs` | RunQueue, Scheduler |
| Block driver, timers, virtqueue | `block.rs`, `task.rs`, `qunix-virtio` | BlockDriver, SplitQueue, ChainPool |
| Buffer cache | `bcache.rs`, `qunix-bcache` | BufferCache, BlockStore |
| Frames, buddy, slab, heap | `frames.rs`, `heap.rs`, `qunix-mm` | Buddy, Slab, Memory, FramePool |
| TLB shootdown, spinlock | `tlb.rs`, `paging.rs`, `qunix-sync` | Shootdown |
| CPU and disk bring-up | `main.rs`, `smp.rs`, `percpu.rs`, `apic.rs`, `virtio.rs`, `pci.rs`, `block.rs` | Boot, DiskInit, BringUp |
| Processes, system calls, ELF | `process.rs`, `vmspace.rs`, `paging.rs`, `syscall.rs`, `qunix-elf` | UserImage, Process |
| Package manager | `qpkg/src` | Vercmp, Sources, PackageIndex, Qpkg |
| Test harness, build tool | `testing.rs`, `panic.rs`, `xtask/src` | TestHarness, Staging, Attest, Coverage, Xtask |

Interactions: the scheduler is called by the runtime (`park`), the timer interrupt
(`preempt`, `expire_timers`) and the device interrupt (`unpark`). The block driver
owns a virtqueue and reserves a timer slot per request; the cache issues block
requests. The heap and every address space take frames from the buddy allocator.
Unmapping shoots down the translations of the CPUs in the online mask, which bring-up
fills. `xtask` boots the kernel under QEMU and reads the harness's verdict.

    RunQueue -> Scheduler -> MCScheduler         BufferCache -> MCBufferCache
        -> Scheduler_proof                           -> BufferCache_proof
                                                     implements BlockStore
    Shootdown -> MCShootdown
        -> Interrupts_proof                      BlockDriver -> MCBlockDriver
                                                     -> Interrupts_proof
    UserImage -> Process -> MCProcess
        -> Process_proof                         SplitQueue -> MCDisk (with BlockDriver)
           -> ProcessImage_proof                     -> SplitQueue_proof
    Boot, DiskInit -> BringUp -> MCBringUp           implements ChainPool
        -> BringUp_proof
                                                 Buddy, Slab -> Memory -> MCMemory
    TestHarness, Staging, Attest, Coverage           implements FramePool
        -> Xtask -> MCXtask
        -> Xtask_proof                           Vercmp, Sources -> PackageIndex -> Qpkg -> MCQpkg

**RunQueue** is the queue as operators on a function from bands to sequences.
**Scheduler** takes a step for each lock acquisition or atomic instruction another
CPU could observe. `schedule` is `TakeLocal`, `StealFrom`, `TakeLast` (take_next),
`Commit` (the section under `SCHED`), `Switch` (context::switch), `Land`
(publish_handoff on the new stack) and `Reap`. `Park`/`ParkCheck`, `Yield`,
`IdleLoop`, `SpawnInsert`/`SpawnPush`, `Exit` are thread code. `Tick`, `WakeIpi`,
`Unpark`/`UnparkPush` are interrupt handlers. `stack[c]` is the thread whose stack
the CPU executes on, apart from `current[c]`, which the code changes earlier.
`slot` is the position of an entry in the table's B-tree leaf: a removal moves the
later ones up.

**SplitQueue** is the virtqueue at the level of its memory. **ChainPool** is what it
promises, and is how **BlockDriver** uses it. BlockDriver has one step for each
section under `DEVICE` or `TIMERS` and for each unlocked decision of a poll; the
completion interrupt keeps `DEVICE` from `CompletionIrq` to `CompletionDone`. A
published head is the device's, fetched or not. `DeviceComplete` returns one;
`DeviceFault` puts an entry the device does not owe into the used ring, at any time and
for any id, and the driver cannot tell the two apart (`real` is history). `misled` are
the chains a false entry had the driver take back while the device has them. Parking is
the contract of `Scheduler`. A `Sleep`'s generation is represented by its owner, since a
caller has at most one.

**BufferCache** has one step per section under the cache lock and one per device
transfer, with a `Land` for the moment a write reaches the medium. **BlockStore** is
the store its callers see; the refinement maps a block to the frame of its slot when
it has contents, else to the device.

**Buddy** keeps the allocator's fields in one record, with the intrusive next, prev and
tag words in `mem`. Each method is an operator from record to record; so is each of
**Slab**. **Memory** fills the frame allocator from a firmware map, maps the heap from
it and then allocates and frees. Each call holds an IrqSpinLock throughout and is one
step. **FramePool** is the promise: an allocation fails only if no aligned run of free
pages exists inside a region.

**Shootdown** has one step per atomic access of `tlb::shootdown` and `service_pending`
that another CPU can see. Threads may be moved by a tick at any step with interrupts
enabled. `owed` and `gap` are history variables: whom the current shootdown has still
to reach, and which CPUs one of three windows has hit (see the divergences).

**Boot** runs `kmain` and `ap_entry` as sequences of steps that use and provide
facilities (GS, tables, APIC, timer, allocators, idle thread). A step or an interrupt
that uses one that is missing leaves a trace in `missing`. **DiskInit** is
`block::init` access by access, with a device that may misbehave at each of them.
**BringUp** joins them: the disk is
explored on machines where only the bootstrap processor came up.

**UserImage** is the pure part of loading (header checks, page flags), at a width where
every `checked_add` can overflow. **Process** is an address space with owned frames,
the load and its failures, the per-CPU root, kernel stack and `user_rsp` slot, the
system calls and the reaping.

**Vercmp** is the version order on characters as numbers. **Sources** stages `source=`
entries, with one thread per remote entry, and unpacks archives into the same directory,
completely or up to a member that fails. **PackageIndex** has the index and the
commands; **Qpkg** adds the build. Processes may be killed at any step.

**TestHarness** is one boot of the test kernel on two CPUs, down to the one port write
that is its verdict. **Staging** is what survives on the host's disk between commands.
**Attest** is the contribution gate over a repository that moves, **Coverage** the
ratchet: it judges a measurement rounded by `round2` and stores it as `{:.2}` prints it
(`format2`), which is a hundredth less for some (`HalvesDown`). `mark` is the last floor
that was raised, or lowered under its note; `slips` are the hundredths lost since.
**Xtask** has the commands over all four.

### Choices in the models

- `publish_handoff`'s swap and push are one step: only an untagged, hence unparked,
  thread is pushed, and an `unpark` in between merely notes the wake.
- A contended `try_lock` in the steal loop may always be skipped.
- `runnable_count` reads all queues at once; a stale answer only delays to the next tick.
- The wake IPI has no pending flag. The periodic timer ends any `hlt`.
- `reap` runs without interruption. The code runs it with the lock held.
- The panic of `exit_current` after `EXIT_WAIT_TICKS` is outside the horizon.
- A cache call that waits for a fill, a write-back or a reader may give up whenever it
  is blocked; the code counts ticks and returns the same error at its limit.
- The cache evicts the first slot that is clean and unpinned, as `victim` does.
- `unpark` is called from interrupt handlers, for threads that exist or have existed.
- A buddy tag is the pair it is computed from, so no foreign word equals one.
- `service_pending` with interrupts masked is one step: the bit it answers is only set
  while the initiator waits for it. With interrupts enabled it is three.
- A TLB caches everything mapped at once, the worst case for staleness.
- IPIs to a CPU still in the firmware's pen are left out: it is in nobody's mask.
- In Process a kernel section with interrupts masked is one step, and a file's byte is
  named by its offset.
- A staged file in Sources is the set of halves written since its truncation, so a file
  two threads write at once is neither's. An archive is known by which of the entries'
  names its members have; the ones of an archive that is not the packager's are any.
- In Attest the checkout of CI holds one branch. A previous head that only another ref
  still holds would be compared with instead of refused.
- In Attest a merge entry stands for the merge and the topic commits it brings in.
- Xtask, Qpkg, MCDisk and Memory explore one *session* per behaviour: activities that
  share no state are not interleaved with each other.

## Runs

All pass, with a complete search.

| Run | Instance | States | Shows |
|---|---|---|---|
| `sched` | 2 CPUs, 5 threads of which 3 ordinary, one parks | 90,062 | stacks not shared, queued threads dispatchable, nobody stranded, wakes return, queued work runs |
| `sched_exit` | 1 CPU, 3 threads, all park, ordinary ones exit | 53,558 | `schedule`'s assertions hold, exited threads are reaped |
| `block` | 2 callers, 2 chains, 2 timer slots, deadline 1 tick, 1 false entry at large at a time | 3,354,977 | chains accounted for, device-owned chains not reused unless the device claimed to be done with them, a parked caller has a waker |
| `disk_live` | requests: 2 callers, 1 chain, 1 timer slot, 1 false entry at large; ring: 5 descriptors, chains of 2, indices modulo 10 | 195,123 | every request returns; the ring stays intact and implements ChainPool |
| `cache` | 3 threads, 2 blocks, 2 contents, 1 slot, no transfer given up | 208,090 | clean slots match the device, sync is durable, implements BlockStore |
| `cache_timeouts` | 2 threads, 3 blocks, 1 content, 2 slots, transfers may time out or be dropped | 407,652 | every transfer and pin has an owner |
| `memory` | 14 pages of 32 bytes, 3 firmware maps, EBDA word absent or set, 4 size classes, 5 layouts | 28,268 | pages accounted for, panics only when memory is out, heap blocks sound, implements FramePool |
| `tlb` | 2 CPUs, one still coming up; an unmapper, a pruner inside the lock, a thread waiting for the lock; 1 preemption | 182,917 | freed frames cached nowhere outside the windows; everyone returns |
| `process` | 2 processes, 2 CPUs, 1 good image and 12 that are refused, the other process only a stack, 8 or 10 frames, 8 write buffers | 659,284 | frames accounted for, pages hold the image, ring 3 runs on its own root, `write` is exact, kernel stacks survive calls |
| `bringup` | 3 CPUs, 6 firmware tables; every capability list over 3 places, 3 frames, 2 inits, 1 fault | 590,074 | nothing used before it is ready, online CPUs can acknowledge, rings owned, a live disk answers, boot completes |
| `qpkg` | 2 processes, 2 packages, 2 indexes, 11 recipes of which 3 have archives, 3 commands, 1 fault; every well-formed version text of up to 3 characters | 2,070,146 | built artifacts are faithful, quiet answers are fresh, `update` is exact |
| `xtask` | 2 tests, 2 kernels of one length, histories of up to 2, 2 crates, floors up to 2 hundredths, both halves rendered down, 3 commands | 1,706,819 | success is earned, what boots is what was asked, green is clean, floors hold |

**Why these bounds.** Two CPUs are enough for a thief and an owner, a waker and a
parker, an initiator and a target; two ordinary threads let a handoff, a queue and a
wake hold different threads, and `sched` has a third, since two on two CPUs could not
starve one another. In the ring 5 is not a multiple of 2, so a descriptor is left over,
as with the code's 64 and chains of 3; the index modulus is twice the ring, so the
counters wrap. Two callers over one or two chains reach exhaustion, reuse of a timer
slot, and a late completion for a chain somebody wants. One cache slot and two blocks
force every eviction race, three blocks over two slots the choice of a victim.

The memory maps are a plain one, one with unaligned and fragmented entries, more regions
than the region table and an entry that overflows, and one too small for the heap. Order
2 gives two levels of splitting and merging. In `tlb` one preemption suffices to move
any thread between any two of its steps. In `process` pages of 4 bytes and 32
addresses put every boundary (wrap, user range, stack, page) within reach; 8 frames make
a load run out half way, 10 let both processes run. The firmware tables
of `bringup` include no answer at all, a CPU that never starts, ids and APIC ids at the
limit of the tables, and an id the BSP has already.
Five characters (digits, letters, a separator) distinguish all the cases of `vercmp`'s
scanner. `xtask`'s kernels have one length because that is the case the stamps exist
for. Its floors are small, but each step from a measurement to a floor is a hundredth
as in the code, and two updates in a row lose two. `MaxFaults` and `MaxPreempts` bound
what leaves the normal path; in BlockDriver the bound is on the false entries still
unread or believed, so any number may follow one another. Symmetry is over
values the code only compares, and is not used with liveness.

**Fairness.** *Scheduler:* code with no wait in it finishes (weak fairness of
`Progress` and of the continuing rounds of `park` and `exit_current`). Each CPU's timer
is periodic and is delivered when unmasked, which happens again and again but not
continuously (strong fairness of `Tick`). Nothing is assumed of wakes, spawns or yields.
*BlockDriver:* a started request keeps being polled; a CPU spinning for `DEVICE` gets it
eventually (strong fairness of a caller's steps; the spinlock is unfair in principle, and
this is the assumption); interrupts are delivered and time advances. The device need
never answer. *Shootdown:* CPUs execute, pending IPIs are delivered while enabled, a
ready thread is given an idle CPU (all weak). *BringUp:* `kmain`'s own code runs, and a
thread it is preempted by ends; `kmain` becomes the idle thread, so it needs the second.
Nothing is assumed of the other CPUs. The deadlock check is off
where the system may stop: in `bringup` a machine panics, in `qpkg` and `xtask` the last
command ends. The other modules state safety only.

## Proofs

| Theorem | States | Module |
|---|---|---|
| `TypeCorrect` | `Spec => []TypeOK` | Scheduler_proof |
| `StacksNotShared` | `Spec => []OneCpuPerStack` | Scheduler_proof |
| `QueuedCanRun` | `Spec => []QueuedIsDispatchable` | Scheduler_proof |
| `ScheduleNeverPanics` | `Spec => []ScheduleAsserts` | Scheduler_proof |
| `NobodyStranded` | `Spec => []NoneStranded` | Scheduler_proof |
| `IdleNeverMoves` | `Spec => []IdleStaysHome` | Scheduler_proof |
| `OneInitiator` | `TlbSpec => []OneShootdown` | Interrupts_proof |
| `FreedIsUncached` | `TlbSpec => []NoStaleOutsideWindows` | Interrupts_proof |
| `InvariantHolds` | `Spec => []IInv` | Interrupts_proof |
| `ChainsAreAccounted` | `Spec => []ChainsAccounted` | Interrupts_proof |
| `DeviceKeepsChain` | `Spec => []DeviceOwnsChain` | Interrupts_proof |
| `ParkedCallersAreWoken` | `Spec => []ParkedHasWaker` | Interrupts_proof |
| `TransfersHaveOwners` | `Spec => []TransfersOwned` | BufferCache_proof |
| `CleanSlotsMatch` | `Spec => []CleanMatchesDevice`, if `~MayTimeOut` | BufferCache_proof |
| `SyncReachesDevice` | `Spec => []SyncIsDurable`, if `~MayTimeOut` | BufferCache_proof |
| `CacheIsAStore` | `Spec => ImplementsStore`, if `~MayTimeOut` | BufferCache_proof |
| `InvariantHolds` | `Spec => []ProcInv` | Process_proof |
| `Ring3Holds` | `Spec => []Ring3IsItsOwn` | Process_proof |
| `FramesHold` | `Spec => []FramesAccounted` | Process_proof |
| `StackHolds` | `Spec => StackSurvivesCall` | Process_proof |
| `WriteHolds` | `Spec => []WriteIsExact` | Process_proof |
| `ImageHolds` | `Spec => []ImageFaithful` | ProcessImage_proof |
| `RingHolds` | `Spec => []RingIntact` | SplitQueue_proof |
| `RingImplements` | `Spec => RingIsPool` | SplitQueue_proof |
| `UsesReady` | `Spec => []UsesAreReady` | BringUp_proof |
| `OnlineAcknowledge` | `Spec => []OnlineCanAcknowledge` | BringUp_proof |
| `RingsOwned` | `Spec => []RingsAreOwned` | BringUp_proof |
| `LiveAnswers` | `Spec => []LiveDiskAnswers` | BringUp_proof |
| `SuccessHolds` | `Spec => []SuccessIsEarned` | Xtask_proof |
| `StagingHolds` | `Spec => []StagedIsRequested` | Xtask_proof |
| `GreenHolds` | `Spec => []GreenIsClean` | Xtask_proof |
| `FloorsStand` | `Spec => []FloorsHold` | Xtask_proof |

The scheduler's theorems assume `Mortal = {}`.

**Scheduler**, for every number of CPUs and threads, every priority assignment and every
set of parking threads, under `Mortal = {}` (no thread exits). `StacksNotShared` and
`QueuedCanRun` need that hypothesis: divergence 1 violates both. The remaining assumptions
are those of `Scheduler`: at least one CPU, at least as many threads, the idle band
exactly for boot threads. The first lemmas are about `push`, `pop` and `steal`. None of the properties is inductive. `SafetyInv` adds what the code relies on:
`TableGrows` (the table is an initial segment of the ids and nobody exits),
`PhaseAgrees` (how current, next, the handoff slot and its tag follow from how far a
CPU is through `schedule`), `ClaimsDisjoint` (a thread is named by at most one of a
stack, a taken id, an unfinished wake, a handoff and an unfinished spawn),
`QueuesDisjoint` (and by none of these while queued, and by one queue once) and
`Resumable` (a thread off every stack has its own context saved; parked threads are in
no queue). The handoff conjunct is the heart: the tag equals `parked` for as long as
the slot is full, which is why `unpark` and `publish_handoff` cannot both queue the
thread and cannot both leave it. The invariant's steps are one lemma per action or kind
of action.
`NobodyStranded` is then inductive relative to `SafetyInv`: a step that takes an unparked
thread out of one hand puts it into another. `IdleNeverMoves` also needs every queued
thread to sit in the band of its priority (`HomeInv`), so that the band a thief takes
from holds no idle thread.

**Shootdown**, for every number of CPUs, threads, pages and preemptions, from the
assumptions of the module only. The actions fall into kinds (`Kinds`): those that leave
the protocol alone, those that serve a request, the acknowledgement, and the initiator's
own. `StaleInv` says how far the initiator's progress has emptied the caches: after its
mask read every CPU that may still cache the entry is in `remote`, after `PENDING` is
stored it is in `owed`, and `owed` lies within `PENDING` and the windows; so an
empty `PENDING` leaves no stale CPU. That `TARGET` is still the initiator's own when a
CPU answers is `OneShootdown`, which is why the first theorem comes first.

**BlockDriver**, for every number of callers, chains, timer slots and false entries. The
one assumption beyond the module's ranges is that the absent caller and chain are none of
the real ones. `IInv` has three parts. `ChainInv` ties a chain's slot to the request that
holds it (`SlotsOK`, `HeadsOK`) and to the used ring and the device (`DeviceOK`,
`UsedOK`): outside `misled`, a chain the device has, or has truthfully returned in an
entry not yet taken, is in flight, in one of the two places and once. So a true entry
releases a chain the device is done with. A false one that is accepted moves its
chain into `misled`, where it stays for as long as the device owes it, also when a later
request publishes it again. `WakeInv` says
that whoever is parked, or has decided to park, has its deadline registered or a wake
under way. That is why a completion between the last poll and the park is not lost.

**BufferCache**, for every number of threads, slots, blocks and contents. `KindOfStep`
reduces the actions to steps that are quiet and steps of one thread that change one slot
in one of ten ways; everything else is argued from these kinds. `IInv` has the shape of
the table (a block has one slot, nothing is dirtied under a transfer), one owner for each
slot in flight, and pins that count readers exactly. It is inductive with failures,
time-outs and dropped operations, and gives `TransfersOwned`. `SInv` adds the contents
(`DataInv`: clean frames, and frames whose transfer just ended well, equal the device)
and what a sync still owes (`SyncInv`: each block it has not seen written is in a slot it
still waits for). Both need `~MayTimeOut`: divergence 4 violates `CleanMatchesDevice`
without it. For the refinement every kind of step is a `Read`, `Write` or `Release` of
BlockStore or leaves `Visible` and the readers' blocks alone.

**Process**, for every set of processes and CPUs, every choice of images, write buffers and
numbers of frames, every page size and every address limit with `USER_MAX < Wrap` (the
code's is 2^47). `ProcInv` has the types and two parts. `CpuInv` says which thread is in
the hands of which CPU in both halves of a switch, that a CPU runs on its thread's stack
and root, and that a thread inside a call with interrupts masked has its stack pointer in
that CPU's slot; `StackSurvivesCall` and `Ring3IsItsOwn` follow. `FrameInv` says that the
frames of a space are its root, its tables and its pages, at every point where a load may
fail, and that free and owned frames partition memory. `CpuInv` is what lets `reap` free a
space: a root in a CR3 is the one of a thread that is still alive. For `WriteIsExact` the
page walk of `copy_user_slice` is shown to visit exactly the pages the copy touches
(`WalkIsTouch`, by arithmetic on an arbitrary page size), `user_range_ok` to be exact
although the sum may wrap, and the tables loaded to be the caller's and nobody else's,
which needs both parts of `ProcInv`.

`ImageFaithful` needs `ImageInv`: what a load has established at each of its places, until
the thread first runs. After parsing every segment's data fits its memory and its range
does not wrap; after k segments are copied the mapped pages hold, byte by byte, the data
of the last of those k that covers the address, or zero (`Holds`); after the permission
pass every page has the flags of all the segments that touch it, and is not both writable
and executable; the stack's pages are added to these one by one, downwards. A copy goes
through the frames of its own space, which `FrameInv` keeps apart from everyone else's, so
loads of several processes do not disturb one another. That every segment is a loadable
header of the file is `SegmentsAre`, by induction over the headers; the page arithmetic is
for an arbitrary page size. From the
constants it takes that the image files are files (`ElfFile`) and that the stack's top is
a page boundary.

**SplitQueue**, for every queue size, chain length and index range that is a larger
multiple of the size (`RingAssumption`: the code's are 64, 3 and 2^16). `ListInv` says
that following the links from `free_head` runs through a list of `free` descriptors and
from each outstanding head through its chain of `ChainLen`, that these are pairwise
apart, and that they count to `Size`; so they are all the descriptors. `FlightInv` says
that the heads in flight are those offered and not fetched, those with the device, and
those answered and not taken, each in one place, and that either ring holds distinct
heads between its two indices. Since there are at most `Size` heads the indices never lap
one another, which is where the modulus must be a multiple of the size. For the refinement
a step is a submit, a take or a free of ChainPool or leaves the pool alone: `alloc_chain`
hands out a head nobody holds, and only while fewer than `Size \div ChainLen` are out.

**BringUp**, for every set of CPUs, firmware report, device, capability list, number of
frames and order of interrupts and failures. `BootInv` is a table: what a CPU has of its
own and what the machine has (`BspHas`, `BspShared`, `ApHas`, `ApShared`) when it stands at
a step of `kmain` or `ap_entry`, and with it that interrupts are on only where vectors and
APIC are set up, that a set bit of the online mask belongs to a CPU past that point, and
that `ONLINE` counts the CPUs that arrived. It holds under `DistinctIds`, the condition
the two properties name. `DiskInv` says at each step of `block::init` who holds which
frame (`MemInv`), what the device may read (`LatchInv`), what it was told (`StatusInv`,
`WireInv`) and what stays true of a disk that is up (`LiveInv`). That a capability list
which ends is not refused for its length is a counting argument: a walk longer than the
number of offsets comes to one of them twice, and then the list never ends.

**Xtask**, for every number of tests, kernels, crates and commands and histories of every
length. The properties are about four parts of the state, and each has its own invariant:
the guest and the command that boots it (`GuestInv`: before the one write of success every
test returned and was balanced; `BootsInv`: as many boots counted as earned), the staged
files (`StagedInv`: a stamp names the kernel beside it except between a copy and its
stamp), the two clones (`GreenInv`, which also keeps what the next merge would bring in),
and the floors (`FloorsInv`: a floor in the file is the authorised one, or lower by
hundredths that are all in `slips`, or a line nobody can read). It survives an update
because a figure below the floor in the file has its note, and so becomes the authorised
one (`UpdateAuthorises`). The floors need `TOLERANCE_PP > 0`: it has to cover the rounding
of a percentage to the file's two decimals; nothing is assumed of which halves are
rendered down.

Only model-checked:

- everything about liveness and fairness (`WakeReturns`, `QueuedRuns`, `ExitedIsReaped`,
  `RequestReturns`, `EveryoneReturns`, `BootCompletes`): out of the prover's reach;
- Memory, Vercmp and the modules above them, which follow lists and texts of any length
  with recursive operators, with `ImplementsPool` and the properties of `qpkg`;
- threads that exit in Scheduler, where `ScheduleAsserts` is checked on one CPU.

## Known divergences

What the code does against a comment or a doc of the repository, met while modelling.
The runs leave these situations out, by their instance or by a history variable the
property names, or do not claim the property. Where a definition is given, TLC refutes it: put it in the cfg of the
run, with the change given.

| # | Where | What happens | Refuted definition |
|---|---|---|---|
| 1 | `sched.rs:1240` (comment 1235) | `schedule` makes the next thread current and releases `SCHED` before it switches. Another CPU's `reap` can free the stack the exiting thread still stands on, or move the table entry `from_slot` (1170) points into. | `OutgoingInPlace`, run `sched` with `Mortal <- Ordinary`, `MaxThreads = 4` |
| 2 | `sched.rs:648` (640, `park.rs:11`) | With nothing to switch to, `park` halts, checks and loops. A wake between the check and the next `ParkState::park` is lost. | `WakeReturns`, run `sched` with `Parkers <- BootAndLast`, `MaxThreads = 4` |
| 3 | `block.rs:730` (725, 448) | A completion between the time-out decision and `finish` leaves a chain marked abandoned whose completion is already consumed. | `AbandonedIsOutstanding`, run `block` |
| 4 | `bcache.rs:755` (`qunix-bcache/lib.rs:52`) | A write-back that timed out or was dropped reaches the device after a newer one: a Clean slot differs from the device. | `CleanMatchesDevice`, run `cache` with `MayTimeOut = TRUE` |
| 5 | `tlb.rs`, `paging.rs`, `smp.rs` | Three windows leave a stale translation: the thread moves between its own flush and reading the mask; a bit is cleared for a shootdown that CPU has not served; a CPU runs threads before `mark_online`. Also, a thread preempted while it owns `IN_PROGRESS` is starved when every CPU spins with interrupts masked (`OwnerStarved`). | `NoStaleTranslation`, run `tlb` |
| 6 | hal `syscall.rs:114`, `168` | `user_rsp` is a slot of the CPU, read again on return. After a `Yield` it may hold another process's stack pointer, and the call returns with that (excepted in `StackSurvivesCall`). | |
| 7 | `process.rs:230` | A preemption between `activate` and `adopt_address_space` resumes the thread on the kernel root, and it faults in ring 3 (`slipped` in `Ring3IsItsOwn`). | |
| 8 | kernel `syscall.rs:19` | "copy happens with interrupts enabled": FMASK keeps them masked. | |
| 9 | `block.rs:282` | `FrameGuard` says the device was never given the frames; when `finish` fails, after `enable_queue`, it was. | `FreedWereNeverGiven`, run `bringup` |
| 10 | `virtio.rs:458` | `read_bar` is documented for use before memory decoding is on; `probe` turns it on first. | `SizedBeforeDecoding`, run `bringup` |
| 11 | `attest.rs:347` (243) | Where there is no range to compare with, the fallback counts every commit, merges included, as committed directly. | `MergesPass`, run `xtask` |
| 12 | `testing.rs:307` (318) | The watchdog may pair one test's name with another's length. | `WatchdogPair`, run `xtask` |
| 13 | `panic.rs:120` | A concurrent panic cuts the first report short, as a nested one does. | `ReportComplete`, run `xtask` |
| 14 | `vercmp.rs` | The order is not transitive: 1.0a < 1.0 < 1.0.a, yet 1.0a and 1.0.a are equal. | `UpdateFindsNewest`, run `qpkg` with `Histories <- MCChains`, `Sessions = {"versions"}` |
| 15 | `queue.rs:223` (213) | "Clearing `in_flight` here is what makes a completion consumable exactly once": `in_flight` does not tell one publication of a head from the next, so a second entry that arrives after the head was published again is taken for the new request's completion, and its chain is freed while the device has it (`misled` in `DeviceOwnsChain`). | |
| 16 | `coverage.rs:297` (232) | "Any drop, however small, needs a `#` comment": the drop is judged on `round2` of the measurement, the file gets `{:.2}` of it. Where the two differ, an update lowers the floor by a hundredth with no note, and each further one may again (`slips` in `FloorsHold`). | |

Smaller observations, each a note in `PROJECT.json` or a condition of a property:

- Boot: firmware that gives an application processor the id 0 collides with the BSP,
  which always takes 0 (`DistinctIds`). Without an MP response `wait_for_all` runs
  its whole budget. An AP may be preempted between `interrupts::enable` and
  `mark_online`.
- Memory: entries of the memory map that overflow are skipped without a count.
- Cache: `sync` (`bcache.rs:797`) has no bound under a steady writer.
- Tests: a counter that moves between two tests' captures is charged to neither
  (`testing.rs:364`).
- xtask: a command killed between the copy of a kernel and its stamp leaves an old
  stamp (`image.rs:118`; `unstamped`); a coverage rewrite cut short loses the floors it
  had not written (`coverage.rs:607`; `UpdateTorn`). A panic another CPU has begun and not
  finished reporting does not stop a success (`testing.rs:365`).
- qpkg: entries of one name stream into one file (`sources.rs:135`); an archive is
  unpacked into the directory of the staged sources after the remote ones were verified,
  and a member with the name of one replaces it (`sources.rs:296`; `Overwritten`); a
  renamed local source is looked for under its new name (`build.rs:79`); rows are never removed by
  `sync`, and a package that changes feed meanwhile is missed; an artifact is rewritten
  in place (`artifact.rs:52`); indexes given by `--db` share build trees.

## Not modelled

- xtask's `userland`, and the text formats it and `coverage` and `attest` parse:
  straight subprocess calls and string handling.
- qpkg's `toolchain`, `paths`, `error`, quoting in `pkgbuild`, the tar format, ranking
  of search hits and containment checks on paths: functions on text, represented by
  their outcome where a command depends on it.
- `qunix-vfs`: nothing calls it yet, and all it does is split strings.
- Descriptor tables, ports, serial and APIC registers: encodings of constants. Boot has
  the order in which they are set up.
- Fuzz targets and test bodies: drivers of the code modelled here.
- In modelled components: data copies and transfer lengths in the block driver, `join`
  in the runtime, `try_lock` and the recursion panic of the spinlocks, the words and
  huge pages of page tables, the system calls that answer NotSupported.
- Bring-up of the disk on a machine with several CPUs online: `block::init` runs under
  `DEVICE` on one CPU and shares no other state with them but the frame allocator, whose
  other users are an action of DiskInit.
