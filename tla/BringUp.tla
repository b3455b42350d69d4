------------------------------ MODULE BringUp -------------------------------
(***************************************************************************)
(* The machine coming up: the processors (Boot), then, on a machine where  *)
(* only the bootstrap processor came up, the disk (DiskInit).              *)
(***************************************************************************)
EXTENDS Boot, DiskInit

vars == <<bootVars, diskVars>>

Init == (\E f \in Firmwares : InitBoot(f)) /\ InitDisk

\* block::init is documented for the bootstrap processor, interrupts enabled, the APIC
\* page mapped; its callers are threads that run once kmain is in its idle loop.
MayInitDisk == at[Bsp] = "idle" /\ ~firmware.answered /\ queued = 0 /\ sleepers = 0 /\ aside = {}

Next ==
    \/ inits = 0 /\ NextBoot /\ UNCHANGED diskVars
    \/ MayInitDisk /\ NextDisk /\ UNCHANGED bootVars

\* kmain's own code runs (timer ticks only borrow it), and a thread it yields to or is
\* preempted by, the greeter and the init process included, ends.  Nothing is assumed of
\* the other processors.
Spec ==
    /\ Init /\ [][Next]_vars
    /\ WF_vars(BspSteps /\ UNCHANGED diskVars)
    /\ WF_vars(ThreadEnds(Bsp) /\ UNCHANGED diskVars)

---------------------------------------------------------------------------
DistinctIds == \A c, d \in CPUs : cpu_id(c) = cpu_id(d) => c = d

\* No step of kmain or ap_entry, and no interrupt taken on the way, reaches through a
\* facility that is not there yet, and a block other processors can find has its tables,
\* provided firmware gives no application processor the bootstrap processor's id.
UsesAreReady ==
    DistinctIds => /\ missing = {}
                   /\ \A i \in Ids : blocks[i] # None => {"gs", "gdt", "idt"} \subseteq have[blocks[i]]

\* A processor in the online mask can acknowledge: its gates are loaded, its APIC accepts
\* the interrupt, it takes interrupts and it can tell its own id without GS; and when
\* wait_for_all reports every processor online, every processor is in the mask
\* (percpu::mark_online, smp::wait_for_all).
CanAcknowledge(c) ==
    /\ {"gs", "idt", "apic", "irq"} \subseteq have[c]
    /\ apic_to_cpu[firmware.apic[c]] = cpu_id(c)
OnlineCanAcknowledge ==
    DistinctIds => /\ \A c \in CPUs : cpu_id(c) \in online_mask => CanAcknowledge(c)
                   /\ report = "all" => \A c \in CPUs : cpu_id(c) \in online_mask

\* kmain reaches its idle loop whatever the other processors do, unless an id the tables
\* cannot hold stopped the machine (smp::wait_for_all's bound, finish_install's asserts).
BootCompletes == <>(at[Bsp] = "idle" \/ panicked)

---------------------------------------------------------------------------
\* The frames init takes are with the guard during the call and with the driver after a
\* success, never lost; and memory behind a queue the device may read is the driver's or
\* the guard's, and zeroed.  The one exception is a call that failed after enable_queue,
\* until the device's next reset (block::init, FrameGuard).
Owned(who) == {f \in Frames : owner[f] = who}
RingsAreOwned ==
    /\ Owned("guard") = Freed /\ Owned("driver") = {DEVICE[i] : i \in DOMAIN DEVICE}
    /\ step = "idle" => guard = <<>>
    /\ dev.latched.enabled /\ dev.latched.ring \notin lateFail =>
         dev.latched.ring \in (Owned("guard") \cup Owned("driver")) \cap zeroed

\* Once init has succeeded the device answers on the completion vector: it latched the
\* queue with its interrupt bound and its own ring, and was driven through every status.
\* And a device is refused for its capability list only if that list does not end
\* (block::init, Transport::enable_queue, pci::walk_capabilities).
ListEnds ==
    \A S \in SUBSET Pointers :
        device.head \in S /\ (\A o \in S \cap Offsets : device.next[o] \in S) => 0 \in S
LiveDiskAnswers ==
    /\ DEVICE # <<>> =>
         /\ dev.latched = [ring |-> DEVICE[1], vector |-> 0, enabled |-> TRUE]
         /\ dev.msix = [entry |-> COMPLETION_VECTOR, enabled |-> TRUE]
         /\ {"ACKNOWLEDGE", "DRIVER", "FEATURES_OK", "DRIVER_OK"} \subseteq dev.status
         /\ dev.decode /\ dev.master /\ ~dev.sizing
    /\ result = "Capabilities" => ~ListEnds

\* What FrameGuard::drop says of the frames it frees: the device was never given them.
FreedWereNeverGiven == dev.latched.enabled => owner[dev.latched.ring] \in {"guard", "driver"}

\* What read_bar's documentation says of its callers: a BAR is sized before the device
\* decodes memory.
SizedBeforeDecoding == dev.sizing => ~dev.decode
=============================================================================
