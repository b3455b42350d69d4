------------------------------ MODULE DiskInit ------------------------------
(***************************************************************************)
(* Bringing up the disk: block::init with its FrameGuard and install_msix, *)
(* the virtio transport of kernel/src/virtio.rs (probe, negotiation, queue *)
(* registers) and the PCI capability walk.  One thread initialises, under  *)
(* the DEVICE lock; the device, the frame allocator's other users and the  *)
(* time between two register accesses are what it meets.                   *)
(***************************************************************************)
EXTENDS Integers, Sequences, FiniteSets

CONSTANTS
    Devices,      \* what may sit on the bus: [id, head, next, body]
    Structures,   \* the configuration structures a transport needs
    Offsets,      \* aligned offsets of configuration space a capability may start at
    Unaligned,    \* a capability pointer that is not a multiple of four
    Frames,       \* frames of the allocator, by address
    MaxInits,     \* calls of block::init
    MaxFaults,    \* times the device misbehaves
    RESET_SPIN_LIMIT

\* A capability pointer is an aligned offset, zero (the end of the list), or misaligned.
Pointers == Offsets \cup {0, Unaligned}
ASSUME DiskAssumption ==
    /\ IsFiniteSet(Offsets) /\ 0 \notin Offsets /\ Unaligned \notin Offsets \cup {0}
    /\ \A d \in Devices : d.id = "modern" => d.head \in Pointers /\ d.next \in [Offsets -> Pointers]

VARIABLES
    device,       \* the device on the bus, NoDevice until somebody looks
    dev,          \* its registers: command bits, BAR, status, queue, MSI-X
    step,         \* where init stands; "idle" between calls
    caps,         \* capabilities probe still has to look at
    windows,      \* structures mapped by this attempt
    spins,        \* polls of the reset loop
    guard,        \* FrameGuard::held
    owner,        \* who holds each frame
    zeroed,       \* frames zeroed since their last owner
    DEVICE,       \* the driver's state once init succeeded
    inits, faults,
    result,       \* what the last call returned
    lateFail      \* frames freed by a call that failed after enable_queue

diskVars == <<device, dev, step, caps, windows, spins, guard, owner, zeroed, DEVICE,
              inits, faults, result, lateFail>>

COMPLETION_VECTOR == 35
NoRing == 0
NoDevice == [id |-> "none"]
NoVector == -1
OffQueue == [ring |-> NoRing, vector |-> NoVector, enabled |-> FALSE]

InitDisk ==
    /\ device = NoDevice
    /\ dev = [decode |-> FALSE, master |-> FALSE, sizing |-> FALSE, status |-> {},
              queue |-> OffQueue, latched |-> OffQueue,
              msix |-> [entry |-> NoVector, enabled |-> FALSE]]
    /\ step = "idle" /\ caps = <<>> /\ windows = {} /\ spins = 0 /\ guard = <<>>
    /\ owner = [f \in Frames |-> "free"] /\ zeroed = {}
    /\ DEVICE = <<>> /\ inits = 0 /\ faults = 0 /\ result = "none" /\ lateFail = {}

---------------------------------------------------------------------------
\* pci::walk_capabilities: follow the list for as many steps as there are aligned offsets,
\* zero included: what it holds after n steps is the list so far, the next offset, the verdict.
WalkBound == Cardinality(Offsets) + 1
WalkStep(d, w) ==
    IF w.err # "walking" THEN w
    ELSE IF w.at = 0 THEN [w EXCEPT !.err = "ok"]
    ELSE IF w.at = Unaligned THEN [w EXCEPT !.err = "Unaligned"]
    ELSE [w EXCEPT !.list = Append(@, w.at), !.at = d.next[w.at]]
walk_capabilities(d) ==
    LET walked[n \in 0..WalkBound] ==
            IF n = 0 THEN [list |-> <<>>, at |-> d.head, err |-> "walking"]
            ELSE WalkStep(d, walked[n - 1])
    IN  walked[WalkBound]

\* FrameGuard::drop: every frame still held goes back to the allocator.
Freed == {guard[i] : i \in DOMAIN guard}
ReleaseNothing ==
    /\ owner' = owner
    /\ guard' = <<>>
Release ==
    /\ owner' = [f \in Frames |-> IF f \in Freed THEN "free" ELSE owner[f]]
    /\ guard' = <<>>

\* An early return of init: the guard is dropped, the DEVICE lock released.
Return(r) ==
    /\ step' = "idle" /\ result' = r
    /\ caps' = <<>> /\ windows' = {} /\ spins' = 0
    /\ UNCHANGED <<device, zeroed, DEVICE, inits, faults>>
FailsWith(r) == Return(r) /\ Release /\ UNCHANGED <<dev, lateFail>>
GoTo(s) == step' = s /\ UNCHANGED <<device, DEVICE, inits, faults, result, lateFail>>
KeepMemory == UNCHANGED <<guard, owner, zeroed>>
KeepProbe == UNCHANGED <<caps, windows, spins>>

\* block::init again, after success or after a failure.
Begin ==
    /\ step = "idle" /\ inits < MaxInits
    /\ inits' = inits + 1
    /\ device' \in IF inits = 0 THEN Devices ELSE {device}
    /\ IF DEVICE # <<>> THEN step' = "idle" /\ result' = "Ok" ELSE step' = "find" /\ result' = "none"
    /\ UNCHANGED <<dev, DEVICE, faults, lateFail>> /\ KeepMemory /\ KeepProbe

\* virtio::probe: find the device, turn on decoding and bus mastering, walk its list.
Find ==
    /\ step = "find"
    /\ IF device.id # "modern"
       THEN FailsWith(IF device.id = "legacy" THEN "LegacyOnly" ELSE "NotFound")
       ELSE /\ dev' = [dev EXCEPT !.decode = TRUE, !.master = TRUE]
            /\ GoTo("walk") /\ KeepMemory /\ KeepProbe
Walk ==
    /\ step = "walk"
    /\ LET w == walk_capabilities(device)
       IN  IF w.err # "ok" THEN FailsWith("Capabilities")
           ELSE caps' = w.list /\ GoTo("caps") /\ KeepMemory /\ UNCHANGED <<dev, windows, spins>>

\* The loop over the vendor capabilities.  read_bar writes all ones to the BAR and restores
\* it; the window is mapped only when BAR, length and limits allow.
\* parse_virtio_cap refuses a body that is too short; decode_bar an I/O or 64-bit BAR that
\* has no address to size.
Flaw(c) == device.body[c].flaw
Considered(c) == device.body[c].kind \in Structures /\ Flaw(c) # "Short"
SkipCap ==
    /\ step = "caps" /\ caps # <<>> /\ ~Considered(Head(caps))
    /\ caps' = Tail(caps) /\ GoTo("caps") /\ KeepMemory /\ UNCHANGED <<dev, windows, spins>>
SizeBar ==
    /\ step = "caps" /\ caps # <<>> /\ Considered(Head(caps))
    /\ IF Flaw(Head(caps)) = "NotMemory" THEN FailsWith("BadBar")
       ELSE dev' = [dev EXCEPT !.sizing = TRUE] /\ GoTo("sized") /\ KeepMemory /\ KeepProbe
MapWindow ==
    /\ step = "sized"
    /\ dev' = [dev EXCEPT !.sizing = FALSE]
    /\ LET c == Head(caps)
       IN  IF Flaw(c) # "none"
           THEN /\ Return(IF Flaw(c) = "WindowTooLarge" THEN "WindowTooLarge" ELSE "BadBar")
                /\ Release /\ UNCHANGED lateFail
           ELSE \/ /\ windows' = windows \cup {device.body[c].kind}
                   /\ caps' = Tail(caps) /\ GoTo("caps") /\ KeepMemory /\ UNCHANGED spins
                \/ Return("MapFailed") /\ Release /\ UNCHANGED lateFail
Structured ==
    /\ step = "caps" /\ caps = <<>>
    /\ IF Structures \subseteq windows
       THEN dev' = [dev EXCEPT !.status = @ \cup {"resetting"}] /\ GoTo("reset") /\ KeepMemory /\ KeepProbe
       ELSE FailsWith("MissingStructure")

\* The bounded reset wait, then ACKNOWLEDGE and DRIVER.
ResetPoll ==
    /\ step = "reset"
    /\ IF dev.status # {}
       THEN IF spins + 1 >= RESET_SPIN_LIMIT THEN FailsWith("ResetTimeout")
            ELSE spins' = spins + 1 /\ GoTo("reset") /\ KeepMemory /\ UNCHANGED <<dev, caps, windows>>
       ELSE /\ dev' = [dev EXCEPT !.status = {"ACKNOWLEDGE", "DRIVER"}]
            /\ GoTo("negotiate") /\ KeepMemory /\ KeepProbe

\* Transport::negotiate: write the features, offer FEATURES_OK, read the status back.
Offer ==
    /\ step = "negotiate"
    /\ \/ FailsWith("NoVersion1")
       \/ /\ dev' = [dev EXCEPT !.status = @ \cup {"FEATURES_OK"}]
          /\ GoTo("readback") /\ KeepMemory /\ KeepProbe
ReadBack ==
    /\ step = "readback"
    /\ IF "FEATURES_OK" \notin dev.status THEN FailsWith("FeaturesRejected")
       ELSE IF "FAILED" \in dev.status THEN FailsWith("DeviceFailed")
       ELSE GoTo("take") /\ KeepMemory /\ KeepProbe /\ UNCHANGED dev

\* FrameGuard::take for the ring, the request headers and the data, then zeroing them.
FreeFrames == {f \in Frames : owner[f] = "free"}
Take ==
    /\ step = "take" /\ Len(guard) < 3
    /\ IF FreeFrames = {} THEN FailsWith("OutOfMemory")
       ELSE \E f \in FreeFrames :
                /\ guard' = Append(guard, f) /\ owner' = [owner EXCEPT ![f] = "guard"]
                /\ GoTo("take") /\ KeepProbe /\ UNCHANGED <<dev, zeroed>>
Zero ==
    /\ step = "take" /\ Len(guard) = 3
    /\ zeroed' = zeroed \cup Freed
    /\ GoTo("configure") /\ KeepProbe /\ UNCHANGED <<dev, guard, owner>>

\* configure_queue_sized: the size is refused before anything is written, the notify offset
\* after the addresses are.
Configure ==
    /\ step = "configure"
    /\ \/ FailsWith("QueueTooSmall")
       \/ /\ dev' = [dev EXCEPT !.queue.ring = guard[1]]
          /\ \/ GoTo("msix") /\ KeepMemory /\ KeepProbe
             \/ Return("BadNotifyOffset") /\ Release /\ UNCHANGED lateFail

\* install_msix: a second walk and BAR sizing, the table entry, the enable bit, the vector.
MsixAt == SelectSeq(walk_capabilities(device).list, LAMBDA c : device.body[c].kind = "msix")
MsixSize ==
    /\ step = "msix"
    /\ IF MsixAt = <<>> THEN FailsWith("NoMsix")
       ELSE dev' = [dev EXCEPT !.sizing = TRUE] /\ GoTo("msixsized") /\ KeepMemory /\ KeepProbe
MsixTable ==
    /\ step = "msixsized"
    /\ IF Flaw(Head(MsixAt)) # "none"
       THEN /\ dev' = [dev EXCEPT !.sizing = FALSE]
            /\ Return(IF Flaw(Head(MsixAt)) = "NoMsix" THEN "NoMsix" ELSE "MsixOutsideBar")
            /\ Release /\ UNCHANGED lateFail
       ELSE \/ /\ dev' = [dev EXCEPT !.sizing = FALSE, !.msix.entry = COMPLETION_VECTOR]
               /\ GoTo("msixon") /\ KeepMemory /\ KeepProbe
            \/ /\ dev' = [dev EXCEPT !.sizing = FALSE]
               /\ Return("OutOfMemory") /\ Release /\ UNCHANGED lateFail
MsixOnUnbound ==
    /\ step = "msixon"
    /\ dev' = [dev EXCEPT !.msix.enabled = TRUE]
    /\ GoTo("enable") /\ KeepMemory /\ KeepProbe
MsixOn ==
    /\ step = "msixon"
    /\ dev' = [dev EXCEPT !.msix.enabled = TRUE, !.queue.vector = 0]
    /\ GoTo("enable") /\ KeepMemory /\ KeepProbe

\* enable_queue: the device takes the queue as it stands.  finish and the commit.
EnableQueue ==
    /\ step = "enable"
    /\ dev' = [dev EXCEPT !.queue.enabled = TRUE,
                          !.latched = [dev.queue EXCEPT !.enabled = TRUE]]
    /\ GoTo("finish") /\ KeepMemory /\ KeepProbe
Finish ==
    /\ step = "finish"
    /\ dev' = [dev EXCEPT !.status = @ \cup {"DRIVER_OK"}]
    /\ GoTo("commit") /\ KeepMemory /\ KeepProbe
Commit ==
    /\ step = "commit"
    /\ IF "FAILED" \in dev.status
       THEN Return("DeviceFailed") /\ Release /\ lateFail' = Freed /\ UNCHANGED dev
       ELSE /\ DEVICE' = guard /\ guard' = <<>>
            /\ owner' = [f \in Frames |-> IF f \in Freed THEN "driver" ELSE owner[f]]
            /\ step' = "idle" /\ result' = "Ok" /\ caps' = <<>> /\ windows' = {} /\ spins' = 0
            /\ UNCHANGED <<device, dev, zeroed, inits, faults, lateFail>>

---------------------------------------------------------------------------
\* The device: it finishes a reset, gives up, or refuses the features it was offered.
KeepDriver == UNCHANGED <<device, step, caps, windows, spins, guard, owner, zeroed, DEVICE, inits, result>>
ResetDone ==
    /\ "resetting" \in dev.status
    /\ dev' = [dev EXCEPT !.status = {}, !.queue = OffQueue, !.latched = OffQueue]
    /\ lateFail' = {}
    /\ UNCHANGED faults /\ KeepDriver
Misbehave ==
    /\ faults < MaxFaults /\ device.id = "modern" /\ dev.status # {} /\ "resetting" \notin dev.status
    /\ \/ dev' = [dev EXCEPT !.status = @ \cup {"FAILED"}]
       \/ "FEATURES_OK" \in dev.status /\ step = "readback"
          /\ dev' = [dev EXCEPT !.status = @ \ {"FEATURES_OK"}]
    /\ faults' = faults + 1 /\ UNCHANGED lateFail /\ KeepDriver

\* The rest of the kernel takes frames, writes them and gives them back.
OthersUse ==
    /\ \E f \in Frames :
         \/ owner[f] = "free" /\ owner' = [owner EXCEPT ![f] = "other"] /\ zeroed' = zeroed \ {f}
         \/ owner[f] = "other" /\ owner' = [owner EXCEPT ![f] = "free"] /\ UNCHANGED zeroed
    /\ UNCHANGED <<device, dev, step, caps, windows, spins, guard, DEVICE, inits, faults, result, lateFail>>

InitCall ==
    \/ Begin \/ Find \/ Walk \/ SkipCap \/ SizeBar \/ MapWindow \/ Structured \/ ResetPoll \/ Offer \/ ReadBack
    \/ Take \/ Zero \/ Configure \/ MsixSize \/ MsixTable \/ MsixOn \/ EnableQueue \/ Finish \/ Commit
NextDisk == InitCall \/ ResetDone \/ Misbehave \/ OthersUse
=============================================================================
