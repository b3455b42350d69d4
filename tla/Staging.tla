------------------------------ MODULE Staging ------------------------------
(***************************************************************************)
(* What `xtask/src/image.rs` puts in front of QEMU: the pinned boot        *)
(* loader, the EFI system partition (ESP) and the test disk.  All of it is *)
(* on the host's disk and outlives the command, and a command can be       *)
(* killed between any two writes.                                          *)
(*                                                                         *)
(* build_esp stages four files with the same function, copy_if_changed;    *)
(* the model stages one, the kernel, whose source differs from command to  *)
(* command.  A kernel stands for its path, length and modification time;   *)
(* the kernels are of one length, the case the stamps exist for.           *)
(***************************************************************************)
CONSTANTS Kernels

Missing == "missing"
Torn == "torn"      \* a file whose writing was cut short: wrong length, wrong text

\* A kernel is a file that is there and whole.
ASSUME StagingAssumption == Missing \notin Kernels /\ Torn \notin Kernels /\ Kernels # {}

VARIABLES
    at,         \* step of the command, "idle" when none runs
    want,       \* the kernel the command was given
    limine,     \* .limine/: "missing", "torn" (no BOOTX64.EFI), "pinned", "altered"
    kernel,     \* boot/qunix-kernel in the ESP
    stamp,      \* esp-stamps/qunix-kernel.stamp
    stray,      \* the ESP holds something build_esp did not put there
    disk,       \* qunix-test-disk.img: "missing", "torn", "image"
    unstamped   \* history: a command was killed after its copy, before its stamp

files == <<limine, kernel, stamp, stray, disk, unstamped>>
staging == <<at, want, files>>

StagingInit ==
    /\ at = "idle" /\ want = Missing
    /\ limine \in {Missing, "pinned", "altered"}
    /\ kernel = Missing /\ stamp = Missing /\ stray \in BOOLEAN
    /\ disk = Missing /\ unstamped = FALSE

Go(from, to) == at = from /\ at' = to

\* ensure_limine: a checkout without the payload is removed and cloned again.
limine_clone ==
    /\ Go("limine", "checkout") /\ limine \in {Missing, Torn}
    /\ limine' = Torn
    /\ UNCHANGED <<want, kernel, stamp, stray, disk, unstamped>>

limine_checkout ==
    /\ Go("checkout", "limine")
    /\ limine' = "pinned"
    /\ UNCHANGED <<want, kernel, stamp, stray, disk, unstamped>>

digest_matches == limine = "pinned"

\* The digest is verified on every run, not only after a clone.
limine_verify ==
    /\ limine \notin {Missing, Torn}
    /\ Go("limine", IF digest_matches THEN "check" ELSE "refused")
    /\ UNCHANGED <<want, files>>

SameLength(file, k) == file \in Kernels

freshByLength == SameLength(kernel, want)

\* The destination came from this source, and has its length.
fresh == stamp = want /\ SameLength(kernel, want)

\* copy_if_changed
copy_check ==
    /\ Go("check", IF fresh THEN "init" ELSE "copy")
    /\ UNCHANGED <<want, files>>

copy_begin ==
    /\ Go("copy", "copying")
    /\ kernel' = Torn
    /\ UNCHANGED <<want, limine, stamp, stray, disk, unstamped>>

copy_end ==
    /\ Go("copying", "stamp")
    /\ kernel' = want
    /\ UNCHANGED <<want, limine, stamp, stray, disk, unstamped>>

stamp_begin ==
    /\ Go("stamp", "stamping")
    /\ stamp' = Torn
    /\ UNCHANGED <<want, limine, kernel, stray, disk, unstamped>>

stamp_end ==
    /\ Go("stamping", "init")
    /\ stamp' = want /\ unstamped' = FALSE
    /\ UNCHANGED <<want, limine, kernel, stray, disk>>

\* A source without a modification time leaves no stamp behind.
stamp_remove ==
    /\ Go("stamp", "init")
    /\ stamp' = Missing /\ unstamped' = FALSE
    /\ UNCHANGED <<want, limine, kernel, stray, disk>>

\* The init program is assembled and linked on every run, and that may fail.
build_init ==
    /\ \E next \in {"prune", "refused"} : Go("init", next)
    /\ UNCHANGED <<want, files>>

prune_unexpected ==
    /\ Go("prune", "disk")
    /\ stray' = FALSE
    /\ UNCHANGED <<want, limine, kernel, stamp, disk, unstamped>>

\* build_test_disk: an image of the right size is kept, with what tests wrote.
disk_check ==
    /\ Go("disk", IF disk = "image" THEN "boot" ELSE "generate")
    /\ UNCHANGED <<want, files>>

disk_write ==
    /\ \/ Go("generate", "generating") /\ disk' = Torn
       \/ Go("generating", "boot") /\ disk' = "image"
    /\ UNCHANGED <<want, limine, kernel, stamp, stray, unstamped>>

\* The command is killed, or a write fails, before QEMU is started.
Killed ==
    /\ at \notin {"idle", "boot", "refused", "qemu", "gates"}
    /\ at' = "idle"
    /\ unstamped' = (unstamped \/ at = "stamp")
    /\ UNCHANGED <<want, limine, kernel, stamp, stray, disk>>

StagingStep ==
    \/ limine_clone \/ limine_checkout \/ limine_verify
    \/ copy_check \/ copy_begin \/ copy_end \/ stamp_begin \/ stamp_end \/ stamp_remove
    \/ build_init \/ prune_unexpected \/ disk_check \/ disk_write
=============================================================================
