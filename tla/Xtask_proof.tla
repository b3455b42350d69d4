---------------------------- MODULE Xtask_proof ----------------------------
(***************************************************************************)
(* Proofs about module Xtask: for any number of tests, kernels and crates, *)
(* any history length and any number of commands, what a command reports   *)
(* is true of what it checked.                                             *)
(*                                                                         *)
(* Each of the four properties is about one part of the state, which the   *)
(* commands of the other parts leave alone; each has an inductive          *)
(* invariant of its own.                                                   *)
(***************************************************************************)
EXTENDS Xtask, FiniteSetTheorems, TLAPS

\* A leaf that names no prover is one for first-order reasoning.
USE Zenon

----------------------------------------------------------------------------
(* The coverage floors. *)

\* What coverage.rs maintains between commands: a floor that stands is in the file,
\* less hundredths that each have an update to answer for them, or its line is one
\* nobody can read.
Accounted(c) ==
    mark[c] >= 0 => \/ floor[c] = Unreadable
                    \/ floor[c] \in 0 .. mark[c] /\ (floor[c] + 1) .. mark[c] \subseteq slips[c]

FloorsInv ==
    /\ floor \in [Crates -> Int] /\ note \in [Crates -> Int]
    /\ now \in [Crates -> Int] /\ mark \in [Crates -> Int]
    /\ \A c \in Crates : Accounted(c)
    /\ FloorsHold

\* Only coverage commands write coverage-baseline.toml.
LEMMA BaselineStep ==
    ASSUME [Next]_vars
    PROVE  CoverageNext \/ UNCHANGED baseline
<1>1. CASE Next
  BY <1>1 DEF Next, Start, Stage, Kill, Spawn, Kernel, QemuEnds, Reap, NextBoot, Timeout,
     Refuse, Gates, AttestCommand, CoverageCommand, Conclude
<1>2. CASE UNCHANGED vars
  BY <1>2 DEF vars
<1> QED
  BY <1>1, <1>2

\* A measurement is at most half a hundredth below what it is rounded to, and what
\* `{:.2}` stores is that figure or the one before.
LEMMA RoundingLoss ==
    ASSUME NEW m \in Int
    PROVE  /\ round2(m) \in Int /\ format2(m) \in Int
           /\ 2 * format2(m) <= m + 1
           /\ format2(m) = round2(m) \/ format2(m) = round2(m) - 1
           /\ m >= 0 => round2(m) >= 0 /\ format2(m) >= 0
<1>1. round2(m) \in Int /\ 2 * round2(m) <= m + 1
  BY SMT DEF round2
<1>2. CASE m \in HalvesDown
  <2>1. m \in 0 .. 2 * MaxFloor /\ m % 2 = 1 /\ MaxFloor \in Int
    BY <1>2, CoverageAssumption, SMT
  <2>2. m >= 1 /\ round2(m) >= 1
    BY <2>1, SMT DEF round2
  <2>3. format2(m) = round2(m) - 1
    BY <1>2 DEF format2
  <2> QED
    BY <1>1, <2>2, <2>3, SMT
<1>3. CASE m \notin HalvesDown
  <2>1. format2(m) = round2(m)
    BY <1>3 DEF format2
  <2>2. m >= 0 => round2(m) >= 0
    BY SMT DEF round2
  <2> QED
    BY <1>1, <2>1, <2>2, SMT
<1> QED
  BY <1>2, <1>3

\* check without --update that passes found every floor in the file kept.
LEMMA CheckKeeps ==
    ASSUME FloorsInv, CheckFloors
    PROVE  FloorsInv'
<1>1. /\ floor' = floor /\ note' = note /\ now' = now /\ mark' = mark /\ slips' = slips
  BY DEF CheckFloors
<1>2. ASSUME outcome' = "ok", NEW c \in Crates, mark[c] >= 0
      PROVE  /\ Measured(c)
             /\ \E f \in 0 .. mark[c] : /\ now[c] + TOLERANCE_PP >= 2 * f
                                        /\ (f + 1) .. mark[c] \subseteq slips[c]
  <2>1. /\ ~reject_malformed /\ ~gate_unmeasured
        /\ ~\E d \in Crates : HasFloor(d) /\ Measured(d) /\ verdict_of(d) = "Regressed"
    BY <1>2 DEF CheckFloors
  <2>2. floor[c] \in 0 .. mark[c] /\ (floor[c] + 1) .. mark[c] \subseteq slips[c]
    BY <1>2, <2>1 DEF FloorsInv, Accounted, reject_malformed
  <2>3. now[c] \in Int /\ floor[c] \in Int /\ mark[c] \in Int /\ TOLERANCE_PP \in Int
    BY CoverageAssumption, SMT DEF FloorsInv
  <2>4. HasFloor(c)
    BY <2>2, <2>3, SMT DEF HasFloor
  <2>5. Measured(c)
    BY <2>1, <2>4 DEF gate_unmeasured, unmeasured_floors
  <2>6. verdict_of(c) # "Regressed"
    BY <2>1, <2>4, <2>5
  <2>7. ~(now[c] + TOLERANCE_PP < 2 * floor[c])
    BY <2>6 DEF verdict_of
  <2>8. now[c] + TOLERANCE_PP >= 2 * floor[c]
    BY <2>3, <2>7, SMT
  <2> QED
    BY <2>2, <2>5, <2>8
<1>3. FloorsHold'
  BY <1>1, <1>2 DEF FloorsHold, Measured
<1> QED
  BY <1>1, <1>3 DEF FloorsInv, Accounted

\* An update that is not refused stores the floor that stands, or one a hundredth
\* lower than a figure it judged: a figure below the floor in the file has its note.
LEMMA UpdateAuthorises ==
    ASSUME FloorsInv, NEW drop, ~Refused(drop), NEW c \in Crates,
           NEW mk, mk = IF Judged(c) THEN Standing(c) ELSE mark[c],
           NEW sl, sl = IF Judged(c) THEN Slipped(c) ELSE slips[c] \cup Slipped(c)
    PROVE  /\ mk \in Int /\ render_baseline(c) \in Int
           /\ mk >= 0 => /\ Measured(c) /\ now[c] + TOLERANCE_PP >= 2 * render_baseline(c)
                         /\ render_baseline(c) \in 0 .. mk
                         /\ (render_baseline(c) + 1) .. mk \subseteq sl
<1>1. /\ floor[c] \in Int /\ now[c] \in Int /\ mark[c] \in Int /\ TOLERANCE_PP \in Nat \ {0}
  BY CoverageAssumption, SMT DEF FloorsInv
<1>2. CASE ~Measured(c)
  <2>1. Judged(c) /\ Standing(c) = NoFloor /\ render_baseline(c) = NoFloor
    BY <1>2 DEF Judged, Standing, render_baseline
  <2>2. NoFloor \in Int /\ ~(NoFloor >= 0)
    BY SMT DEF NoFloor
  <2> QED
    BY <2>1, <2>2
<1>3. CASE Measured(c)
  <2>1. PICK r : r = round2(now[c])
    OBVIOUS
  <2>2. PICK w : w = render_baseline(c)
    OBVIOUS
  <2>3. w = format2(now[c])
    BY <1>3, <2>2 DEF render_baseline
  <2>4. now[c] >= 0
    BY <1>3 DEF Measured
  <2>5. /\ r \in Int /\ w \in Int /\ 2 * w <= now[c] + 1 /\ (w = r \/ w = r - 1)
        /\ r >= 0 /\ w >= 0
    BY <1>1, <2>1, <2>3, <2>4, RoundingLoss
  <2>6. now[c] + TOLERANCE_PP >= 2 * w /\ w <= r
    BY <1>1, <2>5, SMT
  <2>7. Slipped(c) = IF w < r THEN {r} ELSE {}
    BY <1>3, <2>1, <2>2 DEF Slipped
  <2>8. CASE Judged(c)
    <3>1. mk = r /\ sl = Slipped(c)
      BY <1>3, <2>1, <2>8 DEF Standing
    <3>2. w \in 0 .. r /\ (w + 1) .. r \subseteq Slipped(c)
      BY <2>5, <2>7, SMT
    <3> QED
      BY <1>3, <2>2, <2>5, <2>6, <3>1, <3>2
  <2>9. CASE ~Judged(c)
    <3>1. mk = mark[c] /\ sl = slips[c] \cup Slipped(c)
      BY <2>9
    <3>2. ~(mark[c] <= r) /\ existing_notes(c) # r
      BY <2>1, <2>9 DEF Judged
    <3>3. r < mark[c] /\ mark[c] >= 0
      BY <1>1, <2>5, <3>2, SMT
    <3>4. floor[c] \in 0 .. mark[c] /\ (floor[c] + 1) .. mark[c] \subseteq slips[c]
      BY <3>3 DEF FloorsInv, Accounted, Refused, reject_malformed
    <3>5. HasFloor(c)
      BY <1>1, <3>4, SMT DEF HasFloor
    <3>6. ~(r < floor[c])
      BY <1>3, <2>1, <3>2, <3>5 DEF Refused, lowering_without_reason
    <3>7. w \in 0 .. mark[c] /\ (w + 1) .. mark[c] \subseteq (slips[c] \cup Slipped(c))
      BY <1>1, <2>5, <2>7, <3>3, <3>4, <3>6, SMT
    <3> QED
      BY <1>1, <1>3, <2>2, <2>5, <2>6, <3>1, <3>7
  <2> QED
    BY <2>8, <2>9
<1> QED
  BY <1>2, <1>3

\* Notes are carried over as numbers.
LEMMA NotesStay ==
    ASSUME FloorsInv, NEW c \in Crates
    PROVE  existing_notes(c) \in Int
<1>1. NoNote \in Int
  BY SMT DEF NoNote
<1> QED
  BY <1>1 DEF existing_notes, FloorsInv

\* check with --update keeps the floors, whether it refuses or rewrites.
LEMMA UpdateKeeps ==
    ASSUME FloorsInv, NEW drop \in SUBSET Crates, Update(drop)
    PROVE  FloorsInv'
<1>1. CASE Refused(drop)
  <2>1. /\ floor' = floor /\ note' = note /\ now' = now /\ mark' = mark /\ slips' = slips
        /\ outcome' = "failed"
    BY <1>1 DEF Update
  <2> QED
    BY <2>1 DEF FloorsInv, FloorsHold, Accounted
<1>2. CASE ~Refused(drop)
  <2>1. /\ floor' = [c \in Crates |-> render_baseline(c)]
        /\ note' = [c \in Crates |-> IF Measured(c) THEN existing_notes(c) ELSE NoNote]
        /\ now' = now
        /\ \A c \in Crates : /\ mark'[c] = IF Judged(c) THEN Standing(c) ELSE mark[c]
                             /\ slips'[c] = IF Judged(c) THEN Slipped(c) ELSE slips[c] \cup Slipped(c)
        /\ mark' = [c \in Crates |-> mark'[c]]
    BY <1>2 DEF Update, Rewrite
  <2>2. NoNote \in Int
    BY SMT DEF NoNote
  <2>3. \A c \in Crates :
          /\ mark'[c] \in Int /\ render_baseline(c) \in Int
          /\ mark'[c] >= 0 => /\ Measured(c) /\ now[c] + TOLERANCE_PP >= 2 * render_baseline(c)
                              /\ render_baseline(c) \in 0 .. mark'[c]
                              /\ (render_baseline(c) + 1) .. mark'[c] \subseteq slips'[c]
    BY <1>2, <2>1, UpdateAuthorises
  <2>4. floor' \in [Crates -> Int] /\ mark' \in [Crates -> Int] /\ note' \in [Crates -> Int]
    BY <2>1, <2>2, <2>3, NotesStay
  <2>5. \A c \in Crates : Accounted(c)'
    BY <2>1, <2>3 DEF Accounted
  <2>6. FloorsHold'
    BY <2>1, <2>3 DEF FloorsHold, Measured
  <2> QED
    BY <2>1, <2>4, <2>5, <2>6 DEF FloorsInv
<1> QED
  BY <1>1, <1>2

\* A rewrite cut short keeps the floors it has written whole and claims nothing of the
\* others.
LEMMA TornKeeps ==
    ASSUME FloorsInv, NEW drop \in SUBSET Crates, UpdateTorn(drop)
    PROVE  FloorsInv'
<1>0. NoNote \in Int /\ NoFloor \in Int /\ Unreadable \in Int /\ ~(NoFloor >= 0)
  BY SMT DEF NoNote, NoFloor, Unreadable
<1>1. ~Refused(drop) /\ outcome' = "failed"
  BY DEF UpdateTorn
<1>2. PICK whole \in SUBSET Crates : \E d \in Crates \ whole :
        \E f \in IF Measured(d) THEN {NoFloor, Unreadable} \cup 0 .. render_baseline(d) ELSE {NoFloor} :
           /\ floor' = [c \in Crates |-> IF c \in whole THEN render_baseline(c)
                                         ELSE IF c = d THEN f ELSE NoFloor]
           /\ note' = [c \in Crates |-> IF floor'[c] = NoFloor THEN NoNote ELSE existing_notes(c)]
           /\ Rewrite(whole)
  BY DEF UpdateTorn
<1>3. PICK d \in Crates \ whole :
        \E f \in IF Measured(d) THEN {NoFloor, Unreadable} \cup 0 .. render_baseline(d) ELSE {NoFloor} :
           /\ floor' = [c \in Crates |-> IF c \in whole THEN render_baseline(c)
                                         ELSE IF c = d THEN f ELSE NoFloor]
           /\ note' = [c \in Crates |-> IF floor'[c] = NoFloor THEN NoNote ELSE existing_notes(c)]
           /\ Rewrite(whole)
  BY <1>2
<1>4. PICK f \in IF Measured(d) THEN {NoFloor, Unreadable} \cup 0 .. render_baseline(d) ELSE {NoFloor} :
           /\ floor' = [c \in Crates |-> IF c \in whole THEN render_baseline(c)
                                         ELSE IF c = d THEN f ELSE NoFloor]
           /\ note' = [c \in Crates |-> IF floor'[c] = NoFloor THEN NoNote ELSE existing_notes(c)]
           /\ Rewrite(whole)
  BY <1>3
<1>5. f \in Int
  <2>1. \A n : n \in 0 .. render_baseline(d) => n \in Int
    BY SMT
  <2> QED
    BY <1>0, <1>4, <2>1
<1>6. /\ \A c \in whole : /\ mark'[c] = IF Judged(c) THEN Standing(c) ELSE mark[c]
                          /\ slips'[c] = IF Judged(c) THEN Slipped(c) ELSE slips[c] \cup Slipped(c)
      /\ \A c \in Crates : c \notin whole => mark'[c] = NoFloor
      /\ mark' = [c \in Crates |-> mark'[c]] /\ now' = now
  BY <1>2, <1>4 DEF Rewrite
<1>7. \A c \in Crates :
        /\ render_baseline(c) \in Int
        /\ c \in whole =>
             /\ mark'[c] \in Int
             /\ mark'[c] >= 0 => /\ render_baseline(c) \in 0 .. mark'[c]
                                 /\ (render_baseline(c) + 1) .. mark'[c] \subseteq slips'[c]
  BY <1>1, <1>2, <1>6, UpdateAuthorises
<1>8. floor' \in [Crates -> Int] /\ mark' \in [Crates -> Int]
  BY <1>0, <1>4, <1>5, <1>6, <1>7
<1>9. note' \in [Crates -> Int]
  BY <1>0, <1>4, NotesStay
<1>10. ASSUME NEW c \in Crates PROVE Accounted(c)'
  <2>1. CASE c \in whole
    <3>1. floor'[c] = render_baseline(c)
      BY <1>4, <2>1
    <3> QED
      BY <1>7, <2>1, <3>1 DEF Accounted
  <2>2. CASE c \notin whole
    BY <1>0, <1>6, <2>2 DEF Accounted
  <2> QED
    BY <2>1, <2>2
<1> QED
  BY <1>1, <1>6, <1>8, <1>9, <1>10 DEF FloorsInv, FloorsHold

\* An edit by hand and a change of the code claim nothing.
LEMMA EditsKeep ==
    ASSUME FloorsInv, \E c \in Crates : CodeChanges(c) \/ WriteNote(c) \/ Garble(c)
    PROVE  FloorsInv'
<1>0. Unmeasured \in Int /\ Unreadable \in Int
  BY SMT DEF Unmeasured, Unreadable
<1>2. ASSUME NEW c \in Crates, CodeChanges(c) PROVE FloorsInv'
  <2>1. PICK m \in Int : now' = [now EXCEPT ![c] = m]
    BY <1>0, <1>2, CoverageAssumption, SMT DEF CodeChanges
  <2>2. now' \in [Crates -> Int]
    BY <2>1 DEF FloorsInv
  <2> QED
    BY <1>2, <2>2 DEF CodeChanges, FloorsInv, FloorsHold, Accounted
<1>3. ASSUME NEW c \in Crates, WriteNote(c) PROVE FloorsInv'
  <2>0. PICK f \in 0..MaxFloor : note' = [note EXCEPT ![c] = f]
    BY <1>3 DEF WriteNote
  <2>1. f \in Int
    BY <2>0, CoverageAssumption, SMT
  <2>2. note' \in [Crates -> Int]
    BY <2>0, <2>1 DEF FloorsInv
  <2> QED
    BY <1>3, <2>2 DEF WriteNote, FloorsInv, FloorsHold, Accounted
<1>4. ASSUME NEW c \in Crates, Garble(c) PROVE FloorsInv'
  <2>1. floor' = [floor EXCEPT ![c] = Unreadable]
    BY <1>4 DEF Garble
  <2>2. floor' \in [Crates -> Int]
    BY <1>0, <2>1 DEF FloorsInv
  <2>3. \A d \in Crates : floor'[d] = floor[d] \/ floor'[d] = Unreadable
    BY <2>1 DEF FloorsInv
  <2>4. mark' = mark /\ slips' = slips
    BY <1>4 DEF Garble
  <2>5. \A d \in Crates : Accounted(d)'
    BY <2>3, <2>4 DEF FloorsInv, Accounted
  <2> QED
    BY <1>4, <2>2, <2>5 DEF Garble, FloorsInv, FloorsHold
<1> QED
  BY <1>2, <1>3, <1>4

\* The ratchet slides only where two roundings differ: a green `cargo xtask coverage`
\* means every crate is within the tolerance of its last authorised floor less the
\* hundredths that updates judged and stored one lower, for any crates, any tolerance
\* that covers the rounding of coverage.rs and whichever halves `{:.2}` takes down.
THEOREM FloorsStand == Spec => []FloorsHold
<1>1. ASSUME Init PROVE FloorsInv
  <2>1. /\ floor \in [Crates -> {NoFloor, MaxFloor}]
        /\ note = [c \in Crates |-> NoNote]
        /\ now = [c \in Crates |-> 2 * MaxFloor]
        /\ outcome = "none" /\ mark = floor
    BY <1>1 DEF Init, CoverageInit
  <2>2. NoNote \in Int /\ NoFloor \in Int /\ MaxFloor \in Int /\ 2 * MaxFloor \in Int
    BY CoverageAssumption, SMT DEF NoNote, NoFloor
  <2>3. floor \in [Crates -> Int]
    BY <2>1, <2>2
  <2>4. note \in [Crates -> Int] /\ now \in [Crates -> Int]
    BY <2>1, <2>2
  <2>5. \A n \in Int : n >= 0 => n \in 0 .. n /\ (n + 1) .. n = {}
    BY SMT
  <2>6. \A c \in Crates : Accounted(c)
    BY <2>1, <2>3, <2>5 DEF Accounted
  <2> QED
    BY <2>1, <2>3, <2>4, <2>6 DEF FloorsInv, FloorsHold
<1>2. ASSUME FloorsInv, [Next]_vars PROVE FloorsInv'
  <2>1. CASE UNCHANGED baseline
    BY <1>2, <2>1 DEF baseline, FloorsInv, FloorsHold, Measured, Accounted
  <2>2. CASE CoverageNext
    BY <1>2, <2>2, CheckKeeps, UpdateKeeps, TornKeeps, EditsKeep DEF CoverageNext
  <2> QED
    BY <1>2, <2>1, <2>2, BaselineStep
<1>3. FloorsInv => FloorsHold
  BY DEF FloorsInv
<1> QED
  BY <1>1, <1>2, <1>3, PTL DEF Spec

----------------------------------------------------------------------------
(* What is staged for QEMU. *)

\* Steps of a command from the loader's verification to the boot.
Verified == {"check", "copy", "copying", "stamp", "stamping", "init", "prune", "disk", "generate",
             "generating", "boot", "qemu"}
Copied == {"init", "prune", "disk", "generate", "generating", "boot", "qemu"}
Pruned == {"disk", "generate", "generating", "boot", "qemu"}

\* What image.rs has established at each step: a stamp names the kernel beside
\* it, except between a copy and its stamp.
StagedInv ==
    /\ at # "idle" => want \in Kernels
    /\ ~unstamped /\ at # "stamp" /\ stamp \in Kernels /\ kernel \in Kernels => kernel = stamp
    /\ at \in Verified => limine = "pinned"
    /\ at \in {"stamp", "stamping"} => kernel = want
    /\ at = "stamping" => stamp = Torn
    /\ at \in Copied => kernel \in Kernels /\ (~unstamped => kernel = want)
    /\ at \in Pruned => ~stray
    /\ at \in {"boot", "qemu"} => disk = "image"

\* The loader is checked out and verified before anything is staged.
LEMMA LoaderStaged ==
    ASSUME StagedInv, limine_clone \/ limine_checkout \/ limine_verify
    PROVE  StagedInv'
<1>1. CASE limine_clone
  BY <1>1, SMT DEF StagedInv, limine_clone, Go, Verified, Copied, Pruned
<1>2. CASE limine_checkout
  BY <1>2, SMT DEF StagedInv, limine_checkout, Go, Verified, Copied, Pruned
<1>3. CASE limine_verify
  <2>1. CASE digest_matches
    BY <1>3, <2>1, SMT DEF StagedInv, limine_verify, digest_matches, Go, Verified, Copied, Pruned, files
  <2>2. CASE ~digest_matches
    BY <1>3, <2>2, SMT DEF StagedInv, limine_verify, Go, Verified, Copied, Pruned, files
  <2> QED
    BY <2>1, <2>2
<1> QED
  BY <1>1, <1>2, <1>3

\* copy_if_changed leaves the requested kernel, and a stamp that is its own.
LEMMA KernelStaged ==
    ASSUME StagedInv,
           \/ copy_check \/ copy_begin \/ copy_end \/ stamp_begin \/ stamp_end \/ stamp_remove
    PROVE  StagedInv'
<1>1. CASE copy_check
  <2>1. CASE fresh
    BY <1>1, <2>1, SMT DEF StagedInv, copy_check, fresh, SameLength, Go, Verified, Copied, Pruned, files
  <2>2. CASE ~fresh
    BY <1>1, <2>2, SMT DEF StagedInv, copy_check, Go, Verified, Copied, Pruned, files
  <2> QED
    BY <2>1, <2>2
<1>2. CASE copy_begin
  BY <1>2, StagingAssumption, SMT DEF StagedInv, copy_begin, Go, Verified, Copied, Pruned
<1>3. CASE copy_end
  BY <1>3, SMT DEF StagedInv, copy_end, Go, Verified, Copied, Pruned
<1>4. CASE stamp_begin
  BY <1>4, StagingAssumption, SMT DEF StagedInv, stamp_begin, Go, Verified, Copied, Pruned
<1>5. CASE stamp_end
  BY <1>5, SMT DEF StagedInv, stamp_end, Go, Verified, Copied, Pruned
<1>6. CASE stamp_remove
  BY <1>6, StagingAssumption, SMT DEF StagedInv, stamp_remove, Go, Verified, Copied, Pruned
<1> QED
  BY <1>1, <1>2, <1>3, <1>4, <1>5, <1>6

\* The rest of the partition, the test disk, and a command killed on its way.
LEMMA RestStaged ==
    ASSUME StagedInv, build_init \/ prune_unexpected \/ disk_check \/ disk_write \/ Killed
    PROVE  StagedInv'
<1>1. CASE build_init
  BY <1>1, SMT DEF StagedInv, build_init, Go, Verified, Copied, Pruned, files
<1>2. CASE prune_unexpected
  BY <1>2, SMT DEF StagedInv, prune_unexpected, Go, Verified, Copied, Pruned
<1>3. CASE disk_check
  <2>1. CASE disk = "image"
    BY <1>3, <2>1, SMT DEF StagedInv, disk_check, Go, Verified, Copied, Pruned, files
  <2>2. CASE disk # "image"
    BY <1>3, <2>2, SMT DEF StagedInv, disk_check, Go, Verified, Copied, Pruned, files
  <2> QED
    BY <2>1, <2>2
<1>4. CASE disk_write
  BY <1>4, SMT DEF StagedInv, disk_write, Go, Verified, Copied, Pruned
<1>5. CASE Killed
  <2>1. ~unstamped' => ~unstamped /\ at # "stamp"
    BY <1>5 DEF Killed
  <2>2. at' = "idle" /\ kernel' = kernel /\ stamp' = stamp
    BY <1>5 DEF Killed
  <2>3. ~unstamped' /\ stamp' \in Kernels /\ kernel' \in Kernels => kernel' = stamp'
    BY <2>1, <2>2 DEF StagedInv
  <2> QED
    BY <2>2, <2>3 DEF StagedInv, Verified, Copied, Pruned
<1> QED
  BY <1>1, <1>2, <1>3, <1>4, <1>5

\* Of the commands of main.rs, those that do not stage move `at` only from a
\* boot to QEMU, from QEMU to the next staging, and from anywhere to the end.
LEMMA CommandsStaged ==
    ASSUME StagedInv, Next, ~Stage, ~Kill
    PROVE  StagedInv'
<1>1. CASE Start
  <2>1. want' \in Kernels
    <3>1. (CHOOSE k \in Kernels : TRUE) \in Kernels
      BY StagingAssumption
    <3> QED
      BY <1>1, <3>1 DEF Start
  <2> QED
    BY <1>1, <2>1, SMT DEF StagedInv, Start, Verified, Copied, Pruned, files
<1>2. CASE Spawn
  BY <1>2, SMT DEF StagedInv, Spawn, Verified, Copied, Pruned, files
<1>3. CASE NextBoot
  BY <1>3, StagingAssumption, SMT DEF StagedInv, NextBoot, Verified, Copied, Pruned
<1>4. ASSUME at' = "idle", UNCHANGED files, at # "stamp" PROVE StagedInv'
  BY <1>4, SMT DEF StagedInv, Verified, Copied, Pruned, files
<1>5. CASE Reap \/ Timeout \/ Refuse \/ Gates
  <2>1. at' = "idle" /\ UNCHANGED files
    BY <1>5 DEF Reap, Timeout, Refuse, Gates, Conclude
  <2>2. at # "stamp"
    BY <1>5, SMT DEF Reap, Timeout, Refuse, Gates
  <2> QED
    BY <1>4, <2>1, <2>2
<1>6. CASE Kernel \/ QemuEnds \/ AttestCommand \/ CoverageCommand
  <2>1. UNCHANGED staging
    BY <1>6 DEF Kernel, QemuEnds, AttestCommand, CoverageCommand
  <2> QED
    BY <2>1, SMT DEF staging, files, StagedInv, Verified, Copied, Pruned
<1> QED
  BY <1>1, <1>2, <1>3, <1>5, <1>6 DEF Next

\* QEMU boots the kernel the command was given, with the pinned loader, a pruned
\* partition and a whole disk, whatever commands came before and wherever they
\* were killed (image.rs: build_esp, copy_if_changed, build_test_disk), unless
\* one was killed between a copy and its stamp.
THEOREM StagingHolds == Spec => []StagedIsRequested
<1>1. ASSUME Init PROVE StagedInv
  <2>1. at = "idle" /\ kernel = Missing
    BY <1>1 DEF Init, StagingInit
  <2> QED
    BY <2>1, StagingAssumption, SMT DEF StagedInv, Verified, Copied, Pruned
<1>2. ASSUME StagedInv, [Next]_vars PROVE StagedInv'
  <2>1. CASE Next /\ ~Stage /\ ~Kill
    BY <1>2, <2>1, CommandsStaged
  <2>2. CASE Stage
    <3>1. StagingStep
      BY <2>2 DEF Stage
    <3> QED
      BY <1>2, <3>1, LoaderStaged, KernelStaged, RestStaged DEF StagingStep
  <2>3. CASE Kill
    <3>1. Killed
      BY <2>3 DEF Kill
    <3> QED
      BY <1>2, <3>1, RestStaged
  <2>4. CASE UNCHANGED vars
    <3>1. UNCHANGED staging
      BY <2>4 DEF vars
    <3> QED
      BY <1>2, <3>1, SMT DEF staging, files, StagedInv, Verified, Copied, Pruned
  <2> QED
    BY <1>2, <2>1, <2>2, <2>3, <2>4
<1>3. ASSUME StagedInv PROVE StagedIsRequested
  BY <1>3, SMT DEF StagedInv, StagedIsRequested, Verified, Copied, Pruned
<1> QED
  BY <1>1, <1>2, <1>3, PTL DEF Spec

----------------------------------------------------------------------------
(* The contribution gate. *)

PullsAttested(entries) ==
    \A i \in 1..Len(entries) : entries[i].via = "pull" => entries[i].attested

\* What the history of green checks says about both clones and about the pull
\* request that may be merged next.
GreenInv ==
    /\ head \in Seq(Entry) /\ origin \in Seq(Entry) /\ created \in Nat
    /\ green => PullsAttested(head) /\ PullsAttested(origin)
    /\ green => \A i \in created + 1 .. Len(origin) : origin[i].kind = "merge"
    /\ last.event = "pull_request" /\ last.added # << >> =>
         /\ Len(last.added) > 0 /\ last.added[1] \in Entry
         /\ green => last.added[1].kind = "merge" /\ last.added[1].attested

\* Only attest commands and git move the branches.
LEMMA RepoStep ==
    ASSUME [Next]_vars
    PROVE  AttestNext \/ UNCHANGED repo
<1>1. CASE Next
  BY <1>1 DEF Next, Start, Stage, Kill, Spawn, Kernel, QemuEnds, Reap, NextBoot, Timeout,
     Refuse, Gates, AttestCommand, CoverageCommand, Conclude
<1>2. CASE UNCHANGED vars
  BY <1>2 DEF vars
<1> QED
  BY <1>1, <1>2

\* CountDirect counts nothing only where everything is a merge.
LEMMA NoneDirect ==
    ASSUME NEW s \in Seq(Entry), ~(CountDirect(s) > 0), NEW i \in 1..Len(s)
    PROVE  s[i].kind = "merge"
<1> DEFINE direct == {j \in DOMAIN s : s[j].kind = "commit"}
<1>1. DOMAIN s = 1..Len(s) /\ Len(s) \in Nat /\ s[i] \in Entry
  BY SMT
<1>2. IsFiniteSet(1..Len(s))
  BY <1>1, FS_Interval, SMT
<1>3. IsFiniteSet(direct)
  BY <1>1, <1>2, FS_Subset
<1>4. Cardinality(direct) \in Nat
  BY <1>3, FS_CardinalityType
<1>5. Cardinality(direct) = 0
  BY <1>4, SMT DEF CountDirect
<1>6. direct = {}
  BY <1>3, <1>5, FS_EmptySet
<1>7. s[i].kind # "commit"
  BY <1>1, <1>6
<1>8. s[i].kind \in {"commit", "merge"}
  BY <1>1 DEF Entry
<1> QED
  BY <1>7, <1>8

\* A push to the branch that passes its check extends it, with merges alone: a
\* forced push is refused by range_for_before and a direct commit by the count.
LEMMA PassedPush ==
    ASSUME NEW old \in Seq(Entry), NEW new \in Seq(Entry), old # << >>,
           check(PushEvent(old, new)) \in {"ok", "skip"}
    PROVE  /\ IsAncestor(old, new)
           /\ \A i \in Len(old) + 1 .. Len(new) : new[i].kind = "merge"
<1>1. PICK env : env = PushEvent(old, new)
  OBVIOUS
<1>2. /\ env.event = "push" /\ env.named = "HEAD" /\ env.ref_name = "develop"
      /\ env.before = "sha" /\ env.old = old /\ env.tree = new /\ env.hasBase = TRUE
  BY <1>1 DEF PushEvent, Env
<1>3. protected_candidate(env) = "develop"
  BY <1>2 DEF protected_candidate, resolve_branch, Absent
<1>4. protected_fires(env.event, protected_candidate(env))
  BY <1>2, <1>3 DEF protected_fires, protected_applies, Protected
<1>5. ~(range_for_before(env) # "refuse" => pushed(env) > 0)
  BY <1>1, <1>2, <1>4 DEF check
<1>6. usable_before(env.before)
  BY <1>2 DEF usable_before, Absent
<1>7. IsAncestor(old, new)
  BY <1>2, <1>5, <1>6 DEF range_for_before
<1>8. range_for_before(env) = "range"
  BY <1>2, <1>6, <1>7 DEF range_for_before
<1>9. ~(CountDirect(After(old, new)) > 0)
  BY <1>2, <1>5, <1>8 DEF pushed
<1>10. Len(old) <= Len(new) /\ Len(old) \in Nat /\ Len(new) \in Nat
  BY <1>7, SMT DEF IsAncestor
<1>11. /\ After(old, new) \in Seq(Entry) /\ Len(After(old, new)) = Len(new) - Len(old)
       /\ \A i \in 1..(Len(new) - Len(old)) : After(old, new)[i] = new[Len(old) + i]
  BY <1>10, SMT DEF After
<1>12. ASSUME NEW i \in Len(old) + 1 .. Len(new) PROVE new[i].kind = "merge"
  <2>1. PICK j \in 1..(Len(new) - Len(old)) : i = Len(old) + j
    <3>1. i - Len(old) \in 1..(Len(new) - Len(old)) /\ i = Len(old) + (i - Len(old))
      BY <1>10, SMT
    <3> QED
      BY <3>1
  <2>2. After(old, new)[j].kind = "merge"
    BY <1>9, <1>11, NoneDirect
  <2> QED
    BY <1>11, <2>1, <2>2
<1> QED
  BY <1>7, <1>12

\* A pull request against the branch that passes is attested: its merge is what
\* the default range adds to the base, and a missing base is fatal upstream.
LEMMA PassedPull ==
    ASSUME origin \in Seq(Entry), NEW topic \in Entry, NEW hasBase \in BOOLEAN,
           check(PullEvent(topic, hasBase, UpstreamRepo)) \in {"ok", "skip"}
    PROVE  topic.attested
<1>1. PICK env : env = PullEvent(topic, hasBase, UpstreamRepo)
  OBVIOUS
<1>2. /\ env.event = "pull_request" /\ env.base = origin /\ env.tree = Append(origin, topic)
      /\ env.hasBase = hasBase /\ env.ci = TRUE /\ env.repository = UpstreamRepo
  BY <1>1 DEF PullEvent, Env
<1>3. hasBase
  <2>1. missing_base_is_fatal(env.ci, env.repository)
    BY <1>2 DEF missing_base_is_fatal
  <2> QED
    BY <1>1, <1>2, <2>1 DEF check
<1>4. ~protected_fires(env.event, protected_candidate(env))
  BY <1>2 DEF protected_fires, protected_applies, Absent
<1>5. attested(DefaultRange(env))
  BY <1>1, <1>2, <1>3, <1>4 DEF check
<1>6. PICK n : n = Len(origin)
  OBVIOUS
<1>7. n \in Nat /\ n \in 0..n /\ Len(Append(origin, topic)) = n + 1
  BY <1>6, SMT
<1>8. \A i \in 1..n : origin[i] = Append(origin, topic)[i]
  BY <1>6, SMT
<1>9. Append(origin, topic)[n + 1] = topic
  BY <1>6, SMT
<1>10. PICK b : b = Append(origin, topic)
  OBVIOUS
<1> DEFINE P(k) == /\ k <= Len(b) /\ \A i \in 1..k : origin[i] = b[i]
                   /\ k = Len(origin) \/ k = Len(b) \/ origin[k + 1] # b[k + 1]
<1>11. P(n)
  <2>1. n <= Len(b)
    BY <1>7, <1>10, SMT
  <2> QED
    BY <1>6, <1>8, <1>10, <2>1
<1>12. ASSUME NEW k \in 0..n, P(k) PROVE k = n
  <2>1. SUFFICES ASSUME k # n PROVE FALSE
    BY SMT
  <2>2. k + 1 \in 1..n /\ k # Len(b)
    BY <1>7, <1>10, <2>1, SMT
  <2>3. origin[k + 1] = b[k + 1]
    BY <1>8, <1>10, <2>2
  <2> QED
    BY <1>6, <1>12, <2>1, <2>2, <2>3
<1>13. Shared(origin, b) = n
  <2>1. Shared(origin, b) = CHOOSE k \in 0..n : P(k)
    BY <1>6 DEF Shared
  <2> HIDE DEF P
  <2>2. \E k \in 0..n : P(k)
    BY <1>7, <1>11
  <2>3. (CHOOSE k \in 0..n : P(k)) \in 0..n /\ P(CHOOSE k \in 0..n : P(k))
    BY <2>2
  <2> QED
    BY <1>12, <2>1, <2>3
<1>14. DefaultRange(env) = SubSeq(b, n + 1, n + 1)
  BY <1>2, <1>7, <1>10, <1>13 DEF DefaultRange
<1>15. b \in Seq(Entry) /\ Len(b) = n + 1 /\ b[n + 1] = topic
  BY <1>7, <1>9, <1>10, SMT
<1>16. 1 \in DOMAIN SubSeq(b, n + 1, n + 1) /\ SubSeq(b, n + 1, n + 1)[1] = topic
  BY <1>7, <1>15, SMT
<1> QED
  BY <1>5, <1>14, <1>16 DEF attested

\* A check that leaves the history green passed, or ran in a fork.
LEMMA RecordedGreen ==
    ASSUME NEW env, NEW added, Record(env, added)
    PROVE  /\ last'.event = env.event /\ last'.added = added
           /\ green' => green /\ (env.repository = UpstreamRepo => check(env) \in {"ok", "skip"})
BY DEF Record

\* The developer's own clone only gains pushed entries, and loses or copies others.
LEMMA LocalWorkGreen ==
    ASSUME GreenInv, Work \/ Rewind \/ LocalCheck
    PROVE  GreenInv'
<1>1. CASE Work
  <2>1. PICK e \in Entry : head' = Append(head, e) /\ e.via = "push"
    <3>1. PICK k \in {"commit", "merge"}, a \in BOOLEAN :
            head' = Append(head, [kind |-> k, attested |-> a, via |-> "push"])
      BY <1>1 DEF Work
    <3>2. [kind |-> k, attested |-> a, via |-> "push"] \in Entry
      BY DEF Entry
    <3> QED
      BY <3>1, <3>2
  <2>2. head' \in Seq(Entry) /\ Len(head') = Len(head) + 1 /\ Len(head) \in Nat
    BY <2>1, SMT DEF GreenInv
  <2>3. \A i \in 1..Len(head') : (i \in 1..Len(head) /\ head'[i] = head[i]) \/ head'[i] = e
    BY <2>1, <2>2, SMT DEF GreenInv
  <2>4. green => PullsAttested(head')
    BY <2>1, <2>3 DEF GreenInv, PullsAttested
  <2>5. UNCHANGED <<origin, created, green, last>>
    BY <1>1 DEF Work
  <2> QED
    BY <2>2, <2>4, <2>5 DEF GreenInv, PullsAttested
<1>2. CASE Rewind
  <2>1. UNCHANGED <<origin, created, green, last>>
    BY <1>2 DEF Rewind
  <2>2. CASE head' = origin
    BY <2>1, <2>2 DEF GreenInv, PullsAttested
  <2>3. CASE head' = SubSeq(head, 1, Len(head) - 1)
    <3>1. head # << >> /\ head \in Seq(Entry)
      BY <1>2 DEF Rewind, GreenInv
    <3>2. head' \in Seq(Entry) /\ \A i \in 1..Len(head') : i \in 1..Len(head) /\ head'[i] = head[i]
      BY <2>3, <3>1, SMT
    <3>3. green => PullsAttested(head')
      BY <3>2 DEF GreenInv, PullsAttested
    <3> QED
      BY <2>1, <3>2, <3>3 DEF GreenInv, PullsAttested
  <2> QED
    BY <1>2, <2>2, <2>3 DEF Rewind
<1>3. CASE LocalCheck
  <2>1. UNCHANGED <<head, origin, created, green>> /\ last'.event = "local"
    BY <1>3 DEF LocalCheck
  <2> QED
    BY <2>1 DEF GreenInv, PullsAttested
<1> QED
  BY <1>1, <1>2, <1>3

\* git push: the check that leaves the history green saw an extension by merges,
\* or the branch's creation.
LEMMA PushGreen ==
    ASSUME GreenInv, Push
    PROVE  GreenInv'
<1>1. /\ head \in Seq(Entry) /\ origin \in Seq(Entry) /\ created \in Nat
      /\ origin' = head /\ head' = head
      /\ created' = IF origin = << >> THEN Len(head) ELSE created
  BY DEF GreenInv, Push
<1>2. Len(head) \in Nat
  BY <1>1, SMT
<1>3. created' \in Nat
  BY <1>1, <1>2
<1>4. Record(PushEvent(origin, head), IF IsAncestor(origin, head) THEN After(origin, head) ELSE head)
  BY DEF Push
<1>5. PushEvent(origin, head).repository = UpstreamRepo /\ PushEvent(origin, head).event = "push"
  BY DEF PushEvent, Env
<1>6. /\ last'.event = "push"
      /\ green' => green /\ check(PushEvent(origin, head)) \in {"ok", "skip"}
  BY <1>4, <1>5, RecordedGreen
<1>7. ASSUME green', NEW i \in created' + 1 .. Len(origin') PROVE origin'[i].kind = "merge"
  <2>1. CASE origin = << >>
    BY <1>1, <1>2, <1>7, <2>1, SMT
  <2>2. CASE origin # << >>
    <3>1. /\ IsAncestor(origin, head)
          /\ \A j \in Len(origin) + 1 .. Len(head) : head[j].kind = "merge"
      BY <1>1, <1>6, <1>7, <2>2, PassedPush
    <3>2. i \in Int /\ i >= created + 1 /\ i <= Len(head) /\ Len(origin) \in Nat
      BY <1>1, <1>2, <1>7, <2>2, SMT
    <3>3. CASE i > Len(origin)
      <4>1. i \in Len(origin) + 1 .. Len(head)
        BY <1>2, <3>2, <3>3, SMT
      <4> QED
        BY <1>1, <3>1, <4>1
    <3>4. CASE ~(i > Len(origin))
      <4>1. i \in created + 1 .. Len(origin) /\ i \in 1..Len(origin)
        BY <1>1, <3>2, <3>4, SMT
      <4>2. origin[i].kind = "merge"
        BY <1>6, <1>7, <4>1 DEF GreenInv
      <4>3. head[i] = origin[i]
        <5>1. Len(origin) <= Len(head) /\ SubSeq(head, 1, Len(origin)) = origin
          BY <3>1 DEF IsAncestor
        <5>2. SubSeq(head, 1, Len(origin))[i] = head[i]
          BY <1>1, <3>2, <4>1, <5>1, SMT
        <5> QED
          BY <5>1, <5>2
      <4> QED
        BY <1>1, <4>2, <4>3
    <3> QED
      BY <3>3, <3>4
  <2> QED
    BY <2>1, <2>2
<1>8. green' => PullsAttested(head')
  BY <1>1, <1>6 DEF GreenInv
<1>9. green' => PullsAttested(origin')
  BY <1>1, <1>6 DEF GreenInv
<1>10. last'.event # "pull_request"
  BY <1>6
<1> QED
  BY <1>1, <1>3, <1>7, <1>8, <1>9, <1>10 DEF GreenInv, PullsAttested

\* A pull request is checked before it can be merged; a fork's check says
\* nothing about this repository.
LEMMA PullGreen ==
    ASSUME GreenInv, PullRequest \/ ForkRun
    PROVE  GreenInv'
<1>1. UNCHANGED <<head, origin, created>>
  BY DEF PullRequest, ForkRun
<1>2. CASE PullRequest
  <2>1. PICK a \in BOOLEAN, hasBase \in BOOLEAN :
          Record(PullEvent([kind |-> "merge", attested |-> a, via |-> "pull"], hasBase, UpstreamRepo),
                 <<[kind |-> "merge", attested |-> a, via |-> "pull"]>>)
    BY <1>2 DEF PullRequest
  <2>2. PICK topic : topic = [kind |-> "merge", attested |-> a, via |-> "pull"]
    OBVIOUS
  <2>3. topic \in Entry /\ topic.kind = "merge"
    BY <2>2 DEF Entry
  <2>4. PullEvent(topic, hasBase, UpstreamRepo).repository = UpstreamRepo
    BY DEF PullEvent, Env
  <2>5. /\ last'.added = <<topic>>
        /\ green' => green /\ check(PullEvent(topic, hasBase, UpstreamRepo)) \in {"ok", "skip"}
    BY <2>1, <2>2, <2>4, RecordedGreen
  <2>6. green' => green /\ topic.attested
    BY <2>3, <2>5, PassedPull DEF GreenInv
  <2>7. Len(last'.added) > 0 /\ last'.added[1] = topic
    BY <2>5, SMT
  <2> QED
    BY <1>1, <2>3, <2>6, <2>7 DEF GreenInv, PullsAttested
<1>3. CASE ForkRun
  <2>1. Record(PullEvent([kind |-> "merge", attested |-> TRUE, via |-> "pull"], FALSE, "fork"), << >>)
    BY <1>3 DEF ForkRun
  <2>2. last'.added = << >> /\ (green' => green)
    BY <2>1, RecordedGreen
  <2> QED
    BY <1>1, <2>2 DEF GreenInv, PullsAttested
<1> QED
  BY <1>2, <1>3

\* Merging the pull request that was just checked adds one merge, attested if
\* every check was green.
LEMMA MergeGreen ==
    ASSUME GreenInv, MergePull
    PROVE  GreenInv'
<1>1. PICK e : e = last.added[1]
  OBVIOUS
<1>2. /\ e \in Entry /\ (green => e.kind = "merge" /\ e.attested)
      /\ origin' = Append(origin, e) /\ UNCHANGED <<head, created>>
      /\ Record(PushEvent(origin, origin'), last.added)
  BY <1>1 DEF MergePull, GreenInv
<1>3. last'.event = "push" /\ (green' => green)
  <2>1. PushEvent(origin, origin').event = "push"
    BY DEF PushEvent, Env
  <2> QED
    BY <1>2, <2>1, RecordedGreen
<1>4. origin \in Seq(Entry) /\ created \in Nat
  BY DEF GreenInv
<1>5. origin' \in Seq(Entry) /\ Len(origin') = Len(origin) + 1 /\ Len(origin) \in Nat
  BY <1>2, <1>4, SMT
<1>6. \A i \in 1..Len(origin') : (i \in 1..Len(origin) /\ origin'[i] = origin[i]) \/ origin'[i] = e
  BY <1>2, <1>4, <1>5, SMT
<1>7. green' => PullsAttested(origin')
  BY <1>2, <1>3, <1>6 DEF GreenInv, PullsAttested
<1>8. ASSUME green', NEW i \in created' + 1 .. Len(origin') PROVE origin'[i].kind = "merge"
  <2>1. i \in 1..Len(origin') /\ (i \in 1..Len(origin) => i \in created + 1 .. Len(origin))
    BY <1>2, <1>4, <1>5, <1>8, SMT
  <2> QED
    BY <1>2, <1>3, <1>6, <1>8, <2>1 DEF GreenInv
<1>9. green' => PullsAttested(head')
  BY <1>2, <1>3 DEF GreenInv
<1> QED
  BY <1>2, <1>3, <1>4, <1>5, <1>7, <1>8, <1>9 DEF GreenInv, PullsAttested

\* While CI is green the protected branch holds only merges since its creation,
\* and every merge from a pull request is attested, for histories of any length
\* and any order of commits, rewinds, forced pushes and pull requests
\* (attest.rs: check).
THEOREM GreenHolds == Spec => []GreenIsClean
<1>1. ASSUME Init PROVE GreenInv
  <2>1. head = << >> /\ origin = << >> /\ created = 0 /\ last.event = "absent"
    BY <1>1 DEF Init, AttestInit, NoCheck, Absent
  <2>2. head \in Seq(Entry) /\ origin \in Seq(Entry) /\ created \in Nat
    BY <2>1, SMT
  <2>3. PullsAttested(head) /\ PullsAttested(origin)
    BY <2>1, SMT DEF PullsAttested
  <2>4. \A i \in created + 1 .. Len(origin) : origin[i].kind = "merge"
    BY <2>1, SMT
  <2> QED
    BY <2>1, <2>2, <2>3, <2>4 DEF GreenInv
<1>2. ASSUME GreenInv, [Next]_vars PROVE GreenInv'
  <2>1. CASE UNCHANGED repo
    BY <1>2, <2>1 DEF repo, GreenInv, PullsAttested
  <2>2. CASE AttestNext
    BY <1>2, <2>2, LocalWorkGreen, PushGreen, PullGreen, MergeGreen DEF AttestNext
  <2> QED
    BY <1>2, <2>1, <2>2, RepoStep
<1>3. ASSUME GreenInv PROVE GreenIsClean
  <2>1. SUFFICES ASSUME green, NEW i \in created + 1 .. Len(origin)
                 PROVE  /\ origin[i].kind = "merge"
                        /\ origin[i].via = "pull" => origin[i].attested
    BY DEF GreenIsClean
  <2>2. i \in 1..Len(origin)
    BY <1>3, <2>1, SMT DEF GreenInv
  <2> QED
    BY <1>3, <2>1, <2>2 DEF GreenInv, PullsAttested
<1> QED
  BY <1>1, <1>2, <1>3, PTL DEF Spec

----------------------------------------------------------------------------
(* The kernel under test. *)

Before == {"ptr", "len", "deadline", "capture"}
Judging == {"disarm", "judge"}
Stages == {"run", "enter", "report", "trace", "raw", "exit"}

\* The books testing.rs keeps, while the harness thread has not panicked: before
\* a test's window the counters are all explained, and inside it the captured
\* ones are, up to the kills the test has declared.
Balanced ==
    /\ pc \in Before =>
         /\ sticky = {} /\ count["fault"] = unseen["fault"]
         /\ count["kill"] = declared + unseen["kill"]
    /\ pc = "body" =>
         /\ before.sticky = {} /\ before.count["fault"] = unseen["fault"]
         /\ before.count["kill"] = declared + unseen["kill"]
    /\ pc \in Judging =>
         /\ before.sticky = {} /\ before.count["fault"] = unseen["fault"]
         /\ before.count["kill"] + expected = declared + unseen["kill"]

GuestType ==
    /\ test \in 1..(NTests + 1) /\ pc \in Before \cup {"body"} \cup Judging
    /\ pc # "ptr" => test \in 1..NTests
    /\ count \in [Events -> Nat] /\ unseen \in [Events -> Nat]
    /\ declared \in Nat /\ expected \in Nat
    /\ stage \in [Cpus -> Stages] /\ verdict \in {"none", "success", "failure"}

GuestInv ==
    /\ GuestType
    /\ stage["H"] = "run" => Balanced
    /\ verdict = "success" => Earned

\* The steps that name and arm the watchdog are before the window.
LEMMA ArmingKeeps ==
    ASSUME GuestInv, arm_name \/ arm_len \/ arm_deadline
    PROVE  GuestInv'
<1>1. /\ verdict = "none" /\ stage["H"] = "run"
      /\ UNCHANGED <<test, state, panics, verdict>>
  BY DEF arm_name, arm_len, arm_deadline, Alive
<1>2. pc \in Before /\ pc' \in Before /\ test \in 1..NTests
  BY DEF arm_name, arm_len, arm_deadline, Before, Running, GuestInv, GuestType
<1>3. pc \notin Judging /\ pc' \notin Judging /\ pc' # "body"
  BY <1>2 DEF Before, Judging
<1>4. Balanced'
  BY <1>1, <1>2, <1>3 DEF GuestInv, Balanced, state
<1>5. GuestType'
  BY <1>1, <1>2 DEF GuestInv, GuestType, state, panics
<1> QED
  BY <1>1, <1>4, <1>5 DEF GuestInv

\* MachineState::capture opens the window.
LEMMA CaptureKeeps ==
    ASSUME GuestInv, capture
    PROVE  GuestInv'
<1>1. /\ verdict = "none" /\ stage["H"] = "run" /\ pc = "capture" /\ pc' = "body"
      /\ before' = [sticky |-> sticky, count |-> count] /\ expected' = 0
      /\ UNCHANGED <<test, sticky, count, declared, unseen, panics, verdict>>
  BY DEF capture, Alive
<1>2. before'.sticky = sticky /\ before'.count = count
  BY <1>1
<1>3. pc \in Before /\ pc' \notin Before /\ pc' \notin Judging
  BY <1>1 DEF Before, Judging
<1>4. Balanced'
  BY <1>1, <1>2, <1>3 DEF GuestInv, Balanced
<1>5. GuestType'
  <2>1. 0 \in Nat
    BY SMT
  <2> QED
    BY <1>1, <2>1 DEF GuestInv, GuestType, panics
<1> QED
  BY <1>1, <1>4, <1>5 DEF GuestInv

\* A test body declares the kills it will cause.
LEMMA BodyKeeps ==
    ASSUME GuestInv, Body
    PROVE  GuestInv'
<1>1. PICK n \in 0..1 : expected' = n /\ declared' = declared + n
  BY DEF Body
<1>2. /\ verdict = "none" /\ stage["H"] = "run" /\ pc = "body" /\ pc' = "disarm"
      /\ UNCHANGED <<test, count, before, unseen, panics, verdict>>
  BY DEF Body, Alive
<1>3. Balanced
  BY <1>2 DEF GuestInv
<1>4. /\ before.sticky = {} /\ before.count["fault"] = unseen["fault"]
      /\ before.count["kill"] = declared + unseen["kill"]
  BY <1>2, <1>3 DEF Balanced
<1>5. declared \in Nat /\ unseen["kill"] \in Nat
  BY SMT DEF GuestInv, GuestType, Events
<1>6. before.count["kill"] + n = (declared + n) + unseen["kill"]
  BY <1>4, <1>5, SMT
<1>7. n \in Nat /\ declared + n \in Nat
  BY <1>5, SMT
<1>8. Balanced'
  BY <1>1, <1>2, <1>4, <1>6 DEF Balanced, Before
<1>9. GuestType'
  BY <1>1, <1>2, <1>7 DEF GuestInv, GuestType, Judging, panics
<1> QED
  BY <1>2, <1>8, <1>9 DEF GuestInv

\* disarm_watchdog stays in the window.
LEMMA DisarmKeeps ==
    ASSUME GuestInv, disarm_watchdog
    PROVE  GuestInv'
<1>1. /\ verdict = "none" /\ stage["H"] = "run" /\ pc = "disarm" /\ pc' = "judge"
      /\ UNCHANGED <<test, state, panics, verdict>>
  BY DEF disarm_watchdog, Alive
<1>2. pc \in Judging /\ pc' \in Judging /\ pc' \notin Before
  BY <1>1 DEF Judging, Before
<1>3. Balanced'
  BY <1>1, <1>2 DEF GuestInv, Balanced, state
<1>4. GuestType'
  BY <1>1, <1>2 DEF GuestInv, GuestType, state, panics
<1> QED
  BY <1>1, <1>3, <1>4 DEF GuestInv

\* assert_restored passes only a test whose books balance; the others stop the
\* harness thread for good.
LEMMA JudgeKeeps ==
    ASSUME GuestInv, Judge
    PROVE  GuestInv'
<1>1. /\ verdict = "none" /\ stage["H"] = "run" /\ pc = "judge" /\ expected' = 0
      /\ UNCHANGED <<sticky, count, before, declared, unseen, verdict>>
  BY DEF Judge, Alive
<1>2. /\ before.sticky = {} /\ before.count["fault"] = unseen["fault"]
      /\ before.count["kill"] + expected = declared + unseen["kill"]
  BY <1>1 DEF GuestInv, Balanced, Judging
<1>3. test \in 1..NTests
  BY <1>1 DEF GuestInv, GuestType
<1>4. 0 \in Nat
  BY SMT
<1>5. CASE assert_restored
  <2>1. test' = test + 1 /\ pc' = "ptr" /\ UNCHANGED stage
    BY <1>5 DEF Judge
  <2>2. /\ sticky = {} /\ count["fault"] = unseen["fault"]
        /\ count["kill"] = declared + unseen["kill"]
    BY <1>2, <1>5 DEF assert_restored
  <2>3. test' \in 1..(NTests + 1)
    BY <1>3, <2>1, HarnessAssumption, SMT
  <2>4. Balanced'
    BY <1>1, <2>1, <2>2 DEF Balanced, Judging
  <2>5. GuestType'
    BY <1>1, <1>4, <2>1, <2>3 DEF GuestInv, GuestType, Before
  <2> QED
    BY <1>1, <2>4, <2>5 DEF GuestInv
<1>6. CASE ~assert_restored
  <2>1. stage' = [stage EXCEPT !["H"] = "enter"] /\ UNCHANGED <<test, pc>>
    BY <1>6 DEF Judge
  <2>2. stage' \in [Cpus -> Stages] /\ stage'["H"] = "enter"
    BY <2>1 DEF GuestInv, GuestType, Cpus, Stages
  <2>3. GuestType'
    BY <1>1, <1>4, <2>1, <2>2 DEF GuestInv, GuestType
  <2> QED
    BY <1>1, <2>2, <2>3 DEF GuestInv
<1> QED
  BY <1>5, <1>6

\* exit_qemu(Success) is written only after the last test was judged.
LEMMA FinishKeeps ==
    ASSUME GuestInv, Finish
    PROVE  GuestInv'
<1>1. /\ stage["H"] = "run" /\ test = NTests + 1 /\ verdict' = "success"
      /\ UNCHANGED <<test, pc, state, panics>>
  BY DEF Finish, Alive
<1>2. pc = "ptr"
  <2>1. test \notin 1..NTests
    BY <1>1, HarnessAssumption, SMT
  <2> QED
    BY <2>1 DEF GuestInv, GuestType
<1>3. /\ sticky = {} /\ count["fault"] = unseen["fault"]
      /\ count["kill"] = declared + unseen["kill"]
  BY <1>1, <1>2 DEF GuestInv, Balanced, Before
<1>4. Earned'
  BY <1>1, <1>3 DEF Earned, state
<1>5. Balanced'
  BY <1>1 DEF GuestInv, Balanced, state
<1>6. GuestType'
  BY <1>1 DEF GuestInv, GuestType, state, panics
<1> QED
  BY <1>4, <1>5, <1>6 DEF GuestInv

\* An event between two windows is counted and is unseen; one inside a window
\* is counted there.
LEMMA LateKeeps ==
    ASSUME GuestInv, NEW e \in Events, Late(e)
    PROVE  GuestInv'
<1>1. /\ verdict = "none" /\ count' = [count EXCEPT ![e] = @ + 1]
      /\ unseen' = IF pc \in {"body", "disarm", "judge"} THEN unseen
                   ELSE [unseen EXCEPT ![e] = @ + 1]
      /\ UNCHANGED <<test, pc, sticky, expected, before, declared, panics, verdict>>
  BY DEF Late
<1>2. count \in [Events -> Nat] /\ unseen \in [Events -> Nat] /\ declared \in Nat
  BY DEF GuestInv, GuestType
<1>3. count' \in [Events -> Nat] /\ unseen' \in [Events -> Nat]
  BY <1>1, <1>2, SMT
<1>4. GuestType'
  BY <1>1, <1>3 DEF GuestInv, GuestType, panics
<1>5. ASSUME stage["H"] = "run" PROVE Balanced'
  <2>1. Balanced
    BY <1>5 DEF GuestInv
  <2>2. CASE pc \in Before
    <3>1. unseen' = [unseen EXCEPT ![e] = @ + 1]
      BY <1>1, <2>2 DEF Before
    <3>2. count["fault"] = unseen["fault"] /\ count["kill"] = declared + unseen["kill"] /\ sticky = {}
      BY <2>1, <2>2 DEF Balanced
    <3>3. count'["fault"] = unseen'["fault"] /\ count'["kill"] = declared + unseen'["kill"]
      BY <1>1, <1>2, <3>1, <3>2, SMT DEF Events
    <3>4. pc # "body" /\ pc \notin Judging
      BY <2>2 DEF Before, Judging
    <3> QED
      BY <1>1, <3>2, <3>3, <3>4 DEF Balanced
  <2>3. CASE pc \in {"body"} \cup Judging
    <3>1. unseen' = unseen /\ pc \notin Before
      BY <1>1, <2>3 DEF Before, Judging
    <3> QED
      BY <1>1, <2>1, <3>1 DEF Balanced
  <2> QED
    BY <2>2, <2>3 DEF GuestInv, GuestType
<1> QED
  BY <1>1, <1>4, <1>5 DEF GuestInv, panics

\* The watchdog and the panic handlers touch none of the books, and a processor
\* that has entered its panic handler never leaves it.
LEMMA PanicsKeep ==
    ASSUME GuestInv,
           \/ WatchdogStep
           \/ \E c \in Cpus : Panic(c) \/ PanicStep(c) \/ ReportFaults(c)
    PROVE  GuestInv'
<1>1. ASSUME UNCHANGED <<test, pc, state>>, stage' \in [Cpus -> Stages],
             stage'["H"] = "run" => stage["H"] = "run",
             verdict' \in {"none", "failure"}
      PROVE  GuestInv'
  <2>1. GuestType'
    BY <1>1 DEF GuestInv, GuestType, state
  <2>2. Balanced => Balanced'
    BY <1>1 DEF Balanced, state
  <2> QED
    BY <1>1, <2>1, <2>2 DEF GuestInv
<1>2. /\ stage \in [Cpus -> Stages] /\ verdict \in {"none", "success", "failure"}
      /\ "H" \in Cpus
  BY DEF GuestInv, GuestType, Cpus
<1>3. ASSUME NEW c \in Cpus, NEW s \in Stages, s # "run", stage' = [stage EXCEPT ![c] = s]
      PROVE  stage' \in [Cpus -> Stages] /\ (stage'["H"] = "run" => stage["H"] = "run")
  BY <1>2, <1>3
<1>4. "enter" \in Stages /\ "trace" \in Stages /\ "exit" \in Stages /\ "report" \in Stages /\ "raw" \in Stages
  BY DEF Stages
<1>5. ASSUME WatchdogStep PROVE GuestInv'
  <2>1. UNCHANGED <<test, pc, state, verdict>> /\ verdict = "none"
    BY <1>5 DEF WatchdogStep, Tick, watchdog_load, watchdog_clear, watchdog_name, Alive
  <2>2. UNCHANGED stage \/ stage' = [stage EXCEPT !["W"] = "enter"]
    BY <1>5 DEF WatchdogStep, Tick, watchdog_load, watchdog_clear, watchdog_name, panics
  <2>3. "W" \in Cpus
    BY DEF Cpus
  <2>4. stage' \in [Cpus -> Stages] /\ (stage'["H"] = "run" => stage["H"] = "run")
    BY <1>2, <1>3, <1>4, <2>2, <2>3
  <2> QED
    BY <1>1, <2>1, <2>4
<1>6. ASSUME NEW c \in Cpus, Panic(c) \/ ReportFaults(c) PROVE GuestInv'
  <2>1. UNCHANGED <<test, pc, state, verdict>> /\ verdict = "none" /\ stage' = [stage EXCEPT ![c] = "enter"]
    BY <1>6 DEF Panic, ReportFaults, Alive
  <2> QED
    BY <1>1, <1>3, <1>4, <2>1
<1>7. ASSUME NEW c \in Cpus, panic(c) PROVE GuestInv'
  <2>1. UNCHANGED <<test, pc, state, verdict>> /\ verdict = "none"
    BY <1>7 DEF panic
  <2>2. \E s \in {"report", "raw", "exit"} : stage' = [stage EXCEPT ![c] = s]
    <3>1. PICK s : /\ s = CASE depth = 0 -> "report" [] depth = 1 -> "raw" [] OTHER -> "exit"
                   /\ stage' = [stage EXCEPT ![c] = s]
      BY <1>7 DEF panic
    <3>2. s \in {"report", "raw", "exit"}
      BY <3>1
    <3> QED
      BY <3>1, <3>2
  <2>3. stage' \in [Cpus -> Stages] /\ (stage'["H"] = "run" => stage["H"] = "run")
    BY <1>3, <1>4, <2>2
  <2> QED
    BY <1>1, <2>1, <2>3
<1>8. ASSUME NEW c \in Cpus, Report(c) PROVE GuestInv'
  <2>1. UNCHANGED <<test, pc, state, verdict>> /\ verdict = "none"
    BY <1>8 DEF Report
  <2>2. \E s \in {"trace", "exit"} : stage' = [stage EXCEPT ![c] = s]
    <3>1. stage' = [stage EXCEPT ![c] = IF stage[c] = "report" THEN "trace" ELSE "exit"]
      BY <1>8 DEF Report
    <3> QED
      BY <3>1
  <2>3. stage' \in [Cpus -> Stages] /\ (stage'["H"] = "run" => stage["H"] = "run")
    BY <1>3, <1>4, <2>2
  <2> QED
    BY <1>1, <2>1, <2>3
<1>9. ASSUME NEW c \in Cpus, Exit(c) PROVE GuestInv'
  <2>1. UNCHANGED <<test, pc, state, panics>> /\ verdict' = "failure"
    BY <1>9 DEF Exit
  <2> QED
    BY <1>1, <1>2, <2>1 DEF panics
<1> QED
  BY <1>5, <1>6, <1>7, <1>8, <1>9 DEF PanicStep

\* Every step of the kernel under test keeps the books.
LEMMA KernelKeeps ==
    ASSUME GuestInv, HarnessNext
    PROVE  GuestInv'
<1>1. CASE HarnessStep
  BY <1>1, ArmingKeeps, CaptureKeeps, DisarmKeeps, JudgeKeeps, FinishKeeps DEF HarnessStep
<1>2. CASE ~HarnessStep
  BY <1>2, BodyKeeps, LateKeeps, PanicsKeep DEF HarnessNext
<1> QED
  BY <1>1, <1>2

\* A machine that starts has nothing on its books.
LEMMA FreshMachine ==
    ASSUME session' = session, PowerOff
    PROVE  GuestInv'
<1>1. test' = FirstTest /\ FirstTest \in 1..(NTests + 1)
  BY HarnessAssumption, SMT DEF PowerOff, FirstTest
<1>2. [e \in Events |-> 0] \in [Events -> Nat] /\ 0 \in Nat
  BY SMT
<1>3. [c \in Cpus |-> "run"] \in [Cpus -> Stages]
  BY DEF Stages
<1>4. GuestType'
  BY <1>1, <1>2, <1>3 DEF GuestType, PowerOff, Before
<1>5. /\ sticky' = {} /\ count'["fault"] = unseen'["fault"]
      /\ count'["kill"] = declared' + unseen'["kill"]
  BY SMT DEF PowerOff, Events
<1>6. Balanced'
  BY <1>5 DEF Balanced, PowerOff, Judging
<1> QED
  BY <1>4, <1>6 DEF GuestInv, PowerOff

----------------------------------------------------------------------------
(* The command that boots it. *)

\* main.rs between two boots has as many passed boots as earned ones, and one
\* earned boot more when QEMU has ended with status 33.
BootsInv ==
    /\ boots \in Nat /\ earned \in Nat /\ boots <= earned
    /\ result = "ok" => at = "idle" /\ earned = (IF command = "test" THEN 2 ELSE 1)
    /\ command # "test" => boots = 0
    /\ at # "qemu" => qemu = "off"
    /\ at \notin {"idle", "gates"} => boots \in {0, 1}
    /\ at \notin {"idle", "gates", "qemu"} => earned = boots
    /\ at = "gates" => command = "test" /\ earned = 2
    /\ at = "qemu" /\ qemu = "up" => earned = boots
    /\ at = "qemu" /\ Passed => earned = boots + 1

\* Staging moves among its own steps.
LEMMA StagingMoves ==
    ASSUME StagingStep
    PROVE  at \notin {"idle", "gates", "qemu"} /\ at' \notin {"idle", "gates", "qemu"}
<1>1. CASE limine_clone \/ limine_checkout \/ limine_verify \/ copy_check \/ copy_begin \/ copy_end
  BY <1>1, SMTT(40) DEF limine_clone, limine_checkout, limine_verify, copy_check, copy_begin, copy_end, Go
<1>2. CASE stamp_begin \/ stamp_end \/ stamp_remove \/ build_init \/ prune_unexpected
  BY <1>2, SMTT(40) DEF stamp_begin, stamp_end, stamp_remove, build_init, prune_unexpected, Go
<1>3. CASE disk_check \/ disk_write
  BY <1>3, SMT DEF disk_check, disk_write, Go
<1> QED
  BY <1>1, <1>2, <1>3 DEF StagingStep

\* The status QEMU ends with is 33 exactly for the success verdict.
LEMMA StatusOfVerdict ==
    HOST_STATUS("success") = 33 /\ HOST_STATUS("failure") = 35
<1>1. ExitCode("success") = 16 /\ ExitCode("failure") = 17
  BY DEF ExitCode
<1> QED
  BY <1>1, SMT DEF HOST_STATUS

\* Starting, staging and killing a command.
LEMMA StagingBoots ==
    ASSUME BootsInv, Start \/ Stage \/ Kill \/ Spawn
    PROVE  BootsInv'
<1>1. CASE Start
  BY <1>1, SMTT(40) DEF BootsInv, Start, Passed
<1>2. CASE Stage
  <2>1. UNCHANGED <<boots, earned, result, command, qemu, status>>
    BY <1>2 DEF Stage, host
  <2>2. at \notin {"idle", "gates", "qemu"} /\ at' \notin {"idle", "gates", "qemu"}
    BY <1>2, StagingMoves DEF Stage
  <2> QED
    BY <2>1, <2>2, SMT DEF BootsInv, Passed
<1>3. CASE Kill
  <2>1. UNCHANGED <<boots, earned, result, command, qemu, status>>
    BY <1>3 DEF Kill, host
  <2>2. at' = "idle" /\ at \notin {"idle", "gates", "qemu"}
    BY <1>3, SMTT(40) DEF Kill, Killed
  <2> QED
    BY <2>1, <2>2, SMTT(40) DEF BootsInv, Passed
<1>4. CASE Spawn
  BY <1>4, SMT DEF BootsInv, Spawn, Passed
<1> QED
  BY <1>1, <1>2, <1>3, <1>4

\* The end of QEMU, and what the command makes of it.
LEMMA QemuBoots ==
    ASSUME BootsInv, GuestInv, QemuEnds \/ Reap \/ NextBoot \/ Timeout \/ Refuse \/ Gates
    PROVE  BootsInv'
<1>1. CASE QemuEnds
  <2>1. /\ qemu = "up" /\ UNCHANGED <<boots, result, command, at>>
        /\ earned' = (IF verdict = "success" /\ Earned THEN earned + 1 ELSE earned)
    BY <1>1 DEF QemuEnds, staging
  <2>2. at = "qemu" /\ earned = boots
    BY <2>1 DEF BootsInv
  <2>3. CASE verdict = "success"
    <3>1. earned' = earned + 1 /\ qemu' = "exited"
      BY <1>1, <2>1, <2>3 DEF GuestInv, QemuEnds
    <3> QED
      BY <2>1, <2>2, <3>1, SMT DEF BootsInv, Passed
  <2>4. CASE verdict # "success"
    <3>1. earned' = earned
      BY <2>1, <2>4
    <3>2. qemu' \in {"exited", "signalled"} /\ status' # 33
      <4>1. CASE verdict = "none"
        <5>1. qemu' \in {"exited", "signalled"} /\ status' = 0
          BY <1>1, <4>1 DEF QemuEnds
        <5> QED
          BY <5>1, SMT
      <4>2. CASE verdict = "failure"
        <5>1. qemu' = "exited" /\ status' = 35
          BY <1>1, <4>2, StatusOfVerdict, ZenonT(60) DEF QemuEnds
        <5> QED
          BY <5>1, SMT
      <4> QED
        BY <2>4, <4>1, <4>2 DEF GuestInv, GuestType
    <3> QED
      BY <2>1, <2>2, <3>1, <3>2, SMTT(40) DEF BootsInv, Passed, HOST_STATUS_SUCCESS
  <2> QED
    BY <2>3, <2>4
<1>2. CASE Reap
  BY <1>2, SMTT(40) DEF BootsInv, Reap, Conclude, Passed
<1>3. CASE NextBoot
  BY <1>3, SMTT(40) DEF BootsInv, NextBoot, Passed
<1>4. CASE Timeout
  BY <1>4, SMTT(40) DEF BootsInv, Timeout, Conclude, Passed
<1>5. CASE Refuse
  BY <1>5, SMTT(40) DEF BootsInv, Refuse, Conclude, Passed
<1>6. CASE Gates
  <2>1. /\ at = "gates" /\ at' = "idle" /\ qemu' = "off" /\ result' \in {"ok", "error"}
        /\ UNCHANGED <<boots, earned, command>>
    BY <1>6 DEF Gates, Conclude
  <2> QED
    BY <2>1, SMT DEF BootsInv, Passed
<1> QED
  BY <1>1, <1>2, <1>3, <1>4, <1>5, <1>6, ZenonT(60)

\* What `cargo xtask test` and the runner report was earned by the boots: status
\* 33 alone counts as a pass, and the kernel writes it only after every test
\* returned, was judged, and balanced (main.rs, testing.rs), for any number of
\* tests and any interleaving of the harness, the watchdog and late events.
THEOREM SuccessHolds == Spec => []SuccessIsEarned
<1> DEFINE I == GuestInv /\ BootsInv
<1>1. ASSUME Init PROVE I
  <2>1. /\ at = "idle" /\ boots = 0 /\ earned = 0 /\ result = "none" /\ command = "none"
        /\ qemu = "off" /\ status = 0
    BY <1>1 DEF Init, StagingInit
  <2>2. BootsInv
    BY <2>1, SMTT(40) DEF BootsInv, Passed
  <2>3. /\ test \in 1..(NTests + 1) /\ pc = "ptr"
    BY <1>1, HarnessAssumption, SMT DEF Init, HarnessInit
  <2>4. /\ sticky = {} /\ count = [e \in Events |-> 0] /\ unseen = [e \in Events |-> 0]
        /\ declared = 0 /\ expected = 0 /\ stage = [c \in Cpus |-> "run"] /\ verdict = "none"
    BY <1>1 DEF Init, HarnessInit
  <2>5. /\ [e \in Events |-> 0] \in [Events -> Nat] /\ 0 \in Nat
        /\ [c \in Cpus |-> "run"] \in [Cpus -> Stages]
    BY SMT DEF Stages
  <2>6. GuestType
    BY <2>3, <2>4, <2>5 DEF GuestType, Before
  <2>7. count["fault"] = unseen["fault"] /\ count["kill"] = declared + unseen["kill"]
    BY <2>4, SMT DEF Events
  <2>8. Balanced
    BY <2>3, <2>4, <2>7 DEF Balanced, Judging
  <2> QED
    BY <2>2, <2>4, <2>6, <2>8 DEF GuestInv
<1>2. ASSUME I, [Next]_vars PROVE I'
  <2>1. ASSUME UNCHANGED guest PROVE GuestInv'
    BY <1>2, <2>1 DEF guest, state, panics, GuestInv, GuestType, Balanced, Earned
  <2>2. ASSUME UNCHANGED <<host, at>> PROVE BootsInv'
    BY <1>2, <2>2 DEF host, BootsInv, Passed
  <2>3. CASE Start \/ Stage \/ Kill \/ Spawn
    <3>1. UNCHANGED guest
      BY <2>3 DEF Start, Stage, Kill, Spawn
    <3> QED
      BY <1>2, <2>1, <2>3, <3>1, StagingBoots
  <2>4. CASE Reap \/ NextBoot \/ Refuse \/ Gates
    <3>1. UNCHANGED guest
      BY <2>4 DEF Reap, NextBoot, Refuse, Gates
    <3> QED
      BY <1>2, <2>1, <2>4, <3>1, QemuBoots
  <2>5. CASE QemuEnds \/ Timeout
    <3>1. PowerOff /\ session' = session
      BY <2>5 DEF QemuEnds, Timeout, Conclude
    <3> QED
      BY <1>2, <2>5, <3>1, FreshMachine, QemuBoots
  <2>6. CASE Kernel
    <3>1. HarnessNext /\ UNCHANGED <<host, at>>
      BY <2>6 DEF Kernel, staging
    <3> QED
      BY <1>2, <2>2, <3>1, KernelKeeps
  <2>7. CASE AttestCommand \/ CoverageCommand \/ UNCHANGED vars
    <3>1. UNCHANGED guest /\ UNCHANGED <<host, at>>
      BY <2>7 DEF AttestCommand, CoverageCommand, vars, staging
    <3> QED
      BY <2>1, <2>2, <3>1
  <2> QED
    BY <1>2, <2>3, <2>4, <2>5, <2>6, <2>7 DEF Next
<1>3. ASSUME I PROVE SuccessIsEarned
  BY <1>3 DEF BootsInv, SuccessIsEarned
<1> QED
  BY <1>1, <1>2, <1>3, PTL DEF Spec
=============================================================================
