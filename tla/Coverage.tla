------------------------------ MODULE Coverage ------------------------------
(***************************************************************************)
(* The coverage ratchet of `xtask/src/coverage.rs`: a committed floor per  *)
(* crate, which `cargo xtask coverage` compares with a measurement and     *)
(* `--update` rewrites.                                                    *)
(*                                                                         *)
(* A floor is a number of hundredths of a per cent, the two decimals the   *)
(* file stores; a measurement is finer, in halves of a hundredth, so that  *)
(* rounding shows.  An odd number of halves is a figure that round2 takes  *)
(* up; what `{:.2}` does with it depends on the double it is: a tie goes   *)
(* to the even hundredth, and a double just below the half, which the      *)
(* product of round2 lifts onto it, goes down.  The tolerance is scaled    *)
(* down with the range.                                                    *)
(***************************************************************************)
EXTENDS Integers

CONSTANTS
    Crates,
    MaxFloor,       \* bound on floors, in hundredths
    TOLERANCE_PP,   \* in halves of a hundredth
    HalvesDown      \* the odd measurements that `{:.2}` takes down

\* The tolerance is at least what rounding to two decimals can lose.
ASSUME CoverageAssumption ==
    /\ MaxFloor \in Nat /\ TOLERANCE_PP \in Nat \ {0}
    /\ HalvesDown \subseteq {m \in 0 .. 2 * MaxFloor : m % 2 = 1}

NoFloor == -1
Unreadable == -2        \* a line that is not `name = number`
NoNote == -1
Unmeasured == -1

VARIABLES
    floor,      \* the crate's line in coverage-baseline.toml
    note,       \* the figure its note begins with
    now,        \* what cargo llvm-cov reports: LH * 100 / LF
    outcome,    \* of the last command: "ok", "failed"
    mark,       \* history: the last floor that was raised, or lowered under its note,
                \* and not lost when a rewrite of the file was cut short
    slips       \* history: the figures judged since and stored a hundredth lower

baseline == <<floor, note, now, outcome, mark, slips>>

CoverageInit ==
    /\ floor \in [Crates -> {NoFloor, MaxFloor}]
    /\ note = [c \in Crates |-> NoNote]
    /\ now = [c \in Crates |-> 2 * MaxFloor]
    /\ outcome = "none" /\ mark = floor /\ slips = [c \in Crates |-> {}]

round2(m) == (m + 1) \div 2

\* `{:.2}` of the measurement itself.
format2(m) == IF m \in HalvesDown THEN round2(m) - 1 ELSE round2(m)

\* The figure a crate's note begins with; a note above no crate's line is nobody's.
existing_notes(c) == IF floor[c] = NoFloor THEN NoNote ELSE note[c]

HasFloor(c) == floor[c] >= 0
Measured(c) == now[c] >= 0

reject_malformed == \E c \in Crates : floor[c] = Unreadable

unmeasured_floors == {c \in Crates : HasFloor(c) /\ ~Measured(c)}

lowering_beyond_tolerance ==
    {c \in Crates : /\ HasFloor(c) /\ Measured(c) /\ now[c] + TOLERANCE_PP < 2 * floor[c]
                    /\ existing_notes(c) # round2(now[c])}

\* Any lowering counts, and its note must begin with the new figure.
lowering_without_reason ==
    {c \in Crates : /\ HasFloor(c) /\ Measured(c) /\ round2(now[c]) < floor[c]
                    /\ existing_notes(c) # round2(now[c])}

verdict_of(c) ==
    IF now[c] + TOLERANCE_PP < 2 * floor[c] THEN "Regressed"
    ELSE IF now[c] > 2 * floor[c] + TOLERANCE_PP THEN "Improved" ELSE "Held"

measure_fails == \A c \in Crates : ~Measured(c)

gate_unmeasured == unmeasured_floors # {}

\* check without --update
CheckFloors ==
    /\ outcome' = IF \/ measure_fails
                     \/ reject_malformed
                     \/ gate_unmeasured
                     \/ \E c \in Crates : HasFloor(c) /\ Measured(c) /\ verdict_of(c) = "Regressed"
                  THEN "failed" ELSE "ok"
    /\ UNCHANGED <<floor, note, now, mark, slips>>

Refused(drop) ==
    \/ measure_fails
    \/ reject_malformed
    \/ ~(unmeasured_floors \subseteq drop)
    \/ lowering_without_reason # {}

\* render_baseline writes what was measured, under the notes that were there.
render_baseline(c) == IF Measured(c) THEN format2(now[c]) ELSE NoFloor

\* The floor that stands is the figure judged last, when it raised or held the one
\* before, was lowered under its note, or is the crate's first.
Judged(c) ==
    \/ ~Measured(c) \/ mark[c] = NoFloor
    \/ mark[c] <= round2(now[c]) \/ existing_notes(c) = round2(now[c])

Standing(c) == IF Measured(c) THEN round2(now[c]) ELSE NoFloor

\* The figure stored is not the one that was judged.
Slipped(c) == IF Measured(c) /\ render_baseline(c) < round2(now[c]) THEN {round2(now[c])} ELSE {}

\* The lines that are written whole; the others' floors are lost.
Rewrite(whole) ==
    /\ mark' = [c \in Crates |-> IF c \notin whole THEN NoFloor
                                 ELSE IF Judged(c) THEN Standing(c) ELSE mark[c]]
    /\ slips' = [c \in Crates |-> IF c \notin whole THEN {}
                                  ELSE IF Judged(c) THEN Slipped(c) ELSE slips[c] \cup Slipped(c)]
    /\ UNCHANGED now

\* check with --update --drop-crate=...
Update(drop) ==
    IF Refused(drop)
    THEN outcome' = "failed" /\ UNCHANGED <<floor, note, now, mark, slips>>
    ELSE /\ floor' = [c \in Crates |-> render_baseline(c)]
         /\ note' = [c \in Crates |-> IF Measured(c) THEN existing_notes(c) ELSE NoNote]
         /\ Rewrite(Crates)
         /\ outcome' = "ok"

\* The write is cut short in the line of crate d: what there is of its figure is
\* lower, or no number; the lines after it are missing.
UpdateTorn(drop) ==
    /\ ~Refused(drop)
    /\ \E whole \in SUBSET Crates : \E d \in Crates \ whole :
          \E f \in IF Measured(d) THEN {NoFloor, Unreadable} \cup 0 .. render_baseline(d) ELSE {NoFloor} :
             /\ floor' = [c \in Crates |-> IF c \in whole THEN render_baseline(c)
                                           ELSE IF c = d THEN f ELSE NoFloor]
             /\ note' = [c \in Crates |-> IF floor'[c] = NoFloor THEN NoNote ELSE existing_notes(c)]
             /\ Rewrite(whole)
    /\ outcome' = "failed"

----------------------------------------------------------------------------
(* The developer: the code changes, and the file is edited by hand. *)

CodeChanges(c) ==
    /\ now' = [now EXCEPT ![c] = Unmeasured]
       \/ \E m \in 0 .. 2 * MaxFloor : now' = [now EXCEPT ![c] = m]
    /\ outcome' = "none"
    /\ UNCHANGED <<floor, note, mark, slips>>

WriteNote(c) ==
    /\ floor[c] # NoFloor
    /\ \E f \in 0..MaxFloor : note' = [note EXCEPT ![c] = f]
    /\ outcome' = "none"
    /\ UNCHANGED <<floor, now, mark, slips>>

\* An edit or a merge conflict garbles the line.
Garble(c) ==
    /\ HasFloor(c) /\ floor' = [floor EXCEPT ![c] = Unreadable]
    /\ outcome' = "none"
    /\ UNCHANGED <<note, now, mark, slips>>

CoverageNext ==
    \/ CheckFloors
    \/ \E drop \in SUBSET Crates : Update(drop) \/ UpdateTorn(drop)
    \/ \E c \in Crates : CodeChanges(c) \/ WriteNote(c) \/ Garble(c)
=============================================================================
