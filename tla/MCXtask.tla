------------------------------ MODULE MCXtask ------------------------------
(* Xtask for TLC: two tests, two kernels of one length, two crates. *)
EXTENDS Xtask, TLC

CONSTANTS mm, elf
TwoCrates == {mm, elf}
\* The commands tell crates apart only by comparing names.
Symmetry == Permutations(TwoCrates)

(* attest.rs:243-246: a merge of attested topic commits is not a commit on the
   branch itself, and passes. *)
MergesPass ==
    last.result = "fail" /\ last.event \in {"local", "push"} =>
        \E i \in DOMAIN last.added : last.added[i].kind = "commit" \/ ~last.added[i].attested

(* testing.rs:318-320: the pointer and the length read belong to the deadline. *)
WatchdogPair == look.pc = "panic" => look.ptr = look.of /\ look.len = look.of

(* panic.rs:121: only a fault inside the reporting path cuts a report short. *)
ReportComplete == verdict = "failure" => "message" \in said \/ nested
=============================================================================
