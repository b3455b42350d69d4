---------------------------- MODULE TestHarness ----------------------------
(***************************************************************************)
(* The kernel's own test harness: `testing.rs` runs the tests one after    *)
(* another on the boot processor, and `panic.rs` turns a failure anywhere  *)
(* into the one port write that is the verdict of the whole boot.          *)
(*                                                                         *)
(* The harness thread H runs concurrently with another processor W, which  *)
(* takes timer ticks (`watchdog_check`) and runs threads that tests left   *)
(* behind.  Ticks on H's own processor only suspend H, so their behaviours *)
(* are among those in which W ticks and H does not move.  A tick before    *)
(* the deadline does nothing, so only ticks that are due are steps.        *)
(*                                                                         *)
(* The checks `assert_no_thread_runs_twice` and `assert_no_parked_thread_  *)
(* is_queued` look at the scheduler's state, which is module Scheduler.    *)
(***************************************************************************)
EXTENDS Naturals

CONSTANTS
    NTests,     \* tests in the binary
    Sticky      \* fields of MachineState a test restores or fails to restore

ASSUME HarnessAssumption == NTests \in Nat

Events == {"fault", "kill"}     \* fields of MachineState that only count up
Cpus == {"H", "W"}
NoTest == 0                     \* WATCHDOG_DEADLINE = 0

VARIABLES
    test,       \* the test being run, NTests + 1 when all have returned
    pc,         \* where Testable::run stands on H
    ptr, len,   \* WATCHDOG_NAME, WATCHDOG_NAME_LEN: whose name they hold
    armed,      \* WATCHDOG_DEADLINE: the test it is the deadline of
    look,       \* W inside watchdog_check: [pc, due, of, ptr, len]
    sticky,     \* Sticky fields that are not as they were at boot
    count,      \* the counters of MachineState, by event
    expected,   \* EXPECTED_KILLS
    before,     \* MachineState captured before the body
    pending,    \* events that work started by a test will still cause
    stage,      \* per processor: where the panic handler stands
    depth,      \* PANIC_DEPTH
    said,       \* what reached the console: "message", "raw"
    verdict,    \* the first write to port 0xf4, which ends QEMU
    declared,   \* history: kills declared by the tests so far
    unseen,     \* history: events that fell between two tests' windows
    nested      \* history: the reporting path itself faulted

watch == <<ptr, len, armed, look>>
state == <<sticky, count, expected, before, pending, declared, unseen>>
panics == <<stage, depth, said, nested>>
guest == <<test, pc, watch, state, panics, verdict>>

Idle == [pc |-> "idle", due |-> FALSE, of |-> NoTest, ptr |-> NoTest, len |-> NoTest]

HarnessInit ==
    /\ test \in {1, NTests + 1} /\ pc = "ptr"
    /\ ptr = NoTest /\ len = NoTest /\ armed = NoTest /\ look = Idle
    /\ sticky = {} /\ count = [e \in Events |-> 0] /\ expected = 0
    /\ before = [sticky |-> {}, count |-> [e \in Events |-> 0]]
    /\ pending = {} /\ declared = 0 /\ unseen = [e \in Events |-> 0]
    /\ stage = [c \in Cpus |-> "run"] /\ depth = 0 /\ said = {} /\ nested = FALSE
    /\ verdict = "none"

Alive(c) == verdict = "none" /\ stage[c] = "run"
Running == test \in 1..NTests

----------------------------------------------------------------------------
(* Testable::run, one atomic access to shared state per step. *)

arm_name ==
    /\ Alive("H") /\ Running /\ pc = "ptr"
    /\ ptr' = test /\ pc' = "len"
    /\ UNCHANGED <<test, len, armed, look, state, panics, verdict>>

arm_len ==
    /\ Alive("H") /\ pc = "len"
    /\ len' = test /\ pc' = "deadline"
    /\ UNCHANGED <<test, ptr, armed, look, state, panics, verdict>>

\* The new deadline is later than any tick counted so far.
arm_deadline ==
    /\ Alive("H") /\ pc = "deadline"
    /\ armed' = test /\ pc' = "capture"
    /\ look' = [look EXCEPT !.due = FALSE]
    /\ UNCHANGED <<test, ptr, len, state, panics, verdict>>

capture ==
    /\ Alive("H") /\ pc = "capture"
    /\ expected' = 0
    /\ before' = [sticky |-> sticky, count |-> count]
    /\ pc' = "body"
    /\ UNCHANGED <<test, watch, sticky, count, pending, declared, unseen, panics, verdict>>

\* A test that returns: it may change machine state, declare a kill, and start
\* work that causes events (Late), before the test is judged or after.  A test
\* that never returns is one that does not take this step.
Body ==
    /\ Alive("H") /\ pc = "body"
    /\ \E leak \in SUBSET Sticky, work \in SUBSET Events, n \in 0..1 :
          /\ sticky' = sticky \cup leak
          /\ pending' = pending \cup work
          /\ expected' = n /\ declared' = declared + n
    /\ pc' = "disarm"
    /\ UNCHANGED <<test, watch, count, before, unseen, panics, verdict>>

disarm_watchdog ==
    /\ Alive("H") /\ pc = "disarm"
    /\ armed' = NoTest /\ pc' = "judge"
    /\ UNCHANGED <<test, ptr, len, look, state, panics, verdict>>

assert_restored_weak ==
    count["fault"] = before.count["fault"]

\* MachineState::assert_restored
assert_restored ==
    /\ sticky = before.sticky
    /\ count["fault"] = before.count["fault"]
    /\ count["kill"] = before.count["kill"] + expected

Judge ==
    /\ Alive("H") /\ pc = "judge"
    /\ expected' = 0
    /\ IF assert_restored
       THEN test' = test + 1 /\ pc' = "ptr" /\ UNCHANGED stage
       ELSE stage' = [stage EXCEPT !["H"] = "enter"] /\ UNCHANGED <<test, pc>>
    /\ UNCHANGED <<watch, sticky, count, before, pending, declared, unseen, depth, said, nested,
                   verdict>>

\* runner, after the last test: exit_qemu(Success)
Finish ==
    /\ Alive("H") /\ test = NTests + 1
    /\ verdict' = "success"
    /\ UNCHANGED <<test, pc, watch, state, panics>>

\* Work a test started (a request in flight, a process still running) faults: the counter moves whichever test is running, or none.
Late(e) ==
    /\ verdict = "none" /\ e \in pending
    /\ pending' = pending \ {e}
    /\ count' = [count EXCEPT ![e] = @ + 1]
    /\ unseen' = IF pc \in {"body", "disarm", "judge"} THEN unseen
                 ELSE [unseen EXCEPT ![e] = @ + 1]
    /\ UNCHANGED <<test, pc, watch, sticky, expected, before, declared, panics, verdict>>

----------------------------------------------------------------------------
(* The watchdog, from the timer interrupt of W. *)

Tick ==
    /\ Alive("W") /\ look.pc = "idle" /\ armed # NoTest
    /\ look' = [look EXCEPT !.pc = "load", !.due = TRUE]
    /\ UNCHANGED <<test, pc, ptr, len, armed, state, panics, verdict>>

watchdog_load ==
    /\ Alive("W") /\ look.pc = "load"
    /\ look' = IF armed # NoTest /\ look.due
               THEN [look EXCEPT !.pc = "clear", !.of = armed] ELSE Idle
    /\ UNCHANGED <<test, pc, ptr, len, armed, state, panics, verdict>>

watchdog_clear ==
    /\ Alive("W") /\ look.pc = "clear"
    /\ armed' = NoTest
    /\ look' = [look EXCEPT !.pc = "ptr"]
    /\ UNCHANGED <<test, pc, ptr, len, state, panics, verdict>>

watchdog_name ==
    /\ Alive("W")
    /\ \/ look.pc = "ptr" /\ look' = [look EXCEPT !.pc = "len", !.ptr = ptr] /\ UNCHANGED stage
       \/ /\ look.pc = "len" /\ look' = [look EXCEPT !.pc = "panic", !.len = len]
          /\ stage' = [stage EXCEPT !["W"] = "enter"]
    /\ UNCHANGED <<test, pc, ptr, len, armed, state, depth, said, nested, verdict>>

----------------------------------------------------------------------------
(* The panic handler, on either processor. *)

\* An assertion fails in the test body, or in a thread a test started.
Panic(c) ==
    /\ Alive(c) /\ (IF c = "H" THEN pc = "body" ELSE look.pc = "idle")
    /\ stage' = [stage EXCEPT ![c] = "enter"]
    /\ UNCHANGED <<test, pc, watch, state, depth, said, nested, verdict>>

panic(c) ==
    /\ verdict = "none" /\ stage[c] = "enter"
    /\ depth' = depth + 1
    /\ stage' = [stage EXCEPT ![c] = CASE depth = 0 -> "report" [] depth = 1 -> "raw"
                                       [] OTHER -> "exit"]
    /\ UNCHANGED <<test, pc, watch, state, said, nested, verdict>>

\* print_backtrace adds nothing that is told apart; emit_raw is the nested path's.
Emits(step) == CASE step = "report" -> {"message"} [] step = "trace" -> {} [] step = "raw" -> {"raw"}

\* force_unlock and println, then print_backtrace; or emit_raw.
Report(c) ==
    /\ verdict = "none" /\ stage[c] \in {"report", "trace", "raw"}
    /\ said' = said \cup Emits(stage[c])
    /\ stage' = [stage EXCEPT ![c] = IF @ = "report" THEN "trace" ELSE "exit"]
    /\ UNCHANGED <<test, pc, watch, state, depth, nested, verdict>>

\* The reporting code itself faults, and the fault handler panics again.
ReportFaults(c) ==
    /\ verdict = "none" /\ stage[c] \in {"report", "trace", "raw"}
    /\ stage' = [stage EXCEPT ![c] = "enter"]
    /\ nested' = TRUE
    /\ UNCHANGED <<test, pc, watch, state, depth, said, verdict>>

\* exit_qemu(Failure)
Exit(c) ==
    /\ verdict = "none" /\ stage[c] = "exit"
    /\ verdict' = "failure"
    /\ UNCHANGED <<test, pc, watch, state, panics>>

HarnessStep ==
    \/ arm_name \/ arm_len \/ arm_deadline \/ capture \/ disarm_watchdog \/ Judge \/ Finish
WatchdogStep == Tick \/ watchdog_load \/ watchdog_clear \/ watchdog_name
PanicStep(c) == panic(c) \/ Report(c) \/ Exit(c)

HarnessNext ==
    \/ HarnessStep \/ Body \/ WatchdogStep
    \/ \E e \in Events : Late(e)
    \/ \E c \in Cpus : Panic(c) \/ PanicStep(c) \/ ReportFaults(c)
=============================================================================
