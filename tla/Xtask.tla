------------------------------- MODULE Xtask -------------------------------
(***************************************************************************)
(* The commands of `xtask/src/main.rs`, over the state they share: what is *)
(* staged for QEMU (Staging), the kernel under test (TestHarness), the     *)
(* repository (Attest) and the coverage floors (Coverage).                 *)
(*                                                                         *)
(* A session is what a developer spends an afternoon on: one uses only the *)
(* commands of its kind, so the others' state stays as it was.             *)
(***************************************************************************)
EXTENDS TestHarness, Staging, Attest, Coverage

CONSTANTS
    Sessions,       \* subset of {"suite", "staging", "attest", "coverage"}
    MaxCommands     \* commands started in a session

VARIABLES
    session,
    issued,     \* commands started so far
    command,    \* "runner" or "test"
    boots,      \* boots of this command that passed
    qemu,       \* the process: "off", "up", "exited", "signalled"
    status,     \* its exit status
    result,     \* of the last command that booted a kernel
    earned      \* history: boots of this command whose success was earned

host == <<session, issued, command, boots, qemu, status, result, earned>>
\* The staging session boots kernels without tests.
FirstTest == IF session = "suite" THEN 1 ELSE NTests + 1

vars == <<host, guest, staging, repo, baseline>>

Init ==
    /\ HarnessInit /\ StagingInit /\ AttestInit /\ CoverageInit
    /\ session \in Sessions
    /\ session # "staging" => limine = "pinned" /\ ~stray
    /\ session # "coverage" => floor = [c \in Crates |-> NoFloor]
    /\ test = FirstTest
    /\ issued = 0 /\ command = "none" /\ boots = 0 /\ qemu = "off" /\ status = 0
    /\ result = "none" /\ earned = 0

\* isa-debug-exit: the written value v ends QEMU with status (v << 1) | 1.
ExitCode(v) == CASE v = "success" -> 16 [] v = "failure" -> 17
HOST_STATUS(v) == 2 * ExitCode(v) + 1
HOST_STATUS_SUCCESS == 33

\* What a passing boot claims: every test returned, left the machine as it
\* found it, and caused the kills it declared and no refused completion,
\* except for events between two tests' windows.
Earned ==
    /\ test = NTests + 1 /\ sticky = {}
    /\ count["fault"] = unseen["fault"]
    /\ count["kill"] = declared + unseen["kill"]

Start ==
    /\ session \in {"suite", "staging"} /\ at = "idle" /\ issued < (IF session = "suite" THEN 1 ELSE MaxCommands)
    /\ command' = (IF session = "suite" THEN "test" ELSE "runner")
    /\ want' \in (IF session = "suite" THEN {CHOOSE k \in Kernels : TRUE} ELSE Kernels)
    /\ at' = "limine" /\ issued' = issued + 1 /\ boots' = 0 /\ result' = "none" /\ earned' = 0
    /\ UNCHANGED <<session, qemu, status, guest, files, repo, baseline>>

\* run_esp starts QEMU.
Spawn ==
    /\ at = "boot"
    /\ at' = "qemu" /\ qemu' = "up"
    /\ UNCHANGED <<session, issued, command, boots, status, result, earned, want, files, guest,
                   repo, baseline>>

\* The machine is gone, and the next boot starts with fresh memory.
PowerOff ==
    /\ test' = FirstTest /\ pc' = "ptr"
    /\ ptr' = NoTest /\ len' = NoTest /\ armed' = NoTest /\ look' = Idle
    /\ sticky' = {} /\ count' = [e \in Events |-> 0] /\ expected' = 0
    /\ before' = [sticky |-> {}, count |-> [e \in Events |-> 0]]
    /\ pending' = {} /\ declared' = 0 /\ unseen' = [e \in Events |-> 0]
    /\ stage' = [c \in Cpus |-> "run"] /\ depth' = 0 /\ said' = {} /\ nested' = FALSE
    /\ verdict' = "none"

Kernel ==
    /\ qemu = "up" /\ HarnessNext
    /\ UNCHANGED <<host, staging, repo, baseline>>

\* QEMU ends on the verdict; or the guest resets, which -no-reboot turns into
\* status 0; or the process is killed by a signal.
QemuEnds ==
    /\ qemu = "up"
    /\ IF verdict # "none" THEN qemu' = "exited" /\ status' = HOST_STATUS(verdict)
       ELSE qemu' \in {"exited", "signalled"} /\ status' = 0
    /\ earned' = (IF verdict = "success" /\ Earned THEN earned + 1 ELSE earned)
    /\ PowerOff
    /\ UNCHANGED <<session, issued, command, boots, result, staging, repo, baseline>>

Conclude(r) ==
    /\ result' = r /\ at' = "idle" /\ qemu' = "off"
    /\ UNCHANGED <<session, issued, command, status, want, files, repo, baseline>>

Passed == qemu = "exited" /\ status = HOST_STATUS_SUCCESS

\* run_esp reaps QEMU, and the runner matches its status.
Reap ==
    /\ at = "qemu" /\ qemu \in {"exited", "signalled"}
    /\ Passed => command = "runner"
    /\ Conclude(IF Passed THEN "ok" ELSE "error")
    /\ UNCHANGED <<boots, earned, guest>>

\* The test command boots a second kernel, built without the scheduler's
\* invariants; it is staged in a target directory of its own.
NextBoot ==
    /\ at = "qemu" /\ command = "test" /\ Passed
    /\ boots' = boots + 1 /\ qemu' = "off"
    /\ IF boots = 0 THEN at' = "limine" /\ kernel' = Missing /\ stamp' = Missing /\ disk' = Missing
       ELSE at' = "gates" /\ UNCHANGED <<kernel, stamp, disk>>
    /\ UNCHANGED <<session, issued, command, status, result, earned, want, limine, stray, unstamped,
                   guest, repo, baseline>>

\* QEMU outlives the budget: it is killed, whatever it was about to say.
Timeout ==
    /\ at = "qemu" /\ qemu = "up"
    /\ Conclude("error") /\ PowerOff /\ UNCHANGED <<boots, earned>>

\* ensure_limine refuses a payload with another digest.
Refuse == at = "refused" /\ Conclude("error") /\ UNCHANGED <<boots, earned, guest>>

Manifest == [name : {"qunix-mm", "qunix-linux-abi", "qunix-linux-compat"},
             license : {"permissive", "workspace", "copyleft", "none"}]

zone_for(name) == IF name = "qunix-linux-compat" THEN "copyleft" ELSE "permissive"

declared_license(m) == IF m.license = "workspace" THEN "permissive" ELSE m.license

\* licensing::check: every crate declares the licence of its zone, and there
\* is at least one crate.
licensing(crates) == crates # {} /\ \A m \in crates : declared_license(m) = zone_for(m.name)

\* The host tests, qpkg's tests, licensing::check and attest::check, in turn.
Gates ==
    /\ at = "gates"
    /\ \E tests, qpkg \in BOOLEAN, crates \in {{}} \cup {{m} : m \in Manifest} :
          Conclude(IF tests /\ qpkg /\ licensing(crates) /\ check(LocalEnv) = "ok"
                   THEN "ok" ELSE "error")
    /\ UNCHANGED <<boots, earned, guest>>

Stage ==
    /\ session \in {"suite", "staging"} /\ StagingStep
    /\ UNCHANGED <<host, guest, repo, baseline>>

Kill ==
    /\ session = "staging" /\ Killed
    /\ UNCHANGED <<host, guest, repo, baseline>>

AttestCommand ==
    /\ session = "attest" /\ AttestNext
    /\ UNCHANGED <<host, guest, staging, baseline>>

CoverageCommand ==
    /\ session = "coverage" /\ CoverageNext
    /\ UNCHANGED <<host, guest, staging, repo>>

Next ==
    \/ Start \/ Stage \/ Kill \/ Spawn \/ Kernel \/ QemuEnds \/ Reap \/ NextBoot \/ Timeout \/ Refuse \/ Gates
    \/ AttestCommand \/ CoverageCommand

Spec == Init /\ [][Next]_vars

----------------------------------------------------------------------------
(* Properties *)

(* A boot counted as passed was earned, and a test command that reports success
   passed two of them: main.rs accepts status 33 alone, and the harness writes it only after every
   test returned and was judged (testing.rs, main.rs "runner" and "test"). *)
SuccessIsEarned ==
    /\ boots <= earned
    /\ result = "ok" => earned = (IF command = "test" THEN 2 ELSE 1)

(* The kernel QEMU boots is the one the command was given, unless an earlier
   command was killed between its copy and its stamp (image.rs:118-122); the
   loader is the pinned one, nothing stray is served, and the disk is whole. *)
StagedIsRequested ==
    at \in {"boot", "qemu"} =>
        /\ ~unstamped => kernel = want
        /\ kernel \in Kernels /\ limine = "pinned" /\ ~stray /\ disk = "image"

(* While every check CI ran on the repository passed, the protected branch
   holds nothing but merges since it was created, and every merge that came
   through a pull request is attested (attest.rs: check). *)
GreenIsClean ==
    green => \A i \in created + 1 .. Len(origin) :
                 /\ origin[i].kind = "merge"
                 /\ origin[i].via = "pull" => origin[i].attested

(* A green ratchet means every crate is within the tolerance of the last floor
   that was raised or lowered under its own note, less the hundredths lost where the
   figure judged (round2) and the figure stored (`{:.2}`, coverage.rs:297) differ:
   each of those is one update on such a measurement.  Nothing else lets a floor
   slide, vanish with its crate, or drop out as an unreadable line (coverage.rs:
   check), unless a rewrite of the file was cut short before the crate's line was whole. *)
FloorsHold ==
    outcome = "ok" =>
        \A c \in Crates : mark[c] >= 0 =>
            /\ Measured(c)
            /\ \E f \in 0 .. mark[c] : /\ now[c] + TOLERANCE_PP >= 2 * f
                                      /\ (f + 1) .. mark[c] \subseteq slips[c]
=============================================================================
