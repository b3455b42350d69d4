------------------------------- MODULE Attest -------------------------------
(***************************************************************************)
(* The contribution gate of `xtask/src/attest.rs`, run by developers and   *)
(* by CI against a repository that keeps moving: every commit carries an   *)
(* attestation, and nothing is committed to a protected branch directly.   *)
(*                                                                         *)
(* The protected branch is `develop`.  Its history is the sequence of its  *)
(* first-parent entries; a merge entry stands for the merge and the topic  *)
(* branch commits it makes reachable.                                      *)
(***************************************************************************)
EXTENDS Naturals, Sequences, FiniteSets

CONSTANTS MaxHistory     \* bound on the entries of a branch

Absent == "absent"
UpstreamRepo == "upstream"
Protected == {"main", "develop"}
Entry == [kind : {"commit", "merge"}, attested : BOOLEAN, via : {"push", "pull"}]

VARIABLES
    head,       \* develop in the developer's clone
    origin,     \* develop in the upstream repository
    created,    \* entries origin had when the branch was created
    green,      \* history: every CI check of this repository so far passed
    last        \* history: the last check: [event, added, result]

repo == <<head, origin, created, green, last>>

NoCheck == [event |-> Absent, added |-> << >>, result |-> Absent]

AttestInit ==
    /\ head = << >> /\ origin = << >> /\ created = 0
    /\ green = TRUE /\ last = NoCheck

----------------------------------------------------------------------------
resolve_branch(named, head_ref, ref_name) ==
    IF named # "HEAD" THEN named
    ELSE IF head_ref # Absent THEN head_ref
    ELSE IF ref_name # Absent THEN ref_name ELSE named

\* GITHUB_HEAD_REF, a branch of the contributor's fork, is left out.
protected_candidate(env) == resolve_branch(env.named, Absent, env.ref_name)

protected_applies(event) == event \in {Absent, "push"}

protected_fires(event, branch) == protected_applies(event) /\ branch \in Protected

missing_base_is_fatal(ci, repository) == ci /\ repository \in {Absent, UpstreamRepo}

\* rev-list --no-merges: the topic commits of a merge, not the merge.
Hashes(entries) == Len(entries)

\* rev-list --no-merges --first-parent: what was committed on the branch itself.
CountDirect(entries) == Cardinality({i \in DOMAIN entries : entries[i].kind = "commit"})

\* rev-parse --verify: a fresh checkout contains the commits of its own history.  One that
\* only another ref still holds would be compared with, not refused; there is none here.
IsAncestor(old, new) == Len(old) <= Len(new) /\ SubSeq(new, 1, Len(old)) = old

After(old, new) == SubSeq(new, Len(old) + 1, Len(new))

\* How many entries two histories share before they part.
Shared(a, b) ==
    CHOOSE n \in 0..Len(a) :
        /\ n <= Len(b) /\ \A i \in 1..n : a[i] = b[i]
        /\ n = Len(a) \/ n = Len(b) \/ a[n + 1] # b[n + 1]

\* The default range, `origin/develop..HEAD`.
DefaultRange(env) == SubSeq(env.tree, Shared(env.base, env.tree) + 1, Len(env.tree))

\* An empty value was not set; all zeros is git's "this ref did not exist".
usable_before(raw) == raw \notin {Absent, "zero"}

range_for_before_open(env) ==
    CASE ~usable_before(env.before) -> "none"
      [] ~IsAncestor(env.old, env.tree) -> "none"
      [] OTHER -> "range"

\* The push event names the branch's previous head; one that this checkout does
\* not contain is refused.
range_for_before(env) ==
    CASE ~usable_before(env.before) -> "none"
      [] ~IsAncestor(env.old, env.tree) -> "refuse"
      [] OTHER -> "range"

pushed(env) ==
    IF range_for_before(env) = "range" THEN CountDirect(After(env.old, env.tree))
    ELSE Hashes(DefaultRange(env))

attested(entries) == \A i \in DOMAIN entries : entries[i].attested

check(env) ==
    IF ~env.hasBase
    THEN IF missing_base_is_fatal(env.ci, env.repository) THEN "fail" ELSE "skip"
    ELSE IF /\ protected_fires(env.event, protected_candidate(env))
            /\ (range_for_before(env) # "refuse" => pushed(env) > 0)
    THEN "fail"
    ELSE IF attested(DefaultRange(env)) THEN "ok" ELSE "fail"

----------------------------------------------------------------------------
Env(event, named, ref_name, before, old, base, tree, hasBase, ci, repository) ==
    [event |-> event, named |-> named, ref_name |-> ref_name, before |-> before, old |-> old,
     base |-> base, tree |-> tree, hasBase |-> hasBase, ci |-> ci, repository |-> repository]

\* On push, CI checks out the pushed head detached, and origin/develop is it.
PushEvent(old, new) ==
    Env("push", "HEAD", "develop", IF old = << >> THEN "zero" ELSE "sha", old, new, new, TRUE,
        TRUE, UpstreamRepo)

\* On a pull request, CI checks out a merge of the topic onto origin/develop.
PullEvent(topic, hasBase, repository) ==
    Env("pull_request", "HEAD", "1/merge", Absent, << >>, origin, Append(origin, topic), hasBase,
        TRUE, repository)

\* default_range falls back to the local develop, which is HEAD.
LocalEnv == Env(Absent, "develop", Absent, Absent, << >>, IF origin = << >> THEN head ELSE origin,
                head, TRUE, FALSE, Absent)

Record(env, added) ==
    LET result == check(env) IN
    /\ last' = [event |-> env.event, added |-> added, result |-> result]
    /\ green' = (green /\ (env.repository = UpstreamRepo => result \in {"ok", "skip"}))

\* The developer commits on develop, or merges a topic branch into it.
Work ==
    /\ Len(head) < MaxHistory
    /\ \E k \in {"commit", "merge"}, a \in BOOLEAN :
          head' = Append(head, [kind |-> k, attested |-> a, via |-> "push"])
    /\ UNCHANGED <<origin, created, green, last>>

\* git reset: drop the newest entry, pushed or not; or take origin's history.
Rewind ==
    /\ head # << >>
    /\ head' \in {SubSeq(head, 1, Len(head) - 1), origin}
    /\ UNCHANGED <<origin, created, green, last>>

LocalCheck ==
    /\ head # << >>
    /\ LET result == check(LocalEnv) IN
       last' = [event |-> "local", added |-> DefaultRange(LocalEnv), result |-> result]
    /\ UNCHANGED <<head, origin, created, green>>

\* git push, with --force where the histories have parted, and its CI check.
Push ==
    /\ head # << >> /\ head # origin
    /\ origin' = head
    /\ created' = IF origin = << >> THEN Len(head) ELSE created
    /\ Record(PushEvent(origin, head), IF IsAncestor(origin, head) THEN After(origin, head) ELSE head)
    /\ UNCHANGED head

\* A pull request from a topic branch or a fork, checked by CI and then merged.
PullRequest ==
    /\ origin # << >>
    /\ \E a, hasBase \in BOOLEAN :
          LET topic == [kind |-> "merge", attested |-> a, via |-> "pull"] IN
          Record(PullEvent(topic, hasBase, UpstreamRepo), <<topic>>)
    /\ UNCHANGED <<head, origin, created>>

MergePull ==
    /\ last.event = "pull_request" /\ last.added # << >> /\ Len(origin) < MaxHistory
    /\ origin' = Append(origin, last.added[1])
    /\ Record(PushEvent(origin, origin'), last.added)
    /\ UNCHANGED <<head, created>>

\* The same workflow in a fork that has neither develop nor main.
ForkRun ==
    /\ origin # << >>
    /\ Record(PullEvent([kind |-> "merge", attested |-> TRUE, via |-> "pull"], FALSE, "fork"),
              << >>)
    /\ UNCHANGED <<head, origin, created>>

AttestNext == Work \/ Rewind \/ LocalCheck \/ Push \/ PullRequest \/ MergePull \/ ForkRun
=============================================================================
