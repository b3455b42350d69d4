---------------------------- MODULE PackageIndex ----------------------------
(***************************************************************************)
(* The index and the commands of `qpkg`: `sync` refreshes the tables from  *)
(* three feeds, `update` compares them with what was built, `search` and   *)
(* `info` read.  Building is module Qpkg.                                  *)
(*                                                                         *)
(* Packages are members of one base, so they share a PKGBUILD and the name *)
(* of an artifact, which is made of pkgname[0] and the version.  A version *)
(* is the number of its release; `published` holds its text.  Commands run *)
(* as processes that may be killed at any step; commands on one index      *)
(* exclude each other (redb locks the file), commands on two do not, yet   *)
(* share the build trees and the artifacts.                                *)
(***************************************************************************)
EXTENDS Sources, Vercmp

CONSTANTS
    Dbs,            \* index files: --db, $QPKG_DB
    Recipes,        \* PKGBUILDs
    Histories,      \* sequences of versions upstream may publish
    MaxTime, MaxCommands, MaxFaults,
    STALE_THRESHOLD

VARIABLES
    published, release, where,      \* upstream: versions, the newest, the feeds carrying it
    clock, newestAt,                \* newestAt[t]: the newest release when t began
    rows, built, stamp, lock,       \* the tables of each index, and its file lock
    proc,                           \* the commands
    artifact,                       \* artifacts_dir()/<pkgname[0]>-<release>
    cut,                            \* history: artifacts whose last write was interrupted
    missed,                         \* history: no feed of the last sync had the package
    commands, faults

upstream == <<published, release, where, clock, newestAt>>
tables == <<rows, built, stamp, lock>>
vars == <<upstream, tables, proc, artifact, cut, missed, commands, faults, recipe, work, thread>>

Releases == DOMAIN published
Feeds == <<"core", "extra", "aur">>
FeedSet == {"core", "extra", "aur"}
OfficialAndAur == {"official", "aur"}

NoRow == [rel |-> 0, repo |-> "none"]
Never == -1
Pending == -2
Failed == -1
Absent == 0

NoTree == [pkgbuild |-> 0, beside |-> << >>, src |-> {}, pkg |-> {}, sound |-> FALSE]
NoArtifact == [state |-> "none", of |-> {}, sound |-> FALSE, alone |-> TRUE]
Idle == [pc |-> "idle", kind |-> "none", db |-> 0, name |-> "none", now |-> 0, rel |-> 0,
         entry |-> 1, todo |-> << >>, shown |-> << >>, quiet |-> FALSE, overlap |-> FALSE,
         got |-> [f \in FeedSet |-> Pending]]

At(s, pc) == proc[s].pc = pc
Db(s) == proc[s].db
Name(s) == proc[s].name
Goto(s, pc) == proc' = [proc EXCEPT ![s].pc = pc]

----------------------------------------------------------------------------
(* A command begins and ends. *)

\* redb::Database::create takes the lock of the file, or fails.
open(d) == lock[d] = 0

\* main: now_unix() is read once, before the command's work.
Start(s, kind, d, n) ==
    /\ At(s, "idle") /\ commands < MaxCommands
    /\ commands' = commands + 1
    /\ IF ~open(d) THEN UNCHANGED <<proc, lock>>
       ELSE /\ lock' = [lock EXCEPT ![d] = s]
            /\ proc' = [proc EXCEPT ![s] =
                   [Idle EXCEPT !.kind = kind, !.db = d, !.name = n, !.now = clock,
                                !.pc = CASE kind \in {"sync", "update", "update --build"} -> "fetch"
                                         [] kind = "build" -> "host"
                                         [] kind \in {"search", "info"} -> "answer"]]
    /\ UNCHANGED <<upstream, rows, built, stamp, artifact, cut, missed, faults, recipe, work, thread>>

Ended(s) ==
    /\ proc' = [proc EXCEPT ![s] = Idle]
    /\ thread' = [thread EXCEPT ![s] = NoThreads]
    /\ lock' = [lock EXCEPT ![Db(s)] = 0]

\* A network error, a full disk, a tool that fails: the command returns its error.
CanFail == {"fetch", "host", "lookup", "pkgbuild", "extract", "locals", "entries",
            "stage", "prepare", "build", "package", "contain", "pack", "write", "record"}
Fails(s) ==
    /\ proc[s].pc \in CanFail
    /\ Ended(s)
    /\ cut' = IF At(s, "write") THEN cut \cup {proc[s].rel} ELSE cut
    /\ UNCHANGED <<upstream, rows, built, stamp, artifact, missed, commands, faults, recipe, work>>

\* The process is killed.  Every table was left by a committed transaction.
Killed(s) ==
    /\ ~At(s, "idle") /\ faults < MaxFaults
    /\ faults' = faults + 1
    /\ Ended(s)
    /\ cut' = IF At(s, "write") THEN cut \cup {proc[s].rel} ELSE cut
    /\ UNCHANGED <<upstream, rows, built, stamp, artifact, missed, commands, recipe, work>>

----------------------------------------------------------------------------
(* search, info. *)

stale(d, now) == \E source \in OfficialAndAur :
    stamp[d][source] = Never \/ now - stamp[d][source] > STALE_THRESHOLD

search_with_built(d) == rows[d]

\* warn_if_stale, then the hits of the search.
Answer(s) ==
    /\ At(s, "answer")
    /\ proc' = [proc EXCEPT ![s].pc = "answered", ![s].quiet = ~stale(Db(s), proc[s].now),
                            ![s].shown = search_with_built(Db(s))]
    /\ UNCHANGED <<upstream, tables, artifact, cut, missed, commands, faults, recipe, work, thread>>

Answered(s) ==
    /\ At(s, "answered")
    /\ Ended(s)
    /\ UNCHANGED <<upstream, rows, built, stamp, artifact, cut, missed, commands, faults, recipe, work>>

----------------------------------------------------------------------------
(* sync. *)

Carried(f) == IF f \in where THEN release ELSE Absent

\* A desc without a name or a version is skipped.
parse_repo_db(f) == {Failed, Absent, Carried(f)}

\* An entry without one fails the whole dump.
parse_aur_dump == {Failed, Carried("aur")}

\* Three requests at once; a payload that does not parse counts as failed, and then
\* it makes no difference what the other two bring.
FetchFeed(s, f) ==
    /\ At(s, "fetch") /\ proc[s].got[f] = Pending
    /\ \E r \in (IF f = "aur" THEN parse_aur_dump ELSE parse_repo_db(f)) :
          proc' = [proc EXCEPT ![s].got = IF r = Failed THEN [g \in FeedSet |-> Failed]
                                          ELSE [@ EXCEPT ![f] = r]]
    /\ UNCHANGED <<upstream, tables, artifact, cut, missed, commands, faults, recipe, work, thread>>

Arrived(s) == \A f \in FeedSet : proc[s].got[f] # Pending

Carrying(s) == SelectSeq(Feeds, LAMBDA f : proc[s].got[f] > 0)

\* A later feed's row replaces an earlier one's; no row is ever removed.
upsert_packages(s, n) ==
    IF Carrying(s) = << >> THEN rows[Db(s)][n]
    ELSE [rel |-> proc[s].got[Last(Carrying(s))], repo |-> Last(Carrying(s))]

set_sync_time(s, source) == stamp' = [stamp EXCEPT ![Db(s)][source] = proc[s].now]

\* The stamps are committed before the rows.
ingest_stamps_first(s) ==
    \/ /\ At(s, "fetch") /\ Arrived(s) /\ \A f \in FeedSet : proc[s].got[f] # Failed
       /\ set_sync_time(s, "official") /\ Goto(s, "stamp aur") /\ UNCHANGED rows
    \/ /\ At(s, "stamp aur")
       /\ set_sync_time(s, "aur") /\ Goto(s, "rows") /\ UNCHANGED rows
    \/ /\ At(s, "rows")
       /\ rows' = [rows EXCEPT ![Db(s)] = [n \in Names |-> upsert_packages(s, n)]]
       /\ Goto(s, "synced") /\ UNCHANGED stamp

\* ingest: all three arrived and parsed; one transaction for the rows, then
\* one per stamp.
ingest(s) ==
    \/ /\ At(s, "fetch") /\ Arrived(s) /\ \A f \in FeedSet : proc[s].got[f] # Failed
       /\ rows' = [rows EXCEPT ![Db(s)] = [n \in Names |-> upsert_packages(s, n)]]
       /\ Goto(s, "stamp official") /\ UNCHANGED stamp
    \/ /\ At(s, "stamp official")
       /\ set_sync_time(s, "official") /\ Goto(s, "stamp aur") /\ UNCHANGED rows
    \/ /\ At(s, "stamp aur")
       /\ set_sync_time(s, "aur") /\ Goto(s, "synced") /\ UNCHANGED rows

Ingest(s) ==
    /\ ingest(s)
    /\ missed' = IF At(s, "fetch") THEN Carrying(s) = << >> ELSE missed
    /\ UNCHANGED <<upstream, built, lock, artifact, cut, commands, faults, recipe, work, thread>>

\* The end of `sync`; `update` goes on to the comparison.
Synced(s) ==
    /\ At(s, "synced")
    /\ IF proc[s].kind = "sync" THEN Ended(s) ELSE Goto(s, "outdated") /\ UNCHANGED <<thread, lock>>
    /\ UNCHANGED <<upstream, rows, built, stamp, artifact, cut, missed, commands, faults, recipe, work>>

----------------------------------------------------------------------------
(* update. *)

\* The built package n is behind the index.
Behind(d, n) ==
    /\ built[d][n] # 0 /\ rows[d][n].rel # 0
    /\ vercmp(published[rows[d][n].rel], published[built[d][n]]) = Greater

Outdated(s) ==
    /\ At(s, "outdated")
    /\ proc' = [proc EXCEPT ![s].pc = "listed",
                            ![s].todo = SetToSeq({n \in Names : Behind(Db(s), n)})]
    /\ UNCHANGED <<upstream, tables, artifact, cut, missed, commands, faults, recipe, work, thread>>

\* The next package of `update --build`, or the end.
NextBuild(s) ==
    /\ \/ At(s, "listed")
       \/ At(s, "cleaned")
    /\ IF proc[s].kind = "update --build" /\ proc[s].todo # << >>
       THEN /\ proc' = [proc EXCEPT ![s].pc = "host", ![s].name = Head(proc[s].todo),
                                    ![s].todo = Tail(proc[s].todo), ![s].overlap = FALSE]
            /\ UNCHANGED <<thread, lock>>
       ELSE Ended(s)
    /\ UNCHANGED <<upstream, rows, built, stamp, artifact, cut, missed, commands, faults, recipe, work>>
=============================================================================
