-------------------------------- MODULE Qpkg --------------------------------
(***************************************************************************)
(* The build of one package, `build_inner` of `qpkg/src/build.rs` with the *)
(* runner and the artifact writer, joined to the index and the commands.   *)
(***************************************************************************)
EXTENDS PackageIndex

CONSTANTS
    Sessions,   \* what is explored: see Init
    Chronicle,  \* the versions published, but in "versions"
    Plain,      \* a PKGBUILD without remote sources
    Simple      \* the PKGBUILD two processes build

VARIABLE session

MaxBuilds == 2  \* bound on the commands of the sessions that only build

BuildSteps == {"pkgbuild", "extract", "locals", "stage", "threads", "entries", "prepare", "build",
               "package", "contain", "pack", "write", "record", "cleanup"}

CheckHost(s) ==
    /\ At(s, "host")
    /\ Goto(s, "lookup")
    /\ UNCHANGED <<upstream, tables, artifact, cut, missed, commands, faults, recipe, work, thread>>

\* Index::get
Row(s) == rows[Db(s)][Name(s)]
Official(s) == Row(s).repo # "aur"

\* The other processes in the tree of package n.
Sharing(s, n) == {t \in Slots : t # s /\ proc[t].pc \in BuildSteps /\ Name(t) = n}

Marked(s, others, pc) ==
    [t \in Slots |-> IF t = s THEN [proc[t] EXCEPT !.pc = pc, !.overlap = @ \/ others # {}]
                     ELSE IF t \in others THEN [proc[t] EXCEPT !.overlap = TRUE] ELSE proc[t]]

\* remove_dir_all and create_dir_all.
EmptyTree(n) == NoTree

\* A package that is not in the index is an error.
ClearTree(s) ==
    /\ At(s, "lookup") /\ Row(s) # NoRow
    /\ work' = [work EXCEPT ![Name(s)] = EmptyTree(Name(s))]
    /\ proc' = Marked(s, Sharing(s, Name(s)), "pkgbuild")
    /\ UNCHANGED <<upstream, tables, artifact, cut, missed, commands, faults, recipe, thread>>

\* The tree of a snapshot holds every local file; the raw file of a tag is
\* alone.  An HTML answer is refused, as an error.
LocalEntries == {i \in DOMAIN entries : Entry(i).kind = "local"}

\* The tag of the indexed version.
official_raw_url(s) == Row(s).rel

fetch_pkgbuild(s) ==
    /\ At(s, "pkgbuild")
    /\ ~Official(s) => "aur" \in where
    /\ LET rel == IF Official(s) THEN official_raw_url(s) ELSE release
       IN  /\ proc' = [proc EXCEPT ![s].pc = "extract", ![s].rel = rel]
           /\ work' = [work EXCEPT ![Name(s)].pkgbuild = rel,
                                   ![Name(s)].beside = IF Official(s) THEN << >>
                                                       ELSE [i \in LocalEntries |-> "right"]]
    /\ UNCHANGED <<upstream, tables, artifact, cut, missed, commands, faults, recipe, thread>>

\* bash evaluates the PKGBUILD and the transcript parses; check_arch.
Extract(s) ==
    /\ At(s, "extract") /\ recipe.x86_64
    /\ Goto(s, "locals")
    /\ UNCHANGED <<upstream, tables, artifact, cut, missed, commands, faults, recipe, work, thread>>

\* An official package's local files are fetched one by one; of `dest::file`
\* it is `dest` that is asked for and written.
FetchLocals(s) ==
    /\ At(s, "locals")
    /\ IF Official(s)
       THEN \E body \in Bodies :
               work' = [work EXCEPT ![Name(s)].beside =
                           [i \in {j \in LocalEntries : ~Entry(j).renamed} |-> body]]
       ELSE UNCHANGED work
    /\ Goto(s, "stage")
    /\ UNCHANGED <<upstream, tables, artifact, cut, missed, commands, faults, recipe, thread>>

----------------------------------------------------------------------------
(* stage and run_functions. *)

Stage(s) ==
    /\ At(s, "stage") /\ ~count_refused
    /\ thread' = [thread EXCEPT ![s] = Spawned]
    /\ Goto(s, "threads")
    /\ UNCHANGED <<upstream, tables, artifact, cut, missed, commands, faults, recipe, work>>

StreamStep(s, i) ==
    /\ At(s, "threads")
    /\ Stream(s, i, Name(s), proc[s].rel)
    /\ UNCHANGED <<upstream, tables, proc, artifact, cut, missed, commands, faults, recipe>>

\* The failure of the first failing entry is the command's.
Join(s) ==
    /\ At(s, "threads") /\ Joined(s)
    /\ IF RemoteFailed(s) THEN Ended(s)
       ELSE /\ proc' = [proc EXCEPT ![s].pc = "entries", ![s].entry = 1]
            /\ thread' = [thread EXCEPT ![s] = NoThreads] /\ UNCHANGED lock
    /\ UNCHANGED <<upstream, rows, built, stamp, artifact, cut, missed, commands, faults, recipe, work>>

StageNext(s) ==
    /\ At(s, "entries")
    /\ IF proc[s].entry <= Len(entries)
       THEN /\ StageEntry(Name(s), proc[s].entry, proc[s].rel)
            /\ proc' = [proc EXCEPT ![s].entry = @ + 1]
       ELSE Goto(s, "prepare") /\ UNCHANGED work
    /\ UNCHANGED <<upstream, tables, artifact, cut, missed, commands, faults, recipe, thread>>

\* The command returns the error of extract_if_archive.
StageFails(s) ==
    /\ At(s, "entries") /\ proc[s].entry <= Len(entries)
    /\ StageTorn(Name(s), proc[s].entry, proc[s].rel)
    /\ Ended(s)
    /\ UNCHANGED <<upstream, rows, built, stamp, artifact, cut, missed, commands, faults, recipe>>

\* What package() leaves in pkgdir: the releases its files come from, and
\* whether the sources were the verified ones.
Packaged(s) ==
    [work[Name(s)] EXCEPT
        !.pkg = IF recipe.output = "empty" THEN {}
                ELSE {work[Name(s)].pkgbuild} \cup {f.rel : f \in work[Name(s)].src},
        !.sound = Verified(Name(s), proc[s].rel)]

\* STAGES, those the PKGBUILD defines.
RunFunction(s) ==
    /\ \/ At(s, "prepare") /\ Goto(s, "build") /\ UNCHANGED work
       \/ At(s, "build") /\ Goto(s, "package") /\ UNCHANGED work
       \/ /\ At(s, "package") /\ Goto(s, "contain")
          /\ work' = IF "package" \in recipe.functions
                     THEN [work EXCEPT ![Name(s)] = Packaged(s)] ELSE work
    /\ UNCHANGED <<upstream, tables, artifact, cut, missed, commands, faults, recipe, thread>>

\* A link that leaves the package is refused.
check_containment(s) ==
    /\ At(s, "contain") /\ (work[Name(s)].pkg # {} => recipe.output # "escapes")
    /\ Goto(s, "pack")
    /\ UNCHANGED <<upstream, tables, artifact, cut, missed, commands, faults, recipe, work, thread>>

----------------------------------------------------------------------------
(* package, record_built. *)

Writing(rel) == {t \in Slots : proc[t].pc = "write" /\ proc[t].rel = rel}

\* What is under pkgdir.
collect(s) == work[Name(s)].pkg

\* A package without files is refused; File::create truncates an artifact of
\* the same name.
PackOpen(s) ==
    /\ At(s, "pack") /\ collect(s) # {}
    /\ artifact' = [artifact EXCEPT ![proc[s].rel] = [NoArtifact EXCEPT !.state = "torn"]]
    /\ proc' = Marked(s, Writing(proc[s].rel), "write")
    /\ UNCHANGED <<upstream, tables, cut, missed, commands, faults, recipe, work, thread>>

\* The archive is complete.
PackFinish(s) ==
    /\ At(s, "write")
    /\ artifact' = [artifact EXCEPT ![proc[s].rel] =
                       [state |-> "whole", of |-> collect(s), sound |-> work[Name(s)].sound,
                        alone |-> ~proc[s].overlap]]
    /\ cut' = cut \ {proc[s].rel}
    /\ Goto(s, "record")
    /\ UNCHANGED <<upstream, tables, missed, commands, faults, recipe, work, thread>>

record_built(s) ==
    /\ At(s, "record")
    /\ built' = [built EXCEPT ![Db(s)][Name(s)] = proc[s].rel]
    /\ Goto(s, "cleanup")
    /\ UNCHANGED <<upstream, rows, stamp, lock, artifact, cut, missed, commands, faults, recipe, work, thread>>

\* The trees have served; the PKGBUILD stays.
Cleanup(s) ==
    /\ At(s, "cleanup")
    /\ work' = [work EXCEPT ![Name(s)].src = {}, ![Name(s)].pkg = {}, ![Name(s)].sound = FALSE]
    /\ Goto(s, "cleaned")
    /\ UNCHANGED <<upstream, tables, artifact, cut, missed, commands, faults, recipe, thread>>

BuildNext(s) ==
    \/ CheckHost(s) \/ ClearTree(s) \/ fetch_pkgbuild(s) \/ Extract(s) \/ FetchLocals(s)
    \/ Stage(s) \/ Join(s) \/ StageNext(s) \/ StageFails(s) \/ RunFunction(s) \/ check_containment(s)
    \/ PackOpen(s) \/ PackFinish(s) \/ record_built(s) \/ Cleanup(s)
    \/ \E i \in 1..MaxEntries : StreamStep(s, i)

----------------------------------------------------------------------------
(* Upstream and the clock. *)

Publish ==
    /\ release < Len(published) /\ where # {}
    /\ release' = release + 1
    /\ UNCHANGED <<published, where, clock, newestAt, tables, proc, artifact, cut, missed,
                   commands, faults, recipe, work, thread>>

\* The package moves to another repository, or out of all of them.
Move(feeds) ==
    /\ faults < MaxFaults /\ where # {} /\ feeds # where
    /\ where' = feeds /\ faults' = faults + 1
    /\ UNCHANGED <<published, release, clock, newestAt, tables, proc, artifact, cut, missed,
                   commands, recipe, work, thread>>

Tick ==
    /\ clock < MaxTime
    /\ clock' = clock + 1 /\ newestAt' = [newestAt EXCEPT ![clock + 1] = release]
    /\ UNCHANGED <<published, release, where, tables, proc, artifact, cut, missed, commands,
                   faults, recipe, work, thread>>

----------------------------------------------------------------------------

Tables(row) ==
    /\ rows = [d \in Dbs |-> [n \in Names |-> row]]
    /\ built = [d \in Dbs |-> [n \in Names |-> 0]]
    /\ proc = [s \in Slots |-> Idle]

\* Commands of every kind, one at a time, from an empty index.
OneIndex ==
    /\ published = Chronicle /\ release = 1 /\ recipe = Plain
    /\ where = {"core", "aur"}
    /\ Tables(NoRow)

\* Builds of every PKGBUILD, one at a time; the index holds the first release.
OneBuild ==
    /\ published = Chronicle /\ release = 1 /\ recipe \in Recipes
    /\ where \in {{"core"}, {"aur"}}
    /\ \E repo \in where : Tables([rel |-> 1, repo |-> repo])

\* Two processes, whose indexes hold the first release.
TwoProcesses ==
    /\ published = Chronicle /\ release = 1 /\ recipe = Simple
    /\ where = {"aur"}
    /\ Tables([rel |-> 1, repo |-> "aur"])

\* An `update` that has synced: each package was built from the first
\* release, and the index holds the last.
Versions ==
    /\ published \in Histories /\ release = Len(published) /\ recipe = Simple
    /\ where = {"aur"}
    /\ rows = [d \in Dbs |-> [n \in Names |-> [rel |-> release, repo |-> "aur"]]]
    /\ built = [d \in Dbs |-> [n \in Names |-> 1]]
    /\ proc = [s \in Slots |-> IF s = 1 THEN [Idle EXCEPT !.pc = "outdated", !.kind = "update", !.db = 1]
                               ELSE Idle]

Init ==
    /\ session \in Sessions
    /\ CASE session = "index" -> OneIndex
         [] session = "build" -> OneBuild
         [] session = "two" -> TwoProcesses
         [] session = "versions" -> Versions
    /\ clock = 0 /\ newestAt = [t \in 0..MaxTime |-> 1]
    /\ stamp = [d \in Dbs |-> [source \in OfficialAndAur |-> Never]]
    /\ lock = [d \in Dbs |-> IF proc[1].db = d THEN 1 ELSE 0]
    /\ artifact = [r \in Releases |-> NoArtifact]
    /\ cut = {} /\ missed = FALSE /\ commands = 0 /\ faults = 0
    /\ work = [n \in Names |-> NoTree]
    /\ thread = [s \in Slots |-> NoThreads]

Kinds == {"sync", "update", "update --build", "search"}

Command(s) ==
    \/ /\ session = "index" /\ s = 1
       /\ \/ \E kind \in Kinds : Start(s, kind, 1, "none")
          \/ \E n \in Names : Start(s, "build", 1, n)
    \/ /\ session = "build" /\ s = 1 /\ commands < MaxBuilds
       /\ \E n \in Names : Start(s, "build", 1, n)
    \/ /\ session = "two" /\ commands < MaxBuilds
       /\ \E d \in Dbs, n \in Names : Start(s, "build", d, n)

Steps(s) ==
    \/ Command(s) \/ Fails(s) \/ Killed(s) \/ Answer(s) \/ Answered(s)
    \/ Ingest(s) \/ Synced(s) \/ Outdated(s) \/ NextBuild(s) \/ BuildNext(s)
    \/ \E f \in FeedSet : FetchFeed(s, f)

Upstream ==
    \/ session \in {"index", "build"} /\ Publish
    \/ session = "index" /\ Tick
    \/ session = "index" /\ \E feeds \in {{"extra"}, {}} : Move(feeds)

Next ==
    /\ \/ \E s \in Slots : Steps(s)
       \/ Upstream
    /\ UNCHANGED session

Spec == Init /\ [][Next]_<<vars, session>>
=============================================================================
