------------------------------ MODULE Sources ------------------------------
(***************************************************************************)
(* Staging of a PKGBUILD's `source=` entries, `qpkg/src/sources.rs`: one   *)
(* thread per remote entry streams its body into `workdir/src`, then every *)
(* entry is handled in order.                                              *)
(*                                                                         *)
(* A body is two halves, "right" (what the checksum was made from) or      *)
(* "wrong".  A staged file is the set of halves written to it since it was *)
(* last truncated, so a file two threads write at once is neither's.  Tar  *)
(* archives are unpacked into the same directory, each over what is there. *)
(***************************************************************************)
EXTENDS Integers, FiniteSets, Sequences

CONSTANTS Slots, Names

VARIABLES
    recipe,     \* what the PKGBUILD declares
    work,       \* build_dir(name): the tree of the package's last build
    thread      \* thread[s][i]: the stream of entry i in process s

Bodies == {"right", "wrong"}
MaxEntries == 2
Asleep == [at |-> "none", body |-> "right"]
NoThreads == [i \in 1..MaxEntries |-> Asleep]

entries == recipe.source
Entry(i) == entries[i]

\* Sums::expected, and the SKIP of one entry.
Summed(i) == recipe.sums # "none" /\ Entry(i).sum # "SKIP" /\ Entry(i).kind # "git"
count_refused == recipe.sums # "none" /\ recipe.count # Len(entries)

MismatchSkipped(i, body) == Entry(i).sum = "SKIP" /\ body = "wrong"

\* verify_bytes and the end of stream_verified.
Mismatch(i, body) == Summed(i) /\ body = "wrong"

Whole(i, body) == {<<i, body, 1>>, <<i, body, 2>>}

----------------------------------------------------------------------------
(* The directory `src`: at most one file of a name, and names carry the     *)
(* release they belong to.                                                  *)

Holds(n, name, rel) == \E f \in work[n].src : f.name = name /\ f.rel = rel
Others(n, name, rel) == {f \in work[n].src : f.name # name \/ f.rel # rel}
Staged(n, name, rel) == CHOOSE f \in work[n].src : f.name = name /\ f.rel = rel

Write(n, name, rel, halves) ==
    work' = [work EXCEPT ![n].src = Others(n, name, rel)
                                    \cup {[name |-> name, rel |-> rel, halves |-> halves]}]

\* A write through a handle whose file was unlinked reaches no directory.
Extend(n, name, rel, half) ==
    IF Holds(n, name, rel)
    THEN Write(n, name, rel, Staged(n, name, rel).halves \cup {half})
    ELSE UNCHANGED work

\* What unpack_in makes of a member: a new file, whatever had its name.
Member(i) == {<<i, "member">>}
Unpacked(src, i, rel, members) ==
    {f \in src : f.name \notin members \/ f.rel # rel}
    \cup {[name |-> m, rel |-> rel, halves |-> Member(i)] : m \in members}

Unlink(n, name, rel) == work' = [work EXCEPT ![n].src = Others(n, name, rel)]

----------------------------------------------------------------------------
(* stream_verified, one thread per remote entry. *)

Spawned == [i \in 1..MaxEntries |->
               IF i <= Len(entries) /\ Entry(i).kind = "remote"
               THEN [at |-> "fetch", body |-> "right"] ELSE Asleep]

Goes(s, i, at) == thread' = [thread EXCEPT ![s][i].at = at]

\* The request fails before the file is created.
FetchFails(s, i) ==
    /\ thread[s][i].at = "fetch"
    /\ Goes(s, i, "failed")
    /\ UNCHANGED work

\* File::create truncates what is there.
Create(s, i, n, rel) ==
    /\ thread[s][i].at = "fetch"
    /\ \E body \in Bodies : thread' = [thread EXCEPT ![s][i] = [at |-> "first", body |-> body]]
    /\ Write(n, Entry(i).name, rel, {})

FirstHalf(s, i, n, rel) ==
    /\ thread[s][i].at = "first"
    /\ Goes(s, i, "second")
    /\ Extend(n, Entry(i).name, rel, <<i, thread[s][i].body, 1>>)

\* The body ends early: what was written stays.
ReadFails(s, i) ==
    /\ thread[s][i].at = "second"
    /\ Goes(s, i, "failed")
    /\ UNCHANGED work

\* The last bytes, flush, and the verdict on the hash of what was received.
SecondHalf(s, i, n, rel) ==
    /\ thread[s][i].at = "second"
    /\ Goes(s, i, "verify")
    /\ Extend(n, Entry(i).name, rel, <<i, thread[s][i].body, 2>>)

Verify(s, i, n, rel) ==
    /\ thread[s][i].at = "verify"
    /\ IF Mismatch(i, thread[s][i].body)
       THEN Goes(s, i, "failed") /\ Unlink(n, Entry(i).name, rel)
       ELSE Goes(s, i, "done") /\ UNCHANGED work

Stream(s, i, n, rel) ==
    \/ FetchFails(s, i)
    \/ Create(s, i, n, rel)
    \/ FirstHalf(s, i, n, rel)
    \/ ReadFails(s, i)
    \/ SecondHalf(s, i, n, rel)
    \/ Verify(s, i, n, rel)

Joined(s) == \A i \in 1..MaxEntries : thread[s][i].at \in {"none", "done", "failed"}
RemoteFailed(s) == \E i \in 1..MaxEntries : thread[s][i].at = "failed"

----------------------------------------------------------------------------
(* The loop over the entries, once the threads are joined. *)

\* The members extract_if_archive finds in entry i, by the names that matter: those the
\* packager put there, or any when the file is not the one they made.
Files == {Entry(j).name : j \in DOMAIN entries}
Contents(i, halves) ==
    IF ~Entry(i).archive THEN {{}}
    ELSE IF halves = Whole(i, "right") THEN {Entry(i).holds} ELSE SUBSET Files

\* The loop of extract_if_archive over the archive of entry i, to its end or, when
\* a member cannot be read or would escape, short of it.
extract_if_archive(n, i, rel, src, halves, complete) ==
    \E members \in Contents(i, halves) :
        \E done \in IF complete THEN {members} ELSE SUBSET members :
            work' = [work EXCEPT ![n].src = Unpacked(src, i, rel, done)]

\* The staged file is opened again.
RemoteEntry(n, i, rel, complete) ==
    /\ Entry(i).kind = "remote"
    /\ Holds(n, Entry(i).name, rel)
    /\ extract_if_archive(n, i, rel, work[n].src, Staged(n, Entry(i).name, rel).halves, complete)

\* fs::read of the file beside the PKGBUILD, verify_bytes, fs::write.
LocalEntry(n, i, rel, complete) ==
    LET halves == Whole(i, work[n].beside[i])
    IN
    /\ Entry(i).kind = "local" /\ i \in DOMAIN work[n].beside
    /\ ~Mismatch(i, work[n].beside[i])
    /\ extract_if_archive(n, i, rel,
           Others(n, Entry(i).name, rel) \cup {[name |-> Entry(i).name, rel |-> rel, halves |-> halves]},
           halves, complete)

\* git clone refuses a directory that is there.
stage_git(n, i, rel) ==
    /\ Entry(i).kind = "git" /\ ~Holds(n, Entry(i).name, rel)
    /\ Write(n, Entry(i).name, rel, Whole(i, "right"))

StageEntry(n, i, rel) ==
    RemoteEntry(n, i, rel, TRUE) \/ LocalEntry(n, i, rel, TRUE) \/ stage_git(n, i, rel)

\* An extraction that fails leaves what it has unpacked.
StageTorn(n, i, rel) ==
    Entry(i).archive /\ (RemoteEntry(n, i, rel, FALSE) \/ LocalEntry(n, i, rel, FALSE))

\* An archive was unpacked over the file of entry i, after it was verified: remote
\* entries are verified before the loop, local ones in their turn.
Overwritten(n, i, rel) ==
    \E j \in DOMAIN entries :
        /\ Entry(j).archive /\ (Entry(i).kind = "local" => j >= i)
        /\ Staged(n, Entry(i).name, rel).halves = Member(j)

\* What a build may rely on: every entry is there, and a summed one whose name no
\* other entry claims and no archive was unpacked over is what its checksum was
\* made from.
Alone(i) == \A j \in DOMAIN entries : j # i => Entry(j).name # Entry(i).name
Verified(n, rel) ==
    \A i \in DOMAIN entries :
        /\ Holds(n, Entry(i).name, rel)
        /\ Summed(i) /\ Alone(i) => \/ Staged(n, Entry(i).name, rel).halves = Whole(i, "right")
                                    \/ Overwritten(n, i, rel)
=============================================================================
