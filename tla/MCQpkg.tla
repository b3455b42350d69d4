------------------------------- MODULE MCQpkg -------------------------------
(* Qpkg for TLC: two packages of one base, versions of up to three characters. *)
EXTENDS Qpkg

Source(kind, name, sum) ==
    [kind |-> kind, name |-> name, sum |-> sum, renamed |-> FALSE, archive |-> FALSE, holds |-> {}]
Remote(name, sum) == Source("remote", name, sum)
Local(name, renamed) == [Source("local", name, "hex") EXCEPT !.renamed = renamed]
Git(name) == Source("git", name, "SKIP")
Archive(source, holds) == [source EXCEPT !.archive = TRUE, !.holds = holds]

Pkgbuild(source, sums, count) ==
    [source |-> source, sums |-> sums, count |-> count, x86_64 |-> TRUE,
     functions |-> {"package"}, output |-> "files"]

MCSimple == Pkgbuild(<<Remote(1, "hex")>>, "sha256", 1)

MCPlain == Pkgbuild(<<Git(1)>>, "none", 0)

MCRecipes == {
    Pkgbuild(<<Remote(1, "hex"), Remote(2, "hex")>>, "sha256", 2),
    Pkgbuild(<<Remote(1, "hex"), Remote(1, "hex")>>, "b2", 2),
    Pkgbuild(<<Remote(1, "SKIP"), Local(2, FALSE)>>, "sha256", 2),
    Pkgbuild(<<Local(1, TRUE), Git(2)>>, "sha256", 2),
    Pkgbuild(<<Remote(1, "hex"), Archive(Remote(2, "SKIP"), {})>>, "sha256", 2),
    Pkgbuild(<<Archive(Remote(1, "hex"), {2}), Local(2, FALSE)>>, "b2", 2),
    Pkgbuild(<<Archive(Local(1, FALSE), {2}), Remote(2, "hex")>>, "sha256", 2),
    Pkgbuild(<<Remote(1, "hex")>>, "sha256", 2),
    [MCSimple EXCEPT !.x86_64 = FALSE],
    [MCSimple EXCEPT !.output = "empty"],
    [MCSimple EXCEPT !.output = "escapes"]}

Version(epoch, ver, rel) == [epoch |-> epoch, ver |-> ver, rel |-> rel]

\* 1a-1, 1-1.
MCChronicle == <<Version(<<0>>, <<1, 10>>, <<1>>), Version(<<0>>, <<1>>, <<1>>)>>

Characters == {Dot, 0, 1, 10, 11}
Texts == {t \in UNION {[1..n -> Characters] : n \in 1..3} :
             /\ t[1] # Dot /\ t[Len(t)] # Dot
             /\ \A i \in 1 .. Len(t) - 1 : t[i] = Dot => t[i+1] # Dot}

MCHistories == {<<Version(<<0>>, a, <<1>>), Version(<<0>>, b, <<1>>)>> : a \in Texts, b \in Texts}
                \cup {<<Version(e, <<1>>, r), Version(f, <<1>>, q)>> :
                         e \in {<<0>>, <<1>>}, f \in {<<0>>, <<1>>}, r \in {NoRel, <<1>>, <<1, 0>>},
                         q \in {NoRel, <<1>>, <<1, 0>>}}

MCChains == {<<Version(<<0>>, a, <<1>>), Version(<<0>>, b, <<1>>), Version(<<0>>, c, <<1>>)>> :
                a \in {t \in Texts : t[1] = 1}, b \in {t \in Texts : t[1] = 1}, c \in {t \in Texts : t[1] = 1}}

(* What the built table says is true of the artifact it names: the archive is
   complete, made of that release and of nothing older, from sources that match
   their checksums (build.rs: record_built comes last, the old tree is removed;
   sources.rs: stage).  Excepted are an artifact being rewritten or whose
   rewriting was interrupted, builds that shared a tree or an artifact, and a
   source that an archive of the same PKGBUILD was unpacked over after it was
   verified (sources.rs: extract_if_archive writes where the sources are). *)
BuiltIsFaithful ==
    \A d \in Dbs, n \in Names :
        LET r == built[d][n] IN
        session # "versions" /\ r # 0 =>
            /\ artifact[r].state = "whole" \/ Writing(r) # {} \/ r \in cut
            /\ artifact[r].state = "whole" /\ artifact[r].alone =>
                   artifact[r].of = {r} /\ artifact[r].sound

(* A search that prints no warning answers from rows no older than the
   threshold (commands.rs: warn_if_stale; sync.rs: the stamps follow the rows),
   unless the feeds of the last sync left the package out: its desc
   was malformed, or it moved between two of the requests. *)
QuietAnswersAreFresh ==
    \A s \in Slots :
        At(s, "answered") /\ proc[s].quiet /\ ~missed =>
            \A n \in Names :
                LET since == proc[s].now - STALE_THRESHOLD
                IN  where # {} => proc[s].shown[n].rel >= newestAt[IF since < 0 THEN 0 ELSE since]

\* The reference order of versions: by epoch, by segments, by pkgrel.
Newer(a, b) ==
    LET order == then_with(Sign(Number(a.epoch), Number(b.epoch)),
                     then_with(ReferenceOrder(a.ver, b.ver),
                         IF a.rel = NoRel \/ b.rel = NoRel THEN Equal
                         ELSE Sign(Number(a.rel), Number(b.rel))))
    IN  order = Greater

(* vercmp.rs, test helper lt: "ordering must be antisymmetric to be an ordering
   at all"; and the chain of vercmp(8) it is tested on is one.  Newer than newer
   is newer: a package built from the first of three ascending releases is
   listed when the index holds the third. *)
UpdateFindsNewest ==
    Len(published) = 3 /\ At(1, "listed")
    /\ vercmp(published[2], published[1]) = Greater
    /\ vercmp(published[3], published[2]) = Greater => proc[1].todo # << >>

(* `update` lists exactly the built packages whose indexed version is newer
   (build.rs: outdated, vercmp.rs). *)
OutdatedIsExact ==
    \A s \in Slots :
        At(s, "listed") =>
            \A n \in Names :
                n \in ToSet(proc[s].todo) <=>
                    /\ built[Db(s)][n] # 0 /\ rows[Db(s)][n].rel # 0
                    /\ Newer(published[rows[Db(s)][n].rel], published[built[Db(s)][n]])
=============================================================================
