------------------------- MODULE ProcessImage_proof -------------------------
(***************************************************************************)
(* A program starts with exactly what its file describes (ImageFaithful),  *)
(* for any images, page size, number of frames and order of loads.         *)
(***************************************************************************)
EXTENDS Process_proof

\* A leaf that names no prover is one for first-order reasoning.
USE Zenon

\* What from_elf has established of the image, step by step.  A header puts file data at
\* an address:
Covers(h, a) == a >= h.vaddr /\ a < h.vaddr + h.filesz
\* What the first k segments put at address a.
IsByte(f, a, k, b) ==
    \/ (\A i \in 1..k : ~Covers(segments(f)[i], a)) /\ b = Zero
    \/ \E i \in 1..k : /\ Covers(segments(f)[i], a)
                       /\ \A j \in 1..k : j > i => ~Covers(segments(f)[j], a)
                       /\ b = segments(f)[i].offset + (a - segments(f)[i].vaddr)

\* What parse, and the pass over segment_pages, let through.
Fitting(f) == \A i \in 1..Len(segments(f)) : segments(f)[i].filesz <= segments(f)[i].memsz
Sound(f) == Fitting(f) /\ \A i \in 1..Len(segments(f)) : segment_error(segments(f)[i]) = "ok"

\* The loop of segments, over the first m headers of f.
IsAmong(f, g, m) == g = [n \in 0..m |-> IF n = 0 THEN <<>> ELSE WithLoad(g[n - 1], f.ph[n])]

\* A set of numbers has a least one.
LEMMA Least ==
    ASSUME NEW S \in SUBSET Nat, S # {}
    PROVE  \E x \in S : \A y \in S : x <= y
<1>1. PICK x \in S : \A y \in S : ~(<<y, x>> \in OpToRel(<, Nat))
  BY NatLessThanWellFounded, WFMin
<1>2. ASSUME NEW y \in S PROVE x <= y
  <2>1. ~(y < x) /\ x \in Nat /\ y \in Nat
    BY <1>1, <1>2 DEF OpToRel
  <2> QED BY <2>1, SMT
<1> QED BY <1>2

\* The loop over the headers runs to its end, however many there are.
LEMMA AmongExists ==
    ASSUME NEW f, NEW m \in Nat
    PROVE  \E g : IsAmong(f, g, m)
<1>1. SUFFICES ASSUME NEW S, S = {n \in Nat : ~\E g : IsAmong(f, g, n)}, S # {} PROVE FALSE
  OBVIOUS
<1>2. PICK x \in S : \A y \in S : x <= y
  BY <1>1, Least
<1>3. x \in Nat /\ ~\E g : IsAmong(f, g, x)
  BY <1>1, <1>2
<1>4. CASE x = 0
  <2>1. PICK g : g = [n \in 0..0 |-> <<>>]
    OBVIOUS
  <2>2. \A n \in 0..0 : n = 0
    BY SMT
  <2>3. IsAmong(f, g, 0)
    BY <2>1, <2>2 DEF IsAmong
  <2> QED BY <1>3, <1>4, <2>3
<1>5. CASE x # 0
  <2>1. PICK k : k = x - 1
    OBVIOUS
  <2>2. k \in Nat /\ ~(x <= k) /\ k + 1 = x
    BY <1>3, <1>5, <2>1, SMTT(40)
  <2>3. PICK w : IsAmong(f, w, k)
    BY <1>1, <1>2, <2>2
  <2>4. PICK g : g = [n \in 0..x |-> IF n = 0 THEN <<>> ELSE WithLoad(w[n - 1], f.ph[n])]
    OBVIOUS
  <2>5. ASSUME NEW n \in 0..x, n # 0 PROVE g[n - 1] = w[n - 1]
    <3>1. n - 1 \in 0..k /\ n - 1 \in 0..x
      BY <1>3, <2>2, <2>5, SMTT(40)
    <3>2. PICK j : j = n - 1
      OBVIOUS
    <3>3. g[j] = IF j = 0 THEN <<>> ELSE WithLoad(w[j - 1], f.ph[j])
      BY <2>4, <3>1, <3>2
    <3>4. w[j] = IF j = 0 THEN <<>> ELSE WithLoad(w[j - 1], f.ph[j])
      BY <2>3, <3>1, <3>2 DEF IsAmong
    <3> QED BY <3>2, <3>3, <3>4
  <2>6. IsAmong(f, g, x)
    <3>1. \A n \in 0..x : (IF n = 0 THEN <<>> ELSE WithLoad(w[n - 1], f.ph[n]))
                          = (IF n = 0 THEN <<>> ELSE WithLoad(g[n - 1], f.ph[n]))
      BY <2>5
    <3> QED BY <2>4, <3>1 DEF IsAmong
  <2> QED BY <1>3, <2>6
<1> QED BY <1>4, <1>5

\* The loadable headers of a file.
Loadable(f) == {f.ph[i] : i \in {j \in 1..Len(f.ph) : f.ph[j].load}}

\* segments returns PT_LOAD headers of the file, and nothing else.
LEMMA SegmentsAre ==
    ASSUME NEW f \in ElfFile
    PROVE  segments(f) \in Seq(Loadable(f))
<1>1. f.ph \in Seq(Header) /\ Len(f.ph) \in Nat
  <2>1. f.ph \in Seq(Header)
    BY DEF ElfFile
  <2> QED BY <2>1, SMT
<1>2. PICK m \in Nat : m = Len(f.ph)
  BY <1>1
<1>3. PICK g : IsAmong(f, g, m) /\ segments(f) = g[m]
  <2>1. segments(f) = (CHOOSE g : g = [n \in 0..Len(f.ph) |-> IF n = 0 THEN <<>> ELSE WithLoad(g[n - 1], f.ph[n])])[Len(f.ph)]
    BY DEF segments
  <2>2. PICK g : g = CHOOSE h : h = [n \in 0..Len(f.ph) |-> IF n = 0 THEN <<>> ELSE WithLoad(h[n - 1], f.ph[n])]
    OBVIOUS
  <2>3. IsAmong(f, g, m)
    BY <1>2, <2>2, AmongExists DEF IsAmong
  <2>4. segments(f) = g[m]
    BY <1>2, <2>1, <2>2
  <2> QED BY <2>3, <2>4
<1>4. SUFFICES \A n \in 0..m : g[n] \in Seq(Loadable(f))
  <2>1. m \in 0..m
    BY SMT
  <2> QED BY <1>3, <1>4, <2>1
<1>5. PICK S : S = {n \in 0..m : g[n] \notin Seq(Loadable(f))}
  OBVIOUS
<1>6. SUFFICES ASSUME S # {} PROVE FALSE
  BY <1>5
<1>7. S \in SUBSET Nat
  <2>1. \A i \in 0..m : i \in Nat
    BY SMT
  <2> QED BY <1>5, <2>1
<1>8. PICK x \in S : \A y \in S : x <= y
  BY <1>6, <1>7, Least
<1>9. x \in 0..m /\ g[x] \notin Seq(Loadable(f))
  BY <1>5, <1>8
<1>10. g[x] = IF x = 0 THEN <<>> ELSE WithLoad(g[x - 1], f.ph[x])
  BY <1>3, <1>9 DEF IsAmong
<1>11. CASE x = 0
  <2>1. g[x] = <<>>
    BY <1>10, <1>11
  <2>2. <<>> \in Seq(Loadable(f))
    BY SMT
  <2> QED BY <1>9, <2>1, <2>2
<1>12. CASE x # 0
  <2>1. PICK k : k = x - 1
    OBVIOUS
  <2>2. k \in 0..m /\ ~(x <= k) /\ x \in 1..m
    BY <1>9, <1>12, <2>1, SMTT(40)
  <2>3. g[k] \in Seq(Loadable(f))
    BY <1>5, <1>8, <2>2
  <2>4. g[x] = WithLoad(g[k], f.ph[x])
    BY <1>10, <1>12, <2>1
  <2>5. CASE f.ph[x].load
    <3>1. f.ph[x] \in Loadable(f)
      BY <1>2, <2>2, <2>5 DEF Loadable
    <3>2. g[x] = Append(g[k], f.ph[x])
      BY <2>4, <2>5 DEF WithLoad
    <3>3. Append(g[k], f.ph[x]) \in Seq(Loadable(f))
      BY <2>3, <3>1, SMTT(40)
    <3> QED BY <1>9, <3>2, <3>3
  <2>6. CASE ~f.ph[x].load
    <3>1. g[x] = g[k]
      BY <2>4, <2>6 DEF WithLoad
    <3> QED BY <1>9, <2>3, <3>1
  <2> QED BY <2>5, <2>6
<1> QED BY <1>11, <1>12

\* Every segment is a header of the file with natural fields.
LEMMA SegmentFields ==
    ASSUME NEW f \in ElfFile
    PROVE  /\ Len(segments(f)) \in Nat
           /\ \A i \in 1..Len(segments(f)) :
                /\ \E j \in 1..Len(f.ph) : segments(f)[i] = f.ph[j] /\ f.ph[j].load
                /\ segments(f)[i].vaddr \in Nat /\ segments(f)[i].filesz \in Nat
                /\ segments(f)[i].memsz \in Nat /\ segments(f)[i].offset \in Nat
                /\ segments(f)[i].w \in BOOLEAN /\ segments(f)[i].x \in BOOLEAN
<1>1. PICK s : s = segments(f) /\ s \in Seq(Loadable(f))
  BY SegmentsAre
<1>2. Len(s) \in Nat /\ \A i \in 1..Len(s) : s[i] \in Loadable(f)
  BY <1>1, SMTT(40)
<1>3. f.ph \in Seq(Header)
  BY DEF ElfFile
<1>4. \A j \in 1..Len(f.ph) : f.ph[j] \in Header
  BY <1>3, SMT
<1>5. ASSUME NEW i \in 1..Len(s)
      PROVE  /\ \E j \in 1..Len(f.ph) : s[i] = f.ph[j] /\ f.ph[j].load
             /\ s[i].vaddr \in Nat /\ s[i].filesz \in Nat /\ s[i].memsz \in Nat /\ s[i].offset \in Nat
             /\ s[i].w \in BOOLEAN /\ s[i].x \in BOOLEAN
  <2>1. PICK j \in 1..Len(f.ph) : s[i] = f.ph[j] /\ f.ph[j].load
    BY <1>2 DEF Loadable
  <2>2. s[i] \in Header
    BY <1>4, <2>1
  <2> QED BY <2>1, <2>2 DEF Header
<1> QED BY <1>1, <1>2, <1>5

\* A file parse accepts has no segment with more data than memory.
LEMMA ParseFits ==
    ASSUME NEW f \in ElfFile, parse(f) = "ok"
    PROVE  Fitting(f)
<1>1. f.ident \in Idents /\ f.len \in Nat /\ f.ph \in Seq(Header)
  BY DEF ElfFile
<1>2. "ok" \notin Idents /\ "TooShort" # "ok" /\ "BadProgramHeader" # "ok" /\ "SegmentTooLarge" # "ok"
  BY SMT DEF Idents
<1>3. PICK bad : bad = {i \in 1..Len(f.ph) : validate_segment(f, f.ph[i]) # "ok"}
  OBVIOUS
<1>4. ~(f.len < EhdrSize)
  <2> SUFFICES ASSUME f.len < EhdrSize PROVE FALSE
    OBVIOUS
  <2>1. ~(f.len >= EhdrSize)
    BY <1>1, ImageConstants, SMTT(40)
  <2> QED BY <1>2, <2>1 DEF parse
<1>5. f.ident = "elf64 x86-64 exec"
  <2>1. f.len >= EhdrSize
    BY <1>1, <1>4, ImageConstants, SMTT(40)
  <2> QED BY <1>1, <1>2, <1>4, <2>1, ZenonT(60) DEF parse
<1>6. "ok" = IF bad = {} THEN "ok" ELSE validate_segment(f, f.ph[Min(bad)])
  BY <1>2, <1>3, <1>4, <1>5 DEF parse
<1>7. bad = {}
  <2> SUFFICES ASSUME bad # {} PROVE FALSE
    OBVIOUS
  <2>1. bad \in SUBSET Nat
    <3>1. \A i \in 1..Len(f.ph) : i \in Nat
      BY <1>1, SMTT(40)
    <3> QED BY <1>3, <3>1
  <2>2. PICK i : i = Min(bad) /\ i \in bad
    BY <2>1, MinIn
  <2>3. validate_segment(f, f.ph[i]) # "ok"
    BY <1>3, <2>2
  <2> QED BY <1>6, <2>2, <2>3
<1>8. ASSUME NEW i \in 1..Len(segments(f)) PROVE segments(f)[i].filesz <= segments(f)[i].memsz
  <2>1. PICK j \in 1..Len(f.ph) : segments(f)[i] = f.ph[j] /\ f.ph[j].load
    BY SegmentFields
  <2>2. validate_segment(f, f.ph[j]) = "ok"
    BY <1>3, <1>7
  <2>3. ~(f.ph[j].filesz > f.ph[j].memsz)
    BY <1>2, <2>1, <2>2 DEF validate_segment
  <2>4. segments(f)[i].filesz \in Nat /\ segments(f)[i].memsz \in Nat
    BY SegmentFields
  <2> QED BY <2>1, <2>3, <2>4, SMTT(40)
<1> QED BY <1>8 DEF Fitting

\* Inside a page.
LEMMA InPage ==
    ASSUME NEW va \in Nat, va % PageSize = 0, NEW i \in 0..(PageSize - 1)
    PROVE  va + i \in Nat /\ page_of(va + i) = va /\ (va + i) % PageSize = i
<1> PICK P \in Nat \ {0} : P = PageSize
  BY ImageConstants, SMTT(40)
<1>1. va + i \in Nat /\ i \in Nat /\ i < P
  BY SMT
<1>2. PICK x : x = page_of(va + i)
  OBVIOUS
<1>3. x \in Nat /\ x <= va + i /\ va + i < x + P /\ x % P = 0
  BY <1>1, <1>2, PageOf
<1>4. x < va + P /\ va < x + P
  BY <1>1, <1>3, SMT
<1>5. x <= va /\ va <= x
  BY <1>3, <1>4, PageStarts, ZenonT(60)
<1>6. x = va
  BY <1>3, <1>5, SMTT(40)
<1>7. PICK r \in 0..(P - 1) : r = (va + i) % PageSize
  BY <1>1, PageDiv, SMTT(40)
<1>8. x = (va + i) - r
  BY <1>2, <1>7 DEF page_of
<1>9. r = i
  BY <1>1, <1>6, <1>8, SMTT(40)
<1> QED BY <1>1, <1>2, <1>6, <1>7, <1>9, ZenonT(60)

\* An address is its page and its place in it.
LEMMA SamePlace ==
    ASSUME NEW a \in Nat, NEW b \in Nat, page_of(a) = page_of(b), a % PageSize = b % PageSize
    PROVE  a = b
<1>1. PICK r \in Nat : r = a % PageSize
  <2>1. a % PageSize \in 0..(PageSize - 1)
    BY PageDiv
  <2> QED BY <2>1, ImageConstants, SMTT(40)
<1>2. a - r = b - r
  BY <1>1 DEF page_of
<1> QED BY <1>1, <1>2, SMTT(40)

\* page_of never takes a later address to an earlier page.
LEMMA PageOrder ==
    ASSUME NEW a \in Nat, NEW b \in Nat, a <= b
    PROVE  page_of(a) <= page_of(b)
<1>1. PICK x, y : x = page_of(a) /\ y = page_of(b)
  OBVIOUS
<1>2. PICK P \in Nat \ {0} : P = PageSize
  BY ImageConstants, SMT
<1>3. x \in Nat /\ x <= a /\ x % PageSize = 0
  BY <1>1, PageOf
<1>4. y \in Nat /\ b < y + PageSize /\ y % PageSize = 0
  BY <1>1, PageOf
<1>5. x < y + PageSize
  BY <1>2, <1>3, <1>4, SMTT(40)
<1> QED BY <1>1, <1>3, <1>4, <1>5, PageStarts

\* A segment that segment_pages accepts ends on a page boundary of the user half, at or
\* above its last byte.
LEMMA SegmentEnd ==
    ASSUME NEW h, h.vaddr \in Nat, h.memsz \in Nat, segment_error(h) = "ok"
    PROVE  /\ segment_end(h) \in Nat /\ h.vaddr + h.memsz <= segment_end(h)
           /\ segment_end(h) <= USER_MAX /\ USER_MIN <= page_of(h.vaddr)
<1>1. PICK e : e = segment_end(h)
  OBVIOUS
<1>2. e # None /\ ~(e > USER_MAX) /\ ~(page_of(h.vaddr) < USER_MIN)
  <2>1. "BadAddress" # "ok" /\ "NotUserAddress" # "ok"
    BY SMT
  <2> QED BY <1>1, <2>1 DEF segment_error
<1>3. PICK a : a = checked_add(h.vaddr, h.memsz)
  OBVIOUS
<1>4. e = IF a = None THEN None ELSE IF a % PageSize = 0 THEN a ELSE checked_add(page_of(a), PageSize)
  BY <1>1, <1>3 DEF segment_end, next_multiple
<1>5. a # None
  BY <1>2, <1>4
<1>6. a = h.vaddr + h.memsz
  BY <1>3, <1>5 DEF checked_add
<1>7. a \in Nat
  BY <1>6, SMTT(40)
<1>8. PICK P \in Nat \ {0} : P = PageSize
  BY ImageConstants, SMT
<1>9. PICK y \in Nat : y = page_of(a) /\ a < y + PageSize
  BY <1>7, PageOf
<1>10. e = a \/ e = y + PageSize
  BY <1>2, <1>4, <1>5, <1>9, ZenonT(60) DEF checked_add
<1>11. e \in Nat /\ a <= e
  BY <1>7, <1>8, <1>9, <1>10, SMTT(40)
<1>12. PICK x \in Nat : x = page_of(h.vaddr)
  BY PageOf
<1>13. e <= USER_MAX /\ USER_MIN <= x
  BY <1>2, <1>11, <1>12, ImageConstants, SMTT(40)
<1> QED BY <1>1, <1>6, <1>11, <1>12, <1>13, ZenonT(60)

\* The pages of an accepted segment are user pages, and every byte of its data is on one.
LEMMA SegmentPages ==
    ASSUME NEW f \in ElfFile, Sound(f), NEW i \in 1..Len(segments(f))
    PROVE  /\ \A va \in segment_pages(segments(f)[i]) :
                va \in Nat /\ va % PageSize = 0 /\ va >= USER_MIN /\ va < USER_MAX
           /\ \A a \in Nat : Covers(segments(f)[i], a) => page_of(a) \in segment_pages(segments(f)[i])
<1>1. PICK h : h = segments(f)[i]
  OBVIOUS
<1>2. h.vaddr \in Nat /\ h.memsz \in Nat /\ h.filesz \in Nat
  BY <1>1, SegmentFields
<1>3. segment_error(h) = "ok" /\ h.filesz <= h.memsz
  BY <1>1 DEF Sound, Fitting
<1>4. PICK e \in Nat : e = segment_end(h) /\ h.vaddr + h.memsz <= e /\ e <= USER_MAX /\ USER_MIN <= page_of(h.vaddr)
  BY <1>2, <1>3, SegmentEnd
<1>5. PICK x \in Nat : x = page_of(h.vaddr)
  BY <1>2, PageOf
<1>6. \A va : va \in segment_pages(h) <=> va \in x..(e - 1) /\ va % PageSize = 0
  BY <1>4, <1>5 DEF segment_pages
<1>7. ASSUME NEW va \in x..(e - 1) PROVE va \in Nat /\ va >= USER_MIN /\ va < USER_MAX
  <2>1. USER_MIN <= x /\ e <= USER_MAX
    BY <1>4, <1>5
  <2> QED BY <2>1, ImageConstants, SMTT(40)
<1>8. ASSUME NEW a \in Nat, Covers(h, a) PROVE page_of(a) \in x..(e - 1) /\ page_of(a) % PageSize = 0
  <2>1. h.vaddr <= a /\ a < h.vaddr + h.filesz
    BY <1>2, <1>8, SMTT(40) DEF Covers
  <2>2. PICK y \in Nat : y = page_of(a) /\ y <= a /\ y % PageSize = 0
    BY PageOf
  <2>3. x <= y
    BY <1>2, <1>5, <2>1, <2>2, PageOrder, ZenonT(60)
  <2>4. y \in x..(e - 1)
    BY <1>2, <1>3, <1>4, <2>1, <2>2, <2>3, SMTT(40)
  <2> QED BY <2>2, <2>4
<1> QED BY <1>1, <1>6, <1>7, <1>8

\* A page with bytes that no segment covers lies on none of the segments' pages.
LEMMA Uncovered ==
    ASSUME NEW f \in ElfFile, Sound(f), NEW k \in 1..Len(segments(f)),
           NEW va \in Nat, va % PageSize = 0, va \notin segment_pages(segments(f)[k]),
           NEW i \in 0..(PageSize - 1)
    PROVE  ~Covers(segments(f)[k], va + i)
<1>1. va + i \in Nat /\ page_of(va + i) = va
  BY InPage
<1>2. PICK a \in Nat : a = va + i
  BY <1>1
<1> QED BY <1>1, <1>2, SegmentPages

\* The largest of a set of numbers that has one.
LEMMA MaxIs ==
    ASSUME NEW S, NEW m \in S, \A y \in S : y \in Int, \A y \in S : y <= m
    PROVE  Max(S) = m
<1>1. m \in Int /\ \A y \in S : m >= y
  BY SMT
<1>2. PICK x : x = Max(S)
  OBVIOUS
<1>3. x \in S /\ \A y \in S : x >= y
  BY <1>1, <1>2 DEF Max
<1>4. x >= m /\ m >= x /\ x \in Int
  BY <1>1, <1>3
<1> QED BY <1>1, <1>2, <1>4, SMTT(40)

\* The one member of a set of numbers.
LEMMA MinOne ==
    ASSUME NEW S, NEW m \in S, m \in Nat, \A y \in S : y = m
    PROVE  Min(S) = m
<1>1. m <= m
  BY SMT
<1> QED BY <1>1 DEF Min

\* What all segments put at an address is the byte the program must find there.
LEMMA ByteExpected ==
    ASSUME NEW f \in ElfFile, NEW a \in Nat, NEW b, IsByte(f, a, Len(segments(f)), b)
    PROVE  b = ExpectedByte(f, a)
<1>1. PICK C : C = CoveredBy(f, a)
  OBVIOUS
<1>2. \A i : i \in C <=> i \in 1..Len(segments(f)) /\ Covers(segments(f)[i], a)
  BY <1>1 DEF CoveredBy, Covers
<1>3. CASE (\A i \in 1..Len(segments(f)) : ~Covers(segments(f)[i], a)) /\ b = Zero
  <2>1. C = {}
    BY <1>2, <1>3
  <2> QED BY <1>1, <1>3, <2>1 DEF ExpectedByte
<1>4. ASSUME NEW i \in 1..Len(segments(f)), Covers(segments(f)[i], a),
             \A j \in 1..Len(segments(f)) : j > i => ~Covers(segments(f)[j], a),
             b = segments(f)[i].offset + (a - segments(f)[i].vaddr)
      PROVE  b = ExpectedByte(f, a)
  <2>1. i \in C
    BY <1>2, <1>4
  <2>2. \A j \in 1..Len(segments(f)) : j \in Int
    BY SegmentFields, SMT
  <2>3. \A j \in C : j \in Int
    BY <1>2, <2>2
  <2>4. \A j \in C : ~(j > i)
    BY <1>2, <1>4
  <2>5. \A j \in C : j <= i
    BY <2>1, <2>3, <2>4, SMTT(40)
  <2>6. Max(C) = i
    BY <2>1, <2>3, <2>5, MaxIs, ZenonT(60)
  <2>7. C # {}
    BY <2>1
  <2> QED BY <1>1, <1>4, <2>6, <2>7 DEF ExpectedByte
<1> QED BY <1>3, <1>4 DEF IsByte

\* One more segment: where it puts nothing the byte stays, where it puts one that is it.
LEMMA NextByte ==
    ASSUME NEW f, NEW a, NEW k \in Nat, NEW b
    PROVE  /\ IsByte(f, a, k, b) /\ ~Covers(segments(f)[k + 1], a) => IsByte(f, a, k + 1, b)
           /\ Covers(segments(f)[k + 1], a) /\ b = segments(f)[k + 1].offset + (a - segments(f)[k + 1].vaddr)
                => IsByte(f, a, k + 1, b)
<1>1. /\ k + 1 \in 1..(k + 1) /\ \A i \in 1..(k + 1) : i \in 1..k \/ i = k + 1
      /\ \A i \in 1..k : i \in 1..(k + 1)
      /\ \A i \in 1..(k + 1) : ~(i > k + 1)
  BY SMT
<1>2. PICK m : m = k + 1
  OBVIOUS
<1>3. /\ m \in 1..m /\ \A i \in 1..m : i \in 1..k \/ i = m
      /\ \A i \in 1..k : i \in 1..m
      /\ \A i \in 1..m : ~(i > m)
  BY <1>1, <1>2
<1>4. ASSUME IsByte(f, a, k, b), ~Covers(segments(f)[m], a) PROVE IsByte(f, a, m, b)
  <2>1. CASE (\A i \in 1..k : ~Covers(segments(f)[i], a)) /\ b = Zero
    BY <1>3, <1>4, <2>1 DEF IsByte
  <2>2. ASSUME NEW i \in 1..k, Covers(segments(f)[i], a),
               \A j \in 1..k : j > i => ~Covers(segments(f)[j], a),
               b = segments(f)[i].offset + (a - segments(f)[i].vaddr)
        PROVE  IsByte(f, a, m, b)
    <3>1. i \in 1..m /\ \A j \in 1..m : j > i => ~Covers(segments(f)[j], a)
      BY <1>3, <1>4, <2>2
    <3> QED BY <2>2, <3>1 DEF IsByte
  <2> QED BY <1>4, <2>1, <2>2 DEF IsByte
<1>5. ASSUME Covers(segments(f)[m], a), b = segments(f)[m].offset + (a - segments(f)[m].vaddr)
      PROVE  IsByte(f, a, m, b)
  BY <1>3, <1>5 DEF IsByte
<1> QED BY <1>2, <1>4, <1>5
-----------------------------------------------------------------------------
\* The mapped pages hold what the first k segments put there.
Holds(f, sp, b, k) ==
    \A va \in DOMAIN sp.pages : \A i \in 0..(PageSize - 1) : IsByte(f, va + i, k, b[sp.pages[va].pa][i])
\* In the loop over the segments: those before seg are in memory, seg may be mapped.
Filling(f, l, b) ==
    /\ Sound(f) /\ l.seg \in 1..(Len(segments(f)) + 1)
    /\ \A va \in DOMAIN l.space.pages : \E i \in 1..Len(segments(f)) : va \in segment_pages(segments(f)[i])
    /\ \A i \in 1..Len(segments(f)) : i < l.seg =>
         \A va \in segment_pages(segments(f)[i]) : va \in DOMAIN l.space.pages
    /\ Holds(f, l.space, b, l.seg - 1)
\* A page as the program asked for it, or one of the stack.
Granted(f, sp, va) ==
    /\ va \in AllPages(f) \/ va \in StackPages
    /\ va >= USER_MIN /\ va < USER_MAX /\ ~(sp.pages[va].w /\ sp.pages[va].x)
    /\ va \in AllPages(f) => sp.pages[va].w = page_flags(f, va).w /\ sp.pages[va].x = page_flags(f, va).x
\* In the loop over the stack's pages: seg counts on from the last segment.
Stacking(f, l, b) ==
    /\ Sound(f) /\ l.seg \in Nat /\ l.seg > Len(segments(f))
    /\ \A va \in AllPages(f) : va \in DOMAIN l.space.pages
    /\ \A n \in 1..USER_STACK_PAGES : n < l.seg - Len(segments(f)) =>
         USER_STACK_TOP - n * PageSize \in DOMAIN l.space.pages
    /\ \A va \in DOMAIN l.space.pages : Granted(f, l.space, va)
    /\ Holds(f, l.space, b, Len(segments(f)))
\* What every place of a load has established.
Progress(f, l, b) ==
    /\ l.pc \in {"parse", "new"} => l.seg = 1
    /\ l.pc = "new" => Fitting(f)
    /\ l.pc = "map" => Filling(f, l, b)
    /\ l.pc = "stack" => Stacking(f, l, b)
    /\ l.pc = "loaded" => Stacking(f, l, b) /\ \A n \in 1..USER_STACK_PAGES : n < l.seg - Len(segments(f))
\* It holds until the thread first runs: from then on the program writes its memory.
ImageInv ==
    /\ \A p \in Procs : file[p] \in ElfFile
    /\ \A n \in FrameCounts : \A f \in 1..n : f \in DOMAIN bytes
    /\ \A p \in Procs : th[p].pc \in {"unborn", "entry"} => Progress(file[p], ld[p], bytes)

\* A load whose frames no one writes stays where it is.
LEMMA ProgressKept ==
    ASSUME NEW f, NEW l, NEW b, NEW c, Progress(f, l, b),
           \A va \in DOMAIN l.space.pages : \A i \in 0..(PageSize - 1) :
               c[l.space.pages[va].pa][i] = b[l.space.pages[va].pa][i]
    PROVE  Progress(f, l, c)
<1>1. ASSUME NEW k, Holds(f, l.space, b, k) PROVE Holds(f, l.space, c, k)
  <2> SUFFICES ASSUME NEW va \in DOMAIN l.space.pages, NEW i \in 0..(PageSize - 1)
               PROVE  IsByte(f, va + i, k, c[l.space.pages[va].pa][i])
    BY DEF Holds
  <2>1. IsByte(f, va + i, k, b[l.space.pages[va].pa][i])
    BY <1>1 DEF Holds
  <2> QED BY <2>1
<1>2. Filling(f, l, b) => Filling(f, l, c)
  BY <1>1 DEF Filling
<1>3. Stacking(f, l, b) => Stacking(f, l, c)
  BY <1>1 DEF Stacking
<1> QED BY <1>2, <1>3 DEF Progress

\* Every frame is one the machine has.
LEMMA FramesKnown ==
    ASSUME FrameInv, ImageInv
    PROVE  /\ \A f \in frames : f \in DOMAIN bytes
           /\ \A p \in Procs : \A f \in ld[p].space.owned : f \in DOMAIN bytes
<1>1. PICK n \in FrameCounts : frames \cup UNION {ld[p].space.owned : p \in Procs} = 1..n
  BY DEF FrameInv
<1>2. \A f \in 1..n : f \in DOMAIN bytes
  BY DEF ImageInv
<1> QED BY <1>1, <1>2

\* The frames of a space's pages are its own.
LEMMA PageOwned ==
    ASSUME FrameInv, NEW p \in Procs
    PROVE  \A va \in DOMAIN ld[p].space.pages : ld[p].space.pages[va].pa \in ld[p].space.owned
<1>1. PICK sp : sp = ld[p].space
  OBVIOUS
<1>2. Accounted(sp)
  BY <1>1 DEF FrameInv, SpaceOK
<1>3. \A va \in DOMAIN sp.pages : sp.pages[va].pa \in {sp.pages[a].pa : a \in DOMAIN sp.pages}
  OBVIOUS
<1>4. \A va \in DOMAIN sp.pages : sp.pages[va].pa \in sp.owned
  BY <1>2, <1>3 DEF Accounted
<1> QED BY <1>1, <1>4

\* What the frame holds stays.
Untouched(g) == \A i \in 0..(PageSize - 1) : bytes'[g][i] = bytes[g][i]

\* A step of p's load writes only free frames and its own: the other images stay.
LEMMA LoadImage ==
    ASSUME FrameInv, ImageInv, NEW p \in Procs, file' = file, DOMAIN bytes' = DOMAIN bytes,
           \A q \in Procs : q # p => ld'[q] = ld[q] /\ th'[q] = th[q],
           \A f \in DOMAIN bytes : Untouched(f) \/ f \in frames \/ f \in ld[p].space.owned,
           Progress(file[p], ld'[p], bytes')
    PROVE  ImageInv'
<1>1. ASSUME NEW q \in Procs, q # p, th'[q].pc \in {"unborn", "entry"}
      PROVE  Progress(file[q], ld'[q], bytes')
  <2>1. Progress(file[q], ld[q], bytes)
    BY <1>1 DEF ImageInv
  <2>2. \A va \in DOMAIN ld[q].space.pages : \A i \in 0..(PageSize - 1) :
          bytes'[ld[q].space.pages[va].pa][i] = bytes[ld[q].space.pages[va].pa][i]
    <3> SUFFICES ASSUME NEW va \in DOMAIN ld[q].space.pages PROVE Untouched(ld[q].space.pages[va].pa)
      BY DEF Untouched
    <3>1. PICK f : f = ld[q].space.pages[va].pa
      OBVIOUS
    <3>2. f \in ld[q].space.owned
      BY <3>1, PageOwned
    <3>3. f \in DOMAIN bytes
      BY <3>2, FramesKnown
    <3>4. f \notin frames /\ f \notin ld[p].space.owned
      BY <1>1, <3>2 DEF FrameInv, SpaceOK
    <3> QED BY <3>1, <3>3, <3>4
  <2>3. ld'[q] = ld[q]
    BY <1>1
  <2> QED BY <2>1, <2>2, <2>3, ProgressKept, ZenonT(60)
<1>2. \A q \in Procs : file'[q] \in ElfFile
  BY DEF ImageInv
<1>3. \A n \in FrameCounts : \A f \in 1..n : f \in DOMAIN bytes'
  BY DEF ImageInv
<1>4. \A q \in Procs : th'[q].pc \in {"unborn", "entry"} => Progress(file'[q], ld'[q], bytes')
  BY <1>1
<1> QED BY <1>2, <1>3, <1>4 DEF ImageInv

\* A failed load promises nothing.
LEMMA FailedImage ==
    ASSUME TypeOK, NEW p \in Procs, NEW err, NEW free, NEW sp, Fail(p, err, free, sp)
    PROVE  /\ \A f, b : Progress(f, ld'[p], b)
           /\ \A q \in Procs : q # p => ld'[q] = ld[q]
<1>1. PICK l : l = ld[p] /\ IsLoad(l)
  BY DEF TypeOK
<1>2. PICK r : r = [l EXCEPT !.pc = "failed", !.err = err, !.space = NoSpace]
  OBVIOUS
<1>3. r = [pc |-> "failed", err |-> err, seg |-> l.seg, space |-> NoSpace]
  BY <1>1, <1>2 DEF IsLoad
<1>4. ld' = [ld EXCEPT ![p] = r]
  BY <1>1, <1>2 DEF Fail
<1>5. ld'[p] = r /\ \A q \in Procs : q # p => ld'[q] = ld[q]
  BY <1>4 DEF TypeOK
<1>6. r.pc = "failed"
  BY <1>3
<1>7. ld'[p].pc = "failed"
  BY <1>5, <1>6
<1> QED BY <1>5, <1>7 DEF Progress

\* One more page at va, all zero, and the others as they were.
PageAdded(sp, t, va, x) ==
    /\ va \notin DOMAIN sp.pages /\ ~(va >= USER_MAX) /\ ~(va < USER_MIN)
    /\ DOMAIN t.pages = DOMAIN sp.pages \cup {va}
    /\ \A a \in DOMAIN sp.pages : t.pages[a] = sp.pages[a] /\ bytes'[sp.pages[a].pa] = bytes[sp.pages[a].pa]
    /\ t.pages[va].w = TRUE /\ t.pages[va].x = x /\ bytes'[t.pages[va].pa] = Blank

\* What map_new_page does to the pages and to memory.
LEMMA NewPageBytes ==
    ASSUME FrameInv, ImageInv, NEW p \in Procs, NEW sp, sp = ld[p].space, IsSpace(sp), NEW va, NEW x,
           NEW q, q = map_new_page(sp, frames, va, TRUE, x), bytes' = Zeroed(q, sp)
    PROVE  /\ DOMAIN bytes' = DOMAIN bytes
           /\ \A f \in DOMAIN bytes : Untouched(f) \/ f \in frames \/ f \in sp.owned
           /\ q.err = "ok" => PageAdded(sp, q.space, va, x)
<1>1. Accounted(sp) /\ frames \cap sp.owned = {} /\ frames \in SUBSET Nat
  BY FreeFrames DEF FrameInv, SpaceOK
<1>2. NewPageDone(sp, frames, va, TRUE, x, q)
  BY <1>1, MapNewPage
<1>3. PICK new : new = q.space.owned \ sp.owned
  OBVIOUS
<1>4. DOMAIN bytes' = DOMAIN bytes /\ \A f \in DOMAIN bytes : bytes'[f] = IF f \in new THEN Blank ELSE bytes[f]
  BY <1>3 DEF Zeroed
<1>5. \A f \in new : f \in frames
  BY <1>2, <1>3 DEF NewPageDone
<1>6. \A f \in DOMAIN bytes : Untouched(f) \/ f \in frames \/ f \in sp.owned
  BY <1>4, <1>5, ZenonT(60) DEF Untouched
<1>7. ASSUME q.err = "ok"
      PROVE  PageAdded(sp, q.space, va, x)
  <2>1. va \notin DOMAIN sp.pages /\ ~(va >= USER_MAX) /\ ~(va < USER_MIN) /\ Accounted(q.space)
    BY <1>2, <1>7 DEF NewPageDone
  <2>2. PICK pa \in frames : q.space.pages = Extend(sp.pages, va, [pa |-> pa, w |-> TRUE, x |-> x])
    BY <1>2, <1>7 DEF NewPageDone
  <2>3. PICK P : P = [pa |-> pa, w |-> TRUE, x |-> x]
    OBVIOUS
  <2>4. P.pa = pa /\ P.w = TRUE /\ P.x = x
    BY <2>3
  <2>5. /\ DOMAIN q.space.pages = DOMAIN sp.pages \cup {va} /\ q.space.pages[va] = P
        /\ \A a \in DOMAIN sp.pages : q.space.pages[a] = sp.pages[a]
    <3>1. PICK g : g = q.space.pages /\ g = Extend(sp.pages, va, P)
      BY <2>2, <2>3
    <3>2. DOMAIN g = DOMAIN sp.pages \cup {va} /\ g[va] = P /\ \A a \in DOMAIN sp.pages : g[a] = sp.pages[a]
      BY <2>1, <3>1 DEF Extend
    <3> QED BY <3>1, <3>2
  <2>6. pa \in q.space.owned
    <3>1. PICK s : s = q.space
      OBVIOUS
    <3>2. va \in DOMAIN s.pages /\ s.pages[va].pa = pa
      BY <2>4, <2>5, <3>1
    <3>3. pa \in {s.pages[a].pa : a \in DOMAIN s.pages}
      BY <3>2
    <3>4. Accounted(s)
      BY <2>1, <3>1
    <3>5. pa \in s.owned
      BY <3>3, <3>4 DEF Accounted
    <3> QED BY <3>1, <3>5
  <2>7. pa \in new /\ pa \in DOMAIN bytes
    BY <1>1, <1>3, <2>6, FramesKnown
  <2>8. bytes'[pa] = Blank
    BY <1>4, <2>7
  <2>9. ASSUME NEW a \in DOMAIN sp.pages PROVE bytes'[sp.pages[a].pa] = bytes[sp.pages[a].pa]
    <3>1. PICK f : f = sp.pages[a].pa
      OBVIOUS
    <3>2. f \in sp.owned
      BY <3>1, PageOwned
    <3>3. f \in DOMAIN bytes /\ f \notin new
      BY <1>3, <3>2, FramesKnown
    <3> QED BY <1>4, <3>1, <3>3, ZenonT(60)
  <2> QED BY <2>1, <2>4, <2>5, <2>8, <2>9, ZenonT(60) DEF PageAdded
<1> QED BY <1>4, <1>6, <1>7, ZenonT(60)

\* A zeroed page where no segment has put a byte yet is as it should be.
LEMMA HoldsNew ==
    ASSUME NEW f, NEW s, NEW t, NEW k, NEW va, NEW x, Holds(f, s, bytes, k), PageAdded(s, t, va, x),
           \A j \in 1..k : \A i \in 0..(PageSize - 1) : ~Covers(segments(f)[j], va + i)
    PROVE  Holds(f, t, bytes', k)
<1> SUFFICES ASSUME NEW a \in DOMAIN t.pages, NEW i \in 0..(PageSize - 1)
             PROVE  IsByte(f, a + i, k, bytes'[t.pages[a].pa][i])
  BY DEF Holds
<1> USE DEF PageAdded
<1>1. CASE a = va
  <2>1. Blank[i] = Zero
    BY DEF Blank
  <2>2. bytes'[t.pages[a].pa][i] = Zero
    BY <1>1, <2>1
  <2> QED BY <1>1, <2>2 DEF IsByte
<1>2. CASE a \in DOMAIN s.pages
  <2>1. IsByte(f, a + i, k, bytes[s.pages[a].pa][i])
    BY <1>2 DEF Holds
  <2> QED BY <1>2, <2>1
<1> QED BY <1>1, <1>2

\* What is known of a load before its next step.
LEMMA LoadBefore ==
    ASSUME ProcInv, ImageInv, NEW p \in Procs, ld[p].pc # "loaded"
    PROVE  /\ Progress(file[p], ld[p], bytes) /\ file[p] \in ElfFile
           /\ IsLoad(ld[p]) /\ IsSpace(ld[p].space)
<1>1. th[p].pc = "unborn"
  BY DEF ProcInv, CpuInv, ThreadOK
<1>2. IsLoad(ld[p]) /\ IsSpace(ld[p].space)
  BY DEF ProcInv, TypeOK, IsLoad
<1> QED BY <1>1, <1>2 DEF ImageInv

\* The record a load step stores, and those it does not touch.
LEMMA LoadStored ==
    ASSUME TypeOK, NEW p \in Procs, NEW r, ld' = [ld EXCEPT ![p] = r]
    PROVE  ld'[p] = r /\ \A q \in Procs : q # p => ld'[q] = ld[q]
BY DEF TypeOK

\* Elf64::parse.
LEMMA ParseImage ==
    ASSUME ProcInv, ImageInv, NEW p \in Procs, Parse(p)
    PROVE  ImageInv'
<1>1. /\ ld[p].pc = "parse" /\ file' = file /\ bytes' = bytes /\ th' = th
      /\ TypeOK /\ FrameInv /\ \A g : Untouched(g)
  BY DEF Parse, memory, ProcInv, Untouched
<1>2. PICK l : l = ld[p] /\ IsLoad(l) /\ Progress(file[p], l, bytes) /\ file[p] \in ElfFile
  BY <1>1, LoadBefore
<1>3. PICK pc, err : pc = (IF parse(file[p]) = "ok" THEN "new" ELSE "failed") /\ err = parse(file[p])
  OBVIOUS
<1>4. PICK r : r = [l EXCEPT !.err = err, !.pc = pc] /\ ld' = [ld EXCEPT ![p] = r]
  BY <1>2, <1>3 DEF Parse
<1>5. r = [pc |-> pc, err |-> err, seg |-> l.seg, space |-> l.space]
  BY <1>2, <1>4 DEF IsLoad
<1>6. ld'[p].pc = pc /\ ld'[p].seg = l.seg /\ \A q \in Procs : q # p => ld'[q] = ld[q]
  <2>1. r.pc = pc /\ r.seg = l.seg
    BY <1>5
  <2> QED BY <1>1, <1>4, <2>1, LoadStored, ZenonT(60)
<1>7. l.seg = 1
  BY <1>1, <1>2 DEF Progress
<1>8. pc \in {"new", "failed"} /\ (pc = "new" => Fitting(file[p]))
  BY <1>2, <1>3, ParseFits
<1>9. Progress(file[p], ld'[p], bytes')
  BY <1>6, <1>7, <1>8 DEF Progress
<1> QED BY <1>1, <1>6, <1>9, LoadImage

\* VmSpace::new, and the pass that refuses every segment out of the user half.
LEMMA NewSpaceImage ==
    ASSUME ProcInv, ImageInv, NEW p \in Procs, NewSpace(p)
    PROVE  ImageInv'
<1>1. /\ ld[p].pc = "new" /\ file' = file /\ bytes' = bytes /\ th' = th
      /\ TypeOK /\ FrameInv /\ \A g : Untouched(g)
  BY DEF NewSpace, ProcInv, Untouched
<1>2. PICK l : l = ld[p] /\ IsLoad(l) /\ Progress(file[p], l, bytes) /\ file[p] \in ElfFile
  BY <1>1, LoadBefore
<1>3. PICK f \in ElfFile : f = file[p]
  BY <1>2
<1>4. PICK sp : sp = [NoSpace EXCEPT !.root = take(frames), !.owned = {take(frames)}]
  OBVIOUS
<1>5. PICK bad : bad = {i \in 1..Len(segments(f)) : segment_error(segments(f)[i]) # "ok"}
  OBVIOUS
<1>6. \/ \E err, free, s : Fail(p, err, free, s)
      \/ bad = {} /\ ld' = [ld EXCEPT ![p].pc = "map", ![p].space = sp]
  BY <1>3, <1>4, <1>5 DEF NewSpace
<1>7. ASSUME NEW err, NEW free, NEW s, Fail(p, err, free, s) PROVE ImageInv'
  <2>1. Progress(file[p], ld'[p], bytes') /\ \A q \in Procs : q # p => ld'[q] = ld[q]
    BY <1>1, <1>7, FailedImage
  <2> QED BY <1>1, <2>1, LoadImage, ZenonT(60)
<1>8. ASSUME bad = {}, ld' = [ld EXCEPT ![p].pc = "map", ![p].space = sp] PROVE ImageInv'
  <2>1. PICK r : r = [l EXCEPT !.pc = "map", !.space = sp] /\ ld' = [ld EXCEPT ![p] = r]
    BY <1>2, <1>8, ZenonT(60)
  <2>2. r = [pc |-> "map", err |-> l.err, seg |-> l.seg, space |-> sp]
    BY <1>2, <2>1 DEF IsLoad
  <2>3. /\ ld'[p].pc = "map" /\ ld'[p].seg = l.seg /\ ld'[p].space = sp
        /\ \A q \in Procs : q # p => ld'[q] = ld[q]
    <3>1. r.pc = "map" /\ r.seg = l.seg /\ r.space = sp
      BY <2>2
    <3> QED BY <1>1, <2>1, <3>1, LoadStored, ZenonT(60)
  <2>4. l.seg = 1 /\ Fitting(f)
    BY <1>1, <1>2, <1>3 DEF Progress
  <2>5. Sound(f)
    BY <1>5, <1>8, <2>4 DEF Sound
  <2>6. DOMAIN sp.pages = {}
    <3>1. sp.pages = <<>>
      BY <1>4 DEF NoSpace
    <3> QED BY <3>1, SMTT(40)
  <2>7. 1 \in 1..(Len(segments(f)) + 1) /\ \A i \in 1..Len(segments(f)) : ~(i < 1)
    BY SegmentFields, SMTT(40)
  <2>8. Filling(f, ld'[p], bytes')
    BY <2>3, <2>4, <2>5, <2>6, <2>7, ZenonT(60) DEF Filling, Holds
  <2>9. Progress(f, ld'[p], bytes')
    BY <2>3, <2>8 DEF Progress
  <2> QED BY <1>1, <1>3, <2>3, <2>9, LoadImage, ZenonT(60)
<1> QED BY <1>6, <1>7, <1>8

\* One page of a segment: no earlier segment is on it, so zero is right for now.
LEMMA MapPageImage ==
    ASSUME ProcInv, ImageInv, NEW p \in Procs, MapPage(p)
    PROVE  ImageInv'
<1>1. /\ ld[p].pc = "map" /\ file' = file /\ th' = th /\ TypeOK /\ FrameInv
      /\ ld[p].seg <= Len(segments(file[p])) /\ Unmapped(p) # {}
  BY DEF MapPage, ProcInv
<1>2. PICK l : l = ld[p] /\ IsLoad(l) /\ Progress(file[p], l, bytes) /\ file[p] \in ElfFile /\ IsSpace(l.space)
  BY <1>1, LoadBefore
<1>3. PICK f \in ElfFile : f = file[p]
  BY <1>2
<1>4. PICK va : va = Min(Unmapped(p))
  OBVIOUS
<1>5. PICK q : q = map_new_page(l.space, frames, va, TRUE, TRUE)
  OBVIOUS
<1>6. /\ bytes' = Zeroed(q, l.space)
      /\ IF q.err # "ok" THEN Fail(p, q.err, q.free, q.space) ELSE ld' = [ld EXCEPT ![p].space = q.space]
  BY <1>2, <1>4, <1>5 DEF MapPage
<1>7. /\ DOMAIN bytes' = DOMAIN bytes
      /\ \A g \in DOMAIN bytes : Untouched(g) \/ g \in frames \/ g \in ld[p].space.owned
      /\ q.err = "ok" => PageAdded(l.space, q.space, va, TRUE)
  BY <1>1, <1>2, <1>5, <1>6, NewPageBytes, ZenonT(60)
<1>8. CASE q.err # "ok"
  <2>1. Fail(p, q.err, q.free, q.space)
    BY <1>6, <1>8
  <2>2. Progress(file[p], ld'[p], bytes') /\ \A s \in Procs : s # p => ld'[s] = ld[s]
    BY <1>1, <2>1, FailedImage, ZenonT(60)
  <2> QED BY <1>1, <1>7, <2>2, LoadImage
<1>9. CASE q.err = "ok"
  <2>1. PICK r : r = [l EXCEPT !.space = q.space] /\ ld' = [ld EXCEPT ![p] = r]
    BY <1>2, <1>6, <1>9
  <2>2. r = [pc |-> l.pc, err |-> l.err, seg |-> l.seg, space |-> q.space]
    BY <1>2, <2>1 DEF IsLoad
  <2>3. /\ ld'[p].pc = "map" /\ ld'[p].seg = l.seg /\ ld'[p].space = q.space
        /\ \A s \in Procs : s # p => ld'[s] = ld[s]
    <3>1. r.pc = l.pc /\ r.seg = l.seg /\ r.space = q.space
      BY <2>2
    <3> QED BY <1>1, <1>2, <2>1, <3>1, LoadStored
  <2>4. Filling(f, l, bytes)
    BY <1>1, <1>2, <1>3 DEF Progress
  <2>5. PICK n \in 1..Len(segments(f)) : n = l.seg
    <3>1. l.seg \in 1..(Len(segments(f)) + 1) /\ l.seg <= Len(segments(f)) /\ Len(segments(f)) \in Nat
      BY <1>1, <1>2, <1>3, <2>4, SegmentFields, ZenonT(60) DEF Filling
    <3> QED BY <3>1, SMTT(40)
  <2>6. va \in segment_pages(segments(f)[n]) /\ va \notin DOMAIN l.space.pages
    <3>1. \A a \in Unmapped(p) : a \in segment_pages(segments(f)[n]) /\ a \notin DOMAIN l.space.pages
      BY <1>2, <1>3, <2>5 DEF Unmapped, is_mapped
    <3>2. Unmapped(p) \in SUBSET Nat
      BY <2>4, <3>1, SegmentPages DEF Filling
    <3>3. va \in Unmapped(p)
      BY <1>1, <1>4, <3>2, MinIn
    <3> QED BY <3>1, <3>3
  <2>7. va \in Nat /\ va % PageSize = 0
    BY <2>4, <2>6, SegmentPages DEF Filling
  <2>8. ASSUME NEW j \in 1..(l.seg - 1), NEW i \in 0..(PageSize - 1) PROVE ~Covers(segments(f)[j], va + i)
    <3>1. j \in 1..Len(segments(f)) /\ j < l.seg
      BY <2>5, SegmentFields, SMTT(40)
    <3>2. va \notin segment_pages(segments(f)[j])
      BY <2>4, <2>6, <3>1 DEF Filling
    <3> QED BY <2>4, <2>7, <3>1, <3>2, Uncovered, ZenonT(60) DEF Filling
  <2>9. Holds(f, q.space, bytes', l.seg - 1)
    <3>1. PICK k : k = l.seg - 1
      OBVIOUS
    <3>2. Holds(f, l.space, bytes, k)
      BY <2>4, <3>1 DEF Filling
    <3>3. \A j \in 1..k : \A i \in 0..(PageSize - 1) : ~Covers(segments(f)[j], va + i)
      BY <2>8, <3>1
    <3>4. Holds(f, q.space, bytes', k)
      BY <1>7, <1>9, <3>2, <3>3, HoldsNew, ZenonT(60)
    <3> QED BY <3>1, <3>4
  <2>10. Filling(f, ld'[p], bytes')
    <3>0. DOMAIN q.space.pages = DOMAIN l.space.pages \cup {va}
      BY <1>7, <1>9 DEF PageAdded
    <3>1. ASSUME NEW a \in DOMAIN q.space.pages
          PROVE  \E i \in 1..Len(segments(f)) : a \in segment_pages(segments(f)[i])
      <4>1. CASE a = va
        BY <2>5, <2>6, <4>1
      <4>2. CASE a \in DOMAIN l.space.pages
        BY <2>4, <4>2 DEF Filling
      <4> QED BY <3>0, <4>1, <4>2
    <3>2. \A i \in 1..Len(segments(f)) : i < l.seg =>
            \A a \in segment_pages(segments(f)[i]) : a \in DOMAIN q.space.pages
      BY <2>4, <3>0 DEF Filling
    <3> QED BY <2>3, <2>4, <2>9, <3>1, <3>2, ZenonT(60) DEF Filling
  <2>11. Progress(f, ld'[p], bytes')
    BY <2>3, <2>10 DEF Progress
  <2> QED BY <1>1, <1>3, <1>7, <2>3, <2>11, LoadImage, ZenonT(60)
<1> QED BY <1>8, <1>9

\* The copy of a segment: every byte it covers is the file's, in the one frame and at the
\* one place its address has; no other byte of the space changes, nor any other frame.
LEMMA CopyImage ==
    ASSUME ProcInv, ImageInv, NEW p \in Procs, CopySegment(p)
    PROVE  ImageInv'
<1>1. /\ ld[p].pc = "map" /\ file' = file /\ th' = th /\ TypeOK /\ FrameInv
      /\ ld[p].seg <= Len(segments(file[p])) /\ Unmapped(p) = {}
  BY DEF CopySegment, ProcInv
<1>2. PICK l : l = ld[p] /\ IsLoad(l) /\ Progress(file[p], l, bytes) /\ file[p] \in ElfFile
  BY <1>1, LoadBefore
<1>3. PICK f \in ElfFile : f = file[p]
  BY <1>2
<1>4. Filling(f, l, bytes)
  BY <1>1, <1>2, <1>3 DEF Progress
<1>5. PICK n \in 1..Len(segments(f)) : n = l.seg
  <2>1. l.seg \in 1..(Len(segments(f)) + 1) /\ l.seg <= Len(segments(f)) /\ Len(segments(f)) \in Nat
    BY <1>1, <1>2, <1>3, <1>4, SegmentFields DEF Filling
  <2> QED BY <2>1, SMT
<1>6. PICK h : h = segments(f)[n]
  OBVIOUS
<1>7. h.vaddr \in Nat /\ h.filesz \in Nat /\ h.offset \in Nat
  BY <1>6, SegmentFields
<1>8. PICK pages : pages = l.space.pages
  OBVIOUS
<1> DEFINE src(g, i) == {a \in h.vaddr..(h.vaddr + h.filesz - 1) : pages[page_of(a)].pa = g /\ a % PageSize = i}
<1>9. bytes' = [g \in DOMAIN bytes |-> [i \in 0..(PageSize - 1) |->
                  IF src(g, i) = {} THEN bytes[g][i] ELSE h.offset + (Min(src(g, i)) - h.vaddr)]]
  <2>1. h = segments(file[p])[ld[p].seg] /\ pages = ld[p].space.pages
    BY <1>2, <1>3, <1>5, <1>6, <1>8
  <2> QED BY <2>1, ZenonT(60) DEF CopySegment
<1>10. \A g, i, a : a \in src(g, i) <=> a \in Nat /\ Covers(h, a) /\ pages[page_of(a)].pa = g /\ a % PageSize = i
  <2>1. \A a : a \in h.vaddr..(h.vaddr + h.filesz - 1) <=> a \in Nat /\ Covers(h, a)
    BY <1>7, SMT DEF Covers
  <2> QED BY <2>1
<1> HIDE DEF src
<1>11. \A a \in Nat : Covers(h, a) => page_of(a) \in DOMAIN pages
  <2>1. \A va \in segment_pages(h) : va \in DOMAIN pages
    BY <1>1, <1>2, <1>3, <1>5, <1>6, <1>8 DEF Unmapped, is_mapped
  <2>2. \A a \in Nat : Covers(h, a) => page_of(a) \in segment_pages(h)
    BY <1>4, <1>6, SegmentPages DEF Filling
  <2> QED BY <2>1, <2>2
<1>12. \A a, b \in DOMAIN pages : pages[a].pa = pages[b].pa => a = b
  BY <1>1, <1>2, <1>8, ZenonT(60) DEF FrameInv, SpaceOK, Accounted
<1>13. ASSUME NEW va \in DOMAIN pages PROVE va \in Nat /\ va % PageSize = 0 /\ pages[va].pa \in DOMAIN bytes
  <2>1. PICK i \in 1..Len(segments(f)) : va \in segment_pages(segments(f)[i])
    BY <1>4, <1>8, <1>13 DEF Filling
  <2>2. pages[va].pa \in ld[p].space.owned
    BY <1>1, <1>2, <1>8, PageOwned
  <2> QED BY <1>1, <1>4, <2>1, <2>2, SegmentPages, FramesKnown DEF Filling
<1>14. ASSUME NEW g \in DOMAIN bytes PROVE Untouched(g) \/ g \in frames \/ g \in ld[p].space.owned
  <2>1. ASSUME NEW i, NEW a \in src(g, i) PROVE g \in ld[p].space.owned
    <3>1. page_of(a) \in DOMAIN pages /\ pages[page_of(a)].pa = g
      BY <1>10, <1>11, <2>1
    <3> QED BY <1>1, <1>2, <1>8, <3>1, PageOwned, ZenonT(60)
  <2>2. CASE \A i \in 0..(PageSize - 1) : src(g, i) = {}
    BY <1>9, <2>2 DEF Untouched
  <2> QED BY <2>1, <2>2
<1>15. DOMAIN bytes' = DOMAIN bytes
  BY <1>9
<1>16. PICK k \in Nat : k + 1 = n /\ k = l.seg - 1
  <2>1. n - 1 \in Nat /\ (n - 1) + 1 = n
    BY SegmentFields, SMTT(40)
  <2> QED BY <1>5, <2>1
<1>17. ASSUME NEW va \in DOMAIN pages, NEW i \in 0..(PageSize - 1)
       PROVE  IsByte(f, va + i, n, bytes'[pages[va].pa][i])
  <2>1. va \in Nat /\ va % PageSize = 0 /\ pages[va].pa \in DOMAIN bytes
    BY <1>13, <1>17
  <2>2. PICK a \in Nat : a = va + i /\ page_of(a) = va /\ a % PageSize = i
    BY <2>1, InPage
  <2>3. PICK g : g = pages[va].pa
    OBVIOUS
  <2>4. ASSUME NEW b \in src(g, i) PROVE b = a
    <3>1. b \in Nat /\ Covers(h, b) /\ pages[page_of(b)].pa = g /\ b % PageSize = i
      BY <1>10, <2>4
    <3>2. page_of(b) \in DOMAIN pages
      BY <1>11, <3>1
    <3>3. page_of(b) = va
      BY <1>12, <1>17, <2>3, <3>1, <3>2, ZenonT(60)
    <3> QED BY <2>2, <3>1, <3>3, SamePlace
  <2>5. bytes'[g][i] = IF src(g, i) = {} THEN bytes[g][i] ELSE h.offset + (Min(src(g, i)) - h.vaddr)
    BY <1>9, <2>1, <2>3
  <2>6. IsByte(f, a, k, bytes[g][i])
    BY <1>4, <1>8, <1>16, <1>17, <2>2, <2>3, ZenonT(60) DEF Filling, Holds
  <2>7. CASE Covers(h, a)
    <3>1. a \in src(g, i)
      BY <1>10, <2>2, <2>3, <2>7
    <3>2. PICK s : s = src(g, i)
      OBVIOUS
    <3>3. Min(s) = a /\ s # {}
      BY <2>4, <3>1, <3>2, MinOne
    <3>4. bytes'[g][i] = h.offset + (a - h.vaddr)
      BY <2>5, <3>2, <3>3
    <3>5. IsByte(f, a, k + 1, bytes'[g][i])
      BY <1>6, <1>16, <2>7, <3>4, NextByte, ZenonT(60)
    <3> QED BY <1>16, <2>2, <2>3, <3>5
  <2>8. CASE ~Covers(h, a)
    <3>1. src(g, i) = {}
      <4>1. ASSUME NEW b \in src(g, i) PROVE FALSE
        <5>1. b = a /\ Covers(h, b)
          BY <1>10, <2>4, <4>1
        <5> QED BY <2>8, <5>1
      <4> QED BY <4>1
    <3>2. bytes'[g][i] = bytes[g][i]
      BY <2>5, <3>1
    <3>3. IsByte(f, a, k + 1, bytes'[g][i])
      BY <1>6, <1>16, <2>6, <2>8, <3>2, NextByte, ZenonT(60)
    <3> QED BY <1>16, <2>2, <2>3, <3>3
  <2> QED BY <2>7, <2>8
<1>18. PICK r : r = [l EXCEPT !.seg = l.seg + 1] /\ ld' = [ld EXCEPT ![p] = r]
  BY <1>2 DEF CopySegment
<1>19. r = [pc |-> l.pc, err |-> l.err, seg |-> l.seg + 1, space |-> l.space]
  BY <1>2, <1>18 DEF IsLoad
<1>20. /\ ld'[p].pc = "map" /\ ld'[p].seg = n + 1 /\ ld'[p].space = l.space
       /\ \A s \in Procs : s # p => ld'[s] = ld[s]
  <2>1. r.pc = l.pc /\ r.seg = l.seg + 1 /\ r.space = l.space
    BY <1>19
  <2> QED BY <1>1, <1>2, <1>5, <1>18, <2>1, LoadStored, ZenonT(60)
<1>21. Filling(f, ld'[p], bytes')
  <2>1. n + 1 \in 1..(Len(segments(f)) + 1) /\ (n + 1) - 1 = n
    BY SegmentFields, SMTT(40)
  <2>2. \A i \in 1..Len(segments(f)) : i < n + 1 => i < n \/ i = n
    BY SegmentFields, SMTT(40)
  <2>3. \A va \in segment_pages(h) : va \in DOMAIN pages
    BY <1>1, <1>2, <1>3, <1>5, <1>6, <1>8, ZenonT(60) DEF Unmapped, is_mapped
  <2>4. \A i \in 1..Len(segments(f)) : i < n + 1 =>
          \A va \in segment_pages(segments(f)[i]) : va \in DOMAIN pages
    BY <1>4, <1>5, <1>6, <1>8, <2>2, <2>3, ZenonT(60) DEF Filling
  <2>5. Holds(f, l.space, bytes', n)
    BY <1>8, <1>17 DEF Holds
  <2> QED BY <1>4, <1>8, <1>20, <2>1, <2>4, <2>5, ZenonT(60) DEF Filling
<1>22. Progress(f, ld'[p], bytes')
  BY <1>20, <1>21 DEF Progress
<1> QED BY <1>1, <1>3, <1>14, <1>15, <1>20, <1>22, LoadImage, ZenonT(60)

\* Membership in the pages of an image.
LEMMA AllPagesAre ==
    ASSUME NEW f, NEW va
    PROVE  va \in AllPages(f) <=> \E i \in 1..Len(segments(f)) : va \in segment_pages(segments(f)[i])
BY DEF AllPages

\* The permission pass: the pages are the image's and no page is write and execute.
LEMMA PermissionsImage ==
    ASSUME ProcInv, ImageInv, NEW p \in Procs, SetPermissions(p)
    PROVE  ImageInv'
<1>1. /\ ld[p].pc = "map" /\ file' = file /\ bytes' = bytes /\ th' = th /\ TypeOK /\ FrameInv
      /\ ld[p].seg > Len(segments(file[p])) /\ \A g : Untouched(g)
  BY DEF SetPermissions, ProcInv, Untouched
<1>2. PICK l : l = ld[p] /\ IsLoad(l) /\ Progress(file[p], l, bytes) /\ file[p] \in ElfFile /\ IsSpace(l.space)
  BY <1>1, LoadBefore
<1>3. PICK f \in ElfFile : f = file[p]
  BY <1>2
<1>4. PICK wx : wx = {va \in AllPages(f) : page_flags(f, va) = [w |-> TRUE, x |-> TRUE]}
  OBVIOUS
<1>5. PICK pages : pages = [va \in DOMAIN l.space.pages |->
                     [pa |-> l.space.pages[va].pa, w |-> page_flags(f, va).w, x |-> page_flags(f, va).x]]
  OBVIOUS
<1>6. PICK sp : sp = [l.space EXCEPT !.pages = pages]
  OBVIOUS
<1>7. \/ \E err, free, s : Fail(p, err, free, s)
      \/ wx = {} /\ ld' = [ld EXCEPT ![p].pc = "stack", ![p].space = sp]
  BY <1>2, <1>3, <1>4, <1>5, <1>6, ZenonT(60) DEF SetPermissions
<1>8. ASSUME NEW err, NEW free, NEW s, Fail(p, err, free, s) PROVE ImageInv'
  <2>1. Progress(file[p], ld'[p], bytes') /\ \A q \in Procs : q # p => ld'[q] = ld[q]
    BY <1>1, <1>8, FailedImage
  <2> QED BY <1>1, <2>1, LoadImage
<1>9. ASSUME wx = {}, ld' = [ld EXCEPT ![p].pc = "stack", ![p].space = sp] PROVE ImageInv'
  <2>1. PICK r : r = [l EXCEPT !.pc = "stack", !.space = sp] /\ ld' = [ld EXCEPT ![p] = r]
    BY <1>2, <1>9
  <2>2. r = [pc |-> "stack", err |-> l.err, seg |-> l.seg, space |-> sp]
    BY <1>2, <2>1 DEF IsLoad
  <2>3. /\ ld'[p].pc = "stack" /\ ld'[p].seg = l.seg /\ ld'[p].space = sp
        /\ \A q \in Procs : q # p => ld'[q] = ld[q]
    <3>1. r.pc = "stack" /\ r.seg = l.seg /\ r.space = sp
      BY <2>2
    <3> QED BY <1>1, <2>1, <3>1, LoadStored, ZenonT(60)
  <2>4. Filling(f, l, bytes)
    BY <1>1, <1>2, <1>3 DEF Progress
  <2>5. sp.pages = pages
    <3>1. PICK s : s = l.space /\ IsSpace(s)
      BY <1>2
    <3>2. sp = [root |-> s.root, tables |-> s.tables, pages |-> pages, owned |-> s.owned]
      BY <1>6, <3>1 DEF IsSpace
    <3> QED BY <3>2
  <2>6. /\ DOMAIN sp.pages = DOMAIN l.space.pages
        /\ \A va \in DOMAIN l.space.pages : /\ sp.pages[va].pa = l.space.pages[va].pa
                                            /\ sp.pages[va].w = page_flags(f, va).w
                                            /\ sp.pages[va].x = page_flags(f, va).x
    <3>1. DOMAIN pages = DOMAIN l.space.pages
      BY <1>5
    <3>2. ASSUME NEW va \in DOMAIN l.space.pages
          PROVE  /\ pages[va].pa = l.space.pages[va].pa
                 /\ pages[va].w = page_flags(f, va).w /\ pages[va].x = page_flags(f, va).x
      <4>1. PICK a, w, x : a = l.space.pages[va].pa /\ w = page_flags(f, va).w /\ x = page_flags(f, va).x
        OBVIOUS
      <4>2. pages[va] = [pa |-> a, w |-> w, x |-> x]
        BY <1>5, <4>1
      <4>3. pages[va].pa = a /\ pages[va].w = w /\ pages[va].x = x
        BY <4>2, SMTT(40)
      <4> QED BY <4>1, <4>3
    <3> QED BY <2>5, <3>1, <3>2
  <2>7. PICK N \in Nat : N = Len(segments(f))
    BY SegmentFields
  <2>8. l.seg = N + 1
    <3>1. l.seg > N /\ l.seg \in 1..(N + 1)
      BY <1>1, <1>2, <1>3, <2>4, <2>7, ZenonT(60) DEF Filling
    <3> QED BY <3>1, SMTT(40)
  <2>9. \A va \in AllPages(f) : va \in DOMAIN sp.pages
    <3> SUFFICES ASSUME NEW va \in AllPages(f) PROVE va \in DOMAIN l.space.pages
      BY <2>6
    <3>1. PICK i \in 1..Len(segments(f)) : va \in segment_pages(segments(f)[i])
      BY AllPagesAre
    <3>2. i < l.seg
      BY <2>7, <2>8, SMTT(40)
    <3> QED BY <2>4, <3>1, <3>2 DEF Filling
  <2>10. ASSUME NEW va \in DOMAIN sp.pages PROVE Granted(f, sp, va)
    <3>1. PICK i \in 1..Len(segments(f)) : va \in segment_pages(segments(f)[i])
      BY <2>4, <2>6, <2>10 DEF Filling
    <3>2. va \in AllPages(f) /\ va >= USER_MIN /\ va < USER_MAX
      BY <2>4, <3>1, AllPagesAre, SegmentPages, ZenonT(60) DEF Filling
    <3>3. PICK w, x : w = (\E j \in Touching(f, va) : segments(f)[j].w) /\ x = (\E j \in Touching(f, va) : segments(f)[j].x)
                      /\ page_flags(f, va) = [w |-> w, x |-> x]
      BY DEF page_flags
    <3>4. w \in BOOLEAN /\ x \in BOOLEAN
      BY <3>3
    <3>5. page_flags(f, va).w = w /\ page_flags(f, va).x = x
      <4>1. page_flags(f, va) = [w |-> w, x |-> x]
        BY <3>3
      <4> QED BY <4>1, SMTT(40)
    <3>6. ~(w /\ x)
      <4> SUFFICES ASSUME w, x PROVE FALSE
        OBVIOUS
      <4>1. page_flags(f, va) = [w |-> TRUE, x |-> TRUE]
        BY <3>3, <3>4
      <4> QED BY <1>4, <1>9, <3>2, <4>1, ZenonT(60)
    <3>7. sp.pages[va].w = page_flags(f, va).w /\ sp.pages[va].x = page_flags(f, va).x
      BY <2>6, <2>10
    <3> QED BY <3>2, <3>5, <3>6, <3>7, ZenonT(60) DEF Granted
  <2>11. Holds(f, sp, bytes', N)
    <3>1. l.seg - 1 = N
      BY <2>8, SMTT(40)
    <3>2. Holds(f, l.space, bytes, N)
      BY <2>4, <3>1 DEF Filling
    <3> QED BY <1>1, <2>6, <3>2 DEF Holds
  <2>12. l.seg \in Nat /\ l.seg > N /\ \A n \in 1..USER_STACK_PAGES : ~(n < l.seg - N)
    BY <2>8, ProcessConstants, SMTT(40)
  <2>13. Stacking(f, ld'[p], bytes')
    BY <2>3, <2>4, <2>7, <2>9, <2>10, <2>11, <2>12, ZenonT(60) DEF Stacking, Filling
  <2>14. Progress(f, ld'[p], bytes')
    BY <2>3, <2>13 DEF Progress
  <2> QED BY <1>1, <1>3, <2>3, <2>14, LoadImage, ZenonT(60)
<1> QED BY <1>7, <1>8, <1>9

\* The stack's pages are mapped from the top down, one by one.
LEMMA NextStackPage ==
    ASSUME NEW p \in Procs, NEW N \in Nat, N = Len(segments(file[p])), ld[p].seg \in Nat, ld[p].seg > N
    PROVE  /\ StackLeft(p) # {} =>
                /\ ld[p].seg - N \in 1..USER_STACK_PAGES
                /\ Max(StackLeft(p)) = USER_STACK_TOP - (ld[p].seg - N) * PageSize
           /\ StackLeft(p) = {} => \A n \in 1..USER_STACK_PAGES : n < ld[p].seg - N
<1>1. PICK P \in Nat \ {0} : P = PageSize
  BY ImageConstants, SMTT(40)
<1>2. PICK T \in Nat : T = USER_STACK_TOP
  BY ProcessConstants
<1>3. PICK k : k = ld[p].seg - N
  OBVIOUS
<1>4. k \in Nat /\ k >= 1 /\ ld[p].seg = N + k
  BY <1>3, SMTT(40)
<1>5. USER_STACK_PAGES \in Nat
  BY ProcessConstants
<1>6. PICK L : L = StackLeft(p)
  OBVIOUS
<1>7. \A va : va \in L <=> \E n \in 1..USER_STACK_PAGES : va = T - n * P /\ N + k <= N + (T - va) \div P
  BY <1>1, <1>2, <1>4, <1>6, ZenonT(60) DEF StackLeft, StackPages
<1>8. ASSUME NEW n \in 1..USER_STACK_PAGES PROVE (T - (T - n * P)) \div P = n
  <2>1. n \in Nat
    BY <1>5, SMTT(40)
  <2>2. n * P \in Nat /\ (n * P) \div P = n
    BY <2>1, SMTT(40)
  <2>3. PICK m \in Nat : m = n * P
    BY <2>2
  <2>4. T - (T - m) = m
    BY SMT
  <2> QED BY <2>2, <2>3, <2>4
<1>9. \A va : va \in L <=> \E n \in 1..USER_STACK_PAGES : va = T - n * P /\ k <= n
  <2>1. ASSUME NEW n \in 1..USER_STACK_PAGES, NEW va, va = T - n * P
        PROVE  N + k <= N + (T - va) \div P <=> k <= n
    <3>1. (T - va) \div P = n
      BY <1>8, <2>1
    <3>2. N + k <= N + n <=> k <= n
      BY <1>4, <1>5, SMTT(40)
    <3> QED BY <3>1, <3>2
  <2> QED BY <1>7, <2>1
<1>10. ASSUME L # {}
       PROVE  k \in 1..USER_STACK_PAGES /\ Max(L) = T - k * P
  <2>1. PICK n \in 1..USER_STACK_PAGES : k <= n
    BY <1>9, <1>10
  <2>2. k \in 1..USER_STACK_PAGES /\ k <= k
    BY <1>4, <1>5, <2>1, SMTT(40)
  <2>3. PICK m : m = T - k * P
    OBVIOUS
  <2>4. m \in L
    BY <1>9, <2>2, <2>3
  <2>5. ASSUME NEW y \in L PROVE y \in Int /\ y <= m
    <3>1. PICK j \in 1..USER_STACK_PAGES : y = T - j * P /\ k <= j
      BY <1>9, <2>5
    <3>2. j \in Nat
      BY <1>5, SMTT(40)
    <3>3. k * P <= j * P /\ k * P \in Nat /\ j * P \in Nat
      BY <1>4, <3>1, <3>2, SMTT(40)
    <3>4. PICK a \in Nat, b \in Nat : a = k * P /\ b = j * P
      BY <3>3
    <3>5. y = T - b /\ m = T - a /\ a <= b
      BY <2>3, <3>1, <3>3, <3>4
    <3> QED BY <3>5, SMTT(40)
  <2>6. Max(L) = m
    BY <2>4, <2>5, MaxIs
  <2> QED BY <2>2, <2>3, <2>6
<1>11. ASSUME L = {}, NEW n \in 1..USER_STACK_PAGES PROVE n < k
  <2>1. ~(k <= n)
    BY <1>9, <1>11
  <2> QED BY <1>4, <1>5, <2>1, SMTT(40)
<1> QED BY <1>1, <1>2, <1>3, <1>6, <1>10, <1>11, ZenonT(60)

\* One page of the stack: a fresh page below the last, where no segment is.
LEMMA StackImage ==
    ASSUME ProcInv, ImageInv, NEW p \in Procs, MapStack(p)
    PROVE  ImageInv'
<1>1. /\ ld[p].pc = "stack" /\ file' = file /\ th' = th /\ TypeOK /\ FrameInv /\ StackLeft(p) # {}
  BY DEF MapStack, ProcInv
<1>2. PICK l : l = ld[p] /\ IsLoad(l) /\ Progress(file[p], l, bytes) /\ file[p] \in ElfFile /\ IsSpace(l.space)
  BY <1>1, LoadBefore
<1>3. PICK f \in ElfFile : f = file[p]
  BY <1>2
<1>4. PICK va : va = Max(StackLeft(p))
  OBVIOUS
<1>5. PICK q : q = map_new_page(l.space, frames, va, TRUE, FALSE)
  OBVIOUS
<1>6. /\ bytes' = Zeroed(q, l.space)
      /\ IF q.err # "ok" THEN Fail(p, q.err, q.free, q.space)
         ELSE ld' = [ld EXCEPT ![p].space = q.space, ![p].seg = @ + 1]
  BY <1>2, <1>4, <1>5 DEF MapStack
<1>7. /\ DOMAIN bytes' = DOMAIN bytes
      /\ \A g \in DOMAIN bytes : Untouched(g) \/ g \in frames \/ g \in ld[p].space.owned
      /\ q.err = "ok" => PageAdded(l.space, q.space, va, FALSE)
  BY <1>1, <1>2, <1>5, <1>6, NewPageBytes, ZenonT(60)
<1>8. CASE q.err # "ok"
  <2>1. Fail(p, q.err, q.free, q.space)
    BY <1>6, <1>8
  <2>2. Progress(file[p], ld'[p], bytes') /\ \A s \in Procs : s # p => ld'[s] = ld[s]
    BY <1>1, <2>1, FailedImage
  <2> QED BY <1>1, <1>7, <2>2, LoadImage, ZenonT(60)
<1>9. CASE q.err = "ok"
  <2>1. PICK r : r = [l EXCEPT !.space = q.space, !.seg = l.seg + 1] /\ ld' = [ld EXCEPT ![p] = r]
    BY <1>2, <1>6, <1>9, ZenonT(60)
  <2>2. r = [pc |-> l.pc, err |-> l.err, seg |-> l.seg + 1, space |-> q.space]
    BY <1>2, <2>1 DEF IsLoad
  <2>3. /\ ld'[p].pc = "stack" /\ ld'[p].seg = l.seg + 1 /\ ld'[p].space = q.space
        /\ \A s \in Procs : s # p => ld'[s] = ld[s]
    <3>1. r.pc = l.pc /\ r.seg = l.seg + 1 /\ r.space = q.space
      BY <2>2
    <3> QED BY <1>1, <1>2, <2>1, <3>1, LoadStored
  <2>4. Stacking(f, l, bytes)
    BY <1>1, <1>2, <1>3 DEF Progress
  <2>5. PICK N \in Nat : N = Len(segments(f))
    BY SegmentFields
  <2>6. l.seg \in Nat /\ l.seg > N
    BY <2>4, <2>5 DEF Stacking
  <2>7. PICK k : k = l.seg - N
    OBVIOUS
  <2>8. k \in 1..USER_STACK_PAGES /\ va = USER_STACK_TOP - k * PageSize
    BY <1>1, <1>2, <1>3, <1>4, <2>5, <2>6, <2>7, NextStackPage, ZenonT(60)
  <2>9. /\ va \notin DOMAIN l.space.pages /\ ~(va >= USER_MAX) /\ ~(va < USER_MIN)
        /\ DOMAIN q.space.pages = DOMAIN l.space.pages \cup {va}
        /\ \A a \in DOMAIN l.space.pages : q.space.pages[a] = l.space.pages[a]
        /\ q.space.pages[va].w = TRUE /\ q.space.pages[va].x = FALSE
    BY <1>7, <1>9 DEF PageAdded
  <2>10. va \in Nat /\ va % PageSize = 0 /\ va >= USER_MIN /\ va < USER_MAX
    <3>1. PICK P \in Nat \ {0} : P = PageSize
      BY ImageConstants, SMTT(40)
    <3>2. PICK T \in Nat : T = USER_STACK_TOP /\ T % P = 0
      BY <3>1, ProcessConstants
    <3>3. k \in Nat
      <4>1. USER_STACK_PAGES \in Nat
        BY ProcessConstants
      <4> QED BY <2>8, <4>1, SMTT(40)
    <3>4. T = page_of(T)
      BY <3>1, <3>2, SMTT(40) DEF page_of
    <3>5. PICK j \in Nat : T = P * j
      BY <3>1, <3>4, PageDiv
    <3>6. va = P * j - k * P
      BY <2>8, <3>1, <3>2, <3>5, ZenonT(60)
    <3>7. va = P * (j - k)
      BY <3>3, <3>6, SMTT(40)
    <3>8. PICK m \in Int : m = j - k
      BY <3>3, SMTT(40)
    <3>9. va \in Int
      BY <3>7, <3>8, SMTT(40)
    <3>10. va \in Nat /\ va >= USER_MIN /\ va < USER_MAX
      BY <2>9, <3>9, ImageConstants, SMTT(40)
    <3>11. m \in Nat
      BY <3>7, <3>8, <3>10, SMTT(40)
    <3>12. (P * m) % P = 0
      BY <3>11, SMTT(40)
    <3> QED BY <3>1, <3>7, <3>8, <3>10, <3>12, ZenonT(60)
  <2>11. va \notin AllPages(f) /\ va \in StackPages
    <3>1. va \notin AllPages(f)
      BY <2>4, <2>9 DEF Stacking
    <3> QED BY <2>8, <3>1 DEF StackPages
  <2>12. ASSUME NEW j \in 1..N, NEW i \in 0..(PageSize - 1) PROVE ~Covers(segments(f)[j], va + i)
    <3>1. j \in 1..Len(segments(f)) /\ va \notin segment_pages(segments(f)[j])
      BY <2>5, <2>11, AllPagesAre
    <3> QED BY <2>4, <2>10, <3>1, Uncovered DEF Stacking
  <2>13. Holds(f, q.space, bytes', N)
    <3>1. Holds(f, l.space, bytes, N)
      BY <2>4, <2>5 DEF Stacking
    <3> QED BY <1>7, <1>9, <2>12, <3>1, HoldsNew, ZenonT(60)
  <2>14. ASSUME NEW a \in DOMAIN q.space.pages PROVE Granted(f, q.space, a)
    <3>1. CASE a = va
      BY <2>9, <2>10, <2>11, <3>1 DEF Granted
    <3>2. CASE a \in DOMAIN l.space.pages
      <4>1. Granted(f, l.space, a) /\ q.space.pages[a] = l.space.pages[a]
        BY <2>4, <2>9, <3>2 DEF Stacking
      <4> QED BY <4>1 DEF Granted
    <3> QED BY <2>9, <2>14, <3>1, <3>2, ZenonT(60)
  <2>15. ASSUME NEW n \in 1..USER_STACK_PAGES, n < (l.seg + 1) - N
         PROVE  USER_STACK_TOP - n * PageSize \in DOMAIN q.space.pages
    <3>1. n < l.seg - N \/ n = k
      <4>1. USER_STACK_PAGES \in Nat
        BY ProcessConstants
      <4> QED BY <2>6, <2>7, <2>15, <4>1, SMTT(40)
    <3>2. CASE n = k
      BY <2>8, <2>9, <3>2
    <3>3. CASE n < l.seg - N
      BY <2>4, <2>5, <2>9, <3>3, ZenonT(60) DEF Stacking
    <3> QED BY <3>1, <3>2, <3>3
  <2>16. l.seg + 1 \in Nat /\ l.seg + 1 > N
    BY <2>6, SMTT(40)
  <2>17. \A a \in AllPages(f) : a \in DOMAIN q.space.pages
    BY <2>4, <2>9 DEF Stacking
  <2>18. Stacking(f, ld'[p], bytes')
    <3>1. Sound(f)
      BY <2>4 DEF Stacking
    <3> QED BY <2>3, <2>5, <2>13, <2>14, <2>15, <2>16, <2>17, <3>1, ZenonT(60) DEF Stacking
  <2>19. Progress(f, ld'[p], bytes')
    BY <2>3, <2>18 DEF Progress
  <2> QED BY <1>1, <1>3, <1>7, <2>3, <2>19, LoadImage, ZenonT(60)
<1> QED BY <1>8, <1>9

\* spawn, once the last page of the stack is mapped.
LEMMA SpawnImage ==
    ASSUME ProcInv, ImageInv, NEW p \in Procs, spawn(p)
    PROVE  ImageInv'
<1>1. /\ ld[p].pc = "stack" /\ file' = file /\ bytes' = bytes /\ TypeOK /\ FrameInv /\ StackLeft(p) = {}
      /\ th' = [th EXCEPT ![p].pc = "entry"] /\ \A g : Untouched(g)
  BY DEF spawn, memory, ProcInv, Untouched
<1>2. PICK l : l = ld[p] /\ IsLoad(l) /\ Progress(file[p], l, bytes) /\ file[p] \in ElfFile
  BY <1>1, LoadBefore
<1>3. PICK f \in ElfFile : f = file[p]
  BY <1>2
<1>4. PICK r : r = [l EXCEPT !.pc = "loaded"] /\ ld' = [ld EXCEPT ![p] = r]
  BY <1>2 DEF spawn
<1>5. r = [pc |-> "loaded", err |-> l.err, seg |-> l.seg, space |-> l.space]
  BY <1>2, <1>4 DEF IsLoad
<1>6. /\ ld'[p].pc = "loaded" /\ ld'[p].seg = l.seg /\ ld'[p].space = l.space
      /\ \A s \in Procs : s # p => ld'[s] = ld[s]
  <2>1. r.pc = "loaded" /\ r.seg = l.seg /\ r.space = l.space
    BY <1>5
  <2> QED BY <1>1, <1>4, <2>1, LoadStored
<1>7. Stacking(f, l, bytes)
  BY <1>1, <1>2, <1>3 DEF Progress
<1>8. Stacking(f, ld'[p], bytes')
  BY <1>1, <1>6, <1>7 DEF Stacking
<1>9. \A n \in 1..USER_STACK_PAGES : n < l.seg - Len(segments(f))
  <2>1. PICK N \in Nat : N = Len(segments(f))
    BY SegmentFields
  <2>2. l.seg \in Nat /\ l.seg > N
    BY <1>7, <2>1 DEF Stacking
  <2> QED BY <1>1, <1>2, <1>3, <2>1, <2>2, NextStackPage, ZenonT(60)
<1>10. Progress(f, ld'[p], bytes')
  BY <1>6, <1>8, <1>9 DEF Progress
<1>11. \A s \in Procs : s # p => th'[s] = th[s]
  BY <1>1, PcMove DEF ThreadPc
<1> QED BY <1>1, <1>3, <1>6, <1>10, <1>11, LoadImage, ZenonT(60)

\* Every step of a load keeps the images.
LEMMA LoadsImage ==
    ASSUME ProcInv, ImageInv, NEW p \in Procs, Load(p)
    PROVE  ImageInv'
BY ParseImage, NewSpaceImage, MapPageImage, CopyImage, PermissionsImage, StackImage, SpawnImage, ZenonT(60) DEF Load

\* A thread that runs is past thread_entry, and loads and writes nothing here.
LEMMA ThreadPast ==
    ASSUME TypeOK, NEW c \in CPUs, NEW t \in Procs, ThreadStep(c, t)
    PROVE  th'[t].pc \notin {"unborn", "entry"} /\ file' = file /\ bytes' = bytes
<1>1. file' = file /\ bytes' = bytes
  BY DEF ThreadStep, InitSyscalls, activate, adopt_address_space, enter_user, syscall_entry, handle,
               sysret, Exit, user_fault, Yield, exit_current, memory
<1> DEFINE Past == th'[t].pc \notin {"unborn", "entry"}
<1>2. ASSUME NEW pc \in ThreadPc, pc \notin {"unborn", "entry"}, th' = [th EXCEPT ![t].pc = pc] PROVE Past
  BY <1>2, PcMove
<1>3. ASSUME NEW r, th' = [th EXCEPT ![t] = r], r.pc \notin {"unborn", "entry"} PROVE Past
  <2>1. th'[t] = r
    BY <1>3 DEF TypeOK
  <2> QED BY <1>3, <2>1
<1>4. PICK o \in ThreadRecord : o = th[t]
  BY DEF TypeOK
<1>5. ASSUME InitSyscalls(c, t) PROVE Past
  <2>1. th' = [th EXCEPT ![t].pc = "activate"]
    BY <1>5 DEF InitSyscalls
  <2> QED BY <1>2, <2>1 DEF ThreadPc
<1>6. ASSUME activate(c, t) PROVE Past
  <2>1. th' = [th EXCEPT ![t].pc = "adopt"]
    BY <1>6 DEF activate
  <2> QED BY <1>2, <2>1 DEF ThreadPc
<1>7. ASSUME adopt_address_space(c, t) PROVE Past
  <2>1. PICK r : r = [o EXCEPT !.pc = "enter", !.adopted = TRUE] /\ th' = [th EXCEPT ![t] = r]
    BY <1>4, <1>7 DEF adopt_address_space
  <2>2. r.pc = "enter"
    BY <2>1 DEF ThreadRecord
  <2> QED BY <1>3, <2>1, <2>2
<1>8. ASSUME enter_user(c, t) PROVE Past
  <2>1. th' = [th EXCEPT ![t].pc = "user"]
    BY <1>8 DEF enter_user
  <2> QED BY <1>2, <2>1 DEF ThreadPc
<1>9. ASSUME NEW call \in Calls, syscall_entry(c, t, call) PROVE Past
  <2>1. PICK r : r = [o EXCEPT !.pc = "dispatch", !.call = call, !.n = o.n + 1] /\ th' = [th EXCEPT ![t] = r]
    BY <1>4, <1>9 DEF syscall_entry
  <2>2. r.pc = "dispatch"
    BY <2>1 DEF ThreadRecord
  <2> QED BY <1>3, <2>1, <2>2
<1>10. ASSUME handle(c, t) PROVE Past
  <2>1. PICK ret : th' = [th EXCEPT ![t].pc = "return", ![t].ret = ret]
    BY <1>10 DEF handle
  <2>2. PICK r : r = [o EXCEPT !.pc = "return", !.ret = ret] /\ th' = [th EXCEPT ![t] = r]
    BY <1>4, <2>1
  <2>3. r.pc = "return"
    BY <2>2 DEF ThreadRecord
  <2> QED BY <1>3, <2>2, <2>3
<1>11. ASSUME sysret(c, t) PROVE Past
  <2>1. PICK r : /\ r = [o EXCEPT !.pc = "user", !.rsp = user_rsp[c], !.call = "none", !.ret = "none"]
                 /\ th' = [th EXCEPT ![t] = r]
    BY <1>4, <1>11 DEF sysret
  <2>2. r.pc = "user"
    BY <2>1 DEF ThreadRecord
  <2> QED BY <1>3, <2>1, <2>2
<1>12. ASSUME Exit(c, t) \/ user_fault(c, t) PROVE Past
  <2>1. th' = [th EXCEPT ![t].pc = "exit"]
    BY <1>12 DEF Exit, user_fault
  <2> QED BY <1>2, <2>1 DEF ThreadPc
<1>13. ASSUME NEW n, Yield(c, t, n) PROVE Past
  <2>1. th' = [th EXCEPT ![t].pc = "return"]
    BY <1>13 DEF Yield
  <2> QED BY <1>2, <2>1 DEF ThreadPc
<1>14. ASSUME NEW n, exit_current(c, t, n) PROVE Past
  <2>1. th' = [th EXCEPT ![t].pc = "exited"]
    BY <1>14 DEF exit_current
  <2> QED BY <1>2, <2>1 DEF ThreadPc
<1> HIDE DEF Past
<1>15. Past
  BY <1>5, <1>6, <1>7, <1>8, <1>9, <1>10, <1>11, <1>12, <1>13, <1>14, ZenonT(60) DEF ThreadStep
<1> QED BY <1>1, <1>15 DEF Past

\* A step that makes no thread new, and leaves what is loaded, keeps the images.
LEMMA ImagesStay ==
    ASSUME ImageInv, file' = file, bytes' = bytes,
           \A s \in Procs : th'[s].pc \in {"unborn", "entry"} => th[s].pc \in {"unborn", "entry"} /\ ld'[s] = ld[s]
    PROVE  ImageInv'
<1>1. \A s \in Procs : th'[s].pc \in {"unborn", "entry"} => Progress(file'[s], ld'[s], bytes')
  BY DEF ImageInv
<1> QED BY <1>1 DEF ImageInv

\* Every step keeps the images.
LEMMA ImageStep ==
    ASSUME ProcInv, ImageInv, [Next]_vars
    PROVE  ImageInv'
<1>0. TypeOK /\ CpuInv /\ FrameInv
  BY DEF ProcInv
<1>1. CASE UNCHANGED vars
  BY <1>1, ImagesStay DEF vars
<1>2. ASSUME NEW p \in Procs, Load(p) PROVE ImageInv'
  BY <1>2, LoadsImage
<1>3. ASSUME NEW c \in CPUs, FinishSwitch(c) PROVE ImageInv'
  <2>1. file' = file /\ bytes' = bytes /\ ld' = ld
    BY <1>3 DEF FinishSwitch, memory
  <2>2. th' = th \/ \E n \in Procs : th' = [th EXCEPT ![n].pc = "init"]
    <3>1. cur[c] \in Procs \/ cur[c] = Idle
      BY <1>0 DEF TypeOK
    <3> QED BY <1>3, <3>1 DEF FinishSwitch
  <2>3. ASSUME NEW s \in Procs, th'[s].pc \in {"unborn", "entry"} PROVE th[s].pc \in {"unborn", "entry"}
    <3>1. CASE th' = th
      BY <2>3, <3>1
    <3>2. ASSUME NEW n \in Procs, th' = [th EXCEPT ![n].pc = "init"] PROVE th[s].pc \in {"unborn", "entry"}
      <4>1. th'[n].pc = "init" /\ \A o \in Procs : o # n => th'[o] = th[o]
        BY <1>0, <3>2, PcMove DEF ThreadPc
      <4> QED BY <2>3, <4>1
    <3> QED BY <2>2, <3>1, <3>2
  <2> QED BY <2>1, <2>3, ImagesStay
<1>4. ASSUME NEW c \in CPUs, reap(c) PROVE ImageInv'
  <2>1. file' = file /\ bytes' = bytes
    BY <1>4 DEF reap
  <2>2. \A s \in Procs : (th'[s] = th[s] /\ ld'[s] = ld[s]) \/ th'[s].pc = "reaped"
    BY <1>0, <1>4, ReapStep
  <2>3. "reaped" \notin {"unborn", "entry"}
    OBVIOUS
  <2> QED BY <2>1, <2>2, <2>3, ImagesStay, ZenonT(60)
<1>5. ASSUME NEW c \in CPUs, NEW n \in Procs \cup {Idle}, Preempt(c, n) PROVE ImageInv'
  <2>1. file' = file /\ bytes' = bytes /\ ld' = ld /\ th' = th
    BY <1>5 DEF Preempt, memory
  <2> QED BY <2>1, ImagesStay
<1>6. ASSUME NEW c \in CPUs, NEW t \in Procs, ThreadStep(c, t) PROVE ImageInv'
  <2>1. ld' = ld /\ \A s \in Procs : s # t => th'[s] = th[s]
    BY <1>0, <1>6, ThreadSteps, ZenonT(60)
  <2>2. th'[t].pc \notin {"unborn", "entry"} /\ file' = file /\ bytes' = bytes
    BY <1>0, <1>6, ThreadPast
  <2>3. \A s \in Procs : th'[s].pc \in {"unborn", "entry"} => th[s].pc \in {"unborn", "entry"} /\ ld'[s] = ld[s]
    BY <2>1, <2>2
  <2> QED BY <2>2, <2>3, ImagesStay, ZenonT(60)
<1>7. CASE Done
  BY <1>1, <1>7 DEF Done
<1> QED BY <1>1, <1>2, <1>3, <1>4, <1>5, <1>6, <1>7, ZenonT(60) DEF Next

\* ImageFaithful for any images, page size, number of frames and order of loads: a program
\* from_elf accepts starts with exactly the pages of its segments and its stack, in the
\* user half, with the bytes of its file and zeros, the permissions it asked for, and no
\* page both writable and executable.
THEOREM ImageHolds == Spec => []ImageFaithful
<1>1. Init => ImageInv
  <2> SUFFICES ASSUME Init PROVE ImageInv
    OBVIOUS
  <2>1. \A p \in Procs : file[p] \in ElfFile
    BY ProcessConstants DEF Init
  <2>2. \A n \in FrameCounts : \A f \in 1..n : f \in DOMAIN bytes
    BY DEF Init
  <2>3. ASSUME NEW p \in Procs PROVE Progress(file[p], ld[p], bytes)
    <3>1. ld[p].pc = "parse" /\ ld[p].seg = 1
      BY DEF Init
    <3> QED BY <3>1 DEF Progress
  <2> QED BY <2>1, <2>2, <2>3, ZenonT(60) DEF ImageInv
<1>2. ProcInv /\ ImageInv /\ [Next]_vars => ImageInv'
  BY ImageStep
<1>3. ProcInv /\ ImageInv => ImageFaithful
  <2> DEFINE Loaded(sp, f) ==
        /\ DOMAIN sp.pages = AllPages(f) \cup StackPages
        /\ \A va \in DOMAIN sp.pages :
             /\ va >= USER_MIN /\ va < USER_MAX /\ ~(sp.pages[va].w /\ sp.pages[va].x)
             /\ va \in AllPages(f) => sp.pages[va].w = page_flags(f, va).w /\ sp.pages[va].x = page_flags(f, va).x
             /\ \A i \in 0..(PageSize - 1) : bytes[sp.pages[va].pa][i] = ExpectedByte(f, va + i)
  <2> SUFFICES ASSUME ProcInv, ImageInv, NEW p \in Procs, ld[p].pc = "loaded", th[p].pc = "entry"
               PROVE  Loaded(ld[p].space, file[p])
    BY DEF ImageFaithful
  <2>0. PICK sp, f : sp = ld[p].space /\ f = file[p]
    OBVIOUS
  <2>1. f \in ElfFile /\ Progress(f, ld[p], bytes)
    BY <2>0 DEF ImageInv
  <2>2. Stacking(f, ld[p], bytes) /\ \A n \in 1..USER_STACK_PAGES : n < ld[p].seg - Len(segments(f))
    BY <2>1 DEF Progress
  <2>3. \A va \in DOMAIN sp.pages : Granted(f, sp, va)
    BY <2>0, <2>2 DEF Stacking
  <2>4. DOMAIN sp.pages = AllPages(f) \cup StackPages
    <3>1. \A va \in AllPages(f) : va \in DOMAIN sp.pages
      BY <2>0, <2>2, ZenonT(60) DEF Stacking
    <3>2. \A va \in StackPages : va \in DOMAIN sp.pages
      BY <2>0, <2>2 DEF Stacking, StackPages
    <3>3. \A va \in DOMAIN sp.pages : va \in AllPages(f) \/ va \in StackPages
      BY <2>3 DEF Granted
    <3> QED BY <3>1, <3>2, <3>3
  <2>5. ASSUME NEW va \in DOMAIN sp.pages, NEW i \in 0..(PageSize - 1)
        PROVE  bytes[sp.pages[va].pa][i] = ExpectedByte(f, va + i)
    <3>1. IsByte(f, va + i, Len(segments(f)), bytes[sp.pages[va].pa][i])
      BY <2>0, <2>2, <2>5 DEF Stacking, Holds
    <3>2. va + i \in Nat
      <4>1. CASE va \in AllPages(f)
        <5>1. PICK k \in 1..Len(segments(f)) : va \in segment_pages(segments(f)[k])
          BY <2>1, <4>1, AllPagesAre
        <5>2. Sound(f)
          BY <2>2 DEF Stacking
        <5>3. va \in Nat
          BY <2>1, <5>1, <5>2, SegmentPages, ZenonT(60)
        <5> QED BY <2>5, <5>3, ImageConstants, SMTT(40)
      <4>2. CASE va \in StackPages
        <5>1. PICK n \in 1..USER_STACK_PAGES : va = USER_STACK_TOP - n * PageSize
          BY <4>2 DEF StackPages
        <5>2. va >= USER_MIN
          BY <2>3, <2>5 DEF Granted
        <5> QED BY <2>5, <5>1, <5>2, ImageConstants, ProcessConstants, SMTT(40)
      <4> QED BY <2>4, <2>5, <4>1, <4>2, ZenonT(60)
    <3>3. PICK a \in Nat : a = va + i
      BY <3>2
    <3>4. PICK b : b = bytes[sp.pages[va].pa][i]
      OBVIOUS
    <3> QED BY <2>1, <3>1, <3>3, <3>4, ByteExpected, ZenonT(60)
  <2>6. Loaded(sp, f)
    BY <2>3, <2>4, <2>5 DEF Granted
  <2> QED BY <2>0, <2>6
<1> QED BY <1>1, <1>2, <1>3, InvariantHolds, PTL DEF Spec
=============================================================================
