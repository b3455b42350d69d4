------------------------------ MODULE UserImage ------------------------------
(***************************************************************************)
(* The pure part of loading a program: Elf64::parse and segments of        *)
(* crates/qunix-elf, and segment_pages of kernel/src/process.rs.  A file   *)
(* is a record of the header fields the parser reads; its byte i is named  *)
(* by i.  Addresses and file offsets are numbers below Wrap, the 2^64 of   *)
(* the code scaled down, and every checked_add can overflow.               *)
(***************************************************************************)
EXTENDS Integers, Sequences, FiniteSetsExt

CONSTANTS Wrap, PageSize, USER_MIN, USER_MAX,
          EhdrSize, PhdrSize      \* ehdr::SIZE and phdr::SIZE

ASSUME ImageConstants ==
    /\ {Wrap, PageSize, USER_MIN, USER_MAX, EhdrSize, PhdrSize} \subseteq Nat \ {0}
    /\ Wrap % PageSize = 0 /\ USER_MIN % PageSize = 0 /\ USER_MAX % PageSize = 0
    /\ USER_MIN < USER_MAX /\ USER_MAX < Wrap

None == -1
checked_add(a, b) == IF a + b < Wrap THEN a + b ELSE None
checked_mul(a, b) == IF a * b < Wrap THEN a * b ELSE None
Within(end, f) == end # None /\ end <= f.len

\* A program header, and a file: ident is the text of a valid ELF identification, or else
\* the error its first bad field is refused with.
Idents == {"elf64 x86-64 exec", "BadMagic", "NotElf64", "NotX86_64", "NotExecutable"}
Header == [load : BOOLEAN, w : BOOLEAN, x : BOOLEAN,
           offset : Nat, vaddr : Nat, filesz : Nat, memsz : Nat]
ElfFile == [len : Nat, ident : Idents, phoff : Nat, phentsize : Nat, ph : Seq(Header)]

validate_segment(f, h) ==
    IF ~h.load THEN "ok"
    ELSE IF h.filesz > h.memsz THEN "SegmentTooLarge"
    ELSE IF ~Within(checked_add(h.offset, h.filesz), f) THEN "BadProgramHeader"
    ELSE IF checked_add(h.vaddr, h.memsz) = None THEN "BadProgramHeader"
    ELSE "ok"

table_end(f) == LET table_len == checked_mul(Len(f.ph), f.phentsize)
                IN  IF table_len = None THEN None ELSE checked_add(f.phoff, table_len)

parse(f) ==
    CASE f.len < EhdrSize -> "TooShort"
      [] f.len >= EhdrSize /\ f.ident # "elf64 x86-64 exec" -> f.ident
      [] OTHER ->
         IF f.phentsize < PhdrSize \/ ~Within(table_end(f), f) THEN "BadProgramHeader"
         ELSE LET bad == {i \in 1..Len(f.ph) : validate_segment(f, f.ph[i]) # "ok"}
              IN  IF bad = {} THEN "ok" ELSE validate_segment(f, f.ph[Min(bad)])

\* The PT_LOAD headers, in order.
WithLoad(segs, h) == IF h.load THEN Append(segs, h) ELSE segs
segments(f) ==
    LET among[n \in 0..Len(f.ph)] == IF n = 0 THEN <<>> ELSE WithLoad(among[n - 1], f.ph[n])
    IN  among[Len(f.ph)]
-----------------------------------------------------------------------------
\* Pages as the addresses they start at.
page_of(a) == a - (a % PageSize)
next_multiple(a) == IF a = None THEN None
                    ELSE IF a % PageSize = 0 THEN a ELSE checked_add(page_of(a), PageSize)
segment_end(h) == next_multiple(checked_add(h.vaddr, h.memsz))
segment_error(h) ==
    IF segment_end(h) = None THEN "BadAddress"
    ELSE IF segment_end(h) > USER_MAX \/ page_of(h.vaddr) < USER_MIN THEN "NotUserAddress"
    ELSE "ok"
segment_pages(h) == {a \in page_of(h.vaddr)..(segment_end(h) - 1) : a % PageSize = 0}
Touching(f, va) == {i \in 1..Len(segments(f)) : va \in segment_pages(segments(f)[i])}
page_flags(f, va) == [w |-> \E i \in Touching(f, va) : segments(f)[i].w,
                      x |-> \E i \in Touching(f, va) : segments(f)[i].x]
AllPages(f) == UNION {segment_pages(segments(f)[i]) : i \in 1..Len(segments(f))}
-----------------------------------------------------------------------------
\* What a loaded program must look like, said without the loader's steps: the byte at
\* address a is the one the last segment covering a with file data puts there, and
\* zero where none does.
Zero == -1
CoveredBy(f, a) == {i \in 1..Len(segments(f)) :
                      LET h == segments(f)[i] IN a >= h.vaddr /\ a < h.vaddr + h.filesz}
ExpectedByte(f, a) ==
    IF CoveredBy(f, a) = {} THEN Zero
    ELSE LET h == segments(f)[Max(CoveredBy(f, a))] IN h.offset + (a - h.vaddr)
=============================================================================
