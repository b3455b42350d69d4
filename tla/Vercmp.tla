------------------------------- MODULE Vercmp -------------------------------
(***************************************************************************)
(* Version ordering of `qpkg/src/vercmp.rs`.  A version is what `split`    *)
(* makes of the string: an epoch (0 when there is none), the characters of *)
(* pkgver, and pkgrel or NoRel.  Characters are numbers: a digit is        *)
(* itself, a letter is at least Letter, and Dot stands for any separator.  *)
(***************************************************************************)
EXTENDS Integers, SequencesExt

Dot == -1
Letter == 10
NoRel == << >>

is_digit(c) == 0 <= c /\ c < Letter
is_alpha(c) == c >= Letter

Less == -1
Equal == 0
Greater == 1

then_with(first, second) == IF first # Equal THEN first ELSE second
Sign(a, b) == IF a < b THEN Less ELSE IF a > b THEN Greater ELSE Equal

Suffix(s, n) == SubSeq(s, n + 1, Len(s))

\* The length of the longest prefix whose characters all satisfy the predicate.
Prefix(s, pred(_)) ==
    LET n == SelectInSeq(s, LAMBDA c : ~pred(c)) IN IF n = 0 THEN Len(s) ELSE n - 1

\* take_run with is_ascii_digit, or with is_ascii_alphabetic.
take_run(s, digits) ==
    SubSeq(s, 1, Prefix(s, LAMBDA c : IF digits THEN is_digit(c) ELSE is_alpha(c)))

skip_separators(s) == Suffix(s, Prefix(s, LAMBDA c : c = Dot))

trim_zeros(s) == Suffix(s, Prefix(s, LAMBDA c : c = 0))

\* Byte strings compare at the first place they differ, then by length.
ByteOrder(a, b) ==
    LET differ == {i \in DOMAIN a \cap DOMAIN b : a[i] # b[i]}
    IN  IF differ = {} THEN Sign(Len(a), Len(b))
        ELSE LET i == CHOOSE k \in differ : \A j \in differ : k <= j IN Sign(a[i], b[i])

cmp_as_text(a, b) == ByteOrder(a, b)

cmp_numeric(a, b) ==
    LET x == trim_zeros(a)
        y == trim_zeros(b)
    IN  then_with(Sign(Len(x), Len(y)), ByteOrder(x, y))

\* One side is exhausted: what starts alphabetic ages its version.
Leftover(x, y) ==
    IF x = << >> /\ y = << >> THEN Equal
    ELSE IF y = << >> THEN IF is_alpha(x[1]) THEN Less ELSE Greater
    ELSE IF is_alpha(y[1]) THEN Greater ELSE Less

RECURSIVE cmp_segments(_, _)
cmp_segments(a, b) ==
    LET x == skip_separators(a)
        y == skip_separators(b)
        ord == IF is_digit(x[1])
               THEN cmp_numeric(take_run(x, TRUE), take_run(y, TRUE))
               ELSE ByteOrder(take_run(x, FALSE), take_run(y, FALSE))
        rest(s) == Suffix(s, Len(take_run(s, is_digit(s[1]))))
    IN  IF a = << >> \/ b = << >> THEN Leftover(a, b)
        ELSE IF x = << >> \/ y = << >> THEN Leftover(x, y)
        ELSE IF is_digit(x[1]) # is_digit(y[1]) THEN IF is_digit(x[1]) THEN Greater ELSE Less
        ELSE then_with(ord, cmp_segments(rest(x), rest(y)))

vercmp(a, b) ==
    then_with(cmp_numeric(a.epoch, b.epoch),
        then_with(cmp_segments(a.ver, b.ver),
            IF a.rel = NoRel \/ b.rel = NoRel THEN Equal ELSE cmp_segments(a.rel, b.rel)))

----------------------------------------------------------------------------
(* The reference: a version is a list of segments, and the lists compare    *)
(* segment by segment.                                                      *)

\* The place each segment starts: where the kind of character changes.
Starts(s) ==
    {i \in DOMAIN s : s[i] # Dot /\ (i > 1 => s[i-1] = Dot \/ is_digit(s[i]) # is_digit(s[i-1]))}

\* The value of a run of digits.
Number(s) == FoldLeft(LAMBDA n, d : 10 * n + d, 0, s)

Segments(s) ==
    LET starts == SetToSortSeq(Starts(s), LAMBDA i, j : i < j)
        text(i) == LET t == Suffix(s, i - 1)
                   IN  take_run(t, is_digit(s[i]))
    IN  [k \in DOMAIN starts |->
            [attached |-> starts[k] > 1 /\ s[starts[k] - 1] # Dot,
             numeric |-> is_digit(s[starts[k]]),
             text |-> text(starts[k])]]

\* Two segments at one place: a number over letters, numbers by value,
\* letters by the alphabet.
SegmentOrder(p, q) ==
    IF p.numeric # q.numeric THEN IF p.numeric THEN Greater ELSE Less
    ELSE IF p.numeric THEN Sign(Number(p.text), Number(q.text)) ELSE ByteOrder(p.text, q.text)

\* A trailing segment: letters attached to what precedes them age the version.
Ages(seg) == seg.attached /\ ~seg.numeric

ReferenceOrder(a, b) ==
    LET s == Segments(a)
        t == Segments(b)
        differ == {i \in DOMAIN s \cap DOMAIN t : SegmentOrder(s[i], t[i]) # Equal}
        i == CHOOSE k \in differ : \A j \in differ : k <= j
        n == Len(s)
        m == Len(t)
    IN  IF differ # {} THEN SegmentOrder(s[i], t[i])
        ELSE IF n > m THEN IF Ages(s[m + 1]) THEN Less ELSE Greater
        ELSE IF m > n THEN IF Ages(t[n + 1]) THEN Greater ELSE Less
        ELSE Equal
=============================================================================
