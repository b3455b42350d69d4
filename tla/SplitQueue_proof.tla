-------------------------- MODULE SplitQueue_proof --------------------------
(* The rings and the free list of the split virtqueue (queue.rs), for every   *)
(* queue size, chain length and index range: the descriptors are partitioned, *)
(* in_flight marks exactly the outstanding heads, and the queue implements    *)
(* the pool of chains its driver relies on.                                   *)
EXTENDS SplitQueue, FiniteSetTheorems, WellFoundedInduction, TLAPS

\* A leaf that names no prover is one for first-order reasoning.
USE Zenon

---------------------------------------------------------------------------
(* Remainders: the wrapping of a ring index *)

\* The remainder is the one number below the divisor that leaves a multiple.
LEMMA ModUnique ==
    ASSUME NEW P \in Nat \ {0}, NEW q \in Int, NEW r \in 0..(P - 1)
    PROVE  (P * q + r) % P = r
BY SMT

\* Every number is a multiple of the divisor and its remainder.
LEMMA ModShape ==
    ASSUME NEW P \in Nat \ {0}, NEW a \in Int
    PROVE  \E q \in Int : a = P * q + (a % P) /\ a % P \in 0..(P - 1)
<1>1. a \div P \in Int /\ a % P \in 0..(P - 1) /\ a = P * (a \div P) + (a % P)
  BY SMT
<1> QED
  BY <1>1

\* A multiple of the divisor leaves the remainder alone: what a ring slot rests on when
\* the wrapping u16 index passes zero.
LEMMA ModPlus ==
    ASSUME NEW P \in Nat \ {0}, NEW a \in Int, NEW k \in Int
    PROVE  (a + P * k) % P = a % P
<1>1. PICK q \in Int : a = P * q + (a % P) /\ a % P \in 0..(P - 1)
  BY ModShape
<1>2. a + P * k = P * (q + k) + (a % P)
  BY <1>1, SMT
<1>3. q + k \in Int
  BY <1>1, SMT
<1> QED
  BY <1>1, <1>2, <1>3, ModUnique

\* A number below the divisor is its own remainder, and so a divisor further.
LEMMA ModSmall ==
    ASSUME NEW P \in Nat \ {0}, NEW r \in 0..(P - 1)
    PROVE  r % P = r /\ (r - P) % P = r /\ (r + P) % P = r
<1>0. 0 \in Int /\ -1 \in Int /\ 1 \in Int
  BY SMT
<1>1. r = P * 0 + r /\ r - P = P * (-1) + r /\ r + P = P * 1 + r
  BY SMT
<1>2. (P * 0 + r) % P = r
  BY <1>0, ModUnique
<1>3. (P * (-1) + r) % P = r
  BY <1>0, ModUnique
<1>4. (P * 1 + r) % P = r
  BY <1>0, ModUnique
<1> QED
  BY <1>1, <1>2, <1>3, <1>4, SMT

\* Ring indices, and how many entries lie between two of them.
Idx == 0..(IdxMod - 1)
Gap(from, to) == (to - from) % IdxMod
After(i) == (i + 1) % IdxMod

\* An index advances by one or wraps to zero.
LEMMA AfterCases ==
    ASSUME NEW i \in Idx
    PROVE  /\ After(i) \in Idx
           /\ After(i) = i + 1 \/ (After(i) = 0 /\ i + 1 = IdxMod)
<1>0. IdxMod \in Nat \ {0} /\ i \in 0..(IdxMod - 1)
  BY RingAssumption, SMT DEF Idx
<1>1. CASE i + 1 = IdxMod
  <2>1. 0 \in 0..(IdxMod - 1) /\ i + 1 = 0 + IdxMod
    BY <1>0, <1>1, SMT
  <2>2. (0 + IdxMod) % IdxMod = 0
    BY <1>0, <2>1, ModSmall
  <2> QED
    BY <1>0, <1>1, <2>1, <2>2 DEF After, Idx
<1>2. CASE i + 1 # IdxMod
  <2>1. i + 1 \in 0..(IdxMod - 1)
    BY <1>0, <1>2, SMT
  <2> QED
    BY <1>0, <2>1, ModSmall DEF After, Idx
<1> QED
  BY <1>1, <1>2, SMT

\* The gap is the difference, the wrap undone.
LEMMA GapCases ==
    ASSUME NEW from \in Idx, NEW to \in Idx
    PROVE  /\ Gap(from, to) \in Idx
           /\ \/ Gap(from, to) = to - from
              \/ Gap(from, to) = to - from + IdxMod
<1>0. IdxMod \in Nat \ {0} /\ from \in 0..(IdxMod - 1) /\ to \in 0..(IdxMod - 1)
  BY RingAssumption, SMT DEF Idx
<1>1. CASE to - from >= 0
  <2>1. to - from \in 0..(IdxMod - 1)
    BY <1>0, <1>1, SMT
  <2> QED
    BY <1>0, <2>1, ModSmall DEF Gap, Idx
<1>2. CASE ~(to - from >= 0)
  <2>1. to - from + IdxMod \in 0..(IdxMod - 1) /\ (to - from + IdxMod) - IdxMod = to - from
    BY <1>0, <1>2, SMT
  <2>2. ((to - from + IdxMod) - IdxMod) % IdxMod = to - from + IdxMod
    BY <1>0, <2>1, ModSmall
  <2> QED
    BY <2>1, <2>2 DEF Gap, Idx
<1> QED
  BY <1>1, <1>2, SMT

\* An entry more, and an entry less.
LEMMA GapSteps ==
    ASSUME NEW from \in Idx, NEW to \in Idx
    PROVE  /\ Gap(from, to) + 1 < IdxMod => Gap(from, After(to)) = Gap(from, to) + 1
           /\ Gap(from, to) > 0 => Gap(After(from), to) = Gap(from, to) - 1
           /\ Gap(from, to) = 0 <=> from = to
<1>0. IdxMod \in Nat \ {0} /\ from \in 0..(IdxMod - 1) /\ to \in 0..(IdxMod - 1)
  BY RingAssumption, SMT DEF Idx
<1>1. PICK n, f, t : n = Gap(from, to) /\ f = After(from) /\ t = After(to)
  OBVIOUS
<1>2. /\ n \in 0..(IdxMod - 1) /\ (n = to - from \/ n = to - from + IdxMod)
      /\ f \in 0..(IdxMod - 1) /\ (f = from + 1 \/ (f = 0 /\ from + 1 = IdxMod))
      /\ t \in 0..(IdxMod - 1) /\ (t = to + 1 \/ (t = 0 /\ to + 1 = IdxMod))
  BY <1>1, GapCases, AfterCases DEF Idx
<1>3. f \in Idx /\ t \in Idx
  BY <1>2 DEF Idx
<1>4. PICK a, b : a = Gap(from, t) /\ b = Gap(f, to)
  OBVIOUS
<1>5. /\ a \in 0..(IdxMod - 1) /\ (a = t - from \/ a = t - from + IdxMod)
      /\ b \in 0..(IdxMod - 1) /\ (b = to - f \/ b = to - f + IdxMod)
  BY <1>3, <1>4, GapCases DEF Idx
<1>6. n + 1 < IdxMod => a = n + 1
  BY <1>0, <1>2, <1>5, SMT
<1>7. n > 0 => b = n - 1
  BY <1>0, <1>2, <1>5, SMT
<1>8. n = 0 <=> from = to
  BY <1>0, <1>2, SMT
<1> QED
  BY <1>1, <1>4, <1>6, <1>7, <1>8

\* The slot of the i-th entry from an index: the wrap of the index does not show, because
\* the ring's size divides its range.
LEMMA SlotShift ==
    ASSUME NEW a \in Int
    PROVE  (a + IdxMod) % Size = a % Size /\ (a - IdxMod) % Size = a % Size /\ a % Size \in Desc
<1>0. Size \in Nat \ {0} /\ IdxMod \in Nat /\ IdxMod % Size = 0
  BY RingAssumption, SMT
<1>1. PICK K \in Int : IdxMod = Size * K + (IdxMod % Size)
  <2>1. IdxMod \in Int
    BY <1>0, SMT
  <2> QED
    BY <1>0, <2>1, ModShape
<1>2. IdxMod = Size * K /\ -K \in Int /\ a + IdxMod = a + Size * K /\ a - IdxMod = a + Size * (-K)
  BY <1>0, <1>1, SMT
<1>3. (a + Size * K) % Size = a % Size /\ (a + Size * (-K)) % Size = a % Size
  BY <1>0, <1>1, <1>2, ModPlus
<1>4. a % Size \in Desc
  BY <1>0, ModShape DEF Desc
<1> QED
  BY <1>2, <1>3, <1>4

\* Entries less than a ring apart are in slots of their own.
LEMMA SlotsApart ==
    ASSUME NEW a \in Int, NEW i \in Int, NEW j \in Int, i - j < Size, j - i < Size,
           (a + i) % Size = (a + j) % Size
    PROVE  i = j
<1>0. Size \in Nat \ {0}
  BY RingAssumption, SMT
<1>1. PICK b, c : b = a + i /\ c = a + j
  OBVIOUS
<1>2. b \in Int /\ c \in Int /\ i - j = b - c
  BY <1>1, SMT
<1>3. PICK p \in Int : b = Size * p + (b % Size) /\ b % Size \in 0..(Size - 1)
  BY <1>0, <1>2, ModShape
<1>4. PICK q \in Int : c = Size * q + (c % Size) /\ c % Size \in 0..(Size - 1)
  BY <1>0, <1>2, ModShape
<1>8. PICK r : r = b % Size /\ r = c % Size
  BY <1>1
<1>9. r \in Int /\ b = Size * p + r /\ c = Size * q + r
  BY <1>0, <1>3, <1>4, <1>8, SMT
<1>10. i - j = Size * p - Size * q
  <2>1. PICK x, y : x = Size * p /\ y = Size * q
    OBVIOUS
  <2>2. x \in Int /\ y \in Int
    BY <1>0, <2>1, SMT
  <2>3. b = x + r /\ c = y + r
    BY <1>9, <2>1
  <2>4. b - c = x - y
    BY <1>9, <2>2, <2>3, SMT
  <2> QED
    BY <1>2, <2>1, <2>4
<1>5. CASE p = q
  BY <1>0, <1>10, <1>5, SMT
<1>6. CASE p > q
  <2>1. Size * p >= Size * (q + 1) /\ Size * (q + 1) = Size * q + Size
    BY <1>0, <1>6, SMT
  <2> QED
    BY <1>0, <1>10, <2>1, SMT
<1>7. CASE q > p
  <2>1. Size * q >= Size * (p + 1) /\ Size * (p + 1) = Size * p + Size
    BY <1>0, <1>7, SMT
  <2> QED
    BY <1>0, <1>10, <2>1, SMT
<1> QED
  BY <1>5, <1>6, <1>7, SMT

\* The n entries of a ring from an index on, and the ring they make: distinct, and no more
\* than there are slots.
Entry(ring, from, i) == ring[(from + i) % Size]
Entries(ring, from, n) == {Entry(ring, from, i) : i \in 0..(n - 1)}
RingInv(ring, from, to) ==
    /\ ring \in [Desc -> Desc] /\ from \in Idx /\ to \in Idx /\ Gap(from, to) <= Size
    /\ \A i, j \in 0..(Gap(from, to) - 1) : Entry(ring, from, i) = Entry(ring, from, j) => i = j
Within(ring, from, to) == Entries(ring, from, Gap(from, to))

\* The slot an index names is the one after the entries before it.
LEMMA EndSlot ==
    ASSUME NEW from \in Idx, NEW to \in Idx
    PROVE  to % Size = (from + Gap(from, to)) % Size
<1>0. from \in Int /\ to \in Int /\ IdxMod \in Int
  BY RingAssumption, SMT DEF Idx
<1>1. PICK n : n = Gap(from, to)
  OBVIOUS
<1>2. n = to - from \/ n = to - from + IdxMod
  BY <1>1, GapCases
<1>3. from + n = to \/ from + n = to + IdxMod
  BY <1>0, <1>2, SMT
<1> QED
  BY <1>0, <1>1, <1>3, SlotShift

\* The i-th entry after the next index is the one after the i-th.
LEMMA NextSlot ==
    ASSUME NEW from \in Idx, NEW i \in Int
    PROVE  (After(from) + i) % Size = (from + (i + 1)) % Size
<1>0. from \in Int /\ IdxMod \in Int
  BY RingAssumption, SMT DEF Idx
<1>1. PICK f : f = After(from)
  OBVIOUS
<1>2. f = from + 1 \/ (f = 0 /\ from + 1 = IdxMod)
  BY <1>1, AfterCases
<1>3. (f + i = from + (i + 1) \/ from + (i + 1) = (f + i) + IdxMod) /\ f + i \in Int
  BY <1>0, <1>2, SMT
<1> QED
  BY <1>1, <1>3, SlotShift

\* What a ring holds unread, as its reader and as the writer's and reader's indices tell it.
LEMMA UnreadIs ==
    ASSUME NEW ring, NEW from \in Idx, NEW to \in Idx
    PROVE  Unread(ring, from, to) = Within(ring, from, to)
<1>0. IdxMod \in Nat \ {0} /\ from \in 0..(IdxMod - 1) /\ to \in 0..(IdxMod - 1)
  BY RingAssumption, SMT DEF Idx
<1>1. PICK n : n = Gap(from, to)
  OBVIOUS
<1>2. n \in 0..(IdxMod - 1) /\ (n = to - from \/ n = to - from + IdxMod) /\ (n = 0 <=> from = to)
  BY <1>1, GapCases, GapSteps, ZenonT(60) DEF Idx
<1>3. CASE from = to
  <2>1. \A i \in 0..(n - 1) : FALSE
    BY <1>2, <1>3, SMT
  <2> QED
    BY <1>1, <1>3, <2>1 DEF Unread, Within, Entries
<1>4. CASE from # to
  <2>1. n - 1 \in 0..(IdxMod - 1) /\ (to - from - 1 = n - 1 \/ to - from - 1 = (n - 1) - IdxMod)
    BY <1>0, <1>2, <1>4, SMT
  <2>2. (to - from - 1) % IdxMod = n - 1
    BY <1>0, <2>1, ModSmall
  <2> QED
    BY <1>1, <1>4, <2>2 DEF Unread, Between, Within, Entries, Entry
<1> QED
  BY <1>3, <1>4

Written(ring, to, h) == [ring EXCEPT ![to % Size] = h]

\* Writing an entry at the end of a ring that is not full: the others stay.
LEMMA Push ==
    ASSUME NEW ring, NEW from, NEW to, RingInv(ring, from, to), NEW h \in Desc,
           h \notin Within(ring, from, to), Gap(from, to) < Size,
           NEW r, r = Written(ring, to, h)
    PROVE  /\ RingInv(r, from, After(to))
           /\ Gap(from, After(to)) = Gap(from, to) + 1
           /\ Within(r, from, After(to)) = Within(ring, from, to) \cup {h}
<1>0. /\ ring \in [Desc -> Desc] /\ from \in Idx /\ to \in Idx /\ from \in Int
      /\ Size \in Nat \ {0} /\ IdxMod \in Nat /\ IdxMod > Size
  <2>1. ring \in [Desc -> Desc] /\ from \in Idx /\ to \in Idx
    BY DEF RingInv
  <2> QED
    BY <2>1, RingAssumption, SMT DEF Idx
<1>1. PICK n, t : n = Gap(from, to) /\ t = After(to)
  OBVIOUS
<1>2. n \in Nat /\ n < Size /\ n + 1 < IdxMod
  <2>1. n \in 0..(IdxMod - 1) /\ n < Size
    BY <1>0, <1>1, GapCases DEF Idx
  <2> QED
    BY <1>0, <2>1, SMT
<1>3. Gap(from, t) = n + 1 /\ t \in Idx
  BY <1>0, <1>1, <1>2, GapSteps, AfterCases
<1>4. to % Size = (from + n) % Size /\ to % Size \in Desc
  <2>1. to \in Int
    BY <1>0, SMT DEF Idx
  <2> QED
    BY <1>0, <1>1, <2>1, EndSlot, SlotShift
<1>14. r = [ring EXCEPT ![to % Size] = h]
  BY DEF Written
<1>5. Entry(r, from, n) = h
  BY <1>0, <1>4, <1>14 DEF Entry
<1>6. ASSUME NEW i \in 0..(n - 1)
      PROVE  Entry(r, from, i) = Entry(ring, from, i) /\ Entry(ring, from, i) # h
  <2>1. i \in Int /\ i - n < Size /\ n - i < Size /\ i # n /\ n \in Int /\ from + i \in Int
    BY <1>0, <1>2, <1>6, SMT
  <2>2. (from + i) % Size # (from + n) % Size
    BY <1>0, <2>1, SlotsApart
  <2>3. (from + i) % Size \in Desc
    BY <2>1, SlotShift
  <2> QED
    BY <1>0, <1>1, <1>4, <1>14, <2>2, <2>3 DEF Entry, Within, Entries
<1>7. \A i \in 0..((n + 1) - 1) : i \in 0..(n - 1) \/ i = n
  BY <1>2, SMT
<1>8. \A i \in 0..(n - 1) : i \in 0..((n + 1) - 1)
  BY <1>2, SMT
<1>9. n \in 0..((n + 1) - 1) /\ n + 1 <= Size
  BY <1>0, <1>2, SMT
<1>10. r \in [Desc -> Desc]
  BY <1>0, <1>14
<1>11. \A i, j \in 0..((n + 1) - 1) : Entry(r, from, i) = Entry(r, from, j) => i = j
  <2>1. SUFFICES ASSUME NEW i \in 0..((n + 1) - 1), NEW j \in 0..((n + 1) - 1),
                        Entry(r, from, i) = Entry(r, from, j)
                 PROVE  i = j
    OBVIOUS
  <2>2. CASE i \in 0..(n - 1) /\ j \in 0..(n - 1)
    BY <1>1, <1>6, <2>1, <2>2 DEF RingInv
  <2> QED
    BY <1>5, <1>6, <1>7, <2>1, <2>2
<1>12. RingInv(r, from, t)
  BY <1>0, <1>3, <1>9, <1>10, <1>11 DEF RingInv
<1>13. ASSUME NEW x
       PROVE  x \in Entries(r, from, n + 1) <=> x \in Entries(ring, from, n) \cup {h}
  <2>1. ASSUME x \in Entries(r, from, n + 1)
        PROVE  x \in Entries(ring, from, n) \cup {h}
    BY <1>5, <1>6, <1>7, <2>1 DEF Entries
  <2>2. ASSUME x \in Entries(ring, from, n) \cup {h}
        PROVE  x \in Entries(r, from, n + 1)
    BY <1>5, <1>6, <1>8, <1>9, <2>2 DEF Entries
  <2> QED
    BY <2>1, <2>2
<1> QED
  BY <1>1, <1>3, <1>12, <1>13 DEF Within

\* Reading the first entry of a ring that is not empty.
LEMMA Pop ==
    ASSUME NEW ring, NEW from, NEW to, RingInv(ring, from, to), Gap(from, to) > 0
    PROVE  /\ RingInv(ring, After(from), to)
           /\ Gap(After(from), to) = Gap(from, to) - 1
           /\ ring[from % Size] \in Within(ring, from, to)
           /\ Within(ring, After(from), to) = Within(ring, from, to) \ {ring[from % Size]}
<1>0. /\ ring \in [Desc -> Desc] /\ from \in Idx /\ to \in Idx /\ from \in Int
      /\ Size \in Nat \ {0} /\ IdxMod \in Nat
  <2>1. ring \in [Desc -> Desc] /\ from \in Idx /\ to \in Idx
    BY DEF RingInv
  <2> QED
    BY <2>1, RingAssumption, SMT DEF Idx
<1>1. PICK n, f, h : n = Gap(from, to) /\ f = After(from) /\ h = ring[from % Size]
  OBVIOUS
<1>2. n \in Nat /\ n > 0 /\ n <= Size
  <2>1. n \in 0..(IdxMod - 1) /\ n > 0 /\ n <= Size
    BY <1>0, <1>1, GapCases DEF Idx, RingInv
  <2> QED
    BY <1>0, <2>1, SMT
<1>3. Gap(f, to) = n - 1 /\ f \in Idx
  BY <1>0, <1>1, <1>2, GapSteps, AfterCases
<1>4. ASSUME NEW i \in 0..((n - 1) - 1)
      PROVE  Entry(ring, f, i) = Entry(ring, from, i + 1) /\ i + 1 \in 0..(n - 1) /\ i + 1 # 0
  <2>1. i \in Int /\ i + 1 \in 0..(n - 1) /\ i + 1 # 0
    BY <1>2, <1>4, SMT
  <2> QED
    BY <1>0, <1>1, <2>1, NextSlot DEF Entry
<1>5. ASSUME NEW i \in 0..(n - 1), i # 0
      PROVE  \E j \in 0..((n - 1) - 1) : i = j + 1
  <2>1. i - 1 \in 0..((n - 1) - 1) /\ i = (i - 1) + 1
    BY <1>2, <1>5, SMT
  <2> QED
    BY <2>1
<1>6. Entry(ring, from, 0) = h /\ 0 \in 0..(n - 1)
  <2>1. from + 0 = from /\ 0 \in 0..(n - 1)
    BY <1>0, <1>2, SMT
  <2> QED
    BY <1>1, <2>1 DEF Entry
<1>7. \A i, j \in 0..(n - 1) : Entry(ring, from, i) = Entry(ring, from, j) => i = j
  BY <1>1 DEF RingInv
<1>8. ASSUME NEW i \in 0..((n - 1) - 1), NEW j \in 0..((n - 1) - 1), Entry(ring, f, i) = Entry(ring, f, j)
      PROVE  i = j
  <2>1. i + 1 = j + 1
    BY <1>4, <1>7, <1>8
  <2> QED
    BY <1>2, <2>1, SMT
<1>9. RingInv(ring, f, to)
  <2>1. n - 1 <= Size
    BY <1>0, <1>2, SMT
  <2> QED
    BY <1>0, <1>3, <1>8, <2>1 DEF RingInv
<1>10. ASSUME NEW x
       PROVE  x \in Entries(ring, f, n - 1) <=> x \in Entries(ring, from, n) \ {h}
  <2>1. ASSUME x \in Entries(ring, f, n - 1)
        PROVE  x \in Entries(ring, from, n) \ {h}
    <3>1. PICK i \in 0..((n - 1) - 1) : x = Entry(ring, f, i)
      BY <2>1 DEF Entries
    <3> QED
      BY <1>4, <1>6, <1>7, <3>1 DEF Entries
  <2>2. ASSUME x \in Entries(ring, from, n) \ {h}
        PROVE  x \in Entries(ring, f, n - 1)
    <3>1. PICK i \in 0..(n - 1) : x = Entry(ring, from, i)
      BY <2>2 DEF Entries
    <3>2. i # 0
      BY <1>6, <2>2, <3>1
    <3> QED
      BY <1>4, <1>5, <3>1, <3>2 DEF Entries
  <2> QED
    BY <2>1, <2>2
<1>11. h \in Entries(ring, from, n)
  BY <1>6 DEF Entries
<1> QED
  BY <1>1, <1>3, <1>9, <1>10, <1>11 DEF Within

\* A set of numbers has a least one.
LEMMA Least ==
    ASSUME NEW S \in SUBSET Nat, S # {}
    PROVE  \E x \in S : \A y \in S : x <= y
<1>1. PICK x \in S : \A y \in S : ~(<<y, x>> \in OpToRel(<, Nat))
  BY NatLessThanWellFounded, WFMin
<1>2. ASSUME NEW y \in S
      PROVE  x <= y
  <2>1. ~(y < x) /\ x \in Nat /\ y \in Nat
    BY <1>1, <1>2 DEF OpToRel
  <2> QED
    BY <2>1, SMT
<1> QED
  BY <1>2

\* The descriptors that following `next` from d visits.
Follows(at, d, n) == at = [i \in 1..n |-> IF i = 1 THEN d ELSE next[at[i - 1]]]

\* They exist, however many.
LEMMA FollowsExists ==
    ASSUME NEW d, NEW n \in Nat
    PROVE  \E at : Follows(at, d, n)
<1>1. SUFFICES ASSUME NEW S, S = {m \in Nat : ~\E at : Follows(at, d, m)}, S # {} PROVE FALSE
  OBVIOUS
<1>2. PICK x \in S : \A y \in S : x <= y
  BY <1>1, Least
<1>3. x \in Nat /\ ~\E at : Follows(at, d, x)
  BY <1>1, <1>2
<1>4. CASE x = 0
  <2>1. PICK at : at = [i \in 1..0 |-> d]
    OBVIOUS
  <2>2. \A i \in 1..0 : FALSE
    BY SMT
  <2>3. Follows(at, d, 0)
    BY <2>1, <2>2 DEF Follows
  <2> QED
    BY <1>3, <1>4, <2>3
<1>5. CASE x # 0
  <2>1. PICK k : k = x - 1
    OBVIOUS
  <2>2. k \in Nat /\ ~(x <= k) /\ k + 1 = x
    BY <1>3, <1>5, <2>1, SMT
  <2>3. PICK w : Follows(w, d, k)
    BY <1>1, <1>2, <2>2
  <2>4. PICK g : g = [i \in 1..x |-> IF i = 1 THEN d ELSE next[w[i - 1]]]
    OBVIOUS
  <2>5. ASSUME NEW i \in 1..x, i # 1
        PROVE  g[i - 1] = w[i - 1]
    <3>1. i - 1 \in 1..k /\ i - 1 \in 1..x
      BY <1>3, <2>2, <2>5, SMT
    <3>2. PICK j : j = i - 1
      OBVIOUS
    <3>3. g[j] = IF j = 1 THEN d ELSE next[w[j - 1]]
      BY <2>4, <3>1, <3>2
    <3>4. w[j] = IF j = 1 THEN d ELSE next[w[j - 1]]
      BY <2>3, <3>1, <3>2 DEF Follows
    <3> QED
      BY <3>2, <3>3, <3>4
  <2>6. Follows(g, d, x)
    <3>1. \A i \in 1..x : (IF i = 1 THEN d ELSE next[w[i - 1]]) = (IF i = 1 THEN d ELSE next[g[i - 1]])
      BY <2>5
    <3> QED
      BY <2>4, <3>1 DEF Follows
  <2> QED
    BY <1>3, <2>6
<1> QED
  BY <1>4, <1>5

\* ListFrom is what following the links gives: a list linked like f starts with f.
LEMMA ListAgrees ==
    ASSUME NEW d, NEW n \in Nat, NEW m \in 0..n, NEW f,
           m # 0 => f[1] = d, \A i \in 1..m : i # 1 => f[i] = next[f[i - 1]]
    PROVE  \A i \in 1..m : ListFrom(d, n)[i] = f[i]
<1>1. PICK at : Follows(at, d, n) /\ ListFrom(d, n) = at
  <2>1. ListFrom(d, n) = CHOOSE at : at = [i \in 1..n |-> IF i = 1 THEN d ELSE next[at[i - 1]]]
    BY DEF ListFrom
  <2> QED
    BY <2>1, FollowsExists, ZenonT(60) DEF Follows
<1>2. SUFFICES \A i \in 1..m : at[i] = f[i]
  BY <1>1
<1>3. PICK S : S = {i \in 1..m : at[i] # f[i]}
  OBVIOUS
<1>12. SUFFICES ASSUME S # {} PROVE FALSE
  BY <1>3
<1>4. S \in SUBSET Nat
  <2>1. \A i \in 1..m : i \in Nat
    BY SMT
  <2> QED
    BY <1>3, <2>1
<1>5. PICK x \in S : \A y \in S : x <= y
  BY <1>4, <1>12, Least
<1>6. x \in 1..m /\ at[x] # f[x]
  BY <1>3, <1>5
<1>7. x \in 1..n /\ m # 0
  BY <1>6, SMT
<1>8. at[x] = IF x = 1 THEN d ELSE next[at[x - 1]]
  BY <1>1, <1>7 DEF Follows
<1>9. x # 1
  BY <1>6, <1>7, <1>8
<1>10. x - 1 \in 1..m /\ ~(x <= x - 1)
  BY <1>6, <1>9, SMT
<1>11. at[x - 1] = f[x - 1]
  BY <1>3, <1>5, <1>10
<1> QED
  BY <1>6, <1>8, <1>9, <1>11

\* The values at the first k positions.
Visited(k, at) == {at[i] : i \in 1..k}

\* As many values as positions, when no value is at two.
LEMMA DistinctCount ==
    ASSUME NEW n \in Nat, NEW T, NEW f \in [1..n -> T],
           \A i, j \in 1..n : f[i] = f[j] => i = j
    PROVE  IsFiniteSet(Visited(n, f)) /\ Cardinality(Visited(n, f)) = n
<1>1. PICK S : S = Visited(n, f) /\ S = {f[i] : i \in 1..n}
  BY DEF Visited
<1>2. PICK g : g = [i \in 1..n |-> f[i]]
  OBVIOUS
<1>3. g \in Bijection(1..n, S)
  <2>1. g \in [1..n -> S] /\ DOMAIN g = 1..n
    BY <1>1, <1>2
  <2>2. \A i \in 1..n : g[i] = f[i]
    BY <1>2
  <2>3. IsInjective(g)
    BY <2>1, <2>2 DEF IsInjective
  <2>4. \A t \in S : \E i \in 1..n : g[i] = t
    BY <1>1, <2>2
  <2> QED
    BY <2>1, <2>3, <2>4 DEF Bijection, Injection, Surjection
<1>4. ExistsBijection(1..n, S)
  BY <1>3 DEF ExistsBijection
<1>5. IsFiniteSet(1..n) /\ Cardinality(1..n) = n
  <2>1. 1 \in Int /\ n \in Int /\ (1 > n => n = 0) /\ n - 1 + 1 = n
    BY SMT
  <2> QED
    BY <2>1, FS_Interval
<1> QED
  BY <1>1, <1>4, <1>5, FS_Bijection

---------------------------------------------------------------------------
(* The inductive invariant *)

\* The free list is F, in order.
FreeIs(F) ==
    /\ F \in [1..free -> Desc]
    /\ \A i, j \in 1..free : F[i] = F[j] => i = j
    /\ IF free = 0 THEN free_head = NIL ELSE free_head = F[1]
    /\ \A i \in 1..free : IF i = free THEN next[F[i]] = NIL ELSE next[F[i]] = F[i + 1]

\* The chain of each head that was published and not yet freed is C[h], in order.
ChainsOf(C, heads, link, flag) ==
    /\ C \in [heads -> [1..ChainLen -> Desc]]
    /\ \A h \in heads :
         /\ C[h][1] = h
         /\ \A i \in 1..ChainLen : /\ i # ChainLen => link[C[h][i]] = C[h][i + 1]
                                   /\ flag[C[h][i]] = (i # ChainLen)
    /\ \A g, h \in heads : \A i, j \in 1..ChainLen : C[g][i] = C[h][j] => g = h /\ i = j
ChainsAre(C) == ChainsOf(C, Owned, next, more)

Apart(F, C) == \A i \in 1..free : \A h \in Owned : \A j \in 1..ChainLen : F[i] # C[h][j]

ListTypes ==
    /\ next \in [Desc -> 0..Size] /\ more \in [Desc -> BOOLEAN] /\ free \in Nat
    /\ in_flight \in [Desc -> BOOLEAN] /\ taken \in SUBSET Desc
    /\ \A h \in taken : in_flight[h] = FALSE
ListInv ==
    /\ ListTypes
    /\ \E F, C : FreeIs(F) /\ ChainsAre(C) /\ Apart(F, C)
    /\ free + ChainLen * Cardinality(Owned) = Size

\* Where the published heads are.
Offered == Within(avail_ring, seen, avail_idx)
Answered == Within(used_ring, last_used, used_idx)
FlightInv ==
    /\ RingInv(avail_ring, seen, avail_idx) /\ RingInv(used_ring, last_used, used_idx)
    /\ Published = Offered \cup fetched \cup Answered
    /\ Offered \cap fetched = {} /\ Offered \cap Answered = {} /\ fetched \cap Answered = {}

QueueInv == ListInv /\ FlightInv

\* There are as many descriptors as the size says.
LEMMA DescCount ==
    /\ IsFiniteSet(Desc) /\ Cardinality(Desc) = Size
    /\ \A S \in SUBSET Desc : IsFiniteSet(S) /\ Cardinality(S) \in Nat /\ Cardinality(S) <= Size
<1>1. 0 \in Int /\ Size - 1 \in Int /\ ~(0 > Size - 1) /\ (Size - 1) - 0 + 1 = Size
  BY RingAssumption, SMT
<1>2. IsFiniteSet(Desc) /\ Cardinality(Desc) = Size
  BY <1>1, FS_Interval DEF Desc
<1> QED
  BY <1>2, FS_Subset, FS_CardinalityType

\* A ring of distinct heads, one of them missing, has room for an entry.
LEMMA RoomLeft ==
    ASSUME NEW ring, NEW from, NEW to, RingInv(ring, from, to), NEW h \in Desc,
           h \notin Within(ring, from, to)
    PROVE  Gap(from, to) < Size
<1>0. ring \in [Desc -> Desc] /\ from \in Idx /\ to \in Idx /\ from \in Int /\ Size \in Nat /\ IdxMod \in Nat
  <2>1. ring \in [Desc -> Desc] /\ from \in Idx /\ to \in Idx
    BY DEF RingInv
  <2> QED
    BY <2>1, RingAssumption, SMT DEF Idx
<1>1. PICK n : n = Gap(from, to)
  OBVIOUS
<1>2. n \in Nat
  <2>1. n \in 0..(IdxMod - 1)
    BY <1>0, <1>1, GapCases DEF Idx
  <2> QED
    BY <1>0, <2>1, SMT
<1>3. PICK f : f = [i \in 0..(n - 1) |-> Entry(ring, from, i)]
  OBVIOUS
<1>4. \A i \in 0..(n - 1) : Entry(ring, from, i) \in Desc \ {h}
  <2>1. SUFFICES ASSUME NEW i \in 0..(n - 1)
                 PROVE  Entry(ring, from, i) \in Desc \ {h}
    OBVIOUS
  <2>2. from + i \in Int
    BY <1>0, <1>2, <2>1, SMT
  <2>3. (from + i) % Size \in Desc
    BY <2>2, SlotShift
  <2> QED
    BY <1>0, <1>1, <2>1, <2>3 DEF Entry, Within, Entries
<1>5. f \in [0..(n - 1) -> Desc \ {h}]
  BY <1>3, <1>4
<1>6. \A i, j \in 0..(n - 1) : f[i] = f[j] => i = j
  BY <1>1, <1>3 DEF RingInv
<1>7. IsFiniteSet(0..(n - 1)) /\ Cardinality(0..(n - 1)) = n
  <2>1. 0 \in Int /\ n - 1 \in Int /\ (0 > n - 1 => n = 0) /\ (n - 1) - 0 + 1 = n
    BY <1>2, SMT
  <2> QED
    BY <2>1, FS_Interval
<1>8. IsFiniteSet(Desc \ {h}) /\ Cardinality(Desc \ {h}) = Size - 1
  BY DescCount, FS_RemoveElement
<1>9. ~(Size - 1 < n)
  <2>1. PICK S, T : S = 0..(n - 1) /\ T = Desc \ {h}
    OBVIOUS
  <2>2. /\ IsFiniteSet(S) /\ IsFiniteSet(T) /\ Cardinality(S) = n /\ Cardinality(T) = Size - 1
        /\ f \in [S -> T] /\ \A i, j \in S : f[i] = f[j] => i = j
    BY <1>5, <1>6, <1>7, <1>8, <2>1
  <2>3. ~(Cardinality(T) < Cardinality(S))
    <3>1. SUFFICES ASSUME Cardinality(T) < Cardinality(S)
                   PROVE  \E i, j \in S : i # j /\ f[i] = f[j]
      BY <2>2
    <3> QED
      BY <2>2, <3>1, FS_PigeonHole
  <2> QED
    BY <2>2, <2>3
<1> QED
  BY <1>0, <1>1, <1>2, <1>9, SMT

\* alloc_chain and publish, seen through the lists: the first ChainLen free descriptors.
LEMMA SubmitIs ==
    ASSUME ListTypes, Submit, NEW F, FreeIs(F)
    PROVE  /\ free >= ChainLen /\ free' = free - ChainLen /\ free' \in Nat /\ free_head = F[1]
           /\ free_head' = next[F[ChainLen]]
           /\ next' = [next EXCEPT ![F[ChainLen]] = 0]
           /\ more' = [d \in Desc |-> IF \E i \in 1..(ChainLen - 1) : F[i] = d THEN TRUE
                                      ELSE IF d = F[ChainLen] THEN FALSE ELSE more[d]]
           /\ in_flight' = [in_flight EXCEPT ![F[1]] = TRUE]
           /\ F[1] \in Desc /\ F[ChainLen] \in Desc /\ 1 \in 1..free /\ ChainLen \in 1..free
<1>1. PICK at : at = ListFrom(free_head, ChainLen)
  OBVIOUS
<1>2. /\ free >= ChainLen /\ free' = free - ChainLen
      /\ free_head' = next[at[ChainLen]] /\ next' = [next EXCEPT ![at[ChainLen]] = 0]
      /\ more' = [d \in Desc |-> IF \E i \in 1..(ChainLen - 1) : at[i] = d THEN TRUE
                                 ELSE IF d = at[ChainLen] THEN FALSE ELSE more[d]]
      /\ in_flight' = [in_flight EXCEPT ![free_head] = TRUE]
  BY <1>1 DEF Submit, alloc_chain, publish
<1>3. ChainLen \in Nat /\ ChainLen # 0 /\ free \in Nat
  <2>1. free \in Nat
    BY DEF ListTypes
  <2> QED
    BY <2>1, RingAssumption, SMT
<1>4. /\ 1 \in 1..free /\ ChainLen \in 1..free /\ free # 0 /\ ChainLen \in 0..ChainLen /\ ChainLen \in 1..ChainLen
      /\ free' \in Nat
  BY <1>2, <1>3, SMT
<1>5. F \in [1..free -> Desc] /\ free_head = F[1] /\ F[1] \in Desc /\ F[ChainLen] \in Desc
  BY <1>4 DEF FreeIs
<1>6. ASSUME NEW i \in 1..ChainLen, i # 1
      PROVE  F[i] = next[F[i - 1]]
  <2>1. i - 1 \in 1..free /\ i - 1 # free /\ (i - 1) + 1 = i
    BY <1>2, <1>3, <1>6, SMT
  <2> QED
    BY <2>1 DEF FreeIs
<1>7. \A i \in 1..ChainLen : at[i] = F[i]
  <2>1. /\ ChainLen # 0 => F[1] = free_head
        /\ \A i \in 1..ChainLen : i # 1 => F[i] = next[F[i - 1]]
    BY <1>5, <1>6
  <2>2. \A i \in 1..ChainLen : ListFrom(free_head, ChainLen)[i] = F[i]
    BY <1>3, <1>4, <2>1, ListAgrees, SMT
  <2> QED
    BY <1>1, <2>2
<1>8. \A i \in 1..(ChainLen - 1) : at[i] = F[i]
  <2>1. \A i \in 1..(ChainLen - 1) : i \in 1..ChainLen
    BY <1>3, SMT
  <2> QED
    BY <1>7, <2>1
<1>9. at[ChainLen] = F[ChainLen]
  BY <1>4, <1>7
<1>10. more' = [d \in Desc |-> IF \E i \in 1..(ChainLen - 1) : F[i] = d THEN TRUE
                               ELSE IF d = F[ChainLen] THEN FALSE ELSE more[d]]
  <2>1. \A d : (\E i \in 1..(ChainLen - 1) : at[i] = d) <=> (\E i \in 1..(ChainLen - 1) : F[i] = d)
    BY <1>8
  <2>2. \A d \in Desc : (IF \E i \in 1..(ChainLen - 1) : at[i] = d THEN TRUE
                         ELSE IF d = at[ChainLen] THEN FALSE ELSE more[d])
                      = (IF \E i \in 1..(ChainLen - 1) : F[i] = d THEN TRUE
                         ELSE IF d = F[ChainLen] THEN FALSE ELSE more[d])
    BY <1>9, <2>1
  <2> QED
    BY <1>2, <2>2
<1> QED
  BY <1>2, <1>4, <1>5, <1>9, <1>10

\* A submission takes its descriptors off the front of the free list and makes one chain of
\* them; the other chains and the rest of the list are as they were.
LEMMA SubmitLists ==
    ASSUME ListInv, Submit
    PROVE  /\ ListInv' /\ taken' = taken
           /\ free_head \in Desc /\ free_head \notin Owned /\ Published' = Published \cup {free_head}
           /\ Cardinality(Owned) < Size \div ChainLen
<1>0. ListTypes /\ free + ChainLen * Cardinality(Owned) = Size
  BY DEF ListInv
<1>1. PICK F, C : FreeIs(F) /\ ChainsAre(C) /\ Apart(F, C)
  BY DEF ListInv
<1>2. /\ free >= ChainLen /\ free' = free - ChainLen /\ free' \in Nat /\ free_head = F[1]
      /\ free_head' = next[F[ChainLen]]
      /\ next' = [next EXCEPT ![F[ChainLen]] = 0]
      /\ more' = [d \in Desc |-> IF \E i \in 1..(ChainLen - 1) : F[i] = d THEN TRUE
                                 ELSE IF d = F[ChainLen] THEN FALSE ELSE more[d]]
      /\ in_flight' = [in_flight EXCEPT ![F[1]] = TRUE]
      /\ F[1] \in Desc /\ F[ChainLen] \in Desc /\ 1 \in 1..free /\ ChainLen \in 1..free
  BY <1>0, <1>1, SubmitIs
<1>3. taken' = taken
  BY DEF Submit
<1>4. /\ next \in [Desc -> 0..Size] /\ more \in [Desc -> BOOLEAN] /\ free \in Nat
      /\ in_flight \in [Desc -> BOOLEAN] /\ taken \in SUBSET Desc
      /\ \A h \in taken : in_flight[h] = FALSE
  BY <1>0 DEF ListTypes
<1>5. ChainLen \in Nat /\ ChainLen # 0 /\ Size \in Nat /\ 1 \in 1..ChainLen /\ ChainLen \in 1..ChainLen /\ 0 \in 0..Size
  BY RingAssumption, SMT
<1>6. PICK h : h = F[1]
  OBVIOUS
<1>7. /\ F \in [1..free -> Desc] /\ \A i, j \in 1..free : F[i] = F[j] => i = j
      /\ \A i \in 1..free : IF i = free THEN next[F[i]] = NIL ELSE next[F[i]] = F[i + 1]
  BY <1>1 DEF FreeIs
<1>8. /\ C \in [Owned -> [1..ChainLen -> Desc]]
      /\ \A g \in Owned :
           /\ C[g][1] = g
           /\ \A i \in 1..ChainLen : /\ i # ChainLen => next[C[g][i]] = C[g][i + 1]
                                     /\ more[C[g][i]] = (i # ChainLen)
      /\ \A f, g \in Owned : \A i, j \in 1..ChainLen : C[f][i] = C[g][j] => f = g /\ i = j
  BY <1>1 DEF ChainsAre, ChainsOf
<1>9. \A i \in 1..free : \A g \in Owned : \A j \in 1..ChainLen : F[i] # C[g][j]
  BY <1>1 DEF Apart
<1>30. \A g \in Owned : C[g][1] = g
  BY <1>8
<1>31. \A g \in Owned : \A i \in 1..ChainLen : C[g][i] \in Desc
  <2>1. C \in [Owned -> [1..ChainLen -> Desc]]
    BY <1>8
  <2>2. \A g \in Owned : C[g] \in [1..ChainLen -> Desc]
    BY <2>1
  <2> QED
    BY <2>2
<1>32. \A g \in Owned : \A i \in 1..ChainLen : i # ChainLen => next[C[g][i]] = C[g][i + 1]
  BY <1>8
<1>33. \A g \in Owned : \A i \in 1..ChainLen : more[C[g][i]] = (i # ChainLen)
  BY <1>8
<1>34. \A f, g \in Owned : \A i, j \in 1..ChainLen : C[f][i] = C[g][j] => f = g /\ i = j
  BY <1>8
<1>35. \A i, j \in 1..free : F[i] = F[j] => i = j
  BY <1>7
<1>36. \A i \in 1..free : IF i = free THEN next[F[i]] = NIL ELSE next[F[i]] = F[i + 1]
  BY <1>7
<1>37. \A d \in Desc : d # F[ChainLen] => next'[d] = next[d]
  BY <1>2, <1>4
<1>38. \A i \in 1..free : F[i] \in Desc
  BY <1>7
<1>10. h \in Desc /\ h \notin Owned
  <2>1. h \in Owned => F[1] # h
    BY <1>2, <1>5, <1>9, <1>30
  <2> QED
    BY <1>2, <1>6, <2>1
<1>11. Published' = Published \cup {h}
  <2>1. \A d \in Desc : in_flight'[d] <=> (in_flight[d] \/ d = h)
    BY <1>2, <1>4, <1>6
  <2> QED
    BY <1>10, <2>1 DEF Published
<1>12. Owned' = Owned \cup {h}
  BY <1>3, <1>11 DEF Owned
<1>13. ListTypes'
  <2>1. next' \in [Desc -> 0..Size]
    BY <1>2, <1>4, <1>5
  <2>2. more' \in [Desc -> BOOLEAN]
    <3>1. \A d \in Desc : (IF \E i \in 1..(ChainLen - 1) : F[i] = d THEN TRUE
                           ELSE IF d = F[ChainLen] THEN FALSE ELSE more[d]) \in BOOLEAN
      BY <1>4
    <3> QED
      BY <1>2, <3>1
  <2>3. in_flight' \in [Desc -> BOOLEAN]
    BY <1>2, <1>4
  <2>4. \A g \in taken' : in_flight'[g] = FALSE
    <3>1. \A g \in taken : g # h
      BY <1>10 DEF Owned
    <3> QED
      BY <1>2, <1>3, <1>4, <1>6, <3>1
  <2> QED
    BY <1>2, <1>3, <1>4, <2>1, <2>2, <2>3, <2>4 DEF ListTypes
<1>14. PICK G, D : /\ G = [i \in 1..free' |-> F[i + ChainLen]]
                   /\ D = [g \in Owned' |-> IF g = h THEN [i \in 1..ChainLen |-> F[i]] ELSE C[g]]
  OBVIOUS
<1>15. ASSUME NEW i \in 1..free'
       PROVE  /\ i + ChainLen \in 1..free /\ ~(i + ChainLen \in 1..ChainLen)
              /\ G[i] = F[i + ChainLen] /\ G[i] # F[ChainLen]
  <2>1. i + ChainLen \in 1..free /\ ~(i + ChainLen \in 1..ChainLen) /\ i + ChainLen # ChainLen
    BY <1>2, <1>4, <1>5, <1>15, SMT
  <2> QED
    BY <1>2, <1>7, <1>14, <1>15, <2>1
<1>16. ASSUME NEW i \in 1..ChainLen
       PROVE  D[h][i] = F[i] /\ i \in 1..free /\ F[i] \in Desc
  <2>1. i \in 1..free
    BY <1>2, <1>4, <1>5, <1>16, SMT
  <2> QED
    BY <1>7, <1>12, <1>14, <1>16, <2>1
<1>17. ASSUME NEW g \in Owned
       PROVE  D[g] = C[g] /\ g # h
  BY <1>10, <1>12, <1>14, <1>17
<1>18. \A g \in Owned' : g \in Owned \/ g = h
  BY <1>12
<1>19. FreeIs(G)'
  <2>1. G \in [1..free' -> Desc]
    BY <1>7, <1>14, <1>15
  <2>2. ASSUME NEW i \in 1..free', NEW j \in 1..free', G[i] = G[j]
        PROVE  i = j
    <3>1. i + ChainLen = j + ChainLen
      BY <1>7, <1>15, <2>2
    <3> QED
      BY <1>2, <1>5, <2>2, <3>1, SMT
  <2>3. IF free' = 0 THEN free_head' = NIL ELSE free_head' = G[1]
    <3>1. CASE free' = 0
      <4>1. ChainLen = free
        BY <1>2, <1>4, <1>5, <3>1, SMTT(40)
      <4> QED
        BY <1>2, <1>7, <3>1, <4>1
    <3>2. CASE free' # 0
      <4>1. ChainLen # free /\ 1 \in 1..free' /\ ChainLen + 1 = 1 + ChainLen
        BY <1>2, <1>4, <1>5, <3>2, SMTT(40)
      <4>2. next[F[ChainLen]] = F[ChainLen + 1] /\ G[1] = F[1 + ChainLen]
        BY <1>2, <1>15, <1>36, <4>1
      <4> QED
        BY <1>2, <3>2, <4>1, <4>2
    <3> QED
      BY <3>1, <3>2
  <2>4. ASSUME NEW i \in 1..free'
        PROVE  IF i = free' THEN next'[G[i]] = NIL ELSE next'[G[i]] = G[i + 1]
    <3>1. next'[G[i]] = next[F[i + ChainLen]]
      <4>1. i + ChainLen \in 1..free /\ G[i] = F[i + ChainLen] /\ G[i] # F[ChainLen]
        BY <1>15, <2>4
      <4> QED
        BY <1>37, <1>38, <4>1
    <3>2. CASE i = free'
      <4>1. i + ChainLen = free
        BY <1>2, <1>4, <1>5, <3>2, SMTT(40)
      <4> QED
        BY <1>7, <1>15, <3>1, <3>2, <4>1
    <3>3. CASE i # free'
      <4>1. i + ChainLen # free /\ i + 1 \in 1..free' /\ (i + ChainLen) + 1 = (i + 1) + ChainLen
        BY <1>2, <1>4, <1>5, <2>4, <3>3, SMTT(40)
      <4> QED
        <5>1. i + ChainLen \in 1..free /\ G[i + 1] = F[(i + 1) + ChainLen]
          BY <1>15, <2>4, <4>1
        <5>2. next[F[i + ChainLen]] = F[(i + ChainLen) + 1]
          BY <1>36, <4>1, <5>1
        <5> QED
          BY <3>1, <3>3, <4>1, <5>1, <5>2
    <3> QED
      BY <3>2, <3>3
  <2> QED
    BY <2>1, <2>2, <2>3, <2>4 DEF FreeIs
<1>20. ChainsAre(D)'
  <2>1. D \in [Owned' -> [1..ChainLen -> Desc]]
    <3>1. [i \in 1..ChainLen |-> F[i]] \in [1..ChainLen -> Desc]
      BY <1>16
    <3>2. \A g \in Owned' : (IF g = h THEN [i \in 1..ChainLen |-> F[i]] ELSE C[g]) \in [1..ChainLen -> Desc]
      BY <1>8, <1>18, <3>1
    <3> QED
      BY <1>14, <3>2
  <2>2. ASSUME NEW i \in 1..ChainLen
        PROVE  /\ i # ChainLen => next'[D[h][i]] = D[h][i + 1]
               /\ more'[D[h][i]] = (i # ChainLen)
    <3>1. CASE i = ChainLen
      <4>1. \A j \in 1..(ChainLen - 1) : j \in 1..free /\ j # ChainLen
        BY <1>2, <1>4, <1>5, SMT
      <4>2. ~\E j \in 1..(ChainLen - 1) : F[j] = F[ChainLen]
        BY <1>2, <1>7, <4>1
      <4> QED
        BY <1>2, <1>16, <3>1, <4>2
    <3>2. CASE i # ChainLen
      <4>1. i \in 1..(ChainLen - 1) /\ i + 1 \in 1..ChainLen /\ i # free
        BY <1>2, <1>4, <1>5, <2>2, <3>2, SMTT(40)
      <4>2. F[i] # F[ChainLen]
        BY <1>2, <1>7, <1>16, <2>2, <3>2
      <4>3. next'[F[i]] = F[i + 1]
        BY <1>2, <1>4, <1>7, <1>16, <2>2, <4>1, <4>2
      <4>4. more'[F[i]] = TRUE
        BY <1>2, <1>16, <2>2, <4>1
      <4> QED
        BY <1>16, <2>2, <3>2, <4>1, <4>3, <4>4
    <3> QED
      BY <3>1, <3>2
  <2>3. ASSUME NEW g \in Owned, NEW i \in 1..ChainLen
        PROVE  /\ i # ChainLen => next'[D[g][i]] = D[g][i + 1]
               /\ more'[D[g][i]] = (i # ChainLen)
    <3>1. C[g][i] \in Desc /\ C[g][i] # F[ChainLen]
      BY <1>2, <1>9, <1>31, <2>3
    <3>2. ~\E j \in 1..(ChainLen - 1) : F[j] = C[g][i]
      <4>1. \A j \in 1..(ChainLen - 1) : j \in 1..free
        BY <1>2, <1>4, <1>5, SMT
      <4> QED
        BY <1>9, <2>3, <4>1
    <3>3. next'[C[g][i]] = next[C[g][i]] /\ more'[C[g][i]] = more[C[g][i]]
      BY <1>2, <1>4, <3>1, <3>2
    <3> QED
      <4>1. D[g] = C[g] /\ more[C[g][i]] = (i # ChainLen)
        BY <1>17, <1>33, <2>3
      <4>2. i # ChainLen => next[C[g][i]] = C[g][i + 1]
        BY <1>32, <2>3
      <4> QED
        BY <3>3, <4>1, <4>2
  <2>4. D[h][1] = h /\ \A g \in Owned : D[g][1] = g
    BY <1>5, <1>6, <1>8, <1>16, <1>17, ZenonT(60)
  <2>5. ASSUME NEW f \in Owned', NEW g \in Owned', NEW i \in 1..ChainLen, NEW j \in 1..ChainLen,
               D[f][i] = D[g][j]
        PROVE  f = g /\ i = j
    <3>1. CASE f \in Owned /\ g \in Owned
      <4>1. D[f] = C[f] /\ D[g] = C[g]
        BY <1>17, <3>1
      <4>2. C[f][i] = C[g][j]
        BY <2>5, <4>1
      <4> QED
        BY <1>34, <3>1, <4>2, SMT
    <3>2. CASE f = h /\ g = h
      BY <1>7, <1>16, <2>5, <3>2
    <3>3. CASE f = h /\ g \in Owned
      BY <1>9, <1>16, <1>17, <2>5, <3>3, ZenonT(60)
    <3>4. CASE f \in Owned /\ g = h
      BY <1>9, <1>16, <1>17, <2>5, <3>4, ZenonT(60)
    <3> QED
      BY <1>18, <2>5, <3>1, <3>2, <3>3, <3>4
  <2>6. \A g \in Owned' : /\ D[g][1] = g
                          /\ \A i \in 1..ChainLen : /\ i # ChainLen => next'[D[g][i]] = D[g][i + 1]
                                                    /\ more'[D[g][i]] = (i # ChainLen)
    BY <1>18, <2>2, <2>3, <2>4, ZenonT(60)
  <2> QED
    BY <2>1, <2>5, <2>6 DEF ChainsAre, ChainsOf
<1>21. Apart(G, D)'
  <2>1. ASSUME NEW i \in 1..free', NEW g \in Owned', NEW j \in 1..ChainLen
        PROVE  G[i] # D[g][j]
    <3>1. CASE g \in Owned
      <4>1. D[g] = C[g] /\ G[i] = F[i + ChainLen] /\ i + ChainLen \in 1..free
        BY <1>15, <1>17, <2>1, <3>1
      <4> QED
        BY <1>9, <2>1, <3>1, <4>1
    <3>2. CASE g = h
      <4>1. D[h][j] = F[j] /\ j \in 1..free /\ G[i] = F[i + ChainLen] /\ i + ChainLen \in 1..free
        BY <1>15, <1>16, <2>1
      <4>2. i + ChainLen # j
        BY <1>15, <2>1
      <4> QED
        BY <1>35, <3>2, <4>1, <4>2
    <3> QED
      BY <1>18, <2>1, <3>1, <3>2
  <2> QED
    BY <2>1 DEF Apart
<1>22. PICK k : k = Cardinality(Owned) /\ k \in Nat /\ Cardinality(Owned') = k + 1
  <2>1. Owned \in SUBSET Desc
    BY <1>4 DEF Owned, Published
  <2>2. IsFiniteSet(Owned) /\ Cardinality(Owned) \in Nat
    BY <2>1, DescCount
  <2> QED
    BY <1>10, <1>12, <2>2, FS_AddElement
<1>23. PICK m : m = ChainLen * k /\ m \in Nat /\ ChainLen * (k + 1) = m + ChainLen
  <2>1. ChainLen * k \in Nat /\ ChainLen * (k + 1) = ChainLen * k + ChainLen
    BY <1>5, <1>22, SMTT(40)
  <2> QED
    BY <2>1
<1>24. free + m = Size
  BY <1>0, <1>22, <1>23
<1>25. free' + ChainLen * Cardinality(Owned') = Size
  <2>1. (free - ChainLen) + (m + ChainLen) = Size
    BY <1>4, <1>5, <1>23, <1>24, SMTT(40)
  <2> QED
    BY <1>2, <1>22, <1>23, <2>1
<1>26. k < Size \div ChainLen
  <2>1. ChainLen * (k + 1) <= Size
    BY <1>2, <1>4, <1>5, <1>23, <1>24, SMTT(40)
  <2> QED
    BY <1>5, <1>22, <2>1, SMTT(40)
<1>27. ListInv'
  BY <1>13, <1>19, <1>20, <1>21, <1>25 DEF ListInv
<1> QED
  BY <1>2, <1>3, <1>6, <1>10, <1>11, <1>22, <1>26, <1>27

\* The chain from h is c: linked in order, every descriptor but the last flagged.
ChainShape(h, c) ==
    /\ c[1] = h
    /\ \A i \in 1..ChainLen : i # ChainLen => next[c[i]] = c[i + 1]
    /\ \A i \in 1..ChainLen : more[c[i]] = (i # ChainLen)

\* A chain linked and flagged like c is what ChainSize and ListFrom find from its head.
LEMMA ChainFound ==
    ASSUME NEW h, NEW c, ChainShape(h, c)
    PROVE  ChainSize(h) = ChainLen /\ \A i \in 1..ChainLen : ListFrom(h, ChainLen)[i] = c[i]
<1>1. /\ Size \in Nat /\ ChainLen \in Nat /\ ChainLen \in 0..Size /\ ChainLen \in 0..ChainLen
      /\ ChainLen \in 1..Size /\ ChainLen # 0 /\ ChainLen \in 1..ChainLen
  BY RingAssumption, SMT
<1>2. \A i \in 1..ChainLen : i # 1 => c[i] = next[c[i - 1]]
  <2>1. SUFFICES ASSUME NEW i \in 1..ChainLen, i # 1
                 PROVE  c[i] = next[c[i - 1]]
    OBVIOUS
  <2>2. i - 1 \in 1..ChainLen /\ i - 1 # ChainLen /\ (i - 1) + 1 = i
    BY <1>1, <2>1, SMT
  <2> QED
    BY <2>2 DEF ChainShape
<1>3. ChainLen # 0 => c[1] = h
  BY DEF ChainShape
<1>4. \A i \in 1..ChainLen : ListFrom(h, Size)[i] = c[i]
  BY <1>1, <1>2, <1>3, ListAgrees, SMT
<1>5. \A i \in 1..ChainLen : ListFrom(h, ChainLen)[i] = c[i]
  BY <1>1, <1>2, <1>3, ListAgrees, SMT
<1>6. PICK at : at = ListFrom(h, Size)
  OBVIOUS
<1>10. \A i \in 1..ChainLen : more[at[i]] = (i # ChainLen)
  BY <1>4, <1>6 DEF ChainShape
<1>7. ASSUME NEW k \in 1..Size
      PROVE  ((k < Size => ~more[at[k]]) /\ \A j \in 1..(k - 1) : more[at[j]]) <=> k = ChainLen
  <2>1. CASE k = ChainLen
    <3>1. ~more[at[k]]
      BY <1>1, <1>10, <2>1
    <3>2. ASSUME NEW j \in 1..(k - 1)
          PROVE  more[at[j]]
      <4>1. j \in 1..ChainLen /\ j # ChainLen
        BY <1>1, <2>1, <3>2, SMT
      <4> QED
        BY <1>10, <4>1
    <3> QED
      BY <2>1, <3>1, <3>2
  <2>2. CASE k # ChainLen /\ k \in 1..ChainLen
    <3>1. k < Size
      BY <1>1, <1>7, <2>2, SMT
    <3>2. more[at[k]]
      BY <1>10, <2>2
    <3> QED
      BY <2>2, <3>1, <3>2
  <2>3. CASE k \notin 1..ChainLen
    <3>1. ChainLen \in 1..(k - 1) /\ k # ChainLen
      BY <1>1, <1>7, <2>3, SMT
    <3>2. ~more[at[ChainLen]]
      BY <1>1, <1>10
    <3> QED
      BY <3>1, <3>2
  <2> QED
    BY <2>1, <2>2, <2>3
<1>8. ChainSize(h) = CHOOSE k \in 1..Size : /\ k < Size => ~more[at[k]]
                                            /\ \A j \in 1..(k - 1) : more[at[j]]
  BY <1>6 DEF ChainSize
<1>9. ChainSize(h) = ChainLen
  BY <1>1, <1>7, <1>8
<1> QED
  BY <1>5, <1>9

\* What free_chain writes into a descriptor, when the chain is the first k of at.
Place(k, at, d) == CHOOSE i \in 1..k : at[i] = d
NextOf(k, at, d) ==
    IF d \notin Visited(k, at) THEN next[d]
    ELSE IF Place(k, at, d) = 1 THEN free_head ELSE at[Place(k, at, d) - 1]
MoreOf(k, at, d) == IF d \in Visited(k, at) THEN FALSE ELSE more[d]

\* free_chain, seen through the lists: the chain goes back in reverse, in front.
LEMMA FreeIsPush ==
    ASSUME NEW h, free_chain(h), NEW c \in [1..ChainLen -> Desc], ChainShape(h, c),
           \A i, j \in 1..ChainLen : c[i] = c[j] => i = j
    PROVE  /\ free_head' = c[ChainLen] /\ free' = free + ChainLen
           /\ in_flight' = [in_flight EXCEPT ![h] = FALSE]
           /\ DOMAIN next' = Desc /\ DOMAIN more' = Desc
           /\ next' = [d \in Desc |-> next'[d]] /\ more' = [d \in Desc |-> more'[d]]
           /\ \A i \in 1..ChainLen : /\ next'[c[i]] = IF i = 1 THEN free_head ELSE c[i - 1]
                                     /\ more'[c[i]] = FALSE
           /\ \A d \in Desc : (\A i \in 1..ChainLen : c[i] # d) => next'[d] = next[d] /\ more'[d] = more[d]
<1>0. ChainLen \in Nat /\ ChainLen \in 1..ChainLen
  BY RingAssumption, SMT
<1>1. ChainSize(h) = ChainLen /\ \A i \in 1..ChainLen : ListFrom(h, ChainLen)[i] = c[i]
  BY ChainFound
<1>2. PICK at : at = ListFrom(h, ChainLen)
  OBVIOUS
<1>3. /\ next' = [d \in Desc |-> NextOf(ChainLen, at, d)]
      /\ more' = [d \in Desc |-> MoreOf(ChainLen, at, d)]
      /\ free_head' = at[ChainLen] /\ free' = free + ChainLen
      /\ in_flight' = [in_flight EXCEPT ![h] = FALSE]
  <2>1. next' = [d \in Desc |-> NextOf(ChainSize(h), ListFrom(h, ChainSize(h)), d)]
    BY DEF free_chain, NextOf, Visited, Place
  <2>3. more' = [d \in Desc |-> MoreOf(ChainSize(h), ListFrom(h, ChainSize(h)), d)]
    BY DEF free_chain, MoreOf, Visited
  <2>4. /\ free_head' = ListFrom(h, ChainSize(h))[ChainSize(h)] /\ free' = free + ChainSize(h)
        /\ in_flight' = [in_flight EXCEPT ![h] = FALSE]
    BY DEF free_chain
  <2>5. \A d : /\ NextOf(ChainSize(h), ListFrom(h, ChainSize(h)), d) = NextOf(ChainLen, at, d)
              /\ MoreOf(ChainSize(h), ListFrom(h, ChainSize(h)), d) = MoreOf(ChainLen, at, d)
    BY <1>1, <1>2
  <2> QED
    BY <1>1, <1>2, <2>1, <2>3, <2>4, <2>5
<1>4. \A i \in 1..ChainLen : at[i] = c[i]
  BY <1>1, <1>2
<1>5. ASSUME NEW i \in 1..ChainLen
      PROVE  /\ c[i] \in Visited(ChainLen, at) /\ c[i] \in Desc
             /\ Place(ChainLen, at, c[i]) = i
  <2>1. c[i] \in Visited(ChainLen, at) /\ c[i] \in Desc
    BY <1>4, <1>5 DEF Visited
  <2>2. \A j \in 1..ChainLen : at[j] = c[i] <=> j = i
    BY <1>4, <1>5
  <2>3. Place(ChainLen, at, c[i]) = i
    BY <1>5, <2>2 DEF Place
  <2> QED
    BY <2>1, <2>3
<1>6. ASSUME NEW i \in 1..ChainLen
      PROVE  next'[c[i]] = (IF i = 1 THEN free_head ELSE c[i - 1]) /\ more'[c[i]] = FALSE
  <2>1. next'[c[i]] = IF i = 1 THEN free_head ELSE at[i - 1]
    <3>1. next'[c[i]] = NextOf(ChainLen, at, c[i])
      BY <1>3, <1>5, <1>6
    <3>2. PICK x : x = c[i]
      OBVIOUS
    <3>3. Place(ChainLen, at, x) = i /\ x \in Visited(ChainLen, at)
      BY <1>5, <1>6, <3>2
    <3>4. NextOf(ChainLen, at, x) = IF i = 1 THEN free_head ELSE at[i - 1]
      BY <3>3 DEF NextOf
    <3> QED
      BY <3>1, <3>2, <3>4
  <2>2. i # 1 => at[i - 1] = c[i - 1]
    <3>1. i # 1 => i - 1 \in 1..ChainLen
      BY <1>0, <1>6, SMT
    <3> QED
      BY <1>4, <3>1
  <2>3. more'[c[i]] = FALSE
    BY <1>3, <1>5, <1>6 DEF MoreOf
  <2> QED
    BY <2>1, <2>2, <2>3
<1>7. ASSUME NEW d \in Desc, \A i \in 1..ChainLen : c[i] # d
      PROVE  next'[d] = next[d] /\ more'[d] = more[d]
  <2>1. d \notin Visited(ChainLen, at)
    <3>1. \A i \in 1..ChainLen : at[i] # d
      BY <1>4, <1>7
    <3> QED
      BY <3>1 DEF Visited
  <2> QED
    BY <1>3, <1>7, <2>1 DEF NextOf, MoreOf
<1>8. free_head' = c[ChainLen]
  BY <1>0, <1>3, <1>4
<1>9. DOMAIN next' = Desc /\ next' = [d \in Desc |-> next'[d]]
  <2>1. PICK f : f = next'
    OBVIOUS
  <2>2. f = [d \in Desc |-> NextOf(ChainLen, at, d)]
    BY <1>3, <2>1
  <2>3. DOMAIN f = Desc /\ f = [d \in Desc |-> f[d]]
    BY <2>2
  <2> QED
    BY <2>1, <2>3
<1>10. DOMAIN more' = Desc /\ more' = [d \in Desc |-> more'[d]]
  <2>1. PICK f : f = more'
    OBVIOUS
  <2>2. f = [d \in Desc |-> MoreOf(ChainLen, at, d)]
    BY <1>3, <2>1
  <2>3. DOMAIN f = Desc /\ f = [d \in Desc |-> f[d]]
    BY <2>2
  <2> QED
    BY <2>1, <2>3
<1> QED
  BY <1>3, <1>6, <1>7, <1>8, <1>9, <1>10

\* Freeing a chain the driver has taken back puts its descriptors on the front of the free
\* list; the other chains are as they were.
LEMMA FreeLists ==
    ASSUME ListInv, NEW h, Free(h)
    PROVE  /\ ListInv' /\ h \in taken /\ h \in Desc /\ taken' = taken \ {h} /\ Published' = Published
<1>0. ListTypes /\ free + ChainLen * Cardinality(Owned) = Size
  BY DEF ListInv
<1>1. PICK F, C : FreeIs(F) /\ ChainsAre(C) /\ Apart(F, C)
  BY DEF ListInv
<1>2. h \in taken /\ free_chain(h) /\ taken' = taken \ {h}
  BY DEF Free
<1>3. /\ next \in [Desc -> 0..Size] /\ more \in [Desc -> BOOLEAN] /\ free \in Nat
      /\ in_flight \in [Desc -> BOOLEAN] /\ taken \in SUBSET Desc
      /\ \A g \in taken : in_flight[g] = FALSE
  BY <1>0 DEF ListTypes
<1>4. h \in Desc /\ h \in Owned
  BY <1>2, <1>3 DEF Owned
<1>5. ChainLen \in Nat /\ ChainLen # 0 /\ Size \in Nat /\ 1 \in 1..ChainLen /\ ChainLen \in 1..ChainLen
  BY RingAssumption, SMT
<1>6. F \in [1..free -> Desc] /\ IF free = 0 THEN free_head = NIL ELSE free_head = F[1]
  BY <1>1 DEF FreeIs
<1>7. \A i, j \in 1..free : F[i] = F[j] => i = j
  BY <1>1 DEF FreeIs
<1>8. \A i \in 1..free : IF i = free THEN next[F[i]] = NIL ELSE next[F[i]] = F[i + 1]
  BY <1>1 DEF FreeIs
<1>9. C \in [Owned -> [1..ChainLen -> Desc]] /\ \A g \in Owned : C[g] \in [1..ChainLen -> Desc]
  BY <1>1 DEF ChainsAre, ChainsOf
<1>10. \A g \in Owned : C[g][1] = g
  BY <1>1 DEF ChainsAre, ChainsOf
<1>11. \A g \in Owned : \A i \in 1..ChainLen : i # ChainLen => next[C[g][i]] = C[g][i + 1]
  BY <1>1 DEF ChainsAre, ChainsOf
<1>12. \A g \in Owned : \A i \in 1..ChainLen : more[C[g][i]] = (i # ChainLen)
  BY <1>1 DEF ChainsAre, ChainsOf
<1>13. \A f, g \in Owned : \A i, j \in 1..ChainLen : C[f][i] = C[g][j] => f = g /\ i = j
  BY <1>1 DEF ChainsAre, ChainsOf
<1>14. \A i \in 1..free : \A g \in Owned : \A j \in 1..ChainLen : F[i] # C[g][j]
  BY <1>1 DEF Apart
<1>15. PICK c : c = C[h]
  OBVIOUS
<1>16. c \in [1..ChainLen -> Desc] /\ \A i \in 1..ChainLen : c[i] \in Desc
  BY <1>4, <1>9, <1>15
<1>17. \A i, j \in 1..ChainLen : c[i] = c[j] => i = j
  BY <1>4, <1>13, <1>15, ZenonT(60)
<1>18. ChainShape(h, c)
  BY <1>4, <1>10, <1>11, <1>12, <1>15 DEF ChainShape
<1>19. /\ free_head' = c[ChainLen] /\ free' = free + ChainLen
       /\ in_flight' = [in_flight EXCEPT ![h] = FALSE]
  BY <1>2, <1>16, <1>17, <1>18, FreeIsPush
<1>20. /\ next' = [d \in Desc |-> next'[d]] /\ more' = [d \in Desc |-> more'[d]]
  BY <1>2, <1>16, <1>17, <1>18, FreeIsPush
<1>21. \A i \in 1..ChainLen : /\ next'[c[i]] = IF i = 1 THEN free_head ELSE c[i - 1]
                              /\ more'[c[i]] = FALSE
  BY <1>2, <1>16, <1>17, <1>18, FreeIsPush
<1>22. \A d \in Desc : (\A i \in 1..ChainLen : c[i] # d) => next'[d] = next[d] /\ more'[d] = more[d]
  BY <1>2, <1>16, <1>17, <1>18, FreeIsPush
<1>23. Published' = Published
  <2>1. \A d \in Desc : in_flight'[d] = in_flight[d]
    BY <1>2, <1>3, <1>4, <1>19
  <2> QED
    BY <2>1 DEF Published
<1>24. Owned' = Owned \ {h}
  <2>1. h \notin Published
    BY <1>2, <1>3 DEF Published
  <2> QED
    BY <1>2, <1>23, <2>1 DEF Owned
<1>25. ListTypes'
  <2>1. \A d \in Desc : next'[d] \in 0..Size /\ more'[d] \in BOOLEAN
    <3>1. SUFFICES ASSUME NEW d \in Desc
                   PROVE  next'[d] \in 0..Size /\ more'[d] \in BOOLEAN
      OBVIOUS
    <3>2. CASE \A i \in 1..ChainLen : c[i] # d
      BY <1>3, <1>22, <3>1, <3>2
    <3>3. ASSUME NEW i \in 1..ChainLen, c[i] = d
          PROVE  next'[d] \in 0..Size /\ more'[d] \in BOOLEAN
      <4>1. free_head \in 0..Size
        <5>1. \A x \in Desc : x \in 0..Size
          BY <1>5, SMT DEF Desc
        <5>2. NIL \in 0..Size
          BY <1>5, SMT DEF NIL
        <5>3. free # 0 => 1 \in 1..free
          BY <1>3, SMT
        <5> QED
          BY <1>6, <5>1, <5>2, <5>3
      <4>2. i # 1 => c[i - 1] \in 0..Size
        <5>1. i # 1 => i - 1 \in 1..ChainLen
          BY <1>5, <3>3, SMTT(40)
        <5>2. \A x \in Desc : x \in 0..Size
          BY <1>5, SMT DEF Desc
        <5> QED
          BY <1>16, <5>1, <5>2
      <4>3. next'[d] = (IF i = 1 THEN free_head ELSE c[i - 1]) /\ more'[d] = FALSE
        BY <1>21, <3>3
      <4> QED
        BY <4>1, <4>2, <4>3
    <3> QED
      BY <3>2, <3>3
  <2>2. next' \in [Desc -> 0..Size] /\ more' \in [Desc -> BOOLEAN]
    BY <1>20, <2>1
  <2>3. in_flight' \in [Desc -> BOOLEAN]
    BY <1>3, <1>19
  <2>4. free' \in Nat
    BY <1>3, <1>5, <1>19, SMT
  <2>5. \A g \in taken' : in_flight'[g] = FALSE
    BY <1>2, <1>3, <1>19
  <2> QED
    BY <1>2, <1>3, <2>2, <2>3, <2>4, <2>5 DEF ListTypes
<1>26. PICK G, D : /\ G = [i \in 1..free' |-> IF i <= ChainLen THEN c[(ChainLen + 1) - i] ELSE F[i - ChainLen]]
                   /\ D = [g \in Owned' |-> C[g]]
  OBVIOUS
<1>27. ASSUME NEW i \in 1..free', i <= ChainLen
       PROVE  /\ G[i] = c[(ChainLen + 1) - i] /\ (ChainLen + 1) - i \in 1..ChainLen /\ G[i] \in Desc
  <2>1. (ChainLen + 1) - i \in 1..ChainLen
    BY <1>3, <1>5, <1>19, <1>27, SMTT(40)
  <2> QED
    BY <1>16, <1>26, <1>27, <2>1
<1>28. ASSUME NEW i \in 1..free', ~(i <= ChainLen)
       PROVE  /\ G[i] = F[i - ChainLen] /\ i - ChainLen \in 1..free /\ G[i] \in Desc
  <2>1. i - ChainLen \in 1..free
    BY <1>3, <1>5, <1>19, <1>28, SMTT(40)
  <2> QED
    BY <1>6, <1>26, <1>28, <2>1
<1>29. ASSUME NEW i \in 1..free, NEW j \in 1..ChainLen
       PROVE  F[i] # c[j]
  BY <1>4, <1>14, <1>15, <1>29
<1>30. FreeIs(G)'
  <2>1. G \in [1..free' -> Desc]
    <3>1. \A i \in 1..free' : G[i] \in Desc
      BY <1>27, <1>28
    <3> QED
      BY <1>26, <3>1
  <2>2. ASSUME NEW i \in 1..free', NEW j \in 1..free', G[i] = G[j]
        PROVE  i = j
    <3>1. CASE i <= ChainLen /\ j <= ChainLen
      <4>1. (ChainLen + 1) - i = (ChainLen + 1) - j
        BY <1>17, <1>27, <2>2, <3>1
      <4> QED
        BY <1>3, <1>5, <1>19, <2>2, <4>1, SMT
    <3>2. CASE ~(i <= ChainLen) /\ ~(j <= ChainLen)
      <4>1. i - ChainLen = j - ChainLen
        BY <1>7, <1>28, <2>2, <3>2
      <4> QED
        BY <1>3, <1>5, <1>19, <2>2, <4>1, SMTT(40)
    <3>3. CASE i <= ChainLen /\ ~(j <= ChainLen)
      BY <1>27, <1>28, <1>29, <2>2, <3>3, ZenonT(60)
    <3>4. CASE ~(i <= ChainLen) /\ j <= ChainLen
      BY <1>27, <1>28, <1>29, <2>2, <3>4, ZenonT(60)
    <3> QED
      BY <3>1, <3>2, <3>3, <3>4
  <2>3. IF free' = 0 THEN free_head' = NIL ELSE free_head' = G[1]
    <3>1. free' # 0 /\ 1 \in 1..free' /\ 1 <= ChainLen /\ (ChainLen + 1) - 1 = ChainLen
      BY <1>3, <1>5, <1>19, SMT
    <3> QED
      BY <1>19, <1>27, <3>1
  <2>4. ASSUME NEW i \in 1..free'
        PROVE  IF i = free' THEN next'[G[i]] = NIL ELSE next'[G[i]] = G[i + 1]
    <3>1. CASE i <= ChainLen /\ i # ChainLen
      <4>1. /\ i # free' /\ i + 1 \in 1..free' /\ i + 1 <= ChainLen /\ (ChainLen + 1) - i # 1
            /\ ((ChainLen + 1) - i) - 1 = (ChainLen + 1) - (i + 1)
        BY <1>3, <1>5, <1>19, <2>4, <3>1, SMTT(40)
      <4>2. G[i] = c[(ChainLen + 1) - i] /\ (ChainLen + 1) - i \in 1..ChainLen
        BY <1>27, <2>4, <3>1
      <4>3. G[i + 1] = c[(ChainLen + 1) - (i + 1)]
        BY <1>27, <4>1
      <4>4. next'[c[(ChainLen + 1) - i]] = c[((ChainLen + 1) - i) - 1]
        BY <1>21, <4>1, <4>2
      <4> QED
        BY <4>1, <4>2, <4>3, <4>4
    <3>2. CASE i = ChainLen
      <4>1. (ChainLen + 1) - i = 1 /\ i <= ChainLen
        BY <1>5, <3>2, SMT
      <4>2. G[i] = c[1]
        BY <1>27, <2>4, <4>1
      <4>3. next'[c[1]] = free_head
        BY <1>5, <1>21
      <4>4. CASE free = 0
        <5>1. i = free'
          BY <1>5, <1>19, <3>2, <4>4, SMTT(40)
        <5> QED
          BY <1>6, <4>2, <4>3, <4>4, <5>1
      <4>5. CASE free # 0
        <5>1. i # free' /\ i + 1 \in 1..free' /\ ~(i + 1 <= ChainLen) /\ (i + 1) - ChainLen = 1
          BY <1>3, <1>5, <1>19, <3>2, <4>5, SMTT(40)
        <5>2. G[i + 1] = F[1]
          BY <1>28, <5>1
        <5> QED
          BY <1>6, <4>2, <4>3, <4>5, <5>1, <5>2
      <4> QED
        BY <4>4, <4>5
    <3>3. CASE ~(i <= ChainLen)
      <4>1. G[i] = F[i - ChainLen] /\ i - ChainLen \in 1..free /\ G[i] \in Desc
        BY <1>28, <2>4, <3>3
      <4>2. \A j \in 1..ChainLen : c[j] # G[i]
        BY <1>29, <4>1
      <4>3. next'[G[i]] = next[F[i - ChainLen]]
        BY <1>22, <4>1, <4>2
      <4>4. CASE i = free'
        <5>1. i - ChainLen = free
          BY <1>3, <1>5, <1>19, <4>4, SMTT(40)
        <5> QED
          BY <1>8, <4>1, <4>3, <4>4, <5>1
      <4>5. CASE i # free'
        <5>1. /\ i - ChainLen # free /\ i + 1 \in 1..free' /\ ~(i + 1 <= ChainLen)
              /\ (i - ChainLen) + 1 = (i + 1) - ChainLen
          BY <1>3, <1>5, <1>19, <2>4, <3>3, <4>5, SMTT(40)
        <5>2. G[i + 1] = F[(i + 1) - ChainLen]
          BY <1>28, <5>1
        <5>3. next[F[i - ChainLen]] = F[(i - ChainLen) + 1]
          BY <1>8, <4>1, <5>1
        <5> QED
          BY <4>3, <4>5, <5>1, <5>2, <5>3
      <4> QED
        BY <4>4, <4>5
    <3> QED
      BY <3>1, <3>2, <3>3
  <2> QED
    BY <2>1, <2>2, <2>3, <2>4 DEF FreeIs
<1>31. ASSUME NEW g \in Owned'
       PROVE  g \in Owned /\ g # h /\ D[g] = C[g]
  BY <1>24, <1>26, <1>31
<1>32. ChainsAre(D)'
  <2>1. D \in [Owned' -> [1..ChainLen -> Desc]]
    BY <1>9, <1>26, <1>31
  <2>2. ASSUME NEW g \in Owned', NEW i \in 1..ChainLen
        PROVE  /\ i # ChainLen => next'[D[g][i]] = D[g][i + 1]
               /\ more'[D[g][i]] = (i # ChainLen)
    <3>1. g \in Owned /\ g # h /\ D[g] = C[g]
      BY <1>31, <2>2
    <3>2. C[g][i] \in Desc
      BY <1>9, <2>2, <3>1
    <3>3. \A j \in 1..ChainLen : c[j] # C[g][i]
      BY <1>4, <1>13, <1>15, <2>2, <3>1, SMTT(40)
    <3>4. next'[C[g][i]] = next[C[g][i]] /\ more'[C[g][i]] = more[C[g][i]]
      BY <1>22, <3>2, <3>3
    <3>5. more[C[g][i]] = (i # ChainLen)
      BY <1>12, <2>2, <3>1
    <3>6. i # ChainLen => next[C[g][i]] = C[g][i + 1]
      BY <1>11, <2>2, <3>1
    <3> QED
      BY <3>1, <3>4, <3>5, <3>6
  <2>3. ASSUME NEW f \in Owned', NEW g \in Owned', NEW i \in 1..ChainLen, NEW j \in 1..ChainLen,
               D[f][i] = D[g][j]
        PROVE  f = g /\ i = j
    <3>1. f \in Owned /\ g \in Owned /\ C[f][i] = C[g][j]
      BY <1>31, <2>3
    <3> QED
      BY <1>13, <3>1, SMT
  <2>4. \A g \in Owned' : D[g][1] = g
    BY <1>10, <1>31
  <2> QED
    BY <2>1, <2>2, <2>3, <2>4 DEF ChainsAre, ChainsOf
<1>33. Apart(G, D)'
  <2>1. ASSUME NEW i \in 1..free', NEW g \in Owned', NEW j \in 1..ChainLen
        PROVE  G[i] # D[g][j]
    <3>1. g \in Owned /\ g # h /\ D[g] = C[g]
      BY <1>31, <2>1
    <3>2. CASE i <= ChainLen
      <4>1. PICK k \in 1..ChainLen : G[i] = C[h][k]
        BY <1>15, <1>27, <2>1, <3>2
      <4>2. C[h][k] # C[g][j]
        BY <1>4, <1>13, <3>1, SMT
      <4> QED
        BY <3>1, <4>1, <4>2
    <3>3. CASE ~(i <= ChainLen)
      <4>1. G[i] = F[i - ChainLen] /\ i - ChainLen \in 1..free
        BY <1>28, <2>1, <3>3
      <4> QED
        BY <1>14, <2>1, <3>1, <4>1
    <3> QED
      BY <3>2, <3>3
  <2> QED
    BY <2>1 DEF Apart
<1>34. PICK k : Cardinality(Owned) = k + 1 /\ k \in Nat /\ Cardinality(Owned') = k
  <2>1. Owned \in SUBSET Desc
    BY <1>3 DEF Owned, Published
  <2>2. IsFiniteSet(Owned) /\ Cardinality(Owned) \in Nat
    BY <2>1, DescCount
  <2>3. Cardinality(Owned') = Cardinality(Owned) - 1 /\ IsFiniteSet(Owned')
    BY <1>4, <1>24, <2>2, FS_RemoveElement
  <2>4. Cardinality(Owned') \in Nat
    BY <2>3, FS_CardinalityType
  <2>5. PICK x, y : x = Cardinality(Owned) /\ y = Cardinality(Owned')
    OBVIOUS
  <2>6. x = y + 1
    BY <2>2, <2>3, <2>4, <2>5, SMTT(40)
  <2> QED
    BY <2>4, <2>5, <2>6
<1>35. PICK m : m = ChainLen * k /\ m \in Nat /\ ChainLen * (k + 1) = m + ChainLen
  <2>1. ChainLen * k \in Nat /\ ChainLen * (k + 1) = ChainLen * k + ChainLen
    BY <1>5, <1>34, SMT
  <2> QED
    BY <2>1
<1>36. free' + ChainLen * Cardinality(Owned') = Size
  <2>1. free + (m + ChainLen) = Size
    BY <1>0, <1>34, <1>35
  <2>2. (free + ChainLen) + m = Size
    BY <1>3, <1>5, <1>35, <2>1, SMTT(40)
  <2> QED
    BY <1>19, <1>34, <1>35, <2>2
<1>37. ListInv'
  BY <1>25, <1>30, <1>32, <1>33, <1>36 DEF ListInv
<1> QED
  BY <1>2, <1>4, <1>23, <1>37

\* The lists do not see the rings.
LEMMA ListsKept ==
    ASSUME ListInv, UNCHANGED <<next, more, free_head, free>>, Owned' = Owned,
           in_flight' \in [Desc -> BOOLEAN], taken' \in SUBSET Desc, \A h \in taken' : in_flight'[h] = FALSE
    PROVE  ListInv'
<1>0. next' = next /\ more' = more /\ free_head' = free_head /\ free' = free
  OBVIOUS
<1>1. ListTypes'
  BY <1>0 DEF ListInv, ListTypes
<1>2. \A F : FreeIs(F)' <=> FreeIs(F)
  BY <1>0 DEF FreeIs
<1>3. \A C : ChainsAre(C)' <=> ChainsAre(C)
  BY <1>0 DEF ChainsAre
<1>4. \A F, C : Apart(F, C)' <=> Apart(F, C)
  BY <1>0 DEF Apart
<1>5. \E F, C : FreeIs(F)' /\ ChainsAre(C)' /\ Apart(F, C)'
  BY <1>2, <1>3, <1>4 DEF ListInv
<1>6. free' + ChainLen * Cardinality(Owned') = Size
  BY <1>0 DEF ListInv
<1> QED
  BY <1>1, <1>5, <1>6 DEF ListInv

\* A published head waits in the available ring, and nowhere else.
LEMMA SubmitFlight ==
    ASSUME QueueInv, Submit
    PROVE  FlightInv'
<1>0. ListInv /\ FlightInv
  BY DEF QueueInv
<1>1. /\ free_head \in Desc /\ free_head \notin Owned /\ Published' = Published \cup {free_head}
  BY <1>0, SubmitLists
<1>2. PICK h : h = free_head
  OBVIOUS
<1>3. /\ avail_ring' = [avail_ring EXCEPT ![avail_idx % Size] = h] /\ avail_idx' = After(avail_idx)
      /\ seen' = seen /\ fetched' = fetched /\ used_ring' = used_ring /\ used_idx' = used_idx
      /\ last_used' = last_used
  BY <1>2 DEF Submit, publish, After, deviceVars
<1>4. /\ RingInv(avail_ring, seen, avail_idx) /\ RingInv(used_ring, last_used, used_idx)
      /\ Published = Offered \cup fetched \cup Answered
      /\ Offered \cap fetched = {} /\ Offered \cap Answered = {} /\ fetched \cap Answered = {}
  BY <1>0 DEF FlightInv
<1>5. h \in Desc /\ h \notin Offered /\ h \notin fetched /\ h \notin Answered
  BY <1>1, <1>2, <1>4 DEF Owned
<1>6. Gap(seen, avail_idx) < Size
  BY <1>4, <1>5, RoomLeft DEF Offered
<1>7. PICK r : r = Written(avail_ring, avail_idx, h)
  OBVIOUS
<1>8. RingInv(r, seen, After(avail_idx)) /\ Within(r, seen, After(avail_idx)) = Offered \cup {h}
  <2>1. PICK S : S = Offered /\ S = Within(avail_ring, seen, avail_idx)
    BY DEF Offered
  <2>2. h \notin Within(avail_ring, seen, avail_idx)
    BY <1>5, <2>1
  <2>3. /\ RingInv(r, seen, After(avail_idx))
        /\ Within(r, seen, After(avail_idx)) = Within(avail_ring, seen, avail_idx) \cup {h}
    <3>1. RingInv(avail_ring, seen, avail_idx) /\ h \in Desc
      BY <1>4, <1>5
    <3> QED
      BY <1>6, <1>7, <2>2, <3>1, Push, SMT
  <2> QED
    BY <2>1, <2>3
<1>9. Offered' = Offered \cup {h} /\ RingInv(avail_ring, seen, avail_idx)'
  BY <1>3, <1>7, <1>8 DEF Offered, Written
<1>10. Answered' = Answered /\ RingInv(used_ring, last_used, used_idx)'
  BY <1>3, <1>4 DEF Answered
<1>11. Published' = Offered' \cup fetched' \cup Answered'
  BY <1>1, <1>2, <1>3, <1>4, <1>9, <1>10
<1>12. Offered' \cap fetched' = {} /\ Offered' \cap Answered' = {} /\ fetched' \cap Answered' = {}
  BY <1>3, <1>4, <1>5, <1>9, <1>10
<1> QED
  BY <1>9, <1>10, <1>11, <1>12 DEF FlightInv

\* The device fetches the oldest published head.
LEMMA FetchFlight ==
    ASSUME QueueInv, DeviceFetch
    PROVE  QueueInv'
<1>0. ListInv /\ FlightInv
  BY DEF QueueInv
<1>1. PICK h : h = avail_ring[seen % Size]
  OBVIOUS
<1>2. /\ seen # avail_idx /\ fetched' = fetched \cup {h} /\ seen' = After(seen)
      /\ UNCHANGED <<next, more, free_head, free, in_flight, avail_ring, avail_idx>>
      /\ used_ring' = used_ring /\ used_idx' = used_idx /\ last_used' = last_used /\ taken' = taken
  BY <1>1 DEF DeviceFetch, After, driverVars
<1>3. /\ RingInv(avail_ring, seen, avail_idx) /\ RingInv(used_ring, last_used, used_idx)
      /\ Published = Offered \cup fetched \cup Answered
      /\ Offered \cap fetched = {} /\ Offered \cap Answered = {} /\ fetched \cap Answered = {}
  BY <1>0 DEF FlightInv
<1>4. seen \in Idx /\ avail_idx \in Idx
  BY <1>3 DEF RingInv
<1>5. Gap(seen, avail_idx) > 0
  <2>1. Gap(seen, avail_idx) \in Idx /\ Gap(seen, avail_idx) # 0
    BY <1>2, <1>4, GapCases, GapSteps
  <2>2. PICK n : n = Gap(seen, avail_idx)
    OBVIOUS
  <2>3. n > 0
    BY <2>1, <2>2, RingAssumption, SMT DEF Idx
  <2> QED
    BY <2>2, <2>3
<1>6. /\ RingInv(avail_ring, After(seen), avail_idx) /\ h \in Offered
      /\ Within(avail_ring, After(seen), avail_idx) = Offered \ {h}
  BY <1>1, <1>3, <1>5, Pop DEF Offered
<1>7. Offered' = Offered \ {h} /\ RingInv(avail_ring, seen, avail_idx)'
  BY <1>2, <1>6 DEF Offered
<1>8. Answered' = Answered /\ RingInv(used_ring, last_used, used_idx)' /\ Published' = Published
  BY <1>2, <1>3 DEF Answered, Published
<1>9. FlightInv'
  <2>1. Published' = Offered' \cup fetched' \cup Answered'
    BY <1>2, <1>3, <1>6, <1>7, <1>8
  <2>2. Offered' \cap fetched' = {} /\ Offered' \cap Answered' = {} /\ fetched' \cap Answered' = {}
    BY <1>2, <1>3, <1>6, <1>7, <1>8
  <2> QED
    BY <1>7, <1>8, <2>1, <2>2 DEF FlightInv
<1>10. ListInv'
  <2>1. Owned' = Owned
    BY <1>2, <1>8 DEF Owned
  <2>2. in_flight' \in [Desc -> BOOLEAN] /\ taken' \in SUBSET Desc /\ \A g \in taken' : in_flight'[g] = FALSE
    BY <1>0, <1>2 DEF ListInv, ListTypes
  <2> QED
    BY <1>0, <1>2, <2>1, <2>2, ListsKept
<1> QED
  BY <1>9, <1>10 DEF QueueInv

\* The device returns a head it has fetched.
LEMMA ReturnFlight ==
    ASSUME QueueInv, NEW h, DeviceReturn(h)
    PROVE  QueueInv'
<1>0. ListInv /\ FlightInv
  BY DEF QueueInv
<1>1. /\ h \in fetched /\ fetched' = fetched \ {h}
      /\ used_ring' = [used_ring EXCEPT ![used_idx % Size] = h] /\ used_idx' = After(used_idx)
      /\ UNCHANGED <<next, more, free_head, free, in_flight, avail_ring, avail_idx>>
      /\ seen' = seen /\ last_used' = last_used /\ taken' = taken
  BY DEF DeviceReturn, After, driverVars
<1>2. /\ RingInv(avail_ring, seen, avail_idx) /\ RingInv(used_ring, last_used, used_idx)
      /\ Published = Offered \cup fetched \cup Answered
      /\ Offered \cap fetched = {} /\ Offered \cap Answered = {} /\ fetched \cap Answered = {}
  BY <1>0 DEF FlightInv
<1>3. h \in Desc /\ h \notin Answered /\ h \notin Offered
  <2>1. h \in Published
    BY <1>1, <1>2
  <2> QED
    BY <1>1, <1>2, <2>1 DEF Published
<1>4. Gap(last_used, used_idx) < Size
  BY <1>2, <1>3, RoomLeft DEF Answered
<1>5. PICK r : r = Written(used_ring, used_idx, h)
  OBVIOUS
<1>6. RingInv(r, last_used, After(used_idx)) /\ Within(r, last_used, After(used_idx)) = Answered \cup {h}
  <2>1. PICK S : S = Answered /\ S = Within(used_ring, last_used, used_idx)
    BY DEF Answered
  <2>2. h \notin Within(used_ring, last_used, used_idx)
    BY <1>3, <2>1
  <2>3. /\ RingInv(r, last_used, After(used_idx))
        /\ Within(r, last_used, After(used_idx)) = Within(used_ring, last_used, used_idx) \cup {h}
    <3>1. RingInv(used_ring, last_used, used_idx) /\ h \in Desc
      BY <1>2, <1>3
    <3> QED
      BY <1>4, <1>5, <2>2, <3>1, Push, SMT
  <2> QED
    BY <2>1, <2>3
<1>7. Answered' = Answered \cup {h} /\ RingInv(used_ring, last_used, used_idx)'
  BY <1>1, <1>5, <1>6 DEF Answered, Written
<1>8. Offered' = Offered /\ RingInv(avail_ring, seen, avail_idx)' /\ Published' = Published
  BY <1>1, <1>2 DEF Offered, Published
<1>9. FlightInv'
  <2>1. Published' = Offered' \cup fetched' \cup Answered'
    BY <1>1, <1>2, <1>7, <1>8
  <2>2. Offered' \cap fetched' = {} /\ Offered' \cap Answered' = {} /\ fetched' \cap Answered' = {}
    BY <1>1, <1>2, <1>3, <1>7, <1>8
  <2> QED
    BY <1>7, <1>8, <2>1, <2>2 DEF FlightInv
<1>10. ListInv'
  <2>1. Owned' = Owned
    BY <1>1, <1>8 DEF Owned
  <2>2. in_flight' \in [Desc -> BOOLEAN] /\ taken' \in SUBSET Desc /\ \A g \in taken' : in_flight'[g] = FALSE
    BY <1>0, <1>1 DEF ListInv, ListTypes
  <2> QED
    BY <1>0, <1>1, <2>1, <2>2, ListsKept
<1> QED
  BY <1>9, <1>10 DEF QueueInv

\* take_used hands the oldest returned head to the driver.
LEMMA TakeFlight ==
    ASSUME QueueInv, TakeUsed
    PROVE  QueueInv' /\ \E h \in Published : Published' = Published \ {h} /\ taken' = taken \cup {h}
<1>0. ListInv /\ FlightInv
  BY DEF QueueInv
<1>1. PICK h : h = used_ring[last_used % Size]
  OBVIOUS
<1>2. /\ Gap(last_used, used_idx) > 0 /\ in_flight' = [in_flight EXCEPT ![h] = FALSE]
      /\ taken' = taken \cup {h} /\ last_used' = After(last_used)
      /\ UNCHANGED <<next, more, free_head, free, avail_ring, avail_idx>>
      /\ seen' = seen /\ fetched' = fetched /\ used_ring' = used_ring /\ used_idx' = used_idx
  BY <1>1 DEF TakeUsed, Ahead, After, Gap, deviceVars
<1>3. /\ RingInv(avail_ring, seen, avail_idx) /\ RingInv(used_ring, last_used, used_idx)
      /\ Published = Offered \cup fetched \cup Answered
      /\ Offered \cap fetched = {} /\ Offered \cap Answered = {} /\ fetched \cap Answered = {}
  BY <1>0 DEF FlightInv
<1>4. /\ RingInv(used_ring, After(last_used), used_idx) /\ h \in Answered
      /\ Within(used_ring, After(last_used), used_idx) = Answered \ {h}
  BY <1>1, <1>2, <1>3, Pop DEF Answered
<1>5. Answered' = Answered \ {h} /\ RingInv(used_ring, last_used, used_idx)'
  BY <1>2, <1>4 DEF Answered
<1>6. Offered' = Offered /\ RingInv(avail_ring, seen, avail_idx)'
  BY <1>2, <1>3 DEF Offered
<1>7. /\ in_flight \in [Desc -> BOOLEAN] /\ taken \in SUBSET Desc /\ \A g \in taken : in_flight[g] = FALSE
  BY <1>0 DEF ListInv, ListTypes
<1>8. h \in Published /\ h \in Desc
  BY <1>3, <1>4 DEF Published
<1>9. Published' = Published \ {h}
  <2>1. \A d \in Desc : in_flight'[d] <=> (in_flight[d] /\ d # h)
    BY <1>2, <1>7, <1>8
  <2> QED
    BY <2>1 DEF Published
<1>10. FlightInv'
  <2>1. Published' = Offered' \cup fetched' \cup Answered'
    BY <1>2, <1>3, <1>4, <1>5, <1>6, <1>9
  <2>2. Offered' \cap fetched' = {} /\ Offered' \cap Answered' = {} /\ fetched' \cap Answered' = {}
    BY <1>2, <1>3, <1>5, <1>6
  <2> QED
    BY <1>5, <1>6, <2>1, <2>2 DEF FlightInv
<1>11. ListInv'
  <2>1. Owned' = Owned
    BY <1>2, <1>8, <1>9 DEF Owned
  <2>2. in_flight' \in [Desc -> BOOLEAN] /\ taken' \in SUBSET Desc
    BY <1>2, <1>7, <1>8
  <2>3. \A g \in taken' : in_flight'[g] = FALSE
    BY <1>2, <1>7, <1>8
  <2> QED
    BY <1>0, <1>2, <2>1, <2>2, <2>3, ListsKept
<1> QED
  BY <1>2, <1>8, <1>9, <1>10, <1>11 DEF QueueInv

\* free_chain touches neither ring.
LEMMA FreeFlight ==
    ASSUME QueueInv, NEW h, Free(h)
    PROVE  QueueInv'
<1>0. ListInv /\ FlightInv
  BY DEF QueueInv
<1>1. ListInv' /\ Published' = Published
  BY <1>0, FreeLists
<1>2. /\ avail_ring' = avail_ring /\ avail_idx' = avail_idx /\ seen' = seen /\ fetched' = fetched
      /\ used_ring' = used_ring /\ used_idx' = used_idx /\ last_used' = last_used
  BY DEF Free, deviceVars
<1>3. FlightInv'
  BY <1>0, <1>1, <1>2 DEF FlightInv, Offered, Answered
<1> QED
  BY <1>1, <1>3 DEF QueueInv

\* A step that changes nothing.
LEMMA QueueStutters ==
    ASSUME QueueInv, UNCHANGED vars
    PROVE  QueueInv' /\ Published' = Published /\ taken' = taken
<1>0. ListInv /\ FlightInv
  BY DEF QueueInv
<1>1. /\ UNCHANGED <<next, more, free_head, free, in_flight, avail_ring, avail_idx>>
      /\ seen' = seen /\ fetched' = fetched
      /\ used_ring' = used_ring /\ used_idx' = used_idx /\ last_used' = last_used /\ taken' = taken
  BY DEF vars, driverVars, deviceVars
<1>2. Published' = Published /\ Owned' = Owned /\ Offered' = Offered /\ Answered' = Answered
  BY <1>1 DEF Published, Owned, Offered, Answered
<1>3. FlightInv'
  BY <1>0, <1>1, <1>2 DEF FlightInv
<1>4. in_flight' \in [Desc -> BOOLEAN] /\ taken' \in SUBSET Desc /\ \A g \in taken' : in_flight'[g] = FALSE
  BY <1>0, <1>1 DEF ListInv, ListTypes
<1>5. ListInv'
  BY <1>0, <1>1, <1>2, <1>4, ListsKept
<1> QED
  BY <1>1, <1>2, <1>3, <1>5 DEF QueueInv

\* Every step keeps the invariant.
LEMMA QueueStep ==
    ASSUME QueueInv, [Next]_vars
    PROVE  QueueInv'
<1>1. CASE Submit
  <2>1. ListInv
    BY DEF QueueInv
  <2> QED
    BY <1>1, <2>1, SubmitLists, SubmitFlight DEF QueueInv
<1>2. CASE DeviceFetch
  BY <1>2, FetchFlight
<1>3. CASE TakeUsed
  BY <1>3, TakeFlight
<1>4. ASSUME NEW h \in Desc, Free(h) \/ DeviceReturn(h)
      PROVE  QueueInv'
  BY <1>4, FreeFlight, ReturnFlight
<1>5. CASE UNCHANGED vars
  BY <1>5, QueueStutters
<1> QED
  BY <1>1, <1>2, <1>3, <1>4, <1>5 DEF Next

\* A ring nothing was written to holds nothing.
LEMMA EmptyRing ==
    ASSUME NEW ring \in [Desc -> Desc]
    PROVE  RingInv(ring, 0, 0) /\ Within(ring, 0, 0) = {}
<1>1. 0 \in Idx /\ Size \in Nat
  BY RingAssumption, SMT DEF Idx
<1>2. PICK n : n = Gap(0, 0)
  OBVIOUS
<1>3. n = 0
  BY <1>1, <1>2, GapSteps
<1>4. n <= Size /\ \A i \in 0..(n - 1) : FALSE
  BY <1>1, <1>3, SMT
<1> QED
  BY <1>1, <1>2, <1>4 DEF RingInv, Within, Entries

\* SplitQueue::new links every descriptor into the free list.
LEMMA QueueStart ==
    ASSUME Init
    PROVE  QueueInv /\ Published = {} /\ taken = {}
<1>1. /\ next = [d \in Desc |-> d + 1] /\ more = [d \in Desc |-> FALSE]
      /\ free_head = 0 /\ free = Size /\ in_flight = [d \in Desc |-> FALSE]
      /\ avail_ring = [i \in Desc |-> 0] /\ avail_idx = 0
      /\ used_ring = [i \in Desc |-> 0] /\ used_idx = 0
      /\ seen = 0 /\ fetched = {} /\ last_used = 0 /\ taken = {}
  BY DEF Init
<1>2. Size \in Nat /\ Size # 0 /\ ChainLen \in Nat /\ 0 \in Desc /\ 1 \in 1..Size
  BY RingAssumption, SMT DEF Desc
<1>3. Published = {} /\ Owned = {}
  BY <1>1 DEF Published, Owned
<1>4. FlightInv
  <2>1. avail_ring \in [Desc -> Desc] /\ used_ring \in [Desc -> Desc]
    BY <1>1, <1>2
  <2>2. /\ RingInv(avail_ring, 0, 0) /\ Within(avail_ring, 0, 0) = {}
        /\ RingInv(used_ring, 0, 0) /\ Within(used_ring, 0, 0) = {}
    BY <2>1, EmptyRing
  <2> QED
    BY <1>1, <1>3, <2>2 DEF FlightInv, Offered, Answered
<1>5. ListTypes
  <2>1. \A d \in Desc : d + 1 \in 0..Size
    BY <1>2, SMT DEF Desc
  <2>2. next \in [Desc -> 0..Size]
    BY <1>1, <2>1
  <2> QED
    BY <1>1, <1>2, <2>2 DEF ListTypes
<1>6. PICK F : F = [i \in 1..Size |-> i - 1]
  OBVIOUS
<1>7. \A i \in 1..Size : F[i] = i - 1 /\ F[i] \in Desc
  <2>1. \A i \in 1..Size : i - 1 \in Desc
    BY <1>2, SMT DEF Desc
  <2> QED
    BY <1>6, <2>1
<1>8. FreeIs(F)
  <2>1. F \in [1..Size -> Desc]
    BY <1>6, <1>7
  <2>2. ASSUME NEW i \in 1..Size, NEW j \in 1..Size, F[i] = F[j]
        PROVE  i = j
    <3>1. i - 1 = j - 1
      BY <1>7, <2>2
    <3> QED
      BY <1>2, <2>2, <3>1, SMT
  <2>3. ASSUME NEW i \in 1..Size
        PROVE  IF i = Size THEN next[F[i]] = NIL ELSE next[F[i]] = F[i + 1]
    <3>1. next[F[i]] = (i - 1) + 1
      BY <1>1, <1>7, <2>3
    <3>2. (i - 1) + 1 = i /\ (i # Size => i + 1 \in 1..Size /\ (i + 1) - 1 = i)
      BY <1>2, <2>3, SMT
    <3> QED
      BY <1>7, <2>3, <3>1, <3>2 DEF NIL
  <2>4. F[1] = 0
    <3>1. 1 - 1 = 0
      BY SMT
    <3> QED
      BY <1>2, <1>7, <3>1
  <2> QED
    BY <1>1, <1>2, <2>1, <2>2, <2>3, <2>4 DEF FreeIs
<1>9. \E C : ChainsAre(C) /\ Apart(F, C)
  <2>1. PICK C : C = [h \in {} |-> [i \in 1..ChainLen |-> 0]]
    OBVIOUS
  <2>2. C \in [{} -> [1..ChainLen -> Desc]]
    BY <2>1
  <2> QED
    BY <1>3, <2>2 DEF ChainsAre, ChainsOf, Apart
<1>10. free + ChainLen * Cardinality(Owned) = Size
  <2>1. Cardinality(Owned) = 0
    BY <1>3, FS_EmptySet
  <2>2. Size + ChainLen * 0 = Size
    BY <1>2, SMT
  <2> QED
    BY <1>1, <2>1, <2>2
<1>11. ListInv
  BY <1>5, <1>8, <1>9, <1>10 DEF ListInv
<1> QED
  BY <1>1, <1>3, <1>4, <1>11 DEF QueueInv

\* What the lists say of the descriptors.
LEMMA Partitioned ==
    ASSUME ListInv
    PROVE  DescriptorsPartitioned
<1>0. free \in Nat /\ free + ChainLen * Cardinality(Owned) = Size /\ ChainLen \in Nat
  <2>1. ChainLen \in Nat
    BY RingAssumption, SMT
  <2> QED
    BY <2>1 DEF ListInv, ListTypes
<1>1. PICK F, C : FreeIs(F) /\ ChainsAre(C) /\ Apart(F, C)
  BY DEF ListInv
<1>2. F \in [1..free -> Desc] /\ IF free = 0 THEN free_head = NIL ELSE free_head = F[1]
  BY <1>1 DEF FreeIs
<1>3. \A i, j \in 1..free : F[i] = F[j] => i = j
  BY <1>1 DEF FreeIs
<1>4. \A i \in 1..free : IF i = free THEN next[F[i]] = NIL ELSE next[F[i]] = F[i + 1]
  BY <1>1 DEF FreeIs
<1>5. PICK at : at = ListFrom(free_head, free)
  OBVIOUS
<1>6. \A i \in 1..free : at[i] = F[i]
  <2>1. \A i \in 1..free : i # 1 => F[i] = next[F[i - 1]]
    <3>1. SUFFICES ASSUME NEW i \in 1..free, i # 1
                   PROVE  F[i] = next[F[i - 1]]
      OBVIOUS
    <3>2. i - 1 \in 1..free /\ i - 1 # free /\ (i - 1) + 1 = i
      BY <1>0, <3>1, SMT
    <3> QED
      BY <1>4, <3>2
  <2>2. free # 0 => F[1] = free_head
    BY <1>2
  <2>3. free \in 0..free
    BY <1>0, SMT
  <2> QED
    BY <1>0, <1>5, <2>1, <2>2, <2>3, ListAgrees, SMTT(40)
<1>7. FreeList = {F[i] : i \in 1..free}
  BY <1>5, <1>6 DEF FreeList
<1>8. Cardinality(FreeList) = free
  <2>1. FreeList = Visited(free, F)
    BY <1>7 DEF Visited
  <2> QED
    BY <1>0, <1>2, <1>3, <2>1, DistinctCount
<1>9. FreeList \subseteq Desc
  BY <1>2, <1>7
<1>10. (IF free = 0 THEN free_head ELSE next[ListFrom(free_head, free)[free]]) = NIL
  <2>1. free # 0 => free \in 1..free
    BY <1>0, SMT
  <2> QED
    BY <1>2, <1>4, <1>5, <1>6, <2>1
<1>11. ASSUME NEW h \in Owned
       PROVE  /\ C[h] \in [1..ChainLen -> Desc] /\ DescsOf(h) = {C[h][i] : i \in 1..ChainLen}
              /\ Cardinality(DescsOf(h)) = ChainLen
  <2>1. PICK c : c = C[h]
    OBVIOUS
  <2>2. c \in [1..ChainLen -> Desc]
    <3>1. C \in [Owned -> [1..ChainLen -> Desc]]
      BY <1>1 DEF ChainsAre, ChainsOf
    <3> QED
      BY <1>11, <2>1, <3>1
  <2>3. ChainShape(h, c)
    <3>1. /\ C[h][1] = h
          /\ \A i \in 1..ChainLen : i # ChainLen => next[C[h][i]] = C[h][i + 1]
          /\ \A i \in 1..ChainLen : more[C[h][i]] = (i # ChainLen)
      BY <1>1, <1>11 DEF ChainsAre, ChainsOf
    <3> QED
      BY <2>1, <3>1 DEF ChainShape
  <2>4. ChainSize(h) = ChainLen /\ \A i \in 1..ChainLen : ListFrom(h, ChainLen)[i] = c[i]
    BY <2>3, ChainFound
  <2>5. DescsOf(h) = Visited(ChainLen, ListFrom(h, ChainLen))
    <3>1. DescsOf(h) = Visited(ChainSize(h), ListFrom(h, ChainSize(h)))
      BY DEF DescsOf, Visited
    <3> QED
      BY <2>4, <3>1
  <2>6. DescsOf(h) = {c[i] : i \in 1..ChainLen}
    <3>1. PICK l : l = ListFrom(h, ChainLen)
      OBVIOUS
    <3>2. \A i \in 1..ChainLen : l[i] = c[i]
      BY <2>4, <3>1
    <3> QED
      BY <2>5, <3>1, <3>2 DEF Visited
  <2>7. \A i, j \in 1..ChainLen : c[i] = c[j] => i = j
    <3>0. \A f, e \in Owned : \A i, j \in 1..ChainLen : C[f][i] = C[e][j] => f = e /\ i = j
      BY <1>1 DEF ChainsAre, ChainsOf
    <3>1. \A i, j \in 1..ChainLen : C[h][i] = C[h][j] => i = j
      BY <1>11, <3>0, SMTT(40)
    <3> QED
      BY <2>1, <3>1
  <2>8. Cardinality(DescsOf(h)) = ChainLen
    <3>1. DescsOf(h) = Visited(ChainLen, c)
      BY <2>6 DEF Visited
    <3> QED
      BY <1>0, <2>2, <2>7, <3>1, DistinctCount
  <2> QED
    BY <2>1, <2>2, <2>6, <2>8
<1>12. ASSUME NEW h \in Owned
       PROVE  DescsOf(h) \cap FreeList = {}
  <2>1. \A i \in 1..free : \A j \in 1..ChainLen : F[i] # C[h][j]
    BY <1>1, <1>12 DEF Apart
  <2>2. DescsOf(h) = {C[h][i] : i \in 1..ChainLen}
    BY <1>11, <1>12
  <2> QED
    BY <1>7, <2>1, <2>2
<1>13. ASSUME NEW g \in Owned, NEW h \in Owned, g # h
       PROVE  DescsOf(g) \cap DescsOf(h) = {}
  <2>1. \A i, j \in 1..ChainLen : C[g][i] # C[h][j]
    <3>1. \A f, e \in Owned : \A i, j \in 1..ChainLen : C[f][i] = C[e][j] => f = e /\ i = j
      BY <1>1 DEF ChainsAre, ChainsOf
    <3> QED
      BY <1>13, <3>1, SMT
  <2>2. DescsOf(g) = {C[g][i] : i \in 1..ChainLen} /\ DescsOf(h) = {C[h][i] : i \in 1..ChainLen}
    BY <1>11, <1>13
  <2> QED
    BY <2>1, <2>2
<1> QED
  BY <1>0, <1>8, <1>9, <1>10, <1>11, <1>12, <1>13 DEF DescriptorsPartitioned

\* A ring's entries are as many as its indices are apart.
LEMMA WithinCount ==
    ASSUME NEW ring, NEW from, NEW to, RingInv(ring, from, to)
    PROVE  Cardinality(Within(ring, from, to)) = Gap(from, to)
<1>0. ring \in [Desc -> Desc] /\ from \in Idx /\ to \in Idx
  BY DEF RingInv
<1>1. PICK n : n = Gap(from, to)
  OBVIOUS
<1>2. n \in Nat
  <2>1. n \in Idx
    BY <1>0, <1>1, GapCases
  <2> QED
    BY <2>1, RingAssumption, SMT DEF Idx
<1>3. PICK T, f : T = Within(ring, from, to) /\ f = [i \in 1..n |-> Entry(ring, from, i - 1)]
  OBVIOUS
<1>4. ASSUME NEW i \in 1..n
      PROVE  f[i] = Entry(ring, from, i - 1) /\ i - 1 \in 0..(n - 1)
  <2>1. i - 1 \in 0..(n - 1)
    BY <1>2, <1>4, SMT
  <2> QED
    BY <1>3, <1>4, <2>1
<1>5. ASSUME NEW j \in 0..(n - 1)
      PROVE  \E i \in 1..n : f[i] = Entry(ring, from, j)
  <2>1. j + 1 \in 1..n /\ (j + 1) - 1 = j
    BY <1>2, <1>5, SMT
  <2> QED
    BY <1>4, <2>1
<1>6. T = {Entry(ring, from, j) : j \in 0..(n - 1)}
  BY <1>1, <1>3 DEF Within, Entries
<1>7. T = {f[i] : i \in 1..n}
  BY <1>4, <1>5, <1>6
<1>8. f \in [1..n -> T]
  <2>1. \A i \in 1..n : Entry(ring, from, i - 1) \in T
    BY <1>4, <1>6
  <2> QED
    BY <1>3, <2>1
<1>9. ASSUME NEW i \in 1..n, NEW j \in 1..n, f[i] = f[j]
      PROVE  i = j
  <2>1. i - 1 = j - 1
    BY <1>1, <1>4, <1>9 DEF RingInv
  <2> QED
    BY <1>2, <1>9, <2>1, SMT
<1>10. Cardinality(T) = n
  <2>1. T = Visited(n, f)
    BY <1>7 DEF Visited
  <2> QED
    BY <1>2, <1>8, <1>9, <2>1, DistinctCount
<1> QED
  BY <1>1, <1>3, <1>10

\* What the rings say of the published heads.
LEMMA Outstanding ==
    ASSUME FlightInv
    PROVE  InFlightIsOutstanding
<1>1. /\ RingInv(avail_ring, seen, avail_idx) /\ RingInv(used_ring, last_used, used_idx)
      /\ Published = Offered \cup fetched \cup Answered
      /\ Offered \cap fetched = {} /\ Offered \cap Answered = {} /\ fetched \cap Answered = {}
  BY DEF FlightInv
<1>2. seen \in Idx /\ avail_idx \in Idx /\ last_used \in Idx /\ used_idx \in Idx
  BY <1>1 DEF RingInv
<1>3. Unread(avail_ring, seen, avail_idx) = Offered /\ Unread(used_ring, last_used, used_idx) = Answered
  BY <1>2, UnreadIs DEF Offered, Answered
<1>4. Ahead = Gap(last_used, used_idx)
  BY DEF Ahead, Gap
<1>5. Ahead = Cardinality(Answered) /\ Ahead <= Size
  <2>1. Cardinality(Answered) = Gap(last_used, used_idx)
    BY <1>1, WithinCount DEF Answered
  <2>2. Gap(last_used, used_idx) <= Size
    BY <1>1 DEF RingInv
  <2> QED
    BY <1>4, <2>1, <2>2
<1> QED
  BY <1>1, <1>3, <1>5 DEF InFlightIsOutstanding

\* The free list and the chains partition the descriptors, and in_flight marks exactly the
\* heads waiting in a ring or with the device: for every queue size, chain length and index
\* range, in whatever order the device answers and the driver frees.
THEOREM RingHolds == Spec => []RingIntact
<1>1. Init => QueueInv
  BY QueueStart, SMT
<1>2. QueueInv /\ [Next]_vars => QueueInv'
  BY QueueStep, SMT
<1>3. QueueInv => RingIntact
  BY Partitioned, Outstanding DEF QueueInv, RingIntact
<1> QED
  BY <1>1, <1>2, <1>3, PTL DEF Spec

\* Every step of the queue is a step of the pool of chains or leaves it alone.
LEMMA PoolStep ==
    ASSUME QueueInv, [Next]_vars
    PROVE  [Pool!Next]_(Pool!vars)
<1>0. ListInv
  BY DEF QueueInv
<1>1. CASE Submit
  <2>1. /\ taken' = taken /\ free_head \in Desc /\ free_head \notin Owned
        /\ Published' = Published \cup {free_head} /\ Cardinality(Owned) < Size \div ChainLen
    BY <1>0, <1>1, SubmitLists
  <2>2. Pool!Submit(free_head)
    <3>1. Owned = Published \cup taken
      BY DEF Owned
    <3>2. Pool!Cardinality(Owned) = Cardinality(Owned)
      BY DEF Cardinality, Pool!Cardinality
    <3> QED
      BY <2>1, <3>1, <3>2 DEF Pool!Submit
  <2> QED
    BY <2>1, <2>2 DEF Pool!Next
<1>2. CASE DeviceFetch
  <2>1. Published' = Published /\ taken' = taken
    BY <1>2 DEF DeviceFetch, driverVars, Published
  <2> QED
    BY <2>1 DEF Pool!vars
<1>3. CASE TakeUsed
  <2>1. PICK h \in Published : Published' = Published \ {h} /\ taken' = taken \cup {h}
    BY <1>3, TakeFlight
  <2>2. Pool!Take(h) /\ h \in Desc
    BY <2>1 DEF Pool!Take, Published
  <2> QED
    BY <2>2 DEF Pool!Next
<1>4. ASSUME NEW h \in Desc, Free(h)
      PROVE  [Pool!Next]_(Pool!vars)
  <2>1. h \in taken /\ taken' = taken \ {h} /\ Published' = Published
    BY <1>0, <1>4, FreeLists
  <2>2. Pool!Free(h)
    BY <2>1 DEF Pool!Free
  <2> QED
    BY <1>4, <2>2 DEF Pool!Next
<1>5. ASSUME NEW h \in Desc, DeviceReturn(h)
      PROVE  [Pool!Next]_(Pool!vars)
  <2>1. Published' = Published /\ taken' = taken
    BY <1>5 DEF DeviceReturn, driverVars, Published
  <2> QED
    BY <2>1 DEF Pool!vars
<1>6. CASE UNCHANGED vars
  <2>1. Published' = Published /\ taken' = taken
    BY <1>6, QueueStutters
  <2> QED
    BY <2>1 DEF Pool!vars
<1> QED
  BY <1>1, <1>2, <1>3, <1>4, <1>5, <1>6 DEF Next

\* The linked descriptors and the wrapping rings implement the pool of chains block.rs
\* sees: alloc_chain and publish submit a head nobody holds while a chain is left, take_used
\* returns an outstanding head, free_chain makes it available again.
THEOREM RingImplements == Spec => RingIsPool
<1>1. Init => QueueInv /\ Pool!Init
  <2>1. Init => Pool!Init
    BY QueueStart DEF Pool!Init
  <2> QED
    BY <2>1, QueueStart
<1>2. QueueInv /\ [Next]_vars => QueueInv' /\ [Pool!Next]_(Pool!vars)
  BY QueueStep, PoolStep
<1> QED
  BY <1>1, <1>2, PTL DEF Spec, RingIsPool, Pool!Spec
=============================================================================
