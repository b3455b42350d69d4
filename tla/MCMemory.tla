------------------------------ MODULE MCMemory ------------------------------
(* An instance of Memory for TLC: pages of 32 bytes, 1 MiB at page 4. *)
EXTENDS Memory

Region(s, l) == [start |-> s, len |-> l, usable |-> TRUE]
PhysPages == {32 * i : i \in 0..13}
\* A plain map; unaligned and adjacent regions with a hole, more regions than the
\* table holds and an entry that overflows; and a map too small to boot from.
Maps == {<<Region(0, 352)>>,
         <<Region(16, 50), [start |-> 66, len |-> 10, usable |-> FALSE], Region(76, 114),
           Region(192, 64), Region(256, 148), Region(500, 40)>>,
         <<Region(32, 96)>>}
Ebdas == {0, 88}
SomeLayouts == {[size |-> 11, align |-> 4], [size |-> 12, align |-> 16], [size |-> 24, align |-> 8],
                [size |-> 8, align |-> 32], [size |-> 40, align |-> 8]}
=============================================================================
