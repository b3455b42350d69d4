--------------------------- MODULE MCBufferCache ----------------------------
(* Instances of BufferCache for TLC. *)
EXTENDS BufferCache, TLC

CONSTANTS t1, t2, t3, k1, k2, k3, v1, v2
TwoThreads == {t1, t2}
ThreeThreads == {t1, t2, t3}
OneKey == {k1}
TwoKeys == {k1, k2}
ThreeKeys == {k1, k2, k3}
OneVal == {v1}
Vals == {v1, v2}
\* Threads, blocks and contents are only ever compared.
Symmetry == Permutations(Thread) \cup Permutations(Key) \cup Permutations(Val)
=============================================================================
