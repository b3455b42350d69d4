--------------------------- MODULE MCBlockDriver ----------------------------
(* Instances of BlockDriver for TLC. *)
EXTENDS BlockDriver, TLC

CONSTANTS t1, t2, a, b
TwoCallers == {t1, t2}
OneChain == {a}
TwoChains == {a, b}
\* The code tells callers and chains apart only by comparing them.
Symmetry == Permutations(TwoCallers) \cup Permutations(TwoChains)
=============================================================================
