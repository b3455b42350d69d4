----------------------------- MODULE MCShootdown ----------------------------
(* An instance of Shootdown for TLC. *)
EXTENDS Shootdown

\* "u" unmaps a page with interrupts enabled, "p" prunes inside the lock, "w" only
\* waits for the lock.
SomeThreads == {"u", "p", "w"}
SomeLeaf == [u |-> "page1", p |-> "page2", w |-> "none"]
SomeTable == [u |-> "none", p |-> "table2", w |-> "none"]
SomeHolders == {"p", "w"}
=============================================================================
