----------------------------- MODULE BlockStore -----------------------------
(* What the buffer cache promises: one store of blocks, read and written as   *)
(* whole blocks.  A reader keeps the block it was given, unchanged, until it  *)
(* lets go; a write waits for the readers of its block.                       *)

CONSTANTS Thread, Key, Val, NoBlock
VARIABLES
    content,   \* what a read of each key returns
    held       \* the block each thread is reading, or NoBlock

vars == <<content, held>>

Init == content \in [Key -> Val] /\ held = [t \in Thread |-> NoBlock]

Read(t, b) ==
    /\ held[t] = NoBlock
    /\ held' = [held EXCEPT ![t] = [key |-> b, val |-> content[b]]]
    /\ UNCHANGED content

Release(t) ==
    /\ held[t] # NoBlock
    /\ held' = [held EXCEPT ![t] = NoBlock]
    /\ UNCHANGED content

Write(b, v) ==
    /\ \A t \in Thread : held[t] # NoBlock => held[t].key # b
    /\ content' = [content EXCEPT ![b] = v]
    /\ UNCHANGED held

Next ==
    \/ \E t \in Thread : Release(t) \/ \E b \in Key : Read(t, b)
    \/ \E b \in Key, v \in Val : Write(b, v)

Spec == Init /\ [][Next]_vars
=============================================================================
