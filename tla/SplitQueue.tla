----------------------------- MODULE SplitQueue -----------------------------
(***************************************************************************)
(* The virtqueue of crates/qunix-virtio/src/queue.rs at the level of its   *)
(* memory: descriptors linked through `next`, the free list threaded       *)
(* through the same field, two rings of QUEUE_SIZE entries indexed by      *)
(* wrapping u16 counters.  Its user, kernel/src/block.rs, allocates and    *)
(* publishes in one critical section and frees a chain only after taking   *)
(* it back.  The device side is external: it fetches in order and returns  *)
(* in any order.                                                           *)
(***************************************************************************)
EXTENDS Integers, FiniteSets

CONSTANTS
    Size,      \* queue size, a power of two in the code
    ChainLen,  \* descriptors per request
    IdxMod     \* ring indices are u16: stands for 2^16

\* What the queue's creator guarantees of its dimensions.
ASSUME RingAssumption ==
    /\ Size \in Nat \ {0} /\ ChainLen \in 1..Size
    /\ IdxMod \in Nat /\ IdxMod > Size /\ IdxMod % Size = 0

Desc == 0..(Size - 1)
NIL == Size

VARIABLES
    next, more,          \* Descriptor::next and its DESC_F_NEXT flag
    free_head, free,     \* the free list and its length
    in_flight,           \* published and not yet taken back
    avail_ring, avail_idx,
    seen,                \* the device's position in the available ring
    fetched,             \* heads the device is working on
    used_ring, used_idx, \* what the device returned
    last_used,           \* the driver's position in the used ring
    taken                \* heads taken back and not yet freed

driverVars == <<next, more, free_head, free, in_flight, avail_ring, avail_idx>>
deviceVars == <<seen, fetched, used_ring, used_idx>>
vars == <<driverVars, deviceVars, last_used, taken>>

\* SplitQueue::new: every descriptor free, in order.
Init ==
    /\ next = [d \in Desc |-> d + 1]
    /\ more = [d \in Desc |-> FALSE]
    /\ free_head = 0 /\ free = Size
    /\ in_flight = [d \in Desc |-> FALSE]
    /\ avail_ring = [i \in Desc |-> 0] /\ avail_idx = 0
    /\ used_ring = [i \in Desc |-> 0] /\ used_idx = 0
    /\ seen = 0 /\ fetched = {} /\ last_used = 0 /\ taken = {}

\* The i-th descriptor of the list that starts at d.
ListFrom(d, n) ==
    LET at[i \in 1..n] == IF i = 1 THEN d ELSE next[at[i - 1]] IN at

\* The descriptors free_chain visits: NEXT flags are followed, at most Size long.
ChainSize(h) ==
    LET at == ListFrom(h, Size)
    IN  CHOOSE k \in 1..Size :
            /\ k < Size => ~more[at[k]]
            /\ \A j \in 1..(k - 1) : more[at[j]]

-----------------------------------------------------------------------------
\* Mutant: alloc_chain stops unlinking one descriptor early.
AllocShort ==
    LET at == ListFrom(free_head, ChainLen)
    IN  /\ free >= ChainLen
        /\ free_head' = at[ChainLen]
        /\ free' = free - ChainLen
        /\ more' = [d \in Desc |-> IF \E i \in 1..(ChainLen - 1) : at[i] = d THEN TRUE
                                   ELSE IF d = at[ChainLen] THEN FALSE ELSE more[d]]
        /\ next' = next

\* alloc_chain(ChainLen): unlink the first descriptors and flag all but the last.
alloc_chain ==
    LET at == ListFrom(free_head, ChainLen)
        last == at[ChainLen]
    IN  /\ free >= ChainLen
        /\ free_head' = next[last]
        /\ free' = free - ChainLen
        /\ more' = [d \in Desc |-> IF \E i \in 1..(ChainLen - 1) : at[i] = d THEN TRUE
                                   ELSE IF d = last THEN FALSE ELSE more[d]]
        /\ next' = [next EXCEPT ![last] = 0]

\* publish(h): the ring slot is written at the index, which then advances.
publish(h) ==
    /\ in_flight' = [in_flight EXCEPT ![h] = TRUE]
    /\ avail_ring' = [avail_ring EXCEPT ![avail_idx % Size] = h]
    /\ avail_idx' = (avail_idx + 1) % IdxMod

Submit ==
    /\ alloc_chain
    /\ publish(free_head)
    /\ UNCHANGED <<deviceVars, last_used, taken>>

\* free_chain(h): each descriptor of the chain is pushed on the free list.
free_chain(h) ==
    LET k == ChainSize(h)
        at == ListFrom(h, k)
        pos(d) == CHOOSE i \in 1..k : at[i] = d
        visited == {at[i] : i \in 1..k}
    IN  /\ next' = [d \in Desc |->
                      IF d \notin visited THEN next[d]
                      ELSE IF pos(d) = 1 THEN free_head ELSE at[pos(d) - 1]]
        /\ more' = [d \in Desc |-> IF d \in visited THEN FALSE ELSE more[d]]
        /\ free_head' = at[k]
        /\ free' = free + k
        /\ in_flight' = [in_flight EXCEPT ![h] = FALSE]

Free(h) ==
    /\ h \in taken
    /\ free_chain(h)
    /\ taken' = taken \ {h}
    /\ UNCHANGED <<avail_ring, avail_idx, deviceVars, last_used>>

DeviceFetch ==
    /\ seen # avail_idx
    /\ fetched' = fetched \cup {avail_ring[seen % Size]}
    /\ seen' = (seen + 1) % IdxMod
    /\ UNCHANGED <<driverVars, used_ring, used_idx, last_used, taken>>

DeviceReturn(h) ==
    /\ h \in fetched
    /\ fetched' = fetched \ {h}
    /\ used_ring' = [used_ring EXCEPT ![used_idx % Size] = h]
    /\ used_idx' = (used_idx + 1) % IdxMod
    /\ UNCHANGED <<driverVars, seen, last_used, taken>>

\* Mutant: the difference of the two counters, forgetting that they wrap.
AheadNoWrap == IF used_idx >= last_used THEN used_idx - last_used ELSE 0

\* How many entries the device has returned past last_used.
Ahead == (used_idx - last_used) % IdxMod

\* One round of handle_completion's loop: take_used at last_used.
TakeUsed ==
    LET h == used_ring[last_used % Size]
    IN
    /\ Ahead > 0 /\ Ahead <= Size
    /\ in_flight[h]
    /\ in_flight' = [in_flight EXCEPT ![h] = FALSE]
    /\ taken' = taken \cup {h}
    /\ last_used' = (last_used + 1) % IdxMod
    /\ UNCHANGED <<next, more, free_head, free, avail_ring, avail_idx, deviceVars>>

Next ==
    \/ Submit \/ DeviceFetch \/ TakeUsed
    \/ \E h \in Desc : Free(h) \/ DeviceReturn(h)

Spec == Init /\ [][Next]_vars

-----------------------------------------------------------------------------
(* Properties *)

FreeList == {ListFrom(free_head, free)[i] : i \in 1..free}
DescsOf(h) == {ListFrom(h, ChainSize(h))[i] : i \in 1..ChainSize(h)}
Published == {h \in Desc : in_flight[h]}
Owned == Published \cup taken

\* The free list has the length the counter says, ends in NIL, and shares no
\* descriptor with an allocated chain; every chain has ChainLen descriptors and
\* no descriptor is in two: alloc_chain's assertion cannot fire and nothing is
\* leaked, whatever the order of frees.
DescriptorsPartitioned ==
    /\ Cardinality(FreeList) = free /\ FreeList \subseteq Desc
    /\ (IF free = 0 THEN free_head ELSE next[ListFrom(free_head, free)[free]]) = NIL
    /\ \A h \in Owned : Cardinality(DescsOf(h)) = ChainLen /\ DescsOf(h) \cap FreeList = {}
    /\ \A g, h \in Owned : g # h => DescsOf(g) \cap DescsOf(h) = {}
    /\ free + ChainLen * Cardinality(Owned) = Size

\* The entries between two positions of a ring.
Between(ring, from, to) == {ring[(from + i) % Size] : i \in 0..((to - from - 1) % IdxMod)}
Unread(ring, from, to) == IF from = to THEN {} ELSE Between(ring, from, to)

\* A published head is in exactly one of three places: unread in the available
\* ring, with the device, unread in the used ring.  The rings lose, repeat or
\* overwrite no entry when their counters wrap, so no completion of a
\* conforming device is refused as a fault.
InFlightIsOutstanding ==
    LET offered == Unread(avail_ring, seen, avail_idx)
        answered == Unread(used_ring, last_used, used_idx)
    IN  /\ Published = offered \cup fetched \cup answered
        /\ offered \cap fetched = {} /\ offered \cap answered = {} /\ fetched \cap answered = {}
        /\ Ahead = Cardinality(answered) /\ Ahead <= Size

\* Every descriptor is on the free list or in one chain, and in_flight marks
\* exactly the published heads that take_used has not returned, through every
\* wrap of the 16-bit indices.
RingIntact == DescriptorsPartitioned /\ InFlightIsOutstanding

\* The pool of chains block.rs sees.
Pool == INSTANCE ChainPool WITH
            Head <- Desc, Chains <- Size \div ChainLen, inFlight <- Published, held <- taken

\* The linked descriptors and wrapping rings implement a pool of chains: a
\* submission takes a head nobody holds, completions return exactly the heads
\* outstanding, and a chain is available again once freed.
RingIsPool == Pool!Spec
=============================================================================
