------------------------------- MODULE Buddy --------------------------------
(***************************************************************************)
(* crates/qunix-mm/src/buddy.rs: the binary buddy allocator.  Its fields   *)
(* are one record b; each method is an operator from the record before to  *)
(* the record after.  Free lists are intrusive: the next, prev and tag     *)
(* words live in mem, at the start of each block.  A tag is the pair it is *)
(* computed from, so a word no allocator wrote never equals one.           *)
(***************************************************************************)
EXTENDS Integers, Sequences, FiniteSets, FiniteSetsExt

CONSTANTS
    PageSize,    \* bytes of a page
    MaxOrder,    \* MAX_ORDER
    MaxRegions,  \* MAX_REGIONS
    AddrMax,     \* largest address of the word width
    Pages        \* addresses of the physical pages that exist

ASSUME BuddyConstants ==
    /\ PageSize \in Nat \ {0} /\ MaxOrder \in Nat /\ MaxRegions \in Nat /\ AddrMax \in Nat
    /\ \A p \in Pages : p \in Nat /\ p % PageSize = 0

Order == 0..MaxOrder
NIL == -1
NoTag == <<>>

block_size(order) == PageSize * 2^order
free_tag(pa, order) == <<pa, order>>

\* Memory holds nothing the allocator wrote before the first region is added.
NewBuddy ==
    [head |-> [o \in Order |-> NIL], nonempty |-> {},
     mem |-> [p \in Pages |-> [next |-> NIL, prev |-> NIL, tag |-> NoTag]],
     regions |-> <<>>, free_bytes |-> 0, foreign_frees |-> 0,
     rejected_unlinks |-> 0, truncated_lists |-> 0,
     edge_dropped |-> 0, refused_bytes |-> 0, refused_regions |-> 0, malformed |-> 0]

dropped_bytes(b) == b.edge_dropped + b.refused_bytes + b.malformed

\* The index of the recorded region that contains pa, 0 if there is none.
region_of(b, pa) ==
    LET in == {i \in DOMAIN b.regions : b.regions[i].start <= pa /\ pa < b.regions[i].end}
    IN  IF in = {} THEN 0 ELSE Min(in)

push(b, pa, order) ==
    LET head == b.head[order]
        m == [b.mem EXCEPT ![pa] = [next |-> head, prev |-> NIL, tag |-> free_tag(pa, order)]]
    IN  [b EXCEPT !.mem = IF head = NIL THEN m ELSE [m EXCEPT ![head].prev = pa],
                  !.head[order] = pa,
                  !.nonempty = @ \cup {order}]

plausible_link(b, link, order) ==
    link = NIL \/ (link % block_size(order) = 0 /\ region_of(b, link) # 0)

free_neighbour(b, link, order) ==
    \/ link = NIL
    \/ plausible_link(b, link, order) /\ b.mem[link].tag = free_tag(link, order)

\* Clearing the tag of the block that leaves is part of pop.
pop(b, order) ==
    LET head == b.head[order]
        ok == plausible_link(b, b.mem[head].next, order)
        next == IF ok THEN b.mem[head].next ELSE NIL
        m == [b.mem EXCEPT ![head].tag = NoTag]
    IN  [b EXCEPT !.truncated_lists = IF ok THEN @ ELSE @ + 1,
                  !.head[order] = next,
                  !.nonempty = IF next = NIL THEN @ \ {order} ELSE @,
                  !.mem = IF next = NIL THEN m ELSE [m EXCEPT ![next].prev = NIL]]

\* unlink's refusal: the tag matches but a neighbour is not free at this order.
Spliceable(b, pa, order) ==
    /\ free_neighbour(b, b.mem[pa].prev, order)
    /\ free_neighbour(b, b.mem[pa].next, order)

unlink(b, pa, order) ==
    LET prev == b.mem[pa].prev
        next == b.mem[pa].next
        m1 == [b.mem EXCEPT ![pa].tag = NoTag]
        m2 == IF prev = NIL THEN m1 ELSE [m1 EXCEPT ![prev].next = next]
    IN  [b EXCEPT !.mem = IF next = NIL THEN m2 ELSE [m2 EXCEPT ![next].prev = prev],
                  !.head[order] = IF prev = NIL THEN next ELSE @,
                  !.nonempty = IF prev = NIL /\ next = NIL THEN @ \ {order} ELSE @]

\* The staircase add_region cuts [addr, end) into: at each address the largest
\* naturally aligned block that still fits.
RECURSIVE Seed(_, _, _)
Seed(b, addr, end) ==
    IF addr >= end THEN b
    ELSE LET order == Max({o \in Order : addr % block_size(o) = 0 /\ block_size(o) <= end - addr})
         IN  Seed([push(b, addr, order) EXCEPT !.free_bytes = @ + block_size(order)],
                  addr + block_size(order), end)

\* add_region: whole pages are recorded and seeded, the rest is counted as dropped.
add_region(b, start, len) ==
    LET addr == ((start + PageSize - 1) \div PageSize) * PageSize
        limit == start + len
        end == (limit \div PageSize) * PageSize
        e == [b EXCEPT !.edge_dropped = @ + (addr - start) + (limit - end)]
    IN  IF addr > AddrMax \/ limit > AddrMax \/ addr >= end
        THEN [b EXCEPT !.malformed = @ + len]
        ELSE IF Len(b.regions) = MaxRegions
        THEN [e EXCEPT !.refused_bytes = @ + (end - addr), !.refused_regions = @ + 1]
        ELSE Seed([e EXCEPT !.regions = Append(@, [start |-> addr, end |-> end])], addr, end)

\* Split a block downwards, returning the upper half of each split to its list.
RECURSIVE Split(_, _, _, _)
Split(b, pa, source, order) ==
    IF source = order THEN b
    ELSE Split(push(b, pa + block_size(source - 1), source - 1), pa, source - 1, order)

\* alloc's answer, and the allocator after it.
Usable(b, order) == {o \in b.nonempty : o >= order}
alloc_pa(b, order) == IF Usable(b, order) = {} THEN NIL ELSE b.head[Min(Usable(b, order))]
\* Mutant: the halves a split leaves over are not returned.
allocWhole(b, order) ==
    IF Usable(b, order) = {} THEN b
    ELSE [pop(b, Min(Usable(b, order))) EXCEPT !.free_bytes = @ - block_size(order)]
alloc(b, order) ==
    IF Usable(b, order) = {} THEN b
    ELSE LET source == Min(Usable(b, order))
         IN  [Split(pop(b, source), b.head[source], source, order)
                EXCEPT !.free_bytes = @ - block_size(order)]

\* The three ways free refuses a block it does not own.
Foreign(b, pa, order) ==
    LET r == region_of(b, pa)
    IN  r = 0 \/ b.regions[r].end - pa < block_size(order) \/ pa % block_size(order) # 0

\* The assertions of free: a region exists, and no block that contains pa is
\* free.  The scan ascends through the non-empty orders and stops below the region.
Containing(pa, o) == (pa \div block_size(o)) * block_size(o)
free_panics(b, pa, order) ==
    \/ b.regions = <<>>
    \/ ~Foreign(b, pa, order) /\
       \E o \in b.nonempty : /\ Containing(pa, o) >= b.regions[region_of(b, pa)].start
                             /\ b.mem[Containing(pa, o)].tag = free_tag(Containing(pa, o), o)

\* The merge loop: stop at MAX_ORDER, at the region's edges, or at a buddy that
\* is not free at this order.
Buddy_of(pa, order) == IF pa % block_size(order + 1) = 0 THEN pa + block_size(order)
                                                         ELSE pa - block_size(order)
InRegion(b, r, pa, order) ==
    b.regions[r].start <= pa /\ pa < b.regions[r].end /\ b.regions[r].end - pa >= block_size(order)
RECURSIVE Coalesce(_, _, _, _)
Coalesce(b, r, pa, order) ==
    LET buddy == Buddy_of(pa, order)
    IN  IF order = MaxOrder \/ ~InRegion(b, r, buddy, order) \/ b.mem[buddy].tag # free_tag(buddy, order)
        THEN push(b, pa, order)
        ELSE IF ~Spliceable(b, buddy, order)
        THEN push([b EXCEPT !.rejected_unlinks = @ + 1], pa, order)
        ELSE Coalesce(unlink(b, buddy, order), r, Min({pa, buddy}), order + 1)

\* Mutant: a freed block is never merged with its buddy.
freeNoMerge(b, pa, order) ==
    IF Foreign(b, pa, order)
    THEN [b EXCEPT !.foreign_frees = @ + block_size(order)]
    ELSE push([b EXCEPT !.free_bytes = @ + block_size(order)], pa, order)

free(b, pa, order) ==
    IF Foreign(b, pa, order)
    THEN [b EXCEPT !.foreign_frees = @ + block_size(order)]
    ELSE Coalesce([b EXCEPT !.free_bytes = @ + block_size(order)], region_of(b, pa), pa, order)
=============================================================================
