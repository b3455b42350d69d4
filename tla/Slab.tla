-------------------------------- MODULE Slab --------------------------------
(***************************************************************************)
(* crates/qunix-mm/src/slab.rs: size-class free lists over a bump region.  *)
(* A free list is a stack of block addresses; the link the code keeps in a *)
(* free block's first word is the stack's order.  Null is -1.              *)
(***************************************************************************)
EXTENDS Integers, Sequences, FiniteSets, FiniteSetsExt

CONSTANTS
    NumClasses,   \* how many of CLASSES exist
    LargeLists,   \* LARGE_LISTS
    UsizeMax      \* largest usize

ASSUME SlabConstants == NumClasses \in 1..17 /\ LargeLists \in Nat /\ UsizeMax \in Nat

\* 8, then the pairs 3 * 2^(k-2), 2^k: 12, 16, 24, 32, 48, 64, ...
CLASSES == [i \in 0..NumClasses - 1 |->
              IF i % 2 = 0 THEN 2^(3 + i \div 2) ELSE 3 * 2^(2 + i \div 2)]
LARGE_MIN == 32
MAX_CLASS_ALIGN == 16
Null == -1
NoClass == -1

\* next_power_of_two as its exponent.
Log2Up(n) == CHOOSE k \in 0..20 : 2^k >= n /\ (k = 0 \/ 2^(k - 1) < n)

large_extent(layout) == Max({2^Log2Up(layout.size), layout.align, LARGE_MIN})
large_index(extent) == Log2Up(extent) - Log2Up(LARGE_MIN)

class_for(layout) ==
    IF layout.align > MAX_CLASS_ALIGN \/ layout.size > CLASSES[NumClasses - 1] THEN NoClass
    ELSE LET size == Max({layout.size, CLASSES[0]})
             k == Log2Up(size)
         IN  IF k >= 4 /\ size <= 3 * 2^(k - 2) THEN 2 * (k - 3) - 1 ELSE 2 * (k - 3)

NewSlab == [free_lists |-> [c \in DOMAIN CLASSES |-> <<>>],
            large_lists |-> [i \in 0..LargeLists - 1 |-> <<>>],
            bump_next |-> 0, bump_end |-> 0, allocated |-> 0]

\* The assertions of set_backing, and what it does.
set_backing_panics(h, va, len) == h.bump_end # 0 \/ h.allocated # 0 \/ va + len > UsizeMax
set_backing(h, va, len) == [h EXCEPT !.bump_next = va, !.bump_end = va + len]

bump_start(h, align) == ((h.bump_next + align - 1) \div align) * align
bump_fits(h, size, align) ==
    /\ h.bump_next + align - 1 <= UsizeMax
    /\ bump_start(h, align) + size <= UsizeMax
    /\ bump_start(h, align) + size <= h.bump_end
bump(h, size, align) == [h EXCEPT !.bump_next = bump_start(h, align) + size]

\* What a request is charged, the extent it takes from the bump region, and the
\* alignment it asks it for.
Charge(layout) == IF class_for(layout) = NoClass THEN large_extent(layout) ELSE CLASSES[class_for(layout)]
\* Mutant: a block of a class is only aligned for the request that carved it.
BumpAlignAsked(layout) == IF class_for(layout) = NoClass THEN large_extent(layout) ELSE layout.align
BumpAlign(layout) == IF class_for(layout) = NoClass THEN large_extent(layout) ELSE MAX_CLASS_ALIGN
BumpSize(layout) == IF class_for(layout) = NoClass THEN large_extent(layout)
                    ELSE Max({CLASSES[class_for(layout)], MAX_CLASS_ALIGN})

\* An extent beyond the largest list has no list.
HasList(layout) == class_for(layout) # NoClass \/ large_index(large_extent(layout)) < LargeLists
ListOf(h, layout) ==
    IF class_for(layout) # NoClass THEN h.free_lists[class_for(layout)]
    ELSE h.large_lists[large_index(large_extent(layout))]
SetList(h, layout, l) ==
    IF class_for(layout) # NoClass THEN [h EXCEPT !.free_lists[class_for(layout)] = l]
    ELSE [h EXCEPT !.large_lists[large_index(large_extent(layout))] = l]
Recycles(h, layout) == HasList(layout) /\ ListOf(h, layout) # <<>>

heap_alloc_ptr(h, layout) ==
    IF Recycles(h, layout) THEN Head(ListOf(h, layout))
    ELSE IF bump_fits(h, BumpSize(layout), BumpAlign(layout)) THEN bump_start(h, BumpAlign(layout))
    ELSE Null
heap_alloc(h, layout) ==
    IF heap_alloc_ptr(h, layout) = Null THEN h
    ELSE [(IF Recycles(h, layout) THEN SetList(h, layout, Tail(ListOf(h, layout)))
           ELSE bump(h, BumpSize(layout), BumpAlign(layout)))
            EXCEPT !.allocated = @ + Charge(layout)]

dealloc(h, ptr, layout) ==
    [(IF HasList(layout) THEN SetList(h, layout, <<ptr>> \o ListOf(h, layout)) ELSE h)
       EXCEPT !.allocated = @ - Charge(layout)]
=============================================================================
