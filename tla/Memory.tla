------------------------------- MODULE Memory -------------------------------
(***************************************************************************)
(* kernel/src/frames.rs and kernel/src/heap.rs: the frame allocator is     *)
(* filled from the boot memory map, the kernel heap is mapped from it, and *)
(* then the kernel allocates and frees.  Both sit behind an IrqSpinLock    *)
(* held for a whole call, so a call is one step.  A behaviour exercises    *)
(* one of the two allocators: after boot they share nothing.               *)
(***************************************************************************)
EXTENDS Buddy, Slab, SequencesExt

CONSTANTS
    MemoryMaps,   \* the firmware maps considered: sequences of [start, len, usable]
    EbdaWords,    \* values of the BDA word, as the address it names; 0 if none
    LowUsableStart, LowUsableEnd, OneMib,
    HeapBase, HeapPages, HugeOrder,
    Layouts,      \* layouts the heap is asked for
    MaxForeign    \* bound on frees of frames that are not the allocator's

VARIABLES
    memmap, ebda,   \* what firmware reports
    phase,          \* "off", "frames", "up" or "panic"
    buddy,          \* ALLOCATOR
    excluded,       \* EXCLUDED_LOW_BYTES
    heapFrames,     \* frame behind each mapped page of the heap, in order
    tables,         \* page-table frames allocated while mapping the heap
    slab,           \* HEAP
    client,         \* which allocator this behaviour exercises
    live,           \* frames handed out: set of <<pa, order>>
    answer,         \* the last frame allocation: <<order, pa or NIL>>
    blocks          \* heap blocks handed out: set of [ptr, layout]

vars == <<memmap, ebda, phase, buddy, excluded, heapFrames, tables, slab, client, live, answer, blocks>>

Init ==
    /\ memmap \in MemoryMaps /\ ebda \in EbdaWords
    /\ phase = "off" /\ buddy = NewBuddy /\ excluded = 0
    /\ heapFrames = <<>> /\ tables = {} /\ slab = NewSlab
    /\ client \in {"frames", "heap"}
    /\ live = {} /\ answer = <<0, NIL>> /\ blocks = {}

\* The lowest address the EBDA is reported to occupy, clamped.
ebda_floor == IF ebda = 0 THEN LowUsableEnd ELSE Min({LowUsableEnd, ebda})

usable_regions == SelectSeq(memmap, LAMBDA r : r.usable)

\* One usable region: the conventional-memory window below 1 MiB and everything
\* above it are offered, the rest of the low megabyte is counted as excluded.
Offer(acc, region) ==
    LET end == region.start + region.len
        low_start == Max({region.start, LowUsableStart})
        low_stop == Min({end, ebda_floor})
        in_low_mib == Max({Min({end, OneMib}) - Min({region.start, OneMib}), 0})
        high_start == Max({region.start, OneMib})
        b1 == IF low_start < low_stop THEN add_region(acc.b, low_start, low_stop - low_start) ELSE acc.b
        b2 == IF high_start < end THEN add_region(b1, high_start, end - high_start) ELSE b1
    IN  IF end > AddrMax THEN acc
        ELSE [b |-> b2, excluded |-> acc.excluded + in_low_mib - Max({low_stop - low_start, 0})]

frames_init ==
    /\ phase = "off"
    /\ LET r == FoldLeft(Offer, [b |-> NewBuddy, excluded |-> 0], usable_regions)
       IN  buddy' = r.b /\ excluded' = r.excluded
    /\ phase' = "frames"
    /\ UNCHANGED <<memmap, ebda, heapFrames, tables, slab, client, live, answer, blocks>>

\* Mapping a heap page needs its page-table frame, and the levels above it, to
\* exist; a 2 MiB mapping needs only the levels above.
TablesFor(mapped, order) ==
    <<-1>> \o (IF order >= HugeOrder /\ mapped % 2^HugeOrder = 0 THEN <<>>
                    ELSE [i \in 1..2^order |-> (mapped + i - 1) \div 2^HugeOrder])
NeedTable(s, t) ==
    IF t \in DOMAIN s.at \/ s.panic THEN s
    ELSE LET pa == alloc_pa(s.b, 0)
         IN  IF pa = NIL THEN [s EXCEPT !.panic = TRUE]
             ELSE [s EXCEPT !.b = alloc(s.b, 0), !.at = (t :> pa) @@ @]

\* The loop of heap::init: take the largest block that is still useful, starting
\* one order above the last that worked and degrading on failure.
ilog2(n) == Max({k \in 0..MaxOrder + 1 : 2^k <= n} \cup {0})
\* Mutant: the order is not degraded when there is no block of it.
LadderFixed(s, hint) == {o \in {Min({hint, ilog2(HeapPages - Len(s.frames))})} : Usable(s.b, o) # {}}
Ladder(s, hint) == {o \in 0..Min({hint, ilog2(HeapPages - Len(s.frames))}) : Usable(s.b, o) # {}}
RECURSIVE MapHeap(_, _)
MapHeap(s, hint) ==
    IF s.panic \/ Len(s.frames) >= HeapPages THEN s
    ELSE IF Ladder(s, hint) = {} THEN [s EXCEPT !.panic = TRUE]
    ELSE LET order == Max(Ladder(s, hint))
             pa == alloc_pa(s.b, order)
             t == FoldLeft(NeedTable, [s EXCEPT !.b = alloc(s.b, order)], TablesFor(Len(s.frames), order))
         IN  MapHeap([t EXCEPT !.frames = @ \o [i \in 1..2^order |-> pa + (i - 1) * PageSize]],
                     Min({order + 1, HugeOrder}))

heap_init ==
    /\ phase = "frames"
    /\ LET s == MapHeap([b |-> buddy, frames |-> <<>>, at |-> <<>>, panic |-> FALSE], HugeOrder)
       IN  /\ buddy' = s.b /\ heapFrames' = s.frames /\ tables' = Range(s.at)
           /\ LET panics == s.panic \/ set_backing_panics(slab, HeapBase, HeapPages * PageSize)
              IN  /\ phase' = IF panics THEN "panic" ELSE "up"
                  /\ slab' = IF panics THEN slab ELSE set_backing(slab, HeapBase, HeapPages * PageSize)
    /\ UNCHANGED <<memmap, ebda, excluded, client, live, answer, blocks>>

\* What an owner writes into its block is left out: free only ever compares the words
\* of a block in use with a tag, and tags are written by the allocator alone.
FrameAlloc(order) ==
    /\ phase = "up" /\ client = "frames"
    /\ LET pa == alloc_pa(buddy, order)
       IN  /\ answer' = <<order, pa>>
           /\ live' = IF pa = NIL THEN live ELSE live \cup {<<pa, order>>}
    /\ buddy' = alloc(buddy, order)
    /\ UNCHANGED <<memmap, ebda, phase, excluded, heapFrames, tables, slab, client, blocks>>

FrameFree(bl) ==
    /\ phase = "up" /\ bl \in live
    /\ buddy' = free(buddy, bl[1], bl[2])
    /\ live' = live \ {bl}
    /\ UNCHANGED <<memmap, ebda, phase, excluded, heapFrames, tables, slab, client, answer, blocks>>

\* unmap_and_prune returns page tables the bootloader built, which are in no region.
ForeignFree(pa) ==
    /\ phase = "up" /\ client = "frames" /\ region_of(buddy, pa) = 0
    /\ buddy.foreign_frees < MaxForeign * PageSize
    /\ buddy' = free(buddy, pa, 0)
    /\ UNCHANGED <<memmap, ebda, phase, excluded, heapFrames, tables, slab, client, live, answer, blocks>>

HeapAlloc(layout) ==
    /\ phase = "up" /\ client = "heap"
    /\ LET ptr == heap_alloc_ptr(slab, layout)
       IN  blocks' = IF ptr = Null THEN blocks ELSE blocks \cup {[ptr |-> ptr, layout |-> layout]}
    /\ slab' = heap_alloc(slab, layout)
    /\ UNCHANGED <<memmap, ebda, phase, buddy, excluded, heapFrames, tables, client, live, answer>>

HeapDealloc(bl) ==
    /\ phase = "up" /\ bl \in blocks
    /\ slab' = dealloc(slab, bl.ptr, bl.layout)
    /\ blocks' = blocks \ {bl}
    /\ UNCHANGED <<memmap, ebda, phase, buddy, excluded, heapFrames, tables, client, live, answer>>

stats == [free_bytes |-> buddy.free_bytes, dropped |-> dropped_bytes(buddy), excluded_low_bytes |-> excluded]

\* A panicked kernel stays halted.
Halted == phase = "panic" /\ UNCHANGED vars

Next ==
    \/ frames_init \/ heap_init \/ Halted
    \/ \E o \in Order : FrameAlloc(o)
    \/ \E bl \in live : FrameFree(bl)
    \/ \E pa \in Pages : ForeignFree(pa)
    \/ \E l \in Layouts : HeapAlloc(l)
    \/ \E bl \in blocks : HeapDealloc(bl)

Spec == Init /\ [][Next]_vars
-----------------------------------------------------------------------------
\* The blocks on a free list, walked from its head.
RECURSIVE ListFrom(_, _)
ListFrom(link, seen) ==
    IF link = NIL \/ link \in ToSet(seen) THEN seen
    ELSE ListFrom(buddy.mem[link].next, Append(seen, link))
FreeList(o) == ListFrom(buddy.head[o], <<>>)
PagesIn(pa, order) == {pa + i * PageSize : i \in 0..2^order - 1}
FreePages == UNION UNION {{PagesIn(pa, o) : pa \in ToSet(FreeList(o))} : o \in Order}
LivePages == UNION {PagesIn(bl[1], bl[2]) : bl \in live}
Managed == {p \in Pages : region_of(buddy, p) # 0}
Bytes(pages) == Cardinality(pages) * PageSize

\* Each free list of the buddy allocator is a well-formed list of blocks tagged
\* for its order, nonempty names exactly the lists with an entry, no link was ever
\* rejected and no free of a block in use would trip free's double-free assertion,
\* whatever order blocks are split, freed and merged in (push, pop, unlink, free).
ListsSound ==
    /\ buddy.truncated_lists = 0 /\ buddy.rejected_unlinks = 0
    /\ \A o \in Order :
         LET l == FreeList(o)
         IN  /\ (o \in buddy.nonempty) <=> (l # <<>>)
             /\ l # <<>> => buddy.mem[l[Len(l)]].next = NIL
             /\ \A i \in DOMAIN l : /\ buddy.mem[l[i]].tag = free_tag(l[i], o)
                                    /\ buddy.mem[l[i]].prev = IF i = 1 THEN NIL ELSE l[i - 1]
    /\ \A bl \in live : ~free_panics(buddy, bl[1], bl[2])

\* Every page of every recorded region is in exactly one place: one free block, one
\* block handed out, the heap's backing or a page table; nothing is handed out
\* twice and nothing outside the regions is handed out (alloc, free, heap::init).
PagesPartitioned ==
    phase = "up" =>
      /\ FreePages \cup LivePages \cup Range(heapFrames) \cup tables = Managed
      /\ Bytes(FreePages) = buddy.free_bytes
      /\ Cardinality(FreePages) + Cardinality(Range(heapFrames)) + Cardinality(tables)
           + FoldSet(LAMBDA bl, n : n + 2^bl[2], 0, live) = Cardinality(Managed)
      /\ Len(heapFrames) = Cardinality(Range(heapFrames))

\* Every byte firmware calls usable, in an entry that does not overflow the address
\* space, is either free, in use, or in one of the drop counters of frames::stats.
OfferedBytes == FoldLeft(LAMBDA n, r : IF r.start + r.len > AddrMax THEN n ELSE n + r.len, 0, usable_regions)
BytesAccounted ==
    phase \in {"frames", "up"} =>
      OfferedBytes = stats.free_bytes + stats.dropped + stats.excluded_low_bytes
                     + Bytes(LivePages) + Bytes(Range(heapFrames)) + Bytes(tables)

\* Every page and every byte firmware offered is accounted for, by lists that stay
\* well formed.
PagesAccounted == ListsSound /\ PagesPartitioned /\ BytesAccounted

\* heap::init gives up only when not one frame is left: the degrading and climbing
\* order hint never misses memory it could use, however fragmented the map is.
PanicsOnlyWhenEmpty == phase = "panic" => Usable(buddy, 0) = {}

\* Blocks the heap has handed out or keeps for reuse lie inside its backing, do not
\* overlap, are aligned and large enough for every layout that can be served from
\* them, and allocated is what the blocks in use were charged (alloc, dealloc).
Extent(bl) == bl.ptr..bl.ptr + Charge(bl.layout) - 1
Kept == UNION {{[ptr |-> p, layout |-> l] : p \in ToSet(ListOf(slab, l))} : l \in {m \in Layouts : HasList(m)}}
HeapSound ==
    phase = "up" =>
      /\ \A bl \in blocks \cup Kept : /\ Extent(bl) \subseteq HeapBase..HeapBase + HeapPages * PageSize - 1
                                      /\ bl.ptr % bl.layout.align = 0
                                      /\ Charge(bl.layout) >= bl.layout.size
                                      /\ bl.ptr + Charge(bl.layout) <= slab.bump_next
      /\ \A x \in blocks, y \in blocks \cup Kept :
            Extent(x) \cap Extent(y) # {} => x = y /\ y \notin Kept
      /\ slab.allocated = FoldSet(LAMBDA bl, n : n + Charge(bl.layout), 0, blocks)

Pool == INSTANCE FramePool WITH
    Orders <- Order,
    regions <- IF phase = "up" THEN ToSet(buddy.regions) ELSE {},
    avail <- IF phase = "up" THEN FreePages ELSE {}
\* The buddy allocator implements a pool of pages: an allocation fails only when no
\* naturally aligned run of free pages of that order exists inside one region, so
\* frees coalesce completely (alloc and free of buddy.rs behind frames.rs).
ImplementsPool == Pool!Spec
=============================================================================
