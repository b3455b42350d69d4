------------------------------ MODULE FramePool -----------------------------
(***************************************************************************)
(* What a frame allocator promises: an allocation answers with a naturally *)
(* aligned block of free pages inside one region, and answers None only    *)
(* when there is none; a freed block is free again.                        *)
(***************************************************************************)
EXTENDS Integers, FiniteSets

CONSTANTS PageSize, Orders

VARIABLES
    regions,  \* set of [start, end] the allocator manages
    avail,     \* addresses of the free pages
    live,     \* blocks handed out: set of <<address, order>>
    answer    \* the last allocation: <<order, address or -1>>

vars == <<regions, avail, live, answer>>

PagesOf(pa, order) == {pa + i * PageSize : i \in 0..2^order - 1}
Blocks(order) == {pa \in avail : /\ pa % (PageSize * 2^order) = 0
                                /\ PagesOf(pa, order) \subseteq avail
                                /\ \E r \in regions : \A p \in PagesOf(pa, order) :
                                      r.start <= p /\ p < r.end}

Init == regions = {} /\ avail = {} /\ live = {} /\ answer = <<0, -1>>

\* Boot: the regions are recorded, all their pages free but for what boot uses.
Boot == /\ regions = {}
        /\ regions' # {} /\ live' = {} /\ answer' = answer
        /\ avail' \subseteq UNION {{p \in r.start..r.end - 1 : p % PageSize = 0} : r \in regions'}

Alloc(order) ==
    /\ \/ \E pa \in Blocks(order) : /\ avail' = avail \ PagesOf(pa, order)
                                    /\ live' = live \cup {<<pa, order>>}
                                    /\ answer' = <<order, pa>>
       \/ Blocks(order) = {} /\ answer' = <<order, -1>> /\ UNCHANGED <<avail, live>>
    /\ UNCHANGED regions

Free(pa, order) ==
    /\ <<pa, order>> \in live
    /\ live' = live \ {<<pa, order>>}
    /\ avail' = avail \cup PagesOf(pa, order)
    /\ UNCHANGED <<regions, answer>>

Next == Boot \/ (\E o \in Orders : Alloc(o)) \/ (\E bl \in live : Free(bl[1], bl[2]))
Spec == Init /\ [][Next]_vars
=============================================================================
