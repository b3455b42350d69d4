------------------------------- MODULE Process -------------------------------
(***************************************************************************)
(* A user process from its image to its reaping: Process::from_elf, spawn  *)
(* and user_thread_entry of kernel/src/process.rs, the VmSpace it owns     *)
(* (vmspace.rs over paging.rs), the SYSCALL path of the hal and dispatch   *)
(* of kernel/src/syscall.rs, ring-3 faults (idt.rs), and the part of       *)
(* sched.rs that decides which root, kernel stack and thread a processor   *)
(* has: schedule, adopt_address_space, exit_current, reap.                 *)
(***************************************************************************)
EXTENDS UserImage

CONSTANTS
    CPUs, Procs,
    Files,           \* Files[p]: the images process p may be loaded from
    FrameCounts,     \* how many free frames the run may start with
    TablePages,      \* bytes of address space one page table covers
    USER_STACK_TOP, USER_STACK_PAGES, MAX_WRITE,
    Writes,          \* the <<pointer, length>> pairs a program passes to Write
    MaxCalls,        \* bound on the system calls of one process
    MaxPreempts,     \* bound on involuntary switches away from processes
    Idle, KernelRoot

\* A processor that is not switching.
NoSwitch == "none"
ASSUME ProcessConstants ==
    /\ Idle \notin Procs /\ NoSwitch \notin Procs \cup {Idle}
    /\ MaxCalls \in Nat /\ MaxPreempts \in Nat /\ MAX_WRITE \in Nat /\ USER_STACK_TOP <= USER_MAX
    /\ FrameCounts \subseteq Nat /\ Writes \subseteq Nat \X Nat
    /\ USER_STACK_TOP \in Nat /\ USER_STACK_TOP % PageSize = 0 /\ USER_STACK_PAGES \in Nat
    /\ \A p \in Procs : Files[p] # {} /\ \A f \in Files[p] : f \in ElfFile

VARIABLES
    file,            \* the image of each process
    frames,          \* free physical frames
    bytes,           \* what each frame holds
    ld,              \* each load: place, position, and the VmSpace it builds
    th,              \* each process's thread
    cur, held,       \* per processor: current_thread; the thread it is switching from
    cr3, kernel_rsp, user_rsp,
    reapable,        \* sched.reapable
    preempts,        \* ticks that took a processor from a process so far
    slipped          \* history: threads switched out between activate and adopt

vars == <<file, frames, bytes, ld, th, cur, held, cr3, kernel_rsp, user_rsp, reapable, preempts, slipped>>
memory == <<frames, bytes>>
cpu == <<cur, held, cr3, kernel_rsp, user_rsp>>
tally == <<reapable, preempts, slipped>>

NoFrame == 0
Blank == [i \in 0..(PageSize - 1) |-> Zero]
StackPages == {USER_STACK_TOP - n * PageSize : n \in 1..USER_STACK_PAGES}
\* VmSpace before new: nothing owned.  tables and pages map addresses to frames.
NoSpace == [root |-> NoFrame, tables |-> <<>>, pages |-> <<>>, owned |-> {}]

Init ==
    /\ file \in {f \in [Procs -> UNION {Files[p] : p \in Procs}] : \A p \in Procs : f[p] \in Files[p]}
    /\ \E n \in FrameCounts : frames = 1..n
    /\ bytes = [f \in UNION {1..n : n \in FrameCounts} |-> Blank]
    /\ ld = [p \in Procs |-> [pc |-> "parse", err |-> "ok", seg |-> 1, space |-> NoSpace]]
    /\ th = [p \in Procs |-> [pc |-> "unborn", adopted |-> FALSE, rsp |-> p, call |-> "none", n |-> 0, ret |-> "none"]]
    /\ cur = [c \in CPUs |-> Idle] /\ held = [c \in CPUs |-> NoSwitch]
    /\ cr3 = [c \in CPUs |-> KernelRoot]
    /\ kernel_rsp = [c \in CPUs |-> Idle] /\ user_rsp = [c \in CPUs |-> Idle]
    /\ reapable = {} /\ preempts = 0 /\ slipped = {}
-----------------------------------------------------------------------------
\* frames::alloc(0), taking the lowest free frame; the buddy allocator is modelled in
\* module Buddy.
take(free) == Min(free)
\* AddressSpace::map over a space whose table for va may be missing, as map_user calls
\* it: the outcome is [err, space, free].  The closure records the table frame in owned
\* before the mapping exists.
table_of(va) == va - (va % TablePages)
Extend(f, a, b) == [x \in DOMAIN f \cup {a} |-> IF x = a THEN b ELSE f[x]]
map_user(sp, free, va, pa, w, x) ==
    LET needs == table_of(va) \notin DOMAIN sp.tables
        t     == take(free)
        sp1   == IF needs /\ free # {}
                 THEN [sp EXCEPT !.tables = Extend(@, table_of(va), t), !.owned = @ \cup {t}] ELSE sp
        free1 == IF needs /\ free # {} THEN free \ {t} ELSE free
    IN  IF va >= USER_MAX \/ va < USER_MIN THEN [err |-> "NotUserAddress", space |-> sp, free |-> free]
        ELSE IF needs /\ free = {} THEN [err |-> "OutOfFrames", space |-> sp, free |-> free]
        ELSE IF va \in DOMAIN sp.pages THEN [err |-> "AlreadyMapped", space |-> sp1, free |-> free1]
        ELSE [err |-> "ok", free |-> free1,
              space |-> [sp1 EXCEPT !.pages = Extend(@, va, [pa |-> pa, w |-> w, x |-> x])]]
\* map_new_page: allocate, zero, record, map.
map_new_page(sp, free, va, w, x) ==
    IF free = {} THEN [err |-> "OutOfFrames", space |-> sp, free |-> free]
    ELSE LET pa == take(free)
         IN  map_user([sp EXCEPT !.owned = @ \cup {pa}], free \ {pa}, va, pa, w, x)
is_mapped(sp, va) == va \in DOMAIN sp.pages

\* The drop of a VmSpace.
Dropped(free, sp) == free \cup sp.owned
Fail(p, err, free, sp) ==
    /\ ld' = [ld EXCEPT ![p].pc = "failed", ![p].err = err, ![p].space = NoSpace]
    /\ frames' = Dropped(free, sp)

Parse(p) ==
    /\ ld[p].pc = "parse"
    /\ ld' = [ld EXCEPT ![p].err = parse(file[p]),
                        ![p].pc = IF parse(file[p]) = "ok" THEN "new" ELSE "failed"]
    /\ UNCHANGED <<file, memory, th, cpu, tally>>

\* VmSpace::new, and the pass that validates every segment before anything is mapped.
NewSpace(p) ==
    LET segs == segments(file[p])
        bad == {i \in 1..Len(segs) : segment_error(segs[i]) # "ok"}
        sp  == [NoSpace EXCEPT !.root = take(frames), !.owned = {take(frames)}]
    IN
    /\ ld[p].pc = "new"
    /\ IF frames = {} THEN Fail(p, "OutOfMemory", frames, NoSpace)
       ELSE IF bad # {} THEN Fail(p, segment_error(segs[Min(bad)]), frames \ sp.owned, sp)
       ELSE /\ ld' = [ld EXCEPT ![p].pc = "map", ![p].space = sp]
            /\ frames' = frames \ sp.owned
    /\ UNCHANGED <<file, bytes, th, cpu, tally>>

\* One page of the current segment: skipped when an earlier segment mapped it.
Unmapped(p) == {va \in segment_pages(segments(file[p])[ld[p].seg]) : ~is_mapped(ld[p].space, va)}
ZeroedNever(r, sp) == bytes
Zeroed(r, sp) == [f \in DOMAIN bytes |-> IF f \in r.space.owned \ sp.owned THEN Blank ELSE bytes[f]]
MapPage(p) ==
    LET sp == ld[p].space
        r  == map_new_page(sp, frames, Min(Unmapped(p)), TRUE, TRUE)
    IN
    /\ ld[p].pc = "map" /\ ld[p].seg <= Len(segments(file[p])) /\ Unmapped(p) # {}
    /\ bytes' = Zeroed(r, sp)
    /\ IF r.err # "ok" THEN Fail(p, r.err, r.free, r.space)
       ELSE ld' = [ld EXCEPT ![p].space = r.space] /\ frames' = r.free
    /\ UNCHANGED <<file, th, cpu, tally>>

\* The copy of one segment, run by run: each run stays inside the frame its first
\* address translates to.
CopySegment(p) ==
    LET h == segments(file[p])[ld[p].seg]
        frame_of(a) == ld[p].space.pages[page_of(a)].pa
        src(f, i) == {a \in h.vaddr..(h.vaddr + h.filesz - 1) : frame_of(a) = f /\ a % PageSize = i}
    IN
    /\ ld[p].pc = "map" /\ ld[p].seg <= Len(segments(file[p])) /\ Unmapped(p) = {}
    /\ bytes' = [f \in DOMAIN bytes |-> [i \in 0..(PageSize - 1) |->
                   IF src(f, i) = {} THEN bytes[f][i] ELSE h.offset + (Min(src(f, i)) - h.vaddr)]]
    /\ ld' = [ld EXCEPT ![p].seg = @ + 1]
    /\ UNCHANGED <<file, frames, th, cpu, tally>>

\* The permission pass: the union of what the segments touching a page ask for, applied
\* with set_permissions (unmap and map again, tables in place); write and execute
\* together refuse the program.
SetPermissions(p) ==
    LET sp == ld[p].space
        wx == {va \in AllPages(file[p]) : page_flags(file[p], va) = [w |-> TRUE, x |-> TRUE]}
    IN
    /\ ld[p].pc = "map" /\ ld[p].seg > Len(segments(file[p]))
    /\ IF wx # {} THEN Fail(p, "WriteExecutePage", frames, sp)
       ELSE /\ ld' = [ld EXCEPT ![p].pc = "stack",
                        ![p].space = [sp EXCEPT !.pages = [va \in DOMAIN sp.pages |->
                           [pa |-> sp.pages[va].pa, w |-> page_flags(file[p], va).w, x |-> page_flags(file[p], va).x]]]]
            /\ UNCHANGED frames
    /\ UNCHANGED <<file, bytes, th, cpu, tally>>

\* One page of the stack, from the top down; after the last the process is spawned.
StackLeft(p) == {va \in StackPages : ld[p].seg <= Len(segments(file[p])) + (USER_STACK_TOP - va) \div PageSize}
MapStack(p) ==
    LET sp == ld[p].space
        va == Max(StackLeft(p))
        r  == map_new_page(sp, frames, va, TRUE, FALSE)
    IN
    /\ ld[p].pc = "stack" /\ StackLeft(p) # {}
    /\ bytes' = Zeroed(r, sp)
    /\ IF r.err # "ok" THEN Fail(p, r.err, r.free, r.space)
       ELSE ld' = [ld EXCEPT ![p].space = r.space, ![p].seg = @ + 1] /\ frames' = r.free
    /\ UNCHANGED <<file, th, cpu, tally>>
spawn(p) ==
    /\ ld[p].pc = "stack" /\ StackLeft(p) = {}
    /\ ld' = [ld EXCEPT ![p].pc = "loaded"]
    /\ th' = [th EXCEPT ![p].pc = "entry"]
    /\ UNCHANGED <<file, memory, cpu, tally>>
Load(p) == Parse(p) \/ NewSpace(p) \/ MapPage(p) \/ CopySegment(p) \/ SetPermissions(p) \/ MapStack(p) \/ spawn(p)
-----------------------------------------------------------------------------
\* Processors.  A switch is two steps: current_thread names the incoming thread first;
\* then, interrupts masked throughout, its kernel stack and root are programmed, the
\* stacks change and the outgoing thread is published.
At(c, t, pc) == cur[c] = t /\ held[c] = NoSwitch /\ th[t].pc = pc
InterruptibleCalls == {"init", "activate", "adopt", "enter", "user", "dispatch", "return"}
Interruptible == {"init", "activate", "adopt", "enter", "user"}
IrqOn(c) == held[c] = NoSwitch /\ (cur[c] # Idle => th[cur[c]].pc \in Interruptible)
Ready(t) == /\ th[t].pc \notin {"unborn", "exited", "reaped"}
            /\ \A c \in CPUs : t \notin {cur[c], held[c]}
Switchable(c, n) == n # cur[c] /\ (n # Idle => Ready(n))
Leave(c, n) == cur' = [cur EXCEPT ![c] = n] /\ held' = [held EXCEPT ![c] = cur[c]]

\* preempt, and the idle loop's yield_now.
Preempt(c, n) ==
    /\ IrqOn(c) /\ Switchable(c, n) /\ Leave(c, n)
    /\ cur[c] # Idle => preempts < MaxPreempts
    /\ preempts' = IF cur[c] = Idle THEN preempts ELSE preempts + 1
    /\ slipped' = IF cur[c] # Idle /\ th[cur[c]].pc = "adopt" THEN slipped \cup {cur[c]} ELSE slipped
    /\ UNCHANGED <<file, memory, ld, th, cr3, kernel_rsp, user_rsp, reapable>>

\* set_kernel_stack, activate_root and context::switch of schedule; thread_entry when
\* the thread is new.
root_of(t) == ld[t].space.root
incoming_root(t) == IF t # Idle /\ th[t].adopted THEN root_of(t) ELSE KernelRoot
kernel_stack_unset(c) == kernel_rsp[c]
kernel_stack_after(c) == IF cur[c] = Idle THEN kernel_rsp[c] ELSE cur[c]
FinishSwitch(c) ==
    /\ held[c] # NoSwitch
    /\ held' = [held EXCEPT ![c] = NoSwitch]
    /\ kernel_rsp' = [kernel_rsp EXCEPT ![c] = kernel_stack_after(c)]
    /\ cr3' = [cr3 EXCEPT ![c] = incoming_root(cur[c])]
    /\ th' = IF cur[c] # Idle /\ th[cur[c]].pc = "entry" THEN [th EXCEPT ![cur[c]].pc = "init"] ELSE th
    /\ UNCHANGED <<file, memory, ld, cur, user_rsp, tally>>

\* user_thread_entry: the assertion on kernel_rsp and syscall::init, VmSpace::activate,
\* adopt_address_space, enter_user; interrupts are enabled all along.
InitSyscalls(c, t) ==
    /\ At(c, t, "init") /\ th' = [th EXCEPT ![t].pc = "activate"]
    /\ UNCHANGED <<file, memory, ld, cpu, tally>>
activate(c, t) ==
    /\ At(c, t, "activate") /\ th' = [th EXCEPT ![t].pc = "adopt"]
    /\ cr3' = [cr3 EXCEPT ![c] = root_of(t)]
    /\ UNCHANGED <<file, memory, ld, cur, held, kernel_rsp, user_rsp, tally>>
adopt_address_space(c, t) ==
    /\ At(c, t, "adopt") /\ th' = [th EXCEPT ![t].pc = "enter", ![t].adopted = TRUE]
    /\ UNCHANGED <<file, memory, ld, cpu, tally>>
enter_user(c, t) ==
    /\ At(c, t, "enter") /\ th' = [th EXCEPT ![t].pc = "user"]
    /\ UNCHANGED <<file, memory, ld, cpu, tally>>
-----------------------------------------------------------------------------
\* Ring 3.  syscall_entry parks the user's stack pointer in the processor's slot and
\* goes on with interrupts masked; on other page tables than its own a process cannot
\* execute its next instruction.
syscall_entry(c, t, call) ==
    /\ At(c, t, "user") /\ cr3[c] = root_of(t) /\ th[t].n < MaxCalls
    /\ user_rsp' = [user_rsp EXCEPT ![c] = th[t].rsp]
    /\ th' = [th EXCEPT ![t].pc = "dispatch", ![t].call = call, ![t].n = @ + 1]
    /\ UNCHANGED <<file, memory, ld, cur, held, cr3, kernel_rsp, tally>>

\* copy_user_slice and sys_write, in the address space the processor has loaded.
mapped(c, va) == va >= USER_MAX \/ \E p \in Procs : cr3[c] = root_of(p) /\ is_mapped(ld[p].space, va)
user_range_ok(ptr, len) == LET end == checked_add(ptr, len) IN end # None /\ ptr < USER_MAX /\ end <= USER_MAX
WalkedFirst(ptr, len) == {page_of(ptr)}
Walked(ptr, len) == {va \in page_of(ptr)..(ptr + len - 1) : va % PageSize = 0}
Touched(ptr, len) == {page_of(a) : a \in ptr..(ptr + len - 1)}
sys_write(c, ptr, len) ==
    IF len > MAX_WRITE THEN "BadArgument"
    ELSE IF len = 0 THEN "written"
    ELSE IF ~user_range_ok(ptr, len) \/ \E va \in Walked(ptr, len) : ~mapped(c, va) THEN "BadAddress"
    ELSE IF \E va \in Touched(ptr, len) : ~mapped(c, va) THEN "kernel page fault"
    ELSE "written"

\* handle, for the calls that come back at once: the reserved ones are NotSupported,
\* unknown numbers BadSyscall.
handle(c, t) ==
    /\ At(c, t, "dispatch") /\ th[t].call \notin {"Exit", "Yield"}
    /\ \E w \in IF th[t].call = "Write" THEN Writes ELSE {<<0, 0>>} :
         th' = [th EXCEPT ![t].pc = "return",
                          ![t].ret = CASE th[t].call = "Write" -> <<w, sys_write(c, w[1], w[2])>>
                                       [] th[t].call = "GetPid" -> <<w, "pid">>
                                       [] th[t].call = "Open" -> <<w, "NotSupported">>
                                       [] OTHER -> <<w, "BadSyscall">>]
    /\ UNCHANGED <<file, memory, ld, cpu, tally>>
Yield(c, t, n) ==
    /\ At(c, t, "dispatch") /\ th[t].call = "Yield"
    /\ th' = [th EXCEPT ![t].pc = "return"]
    /\ IF n = t THEN UNCHANGED <<cur, held>> ELSE Switchable(c, n) /\ Leave(c, n)
    /\ UNCHANGED <<file, memory, ld, cr3, kernel_rsp, user_rsp, tally>>
sysret(c, t) ==
    /\ At(c, t, "return")
    /\ th' = [th EXCEPT ![t].pc = "user", ![t].rsp = user_rsp[c], ![t].call = "none", ![t].ret = "none"]
    /\ UNCHANGED <<file, memory, ld, cpu, tally>>

\* Exit and user_fault: off the process's tables, then exit_current.  The count
\* PROCESS_KILLS is in module TestHarness, whose tests read it.
keep_root(c) == UNCHANGED cr3
activate_kernel_root(c) == cr3' = [cr3 EXCEPT ![c] = KernelRoot]
Exit(c, t) ==
    /\ At(c, t, "dispatch") /\ th[t].call = "Exit"
    /\ activate_kernel_root(c)
    /\ th' = [th EXCEPT ![t].pc = "exit"]
    /\ UNCHANGED <<file, memory, ld, cur, held, kernel_rsp, user_rsp, tally>>
user_fault(c, t) ==
    /\ At(c, t, "user")
    /\ activate_kernel_root(c)
    /\ th' = [th EXCEPT ![t].pc = "exit"]
    /\ UNCHANGED <<file, memory, ld, cur, held, kernel_rsp, user_rsp, tally>>
exit_current(c, t, n) ==
    /\ At(c, t, "exit") /\ Switchable(c, n) /\ Leave(c, n)
    /\ reapable' = reapable \cup {t}
    /\ th' = [th EXCEPT ![t].pc = "exited"]
    /\ UNCHANGED <<file, memory, ld, cr3, kernel_rsp, user_rsp, preempts, slipped>>

\* reap: corpses no processor names as current are removed, and dropping one drops its
\* VmSpace.
reap(c) ==
    LET corpses == {t \in reapable : \A k \in CPUs : cur[k] # t} IN
    /\ IrqOn(c) /\ corpses # {}
    /\ reapable' = reapable \ corpses
    /\ frames' = frames \cup UNION {ld[t].space.owned : t \in corpses}
    /\ ld' = [t \in Procs |-> IF t \in corpses THEN [ld[t] EXCEPT !.space = NoSpace] ELSE ld[t]]
    /\ th' = [t \in Procs |-> IF t \in corpses THEN [th[t] EXCEPT !.pc = "reaped"] ELSE th[t]]
    /\ UNCHANGED <<file, bytes, cpu, preempts, slipped>>
-----------------------------------------------------------------------------
Calls == {"Exit", "Write", "Yield", "GetPid", "Open", "unknown"}
ThreadStep(c, t) ==
    \/ InitSyscalls(c, t) \/ activate(c, t) \/ adopt_address_space(c, t) \/ enter_user(c, t)
    \/ (\E call \in Calls : syscall_entry(c, t, call)) \/ handle(c, t) \/ sysret(c, t)
    \/ Exit(c, t) \/ user_fault(c, t)
    \/ \E n \in Procs \cup {Idle} : Yield(c, t, n) \/ exit_current(c, t, n)

Done == /\ \A p \in Procs : ld[p].pc = "failed" \/ th[p].pc = "reaped"
        /\ \A c \in CPUs : cur[c] = Idle /\ held[c] = NoSwitch
        /\ UNCHANGED vars
Next == \/ \E p \in Procs : Load(p)
        \/ \E c \in CPUs : FinishSwitch(c) \/ reap(c) \/ \E n \in Procs \cup {Idle} : Preempt(c, n)
        \/ \E c \in CPUs, t \in Procs : ThreadStep(c, t)
        \/ Done
Spec == Init /\ [][Next]_vars
-----------------------------------------------------------------------------
\* Every frame is free or owned by exactly one address space, whatever load failed
\* half way, ran out of frames or was reaped; a space maps and walks only frames it
\* owns, one per page; and the root in any processor's CR3 is the kernel's or owned by
\* a live space (VmSpace::drop, map_new_page, activate_root, activate_kernel_root).
FramesAccounted ==
    /\ \A p, q \in Procs : p # q => ld[p].space.owned \cap ld[q].space.owned = {}
    /\ \A p \in Procs : LET sp == ld[p].space IN
         /\ sp.owned \cap frames = {}
         /\ sp.owned = ({sp.root} \ {NoFrame}) \cup {sp.tables[a] : a \in DOMAIN sp.tables}
                       \cup {sp.pages[a].pa : a \in DOMAIN sp.pages}
         /\ \A a, b \in DOMAIN sp.pages : sp.pages[a].pa = sp.pages[b].pa => a = b
    /\ \E n \in FrameCounts : frames \cup UNION {ld[p].space.owned : p \in Procs} = 1..n
    /\ \A c \in CPUs : cr3[c] # KernelRoot => \E p \in Procs : cr3[c] = root_of(p) /\ root_of(p) # NoFrame

\* A program from_elf accepts is in memory as its file says and nowhere else: exactly
\* the pages of its segments and its stack, all in the user half and above the null
\* page, each byte the file's or zero, permissions the union of what was asked for and
\* never both write and execute (Elf64::parse, segment_pages, Process::from_elf).
ImageFaithful ==
    \A p \in Procs : ld[p].pc = "loaded" /\ th[p].pc = "entry" =>
      LET sp == ld[p].space  f == file[p] IN
      /\ DOMAIN sp.pages = AllPages(f) \cup StackPages
      /\ \A va \in DOMAIN sp.pages :
           /\ va >= USER_MIN /\ va < USER_MAX /\ ~(sp.pages[va].w /\ sp.pages[va].x)
           /\ va \in AllPages(f) => sp.pages[va].w = page_flags(f, va).w /\ sp.pages[va].x = page_flags(f, va).x
           /\ \A i \in 0..(PageSize - 1) : bytes[sp.pages[va].pa][i] = ExpectedByte(f, va + i)

\* A processor in ring 3 would trap onto the stack of the thread it runs, and it is on
\* that process's page tables, unless the thread was switched out after activating its
\* space and before adopting it: then it comes back on the kernel's root and is killed
\* (schedule, user_thread_entry, adopt_address_space).
Ring3IsItsOwn ==
    \A c \in CPUs, t \in Procs : At(c, t, "user") =>
      /\ kernel_rsp[c] = t
      /\ cr3[c] = root_of(t) \/ t \in slipped

\* Only Yield can hand a process back another stack pointer than it called with: every
\* other call keeps interrupts masked from the slot's store to its load, and Yield may
\* come back on a processor whose slot another process has used (syscall_entry).
StackSurvivesCall ==
    [][\A t \in Procs : th'[t].rsp # th[t].rsp => th[t].call = "Yield"]_vars

\* write succeeds for exactly the buffers that lie in the caller's own mapped pages and
\* within the limit, and never faults in the kernel (sys_write, copy_user_slice).
WriteIsExact ==
    \A c \in CPUs, t \in Procs : At(c, t, "return") /\ th[t].call = "Write" =>
      LET ptr == th[t].ret[1][1]  len == th[t].ret[1][2]
          fits == \A a \in ptr..(ptr + len - 1) : a < USER_MAX /\ is_mapped(ld[t].space, page_of(a))
      IN  th[t].ret[2] = IF len > MAX_WRITE THEN "BadArgument" ELSE IF fits THEN "written" ELSE "BadAddress"
=============================================================================
