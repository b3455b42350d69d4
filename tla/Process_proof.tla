---------------------------- MODULE Process_proof ----------------------------
(***************************************************************************)
(* What holds of processes for any set of processes and processors, any    *)
(* images, any number of frames and any page size: ring 3 runs on its own  *)
(* tables and traps onto its own stack (Ring3IsItsOwn), a call that keeps  *)
(* the processor gives the stack pointer back (StackSurvivesCall), frames  *)
(* are neither lost nor shared (FramesAccounted), and write accepts the    *)
(* caller's own buffers and no others (WriteIsExact).                      *)
(***************************************************************************)
EXTENDS Process, WellFoundedInduction, TLAPS

\* A leaf that names no prover is one for first-order reasoning.
USE Zenon

ThreadPc == {"unborn", "entry", "init", "activate", "adopt", "enter", "user", "dispatch", "return",
             "exit", "exited", "reaped"}
Answer == {"written", "BadArgument", "BadAddress", "kernel page fault", "pid", "NotSupported", "BadSyscall"}
Asked == Writes \cup {<<0, 0>>}
ThreadRecord == [pc : ThreadPc, adopted : BOOLEAN, rsp : Procs \cup {Idle}, call : Calls \cup {"none"},
                 n : Nat, ret : {"none"} \cup (Asked \X Answer)]
IsSpace(sp) == sp = [root |-> sp.root, tables |-> sp.tables, pages |-> sp.pages, owned |-> sp.owned]
IsLoad(r) == r = [pc |-> r.pc, err |-> r.err, seg |-> r.seg, space |-> r.space] /\ IsSpace(r.space)

\* The types the proofs use; a load is only known by its fields.
TypeOK ==
    /\ th \in [Procs -> ThreadRecord]
    /\ cur \in [CPUs -> Procs \cup {Idle}] /\ held \in [CPUs -> Procs \cup {Idle, NoSwitch}]
    /\ kernel_rsp \in [CPUs -> Procs \cup {Idle}] /\ user_rsp \in [CPUs -> Procs \cup {Idle}]
    /\ cr3 = [c \in CPUs |-> cr3[c]]
    /\ reapable \in SUBSET Procs /\ slipped \in SUBSET Procs
    /\ ld = [p \in Procs |-> ld[p]] /\ \A p \in Procs : IsLoad(ld[p])

\* Where a thread may be that has user page tables to itself, and one that is not on a
\* processor.
Alive == {"adopt", "enter", "user", "dispatch", "return"}
Off == {"entry", "init", "activate", "adopt", "enter", "user", "return"}
Running(c, t) == cur[c] = t /\ held[c] = NoSwitch

\* No thread is in the hands of two processors.
OwnCpu ==
    /\ \A c, d \in CPUs, t \in Procs : t \in {cur[c], held[c]} /\ t \in {cur[d], held[d]} => c = d
    /\ \A c \in CPUs : held[c] # cur[c]
\* A thread inside a system call with interrupts masked is on a processor, with its
\* stack pointer in that processor's slot.
ThreadOK(t) ==
    /\ th[t].pc = "unborn" \/ ld[t].pc = "loaded"
    /\ th[t].adopted <=> th[t].pc \in {"enter", "user", "dispatch", "return", "exit", "exited", "reaped"}
    /\ t \in reapable => th[t].pc = "exited"
    /\ th[t].pc = "exit" => \E c \in CPUs : Running(c, t)
    /\ th[t].pc = "adopt" /\ t \notin slipped => \E c \in CPUs : Running(c, t)
    /\ th[t].pc = "dispatch" => \E c \in CPUs : Running(c, t) /\ user_rsp[c] = th[t].rsp /\ cr3[c] = root_of(t)
    /\ th[t].pc = "return" /\ th[t].call # "Yield" => \E c \in CPUs : Running(c, t) /\ user_rsp[c] = th[t].rsp
\* A processor has the kernel stack and the root of the thread it runs; between the two
\* halves of a switch it still has those of the one it leaves.
CpuOK(c) ==
    /\ held[c] # NoSwitch /\ cur[c] \in Procs => th[cur[c]].pc \in Off
    /\ held[c] \in Procs => th[held[c]].pc \in Off \cup {"exited", "reaped"}
    /\ cur[c] \in Procs /\ held[c] = NoSwitch =>
         /\ kernel_rsp[c] = cur[c] /\ th[cur[c]].pc \notin {"unborn", "entry", "exited", "reaped"}
         /\ th[cur[c]].pc \in Alive => cr3[c] = root_of(cur[c]) \/ cur[c] \in slipped
    /\ cr3[c] # KernelRoot =>
         LET t == IF held[c] = NoSwitch THEN cur[c] ELSE held[c]
         IN  t \in Procs /\ th[t].pc \in Alive /\ cr3[c] = root_of(t)
CpuInv == OwnCpu /\ (\A t \in Procs : ThreadOK(t)) /\ (\A c \in CPUs : CpuOK(c))
-----------------------------------------------------------------------------
\* The constants that stand for no thread are told apart.
LEMMA Distinct == Idle \notin Procs /\ NoSwitch \notin Procs /\ NoSwitch # Idle
BY ProcessConstants

\* What Init says of each part.
LEMMA InitCpu == Init => TypeOK /\ CpuInv
<1> SUFFICES ASSUME Init PROVE TypeOK /\ CpuInv
  BY SMT
<1>1. th \in [Procs -> ThreadRecord]
  BY DEF Init, ThreadRecord, ThreadPc
<1>2. /\ ld = [p \in Procs |-> ld[p]] /\ \A p \in Procs : IsLoad(ld[p])
  BY DEF Init, IsLoad, IsSpace, NoSpace
<1>3. TypeOK
  BY <1>1, <1>2 DEF Init, TypeOK
<1>4. OwnCpu
  BY Distinct DEF Init, OwnCpu
<1>5. ASSUME NEW t \in Procs PROVE ThreadOK(t)
  <2>1. th[t].pc = "unborn" /\ th[t].adopted = FALSE
    BY DEF Init
  <2> QED BY <2>1, SMT DEF Init, ThreadOK
<1>6. ASSUME NEW c \in CPUs PROVE CpuOK(c)
  BY Distinct DEF Init, CpuOK
<1> QED BY <1>3, <1>4, <1>5, <1>6 DEF CpuInv

\* A step that concerns one processor and the threads K in its hands, before or after,
\* leaves the rest as it was: only that processor and those threads need a look.
LEMMA Local ==
    ASSUME CpuInv, NEW c \in CPUs, NEW K \in SUBSET Procs, ld' = ld,
           \A t \in Procs : t \in {cur[c], held[c], cur'[c], held'[c]} => t \in K,
           \A d \in CPUs : d # c =>
               /\ cur[d] \notin K /\ held[d] \notin K
               /\ cur'[d] = cur[d] /\ held'[d] = held[d] /\ cr3'[d] = cr3[d]
               /\ kernel_rsp'[d] = kernel_rsp[d] /\ user_rsp'[d] = user_rsp[d],
           \A t \in Procs \ K : th'[t] = th[t] /\ (t \in slipped' <=> t \in slipped)
                                /\ (t \in reapable' <=> t \in reapable),
           \A t \in K : ThreadOK(t)', CpuOK(c)', held'[c] # cur'[c]
    PROVE  CpuInv'
<1>1. OwnCpu'
  <2>1. ASSUME NEW a \in CPUs, NEW b \in CPUs, NEW t \in Procs,
               t \in {cur'[a], held'[a]}, t \in {cur'[b], held'[b]}
        PROVE  a = b
    <3>1. CASE a # c /\ b # c
      <4>1. t \in {cur[a], held[a]} /\ t \in {cur[b], held[b]}
        BY <2>1, <3>1
      <4> QED BY <4>1 DEF CpuInv, OwnCpu
    <3>2. ASSUME NEW d \in CPUs, d # c, t \in {cur'[d], held'[d]}, t \in {cur'[c], held'[c]}
          PROVE  FALSE
      BY <3>2, ZenonT(60)
    <3> QED BY <2>1, <3>1, <3>2
  <2>2. ASSUME NEW d \in CPUs PROVE held'[d] # cur'[d]
    BY DEF CpuInv, OwnCpu
  <2> QED BY <2>1, <2>2 DEF OwnCpu
<1>2. ASSUME NEW t \in Procs PROVE ThreadOK(t)'
  <2>1. CASE t \in K
    BY <2>1
  <2>2. CASE t \notin K
    <3>1. ThreadOK(t)
      BY DEF CpuInv
    <3>2. th'[t] = th[t] /\ (t \in slipped' <=> t \in slipped) /\ (t \in reapable' <=> t \in reapable)
      BY <2>2
    <3>3. \A d \in CPUs : Running(d, t) => /\ Running(d, t)' /\ user_rsp'[d] = user_rsp[d] /\ cr3'[d] = cr3[d]
      BY <2>2 DEF Running
    <3>4. root_of(t)' = root_of(t) /\ ld'[t].pc = ld[t].pc
      BY DEF root_of
    <3>5. (\E d \in CPUs : Running(d, t)) => \E d \in CPUs : Running(d, t)'
      BY <3>3
    <3>6. (\E d \in CPUs : Running(d, t) /\ user_rsp[d] = th[t].rsp)
            => \E d \in CPUs : Running(d, t)' /\ user_rsp'[d] = th'[t].rsp
      BY <3>2, <3>3
    <3>7. (\E d \in CPUs : Running(d, t) /\ user_rsp[d] = th[t].rsp /\ cr3[d] = root_of(t))
            => \E d \in CPUs : Running(d, t)' /\ user_rsp'[d] = th'[t].rsp /\ cr3'[d] = root_of(t)'
      BY <3>2, <3>3, <3>4
    <3> QED BY <3>1, <3>2, <3>4, <3>5, <3>6, <3>7 DEF ThreadOK
  <2> QED BY <2>1, <2>2
<1>3. ASSUME NEW d \in CPUs PROVE CpuOK(d)'
  <2>1. CASE d # c
    <3>1. CpuOK(d)
      BY DEF CpuInv
    <3>2. /\ cur'[d] = cur[d] /\ held'[d] = held[d] /\ cr3'[d] = cr3[d] /\ kernel_rsp'[d] = kernel_rsp[d]
          /\ cur[d] \in Procs => th'[cur[d]] = th[cur[d]] /\ (cur[d] \in slipped' <=> cur[d] \in slipped)
          /\ held[d] \in Procs => th'[held[d]] = th[held[d]]
      BY <2>1
    <3> QED BY <3>1, <3>2, ZenonT(60) DEF CpuOK, root_of
  <2> QED BY <2>1
<1> QED BY <1>1, <1>2, <1>3 DEF CpuInv

\* A thread that only moves on keeps everything else it has.
LEMMA PcMove ==
    ASSUME TypeOK, NEW t \in Procs, NEW pc \in ThreadPc, th' = [th EXCEPT ![t].pc = pc]
    PROVE  /\ th' \in [Procs -> ThreadRecord]
           /\ \A s \in Procs : s # t => th'[s] = th[s]
           /\ th'[t].pc = pc /\ th'[t].rsp = th[t].rsp /\ th'[t].call = th[t].call
           /\ th'[t].adopted <=> th[t].adopted
           /\ th'[t].ret = th[t].ret
<1>1. th[t] \in ThreadRecord
  BY DEF TypeOK
<1>2. /\ [th[t] EXCEPT !.pc = pc] \in ThreadRecord
      /\ [th[t] EXCEPT !.pc = pc].pc = pc
      /\ [th[t] EXCEPT !.pc = pc].rsp = th[t].rsp
      /\ [th[t] EXCEPT !.pc = pc].call = th[t].call
      /\ [th[t] EXCEPT !.pc = pc].adopted = th[t].adopted
      /\ [th[t] EXCEPT !.pc = pc].ret = th[t].ret
  BY <1>1 DEF ThreadRecord
<1>3. th' = [th EXCEPT ![t] = [th[t] EXCEPT !.pc = pc]]
  OBVIOUS
<1>4. th'[t] = [th[t] EXCEPT !.pc = pc] /\ \A s \in Procs : s # t => th'[s] = th[s]
  BY <1>3 DEF TypeOK
<1>5. th' \in [Procs -> ThreadRecord]
  BY <1>2, <1>3 DEF TypeOK
<1> QED BY <1>2, <1>4, <1>5

\* What the steps of a running thread leave alone.
Here(c, t) ==
    /\ ld' = ld /\ cur' = cur /\ held' = held /\ kernel_rsp' = kernel_rsp
    /\ slipped' = slipped /\ reapable' = reapable
    /\ \A d \in CPUs : d # c => cr3'[d] = cr3[d] /\ user_rsp'[d] = user_rsp[d]
    /\ \A s \in Procs : s # t => th'[s] = th[s]
    /\ Running(c, t)
\* What the thread's new place asks for.
Settled(c, t) ==
    /\ th'[t].pc \notin {"unborn", "entry", "exited", "reaped"}
    /\ th'[t].adopted <=> th'[t].pc \in {"enter", "user", "dispatch", "return", "exit", "exited", "reaped"}
    /\ th'[t].pc = "dispatch" => user_rsp'[c] = th'[t].rsp /\ cr3'[c] = root_of(t)
    /\ th'[t].pc = "return" /\ th'[t].call # "Yield" => user_rsp'[c] = th'[t].rsp
    /\ th'[t].pc \in Alive => cr3'[c] = root_of(t) \/ t \in slipped
    /\ cr3'[c] # KernelRoot => th'[t].pc \in Alive /\ cr3'[c] = root_of(t)

\* A thread running on c goes on running there.
LEMMA Stay ==
    ASSUME CpuInv, NEW c \in CPUs, NEW t \in Procs, Here(c, t), Settled(c, t)
    PROVE  CpuInv'
<1> USE DEF Here, Settled
<1>1. CpuOK(c) /\ ThreadOK(t) /\ OwnCpu
  BY DEF CpuInv
<1>2. /\ th[t].pc \notin {"unborn", "entry", "exited", "reaped"} /\ kernel_rsp[c] = t
  BY <1>1 DEF CpuOK, Running
<1>3. ld[t].pc = "loaded" /\ t \notin reapable
  BY <1>1, <1>2 DEF ThreadOK
<1>4. Running(c, t)'
  BY DEF Running
<1>5. root_of(t)' = root_of(t)
  BY DEF root_of
<1>6. ThreadOK(t)'
  BY <1>3, <1>4, <1>5 DEF ThreadOK
<1>7. CpuOK(c)'
  BY <1>2, <1>5, Distinct DEF CpuOK, Running
<1>8. \A d \in CPUs : d # c => cur[d] # t /\ held[d] # t
  BY <1>1 DEF OwnCpu, Running
<1>9. held'[c] # cur'[c]
  BY <1>1 DEF OwnCpu
<1> DEFINE K == {t}
<1>10. \A s \in Procs : s \in {cur[c], held[c], cur'[c], held'[c]} => s \in K
  BY Distinct DEF Running
<1>11. \A d \in CPUs : d # c =>
               /\ cur[d] \notin K /\ held[d] \notin K
               /\ cur'[d] = cur[d] /\ held'[d] = held[d] /\ cr3'[d] = cr3[d]
               /\ kernel_rsp'[d] = kernel_rsp[d] /\ user_rsp'[d] = user_rsp[d]
  BY <1>8
<1>12. \A s \in Procs \ K : th'[s] = th[s] /\ (s \in slipped' <=> s \in slipped)
                                /\ (s \in reapable' <=> s \in reapable)
  OBVIOUS
<1>13. K \in SUBSET Procs /\ \A s \in K : ThreadOK(s)'
  BY <1>6
<1> HIDE DEF K
<1> QED BY <1>7, <1>9, <1>10, <1>11, <1>12, <1>13, Local

\* The thread of a processor in the middle of nothing, as its invariant describes it.
LEMMA RunningFacts ==
    ASSUME CpuInv, NEW c \in CPUs, NEW t \in Procs, Running(c, t)
    PROVE  /\ kernel_rsp[c] = t /\ ld[t].pc = "loaded"
           /\ th[t].pc \in Alive => cr3[c] = root_of(t) \/ t \in slipped
           /\ cr3[c] # KernelRoot => th[t].pc \in Alive /\ cr3[c] = root_of(t)
           /\ th[t].adopted <=> th[t].pc \in {"enter", "user", "dispatch", "return", "exit", "exited", "reaped"}
           /\ th[t].pc = "dispatch" => user_rsp[c] = th[t].rsp /\ cr3[c] = root_of(t)
           /\ th[t].pc = "return" /\ th[t].call # "Yield" => user_rsp[c] = th[t].rsp
<1>1. CpuOK(c) /\ ThreadOK(t)
  BY DEF CpuInv
<1>2. \A d \in CPUs : Running(d, t) => d = c
  BY DEF CpuInv, OwnCpu, Running
<1>3. kernel_rsp[c] = t /\ th[t].pc \notin {"unborn", "entry", "exited", "reaped"}
  BY <1>1 DEF CpuOK, Running
<1>4. th[t].pc \in Alive => cr3[c] = root_of(t) \/ t \in slipped
  BY <1>1 DEF CpuOK, Running
<1>5. cr3[c] # KernelRoot => th[t].pc \in Alive /\ cr3[c] = root_of(t)
  BY <1>1 DEF CpuOK, Running
<1>6. th[t].pc = "dispatch" => user_rsp[c] = th[t].rsp /\ cr3[c] = root_of(t)
  BY <1>1, <1>2 DEF ThreadOK
<1>7. th[t].pc = "return" /\ th[t].call # "Yield" => user_rsp[c] = th[t].rsp
  BY <1>1, <1>2 DEF ThreadOK
<1> QED BY <1>1, <1>3, <1>4, <1>5, <1>6, <1>7 DEF ThreadOK

\* A step of t that hands it no stack pointer and no answer from write, and frees nothing.
Quiet(t) ==
    /\ \A s \in Procs : s # t => th'[s] = th[s]
    /\ th'[t].rsp = th[t].rsp /\ th'[t].pc # "reaped"
    /\ th'[t].pc = "return" => th'[t].call # "Write"

\* The first steps of user_thread_entry, until the space is activated.
LEMMA EntrySteps ==
    ASSUME TypeOK, CpuInv, NEW c \in CPUs, NEW t \in Procs, InitSyscalls(c, t) \/ activate(c, t)
    PROVE  TypeOK' /\ CpuInv' /\ Quiet(t)
<1>0. /\ ld' = ld /\ cur' = cur /\ held' = held /\ kernel_rsp' = kernel_rsp /\ user_rsp' = user_rsp
      /\ slipped' = slipped /\ reapable' = reapable /\ Running(c, t)
  BY DEF InitSyscalls, activate, At, cpu, tally, Running
<1>1. CASE InitSyscalls(c, t)
  <2>1. th' = [th EXCEPT ![t].pc = "activate"] /\ cr3' = cr3 /\ th[t].pc = "init"
    BY <1>1 DEF InitSyscalls, cpu, At
  <2>2. /\ th' \in [Procs -> ThreadRecord] /\ \A s \in Procs : s # t => th'[s] = th[s]
        /\ th'[t].pc = "activate" /\ th'[t].rsp = th[t].rsp /\ (th'[t].adopted <=> th[t].adopted)
    BY <2>1, PcMove DEF ThreadPc
  <2>3. TypeOK'
    BY <1>0, <2>1, <2>2 DEF TypeOK
  <2>4. Here(c, t)
    BY <1>0, <2>1, <2>2 DEF Here
  <2>5. cr3[c] = KernelRoot /\ ~th[t].adopted
    BY <1>0, <2>1, RunningFacts DEF Alive
  <2>6. Settled(c, t)
    BY <2>1, <2>2, <2>5 DEF Settled, Alive
  <2>7. Quiet(t)
    BY <2>2 DEF Quiet
  <2> QED BY <2>3, <2>4, <2>6, <2>7, Stay
<1>2. CASE activate(c, t)
  <2>1. /\ th' = [th EXCEPT ![t].pc = "adopt"] /\ cr3' = [cr3 EXCEPT ![c] = root_of(t)]
        /\ th[t].pc = "activate"
    BY <1>2 DEF activate, At
  <2>2. /\ th' \in [Procs -> ThreadRecord] /\ \A s \in Procs : s # t => th'[s] = th[s]
        /\ th'[t].pc = "adopt" /\ th'[t].rsp = th[t].rsp /\ (th'[t].adopted <=> th[t].adopted)
    BY <2>1, PcMove DEF ThreadPc
  <2>3. /\ cr3' = [d \in CPUs |-> cr3'[d]] /\ cr3'[c] = root_of(t)
        /\ \A d \in CPUs : d # c => cr3'[d] = cr3[d]
    BY <2>1 DEF TypeOK
  <2>4. TypeOK'
    BY <1>0, <2>2, <2>3 DEF TypeOK
  <2>5. Here(c, t)
    BY <1>0, <2>2, <2>3 DEF Here
  <2>6. ~th[t].adopted
    BY <1>0, <2>1, RunningFacts
  <2>7. Settled(c, t)
    BY <2>2, <2>3, <2>6 DEF Settled, Alive
  <2>8. Quiet(t)
    BY <2>2 DEF Quiet
  <2> QED BY <2>4, <2>5, <2>7, <2>8, Stay
<1> QED BY <1>1, <1>2

\* What a step writes into the record of one thread, field by field.
Field(t, pc, adopted, rsp, call, ret) ==
    /\ th' \in [Procs -> ThreadRecord]
    /\ \A s \in Procs : s # t => th'[s] = th[s]
    /\ th'[t].pc = pc /\ th'[t].adopted = adopted /\ th'[t].rsp = rsp /\ th'[t].call = call /\ th'[t].ret = ret

\* A record stored whole.
LEMMA Stored ==
    ASSUME TypeOK, NEW t \in Procs, NEW r \in ThreadRecord, th' = [th EXCEPT ![t] = r]
    PROVE  Field(t, r.pc, r.adopted, r.rsp, r.call, r.ret)
BY DEF TypeOK, Field

\* adopt_address_space and enter_user: the thread's own root, or none of it.
LEMMA AdoptSteps ==
    ASSUME TypeOK, CpuInv, NEW c \in CPUs, NEW t \in Procs, adopt_address_space(c, t) \/ enter_user(c, t)
    PROVE  TypeOK' /\ CpuInv' /\ Quiet(t)
<1>0. /\ ld' = ld /\ cur' = cur /\ held' = held /\ kernel_rsp' = kernel_rsp /\ user_rsp' = user_rsp
      /\ cr3' = cr3 /\ slipped' = slipped /\ reapable' = reapable /\ Running(c, t)
  BY DEF adopt_address_space, enter_user, At, cpu, tally, Running
<1>1. /\ th' \in [Procs -> ThreadRecord] /\ \A s \in Procs : s # t => th'[s] = th[s]
      /\ th'[t].pc \in {"enter", "user"} /\ th'[t].adopted /\ th'[t].rsp = th[t].rsp
      /\ th[t].pc \in Alive
  <2>1. CASE adopt_address_space(c, t)
    <3>1. th' = [th EXCEPT ![t] = [th[t] EXCEPT !.pc = "enter", !.adopted = TRUE]] /\ th[t].pc = "adopt"
      BY <2>1 DEF adopt_address_space, At
    <3>2. /\ [th[t] EXCEPT !.pc = "enter", !.adopted = TRUE] \in ThreadRecord
          /\ [th[t] EXCEPT !.pc = "enter", !.adopted = TRUE].pc = "enter"
          /\ [th[t] EXCEPT !.pc = "enter", !.adopted = TRUE].adopted = TRUE
          /\ [th[t] EXCEPT !.pc = "enter", !.adopted = TRUE].rsp = th[t].rsp
      <4>1. th[t] \in ThreadRecord
        BY DEF TypeOK
      <4> QED BY <4>1 DEF ThreadRecord, ThreadPc
    <3> QED BY <3>1, <3>2, Stored DEF Field, Alive
  <2>2. CASE enter_user(c, t)
    <3>1. th' = [th EXCEPT ![t].pc = "user"] /\ th[t].pc = "enter"
      BY <2>2 DEF enter_user, At
    <3>2. th[t].adopted
      BY <1>0, <3>1, RunningFacts
    <3> QED BY <3>1, <3>2, PcMove DEF ThreadPc, Alive
  <2> QED BY <2>1, <2>2
<1>2. TypeOK'
  BY <1>0, <1>1 DEF TypeOK
<1>3. Here(c, t)
  BY <1>0, <1>1 DEF Here
<1>4. /\ cr3[c] = root_of(t) \/ t \in slipped
      /\ cr3[c] # KernelRoot => cr3[c] = root_of(t)
  BY <1>0, <1>1, RunningFacts
<1>5. Settled(c, t)
  BY <1>0, <1>1, <1>4 DEF Settled, Alive
<1>6. Quiet(t)
  BY <1>1 DEF Quiet
<1> QED BY <1>2, <1>3, <1>5, <1>6, Stay

\* syscall_entry saves the stack pointer in the processor's slot.
LEMMA EntryCall ==
    ASSUME TypeOK, CpuInv, NEW c \in CPUs, NEW t \in Procs, NEW call \in Calls, syscall_entry(c, t, call)
    PROVE  /\ TypeOK' /\ CpuInv' /\ th'[t].pc = "dispatch" /\ th'[t].rsp = th[t].rsp
           /\ \A s \in Procs : s # t => th'[s] = th[s]
<1> DEFINE r == [th[t] EXCEPT !.pc = "dispatch", !.call = call, !.n = @ + 1]
<1>0. /\ ld' = ld /\ cur' = cur /\ held' = held /\ kernel_rsp' = kernel_rsp /\ cr3' = cr3
      /\ slipped' = slipped /\ reapable' = reapable /\ Running(c, t)
      /\ cr3[c] = root_of(t) /\ th[t].pc = "user"
      /\ user_rsp' = [user_rsp EXCEPT ![c] = th[t].rsp]
  BY DEF syscall_entry, At, tally, Running
<1>1. th' = [th EXCEPT ![t] = r]
  BY DEF syscall_entry
<1>2. th[t] \in ThreadRecord /\ th[t].n + 1 \in Nat
  BY SMT DEF TypeOK, ThreadRecord
<1>3. r \in ThreadRecord /\ r.pc = "dispatch" /\ r.rsp = th[t].rsp /\ r.adopted = th[t].adopted
  BY <1>2 DEF ThreadRecord, ThreadPc
<1> HIDE DEF r
<1>4. Field(t, r.pc, r.adopted, r.rsp, r.call, r.ret)
  BY <1>1, <1>3, Stored
<1>5. th[t].rsp \in Procs \cup {Idle}
  BY <1>2 DEF ThreadRecord
<1>6. /\ user_rsp' \in [CPUs -> Procs \cup {Idle}] /\ user_rsp'[c] = th[t].rsp
      /\ \A d \in CPUs : d # c => user_rsp'[d] = user_rsp[d]
  BY <1>0, <1>5 DEF TypeOK
<1>7. TypeOK'
  BY <1>0, <1>4, <1>6 DEF TypeOK, Field
<1>8. Here(c, t)
  BY <1>0, <1>4, <1>6 DEF Here, Field
<1>9. th[t].adopted
  BY <1>0, RunningFacts
<1>10. th'[t].pc = "dispatch" /\ th'[t].rsp = th[t].rsp /\ th'[t].adopted
  BY <1>3, <1>4, <1>9 DEF Field
<1>11. Settled(c, t)
  BY <1>0, <1>6, <1>10 DEF Settled, Alive
<1> QED BY <1>4, <1>7, <1>8, <1>10, <1>11, Stay DEF Field

\* write answers with one of its results.
LEMMA WriteAnswers == \A c, ptr, len : sys_write(c, ptr, len) \in Answer
BY DEF sys_write, Answer

\* handle leaves its answer and goes on to sysret, in the same processor.
LEMMA HandleStep ==
    ASSUME TypeOK, CpuInv, NEW c \in CPUs, NEW t \in Procs, handle(c, t)
    PROVE  /\ TypeOK' /\ CpuInv' /\ th'[t].pc = "return" /\ th'[t].rsp = th[t].rsp
           /\ \A s \in Procs : s # t => th'[s] = th[s]
           /\ th'[t].call = th[t].call
           /\ th[t].call = "Write" => \E w \in Writes : th'[t].ret = <<w, sys_write(c, w[1], w[2])>>
<1>0. /\ ld' = ld /\ cur' = cur /\ held' = held /\ kernel_rsp' = kernel_rsp /\ user_rsp' = user_rsp
      /\ cr3' = cr3 /\ slipped' = slipped /\ reapable' = reapable /\ Running(c, t)
      /\ th[t].pc = "dispatch"
  BY DEF handle, At, cpu, tally, Running
<1>1. PICK w \in IF th[t].call = "Write" THEN Writes ELSE {<<0, 0>>} :
         th' = [th EXCEPT ![t].pc = "return",
                          ![t].ret = CASE th[t].call = "Write" -> <<w, sys_write(c, w[1], w[2])>>
                                       [] th[t].call = "GetPid" -> <<w, "pid">>
                                       [] th[t].call = "Open" -> <<w, "NotSupported">>
                                       [] OTHER -> <<w, "BadSyscall">>]
  BY DEF handle
<1> DEFINE a == CASE th[t].call = "Write" -> sys_write(c, w[1], w[2])
                  [] th[t].call = "GetPid" -> "pid"
                  [] th[t].call = "Open" -> "NotSupported"
                  [] OTHER -> "BadSyscall"
           r == [th[t] EXCEPT !.pc = "return", !.ret = <<w, a>>]
<1>2. a \in Answer
  BY WriteAnswers DEF Answer
<1>3. (th[t].call = "Write" => w \in Writes /\ a = sys_write(c, w[1], w[2])) /\ w \in Asked
  BY SMT DEF Asked
<1>4. (CASE th[t].call = "Write" -> <<w, sys_write(c, w[1], w[2])>>
         [] th[t].call = "GetPid" -> <<w, "pid">>
         [] th[t].call = "Open" -> <<w, "NotSupported">>
         [] OTHER -> <<w, "BadSyscall">>) = <<w, a>>
  BY SMT
<1> HIDE DEF a
<1>5. th' = [th EXCEPT ![t] = r]
  BY <1>1, <1>4
<1>6. <<w, a>> \in {"none"} \cup (Asked \X Answer)
  BY <1>2, <1>3
<1>7. r \in ThreadRecord /\ r.pc = "return" /\ r.rsp = th[t].rsp /\ r.adopted = th[t].adopted
      /\ r.ret = <<w, a>> /\ r.call = th[t].call
  <2>1. th[t] \in ThreadRecord
    BY DEF TypeOK
  <2> QED BY <1>6, <2>1 DEF ThreadRecord, ThreadPc
<1> HIDE DEF r
<1>8. Field(t, r.pc, r.adopted, r.rsp, r.call, r.ret)
  BY <1>5, <1>7, Stored
<1>9. TypeOK'
  BY <1>0, <1>8 DEF TypeOK, Field
<1>10. Here(c, t)
  BY <1>0, <1>8 DEF Here, Field
<1>11. th[t].adopted /\ user_rsp[c] = th[t].rsp /\ cr3[c] = root_of(t)
  BY <1>0, RunningFacts
<1>12. th'[t].pc = "return" /\ th'[t].rsp = th[t].rsp /\ th'[t].adopted /\ th'[t].ret = <<w, a>>
       /\ th'[t].call = th[t].call
  BY <1>7, <1>8, <1>11 DEF Field
<1>13. Settled(c, t)
  BY <1>0, <1>11, <1>12 DEF Settled, Alive
<1> QED BY <1>3, <1>8, <1>9, <1>10, <1>12, <1>13, Stay DEF Field

\* sysret restores the stack pointer from the slot: the one saved, unless the thread
\* gave up the processor in Yield.
LEMMA SysretStep ==
    ASSUME TypeOK, CpuInv, NEW c \in CPUs, NEW t \in Procs, sysret(c, t)
    PROVE  /\ TypeOK' /\ CpuInv' /\ th'[t].pc = "user" /\ (th[t].call # "Yield" => th'[t].rsp = th[t].rsp)
           /\ \A s \in Procs : s # t => th'[s] = th[s]
<1>0. /\ ld' = ld /\ cur' = cur /\ held' = held /\ kernel_rsp' = kernel_rsp /\ user_rsp' = user_rsp
      /\ cr3' = cr3 /\ slipped' = slipped /\ reapable' = reapable /\ Running(c, t)
      /\ th[t].pc = "return"
  BY DEF sysret, At, cpu, tally, Running
<1> DEFINE r == [th[t] EXCEPT !.pc = "user", !.rsp = user_rsp[c], !.call = "none", !.ret = "none"]
<1>1. th' = [th EXCEPT ![t] = r]
  BY DEF sysret
<1>2. th[t] \in ThreadRecord /\ user_rsp[c] \in Procs \cup {Idle}
  BY DEF TypeOK
<1>3. r \in ThreadRecord /\ r.pc = "user" /\ r.rsp = user_rsp[c] /\ r.adopted = th[t].adopted
  BY <1>2 DEF ThreadRecord, ThreadPc
<1> HIDE DEF r
<1>4. Field(t, r.pc, r.adopted, r.rsp, r.call, r.ret)
  BY <1>1, <1>3, Stored
<1>5. TypeOK'
  BY <1>0, <1>4 DEF TypeOK, Field
<1>6. Here(c, t)
  BY <1>0, <1>4 DEF Here, Field
<1>7. /\ th[t].adopted /\ (th[t].call # "Yield" => user_rsp[c] = th[t].rsp)
      /\ cr3[c] = root_of(t) \/ t \in slipped
      /\ cr3[c] # KernelRoot => cr3[c] = root_of(t)
  <2>1. th[t].pc \in Alive
    BY <1>0 DEF Alive
  <2> QED BY <1>0, <2>1, RunningFacts
<1>8. th'[t].pc = "user" /\ th'[t].rsp = user_rsp[c] /\ th'[t].adopted
  BY <1>3, <1>4, <1>7 DEF Field
<1>9. Settled(c, t)
  BY <1>0, <1>7, <1>8 DEF Settled, Alive
<1> QED BY <1>4, <1>5, <1>6, <1>7, <1>8, <1>9, Stay DEF Field

\* Exit and a fault in ring 3: off the process's tables before the thread ends.
LEMMA LeaveSteps ==
    ASSUME TypeOK, CpuInv, NEW c \in CPUs, NEW t \in Procs, Exit(c, t) \/ user_fault(c, t)
    PROVE  /\ TypeOK' /\ CpuInv' /\ th'[t].pc = "exit" /\ th'[t].rsp = th[t].rsp
           /\ \A s \in Procs : s # t => th'[s] = th[s]
<1>0. /\ ld' = ld /\ cur' = cur /\ held' = held /\ kernel_rsp' = kernel_rsp /\ user_rsp' = user_rsp
      /\ cr3' = [cr3 EXCEPT ![c] = KernelRoot] /\ slipped' = slipped /\ reapable' = reapable
      /\ Running(c, t) /\ th[t].pc \in {"dispatch", "user"} /\ th' = [th EXCEPT ![t].pc = "exit"]
  BY DEF Exit, user_fault, At, tally, Running, activate_kernel_root
<1>1. /\ th' \in [Procs -> ThreadRecord] /\ \A s \in Procs : s # t => th'[s] = th[s]
      /\ th'[t].pc = "exit" /\ (th'[t].adopted <=> th[t].adopted) /\ th'[t].rsp = th[t].rsp
  BY <1>0, PcMove DEF ThreadPc
<1>2. /\ cr3' = [d \in CPUs |-> cr3'[d]] /\ cr3'[c] = KernelRoot
      /\ \A d \in CPUs : d # c => cr3'[d] = cr3[d]
  BY <1>0 DEF TypeOK
<1>3. TypeOK'
  BY <1>0, <1>1, <1>2 DEF TypeOK
<1>4. Here(c, t)
  BY <1>0, <1>1, <1>2 DEF Here
<1>5. th[t].adopted
  BY <1>0, RunningFacts
<1>6. Settled(c, t)
  BY <1>1, <1>2, <1>5 DEF Settled, Alive
<1> QED BY <1>1, <1>3, <1>4, <1>6, Stay

\* Yield that finds no other thread.
LEMMA YieldStays ==
    ASSUME TypeOK, CpuInv, NEW c \in CPUs, NEW t \in Procs, Yield(c, t, t)
    PROVE  TypeOK' /\ CpuInv' /\ Quiet(t)
<1>0. /\ ld' = ld /\ cur' = cur /\ held' = held /\ kernel_rsp' = kernel_rsp /\ user_rsp' = user_rsp
      /\ cr3' = cr3 /\ slipped' = slipped /\ reapable' = reapable
      /\ Running(c, t) /\ th[t].pc = "dispatch" /\ th[t].call = "Yield" /\ th' = [th EXCEPT ![t].pc = "return"]
  BY DEF Yield, At, tally, Running
<1>1. /\ th' \in [Procs -> ThreadRecord] /\ \A s \in Procs : s # t => th'[s] = th[s]
      /\ th'[t].pc = "return" /\ (th'[t].adopted <=> th[t].adopted) /\ th'[t].call = "Yield"
      /\ th'[t].rsp = th[t].rsp
  BY <1>0, PcMove DEF ThreadPc
<1>2. TypeOK'
  BY <1>0, <1>1 DEF TypeOK
<1>3. Here(c, t)
  BY <1>0, <1>1 DEF Here
<1>4. th[t].adopted /\ cr3[c] = root_of(t)
  BY <1>0, RunningFacts
<1>5. Settled(c, t)
  BY <1>0, <1>1, <1>4 DEF Settled, Alive
<1>6. Quiet(t)
  BY <1>1 DEF Quiet
<1> QED BY <1>2, <1>3, <1>5, <1>6, Stay

\* What the first half of a switch leaves alone.
Switching(c, n) ==
    /\ ld' = ld /\ cr3' = cr3 /\ kernel_rsp' = kernel_rsp /\ user_rsp' = user_rsp
    /\ held[c] = NoSwitch /\ Switchable(c, n) /\ Leave(c, n)
    /\ \A s \in Procs : s # cur[c] => th'[s] = th[s] /\ (s \in slipped' <=> s \in slipped)
                                      /\ (s \in reapable' <=> s \in reapable)
\* What the thread that is left must be ready for.
Left(t) ==
    /\ th'[t].pc \in {"init", "activate", "adopt", "enter", "user", "return", "exited"}
    /\ th'[t].adopted <=> th'[t].pc \in {"enter", "user", "return", "exited"}
    /\ th'[t].pc = "return" => th'[t].call = "Yield"
    /\ th'[t].pc = "adopt" => t \in slipped'
    /\ t \in reapable' => th'[t].pc = "exited"
    /\ th[t].pc \in Alive => th'[t].pc \in Alive

\* A thread that is on no processor is where a switch may leave one.
LEMMA WaitingFacts ==
    ASSUME CpuInv, NEW t \in Procs, th[t].pc \in ThreadPc, \A c \in CPUs : ~Running(c, t)
    PROVE  /\ th[t].pc \notin {"exit", "dispatch"}
           /\ th[t].pc = "adopt" => t \in slipped
           /\ th[t].pc = "return" => th[t].call = "Yield"
           /\ th[t].pc \notin {"unborn", "exited", "reaped"} => th[t].pc \in Off
<1>1. ThreadOK(t)
  BY DEF CpuInv
<1>2. th[t].pc \notin {"exit", "dispatch"}
  BY <1>1 DEF ThreadOK
<1>3. (th[t].pc = "adopt" => t \in slipped) /\ (th[t].pc = "return" => th[t].call = "Yield")
  BY <1>1 DEF ThreadOK
<1>4. th[t].pc \notin {"unborn", "exited", "reaped"} => th[t].pc \in Off
  BY <1>2 DEF ThreadPc, Off
<1> QED BY <1>2, <1>3, <1>4

\* The first half of a switch.
LEMMA SwitchAway ==
    ASSUME TypeOK, CpuInv, NEW c \in CPUs, NEW n \in Procs \cup {Idle}, Switching(c, n),
           cur[c] \in Procs => Left(cur[c])
    PROVE  /\ cur' \in [CPUs -> Procs \cup {Idle}] /\ held' \in [CPUs -> Procs \cup {Idle, NoSwitch}]
           /\ CpuInv'
<1>0. PICK o \in Procs \cup {Idle} : o = cur[c]
  BY DEF TypeOK
<1> DEFINE K == {o, n} \cap Procs
<1>1. n # o /\ held[c] = NoSwitch /\ (n # Idle => Ready(n))
  BY <1>0 DEF Switching, Switchable
<1>2. /\ cur' = [cur EXCEPT ![c] = n] /\ held' = [held EXCEPT ![c] = o]
      /\ ld' = ld /\ cr3' = cr3 /\ kernel_rsp' = kernel_rsp /\ user_rsp' = user_rsp
  BY <1>0 DEF Switching, Leave
<1>3. /\ cur' \in [CPUs -> Procs \cup {Idle}] /\ held' \in [CPUs -> Procs \cup {Idle, NoSwitch}]
      /\ cur'[c] = n /\ held'[c] = o /\ o # NoSwitch
      /\ \A d \in CPUs : d # c => cur'[d] = cur[d] /\ held'[d] = held[d]
  BY <1>1, <1>2, Distinct DEF TypeOK
<1>4. /\ OwnCpu /\ CpuOK(c)
      /\ \A t \in Procs : th[t].pc \in ThreadPc
  BY DEF CpuInv, TypeOK, ThreadRecord
<1>5. \A d \in CPUs : d # c => cur[d] \notin K /\ held[d] \notin K
  BY <1>0, <1>1, <1>4, Distinct DEF OwnCpu, Ready
<1>6. ASSUME n \in Procs
      PROVE  /\ th'[n] = th[n] /\ th[n].pc \in Off
             /\ ThreadOK(n)'
  <2>1. Ready(n)
    BY <1>1, <1>6, Distinct
  <2>2. th'[n] = th[n] /\ (n \in slipped' <=> n \in slipped) /\ (n \in reapable' <=> n \in reapable)
    BY <1>0, <1>1, <1>6 DEF Switching
  <2>3. \A d \in CPUs : ~Running(d, n)
    BY <2>1 DEF Ready, Running
  <2>4. /\ th[n].pc \notin {"exit", "dispatch"}
        /\ th[n].pc = "adopt" => n \in slipped
        /\ th[n].pc = "return" => th[n].call = "Yield"
        /\ th[n].pc \in Off
    BY <1>4, <1>6, <2>1, <2>3, WaitingFacts DEF Ready
  <2>5. ThreadOK(n)
    BY <1>6 DEF CpuInv
  <2>6. ThreadOK(n)'
    BY <1>2, <2>2, <2>4, <2>5 DEF ThreadOK
  <2> QED BY <2>2, <2>4, <2>6
<1>7. ASSUME o \in Procs
      PROVE  ThreadOK(o)'
  <2>1. Left(o) /\ Running(c, o)
    BY <1>0, <1>1, <1>7 DEF Running
  <2>2. ld'[o].pc = "loaded"
    BY <1>2, <1>7, <2>1, RunningFacts
  <2>3. /\ th'[o].pc \notin {"unborn", "exit", "dispatch", "reaped"}
        /\ th'[o].adopted <=> th'[o].pc \in {"enter", "user", "dispatch", "return", "exit", "exited", "reaped"}
    BY <2>1 DEF Left
  <2> QED BY <2>1, <2>2, <2>3 DEF ThreadOK, Left
<1>8. CpuOK(c)'
  <2>1. held'[c] # NoSwitch /\ (cur'[c] \in Procs => th'[cur'[c]].pc \in Off)
    BY <1>3, <1>6
  <2>2. held'[c] \in Procs => th'[held'[c]].pc \in Off \cup {"exited", "reaped"}
    BY <1>0, <1>3 DEF Left, Off
  <2>3. cr3[c] # KernelRoot => o \in Procs /\ th'[o].pc \in Alive /\ cr3[c] = root_of(o)
    <3>1. cr3[c] # KernelRoot => o \in Procs /\ th[o].pc \in Alive /\ cr3[c] = root_of(o)
      BY <1>0, <1>1, <1>4 DEF CpuOK
    <3> QED BY <1>0, <3>1 DEF Left
  <2>4. root_of(o)' = root_of(o)
    BY <1>2 DEF root_of
  <2> QED BY <1>2, <1>3, <2>1, <2>2, <2>3, <2>4 DEF CpuOK, root_of
<1>9. CpuInv'
  <2>1. \A t \in Procs : t \in {cur[c], held[c], cur'[c], held'[c]} => t \in K
    BY <1>0, <1>1, <1>3, Distinct
  <2>2. \A d \in CPUs : d # c =>
               /\ cur[d] \notin K /\ held[d] \notin K
               /\ cur'[d] = cur[d] /\ held'[d] = held[d] /\ cr3'[d] = cr3[d]
               /\ kernel_rsp'[d] = kernel_rsp[d] /\ user_rsp'[d] = user_rsp[d]
    BY <1>2, <1>3, <1>5
  <2>3. \A s \in Procs \ K : th'[s] = th[s] /\ (s \in slipped' <=> s \in slipped)
                                /\ (s \in reapable' <=> s \in reapable)
    BY <1>0 DEF Switching
  <2>4. \A s \in K : ThreadOK(s)'
    BY <1>6, <1>7
  <2>5. held'[c] # cur'[c] /\ K \in SUBSET Procs
    BY <1>1, <1>3
  <2> HIDE DEF K
  <2> QED BY <1>2, <1>8, <2>1, <2>2, <2>3, <2>4, <2>5, Local
<1> QED BY <1>3, <1>9

\* preempt: the thread is left wherever interrupts were on.
LEMMA PreemptStep ==
    ASSUME TypeOK, CpuInv, NEW c \in CPUs, NEW n \in Procs \cup {Idle}, Preempt(c, n)
    PROVE  TypeOK' /\ CpuInv'
<1>1. /\ ld' = ld /\ th' = th /\ cr3' = cr3 /\ kernel_rsp' = kernel_rsp /\ user_rsp' = user_rsp
      /\ reapable' = reapable /\ held[c] = NoSwitch /\ Switchable(c, n) /\ Leave(c, n)
      /\ slipped' = IF cur[c] # Idle /\ th[cur[c]].pc = "adopt" THEN slipped \cup {cur[c]} ELSE slipped
      /\ cur[c] # Idle => th[cur[c]].pc \in Interruptible
  BY DEF Preempt, IrqOn
<1>2. slipped' \in SUBSET Procs /\ \A s \in Procs : s # cur[c] => (s \in slipped' <=> s \in slipped)
  <2>1. cur[c] \in Procs \cup {Idle}
    BY DEF TypeOK
  <2> QED BY <1>1, <2>1 DEF TypeOK
<1>3. Switching(c, n)
  BY <1>1, <1>2 DEF Switching
<1>4. ASSUME NEW t \in Procs, t = cur[c] PROVE Left(t)
  <2>1. t # Idle /\ Running(c, t)
    BY <1>1, <1>4, Distinct DEF Running
  <2>2. th[t].pc \in {"init", "activate", "adopt", "enter", "user"} /\ (th[t].pc = "adopt" => t \in slipped')
    BY <1>1, <1>4, <2>1 DEF Interruptible
  <2>3. /\ th[t].adopted <=> th[t].pc \in {"enter", "user", "dispatch", "return", "exit", "exited", "reaped"}
        /\ t \in reapable => th[t].pc = "exited"
    BY DEF CpuInv, ThreadOK
  <2>4. th[t].adopted <=> th[t].pc \in {"enter", "user", "return", "exited"}
    BY <2>2, <2>3
  <2>5. th[t].pc # "return"
    BY <2>2
  <2> QED BY <1>1, <2>2, <2>3, <2>4, <2>5 DEF Left
<1>5. /\ cur' \in [CPUs -> Procs \cup {Idle}] /\ held' \in [CPUs -> Procs \cup {Idle, NoSwitch}]
      /\ CpuInv'
  BY <1>3, <1>4, SwitchAway
<1>6. TypeOK'
  BY <1>1, <1>2, <1>5 DEF TypeOK
<1> QED BY <1>5, <1>6

\* Yield to another thread, and the end of a thread in exit_current.
LEMMA GiveUpSteps ==
    ASSUME TypeOK, CpuInv, NEW c \in CPUs, NEW t \in Procs, NEW n \in Procs \cup {Idle},
           (Yield(c, t, n) /\ n # t) \/ exit_current(c, t, n)
    PROVE  /\ TypeOK' /\ CpuInv' /\ th'[t].rsp = th[t].rsp /\ th'[t].pc \in {"return", "exited"}
           /\ (th'[t].pc = "return" => th'[t].call = "Yield")
           /\ \A s \in Procs : s # t => th'[s] = th[s]
<1>1. /\ ld' = ld /\ cr3' = cr3 /\ kernel_rsp' = kernel_rsp /\ user_rsp' = user_rsp
      /\ slipped' = slipped /\ Running(c, t) /\ Switchable(c, n) /\ Leave(c, n)
  BY DEF Yield, exit_current, At, Running, tally
<1>2. PICK pc \in {"return", "exited"} :
        /\ th' = [th EXCEPT ![t].pc = pc]
        /\ th[t].pc \in {"dispatch", "exit"}
        /\ pc = "return" => th[t].call = "Yield" /\ reapable' = reapable
        /\ pc = "exited" => reapable' = reapable \cup {t} /\ th[t].pc = "exit"
  BY DEF Yield, exit_current, At, tally
<1>3. /\ th' \in [Procs -> ThreadRecord] /\ \A s \in Procs : s # t => th'[s] = th[s]
      /\ th'[t].pc = pc /\ (th'[t].adopted <=> th[t].adopted)
      /\ th'[t].call = th[t].call /\ th'[t].rsp = th[t].rsp
  <2>1. pc \in ThreadPc
    BY DEF ThreadPc
  <2> QED BY <1>2, <2>1, PcMove
<1>4. reapable' \in SUBSET Procs /\ \A s \in Procs : s # t => (s \in reapable' <=> s \in reapable)
  BY <1>2 DEF TypeOK
<1>5. Switching(c, n) /\ cur[c] = t
  BY <1>1, <1>3, <1>4 DEF Switching, Running
<1>6. Left(t)
  <2>1. th[t].adopted /\ t \notin reapable
    BY <1>2 DEF CpuInv, ThreadOK
  <2>2. t \in reapable' => th'[t].pc = "exited"
    BY <1>2, <1>3, <2>1
  <2>3. th[t].pc \in Alive => th'[t].pc \in Alive
    BY <1>2, <1>3 DEF Alive
  <2>4. th'[t].pc = "return" => th'[t].call = "Yield"
    BY <1>2, <1>3
  <2>5. th'[t].pc # "adopt" /\ th'[t].adopted
    BY <1>3, <2>1
  <2> QED BY <1>3, <2>2, <2>3, <2>4, <2>5 DEF Left
<1>7. /\ cur' \in [CPUs -> Procs \cup {Idle}] /\ held' \in [CPUs -> Procs \cup {Idle, NoSwitch}]
      /\ CpuInv'
  BY <1>5, <1>6, SwitchAway
<1>8. TypeOK'
  BY <1>1, <1>3, <1>4, <1>7 DEF TypeOK
<1> QED BY <1>2, <1>3, <1>7, <1>8

\* The second half of a switch: the incoming thread's root if it has adopted one, the
\* kernel's otherwise.
LEMMA FinishStep ==
    ASSUME TypeOK, CpuInv, NEW c \in CPUs, FinishSwitch(c)
    PROVE  TypeOK' /\ CpuInv' /\ \A s \in Procs :
               /\ th'[s].rsp = th[s].rsp /\ th'[s].call = th[s].call /\ th'[s].ret = th[s].ret
               /\ th'[s].pc = "return" => th[s].pc = "return"
               /\ th'[s].pc = "unborn" <=> th[s].pc = "unborn"
               /\ th'[s].pc = "reaped" <=> th[s].pc = "reaped"
<1>0. PICK n \in Procs \cup {Idle}, o \in Procs \cup {Idle} : n = cur[c] /\ o = held[c]
  BY DEF TypeOK, FinishSwitch
<1>1. /\ ld' = ld /\ cur' = cur /\ user_rsp' = user_rsp /\ reapable' = reapable /\ slipped' = slipped
      /\ held' = [held EXCEPT ![c] = NoSwitch] /\ o # NoSwitch
      /\ kernel_rsp' = [kernel_rsp EXCEPT ![c] = kernel_stack_after(c)]
      /\ cr3' = [cr3 EXCEPT ![c] = incoming_root(n)]
      /\ th' = IF n # Idle /\ th[n].pc = "entry" THEN [th EXCEPT ![n].pc = "init"] ELSE th
  BY <1>0 DEF FinishSwitch, tally
<1>2. /\ OwnCpu /\ CpuOK(c) /\ n # o
      /\ \A t \in Procs : th[t].pc \in ThreadPc /\ ThreadOK(t)
  <2>1. \A t \in Procs : th[t].pc \in ThreadPc
    BY DEF TypeOK, ThreadRecord
  <2> QED BY <1>0, <2>1 DEF CpuInv, OwnCpu
<1>3. kernel_stack_after(c) \in Procs \cup {Idle} /\ (n \in Procs => kernel_stack_after(c) = n)
  BY <1>0, Distinct DEF kernel_stack_after, TypeOK
<1>4. /\ held' \in [CPUs -> Procs \cup {Idle, NoSwitch}] /\ kernel_rsp' \in [CPUs -> Procs \cup {Idle}]
      /\ cr3' = [d \in CPUs |-> cr3'[d]]
      /\ cur'[c] = n /\ held'[c] = NoSwitch /\ cr3'[c] = incoming_root(n)
      /\ n \in Procs => kernel_rsp'[c] = n
      /\ \A d \in CPUs : d # c => /\ cur'[d] = cur[d] /\ held'[d] = held[d] /\ cr3'[d] = cr3[d]
                                  /\ kernel_rsp'[d] = kernel_rsp[d] /\ user_rsp'[d] = user_rsp[d]
  BY <1>0, <1>1, <1>3 DEF TypeOK
<1>5. /\ th' \in [Procs -> ThreadRecord]
      /\ \A s \in Procs : s # n => th'[s] = th[s]
      /\ n \in Procs => /\ th'[n].rsp = th[n].rsp /\ th'[n].call = th[n].call /\ th'[n].ret = th[n].ret
                        /\ th'[n].adopted <=> th[n].adopted
                        /\ th'[n].pc = IF th[n].pc = "entry" THEN "init" ELSE th[n].pc
  <2>1. CASE n # Idle /\ th[n].pc = "entry"
    <3>1. th' = [th EXCEPT ![n].pc = "init"] /\ n \in Procs /\ "init" \in ThreadPc
      BY <1>0, <1>1, <2>1 DEF ThreadPc
    <3>2. /\ th' \in [Procs -> ThreadRecord]
          /\ \A s \in Procs : s # n => th'[s] = th[s]
          /\ th'[n].pc = "init" /\ th'[n].rsp = th[n].rsp /\ th'[n].call = th[n].call
          /\ th'[n].adopted <=> th[n].adopted
          /\ th'[n].ret = th[n].ret
      BY <3>1, PcMove
    <3> QED BY <2>1, <3>2
  <2>2. CASE ~(n # Idle /\ th[n].pc = "entry")
    BY <1>1, <2>2, Distinct DEF TypeOK
  <2> QED BY <2>1, <2>2
<1> DEFINE K == {o, n} \cap Procs
<1>6. \A d \in CPUs : d # c => cur[d] \notin K /\ held[d] \notin K
  BY <1>0, <1>2 DEF OwnCpu
<1>7. \A t \in K, d \in CPUs : ~Running(d, t)
  BY <1>0, <1>1, <1>2, <1>6 DEF Running
<1>8. ASSUME NEW t \in K PROVE ThreadOK(t)'
  <2>1. /\ th[t].pc \notin {"exit", "dispatch"}
        /\ th[t].pc = "adopt" => t \in slipped
        /\ th[t].pc = "return" => th[t].call = "Yield"
    BY <1>2, <1>7, WaitingFacts
  <2>2. /\ th'[t].call = th[t].call
        /\ th'[t].adopted <=> th[t].adopted
        /\ th'[t].pc = th[t].pc \/ (th'[t].pc = "init" /\ th[t].pc = "entry")
    BY <1>5
  <2>3. CASE th'[t].pc = th[t].pc
    BY <1>1, <1>2, <2>1, <2>2, <2>3 DEF ThreadOK
  <2>4. CASE th'[t].pc = "init" /\ th[t].pc = "entry"
    <3>1. ThreadOK(t)
      BY <1>2
    <3>2. ld[t].pc = "loaded" /\ ~th[t].adopted /\ t \notin reapable
      BY <2>4, <3>1 DEF ThreadOK
    <3> QED BY <1>1, <2>2, <2>4, <3>2 DEF ThreadOK
  <2> QED BY <2>2, <2>3, <2>4
<1>9. CpuOK(c)'
  <2>1. CASE n = Idle
    <3>1. incoming_root(n) = KernelRoot
      BY <2>1 DEF incoming_root
    <3> QED BY <1>4, <2>1, <3>1, Distinct DEF CpuOK
  <2>2. CASE n \in Procs
    <3>1. th[n].pc \in Off
      BY <1>0, <1>1, <1>2, <2>2 DEF CpuOK
    <3>2. /\ th[n].pc = "adopt" => n \in slipped
          /\ th[n].adopted <=> th[n].pc \in {"enter", "user", "dispatch", "return", "exit", "exited", "reaped"}
      BY <1>2, <1>7, <2>2, WaitingFacts DEF ThreadOK
    <3>3. incoming_root(n) = IF th[n].adopted THEN root_of(n) ELSE KernelRoot
      BY <2>2, Distinct DEF incoming_root
    <3>4. CASE th[n].pc \in {"enter", "user", "return"}
      <4>1. th[n].adopted /\ th'[n].pc = th[n].pc /\ th[n].pc \in Alive
        BY <1>5, <2>2, <3>2, <3>4 DEF Alive
      <4>2. /\ kernel_rsp'[c] = n /\ cr3'[c] = root_of(n) /\ root_of(n)' = root_of(n)
        BY <1>1, <1>4, <2>2, <3>3, <4>1 DEF root_of
      <4> QED BY <1>4, <2>2, <3>4, <4>1, <4>2, Distinct DEF CpuOK
    <3>5. CASE th[n].pc \in {"entry", "init", "activate", "adopt"}
      <4>1. /\ ~th[n].adopted /\ th'[n].pc \in {"init", "activate", "adopt"}
            /\ th'[n].pc = "adopt" => n \in slipped'
        <5>1. ~th[n].adopted
          BY <3>2, <3>5
        <5>2. th'[n].pc = IF th[n].pc = "entry" THEN "init" ELSE th[n].pc
          BY <1>5, <2>2
        <5> QED BY <1>1, <3>2, <3>5, <5>1, <5>2, SMTT(40)
      <4>2. kernel_rsp'[c] = n /\ cr3'[c] = KernelRoot
        BY <1>4, <2>2, <3>3, <4>1
      <4>3. th'[n].pc \in Alive => n \in slipped'
        BY <4>1 DEF Alive
      <4> QED BY <1>4, <2>2, <4>1, <4>2, <4>3, Distinct DEF CpuOK
    <3> QED BY <3>1, <3>4, <3>5 DEF Off
  <2> QED BY <1>0, <2>1, <2>2
<1>10. CpuInv'
  <2>1. \A t \in Procs : t \in {cur[c], held[c], cur'[c], held'[c]} => t \in K
    BY <1>0, <1>4, Distinct
  <2>2. \A s \in Procs \ K : th'[s] = th[s] /\ (s \in slipped' <=> s \in slipped)
                                /\ (s \in reapable' <=> s \in reapable)
    BY <1>1, <1>5
  <2>3. held'[c] # cur'[c] /\ K \in SUBSET Procs
    BY <1>4, Distinct
  <2> HIDE DEF K
  <2> QED BY <1>1, <1>4, <1>6, <1>8, <1>9, <2>1, <2>2, <2>3, Local, ZenonT(60)
<1>11. TypeOK'
  BY <1>1, <1>4, <1>5 DEF TypeOK
<1> QED BY <1>5, <1>10, <1>11

-----------------------------------------------------------------------------
\* What a loaded space is made of: the frames of FramesAccounted, told of one space.
Accounted(sp) ==
    /\ sp.owned = ({sp.root} \ {NoFrame}) \cup {sp.tables[a] : a \in DOMAIN sp.tables}
                  \cup {sp.pages[a].pa : a \in DOMAIN sp.pages}
    /\ \A a, b \in DOMAIN sp.pages : sp.pages[a].pa = sp.pages[b].pa => a = b
\* A load has a space from VmSpace::new on, until it fails or the thread is reaped.
SpaceOK(t) ==
    /\ ld[t].pc \in {"parse", "new", "map", "stack", "loaded", "failed"}
    /\ ld[t].pc \in {"parse", "new", "failed"} \/ th[t].pc = "reaped" => ld[t].space = NoSpace
    /\ ld[t].pc \in {"map", "stack", "loaded"} /\ th[t].pc # "reaped" => ld[t].space.root # NoFrame
    /\ Accounted(ld[t].space) /\ ld[t].space.owned \cap frames = {}
FrameInv ==
    /\ \A p, q \in Procs : p # q => ld[p].space.owned \cap ld[q].space.owned = {}
    /\ \A p \in Procs : SpaceOK(p)
    /\ \E n \in FrameCounts : frames \cup UNION {ld[p].space.owned : p \in Procs} = 1..n

\* The step of a load: what it leaves in the record of process p.
Put(p, pc, sp) ==
    /\ ld' = [q \in Procs |-> ld'[q]]
    /\ \A q \in Procs : q # p => ld'[q] = ld[q]
    /\ IsLoad(ld'[p]) /\ ld'[p].pc = pc /\ ld'[p].space = sp

\* The lowest free frame is a free frame.
LEMMA MinIn ==
    ASSUME NEW S \in SUBSET Nat, S # {}
    PROVE  Min(S) \in S
<1>1. \E x \in S : \A y \in S : ~(<<y, x>> \in OpToRel(<, Nat))
  BY NatLessThanWellFounded, WFMin
<1>2. PICK x \in S : \A y \in S : ~(<<y, x>> \in OpToRel(<, Nat))
  BY <1>1
<1>3. \A y \in S : x <= y
  <2> TAKE y \in S
  <2>1. ~(y < x)
    BY <1>2 DEF OpToRel
  <2> QED BY <2>1, SMT
<1> QED BY <1>3 DEF Min

\* Free frames are numbers from one up.
LEMMA FreeFrames ==
    ASSUME FrameInv
    PROVE  frames \in SUBSET Nat /\ NoFrame \notin frames /\ (frames # {} => take(frames) \in frames)
<1>1. PICK n \in FrameCounts : frames \cup UNION {ld[p].space.owned : p \in Procs} = 1..n
  BY DEF FrameInv
<1>2. frames \subseteq 1..n
  BY <1>1
<1>3. n \in Nat
  BY ProcessConstants
<1>4. frames \in SUBSET Nat /\ NoFrame \notin frames
  BY <1>2, <1>3, SMT DEF NoFrame
<1> QED BY <1>4, MinIn DEF take

\* A record stored into a load.
LEMMA Stores ==
    ASSUME TypeOK, NEW p \in Procs, NEW r, IsLoad(r), ld' = [ld EXCEPT ![p] = r]
    PROVE  Put(p, r.pc, r.space)
BY DEF TypeOK, Put

\* Frames move between the free ones and the space of p and nowhere else.
LEMMA Exchange ==
    ASSUME FrameInv, NEW p \in Procs, NEW pc, NEW sp, Put(p, pc, sp),
           \A t \in Procs : th'[t].pc = "reaped" <=> th[t].pc = "reaped",
           frames' \cup sp.owned = frames \cup ld[p].space.owned,
           frames' \cap sp.owned = {}, SpaceOK(p)'
    PROVE  FrameInv'
<1>1. ld'[p].space = sp /\ \A q \in Procs : q # p => ld'[q] = ld[q]
  BY DEF Put
<1>2. \A q \in Procs : q # p => ld[q].space.owned \cap sp.owned = {} /\ ld[q].space.owned \cap frames' = {}
  <2> SUFFICES ASSUME NEW q \in Procs, q # p, NEW f \in ld[q].space.owned
               PROVE  f \notin sp.owned /\ f \notin frames'
    OBVIOUS
  <2>1. f \notin frames /\ f \notin ld[p].space.owned
    BY DEF FrameInv, SpaceOK
  <2> QED BY <2>1
<1>3. \A a, b \in Procs : a # b => ld'[a].space.owned \cap ld'[b].space.owned = {}
  <2> SUFFICES ASSUME NEW a \in Procs, NEW b \in Procs, a # b
               PROVE  ld'[a].space.owned \cap ld'[b].space.owned = {}
    OBVIOUS
  <2>1. CASE a = p
    BY <1>1, <1>2, <2>1
  <2>2. CASE b = p
    BY <1>1, <1>2, <2>2
  <2>3. CASE a # p /\ b # p
    BY <1>1, <2>3 DEF FrameInv
  <2> QED BY <2>1, <2>2, <2>3
<1>4. ASSUME NEW q \in Procs PROVE SpaceOK(q)'
  <2>1. CASE q # p
    <3>1. SpaceOK(q) /\ ld'[q] = ld[q] /\ ld[q].space.owned \cap frames' = {}
      BY <1>1, <1>2, <2>1 DEF FrameInv
    <3>2. th'[q].pc = "reaped" <=> th[q].pc = "reaped"
      OBVIOUS
    <3> QED BY <3>1, <3>2 DEF SpaceOK
  <2> QED BY <2>1
<1>5. frames' \cup UNION {ld'[q].space.owned : q \in Procs} = frames \cup UNION {ld[q].space.owned : q \in Procs}
  <2>1. ASSUME NEW f, f \in frames' \cup UNION {ld'[q].space.owned : q \in Procs}
        PROVE  f \in frames \cup UNION {ld[q].space.owned : q \in Procs}
    <3>1. CASE f \in frames'
      BY <3>1
    <3>2. ASSUME NEW q \in Procs, f \in ld'[q].space.owned
          PROVE  f \in frames \cup UNION {ld[x].space.owned : x \in Procs}
      BY <1>1, <3>2
    <3> QED BY <2>1, <3>1, <3>2
  <2>2. ASSUME NEW f, f \in frames \cup UNION {ld[q].space.owned : q \in Procs}
        PROVE  f \in frames' \cup UNION {ld'[q].space.owned : q \in Procs}
    <3>1. CASE f \in frames
      BY <1>1, <3>1
    <3>2. ASSUME NEW q \in Procs, f \in ld[q].space.owned
          PROVE  f \in frames' \cup UNION {ld'[x].space.owned : x \in Procs}
      BY <1>1, <3>2
    <3> QED BY <2>2, <3>1, <3>2
  <2> QED BY <2>1, <2>2
<1>6. PICK n \in FrameCounts : frames \cup UNION {ld[q].space.owned : q \in Procs} = 1..n
  BY DEF FrameInv
<1> QED BY <1>3, <1>4, <1>5, <1>6 DEF FrameInv

\* The failure of a load: its VmSpace is dropped, every frame it owned is free again.
LEMMA FailPut ==
    ASSUME TypeOK, FrameInv, NEW p \in Procs, NEW err, NEW free, NEW sp, Fail(p, err, free, sp),
           \A t \in Procs : th'[t].pc = "reaped" <=> th[t].pc = "reaped",
           free \cup sp.owned = frames \cup ld[p].space.owned
    PROVE  Put(p, "failed", NoSpace) /\ FrameInv'
<1> DEFINE r == [ld[p] EXCEPT !.pc = "failed", !.err = err, !.space = NoSpace]
<1>1. ld' = [ld EXCEPT ![p] = r] /\ frames' = free \cup sp.owned
  BY DEF Fail, Dropped
<1>2. IsLoad(r) /\ r.pc = "failed" /\ r.space = NoSpace
  <2>1. PICK l : l = ld[p] /\ IsLoad(l)
    BY DEF TypeOK
  <2>2. r = [l EXCEPT !.pc = "failed", !.err = err, !.space = NoSpace]
    BY <2>1
  <2> HIDE DEF r
  <2>3. r = [pc |-> "failed", err |-> err, seg |-> l.seg, space |-> NoSpace]
    BY <2>1, <2>2 DEF IsLoad
  <2>4. IsSpace(NoSpace)
    BY DEF IsSpace, NoSpace
  <2> QED BY <2>3, <2>4 DEF IsLoad
<1> HIDE DEF r
<1>3. Put(p, "failed", NoSpace)
  BY <1>1, <1>2, Stores
<1>4. NoSpace.owned = {} /\ Accounted(NoSpace)
  BY SMT DEF NoSpace, Accounted, NoFrame
<1>5. SpaceOK(p)'
  BY <1>3, <1>4 DEF SpaceOK, Put
<1>6. frames' \cup NoSpace.owned = frames \cup ld[p].space.owned /\ frames' \cap NoSpace.owned = {}
  BY <1>1, <1>4
<1> QED BY <1>3, <1>5, <1>6, Exchange

\* What one call of AddressSpace::map did to a space and to the free frames.
MapDone(sp, free, va, page, r) ==
    /\ IsSpace(r.space) /\ r.space.root = sp.root
    /\ r.free \cup r.space.owned = free \cup sp.owned
    /\ r.free \cap r.space.owned = {}
    /\ r.err = "ok" =>
         /\ va \notin DOMAIN sp.pages /\ ~(va >= USER_MAX) /\ ~(va < USER_MIN)
         /\ r.space.pages = Extend(sp.pages, va, page)
         /\ \/ r.space.tables = sp.tables /\ r.space.owned = sp.owned
            \/ \E f \in free : /\ table_of(va) \notin DOMAIN sp.tables
                               /\ r.space.tables = Extend(sp.tables, table_of(va), f)
                               /\ r.space.owned = sp.owned \cup {f}

\* AddressSpace::map takes at most one frame, for the page table, and gives it to the
\* space; on success the page is mapped to the frame given.
LEMMA MapUser ==
    ASSUME NEW sp, IsSpace(sp), NEW free \in SUBSET Nat, NEW va, NEW pa, NEW w, NEW x,
           free \cap sp.owned = {}, NEW r, r = map_user(sp, free, va, pa, w, x)
    PROVE  MapDone(sp, free, va, [pa |-> pa, w |-> w, x |-> x], r)
<1> DEFINE needs == table_of(va) \notin DOMAIN sp.tables
           t == take(free)
           sp1 == IF needs /\ free # {}
                  THEN [sp EXCEPT !.tables = Extend(@, table_of(va), t), !.owned = @ \cup {t}] ELSE sp
           free1 == IF needs /\ free # {} THEN free \ {t} ELSE free
           sp2 == [sp1 EXCEPT !.pages = Extend(@, va, [pa |-> pa, w |-> w, x |-> x])]
<1>1. \/ r = [err |-> "NotUserAddress", space |-> sp, free |-> free]
      \/ r = [err |-> "OutOfFrames", space |-> sp, free |-> free]
      \/ r = [err |-> "AlreadyMapped", space |-> sp1, free |-> free1]
      \/ /\ r = [err |-> "ok", free |-> free1, space |-> sp2]
         /\ va \notin DOMAIN sp.pages /\ ~(needs /\ free = {}) /\ ~(va >= USER_MAX) /\ ~(va < USER_MIN)
  BY DEF map_user
<1>2. /\ IsSpace(sp1) /\ sp1.root = sp.root /\ sp1.pages = sp.pages
      /\ free1 \cup sp1.owned = free \cup sp.owned
      /\ free1 \cap sp1.owned = {}
      /\ \/ sp1.tables = sp.tables /\ sp1.owned = sp.owned
         \/ \E f \in free : /\ table_of(va) \notin DOMAIN sp.tables
                            /\ sp1.tables = Extend(sp.tables, table_of(va), f)
                            /\ sp1.owned = sp.owned \cup {f}
  <2>1. CASE needs /\ free # {}
    <3>1. t \in free
      BY <2>1, MinIn DEF take
    <3>2. sp1 = [root |-> sp.root, tables |-> Extend(sp.tables, table_of(va), t), pages |-> sp.pages,
                 owned |-> sp.owned \cup {t}]
      <4>1. sp1 = [sp EXCEPT !.tables = Extend(@, table_of(va), t), !.owned = @ \cup {t}]
        BY <2>1
      <4> QED BY <4>1 DEF IsSpace
    <3>3. free1 = free \ {t}
      BY <2>1
    <3> HIDE DEF sp1, free1, t
    <3>4. /\ IsSpace(sp1) /\ sp1.root = sp.root /\ sp1.pages = sp.pages /\ sp1.owned = sp.owned \cup {t}
          /\ sp1.tables = Extend(sp.tables, table_of(va), t)
      BY <3>2 DEF IsSpace
    <3>5. free1 \cup sp1.owned = free \cup sp.owned /\ free1 \cap sp1.owned = {}
      BY <3>1, <3>3, <3>4
    <3> QED BY <2>1, <3>1, <3>4, <3>5
  <2>2. CASE ~(needs /\ free # {})
    <3>1. sp1 = sp /\ free1 = free
      BY <2>2
    <3> HIDE DEF sp1, free1
    <3> QED BY <3>1
  <2> QED BY <2>1, <2>2
<1> HIDE DEF needs, sp1, free1
<1>3. /\ IsSpace(sp2) /\ sp2.root = sp1.root /\ sp2.tables = sp1.tables /\ sp2.owned = sp1.owned
      /\ sp2.pages = Extend(sp1.pages, va, [pa |-> pa, w |-> w, x |-> x])
  <2>1. sp2 = [root |-> sp1.root, tables |-> sp1.tables, owned |-> sp1.owned,
               pages |-> Extend(sp1.pages, va, [pa |-> pa, w |-> w, x |-> x])]
    BY <1>2, SMT DEF IsSpace
  <2> HIDE DEF sp2
  <2> QED BY <2>1 DEF IsSpace
<1> HIDE DEF sp2
<1>4. CASE r.space = sp /\ r.free = free /\ r.err # "ok"
  BY <1>4 DEF MapDone
<1>5. CASE r.space = sp1 /\ r.free = free1 /\ r.err # "ok"
  BY <1>2, <1>5 DEF MapDone
<1>6. CASE r.space = sp2 /\ r.free = free1 /\ va \notin DOMAIN sp.pages /\ ~(va >= USER_MAX) /\ ~(va < USER_MIN)
  BY <1>2, <1>3, <1>6 DEF MapDone
<1>7. \/ r.space = sp /\ r.free = free /\ r.err # "ok"
      \/ r.space = sp1 /\ r.free = free1 /\ r.err # "ok"
      \/ r.space = sp2 /\ r.free = free1 /\ va \notin DOMAIN sp.pages /\ ~(va >= USER_MAX) /\ ~(va < USER_MIN)
  <2>1. CASE r = [err |-> "NotUserAddress", space |-> sp, free |-> free]
    BY <2>1, SMT
  <2>2. CASE r = [err |-> "OutOfFrames", space |-> sp, free |-> free]
    BY <2>2, SMT
  <2>3. CASE r = [err |-> "AlreadyMapped", space |-> sp1, free |-> free1]
    BY <2>3, SMT
  <2>4. CASE /\ r = [err |-> "ok", free |-> free1, space |-> sp2]
            /\ va \notin DOMAIN sp.pages /\ ~(va >= USER_MAX) /\ ~(va < USER_MIN)
    <3>1. r.space = sp2 /\ r.free = free1
      BY <2>4, SMT
    <3> QED BY <2>4, <3>1
  <2> QED BY <1>1, <2>1, <2>2, <2>3, <2>4
<1> QED BY <1>4, <1>5, <1>6, <1>7

\* What one call of map_new_page did.
NewPageDone(sp, free, va, w, x, q) ==
    /\ IsSpace(q.space) /\ q.space.root = sp.root
    /\ q.free \cup q.space.owned = free \cup sp.owned
    /\ q.free \cap q.space.owned = {}
    /\ q.err = "ok" =>
         /\ Accounted(q.space)
         /\ va \notin DOMAIN sp.pages /\ ~(va >= USER_MAX) /\ ~(va < USER_MIN)
         /\ \E pa \in free : q.space.pages = Extend(sp.pages, va, [pa |-> pa, w |-> w, x |-> x])

\* map_new_page moves one or two free frames into the space, which maps one of them at
\* a page that had none and hangs the other, if any, into its tables.
LEMMA MapNewPage ==
    ASSUME NEW sp, IsSpace(sp), NEW free \in SUBSET Nat, NEW va, NEW w, NEW x,
           free \cap sp.owned = {}, Accounted(sp), NEW q, q = map_new_page(sp, free, va, w, x)
    PROVE  NewPageDone(sp, free, va, w, x, q)
<1>1. CASE free = {}
  <2>1. q = [err |-> "OutOfFrames", space |-> sp, free |-> free]
    BY <1>1 DEF map_new_page
  <2>2. q.space = sp /\ q.free = free /\ q.err # "ok"
    BY <2>1, SMT
  <2> QED BY <2>2 DEF NewPageDone
<1>2. CASE free # {}
  <2>1. PICK pa : pa = take(free)
    OBVIOUS
  <2>2. pa \in free
    BY <1>2, <2>1, MinIn DEF take
  <2>3. PICK s : s = [sp EXCEPT !.owned = @ \cup {pa}]
    OBVIOUS
  <2>4. s = [root |-> sp.root, tables |-> sp.tables, pages |-> sp.pages, owned |-> sp.owned \cup {pa}]
    BY <2>3 DEF IsSpace
  <2>5. /\ IsSpace(s) /\ s.root = sp.root /\ s.tables = sp.tables /\ s.pages = sp.pages
        /\ s.owned = sp.owned \cup {pa}
    BY <2>4 DEF IsSpace
  <2>6. q = map_user(s, free \ {pa}, va, pa, w, x)
    BY <1>2, <2>1, <2>3 DEF map_new_page
  <2>7. free \ {pa} \in SUBSET Nat /\ (free \ {pa}) \cap s.owned = {}
    BY <2>5
  <2>8. MapDone(s, free \ {pa}, va, [pa |-> pa, w |-> w, x |-> x], q)
    BY <2>5, <2>6, <2>7, MapUser
  <2>9. q.free \cup q.space.owned = free \cup sp.owned
    BY <2>2, <2>5, <2>8, ZenonT(60) DEF MapDone
  <2>10. ASSUME q.err = "ok" PROVE Accounted(q.space)
    <3> DEFINE P == [pa |-> pa, w |-> w, x |-> x]
               Old == {sp.pages[a].pa : a \in DOMAIN sp.pages}
               OldT == {sp.tables[a] : a \in DOMAIN sp.tables}
    <3>1. va \notin DOMAIN sp.pages /\ q.space.pages = Extend(sp.pages, va, P)
      BY <2>5, <2>8, <2>10 DEF MapDone
    <3>2. P.pa = pa
      OBVIOUS
    <3> HIDE DEF P
    <3>3. /\ DOMAIN q.space.pages = DOMAIN sp.pages \cup {va}
          /\ q.space.pages[va].pa = pa
          /\ \A a \in DOMAIN sp.pages : q.space.pages[a] = sp.pages[a]
      <4>1. DOMAIN Extend(sp.pages, va, P) = DOMAIN sp.pages \cup {va}
        BY DEF Extend
      <4>2. Extend(sp.pages, va, P)[va] = P
        BY DEF Extend
      <4>3. \A a \in DOMAIN sp.pages : Extend(sp.pages, va, P)[a] = sp.pages[a]
        BY <3>1 DEF Extend
      <4> QED BY <3>1, <3>2, <4>1, <4>2, <4>3
    <3>4. {q.space.pages[a].pa : a \in DOMAIN q.space.pages} = Old \cup {pa}
      <4>1. ASSUME NEW a \in DOMAIN q.space.pages PROVE q.space.pages[a].pa \in Old \cup {pa}
        <5>1. CASE a = va
          BY <3>3, <5>1
        <5>2. CASE a \in DOMAIN sp.pages
          BY <3>3, <5>2
        <5> QED BY <3>3, <5>1, <5>2
      <4>2. ASSUME NEW a \in DOMAIN sp.pages
            PROVE  sp.pages[a].pa \in {q.space.pages[b].pa : b \in DOMAIN q.space.pages}
        BY <3>3
      <4>3. pa \in {q.space.pages[b].pa : b \in DOMAIN q.space.pages}
        BY <3>3
      <4>4. ASSUME NEW f \in Old PROVE f \in {q.space.pages[b].pa : b \in DOMAIN q.space.pages}
        <5>1. PICK a \in DOMAIN sp.pages : f = sp.pages[a].pa
          BY <4>4
        <5> QED BY <4>2, <5>1
      <4> HIDE DEF Old
      <4>5. PICK N : N = {q.space.pages[a].pa : a \in DOMAIN q.space.pages}
        OBVIOUS
      <4>6. (\A f \in N : f \in Old \cup {pa}) /\ pa \in N /\ \A f \in Old : f \in N
        BY <4>1, <4>3, <4>4, <4>5
      <4>7. N = Old \cup {pa}
        BY <4>6
      <4> QED BY <4>5, <4>7
    <3>5. sp.owned = ({sp.root} \ {NoFrame}) \cup OldT \cup Old /\ pa \notin sp.owned
      BY <2>2 DEF Accounted
    <3>6. \A a, b \in DOMAIN q.space.pages : q.space.pages[a].pa = q.space.pages[b].pa => a = b
      <4>1. \A a \in DOMAIN sp.pages : sp.pages[a].pa # pa
        BY <3>5
      <4>2. \A a, b \in DOMAIN sp.pages : sp.pages[a].pa = sp.pages[b].pa => a = b
        BY DEF Accounted
      <4> QED BY <3>3, <4>1, <4>2, SMT
    <3>7. q.space.owned = ({sp.root} \ {NoFrame}) \cup {q.space.tables[a] : a \in DOMAIN q.space.tables}
                          \cup (Old \cup {pa})
      <4>1. CASE q.space.tables = sp.tables /\ q.space.owned = sp.owned \cup {pa}
        <5>1. {q.space.tables[a] : a \in DOMAIN q.space.tables} = OldT
          BY <4>1
        <5> HIDE DEF Old, OldT
        <5> QED BY <3>5, <4>1, <5>1
      <4>2. ASSUME NEW f, table_of(va) \notin DOMAIN sp.tables,
                   q.space.tables = Extend(sp.tables, table_of(va), f),
                   q.space.owned = sp.owned \cup {pa} \cup {f}
            PROVE  q.space.owned = ({sp.root} \ {NoFrame}) \cup {q.space.tables[a] : a \in DOMAIN q.space.tables}
                                   \cup (Old \cup {pa})
        <5>1. /\ DOMAIN q.space.tables = DOMAIN sp.tables \cup {table_of(va)}
              /\ q.space.tables[table_of(va)] = f
              /\ \A a \in DOMAIN sp.tables : q.space.tables[a] = sp.tables[a]
          <6>1. PICK a : a = table_of(va)
            OBVIOUS
          <6>2. DOMAIN Extend(sp.tables, a, f) = DOMAIN sp.tables \cup {a}
            BY DEF Extend
          <6>3. Extend(sp.tables, a, f)[a] = f
            BY DEF Extend
          <6>4. \A b \in DOMAIN sp.tables : Extend(sp.tables, a, f)[b] = sp.tables[b]
            BY <4>2, <6>1 DEF Extend
          <6> QED BY <4>2, <6>1, <6>2, <6>3, <6>4
        <5>2. {q.space.tables[a] : a \in DOMAIN q.space.tables} = OldT \cup {f}
          <6>1. ASSUME NEW a \in DOMAIN q.space.tables PROVE q.space.tables[a] \in OldT \cup {f}
            BY <5>1
          <6>2. ASSUME NEW a \in DOMAIN sp.tables
                PROVE  sp.tables[a] \in {q.space.tables[b] : b \in DOMAIN q.space.tables}
            BY <5>1
          <6>3. f \in {q.space.tables[b] : b \in DOMAIN q.space.tables}
            BY <5>1
          <6> QED BY <6>1, <6>2, <6>3, ZenonT(60)
        <5> HIDE DEF Old, OldT
        <5> QED BY <3>5, <4>2, <5>2
      <4> HIDE DEF Old, OldT
      <4> QED BY <2>5, <2>8, <2>10, <4>1, <4>2, ZenonT(60) DEF MapDone
    <3>8. q.space.root = sp.root
      BY <2>5, <2>8 DEF MapDone
    <3> HIDE DEF Old
    <3> QED BY <3>4, <3>6, <3>7, <3>8 DEF Accounted
  <2>11. IsSpace(q.space) /\ q.space.root = sp.root /\ q.free \cap q.space.owned = {}
    BY <2>5, <2>8 DEF MapDone
  <2>12. ASSUME q.err = "ok"
         PROVE  /\ va \notin DOMAIN sp.pages /\ ~(va >= USER_MAX) /\ ~(va < USER_MIN)
                /\ \E f \in free : q.space.pages = Extend(sp.pages, va, [pa |-> f, w |-> w, x |-> x])
    BY <2>2, <2>5, <2>8, <2>12 DEF MapDone
  <2> QED BY <2>9, <2>10, <2>11, <2>12 DEF NewPageDone
<1> QED BY <1>1, <1>2

\* A process that is still being loaded has no thread for a processor to hold.
LEMMA LoadKeeps ==
    ASSUME TypeOK, CpuInv, NEW p \in Procs, NEW pc, NEW sp, Put(p, pc, sp), ld[p].pc # "loaded", th' = th,
           cur' = cur, held' = held, cr3' = cr3, kernel_rsp' = kernel_rsp, user_rsp' = user_rsp,
           slipped' = slipped, reapable' = reapable
    PROVE  TypeOK' /\ CpuInv'
<1>1. ld' = [q \in Procs |-> ld'[q]] /\ IsLoad(ld'[p]) /\ \A q \in Procs : q # p => ld'[q] = ld[q]
  BY DEF Put
<1>2. TypeOK'
  <2>1. \A q \in Procs : IsLoad(ld'[q])
    BY <1>1 DEF TypeOK
  <2> QED BY <1>1, <2>1 DEF TypeOK
<1>3. th[p].pc = "unborn"
  BY DEF CpuInv, ThreadOK
<1>4. \A t \in Procs : t # p => root_of(t)' = root_of(t)
  BY <1>1 DEF root_of
<1>5. ASSUME NEW t \in Procs PROVE ThreadOK(t)'
  <2>1. ThreadOK(t)
    BY DEF CpuInv
  <2>2. CASE t = p
    BY <1>3, <2>1, <2>2 DEF ThreadOK
  <2>3. CASE t # p
    <3>1. ld'[t] = ld[t] /\ root_of(t)' = root_of(t)
      BY <1>1, <1>4, <2>3
    <3>2. \A c \in CPUs : Running(c, t)' <=> Running(c, t)
      BY DEF Running
    <3> QED BY <2>1, <3>1, <3>2 DEF ThreadOK
  <2> QED BY <2>2, <2>3
<1>6. ASSUME NEW c \in CPUs PROVE CpuOK(c)'
  <2>1. CpuOK(c)
    BY DEF CpuInv
  <2>2. cur[c] # p
    BY <1>3, <2>1 DEF CpuOK, Off
  <2>3. \A t \in Procs : th[t].pc \in Alive => t # p
    BY <1>3 DEF Alive
  <2> QED BY <1>4, <2>1, <2>2, <2>3 DEF CpuOK
<1>7. OwnCpu'
  BY DEF CpuInv, OwnCpu
<1> QED BY <1>2, <1>5, <1>6, <1>7 DEF CpuInv

\* What a load step does not touch.
Loading(p) ==
    /\ th' = th /\ ld[p].pc # "loaded" /\ file' = file
    /\ cur' = cur /\ held' = held /\ cr3' = cr3 /\ kernel_rsp' = kernel_rsp /\ user_rsp' = user_rsp
    /\ slipped' = slipped /\ reapable' = reapable

\* A load step that leaves a space in order leaves the frames in order.
LEMMA LoadStep ==
    ASSUME TypeOK, CpuInv, FrameInv, NEW p \in Procs, Loading(p), NEW pc, NEW sp, Put(p, pc, sp), FrameInv'
    PROVE  TypeOK' /\ CpuInv' /\ FrameInv'
BY LoadKeeps DEF Loading

\* The same, from the state of the space.
LEMMA LoadSpace ==
    ASSUME TypeOK, CpuInv, FrameInv, NEW p \in Procs, Loading(p), NEW pc, NEW sp, Put(p, pc, sp),
           \/ pc \in {"new", "failed"} /\ sp = NoSpace
           \/ pc \in {"map", "stack", "loaded"} /\ sp.root # NoFrame,
           Accounted(sp), frames' \cup sp.owned = frames \cup ld[p].space.owned, frames' \cap sp.owned = {}
    PROVE  TypeOK' /\ CpuInv' /\ FrameInv'
<1>1. th[p].pc = "unborn" /\ th' = th
  BY DEF CpuInv, ThreadOK, Loading
<1>2. ld'[p].pc = pc /\ ld'[p].space = sp
  BY DEF Put
<1>3. SpaceOK(p)'
  <2>1. ld'[p].pc \in {"parse", "new", "map", "stack", "loaded", "failed"} /\ th'[p].pc # "reaped"
    BY <1>1, <1>2
  <2>2. ld'[p].space.owned \cap frames' = {} /\ Accounted(ld'[p].space)
    BY <1>2
  <2>3. CASE pc \in {"new", "failed"} /\ sp = NoSpace
    BY <1>2, <2>1, <2>2, <2>3 DEF SpaceOK
  <2>4. CASE pc \in {"map", "stack", "loaded"} /\ sp.root # NoFrame
    BY <1>2, <2>1, <2>2, <2>4 DEF SpaceOK
  <2> QED BY <2>3, <2>4
<1>4. FrameInv'
  BY <1>1, <1>3, Exchange
<1> QED BY <1>4, LoadStep

\* The parsing of a file touches no frame.
LEMMA ParseStep ==
    ASSUME TypeOK, CpuInv, FrameInv, NEW p \in Procs, Parse(p)
    PROVE  TypeOK' /\ CpuInv' /\ FrameInv'
<1>0. PICK pc, err : pc = (IF parse(file[p]) = "ok" THEN "new" ELSE "failed") /\ err = parse(file[p])
  OBVIOUS
<1>1. pc \in {"new", "failed"} /\ ld' = [ld EXCEPT ![p].err = err, ![p].pc = pc]
  BY <1>0 DEF Parse
<1>2. Loading(p) /\ frames' = frames /\ ld[p].pc = "parse"
  BY DEF Parse, Loading, memory, cpu, tally
<1>3. PICK l : l = ld[p] /\ IsLoad(l)
  BY DEF TypeOK
<1>4. PICK r : r = [l EXCEPT !.err = err, !.pc = pc]
  OBVIOUS
<1>5. r = [pc |-> pc, err |-> err, seg |-> l.seg, space |-> l.space]
  BY <1>3, <1>4 DEF IsLoad
<1>6. IsLoad(r) /\ r.pc = pc /\ r.space = l.space
  BY <1>3, <1>5 DEF IsLoad
<1>7. ld' = [ld EXCEPT ![p] = r]
  BY <1>1, <1>3, <1>4
<1>8. Put(p, pc, l.space)
  BY <1>6, <1>7, Stores
<1>9. l.space = NoSpace /\ Accounted(l.space) /\ frames \cap l.space.owned = {}
  BY <1>2, <1>3 DEF FrameInv, SpaceOK
<1>10. /\ Put(p, pc, NoSpace) /\ Accounted(NoSpace)
       /\ frames' \cup NoSpace.owned = frames \cup ld[p].space.owned /\ frames' \cap NoSpace.owned = {}
  BY <1>2, <1>3, <1>8, <1>9
<1> QED BY <1>1, <1>2, <1>10, LoadSpace

\* VmSpace::new takes the frame of the root; a refused segment gives it back.
LEMMA NewSpaceStep ==
    ASSUME TypeOK, CpuInv, FrameInv, NEW p \in Procs, NewSpace(p)
    PROVE  TypeOK' /\ CpuInv' /\ FrameInv'
<1>1. Loading(p) /\ ld[p].pc = "new"
  BY DEF NewSpace, Loading, cpu, tally
<1>2. ld[p].space = NoSpace /\ NoSpace.owned = {} /\ \A t \in Procs : th'[t].pc = "reaped" <=> th[t].pc = "reaped"
  <2>1. ld[p].space = NoSpace
    BY <1>1 DEF FrameInv, SpaceOK
  <2>2. NoSpace.owned = {}
    BY DEF NoSpace
  <2> QED BY <1>1, <2>1, <2>2 DEF Loading
<1>3. PICK root : root = take(frames)
  OBVIOUS
<1>4. PICK sp : sp = [NoSpace EXCEPT !.root = root, !.owned = {root}]
  OBVIOUS
<1>5. sp = [root |-> root, tables |-> <<>>, pages |-> <<>>, owned |-> {root}]
  BY <1>4 DEF NoSpace
<1>6. IsSpace(sp) /\ sp.root = root /\ sp.owned = {root} /\ DOMAIN sp.tables = {} /\ DOMAIN sp.pages = {}
  <2>1. IsSpace(sp) /\ sp.root = root /\ sp.owned = {root} /\ sp.tables = <<>> /\ sp.pages = <<>>
    BY <1>5 DEF IsSpace
  <2> QED BY <2>1, SMT
<1>7. \/ \E err : Fail(p, err, frames, NoSpace)
      \/ frames # {} /\ \E err : Fail(p, err, frames \ sp.owned, sp)
      \/ /\ ld' = [ld EXCEPT ![p].pc = "map", ![p].space = sp]
         /\ frames' = frames \ sp.owned /\ frames # {}
  BY <1>3, <1>4 DEF NewSpace
<1>8. CASE \E err : Fail(p, err, frames, NoSpace)
  <2>1. PICK err : Fail(p, err, frames, NoSpace)
    BY <1>8
  <2>2. Put(p, "failed", NoSpace) /\ FrameInv'
    BY <1>2, <2>1, FailPut
  <2> QED BY <1>1, <2>2, LoadStep
<1>9. frames # {} => root \in frames /\ root # NoFrame
  BY <1>3, FreeFrames
<1>10. CASE frames # {} /\ \E err : Fail(p, err, frames \ sp.owned, sp)
  <2>1. PICK err : Fail(p, err, frames \ sp.owned, sp)
    BY <1>10
  <2>2. (frames \ sp.owned) \cup sp.owned = frames \cup ld[p].space.owned
    BY <1>2, <1>6, <1>9, <1>10
  <2>3. Put(p, "failed", NoSpace) /\ FrameInv'
    BY <1>2, <2>1, <2>2, FailPut
  <2> QED BY <1>1, <2>3, LoadStep
<1>11. CASE ld' = [ld EXCEPT ![p].pc = "map", ![p].space = sp] /\ frames' = frames \ sp.owned /\ frames # {}
  <2>1. PICK l : l = ld[p] /\ IsLoad(l)
    BY DEF TypeOK
  <2>2. PICK r : r = [l EXCEPT !.pc = "map", !.space = sp]
    OBVIOUS
  <2>3. r = [pc |-> "map", err |-> l.err, seg |-> l.seg, space |-> sp]
    BY <2>1, <2>2 DEF IsLoad
  <2>4. IsLoad(r) /\ r.pc = "map" /\ r.space = sp
    BY <1>6, <2>3 DEF IsLoad
  <2>5. ld' = [ld EXCEPT ![p] = r]
    BY <1>11, <2>1, <2>2
  <2>6. Put(p, "map", sp)
    BY <2>4, <2>5, Stores
  <2>7. Accounted(sp)
    BY <1>6, <1>9, <1>11 DEF Accounted
  <2>8. frames' \cup sp.owned = frames \cup ld[p].space.owned /\ frames' \cap sp.owned = {} /\ sp.root # NoFrame
    BY <1>2, <1>6, <1>9, <1>11
  <2> QED BY <1>1, <2>6, <2>7, <2>8, LoadSpace, ZenonT(60)
<1> QED BY <1>7, <1>8, <1>10, <1>11

\* The space of a load under way.
LEMMA UnderWay ==
    ASSUME TypeOK, CpuInv, FrameInv, NEW p \in Procs, Loading(p), ld[p].pc \in {"map", "stack"}
    PROVE  /\ IsLoad(ld[p]) /\ IsSpace(ld[p].space) /\ Accounted(ld[p].space) /\ ld[p].space.root # NoFrame
           /\ frames \cap ld[p].space.owned = {} /\ frames \in SUBSET Nat
           /\ \A t \in Procs : th'[t].pc = "reaped" <=> th[t].pc = "reaped"
<1>1. IsLoad(ld[p]) /\ IsSpace(ld[p].space)
  BY DEF TypeOK, IsLoad
<1>2. th[p].pc # "reaped" /\ th' = th
  BY DEF CpuInv, ThreadOK, Loading
<1>3. Accounted(ld[p].space) /\ ld[p].space.root # NoFrame /\ frames \cap ld[p].space.owned = {}
  BY <1>2 DEF FrameInv, SpaceOK
<1> QED BY <1>1, <1>2, <1>3, FreeFrames

\* What MapPage and MapStack do with the outcome r of map_new_page.
PageOutcome(p, r) ==
    IF r.err # "ok" THEN Fail(p, r.err, r.free, r.space)
    ELSE /\ frames' = r.free
         /\ \/ ld' = [ld EXCEPT ![p].space = r.space]
            \/ ld' = [ld EXCEPT ![p].space = r.space, ![p].seg = @ + 1]

\* One more page, of a segment or of the stack: on any error everything goes back.
LEMMA PageStep ==
    ASSUME TypeOK, CpuInv, FrameInv, NEW p \in Procs, MapPage(p) \/ MapStack(p)
    PROVE  TypeOK' /\ CpuInv' /\ FrameInv'
<1>1. Loading(p) /\ ld[p].pc \in {"map", "stack"}
  BY DEF MapPage, MapStack, Loading, cpu, tally
<1>2. PICK l : l = ld[p]
  OBVIOUS
<1>3. PICK va, x : PageOutcome(p, map_new_page(l.space, frames, va, TRUE, x))
  <2>1. CASE MapPage(p)
    <3>1. PageOutcome(p, map_new_page(l.space, frames, Min(Unmapped(p)), TRUE, TRUE))
      BY <1>2, <2>1 DEF MapPage, PageOutcome
    <3> QED BY <3>1
  <2>2. CASE MapStack(p)
    <3>1. PageOutcome(p, map_new_page(l.space, frames, Max(StackLeft(p)), TRUE, FALSE))
      BY <1>2, <2>2 DEF MapStack, PageOutcome
    <3> QED BY <3>1
  <2> QED BY <2>1, <2>2
<1>4. PICK q : q = map_new_page(l.space, frames, va, TRUE, x)
  OBVIOUS
<1>5. /\ IsLoad(l) /\ IsSpace(l.space) /\ Accounted(l.space) /\ l.space.root # NoFrame
      /\ frames \cap l.space.owned = {} /\ frames \in SUBSET Nat
      /\ \A t \in Procs : th'[t].pc = "reaped" <=> th[t].pc = "reaped"
  BY <1>1, <1>2, UnderWay
<1>6. /\ IsSpace(q.space) /\ q.space.root = l.space.root
      /\ q.free \cup q.space.owned = frames \cup l.space.owned
      /\ q.free \cap q.space.owned = {}
      /\ q.err = "ok" => Accounted(q.space)
  <2>1. NewPageDone(l.space, frames, va, TRUE, x, q)
    BY <1>4, <1>5, MapNewPage
  <2> QED BY <2>1 DEF NewPageDone
<1>7. CASE q.err # "ok"
  <2>1. Fail(p, q.err, q.free, q.space)
    BY <1>3, <1>4, <1>7 DEF PageOutcome
  <2>2. q.free \cup q.space.owned = frames \cup ld[p].space.owned
    BY <1>2, <1>6
  <2>3. Put(p, "failed", NoSpace) /\ FrameInv'
    BY <1>5, <2>1, <2>2, FailPut
  <2> QED BY <1>1, <2>3, LoadStep
<1>8. CASE q.err = "ok"
  <2>1. /\ frames' = q.free
        /\ \/ ld' = [ld EXCEPT ![p].space = q.space]
           \/ ld' = [ld EXCEPT ![p].space = q.space, ![p].seg = @ + 1]
    BY <1>3, <1>4, <1>8 DEF PageOutcome
  <2>2. PICK r : /\ ld' = [ld EXCEPT ![p] = r]
                 /\ r = [l EXCEPT !.space = q.space] \/ r = [l EXCEPT !.space = q.space, !.seg = l.seg + 1]
    <3>1. CASE ld' = [ld EXCEPT ![p].space = q.space]
      <4>1. ld' = [ld EXCEPT ![p] = [l EXCEPT !.space = q.space]]
        BY <1>2, <3>1
      <4> QED BY <4>1
    <3>2. CASE ld' = [ld EXCEPT ![p].space = q.space, ![p].seg = @ + 1]
      <4>1. ld' = [ld EXCEPT ![p] = [l EXCEPT !.space = q.space, !.seg = l.seg + 1]]
        BY <1>2, <3>2
      <4> QED BY <4>1
    <3> QED BY <2>1, <3>1, <3>2
  <2>3. \/ r = [pc |-> l.pc, err |-> l.err, seg |-> l.seg, space |-> q.space]
        \/ r = [pc |-> l.pc, err |-> l.err, seg |-> l.seg + 1, space |-> q.space]
    <3>1. CASE r = [l EXCEPT !.space = q.space]
      BY <1>5, <3>1 DEF IsLoad
    <3>2. CASE r = [l EXCEPT !.space = q.space, !.seg = l.seg + 1]
      BY <1>5, <3>2 DEF IsLoad
    <3> QED BY <2>2, <3>1, <3>2
  <2>4. IsLoad(r) /\ r.pc = l.pc /\ r.space = q.space
    <3>1. CASE r = [pc |-> l.pc, err |-> l.err, seg |-> l.seg, space |-> q.space]
      BY <1>6, <3>1 DEF IsLoad
    <3>2. CASE r = [pc |-> l.pc, err |-> l.err, seg |-> l.seg + 1, space |-> q.space]
      BY <1>6, <3>2 DEF IsLoad
    <3> QED BY <2>3, <3>1, <3>2
  <2>5. Put(p, l.pc, q.space) /\ l.pc \in {"map", "stack"}
    BY <1>1, <1>2, <2>2, <2>4, Stores
  <2>6. /\ frames' \cup q.space.owned = frames \cup ld[p].space.owned /\ frames' \cap q.space.owned = {}
        /\ q.space.root # NoFrame /\ Accounted(q.space)
    BY <1>2, <1>5, <1>6, <1>8, <2>1
  <2> QED BY <1>1, <2>5, <2>6, LoadSpace
<1> QED BY <1>7, <1>8

\* Copying bytes and setting permissions move no frame.
LEMMA FillSteps ==
    ASSUME TypeOK, CpuInv, FrameInv, NEW p \in Procs, CopySegment(p) \/ SetPermissions(p)
    PROVE  TypeOK' /\ CpuInv' /\ FrameInv'
<1>1. Loading(p) /\ ld[p].pc = "map"
  BY DEF CopySegment, SetPermissions, Loading, cpu, tally
<1>2. PICK l : l = ld[p]
  OBVIOUS
<1>3. /\ IsLoad(l) /\ IsSpace(l.space) /\ Accounted(l.space) /\ l.space.root # NoFrame
      /\ frames \cap l.space.owned = {}
      /\ \A t \in Procs : th'[t].pc = "reaped" <=> th[t].pc = "reaped"
  BY <1>1, <1>2, UnderWay
<1>4. CASE CopySegment(p)
  <2>1. frames' = frames /\ ld' = [ld EXCEPT ![p].seg = @ + 1]
    BY <1>4 DEF CopySegment
  <2>2. PICK r : ld' = [ld EXCEPT ![p] = r] /\ r = [l EXCEPT !.seg = l.seg + 1]
    BY <1>2, <2>1
  <2>3. r = [pc |-> l.pc, err |-> l.err, seg |-> l.seg + 1, space |-> l.space]
    BY <1>3, <2>2 DEF IsLoad
  <2>4. IsLoad(r) /\ r.pc = l.pc /\ r.space = l.space
    BY <1>3, <2>3 DEF IsLoad
  <2>5. Put(p, "map", l.space)
    BY <1>1, <1>2, <2>2, <2>4, Stores
  <2>6. frames' \cup l.space.owned = frames \cup ld[p].space.owned /\ frames' \cap l.space.owned = {}
    BY <1>2, <1>3, <2>1
  <2> QED BY <1>1, <1>3, <2>5, <2>6, LoadSpace
<1>5. CASE SetPermissions(p)
  <2>1. PICK pages : /\ pages = [va \in DOMAIN l.space.pages |->
                          [pa |-> l.space.pages[va].pa, w |-> page_flags(file[p], va).w, x |-> page_flags(file[p], va).x]]
    OBVIOUS
  <2>2. PICK sp : sp = [l.space EXCEPT !.pages = pages]
    OBVIOUS
  <2>3. \/ \E err : Fail(p, err, frames, l.space)
        \/ ld' = [ld EXCEPT ![p].pc = "stack", ![p].space = sp] /\ frames' = frames
    BY <1>2, <1>5, <2>1, <2>2 DEF SetPermissions
  <2>4. CASE \E err : Fail(p, err, frames, l.space)
    <3>1. PICK err : Fail(p, err, frames, l.space)
      BY <2>4
    <3>2. Put(p, "failed", NoSpace) /\ FrameInv'
      BY <1>2, <1>3, <3>1, FailPut
    <3> QED BY <1>1, <3>2, LoadStep
  <2>5. CASE ld' = [ld EXCEPT ![p].pc = "stack", ![p].space = sp] /\ frames' = frames
    <3>1. sp = [root |-> l.space.root, tables |-> l.space.tables, pages |-> pages, owned |-> l.space.owned]
      <4>1. PICK s : s = l.space /\ IsSpace(s)
        BY <1>3
      <4>2. sp = [root |-> s.root, tables |-> s.tables, pages |-> pages, owned |-> s.owned]
        BY <2>2, <4>1 DEF IsSpace
      <4> QED BY <4>1, <4>2
    <3>2. /\ IsSpace(sp) /\ sp.root = l.space.root /\ sp.tables = l.space.tables /\ sp.pages = pages
          /\ sp.owned = l.space.owned
      BY <3>1 DEF IsSpace
    <3>3. DOMAIN pages = DOMAIN l.space.pages /\ \A va \in DOMAIN l.space.pages : pages[va].pa = l.space.pages[va].pa
      BY <2>1
    <3>4. Accounted(sp)
      <4>1. {sp.pages[a].pa : a \in DOMAIN sp.pages} = {l.space.pages[a].pa : a \in DOMAIN l.space.pages}
        BY <3>2, <3>3
      <4>2. \A a, b \in DOMAIN sp.pages : sp.pages[a].pa = sp.pages[b].pa => a = b
        BY <1>3, <3>2, <3>3 DEF Accounted
      <4>3. {sp.tables[a] : a \in DOMAIN sp.tables} = {l.space.tables[a] : a \in DOMAIN l.space.tables}
        BY <3>2
      <4>4. l.space.owned = ({l.space.root} \ {NoFrame}) \cup {l.space.tables[a] : a \in DOMAIN l.space.tables}
                            \cup {l.space.pages[a].pa : a \in DOMAIN l.space.pages}
        BY <1>3 DEF Accounted
      <4>5. sp.owned = ({sp.root} \ {NoFrame}) \cup {sp.tables[a] : a \in DOMAIN sp.tables}
                       \cup {sp.pages[a].pa : a \in DOMAIN sp.pages}
        BY <3>2, <4>1, <4>3, <4>4
      <4> QED BY <4>2, <4>5 DEF Accounted
    <3>5. PICK r : ld' = [ld EXCEPT ![p] = r] /\ r = [l EXCEPT !.pc = "stack", !.space = sp]
      BY <1>2, <2>5
    <3>6. r = [pc |-> "stack", err |-> l.err, seg |-> l.seg, space |-> sp]
      BY <1>3, <3>5 DEF IsLoad
    <3>7. IsLoad(r) /\ r.pc = "stack" /\ r.space = sp
      BY <3>2, <3>6 DEF IsLoad
    <3>8. Put(p, "stack", sp)
      BY <3>5, <3>7, Stores
    <3>9. frames' \cup sp.owned = frames \cup ld[p].space.owned /\ frames' \cap sp.owned = {} /\ sp.root # NoFrame
      BY <1>2, <1>3, <2>5, <3>2
    <3> QED BY <1>1, <3>4, <3>8, <3>9, LoadSpace
  <2> QED BY <2>3, <2>4, <2>5
<1> QED BY <1>4, <1>5

\* spawn makes the loaded process's thread.
LEMMA SpawnStep ==
    ASSUME TypeOK, CpuInv, FrameInv, NEW p \in Procs, spawn(p)
    PROVE  TypeOK' /\ CpuInv' /\ FrameInv' /\ Quiet(p)
<1>1. /\ ld[p].pc = "stack" /\ ld' = [ld EXCEPT ![p].pc = "loaded"] /\ th' = [th EXCEPT ![p].pc = "entry"]
      /\ frames' = frames
      /\ cur' = cur /\ held' = held /\ cr3' = cr3 /\ kernel_rsp' = kernel_rsp /\ user_rsp' = user_rsp
      /\ slipped' = slipped /\ reapable' = reapable
  BY DEF spawn, memory, cpu, tally
<1>2. PICK l : l = ld[p] /\ IsLoad(l)
  BY DEF TypeOK
<1>3. PICK r : ld' = [ld EXCEPT ![p] = r] /\ r = [l EXCEPT !.pc = "loaded"]
  BY <1>1, <1>2
<1>4. r = [pc |-> "loaded", err |-> l.err, seg |-> l.seg, space |-> l.space]
  BY <1>2, <1>3 DEF IsLoad
<1>5. IsLoad(r) /\ r.pc = "loaded" /\ r.space = l.space
  BY <1>2, <1>4 DEF IsLoad
<1>6. Put(p, "loaded", l.space)
  BY <1>3, <1>5, Stores
<1>7. /\ th' \in [Procs -> ThreadRecord] /\ \A s \in Procs : s # p => th'[s] = th[s]
      /\ th'[p].pc = "entry" /\ (th'[p].adopted <=> th[p].adopted) /\ th'[p].rsp = th[p].rsp
  BY <1>1, PcMove DEF ThreadPc
<1>8. /\ ld' = [q \in Procs |-> ld'[q]] /\ IsLoad(ld'[p]) /\ ld'[p].pc = "loaded"
      /\ \A q \in Procs : q # p => ld'[q] = ld[q]
      /\ \A q \in Procs : root_of(q)' = root_of(q)
  BY <1>2, <1>6 DEF Put, root_of
<1>9. TypeOK'
  <2>1. \A q \in Procs : IsLoad(ld'[q])
    BY <1>8 DEF TypeOK
  <2> QED BY <1>1, <1>7, <1>8, <2>1 DEF TypeOK
<1>10. th[p].pc = "unborn" /\ ~th[p].adopted /\ p \notin reapable
  BY <1>1 DEF CpuInv, ThreadOK
<1>11. CpuInv'
  <2>1. OwnCpu'
    BY <1>1 DEF CpuInv, OwnCpu
  <2>2. ASSUME NEW t \in Procs PROVE ThreadOK(t)'
    <3>1. CASE t = p
      BY <1>1, <1>7, <1>8, <1>10, <3>1 DEF ThreadOK
    <3>2. CASE t # p
      <4>1. ThreadOK(t) /\ th'[t] = th[t] /\ ld'[t] = ld[t] /\ root_of(t)' = root_of(t)
        BY <1>7, <1>8, <3>2 DEF CpuInv
      <4>2. \A c \in CPUs : Running(c, t)' <=> Running(c, t)
        BY <1>1 DEF Running
      <4> QED BY <1>1, <4>1, <4>2 DEF ThreadOK
    <3> QED BY <3>1, <3>2
  <2>3. ASSUME NEW c \in CPUs PROVE CpuOK(c)'
    <3>1. CpuOK(c)
      BY DEF CpuInv
    <3>2. cur[c] # p /\ held[c] # p
      BY <1>10, <3>1 DEF CpuOK, Off
    <3>3. /\ cur[c] \in Procs => th'[cur[c]] = th[cur[c]] /\ root_of(cur[c])' = root_of(cur[c])
          /\ held[c] \in Procs => th'[held[c]] = th[held[c]] /\ root_of(held[c])' = root_of(held[c])
      BY <1>1, <1>7, <1>8, <3>2 DEF root_of
    <3>4. cur'[c] = cur[c] /\ held'[c] = held[c] /\ cr3'[c] = cr3[c] /\ kernel_rsp'[c] = kernel_rsp[c]
      BY <1>1
    <3> QED BY <1>1, <3>1, <3>3, <3>4 DEF CpuOK, root_of
  <2> QED BY <2>1, <2>2, <2>3 DEF CpuInv
<1>12. FrameInv'
  <2>1. \A t \in Procs : th'[t].pc = "reaped" <=> th[t].pc = "reaped"
    BY <1>7, <1>10
  <2>2. SpaceOK(p)
    BY DEF FrameInv
  <2>3. /\ l.space.root # NoFrame /\ Accounted(l.space) /\ l.space.owned \cap frames = {}
    BY <1>1, <1>2, <1>10, <2>2 DEF SpaceOK
  <2>4. ld'[p].pc = "loaded" /\ ld'[p].space = l.space /\ th'[p].pc # "reaped"
    BY <1>6, <1>7 DEF Put
  <2>5. SpaceOK(p)'
    BY <1>1, <2>3, <2>4 DEF SpaceOK
  <2>6. frames' \cup l.space.owned = frames \cup ld[p].space.owned /\ frames' \cap l.space.owned = {}
    BY <1>1, <1>2, <2>3
  <2> QED BY <1>6, <2>1, <2>5, <2>6, Exchange
<1>13. Quiet(p)
  BY <1>7 DEF Quiet
<1> QED BY <1>9, <1>11, <1>12, <1>13

\* Every step of a load keeps the invariants and touches no thread but the one it makes.
LEMMA Loads ==
    ASSUME TypeOK, CpuInv, FrameInv, NEW p \in Procs, Load(p)
    PROVE  /\ TypeOK' /\ CpuInv' /\ FrameInv'
           /\ th' = th \/ Quiet(p)
           /\ \A t \in Procs : th[t].pc # "unborn" => th'[t] = th[t] /\ ld'[t] = ld[t]
<1>1. ld[p].pc # "loaded"
  BY DEF Load, Parse, NewSpace, MapPage, CopySegment, SetPermissions, MapStack, spawn
<1>2. th[p].pc = "unborn"
  BY <1>1 DEF CpuInv, ThreadOK
<1>3. \A t \in Procs : t # p => ld'[t] = ld[t]
  <2>1. ASSUME NEW r, ld' = [ld EXCEPT ![p] = r] PROVE \A t \in Procs : t # p => ld'[t] = ld[t]
    BY <2>1 DEF TypeOK
  <2>2. \E r : ld' = [ld EXCEPT ![p] = r]
    <3>1. CASE Parse(p)
      BY <3>1 DEF Parse
    <3>2. CASE NewSpace(p)
      BY <3>2 DEF NewSpace, Fail
    <3>3. CASE MapPage(p)
      BY <3>3 DEF MapPage, Fail
    <3>4. CASE CopySegment(p)
      BY <3>4 DEF CopySegment
    <3>5. CASE SetPermissions(p)
      BY <3>5 DEF SetPermissions, Fail
    <3>6. CASE MapStack(p)
      BY <3>6 DEF MapStack, Fail
    <3>7. CASE spawn(p)
      BY <3>7 DEF spawn
    <3> QED BY <3>1, <3>2, <3>3, <3>4, <3>5, <3>6, <3>7 DEF Load
  <2> QED BY <2>1, <2>2
<1>4. CASE spawn(p)
  BY <1>2, <1>3, <1>4, SpawnStep DEF Quiet
<1>5. CASE ~spawn(p)
  <2>1. th' = th
    BY <1>5 DEF Load, Parse, NewSpace, MapPage, CopySegment, SetPermissions, MapStack
  <2>2. TypeOK' /\ CpuInv' /\ FrameInv'
    BY <1>5, ParseStep, NewSpaceStep, PageStep, FillSteps DEF Load
  <2> QED BY <1>2, <1>3, <2>1, <2>2
<1> QED BY <1>4, <1>5

\* reap returns the frames of every corpse at once; no processor still needs one.
LEMMA ReapStep ==
    ASSUME TypeOK, CpuInv, FrameInv, NEW c \in CPUs, reap(c)
    PROVE  /\ TypeOK' /\ CpuInv' /\ FrameInv'
           /\ \A t \in Procs : /\ th'[t].rsp = th[t].rsp
                               /\ (th'[t] = th[t] /\ ld'[t] = ld[t]) \/ th'[t].pc = "reaped"
<1>0. PICK K : K = {t \in reapable : \A k \in CPUs : cur[k] # t}
  OBVIOUS
<1>1. /\ reapable' = reapable \ K
      /\ frames' = frames \cup UNION {ld[t].space.owned : t \in K}
      /\ ld' = [t \in Procs |-> IF t \in K THEN [ld[t] EXCEPT !.space = NoSpace] ELSE ld[t]]
      /\ th' = [t \in Procs |-> IF t \in K THEN [th[t] EXCEPT !.pc = "reaped"] ELSE th[t]]
      /\ cur' = cur /\ held' = held /\ cr3' = cr3 /\ kernel_rsp' = kernel_rsp /\ user_rsp' = user_rsp
      /\ slipped' = slipped
  BY <1>0 DEF reap, cpu
<1>2. K \in SUBSET Procs /\ \A t \in K : th[t].pc = "exited" /\ t \in reapable /\ \A k \in CPUs : cur[k] # t
  BY <1>0 DEF TypeOK, CpuInv, ThreadOK
<1>3. \A t \in Procs \ K : th'[t] = th[t] /\ ld'[t] = ld[t]
  BY <1>1
<1>4. ASSUME NEW t \in K
      PROVE  /\ th'[t] \in ThreadRecord /\ th'[t].pc = "reaped" /\ th'[t].rsp = th[t].rsp
             /\ th'[t].adopted <=> th[t].adopted
             /\ IsLoad(ld'[t]) /\ ld'[t].pc = ld[t].pc /\ ld'[t].space = NoSpace
  <2>1. PICK r : r = th[t] /\ r \in ThreadRecord
    BY <1>2 DEF TypeOK
  <2>2. PICK s : s = [r EXCEPT !.pc = "reaped"]
    OBVIOUS
  <2>3. s \in ThreadRecord /\ s.pc = "reaped" /\ s.rsp = r.rsp /\ s.adopted = r.adopted
    BY <2>1, <2>2 DEF ThreadRecord, ThreadPc
  <2>4. th'[t] = s
    BY <1>1, <1>2, <2>1, <2>2
  <2>5. PICK l : l = ld[t] /\ IsLoad(l)
    BY <1>2 DEF TypeOK
  <2>6. PICK m : m = [l EXCEPT !.space = NoSpace]
    OBVIOUS
  <2>7. m = [pc |-> l.pc, err |-> l.err, seg |-> l.seg, space |-> NoSpace]
    BY <2>5, <2>6 DEF IsLoad
  <2>8. IsSpace(NoSpace)
    BY DEF IsSpace, NoSpace
  <2>9. IsLoad(m) /\ m.pc = l.pc /\ m.space = NoSpace
    BY <2>7, <2>8 DEF IsLoad
  <2>10. ld'[t] = m
    BY <1>1, <1>2, <2>5, <2>6
  <2> QED BY <2>1, <2>3, <2>4, <2>5, <2>9, <2>10, ZenonT(60)
<1>5. TypeOK'
  <2>1. th' \in [Procs -> ThreadRecord]
    <3>1. \A t \in Procs : th'[t] \in ThreadRecord
      BY <1>3, <1>4 DEF TypeOK
    <3>2. th' = [t \in Procs |-> th'[t]]
      BY <1>1
    <3> QED BY <3>1, <3>2
  <2>2. ld' = [t \in Procs |-> ld'[t]] /\ \A t \in Procs : IsLoad(ld'[t])
    <3>1. \A t \in Procs : IsLoad(ld'[t])
      BY <1>3, <1>4 DEF TypeOK
    <3>2. ld' = [t \in Procs |-> ld'[t]]
      BY <1>1
    <3> QED BY <3>1, <3>2
  <2>3. reapable' \in SUBSET Procs
    BY <1>1 DEF TypeOK
  <2> QED BY <1>1, <2>1, <2>2, <2>3 DEF TypeOK
<1>6. CpuInv'
  <2>1. OwnCpu'
    BY <1>1 DEF CpuInv, OwnCpu
  <2>2. ASSUME NEW t \in Procs PROVE ThreadOK(t)'
    <3>0. ThreadOK(t)
      BY DEF CpuInv
    <3>1. CASE t \in K
      <4>1. ld'[t].pc = "loaded" /\ th'[t].adopted /\ th'[t].pc = "reaped" /\ t \notin reapable'
        BY <1>1, <1>2, <1>4, <3>0, <3>1, ZenonT(60) DEF ThreadOK
      <4> QED BY <4>1 DEF ThreadOK
    <3>2. CASE t \notin K
      <4>1. th'[t] = th[t] /\ ld'[t] = ld[t] /\ root_of(t)' = root_of(t) /\ (t \in reapable' => t \in reapable)
        BY <1>1, <1>3, <3>2 DEF root_of
      <4>2. \A k \in CPUs : Running(k, t)' <=> Running(k, t)
        BY <1>1 DEF Running
      <4> QED BY <1>1, <3>0, <4>1, <4>2, ZenonT(60) DEF ThreadOK
    <3> QED BY <3>1, <3>2
  <2>3. ASSUME NEW k \in CPUs PROVE CpuOK(k)'
    <3>1. CpuOK(k)
      BY DEF CpuInv
    <3>2. cur'[k] = cur[k] /\ held'[k] = held[k] /\ cr3'[k] = cr3[k] /\ kernel_rsp'[k] = kernel_rsp[k]
      BY <1>1
    <3>3. cur[k] \in Procs => th'[cur[k]] = th[cur[k]] /\ ld'[cur[k]] = ld[cur[k]]
      BY <1>2, <1>3
    <3>4. \A t \in Procs : th[t].pc \in Alive => th'[t] = th[t] /\ ld'[t] = ld[t]
      BY <1>2, <1>3 DEF Alive
    <3>5. held[k] \in Procs => th'[held[k]] = th[held[k]] \/ th'[held[k]].pc = "reaped"
      BY <1>3, <1>4
    <3>6. held[k] # NoSwitch /\ cur[k] \in Procs => th'[cur[k]].pc \in Off
      BY <3>1, <3>3 DEF CpuOK
    <3>7. held[k] \in Procs => th'[held[k]].pc \in Off \cup {"exited", "reaped"}
      BY <3>1, <3>5 DEF CpuOK
    <3>8. cur[k] \in Procs /\ held[k] = NoSwitch =>
             /\ kernel_rsp[k] = cur[k] /\ th'[cur[k]].pc \notin {"unborn", "entry", "exited", "reaped"}
             /\ th'[cur[k]].pc \in Alive => cr3[k] = ld'[cur[k]].space.root \/ cur[k] \in slipped'
      BY <1>1, <3>1, <3>3 DEF CpuOK, root_of
    <3>9. cr3[k] # KernelRoot =>
             LET t == IF held[k] = NoSwitch THEN cur[k] ELSE held[k]
             IN  t \in Procs /\ th'[t].pc \in Alive /\ cr3[k] = ld'[t].space.root
      BY <3>1, <3>4 DEF CpuOK, root_of
    <3> QED BY <3>2, <3>6, <3>7, <3>8, <3>9 DEF CpuOK, root_of
  <2> QED BY <2>1, <2>2, <2>3 DEF CpuInv
<1>7. FrameInv'
  <2>1. NoSpace.owned = {} /\ Accounted(NoSpace)
    BY SMT DEF NoSpace, Accounted, NoFrame
  <2>2. \A p, q \in Procs : p # q => ld'[p].space.owned \cap ld'[q].space.owned = {}
    <3> SUFFICES ASSUME NEW p \in Procs, NEW q \in Procs, p # q
                 PROVE  ld'[p].space.owned \cap ld'[q].space.owned = {}
      OBVIOUS
    <3>1. CASE p \in K \/ q \in K
      BY <1>4, <2>1, <3>1
    <3>2. CASE p \notin K /\ q \notin K
      BY <1>3, <3>2 DEF FrameInv
    <3> QED BY <3>1, <3>2
  <2>3. ASSUME NEW p \in Procs PROVE SpaceOK(p)'
    <3>0. SpaceOK(p)
      BY DEF FrameInv
    <3>1. CASE p \in K
      <4>1. ld'[p].pc = ld[p].pc /\ ld'[p].space = NoSpace /\ th'[p].pc = "reaped"
        BY <1>4, <3>1
      <4>2. ld'[p].space.owned \cap frames' = {} /\ Accounted(ld'[p].space)
        BY <2>1, <4>1
      <4> QED BY <3>0, <4>1, <4>2 DEF SpaceOK
    <3>2. CASE p \notin K
      <4>1. th'[p] = th[p] /\ ld'[p] = ld[p]
        BY <1>3, <3>2
      <4>2. ld[p].space.owned \cap frames' = {}
        <5> SUFFICES ASSUME NEW f \in ld[p].space.owned, f \in frames' PROVE FALSE
          OBVIOUS
        <5>1. f \notin frames
          BY <3>0 DEF SpaceOK
        <5>2. PICK t \in K : f \in ld[t].space.owned
          BY <1>1, <5>1
        <5> QED BY <1>2, <3>2, <5>2 DEF FrameInv
      <4> QED BY <3>0, <4>1, <4>2 DEF SpaceOK
    <3> QED BY <3>1, <3>2
  <2>4. PICK n \in FrameCounts : frames \cup UNION {ld[q].space.owned : q \in Procs} = 1..n
    BY DEF FrameInv
  <2>5. frames' \cup UNION {ld'[q].space.owned : q \in Procs} = frames \cup UNION {ld[q].space.owned : q \in Procs}
    <3>1. ASSUME NEW f, f \in frames' \cup UNION {ld'[q].space.owned : q \in Procs}
          PROVE  f \in frames \cup UNION {ld[q].space.owned : q \in Procs}
      <4>1. CASE f \in frames'
        BY <1>1, <1>2, <4>1
      <4>2. ASSUME NEW q \in Procs, f \in ld'[q].space.owned PROVE f \in ld[q].space.owned
        BY <1>3, <1>4, <2>1, <4>2
      <4> QED BY <3>1, <4>1, <4>2, ZenonT(60)
    <3>2. ASSUME NEW f, f \in frames \cup UNION {ld[q].space.owned : q \in Procs}
          PROVE  f \in frames' \cup UNION {ld'[q].space.owned : q \in Procs}
      <4>1. CASE f \in frames
        BY <1>1, <4>1
      <4>2. ASSUME NEW q \in Procs, f \in ld[q].space.owned
            PROVE  f \in frames' \/ f \in ld'[q].space.owned
        BY <1>1, <1>3, <4>2
      <4> QED BY <3>2, <4>1, <4>2
    <3> QED BY <3>1, <3>2
  <2> QED BY <2>2, <2>3, <2>4, <2>5, ZenonT(60) DEF FrameInv
<1>8. \A t \in Procs : th'[t].rsp = th[t].rsp /\ ((th'[t] = th[t] /\ ld'[t] = ld[t]) \/ th'[t].pc = "reaped")
  BY <1>3, <1>4
<1> QED BY <1>5, <1>6, <1>7, <1>8

\* A step that neither loads nor reaps moves no frame.
LEMMA FramesStay ==
    ASSUME FrameInv, ld' = ld, frames' = frames, \A t \in Procs : th'[t].pc = "reaped" <=> th[t].pc = "reaped"
    PROVE  FrameInv'
<1>1. ASSUME NEW p \in Procs PROVE SpaceOK(p)'
  <2>1. SpaceOK(p) /\ (th'[p].pc = "reaped" <=> th[p].pc = "reaped")
    BY DEF FrameInv
  <2> QED BY <2>1 DEF SpaceOK
<1> QED BY <1>1 DEF FrameInv

\* Every step of a running thread.
LEMMA ThreadSteps ==
    ASSUME TypeOK, CpuInv, FrameInv, NEW c \in CPUs, NEW t \in Procs, ThreadStep(c, t)
    PROVE  /\ TypeOK' /\ CpuInv' /\ FrameInv' /\ ld' = ld
           /\ \A s \in Procs : s # t => th'[s] = th[s]
           /\ th'[t].rsp # th[t].rsp => th[t].call = "Yield"
           /\ th'[t].pc = "return" /\ th'[t].call = "Write" => handle(c, t)
<1>1. Running(c, t) /\ ld' = ld /\ frames' = frames
  BY DEF ThreadStep, InitSyscalls, activate, adopt_address_space, enter_user, syscall_entry, handle,
               sysret, Exit, user_fault, Yield, exit_current, At, Running, memory
<1>2. th[t].pc # "reaped"
  BY <1>1 DEF CpuInv, CpuOK, Running
<1> DEFINE Goal == /\ TypeOK' /\ CpuInv' /\ th'[t].pc # "reaped"
                   /\ \A s \in Procs : s # t => th'[s] = th[s]
                   /\ th'[t].rsp # th[t].rsp => th[t].call = "Yield"
                   /\ th'[t].pc = "return" /\ th'[t].call = "Write" => handle(c, t)
<1>3. ASSUME InitSyscalls(c, t) \/ activate(c, t) PROVE Goal
  BY <1>3, EntrySteps DEF Quiet
<1>4. ASSUME adopt_address_space(c, t) \/ enter_user(c, t) PROVE Goal
  BY <1>4, AdoptSteps DEF Quiet
<1>5. ASSUME NEW call \in Calls, syscall_entry(c, t, call) PROVE Goal
  BY <1>5, EntryCall
<1>6. ASSUME handle(c, t) PROVE Goal
  BY <1>6, HandleStep
<1>7. ASSUME sysret(c, t) PROVE Goal
  BY <1>7, SysretStep
<1>8. ASSUME Exit(c, t) \/ user_fault(c, t) PROVE Goal
  BY <1>8, LeaveSteps
<1>9. ASSUME NEW n \in Procs \cup {Idle}, Yield(c, t, n) \/ exit_current(c, t, n) PROVE Goal
  <2>1. CASE Yield(c, t, n) /\ n = t
    BY <2>1, YieldStays DEF Quiet
  <2>2. CASE (Yield(c, t, n) /\ n # t) \/ exit_current(c, t, n)
    BY <2>2, GiveUpSteps
  <2> QED BY <1>9, <2>1, <2>2
<1>10. Goal
  <2> HIDE DEF Goal
  <2> QED BY <1>3, <1>4, <1>5, <1>6, <1>7, <1>8, <1>9, ZenonT(60) DEF ThreadStep
<1>11. \A s \in Procs : th'[s].pc = "reaped" <=> th[s].pc = "reaped"
  BY <1>2, <1>10
<1>12. FrameInv'
  BY <1>1, <1>11, FramesStay
<1> QED BY <1>1, <1>10, <1>12

\* The initial states have their frames in order.
LEMMA InitFrames == Init => FrameInv
<1> SUFFICES ASSUME Init PROVE FrameInv
  OBVIOUS
<1>1. NoSpace.owned = {} /\ Accounted(NoSpace)
  BY SMT DEF NoSpace, Accounted, NoFrame
<1>2. \A p \in Procs : ld[p].pc = "parse" /\ ld[p].space = NoSpace
  BY DEF Init
<1>3. \A p \in Procs : SpaceOK(p)
  BY <1>1, <1>2 DEF SpaceOK
<1>4. PICK n \in FrameCounts : frames = 1..n
  BY DEF Init
<1>5. UNION {ld[p].space.owned : p \in Procs} = {}
  BY <1>1, <1>2
<1>6. frames \cup UNION {ld[p].space.owned : p \in Procs} = 1..n
  BY <1>4, <1>5
<1> QED BY <1>1, <1>2, <1>3, <1>6 DEF FrameInv

\* The inductive invariant.
ProcInv == TypeOK /\ CpuInv /\ FrameInv

\* Every step keeps the invariant; only Yield changes a thread's stack pointer.
LEMMA ProcStep ==
    ASSUME ProcInv, [Next]_vars
    PROVE  ProcInv' /\ \A s \in Procs : th'[s].rsp # th[s].rsp => th[s].call = "Yield"
<1> USE DEF ProcInv
<1>1. CASE UNCHANGED vars
  <2>1. /\ ld' = ld /\ th' = th /\ cur' = cur /\ held' = held /\ cr3' = cr3 /\ kernel_rsp' = kernel_rsp
        /\ user_rsp' = user_rsp /\ reapable' = reapable /\ slipped' = slipped /\ frames' = frames
    BY <1>1 DEF vars
  <2>2. TypeOK'
    BY <2>1 DEF TypeOK
  <2>3. CpuInv'
    <3>1. OwnCpu'
      BY <2>1 DEF CpuInv, OwnCpu
    <3>2. ASSUME NEW t \in Procs PROVE ThreadOK(t)'
      <4>1. ThreadOK(t) /\ root_of(t)' = root_of(t) /\ \A c \in CPUs : Running(c, t)' <=> Running(c, t)
        BY <2>1 DEF CpuInv, root_of, Running
      <4> QED BY <2>1, <4>1 DEF ThreadOK
    <3>3. ASSUME NEW c \in CPUs PROVE CpuOK(c)'
      <4>1. CpuOK(c)
        BY DEF CpuInv
      <4> QED BY <2>1, <4>1 DEF CpuOK, root_of
    <3> QED BY <3>1, <3>2, <3>3 DEF CpuInv
  <2>4. FrameInv'
    BY <2>1, FramesStay
  <2> QED BY <2>1, <2>2, <2>3, <2>4
<1>2. ASSUME NEW p \in Procs, Load(p)
      PROVE  ProcInv' /\ \A s \in Procs : th'[s].rsp = th[s].rsp
  BY <1>2, Loads DEF Quiet
<1>3. ASSUME NEW c \in CPUs, FinishSwitch(c)
      PROVE  ProcInv' /\ \A s \in Procs : th'[s].rsp = th[s].rsp
  <2>1. ld' = ld /\ frames' = frames
    BY <1>3 DEF FinishSwitch, memory
  <2>2. /\ TypeOK' /\ CpuInv'
        /\ \A s \in Procs : th'[s].rsp = th[s].rsp /\ (th'[s].pc = "reaped" <=> th[s].pc = "reaped")
    BY <1>3, FinishStep
  <2> QED BY <2>1, <2>2, FramesStay
<1>4. ASSUME NEW c \in CPUs, reap(c)
      PROVE  ProcInv' /\ \A s \in Procs : th'[s].rsp = th[s].rsp
  BY <1>4, ReapStep
<1>5. ASSUME NEW c \in CPUs, NEW n \in Procs \cup {Idle}, Preempt(c, n)
      PROVE  ProcInv' /\ \A s \in Procs : th'[s].rsp = th[s].rsp
  <2>1. ld' = ld /\ frames' = frames /\ th' = th
    BY <1>5 DEF Preempt, memory
  <2>2. TypeOK' /\ CpuInv'
    BY <1>5, PreemptStep
  <2> QED BY <2>1, <2>2, FramesStay
<1>6. ASSUME NEW c \in CPUs, NEW t \in Procs, ThreadStep(c, t)
      PROVE  ProcInv' /\ \A s \in Procs : th'[s].rsp # th[s].rsp => th[s].call = "Yield"
  BY <1>6, ThreadSteps
<1>7. CASE Done
  BY <1>1, <1>7 DEF Done
<1> QED BY <1>1, <1>2, <1>3, <1>4, <1>5, <1>6, <1>7, ZenonT(60) DEF Next

\* The types, who has which thread, stack and root, and who owns which frame: the
\* invariant of loading, running and reaping.
THEOREM InvariantHolds == Spec => []ProcInv
<1>1. Init => ProcInv
  BY InitCpu, InitFrames DEF ProcInv
<1>2. ProcInv /\ [Next]_vars => ProcInv'
  BY ProcStep
<1> QED BY <1>1, <1>2, PTL DEF Spec

\* Ring3IsItsOwn for any number of processes and processors and any interleaving of
\* switches, faults and calls: in ring 3 a processor would trap onto the stack of the
\* thread it runs and is on that process's tables (schedule, user_thread_entry).
THEOREM Ring3Holds == Spec => []Ring3IsItsOwn
<1>1. ProcInv => Ring3IsItsOwn
  <2> SUFFICES ASSUME ProcInv, NEW c \in CPUs, NEW t \in Procs, At(c, t, "user")
               PROVE  kernel_rsp[c] = t /\ (cr3[c] = root_of(t) \/ t \in slipped)
    BY DEF Ring3IsItsOwn
  <2>1. CpuInv /\ Running(c, t) /\ th[t].pc \in Alive
    BY DEF ProcInv, At, Running, Alive
  <2> QED BY <2>1, RunningFacts
<1> QED BY <1>1, InvariantHolds, PTL

\* FramesAccounted for any images, any number of frames and any page size: no frame is
\* lost or owned twice on any path through loading, failing, exiting and reaping, and
\* no processor is on the tables of a space that was dropped.
THEOREM FramesHold == Spec => []FramesAccounted
<1>1. ProcInv => FramesAccounted
  <2> SUFFICES ASSUME ProcInv PROVE FramesAccounted
    OBVIOUS
  <2>1. ASSUME NEW c \in CPUs, cr3[c] # KernelRoot
        PROVE  \E p \in Procs : cr3[c] = root_of(p) /\ root_of(p) # NoFrame
    <3>1. CpuOK(c)
      BY DEF ProcInv, CpuInv
    <3>2. PICK t \in Procs : th[t].pc \in Alive /\ cr3[c] = root_of(t)
      BY <2>1, <3>1 DEF CpuOK
    <3>3. th[t].pc \notin {"unborn", "reaped"}
      BY <3>2 DEF Alive
    <3>4. ld[t].pc = "loaded"
      BY <3>3 DEF ProcInv, CpuInv, ThreadOK
    <3>5. ld[t].space.root # NoFrame
      BY <3>3, <3>4 DEF ProcInv, FrameInv, SpaceOK
    <3> QED BY <3>2, <3>5 DEF root_of
  <2>2. \A p \in Procs : Accounted(ld[p].space) /\ ld[p].space.owned \cap frames = {}
    BY DEF ProcInv, FrameInv, SpaceOK
  <2>3. /\ \A p, q \in Procs : p # q => ld[p].space.owned \cap ld[q].space.owned = {}
        /\ \E n \in FrameCounts : frames \cup UNION {ld[p].space.owned : p \in Procs} = 1..n
    BY DEF ProcInv, FrameInv
  <2> QED BY <2>1, <2>2, <2>3 DEF FramesAccounted, Accounted
<1> QED BY <1>1, InvariantHolds, PTL

\* StackSurvivesCall: whatever a processor does meanwhile, only a process that called
\* Yield gets another stack pointer than it had (syscall_entry, sysret).
THEOREM StackHolds == Spec => StackSurvivesCall
<1>1. ProcInv /\ [Next]_vars => [\A t \in Procs : th'[t].rsp # th[t].rsp => th[t].call = "Yield"]_vars
  BY ProcStep
<1> QED BY <1>1, InvariantHolds, PTL DEF Spec, StackSurvivesCall

-----------------------------------------------------------------------------
\* Division by the page size: the remainder and the quotient, and that two multiples
\* of it less than a page apart are in order.
LEMMA PageDiv ==
    ASSUME NEW a \in Nat
    PROVE  /\ a % PageSize \in 0..(PageSize - 1) /\ a \div PageSize \in Nat
           /\ page_of(a) = PageSize * (a \div PageSize)
<1> PICK P \in Nat \ {0} : P = PageSize
  BY ImageConstants, SMT
<1>1. a % P \in 0..(P - 1)
  BY SMTT(40)
<1>2. a \div P \in Nat
  BY SMTT(40)
<1>3. a - (a % P) = P * (a \div P)
  BY SMTT(40)
<1> QED BY <1>1, <1>2, <1>3 DEF page_of

\* page_of rounds down to the start of the page.
LEMMA PageOf ==
    ASSUME NEW a \in Nat
    PROVE  /\ page_of(a) \in Nat /\ page_of(a) <= a /\ a < page_of(a) + PageSize
           /\ page_of(a) % PageSize = 0
<1> PICK P \in Nat \ {0} : P = PageSize
  BY ImageConstants, SMT
<1>1. PICK r \in 0..(P - 1) : r = a % PageSize
  BY PageDiv, SMT
<1>2. PICK x : x = page_of(a)
  OBVIOUS
<1>3. x = a - r
  BY <1>1, <1>2 DEF page_of
<1>4. PICK k \in Nat : k = a \div PageSize
  BY PageDiv
<1>5. x = P * k
  BY <1>2, <1>4, PageDiv
<1>6. x \in Nat
  BY <1>5, SMT
<1>7. (P * k) % P = 0
  BY SMT
<1>8. x <= a /\ a < x + P
  BY <1>3, SMTT(40)
<1> QED BY <1>2, <1>5, <1>6, <1>7, <1>8, SMTT(40)

\* Two page starts less than a page apart are in order.
LEMMA PageStarts ==
    ASSUME NEW x \in Nat, NEW y \in Nat, x % PageSize = 0, y % PageSize = 0, y < x + PageSize
    PROVE  y <= x
<1> PICK P \in Nat \ {0} : P = PageSize
  BY ImageConstants, SMTT(40)
<1>1. PICK k \in Nat : x = P * k
  <2>1. page_of(x) = x
    BY SMTT(40) DEF page_of
  <2> QED BY <2>1, PageDiv
<1>2. PICK m \in Nat : y = P * m
  <2>1. page_of(y) = y
    BY SMTT(40) DEF page_of
  <2> QED BY <2>1, PageDiv
<1>3. P * m < P * k + P
  BY <1>1, <1>2, SMTT(40)
<1>4. m <= k
  BY <1>3, SMTT(40)
<1> QED BY <1>1, <1>2, <1>4, SMTT(40)

\* copy_user_slice walks from the page of the first byte to the last byte, a page at a
\* time: it visits exactly the pages the copy then touches, for every alignment.
LEMMA WalkIsTouch ==
    ASSUME NEW ptr \in Nat, NEW len \in Nat \ {0}
    PROVE  Walked(ptr, len) = Touched(ptr, len)
<1> PICK P \in Nat \ {0} : P = PageSize
  BY ImageConstants, SMTT(40)
<1>0. PICK f \in Nat : f = page_of(ptr) /\ f <= ptr /\ ptr < f + P /\ f % PageSize = 0
  BY PageOf, SMTT(40)
<1>1. ASSUME NEW a \in ptr..(ptr + len - 1) PROVE page_of(a) \in Walked(ptr, len)
  <2>1. PICK x \in Nat : x = page_of(a) /\ x <= a /\ a < x + P /\ x % PageSize = 0
    BY PageOf, SMTT(40)
  <2>2. f < x + P
    BY <1>0, <2>1, SMTT(40)
  <2>3. f <= x
    BY <1>0, <2>1, <2>2, PageStarts, SMTT(40)
  <2>4. x \in f..(ptr + len - 1)
    BY <2>1, <2>3, SMTT(40)
  <2> QED BY <1>0, <2>1, <2>4, ZenonT(60) DEF Walked
<1>2. ASSUME NEW va \in Walked(ptr, len) PROVE \E a \in ptr..(ptr + len - 1) : va = page_of(a)
  <2>1. va \in f..(ptr + len - 1) /\ va % PageSize = 0
    BY <1>0 DEF Walked
  <2>2. CASE va >= ptr
    <3>1. va \in ptr..(ptr + len - 1) /\ page_of(va) = va
      BY <2>1, <2>2, SMTT(40) DEF page_of
    <3> QED BY <3>1
  <2>3. CASE ~(va >= ptr)
    <3>1. va \in Nat /\ va < f + P
      BY <1>0, <2>1, <2>3, SMTT(40)
    <3>2. va <= f
      BY <1>0, <2>1, <3>1, PageStarts, SMTT(40)
    <3>3. va = f /\ ptr \in ptr..(ptr + len - 1)
      BY <2>1, <3>1, <3>2, SMTT(40)
    <3> QED BY <1>0, <3>3
  <2> QED BY <2>2, <2>3
<1>3. Walked(ptr, len) \subseteq Touched(ptr, len)
  BY <1>2 DEF Touched
<1>4. ASSUME NEW va \in Touched(ptr, len) PROVE va \in Walked(ptr, len)
  <2>1. PICK a \in ptr..(ptr + len - 1) : va = page_of(a)
    BY DEF Touched
  <2> QED BY <1>1, <2>1
<1>5. Touched(ptr, len) \subseteq Walked(ptr, len)
  BY <1>4
<1> QED BY <1>3, <1>5

-----------------------------------------------------------------------------
\* The answer write owes a process with this address space, as WriteIsExact says it.
Fits(sp, ptr, len) == \A a \in ptr..(ptr + len - 1) : a < USER_MAX /\ is_mapped(sp, page_of(a))
Exact(sp, ptr, len) ==
    IF len > MAX_WRITE THEN "BadArgument" ELSE IF Fits(sp, ptr, len) THEN "written" ELSE "BadAddress"

\* user_range_ok is that every byte of a buffer that is not empty lies below USER_MAX:
\* no sum wraps, because USER_MAX does not reach the end of the address space.
LEMMA RangeIsBelow ==
    ASSUME NEW ptr \in Nat, NEW len \in Nat \ {0}
    PROVE  user_range_ok(ptr, len) <=> \A a \in ptr..(ptr + len - 1) : a < USER_MAX
<1>0. PICK M \in Nat, W \in Nat : M = USER_MAX /\ W = Wrap /\ M < W
  BY ImageConstants, SMTT(40)
<1>1. PICK e \in Nat : e = ptr + len
  BY SMT
<1>2. user_range_ok(ptr, len) <=> (e < W /\ ptr < M /\ e <= M)
  BY <1>0, <1>1, SMTT(40) DEF user_range_ok, checked_add, None
<1>3. (\A a \in ptr..(e - 1) : a < M) <=> e <= M
  <2>1. e - 1 \in ptr..(e - 1)
    BY <1>1, SMTT(40)
  <2>2. e - 1 < M => e <= M
    BY SMTT(40)
  <2>3. e <= M => \A a \in ptr..(e - 1) : a < M
    BY SMT
  <2> QED BY <2>1, <2>2, <2>3
<1>4. e <= M => e < W /\ ptr < M
  BY <1>0, <1>1, SMTT(40)
<1>5. user_range_ok(ptr, len) <=> \A a \in ptr..(e - 1) : a < M
  BY <1>2, <1>3, <1>4
<1> QED BY <1>0, <1>1, <1>5, SMTT(40)

\* Spaces in use have roots of their own, so the tables a processor is on are those of
\* one process.
LEMMA RootIsOwn ==
    ASSUME FrameInv, NEW p \in Procs, NEW t \in Procs, root_of(t) # NoFrame, root_of(p) = root_of(t)
    PROVE  p = t
<1>1. SpaceOK(p) /\ SpaceOK(t) /\ (p # t => ld[p].space.owned \cap ld[t].space.owned = {})
  BY DEF FrameInv
<1>2. \A q \in {p, t} : root_of(q) \in ld[q].space.owned
  BY <1>1 DEF SpaceOK, Accounted, root_of
<1> QED BY <1>1, <1>2

\* On the processor of a process, write answers what it owes that process: the walk sees
\* every page the copy touches, so the copy itself never faults.
LEMMA WriteExact ==
    ASSUME FrameInv, NEW c \in CPUs, NEW t \in Procs, root_of(t) # NoFrame, cr3[c] = root_of(t),
           NEW ptr \in Nat, NEW len \in Nat
    PROVE  sys_write(c, ptr, len) = Exact(ld[t].space, ptr, len)
<1> DEFINE sp == ld[t].space
<1>1. \A va : mapped(c, va) <=> va >= USER_MAX \/ is_mapped(sp, va)
  BY RootIsOwn DEF mapped
<1> HIDE DEF sp
<1>2. CASE len = 0
  <2>1. ptr..(ptr + len - 1) = {}
    BY <1>2, SMTT(40)
  <2>2. Fits(sp, ptr, len)
    BY <2>1 DEF Fits
  <2> QED BY <1>2, <2>2 DEF sys_write, Exact, sp
<1>3. CASE len # 0
  <2>0. len \in Nat \ {0}
    BY <1>3
  <2>1. Walked(ptr, len) = Touched(ptr, len)
    BY <2>0, WalkIsTouch
  <2>2. user_range_ok(ptr, len) <=> \A a \in ptr..(ptr + len - 1) : a < USER_MAX
    BY <2>0, RangeIsBelow
  <2>3. CASE ~user_range_ok(ptr, len)
    <3>1. ~Fits(sp, ptr, len)
      BY <2>2, <2>3 DEF Fits
    <3> QED BY <1>3, <2>3, <3>1 DEF sys_write, Exact, sp
  <2>4. CASE user_range_ok(ptr, len)
    <3>1. ASSUME NEW a \in ptr..(ptr + len - 1) PROVE mapped(c, page_of(a)) <=> is_mapped(sp, page_of(a))
      <4>1. a \in Nat /\ a < USER_MAX
        BY <2>2, <2>4, SMTT(40)
      <4>2. page_of(a) \in Nat /\ page_of(a) <= a
        BY <4>1, PageOf
      <4>3. ~(page_of(a) >= USER_MAX)
        BY <4>1, <4>2, ImageConstants, SMTT(40)
      <4> QED BY <1>1, <4>3
    <3>2. (\E va \in Touched(ptr, len) : ~mapped(c, va)) <=> ~Fits(sp, ptr, len)
      BY <2>2, <2>4, <3>1 DEF Touched, Fits
    <3> QED BY <1>3, <2>1, <2>4, <3>2 DEF sys_write, Exact, sp
  <2> QED BY <2>3, <2>4
<1> QED BY <1>2, <1>3

\* A process coming back from write has the answer it was owed, for one of the buffers.
Owed(t) == \E w \in Writes : th[t].ret = <<w, Exact(ld[t].space, w[1], w[2])>>
WriteInv == \A t \in Procs : th[t].pc = "return" /\ th[t].call = "Write" => Owed(t)

\* Every step keeps the answers: only handle gives one, and no step takes a page from a
\* space whose thread is between its call and its return.
LEMMA WriteStep ==
    ASSUME ProcInv, WriteInv, [Next]_vars
    PROVE  WriteInv'
<1> USE DEF ProcInv
<1>0. SUFFICES ASSUME NEW s \in Procs, th'[s].pc = "return", th'[s].call = "Write"
               PROVE  Owed(s)'
  BY DEF WriteInv
<1>1. ASSUME th'[s] = th[s], ld'[s] = ld[s] PROVE Owed(s)'
  <2>1. Owed(s)
    BY <1>0, <1>1 DEF WriteInv
  <2> QED BY <1>1, <2>1 DEF Owed
<1>2. CASE UNCHANGED vars
  BY <1>1, <1>2 DEF vars
<1>3. ASSUME NEW p \in Procs, Load(p) PROVE Owed(s)'
  <2>1. /\ th' = th \/ Quiet(p)
        /\ \A t \in Procs : th[t].pc # "unborn" => th'[t] = th[t] /\ ld'[t] = ld[t]
    BY <1>3, Loads
  <2>2. th'[s] = th[s]
    BY <1>0, <2>1 DEF Quiet
  <2>3. ld'[s] = ld[s]
    BY <1>0, <2>1, <2>2
  <2> QED BY <1>1, <2>2, <2>3
<1>4. ASSUME NEW c \in CPUs, FinishSwitch(c) PROVE Owed(s)'
  <2>1. ld' = ld
    BY <1>4 DEF FinishSwitch, memory
  <2>2. th'[s].call = th[s].call /\ th'[s].ret = th[s].ret /\ th[s].pc = "return"
    BY <1>0, <1>4, FinishStep
  <2>3. Owed(s)
    BY <1>0, <2>2 DEF WriteInv
  <2> QED BY <2>1, <2>2, <2>3 DEF Owed
<1>5. ASSUME NEW c \in CPUs, reap(c) PROVE Owed(s)'
  <2>1. th'[s] = th[s] /\ ld'[s] = ld[s]
    BY <1>0, <1>5, ReapStep
  <2> QED BY <1>1, <2>1
<1>6. ASSUME NEW c \in CPUs, NEW n \in Procs \cup {Idle}, Preempt(c, n) PROVE Owed(s)'
  <2>1. ld' = ld /\ th' = th
    BY <1>6 DEF Preempt, memory
  <2> QED BY <1>1, <2>1
<1>7. ASSUME NEW c \in CPUs, NEW t \in Procs, ThreadStep(c, t) PROVE Owed(s)'
  <2>1. ld' = ld /\ (s # t => th'[s] = th[s]) /\ (s = t => handle(c, t))
    BY <1>0, <1>7, ThreadSteps
  <2>2. CASE s # t
    BY <1>1, <2>1, <2>2
  <2>3. CASE s = t
    <3>1. handle(c, s)
      BY <2>1, <2>3
    <3>2. th[s].pc = "dispatch" /\ Running(c, s)
      BY <3>1 DEF handle, At, Running
    <3>3. cr3[c] = root_of(s) /\ ld[s].pc = "loaded"
      BY <3>2, RunningFacts
    <3>4. root_of(s) # NoFrame
      BY <3>2, <3>3 DEF FrameInv, SpaceOK, root_of
    <3>5. th'[s].call = th[s].call
      BY <3>1, HandleStep
    <3>6. PICK w \in Writes : th'[s].ret = <<w, sys_write(c, w[1], w[2])>>
      BY <1>0, <3>1, <3>5, HandleStep, ZenonT(60)
    <3>7. w[1] \in Nat /\ w[2] \in Nat
      BY ProcessConstants, SMT
    <3>8. sys_write(c, w[1], w[2]) = Exact(ld[s].space, w[1], w[2])
      BY <3>3, <3>4, <3>7, WriteExact
    <3> QED BY <2>1, <3>6, <3>8 DEF Owed
  <2> QED BY <2>2, <2>3
<1>8. CASE Done
  BY <1>2, <1>8 DEF Done
<1> QED BY <1>2, <1>3, <1>4, <1>5, <1>6, <1>7, <1>8, ZenonT(60) DEF Next

\* WriteIsExact for any page size, any buffer and any layout of the caller's pages: write
\* succeeds for exactly the buffers that lie in the caller's mapped pages and within the
\* limit, and the copy after the walk never faults (sys_write, copy_user_slice).
THEOREM WriteHolds == Spec => []WriteIsExact
<1>1. Init => WriteInv
  <2>1. ASSUME Init, NEW t \in Procs PROVE th[t].pc = "unborn"
    BY <2>1 DEF Init
  <2> QED BY <2>1, SMTT(40) DEF WriteInv
<1>2. ProcInv /\ WriteInv /\ [Next]_vars => WriteInv'
  BY WriteStep
<1>3. WriteInv => WriteIsExact
  <2> SUFFICES ASSUME WriteInv, NEW c \in CPUs, NEW t \in Procs, At(c, t, "return"), th[t].call = "Write"
               PROVE  th[t].ret[2] = Exact(ld[t].space, th[t].ret[1][1], th[t].ret[1][2])
    BY DEF WriteIsExact, Exact, Fits
  <2>1. PICK w \in Writes : th[t].ret = <<w, Exact(ld[t].space, w[1], w[2])>>
    BY DEF WriteInv, Owed, At
  <2>2. th[t].ret[1] = w /\ th[t].ret[2] = Exact(ld[t].space, w[1], w[2])
    BY <2>1, SMT
  <2> QED BY <2>2
<1> QED BY <1>1, <1>2, <1>3, InvariantHolds, PTL DEF Spec
=============================================================================
