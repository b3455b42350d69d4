-------------------------- MODULE Scheduler_proof ---------------------------
(***************************************************************************)
(* Safety of the scheduler for every number of CPUs and threads, in a      *)
(* system whose threads do not exit (Mortal = {}): type correctness,       *)
(* OneCpuPerStack, QueuedIsDispatchable and the assertions of schedule; no *)
(* thread is stranded; idle threads stay home.  With exits these fail (see *)
(* OutgoingInPlace), which is why the hypothesis is there.  In three       *)
(* parts: the run queue's operations, the inductive invariant and the      *)
(* steps of one CPU, and the remaining steps with the theorems.            *)
(***************************************************************************)
EXTENDS Scheduler, FiniteSetTheorems, TLAPS

\* A leaf that names no prover is one for first-order reasoning.
USE Zenon

---------------------------------------------------------------------------
(* What the operations of RunQueue do to the set of queued threads, for    *)
(* every queue: the facts the scheduler's proofs use instead of sequences. *)

\* Positions in one queue hold different threads.
NoRepeat(q) ==
    \A a, b \in Band : \A i \in 1..Len(q[a]), j \in 1..Len(q[b]) :
        q[a][i] = q[b][j] => a = b /\ i = j

\* RunQueue::new holds nobody.
LEMMA NewQueueFacts ==
    ASSUME NEW T
    PROVE  /\ NewQueue \in [Band -> Seq(T)]
           /\ \A x : ~contains(NewQueue, x)
           /\ NoRepeat(NewQueue)
<1>1. \A b \in Band : NewQueue[b] = <<>> /\ Len(NewQueue[b]) = 0
  BY DEF NewQueue
<1>2. NewQueue \in [Band -> Seq(T)]
  BY SMT DEF NewQueue
<1>3. \A x : ~contains(NewQueue, x)
  BY <1>1, SMT DEF contains
<1>4. NoRepeat(NewQueue)
  BY <1>1, SMT DEF NoRepeat
<1> QED BY <1>2, <1>3, <1>4

\* RunQueue::push adds its argument, once, and nobody else.
LEMMA PushFacts ==
    ASSUME NEW T, NEW q \in [Band -> Seq(T)], NEW id \in T, NEW p \in Band, NoRepeat(q)
    PROVE  /\ push(q, id, p) \in [Band -> Seq(T)]
           /\ \A x : contains(push(q, id, p), x) <=> contains(q, x) \/ x = id
           /\ NoRepeat(push(q, id, p))
<1> DEFINE r == [q EXCEPT ![p] = Append(q[p], id)]
<1>1. CASE contains(q, id)
  BY <1>1 DEF push
<1>2. CASE ~contains(q, id)
  <2>1. push(q, id, p) = r
    BY <1>2 DEF push
  <2>2. r \in [Band -> Seq(T)]
    BY SMT
  <2>3. /\ Len(r[p]) = Len(q[p]) + 1
        /\ r[p][Len(q[p]) + 1] = id
        /\ \A i \in 1..Len(q[p]) : r[p][i] = q[p][i]
    BY SMT
  <2>4. \A b \in Band : b # p => r[b] = q[b]
    OBVIOUS
  <2>5. \A b \in Band : Len(q[b]) \in Nat
    BY SMT
  <2> HIDE DEF r
  <2>6. \A x : contains(r, x) <=> contains(q, x) \/ x = id
    <3> SUFFICES ASSUME NEW x PROVE contains(r, x) <=> contains(q, x) \/ x = id
      OBVIOUS
    <3>1. ASSUME contains(r, x) PROVE contains(q, x) \/ x = id
      <4>0. PICK b \in Band : \E i \in 1..Len(r[b]) : r[b][i] = x
        BY <3>1 DEF contains
      <4>1. PICK i \in 1..Len(r[b]) : r[b][i] = x
        BY <4>0
      <4>2. CASE b = p
        BY <4>1, <4>2, <2>3, <2>5, SMT DEF contains
      <4>3. CASE b # p
        BY <4>1, <4>3, <2>4 DEF contains
      <4> QED BY <4>2, <4>3
    <3>2. ASSUME contains(q, x) PROVE contains(r, x)
      <4>0. PICK b \in Band : \E i \in 1..Len(q[b]) : q[b][i] = x
        BY <3>2 DEF contains
      <4>1. PICK i \in 1..Len(q[b]) : q[b][i] = x
        BY <4>0
      <4>2. CASE b = p
        BY <4>1, <4>2, <2>3, <2>5, SMT DEF contains
      <4>3. CASE b # p
        BY <4>1, <4>3, <2>4 DEF contains
      <4> QED BY <4>2, <4>3
    <3>3. ASSUME x = id PROVE contains(r, x)
      BY <3>3, <2>3, <2>5, SMT DEF contains
    <3> QED BY <3>1, <3>2, <3>3
  <2>7. NoRepeat(r)
    <3> SUFFICES ASSUME NEW a \in Band, NEW b \in Band,
                        NEW i \in 1..Len(r[a]), NEW j \in 1..Len(r[b]), r[a][i] = r[b][j]
                 PROVE  a = b /\ i = j
      BY DEF NoRepeat
    <3>1. \A c \in Band : \A n \in 1..Len(r[c]) :
            \/ n \in 1..Len(q[c]) /\ r[c][n] = q[c][n] /\ q[c][n] # id
            \/ c = p /\ n = Len(q[p]) + 1 /\ r[c][n] = id
      <4>1. \A c \in Band : \A n \in 1..Len(q[c]) : q[c][n] # id
        BY <1>2 DEF contains
      <4>2. \A n \in 1..Len(r[p]) : n \in 1..Len(q[p]) \/ n = Len(q[p]) + 1
        BY <2>3, <2>5, SMT
      <4> QED BY <4>1, <4>2, <2>3, <2>4
    <3>2. CASE r[a][i] = id
      BY <3>1, <3>2
    <3>3. CASE r[a][i] # id
      BY <3>1, <3>3, SMTT(40) DEF NoRepeat
    <3> QED BY <3>2, <3>3
  <2> QED BY <2>1, <2>2, <2>6, <2>7
<1> QED BY <1>1, <1>2

\* The served band of a queue with something in it is not empty, and is not the
\* idle band when there is work.
LEMMA TopBandFacts ==
    ASSUME NEW T, NEW q \in [Band -> Seq(T)]
    PROVE  /\ TopBand(q) \in Band
           /\ ~is_empty(q) => q[TopBand(q)] # <<>>
           /\ runnable_len(q) > 0 => TopBand(q) # PIdle /\ ~is_empty(q)
<1>1. Band = {PIdle, PNormal, PHigh} /\ PIdle # PNormal /\ PIdle # PHigh
  BY SMT DEF Band, PIdle, PNormal, PHigh
<1>2. \A b \in Band : q[b] = <<>> => Len(q[b]) = 0
  BY SMT
<1> QED BY <1>1, <1>2, SMT DEF TopBand, is_empty, runnable_len

\* RunQueue::pop removes the thread it returns and nobody else.
LEMMA PopFacts ==
    ASSUME NEW T, NEW q \in [Band -> Seq(T)], NoRepeat(q), ~is_empty(q)
    PROVE  /\ pop(q) \in [Band -> Seq(T)]
           /\ Popped(q) \in T /\ contains(q, Popped(q))
           /\ \A x : contains(pop(q), x) <=> contains(q, x) /\ x # Popped(q)
           /\ NoRepeat(pop(q))
<1> DEFINE p == TopBand(q)
           r == pop(q)
           y == Popped(q)
<1>1. p \in Band /\ q[p] # <<>> /\ q[p] \in Seq(T)
  BY TopBandFacts
<1> HIDE DEF p
<1>2. /\ Len(q[p]) \in Nat /\ Len(q[p]) > 0
      /\ y = q[p][1] /\ y \in T
  BY <1>1, SMT DEF Popped, p
<1>3. r = [q EXCEPT ![p] = Tail(q[p])]
  BY DEF pop, p
<1>4. r \in [Band -> Seq(T)]
  BY <1>1, <1>3, SMT
<1>5. /\ Len(r[p]) = Len(q[p]) - 1
      /\ \A i \in 1..(Len(q[p]) - 1) : r[p][i] = q[p][i + 1]
  BY <1>1, <1>2, <1>3, SMT
<1>6. \A b \in Band : b # p => r[b] = q[b]
  BY <1>3
<1>7. \A b \in Band : Len(q[b]) \in Nat
  BY SMT
<1> HIDE DEF r, y
<1>8. contains(q, y)
  BY <1>1, <1>2, SMT DEF contains
<1>9. \A c \in Band : \A n \in 1..Len(r[c]) :
        \E m \in 1..Len(q[c]) :
            /\ r[c][n] = q[c][m] /\ q[c][m] # y
            /\ m = IF c = p THEN n + 1 ELSE n
  <2> TAKE c \in Band
  <2> TAKE n \in 1..Len(r[c])
  <2>1. CASE c = p
    <3>1. n + 1 \in 1..Len(q[c]) /\ r[c][n] = q[c][n + 1] /\ n + 1 # 1
      BY <2>1, <1>2, <1>5, SMT
    <3>2. q[c][n + 1] # y
      BY <3>1, <2>1, <1>1, <1>2, SMTT(40) DEF NoRepeat
    <3> QED BY <3>1, <3>2, <2>1
  <2>2. CASE c # p
    <3>1. n \in 1..Len(q[c]) /\ r[c][n] = q[c][n]
      BY <2>2, <1>6
    <3>2. q[c][n] # y
      BY <3>1, <2>2, <1>1, <1>2, SMT DEF NoRepeat
    <3> QED BY <3>1, <3>2, <2>2
  <2> QED BY <2>1, <2>2
<1>10. \A c \in Band : \A m \in 1..Len(q[c]) :
        q[c][m] # y => \E n \in 1..Len(r[c]) : r[c][n] = q[c][m]
  <2> SUFFICES ASSUME NEW c \in Band, NEW m \in 1..Len(q[c]), q[c][m] # y
               PROVE  \E n \in 1..Len(r[c]) : r[c][n] = q[c][m]
    OBVIOUS
  <2>1. CASE c = p
    <3>1. m # 1
      BY <2>1, <1>2
    <3>2. m - 1 \in 1..(Len(q[p]) - 1) /\ (m - 1) + 1 = m
      BY <3>1, <2>1, <1>2, SMT
    <3> QED BY <3>2, <2>1, <1>5
  <2>2. CASE c # p
    BY <2>2, <1>6
  <2> QED BY <2>1, <2>2
<1>11. \A x : contains(r, x) <=> contains(q, x) /\ x # y
  <2> TAKE x
  <2>1. ASSUME contains(r, x) PROVE contains(q, x) /\ x # y
    <3>1. PICK c \in Band : \E n \in 1..Len(r[c]) : r[c][n] = x
      BY <2>1 DEF contains
    <3>2. PICK m \in 1..Len(q[c]) : x = q[c][m] /\ q[c][m] # y
      BY <3>1, <1>9, SMT
    <3> QED BY <3>2 DEF contains
  <2>2. ASSUME contains(q, x), x # y PROVE contains(r, x)
    BY <2>2, <1>10, SMT DEF contains
  <2> QED BY <2>1, <2>2
<1>12. NoRepeat(r)
  <2> SUFFICES ASSUME NEW a \in Band, NEW b \in Band,
                      NEW i \in 1..Len(r[a]), NEW j \in 1..Len(r[b]), r[a][i] = r[b][j]
               PROVE  a = b /\ i = j
    BY DEF NoRepeat
  <2>1. PICK m \in 1..Len(q[a]) : r[a][i] = q[a][m] /\ m = IF a = p THEN i + 1 ELSE i
    BY <1>9
  <2>2. PICK n \in 1..Len(q[b]) : r[b][j] = q[b][n] /\ n = IF b = p THEN j + 1 ELSE j
    BY <1>9
  <2>3. q[a][m] = q[b][n]
    BY <2>1, <2>2
  <2>4. a = b /\ m = n
    BY <2>3, ZenonT(60) DEF NoRepeat
  <2>5. i \in Nat /\ j \in Nat
    BY <1>4, SMT
  <2> QED BY <2>1, <2>2, <2>4, <2>5, SMT
<1> QED BY <1>2, <1>4, <1>8, <1>11, <1>12 DEF r, y

\* RunQueue::steal removes the thread it returns and nobody else.
LEMMA StealFacts ==
    ASSUME NEW T, NEW q \in [Band -> Seq(T)], NoRepeat(q), ~is_empty(q)
    PROVE  /\ steal(q) \in [Band -> Seq(T)]
           /\ Stolen(q) \in T /\ contains(q, Stolen(q))
           /\ \A x : contains(steal(q), x) <=> contains(q, x) /\ x # Stolen(q)
           /\ NoRepeat(steal(q))
<1> DEFINE p == TopBand(q)
           r == steal(q)
           y == Stolen(q)
           l == Len(q[p])
<1>1. p \in Band /\ q[p] # <<>> /\ q[p] \in Seq(T)
  BY TopBandFacts
<1> HIDE DEF p
<1>2. l \in Nat /\ l > 0 /\ y = q[p][l] /\ y \in T
  BY <1>1, SMT DEF Stolen, p
<1>3. r = [q EXCEPT ![p] = SubSeq(q[p], 1, l - 1)]
  BY DEF steal, p
<1>4. SubSeq(q[p], 1, l - 1) \in Seq(T)
  BY <1>1, <1>2, SMT
<1>5. r \in [Band -> Seq(T)]
  BY <1>1, <1>3, <1>4
<1>6. /\ Len(r[p]) = l - 1
      /\ \A i \in 1..(l - 1) : r[p][i] = q[p][i]
  <2>1. r[p] = SubSeq(q[p], 1, l - 1)
    BY <1>1, <1>3
  <2>2. ASSUME NEW s \in Seq(T), NEW n \in Nat, n + 1 = Len(s)
        PROVE  /\ Len(SubSeq(s, 1, n)) = n
               /\ \A i \in 1..n : SubSeq(s, 1, n)[i] = s[i]
    BY <2>2, SMT
  <2>3. l - 1 \in Nat /\ (l - 1) + 1 = Len(q[p])
    BY <1>2, SMT
  <2> HIDE DEF l, r
  <2> QED BY <1>1, <2>1, <2>2, <2>3, ZenonT(60)
<1>7. \A b \in Band : b # p => r[b] = q[b]
  BY <1>3
<1> HIDE DEF r, y
<1>8. contains(q, y)
  BY <1>1, <1>2, SMT DEF contains
<1>9. \A c \in Band : \A n \in 1..Len(r[c]) :
        n \in 1..Len(q[c]) /\ r[c][n] = q[c][n] /\ q[c][n] # y
  <2> TAKE c \in Band
  <2> TAKE n \in 1..Len(r[c])
  <2>1. n \in 1..Len(q[c]) /\ r[c][n] = q[c][n] /\ (c = p => n # l)
    BY <1>2, <1>6, <1>7, SMTT(40)
  <2>2. l \in 1..Len(q[p])
    BY <1>2, SMTT(40)
  <2>3. q[c][n] # y
    BY <2>1, <2>2, <1>1, <1>2, SMT DEF NoRepeat
  <2> QED BY <2>1, <2>3
<1>10. \A c \in Band : \A m \in 1..Len(q[c]) :
        q[c][m] # y => m \in 1..Len(r[c]) /\ r[c][m] = q[c][m]
  BY <1>2, <1>6, <1>7, SMT
<1>11. \A x : contains(r, x) <=> contains(q, x) /\ x # y
  BY <1>9, <1>10, ZenonT(60) DEF contains
<1>12. NoRepeat(r)
  BY <1>9, SMT DEF NoRepeat
<1> QED BY <1>2, <1>5, <1>8, <1>11, <1>12 DEF r, y

---------------------------------------------------------------------------
(* The inductive invariant.  It holds initially, and is preserved by the   *)
(* steps that only move a CPU's own control, by take_next and by park, by  *)
(* the switch, and by the steps that start and wake threads.               *)

\* Without exits nothing is reaped: ids are dense and entries stay where they are.
TableGrows ==
    /\ threads = 0..(nextId - 1)
    /\ reapable = {}
    /\ \A t \in threads : slot[t] = t
    /\ \A t \in Thread : state[t] # "Exited" /\ k[t] \notin {"exit", "exithalt"}
    /\ \A c \in Cpu : out[c] # "Exited"

\* How a CPU's registers, its current slot and its handoff slot agree through
\* the phases of schedule.
PhaseOK(c) ==
    /\ stack[c] \in threads
    /\ next[c] # NoThread <=> phase[c] \in {"commit", "switch"}
    /\ next[c] # NoThread => next[c] \in threads
    /\ handoff[c].id # NoThread <=> phase[c] \in {"switch", "land"}
    /\ current[c] = IF phase[c] = "switch" THEN next[c] ELSE stack[c]
    /\ phase[c] = "switch" => handoff[c].id = stack[c] /\ from[c] = slot[stack[c]]
    /\ handoff[c].id # NoThread =>
         /\ handoff[c].id \in threads
         /\ handoff[c].tag <=> parked[handoff[c].id]

PhaseAgrees == \A c \in Cpu : PhaseOK(c)

\* The ways a thread can be between two queues exclude one another: CPU c's
\* claims against CPU d's.
Apart(c, d) ==
    /\ stack[c] = stack[d] => c = d
    /\ next[c] # stack[d]
    /\ next[c] # NoThread /\ next[c] = next[d] => c = d
    /\ wake[c] # NoThread =>
         /\ wake[c] # stack[d] /\ wake[c] # next[d] /\ wake[c] # handoff[d].id
         /\ wake[c] = wake[d] => c = d
    /\ handoff[c].id # NoThread =>
         /\ handoff[c].id # next[d]
         /\ handoff[c].id = handoff[d].id => c = d
    /\ phase[c] = "land" => handoff[c].id # stack[d]

\* The thread that thread s has spawned and not yet pushed is in no CPU's hands.
SpawnApart(s) ==
    pend[s] # NoThread =>
        /\ pend[s] \in threads
        /\ \A r \in Thread : pend[r] = pend[s] => r = s
        /\ \A c \in Cpu : pend[s] \notin {stack[c], next[c], wake[c], handoff[c].id}

ClaimsDisjoint ==
    /\ \A c, d \in Cpu : Apart(c, d)
    /\ \A s \in Thread : SpawnApart(s)

\* A queued thread has no other claim on it, and is queued once.
QueuesDisjoint ==
    /\ \A c \in Cpu : NoRepeat(queue[c])
    /\ \A c, d \in Cpu : \A t \in Thread :
        contains(queue[c], t) =>
            /\ t \in threads
            /\ contains(queue[d], t) => c = d
            /\ t \notin {stack[d], next[d], wake[d], handoff[d].id}
            /\ \A s \in Thread : pend[s] # t

\* Whoever is about to run is not parked, and everyone not executing can be resumed.
Resumable ==
    /\ \A t \in threads : (\A c \in Cpu : stack[c] # t) => ctx[t] = t
    /\ \A t \in Thread : parked[t] =>
        t \in threads /\ ~Queued(t) /\ \A s \in Thread : pend[s] # t
    /\ \A c \in Cpu :
        /\ wake[c] # NoThread => wake[c] \in threads /\ ~parked[wake[c]]
        /\ next[c] # NoThread => ~parked[next[c]]

\* The inductive invariant behind OneCpuPerStack and QueuedIsDispatchable.
SafetyInv ==
    TypeOK /\ TableGrows /\ PhaseAgrees /\ ClaimsDisjoint /\ QueuesDisjoint /\ Resumable

-----------------------------------------------------------------------------
\* CPU ids are thread ids, and NO_THREAD is neither.
LEMMA ConstantFacts ==
    /\ NoThread \notin Thread
    /\ Cpu \subseteq Thread
    /\ Prio \in [Thread -> Band]
BY CountsAssumption, PriorityAssumption, SMT DEF NoThread, Thread, Cpu

\* The booted system satisfies the invariant.
LEMMA InitSafety == Init => SafetyInv
<1> SUFFICES ASSUME Init PROVE SafetyInv
  OBVIOUS
<1> USE DEF Init, InitPercpu, NoHandoff
<1>q. \A c \in Cpu : queue[c] = NewQueue
  OBVIOUS
<1>e. \A c \in Cpu : \A x : ~contains(queue[c], x)
  BY <1>q, NewQueueFacts
<1>t. NumCpus \in Nat /\ MaxThreads \in Nat /\ NumCpus <= MaxThreads /\ threads = 0..(NumCpus - 1)
  BY CountsAssumption DEF Idle, Cpu
<1>1. TypeOK
  <2>1. queue \in [Cpu -> [Band -> Seq(Thread)]]
    BY NewQueueFacts
  <2>2. threads \subseteq Thread /\ nextId \in NumCpus..MaxThreads /\ slot \in [Thread -> Nat]
    BY <1>t, ConstantFacts, SMT DEF Thread
  <2>3. handoff \in [Cpu -> [id : Thread \cup {NoThread}, tag : BOOLEAN]]
    OBVIOUS
  <2> QED BY <2>1, <2>2, <2>3, ConstantFacts
       DEF TypeOK, Phases, ThreadStates, Continuations, Halts
<1>2. TableGrows
  BY <1>t, ConstantFacts DEF TableGrows, Idle
<1>3. PhaseAgrees
  BY ConstantFacts DEF PhaseAgrees, PhaseOK, Idle
<1>4. ClaimsDisjoint
  BY ConstantFacts DEF ClaimsDisjoint, Apart, SpawnApart
<1>5. QueuesDisjoint
  BY <1>q, <1>e, NewQueueFacts DEF QueuesDisjoint
<1>6. Resumable
  BY ConstantFacts DEF Resumable, Idle
<1> QED BY <1>1, <1>2, <1>3, <1>4, <1>5, <1>6 DEF SafetyInv

\* The phases in which a CPU holds only the thread it executes.
Free == {"thread", "take", "steal", "reap"}

\* A step that moves one CPU between those phases and its thread's own program
\* counter, and touches neither queues nor park flags.
ControlStep(c) ==
    /\ phase[c] \in Free
    /\ \E ph \in Free : phase' = [phase EXCEPT ![c] = ph]
    /\ \E o \in ThreadStates \ {"Exited"} : out' = [out EXCEPT ![c] = o]
    /\ \E kk \in Continuations \ {"exit", "exithalt"} : k' = [k EXCEPT ![stack[c]] = kk]
    /\ probe' \in [Cpu -> SUBSET Cpu]
    /\ pending' \in [Thread -> BOOLEAN]
    /\ state' \in [Thread -> ThreadStates \ {"Exited"}]
    /\ UNCHANGED <<threads, nextId, reapable, slot, parked, ctx, percpu, stack, next,
                   from, wake, pend>>

\* A step that moves thread n from CPU o's queue into CPU c's hands.
TakeStep(c, o, n) ==
    /\ phase[c] \in {"take", "steal"}
    /\ phase' = [phase EXCEPT ![c] = "commit"]
    /\ next' = [next EXCEPT ![c] = n]
    /\ contains(queue[o], n)
    /\ queue' \in [Cpu -> [Band -> Seq(Thread)]]
    /\ \A d \in Cpu : NoRepeat(queue'[d])
    /\ \A d \in Cpu, t \in Thread :
        contains(queue'[d], t) <=> contains(queue[d], t) /\ ~(d = o /\ t = n)
    /\ probe' \in [Cpu -> SUBSET Cpu]
    /\ UNCHANGED <<table, current, handoff, stack, out, from, wake, k, pend>>

\* Pushing x on one CPU's queue adds x there and changes nothing else.
LEMMA PushAt ==
    ASSUME TypeOK, QueuesDisjoint, NEW o \in Cpu, NEW x \in Thread,
           queue' = [queue EXCEPT ![o] = push(queue[o], x, Prio[x])]
    PROVE  /\ queue' \in [Cpu -> [Band -> Seq(Thread)]]
           /\ \A d \in Cpu : NoRepeat(queue'[d])
           /\ \A d \in Cpu, t \in Thread :
                contains(queue'[d], t) <=> contains(queue[d], t) \/ (d = o /\ t = x)
<1>1. /\ Prio[x] \in Band /\ queue[o] \in [Band -> Seq(Thread)]
      /\ queue \in [Cpu -> [Band -> Seq(Thread)]] /\ \A d \in Cpu : NoRepeat(queue[d])
  BY ConstantFacts DEF TypeOK, QueuesDisjoint
<1> DEFINE q == push(queue[o], x, Prio[x])
<1>2. /\ q \in [Band -> Seq(Thread)]
      /\ \A t : contains(q, t) <=> contains(queue[o], t) \/ t = x
      /\ NoRepeat(q)
  BY <1>1, PushFacts
<1>3. queue' = [queue EXCEPT ![o] = q]
  OBVIOUS
<1> HIDE DEF q
<1>4. \A d \in Cpu : queue'[d] = IF d = o THEN q ELSE queue[d]
  BY <1>1, <1>3
<1>5. queue' \in [Cpu -> [Band -> Seq(Thread)]]
  BY <1>1, <1>2, <1>3
<1> QED BY <1>1, <1>2, <1>4, <1>5

\* Such a step preserves the invariant.
LEMMA ControlStepSafety ==
    ASSUME SafetyInv, Mortal = {}, NEW c \in Cpu, ControlStep(c)
    PROVE  SafetyInv'
<1> USE DEF ControlStep, table, percpu
<1>0. TypeOK /\ TableGrows /\ PhaseAgrees /\ ClaimsDisjoint /\ QueuesDisjoint /\ Resumable
  BY DEF SafetyInv
<1>p. PICK ph \in Free : phase' = [phase EXCEPT ![c] = ph]
  OBVIOUS
<1>o. PICK o \in ThreadStates \ {"Exited"} : out' = [out EXCEPT ![c] = o]
  OBVIOUS
<1>k. PICK kk \in Continuations \ {"exit", "exithalt"} : k' = [k EXCEPT ![stack[c]] = kk]
  OBVIOUS
<1>f. \A d \in Cpu : phase'[d] = phase[d] \/ (phase[d] \in Free /\ phase'[d] \in Free)
  BY <1>0, <1>p, ZenonT(60) DEF TypeOK
<1>1. TypeOK'
  <2>1. phase' \in [Cpu -> Phases]
    BY <1>0, <1>p DEF TypeOK, Phases, Free
  <2>2. out' \in [Cpu -> ThreadStates]
    BY <1>0, <1>o DEF TypeOK
  <2>3. k' \in [Thread -> Continuations]
    BY <1>0, <1>k DEF TypeOK
  <2>4. state' \in [Thread -> ThreadStates]
    OBVIOUS
  <2> QED BY <1>0, <2>1, <2>2, <2>3, <2>4 DEF TypeOK
<1>2. TableGrows'
  <2>1. \A t \in Thread : k'[t] = k[t] \/ k'[t] = kk
    BY <1>0, <1>k DEF TypeOK
  <2>2. \A d \in Cpu : out'[d] = out[d] \/ out'[d] = o
    BY <1>0, <1>o DEF TypeOK
  <2>3. \A t \in Thread : state'[t] # "Exited"
    OBVIOUS
  <2> QED BY <1>0, <1>k, <1>o, <2>1, <2>2, <2>3 DEF TableGrows
<1>3. PhaseAgrees'
  BY <1>0, <1>f, SMTT(40) DEF PhaseAgrees, PhaseOK, Free
<1>4. ClaimsDisjoint'
  BY <1>0, <1>f, SMT DEF ClaimsDisjoint, Apart, SpawnApart, Free
<1>5. QueuesDisjoint'
  BY <1>0 DEF QueuesDisjoint
<1>6. Resumable'
  BY <1>0 DEF Resumable, Queued
<1> QED BY <1>1, <1>2, <1>3, <1>4, <1>5, <1>6 DEF SafetyInv

\* Taking a queued thread preserves it.
LEMMA TakeStepSafety ==
    ASSUME SafetyInv, Mortal = {}, NEW c \in Cpu, NEW o \in Cpu, NEW n \in Thread, TakeStep(c, o, n)
    PROVE  SafetyInv'
<1>0. TypeOK /\ TableGrows /\ PhaseAgrees /\ ClaimsDisjoint /\ QueuesDisjoint /\ Resumable
  BY DEF SafetyInv
<1>a. /\ phase[c] \in {"take", "steal"}
      /\ next' = [next EXCEPT ![c] = n] /\ phase' = [phase EXCEPT ![c] = "commit"]
      /\ queue' \in [Cpu -> [Band -> Seq(Thread)]] /\ probe' \in [Cpu -> SUBSET Cpu]
      /\ UNCHANGED <<threads, nextId, reapable, slot, state, parked, pending, ctx>>
      /\ UNCHANGED <<current, handoff, stack, out, from, wake, k, pend>>
  BY DEF TakeStep, table
<1>q. /\ \A d \in Cpu : NoRepeat(queue'[d])
      /\ contains(queue[o], n)
      /\ \A d \in Cpu, t \in Thread :
            contains(queue'[d], t) <=> contains(queue[d], t) /\ ~(d = o /\ t = n)
  BY DEF TakeStep
<1>b. \A d \in Cpu : /\ phase'[d] = IF d = c THEN "commit" ELSE phase[d]
                     /\ next'[d] = IF d = c THEN n ELSE next[d]
  BY <1>0, <1>a DEF TypeOK
<1>n. /\ n \in threads
      /\ \A s \in Thread : pend[s] # n
      /\ \A d \in Cpu : n \notin {stack[d], next[d], wake[d], handoff[d].id}
  BY <1>0, <1>q DEF QueuesDisjoint
<1>1. TypeOK'
  <2>1. phase' \in [Cpu -> Phases] /\ next' \in [Cpu -> Thread \cup {NoThread}]
    BY <1>0, <1>a DEF TypeOK, Phases
  <2> QED BY <1>0, <1>a, <2>1 DEF TypeOK
<1>2. TableGrows'
  BY <1>0, <1>a DEF TableGrows
<1>3. PhaseAgrees'
  <2> SUFFICES ASSUME NEW d \in Cpu PROVE PhaseOK(d)'
    BY ZenonT(60) DEF PhaseAgrees
  <2>1. CASE d = c
    BY <1>0, <1>a, <1>b, <1>n, <2>1, ConstantFacts, SMTT(40) DEF PhaseAgrees, PhaseOK
  <2>2. CASE d # c
    BY <1>0, <1>a, <1>b, <1>n, <2>2, ConstantFacts, SMTT(40) DEF PhaseAgrees, PhaseOK
  <2> QED BY <2>1, <2>2
<1>4. ClaimsDisjoint'
  <2>1. ASSUME NEW d \in Cpu, NEW e \in Cpu PROVE Apart(d, e)'
    <3>1. Apart(d, e) /\ Apart(d, c) /\ Apart(e, c) /\ Apart(c, d) /\ Apart(c, e)
      BY <1>0 DEF ClaimsDisjoint
    <3>2. /\ stack' = stack /\ wake' = wake /\ handoff' = handoff
          /\ next'[d] = IF d = c THEN n ELSE next[d]
          /\ next'[e] = IF e = c THEN n ELSE next[e]
          /\ phase'[d] = "land" => phase[d] = "land"
      BY <1>a, <1>b, SMT
    <3>3. n \notin {stack[e], next[e], wake[d], handoff[d].id, next[d]}
      BY <1>n
    <3> QED BY <3>1, <3>2, <3>3, ZenonT(60) DEF Apart
  <2>2. ASSUME NEW s \in Thread PROVE SpawnApart(s)'
    <3>1. SpawnApart(s)
      BY <1>0 DEF ClaimsDisjoint
    <3>2. pend' = pend /\ threads' = threads /\ stack' = stack /\ wake' = wake /\ handoff' = handoff
      BY <1>a
    <3>3. \A d \in Cpu : next'[d] = next[d] \/ next'[d] = n
      BY <1>b
    <3>4. pend[s] # n
      BY <1>n
    <3> QED BY <3>1, <3>2, <3>3, <3>4 DEF SpawnApart
  <2> QED BY <2>1, <2>2 DEF ClaimsDisjoint
<1>5. QueuesDisjoint'
  <2>1. \A d \in Cpu : \A t \in Thread : contains(queue'[d], t) => contains(queue[d], t) /\ t # n
    BY <1>0, <1>q, SMTT(40) DEF QueuesDisjoint
  <2> QED BY <1>0, <1>a, <1>b, <1>q, <2>1, SMTT(40) DEF QueuesDisjoint
<1>6. Resumable'
  <2>1. ~parked[n]
    BY <1>0, <1>q DEF Resumable, Queued
  <2>2. \A t \in Thread : Queued(t)' => Queued(t)
    BY <1>q DEF Queued
  <2> QED BY <1>0, <1>a, <1>b, <2>1, <2>2, SMTT(40) DEF Resumable
<1> QED BY <1>1, <1>2, <1>3, <1>4, <1>5, <1>6 DEF SafetyInv

\* A pop or a steal from CPU o's queue into CPU c's hands is such a step.
LEMMA TakeAny ==
    ASSUME SafetyInv, NEW c \in Cpu, NEW o \in Cpu, ~is_empty(queue[o]),
           \/ /\ next' = [next EXCEPT ![c] = Popped(queue[o])]
              /\ queue' = [queue EXCEPT ![o] = pop(queue[o])]
           \/ /\ next' = [next EXCEPT ![c] = Stolen(queue[o])]
              /\ queue' = [queue EXCEPT ![o] = steal(queue[o])],
           phase[c] \in {"take", "steal"},
           phase' = [phase EXCEPT ![c] = "commit"],
           probe' \in [Cpu -> SUBSET Cpu],
           UNCHANGED <<table, current, handoff, stack, out, from, wake, k, pend>>
    PROVE  \E n \in Thread : TakeStep(c, o, n)
<1>1. /\ queue \in [Cpu -> [Band -> Seq(Thread)]] /\ \A d \in Cpu : NoRepeat(queue[d])
      /\ queue[o] \in [Band -> Seq(Thread)] /\ NoRepeat(queue[o])
  BY DEF SafetyInv, TypeOK, QueuesDisjoint
<1>2. PICK q, n : /\ next' = [next EXCEPT ![c] = n]
                  /\ queue' = [queue EXCEPT ![o] = q]
                  /\ q \in [Band -> Seq(Thread)]
                  /\ n \in Thread /\ contains(queue[o], n)
                  /\ \A t : contains(q, t) <=> contains(queue[o], t) /\ t # n
                  /\ NoRepeat(q)
  <2>1. CASE /\ next' = [next EXCEPT ![c] = Popped(queue[o])]
             /\ queue' = [queue EXCEPT ![o] = pop(queue[o])]
    BY <1>1, <2>1, PopFacts
  <2>2. CASE /\ next' = [next EXCEPT ![c] = Stolen(queue[o])]
             /\ queue' = [queue EXCEPT ![o] = steal(queue[o])]
    BY <1>1, <2>2, StealFacts
  <2> QED BY <2>1, <2>2
<1>3. \A d \in Cpu : queue'[d] = IF d = o THEN q ELSE queue[d]
  BY <1>1, <1>2
<1>4. queue' \in [Cpu -> [Band -> Seq(Thread)]]
  BY <1>1, <1>2
<1>5. /\ \A d \in Cpu : NoRepeat(queue'[d])
      /\ \A d \in Cpu, t \in Thread :
            contains(queue'[d], t) <=> contains(queue[d], t) /\ ~(d = o /\ t = n)
  BY <1>1, <1>2, <1>3
<1> QED BY <1>2, <1>4, <1>5 DEF TakeStep

\* take_next either takes a thread or moves on to the next queue.
LEMMA TakeNextSteps ==
    ASSUME SafetyInv, NEW c \in Cpu, TakeLocal(c) \/ StealFrom(c) \/ TakeLast(c)
    PROVE  ControlStep(c) \/ \E o \in Cpu, n \in Thread : TakeStep(c, o, n)
<1>0. /\ queue \in [Cpu -> [Band -> Seq(Thread)]]
      /\ probe \in [Cpu -> SUBSET Cpu] /\ pending \in [Thread -> BOOLEAN]
      /\ state \in [Thread -> ThreadStates \ {"Exited"}]
      /\ out = [out EXCEPT ![c] = out[c]] /\ out[c] \in ThreadStates \ {"Exited"}
      /\ phase = [phase EXCEPT ![c] = phase[c]]
      /\ k = [k EXCEPT ![stack[c]] = k[stack[c]]]
      /\ k[stack[c]] \in Continuations \ {"exit", "exithalt"}
  BY DEF SafetyInv, TypeOK, TableGrows
<1>w. \A d \in Cpu : runnable_len(queue[d]) > 0 => ~is_empty(queue[d])
  BY <1>0, TopBandFacts
<1>1. CASE TakeLocal(c)
  <2>1. CASE runnable_len(queue[c]) > 0
    <3>1. \E n \in Thread : TakeStep(c, c, n)
      BY <1>0, <1>w, <1>1, <2>1, TakeAny DEF TakeLocal
    <3> QED BY <3>1
  <2>2. CASE ~(runnable_len(queue[c]) > 0)
    <3>0. (Cpu \ {c}) \in SUBSET Cpu
      OBVIOUS
    <3>1. probe' \in [Cpu -> SUBSET Cpu]
      BY <1>0, <1>1, <2>2, <3>0 DEF TakeLocal
    <3>2. ControlStep(c)
      BY <1>0, <1>1, <2>2, <3>1 DEF TakeLocal, ControlStep, Free, table, percpu
    <3> QED BY <3>2
  <2> QED BY <2>1, <2>2
<1>2. CASE StealFrom(c)
  <2>1. PICK o \in probe[c] :
          \/ /\ runnable_len(queue[o]) > 0
             /\ next' = [next EXCEPT ![c] = Stolen(queue[o])]
             /\ queue' = [queue EXCEPT ![o] = steal(queue[o])]
             /\ phase' = [phase EXCEPT ![c] = "commit"]
             /\ probe' = [probe EXCEPT ![c] = {}]
          \/ /\ probe' = [probe EXCEPT ![c] = probe[c] \ {o}]
             /\ UNCHANGED <<next, queue, phase>>
    BY <1>2 DEF StealFrom
  <2>2. o \in Cpu /\ probe' \in [Cpu -> SUBSET Cpu]
    BY <1>0, <2>1, SMTT(40)
  <2>3. CASE queue' = [queue EXCEPT ![o] = steal(queue[o])] /\ runnable_len(queue[o]) > 0
             /\ next' = [next EXCEPT ![c] = Stolen(queue[o])]
             /\ phase' = [phase EXCEPT ![c] = "commit"]
    <3>1. \E n \in Thread : TakeStep(c, o, n)
      BY <1>w, <1>2, <2>2, <2>3, TakeAny DEF StealFrom
    <3> QED BY <2>2, <3>1
  <2>4. CASE UNCHANGED <<next, queue, phase>>
    <3>1. ControlStep(c)
      BY <1>0, <1>2, <2>2, <2>4 DEF StealFrom, ControlStep, Free, table, percpu
    <3> QED BY <3>1
  <2> QED BY <2>1, <2>3, <2>4
<1>3. CASE TakeLast(c)
  <2>1. CASE ~is_empty(queue[c])
    <3>1. \E n \in Thread : TakeStep(c, c, n)
      BY <1>0, <1>3, <2>1, TakeAny DEF TakeLast
    <3> QED BY <3>1
  <2>2. CASE is_empty(queue[c])
    <3>1. phase' = [phase EXCEPT ![c] = "reap"] /\ out' = [out EXCEPT ![c] = "Ready"]
      BY <1>0, <1>3, <2>2 DEF TakeLast
    <3>2. "Ready" \in ThreadStates \ {"Exited"} /\ "reap" \in Free
      BY DEF ThreadStates, Free
    <3>3. ControlStep(c)
      BY <1>0, <1>3, <2>2, <3>1, <3>2 DEF TakeLast, ControlStep, Free, table, percpu
    <3> QED BY <3>3
  <2> QED BY <2>1, <2>2
<1> QED BY <1>1, <1>2, <1>3

\* The branch of park that parks.
ParkStep(c) ==
    /\ phase[c] = "thread"
    /\ parked' = [parked EXCEPT ![stack[c]] = TRUE]
    /\ state' = [state EXCEPT ![stack[c]] = "Blocked"]
    /\ phase' = [phase EXCEPT ![c] = "take"]
    /\ out' = [out EXCEPT ![c] = "Blocked"]
    /\ k' = [k EXCEPT ![stack[c]] = "parkcheck"]
    /\ UNCHANGED <<threads, nextId, reapable, slot, ctx, pending, percpu, stack, next,
                   probe, from, wake, pend>>

\* A thread that parks is in nobody's hands but its CPU's.
LEMMA ParkStepSafety ==
    ASSUME SafetyInv, Mortal = {}, NEW c \in Cpu, ParkStep(c)
    PROVE  SafetyInv'
<1>0. TypeOK /\ TableGrows /\ PhaseAgrees /\ ClaimsDisjoint /\ QueuesDisjoint /\ Resumable
  BY DEF SafetyInv
<1>a. /\ phase[c] = "thread"
      /\ parked' = [parked EXCEPT ![stack[c]] = TRUE]
      /\ state' = [state EXCEPT ![stack[c]] = "Blocked"]
      /\ phase' = [phase EXCEPT ![c] = "take"] /\ out' = [out EXCEPT ![c] = "Blocked"]
      /\ k' = [k EXCEPT ![stack[c]] = "parkcheck"]
      /\ UNCHANGED <<threads, nextId, reapable, slot, ctx, pending>>
      /\ UNCHANGED <<queue, current, handoff, stack, next, probe, from, wake, pend>>
  BY DEF ParkStep, percpu
<1>h. /\ stack[c] \in Thread /\ stack[c] \in threads /\ threads \subseteq Thread
      /\ next[c] = NoThread /\ handoff[c].id = NoThread
  BY <1>0, <1>a DEF TypeOK, PhaseAgrees, PhaseOK
<1>b. /\ \A d \in Cpu : phase'[d] = IF d = c THEN "take" ELSE phase[d]
      /\ \A t \in Thread : parked'[t] <=> parked[t] \/ t = stack[c]
  BY <1>0, <1>a, <1>h DEF TypeOK
<1>n. \A d \in Cpu : handoff[d].id # stack[c]
  <2> SUFFICES ASSUME NEW d \in Cpu PROVE handoff[d].id # stack[c]  OBVIOUS
  <2>1. CASE phase[d] = "switch"
    BY <1>0, <1>a, <2>1, SMTT(40) DEF PhaseAgrees, PhaseOK, ClaimsDisjoint, Apart, SpawnApart
  <2>2. CASE phase[d] = "land"
    BY <1>0, <2>2 DEF ClaimsDisjoint, Apart, SpawnApart
  <2>3. CASE phase[d] \notin {"switch", "land"}
    BY <1>0, <1>h, <2>3, ConstantFacts, ZenonT(60) DEF PhaseAgrees, PhaseOK
  <2> QED BY <2>1, <2>2, <2>3
<1>1. TypeOK'
  <2>1. /\ phase' \in [Cpu -> Phases] /\ out' \in [Cpu -> ThreadStates]
        /\ state' \in [Thread -> ThreadStates] /\ k' \in [Thread -> Continuations]
    BY <1>0, <1>a DEF TypeOK, Phases, ThreadStates, Continuations
  <2>2. parked' \in [Thread -> BOOLEAN]
    BY <1>0, <1>a DEF TypeOK
  <2> QED BY <1>0, <1>a, <2>1, <2>2 DEF TypeOK
<1>2. TableGrows'
  BY <1>0, <1>a DEF TypeOK, TableGrows
<1>3. PhaseAgrees'
  <2> SUFFICES ASSUME NEW d \in Cpu PROVE PhaseOK(d)'
    BY ZenonT(60) DEF PhaseAgrees
  <2>1. CASE d = c
    BY <1>0, <1>a, <1>b, <1>h, <1>n, <2>1, ConstantFacts, SMTT(40) DEF PhaseAgrees, PhaseOK
  <2>2. CASE d # c
    BY <1>0, <1>a, <1>b, <1>h, <1>n, <2>2, ConstantFacts, SMTT(40) DEF PhaseAgrees, PhaseOK
  <2> QED BY <2>1, <2>2
<1>4. ClaimsDisjoint'
  <2>1. ASSUME NEW d \in Cpu, NEW e \in Cpu PROVE Apart(d, e)'
    <3>1. Apart(d, e) /\ (phase'[d] = "land" => phase[d] = "land")
      BY <1>0, <1>b DEF ClaimsDisjoint
    <3> QED BY <1>a, <3>1 DEF Apart
  <2>2. ASSUME NEW s \in Thread PROVE SpawnApart(s)'
    BY <1>0, <1>a DEF ClaimsDisjoint, SpawnApart
  <2> QED BY <2>1, <2>2 DEF ClaimsDisjoint
<1>5. QueuesDisjoint'
  BY <1>0, <1>a DEF QueuesDisjoint
<1>6. Resumable'
  <2>1. ~Queued(stack[c])
    BY <1>0, <1>h DEF QueuesDisjoint, Queued
  <2>2. \A t \in Thread : Queued(t)' <=> Queued(t)
    BY <1>a DEF Queued
  <2>3. \A s \in Thread : pend[s] # stack[c]
    BY <1>0, <1>h, ConstantFacts DEF ClaimsDisjoint, Apart, SpawnApart
  <2>4. \A d \in Cpu : wake[d] # stack[c] /\ next[d] # stack[c]
    BY <1>0, <1>h, ConstantFacts, ZenonT(60) DEF ClaimsDisjoint, Apart, SpawnApart
  <2>5. \A t \in threads : (\A d \in Cpu : stack'[d] # t) => ctx'[t] = t
    BY <1>0, <1>a DEF Resumable
  <2>6. \A t \in Thread : parked'[t] =>
          t \in threads /\ ~Queued(t)' /\ \A s \in Thread : pend'[s] # t
    BY <1>0, <1>a, <1>b, <1>h, <2>1, <2>2, <2>3, ZenonT(60) DEF Resumable
  <2>7. \A d \in Cpu : /\ wake'[d] # NoThread => wake'[d] \in threads /\ ~parked'[wake'[d]]
                       /\ next'[d] # NoThread => ~parked'[next'[d]]
    BY <1>0, <1>a, <1>b, <1>h, <2>4, SMT DEF Resumable, PhaseAgrees, PhaseOK
  <2> QED BY <1>a, <2>5, <2>6, <2>7 DEF Resumable
<1> QED BY <1>1, <1>2, <1>3, <1>4, <1>5, <1>6 DEF SafetyInv

\* park either parks or consumes the wake that came first and returns.
LEMMA ParkSteps ==
    ASSUME SafetyInv, NEW c \in Cpu, Park(c)
    PROVE  ControlStep(c) \/ ParkStep(c)
<1>0. /\ stack[c] \in Thread /\ pending \in [Thread -> BOOLEAN]
      /\ state \in [Thread -> ThreadStates \ {"Exited"}]
      /\ out = [out EXCEPT ![c] = out[c]] /\ out[c] \in ThreadStates \ {"Exited"}
      /\ phase = [phase EXCEPT ![c] = phase[c]]
      /\ probe \in [Cpu -> SUBSET Cpu]
  BY DEF SafetyInv, TypeOK, TableGrows
<1>1. CASE WakePending(stack[c])
  <2>1. "body" \in Continuations \ {"exit", "exithalt"} /\ "thread" \in Free
    BY DEF Continuations, Free
  <2>2. pending' \in [Thread -> BOOLEAN] /\ k' = [k EXCEPT ![stack[c]] = "body"]
    BY <1>0, <1>1 DEF Park
  <2> QED BY <1>0, <1>1, <2>1, <2>2 DEF Park, ControlStep, Executing
<1>2. CASE ~WakePending(stack[c])
  BY <1>2 DEF Park, ParkStep, EnterSchedule, Executing
<1> QED BY <1>1, <1>2

-----------------------------------------------------------------------------
(***************************************************************************)
(* The switch preserves the invariant: the table section of schedule, the  *)
(* context switch and publish_handoff.                                     *)
(***************************************************************************)

\* The table section of schedule: the taken thread becomes current, the executing one is handed off.
LEMMA CommitSafety ==
    ASSUME SafetyInv, Mortal = {}, NEW c \in Cpu, Commit(c)
    PROVE  SafetyInv'
<1>0. TypeOK /\ TableGrows /\ PhaseAgrees /\ ClaimsDisjoint /\ QueuesDisjoint /\ Resumable
  BY DEF SafetyInv
<1>h. /\ phase[c] = "commit" /\ current[c] = stack[c] /\ stack[c] \in threads
      /\ next[c] \in threads /\ ctx[next[c]] = next[c]
      /\ out[c] # "Exited" /\ threads \subseteq Thread
      /\ stack[c] \in Thread /\ next[c] \in Thread
  <2>1. phase[c] = "commit"
    BY DEF Commit
  <2>2. current[c] = stack[c] /\ stack[c] \in threads /\ next[c] \in threads
    BY <1>0, <2>1 DEF PhaseAgrees, PhaseOK
  <2>3. ctx[next[c]] = next[c]
    BY <1>0, <2>2, ZenonT(60) DEF ClaimsDisjoint, Apart, SpawnApart, Resumable
  <2> QED BY <1>0, <2>1, <2>2, <2>3 DEF TypeOK, TableGrows
<1>a. /\ handoff' = [handoff EXCEPT ![c] = [id |-> stack[c], tag |-> parked[stack[c]]]]
      /\ current' = [current EXCEPT ![c] = next[c]]
      /\ next' = next
      /\ from' = [from EXCEPT ![c] = slot[stack[c]]]
      /\ phase' = [phase EXCEPT ![c] = "switch"]
      /\ UNCHANGED <<threads, nextId, slot, parked, pending, ctx, queue, stack, out,
                     probe, wake, k, pend, reapable>>
  BY <1>0, <1>h DEF Commit, Outgoing, Reapable, TypeOK
<1>g. state' \in [Thread -> ThreadStates \ {"Exited"}]
  <2>1. OutgoingState(c) \in ThreadStates \ {"Exited"} /\ "Running" \in ThreadStates \ {"Exited"}
    BY <1>0, <1>h DEF OutgoingState, TableGrows, ThreadStates
  <2>2. state \in [Thread -> ThreadStates \ {"Exited"}]
    BY <1>0 DEF TypeOK, TableGrows
  <2>3. state' = [state EXCEPT ![stack[c]] = OutgoingState(c), ![next[c]] = "Running"]
    BY <1>h DEF Commit
  <2> QED BY <2>1, <2>2, <2>3
<1>b. \A d \in Cpu : /\ phase'[d] = IF d = c THEN "switch" ELSE phase[d]
                     /\ handoff'[d] = IF d = c THEN [id |-> stack[c], tag |-> parked[stack[c]]]
                                      ELSE handoff[d]
                     /\ current'[d] = IF d = c THEN next[c] ELSE current[d]
                     /\ from'[d] = IF d = c THEN slot[stack[c]] ELSE from[d]
  BY <1>0, <1>a, ZenonT(60) DEF TypeOK
<1>n. \A d \in Cpu : handoff[d].id # stack[c]
  <2> SUFFICES ASSUME NEW d \in Cpu PROVE handoff[d].id # stack[c]  OBVIOUS
  <2>1. CASE phase[d] = "switch"
    BY <1>0, <1>h, <2>1, SMTT(40) DEF PhaseAgrees, PhaseOK, ClaimsDisjoint, Apart, SpawnApart
  <2>2. CASE phase[d] = "land"
    BY <1>0, <2>2 DEF ClaimsDisjoint, Apart, SpawnApart
  <2>3. CASE phase[d] \notin {"switch", "land"}
    BY <1>0, <1>h, <2>3, ConstantFacts DEF PhaseAgrees, PhaseOK
  <2> QED BY <2>1, <2>2, <2>3
<1>1. TypeOK'
  <2>1. state' \in [Thread -> ThreadStates]
    BY <1>0, <1>g DEF TypeOK
  <2>2. /\ handoff' \in [Cpu -> [id : Thread \cup {NoThread}, tag : BOOLEAN]]
        /\ current' \in [Cpu -> Thread] /\ from' \in [Cpu -> Nat]
        /\ phase' \in [Cpu -> Phases]
    BY <1>0, <1>a, <1>h, <1>g DEF TypeOK, Phases
  <2> QED BY <1>0, <1>a, <1>g, <1>h, <2>1, <2>2, ZenonT(60) DEF TypeOK
<1>2. TableGrows'
  BY <1>0, <1>a, <1>g DEF TypeOK, TableGrows
<1>3. PhaseAgrees'
  <2> SUFFICES ASSUME NEW d \in Cpu PROVE PhaseOK(d)'
    BY ZenonT(60) DEF PhaseAgrees
  <2>1. CASE d = c
    BY <1>0, <1>a, <1>h, <1>b, <2>1, ConstantFacts, SMTT(40) DEF PhaseAgrees, PhaseOK, TypeOK
  <2>2. CASE d # c
    BY <1>0, <1>a, <1>h, <1>b, <2>2, ConstantFacts, SMTT(40) DEF PhaseAgrees, PhaseOK, TypeOK
  <2> QED BY <2>1, <2>2
<1>4. ClaimsDisjoint'
  <2>1. ASSUME NEW d \in Cpu, NEW e \in Cpu PROVE Apart(d, e)'
    <3>1. Apart(d, e) /\ Apart(d, c) /\ Apart(e, c) /\ Apart(c, d) /\ Apart(c, e)
      BY <1>0 DEF ClaimsDisjoint
    <3>2. /\ stack' = stack /\ wake' = wake /\ next' = next
          /\ handoff'[d].id = IF d = c THEN stack[c] ELSE handoff[d].id
          /\ handoff'[e].id = IF e = c THEN stack[c] ELSE handoff[e].id
          /\ phase'[d] = "land" => phase[d] = "land" /\ d # c
      BY <1>a, <1>b, SMT
    <3>3. handoff[d].id # stack[c] /\ handoff[e].id # stack[c]
      BY <1>n
    <3> QED BY <3>1, <3>2, <3>3, ZenonT(60) DEF Apart
  <2>2. ASSUME NEW s \in Thread PROVE SpawnApart(s)'
    <3>1. SpawnApart(s)
      BY <1>0 DEF ClaimsDisjoint
    <3>2. pend' = pend /\ threads' = threads /\ stack' = stack /\ wake' = wake /\ next' = next
      BY <1>a, ZenonT(60)
    <3>3. \A d \in Cpu : handoff'[d].id = handoff[d].id \/ handoff'[d].id = stack[c]
      BY <1>b, SMTT(40)
    <3> QED BY <3>1, <3>2, <3>3 DEF SpawnApart
  <2> QED BY <2>1, <2>2 DEF ClaimsDisjoint
<1>5. QueuesDisjoint'
  BY <1>0, <1>a, <1>b, <1>h, SMT DEF QueuesDisjoint
<1>6. Resumable'
  BY <1>0, <1>a, <1>h DEF Resumable, Queued
<1> QED BY <1>1, <1>2, <1>3, <1>4, <1>5, <1>6 DEF SafetyInv

\* context::switch saves the outgoing stack into its own entry and continues on the taken one.
LEMMA SwitchSafety ==
    ASSUME SafetyInv, Mortal = {}, NEW c \in Cpu, Switch(c)
    PROVE  SafetyInv'
<1>0. TypeOK /\ TableGrows /\ PhaseAgrees /\ ClaimsDisjoint /\ QueuesDisjoint /\ Resumable
  BY DEF SafetyInv
<1>a. /\ phase[c] = "switch"
      /\ ctx' = [t \in Thread |->
                   IF t \in threads /\ slot[t] = from[c] THEN stack[c] ELSE ctx[t]]
      /\ stack' = [stack EXCEPT ![c] = next[c]] /\ next' = [next EXCEPT ![c] = NoThread]
      /\ from' = [from EXCEPT ![c] = 0] /\ out' = [out EXCEPT ![c] = "Ready"]
      /\ phase' = [phase EXCEPT ![c] = "land"]
      /\ UNCHANGED <<threads, nextId, reapable, slot, state, parked, pending>>
      /\ UNCHANGED <<queue, current, handoff, probe, wake, k, pend>>
  BY DEF Switch, percpu
<1>h. /\ stack[c] \in threads /\ next[c] \in threads /\ threads \subseteq Thread
      /\ stack[c] \in Thread /\ next[c] \in Thread
      /\ handoff[c].id = stack[c] /\ from[c] = slot[stack[c]] /\ current[c] = next[c]
      /\ \A t \in threads : slot[t] = t
      /\ \A d \in Cpu : stack[d] \in Thread
  BY <1>0, <1>a DEF TypeOK, TableGrows, PhaseAgrees, PhaseOK
<1>b. \A d \in Cpu : /\ phase'[d] = IF d = c THEN "land" ELSE phase[d]
                     /\ stack'[d] = IF d = c THEN next[c] ELSE stack[d]
                     /\ next'[d] = IF d = c THEN NoThread ELSE next[d]
                     /\ from'[d] = IF d = c THEN 0 ELSE from[d]
  BY <1>0, <1>a DEF TypeOK
<1>c. \A t \in threads : ctx'[t] = IF t = stack[c] THEN stack[c] ELSE ctx[t]
  BY <1>a, <1>h
<1>1. TypeOK'
  <2>1. /\ ctx' \in [Thread -> Thread \cup {NoThread}]
        /\ stack' \in [Cpu -> Thread] /\ next' \in [Cpu -> Thread \cup {NoThread}]
    BY <1>0, <1>a, <1>h DEF TypeOK
  <2>2. /\ from' \in [Cpu -> Nat] /\ out' \in [Cpu -> ThreadStates] /\ phase' \in [Cpu -> Phases]
    BY <1>0, <1>a DEF TypeOK, ThreadStates, Phases
  <2> QED BY <1>0, <1>a, <2>1, <2>2 DEF TypeOK
<1>2. TableGrows'
  BY <1>0, <1>a, ZenonT(60) DEF TypeOK, TableGrows
<1>3. PhaseAgrees'
  <2> SUFFICES ASSUME NEW d \in Cpu PROVE PhaseOK(d)'
    BY DEF PhaseAgrees
  <2>1. CASE d = c
    BY <1>0, <1>a, <1>h, <1>b, <2>1, ConstantFacts, SMTT(40) DEF PhaseAgrees, PhaseOK
  <2>2. CASE d # c
    BY <1>0, <1>a, <1>h, <1>b, <2>2, ConstantFacts, SMTT(40) DEF PhaseAgrees, PhaseOK
  <2> QED BY <2>1, <2>2
<1>4. ClaimsDisjoint'
  <2>1. ASSUME NEW d \in Cpu, NEW e \in Cpu PROVE Apart(d, e)'
    <3>1. Apart(d, e) /\ Apart(d, c) /\ Apart(e, c) /\ Apart(c, d) /\ Apart(c, e)
      BY <1>0 DEF ClaimsDisjoint
    <3>2. /\ wake' = wake /\ handoff' = handoff
          /\ stack'[d] = IF d = c THEN next[c] ELSE stack[d]
          /\ stack'[e] = IF e = c THEN next[c] ELSE stack[e]
          /\ next'[d] = IF d = c THEN NoThread ELSE next[d]
          /\ next'[e] = IF e = c THEN NoThread ELSE next[e]
          /\ phase'[d] = "land" => phase[d] = "land" \/ d = c
      BY <1>a, <1>b
    <3>3. /\ handoff[c].id = stack[c] /\ stack[c] # NoThread /\ next[c] # NoThread
          /\ stack[e] # NoThread
      BY <1>h, ConstantFacts
    <3>4. phase[d] = "land" => handoff[d].id # NoThread
      BY <1>0 DEF PhaseAgrees, PhaseOK
    <3>5. CASE d = c
      BY <3>1, <3>2, <3>3, <3>5 DEF Apart
    <3>6. CASE d # c
      BY <3>1, <3>2, <3>3, <3>4, <3>6 DEF Apart
    <3> QED BY <3>5, <3>6
  <2>2. ASSUME NEW s \in Thread PROVE SpawnApart(s)'
    <3>1. SpawnApart(s)
      BY <1>0 DEF ClaimsDisjoint
    <3>2. pend' = pend /\ threads' = threads /\ wake' = wake /\ handoff' = handoff
      BY <1>a
    <3>3. \A d \in Cpu : /\ stack'[d] = stack[d] \/ stack'[d] = next[c]
                         /\ next'[d] = next[d] \/ next'[d] = NoThread
      BY <1>b, ZenonT(60)
    <3> QED BY <3>1, <3>2, <3>3 DEF SpawnApart
  <2> QED BY <2>1, <2>2 DEF ClaimsDisjoint
<1>5. QueuesDisjoint'
  BY <1>0, <1>a, <1>b, <1>h, ConstantFacts, SMTT(40) DEF QueuesDisjoint
<1>6. Resumable'
  <2>1. \A t \in threads : (\A d \in Cpu : stack'[d] # t) => ctx'[t] = t
    <3> SUFFICES ASSUME NEW t \in threads, \A d \in Cpu : stack'[d] # t PROVE ctx'[t] = t
      OBVIOUS
    <3>1. CASE t = stack[c]
      BY <1>c, <3>1, <1>h
    <3>2. CASE t # stack[c]
      BY <1>0, <1>b, <1>c, <1>h, <3>2, SMTT(40) DEF Resumable
    <3> QED BY <3>1, <3>2
  <2>2. \A t \in Thread : Queued(t)' <=> Queued(t)
    BY <1>a DEF Queued
  <2>3. \A t \in Thread : parked'[t] =>
          t \in threads' /\ ~Queued(t)' /\ \A s \in Thread : pend'[s] # t
    BY <1>0, <1>a, <2>2 DEF Resumable
  <2>4. ASSUME NEW d \in Cpu
        PROVE  /\ wake'[d] # NoThread => wake'[d] \in threads' /\ ~parked'[wake'[d]]
               /\ next'[d] # NoThread => ~parked'[next'[d]]
    <3>1. /\ wake[d] # NoThread => wake[d] \in threads /\ ~parked[wake[d]]
          /\ next[d] # NoThread => ~parked[next[d]]
      BY <1>0 DEF Resumable
    <3>2. next'[d] = next[d] \/ next'[d] = NoThread
      BY <1>b
    <3> QED BY <1>a, <3>1, <3>2
  <2> QED BY <1>a, <2>1, <2>3, <2>4 DEF Resumable
<1> QED BY <1>1, <1>2, <1>3, <1>4, <1>5, <1>6 DEF SafetyInv

\* publish_handoff queues the outgoing thread unless it is parked.
LEMMA LandSafety ==
    ASSUME SafetyInv, Mortal = {}, NEW c \in Cpu, Land(c)
    PROVE  SafetyInv'
<1>0. TypeOK /\ TableGrows /\ PhaseAgrees /\ ClaimsDisjoint /\ QueuesDisjoint /\ Resumable
  BY DEF SafetyInv
<1>a. /\ phase[c] = "land" /\ handoff' = [handoff EXCEPT ![c] = NoHandoff]
      /\ UNCHANGED <<threads, nextId, reapable, slot, state, parked, pending, ctx>>
      /\ UNCHANGED <<current, stack, out, next, probe, from, wake, pend>>
  BY DEF Land, table
<1>p. phase' = [phase EXCEPT ![c] = "thread"] \/ phase' = [phase EXCEPT ![c] = "reap"]
  BY DEF Land
<1>k. /\ k' \in [Thread -> Continuations]
      /\ \A t \in Thread : k'[t] = k[t] \/ k'[t] = "body"
  BY <1>0, ZenonT(60) DEF Land, TypeOK, Continuations
<1>h. /\ handoff[c].id \in threads /\ handoff[c].id \in Thread /\ handoff[c].id # NoThread
      /\ handoff[c].tag <=> parked[handoff[c].id]
      /\ next[c] = NoThread /\ current[c] = stack[c]
  <2>1. handoff[c].id # NoThread
    BY <1>0, <1>a DEF PhaseAgrees, PhaseOK
  <2> QED BY <1>0, <1>a, <2>1 DEF TypeOK, PhaseAgrees, PhaseOK
<1>q. /\ queue' \in [Cpu -> [Band -> Seq(Thread)]]
      /\ \A d \in Cpu : NoRepeat(queue'[d])
      /\ \A d \in Cpu, t \in Thread : contains(queue'[d], t) <=>
            contains(queue[d], t) \/ (d = c /\ t = handoff[c].id /\ ~handoff[c].tag)
  <2>1. queue \in [Cpu -> [Band -> Seq(Thread)]] /\ \A d \in Cpu : NoRepeat(queue[d])
    BY <1>0 DEF TypeOK, QueuesDisjoint
  <2>2. CASE handoff[c].tag
    BY <1>h, <2>1, <2>2 DEF Land
  <2>3. CASE ~handoff[c].tag
    <3>1. queue' = [queue EXCEPT ![c] = push(queue[c], handoff[c].id, Prio[handoff[c].id])]
      BY <1>h, <2>3 DEF Land
    <3>2. handoff[c].id \in Thread
      BY <1>h
    <3>3. TypeOK /\ QueuesDisjoint
      BY <1>0
    <3>4. /\ queue' \in [Cpu -> [Band -> Seq(Thread)]]
          /\ \A d \in Cpu : NoRepeat(queue'[d])
          /\ \A d \in Cpu, t \in Thread :
                contains(queue'[d], t) <=> contains(queue[d], t) \/ (d = c /\ t = handoff[c].id)
      BY <3>1, <3>2, <3>3, PushAt
    <3> QED BY <2>3, <3>4
  <2> QED BY <2>2, <2>3
<1>b. \A d \in Cpu : /\ handoff'[d] = IF d = c THEN NoHandoff ELSE handoff[d]
                     /\ d # c => phase'[d] = phase[d]
                     /\ phase'[c] \in {"thread", "reap"}
  BY <1>0, <1>a, <1>p DEF TypeOK
<1>i. \A d \in Cpu : handoff'[d].id = IF d = c THEN NoThread ELSE handoff[d].id
  <2>1. NoHandoff.id = NoThread
    BY DEF NoHandoff
  <2> QED BY <1>b, <2>1
<1>1. TypeOK'
  <2>1. /\ handoff' \in [Cpu -> [id : Thread \cup {NoThread}, tag : BOOLEAN]]
        /\ phase' \in [Cpu -> Phases]
    BY <1>0, <1>a, <1>p, ZenonT(60) DEF TypeOK, Phases, NoHandoff
  <2> QED BY <1>0, <1>a, <1>k, <1>q, <2>1 DEF TypeOK
<1>2. TableGrows'
  BY <1>0, <1>a, <1>k DEF TypeOK, TableGrows
<1>3. PhaseAgrees'
  <2> SUFFICES ASSUME NEW d \in Cpu PROVE PhaseOK(d)'
    BY DEF PhaseAgrees
  <2>1. CASE d = c
    BY <1>0, <1>a, <1>h, <1>b, <2>1, ConstantFacts, SMTT(40) DEF PhaseAgrees, PhaseOK, NoHandoff
  <2>2. CASE d # c
    <3>1. PhaseOK(d)
      BY <1>0 DEF PhaseAgrees
    <3>2. handoff'[d] = handoff[d] /\ phase'[d] = phase[d]
      BY <1>b, <2>2
    <3> QED BY <1>a, <3>1, <3>2, SMT DEF PhaseOK
  <2> QED BY <2>1, <2>2
<1>4. ClaimsDisjoint'
  <2>1. ASSUME NEW d \in Cpu, NEW e \in Cpu PROVE Apart(d, e)'
    <3>1. Apart(d, e) /\ Apart(d, c) /\ Apart(e, c) /\ Apart(c, d) /\ Apart(c, e)
      BY <1>0 DEF ClaimsDisjoint
    <3>2. /\ stack' = stack /\ wake' = wake /\ next' = next
          /\ handoff'[d].id = IF d = c THEN NoThread ELSE handoff[d].id
          /\ handoff'[e].id = IF e = c THEN NoThread ELSE handoff[e].id
          /\ phase'[d] = "land" => phase[d] = "land" /\ d # c
      BY <1>a, <1>b, <1>i
    <3> QED BY <3>1, <3>2, ZenonT(60) DEF Apart
  <2>2. ASSUME NEW s \in Thread PROVE SpawnApart(s)'
    <3>1. SpawnApart(s)
      BY <1>0 DEF ClaimsDisjoint
    <3>2. pend' = pend /\ threads' = threads /\ stack' = stack /\ wake' = wake /\ next' = next
      BY <1>a
    <3>3. \A d \in Cpu : handoff'[d].id = handoff[d].id \/ handoff'[d].id = NoThread
      BY <1>i
    <3> QED BY <3>1, <3>2, <3>3 DEF SpawnApart
  <2> QED BY <2>1, <2>2 DEF ClaimsDisjoint
<1>5. QueuesDisjoint'
  <2> SUFFICES ASSUME NEW d \in Cpu, NEW e \in Cpu, NEW t \in Thread, contains(queue'[d], t)
               PROVE  /\ t \in threads /\ (contains(queue'[e], t) => d = e)
                      /\ t \notin {stack[e], next[e], wake[e], handoff'[e].id}
                      /\ \A s \in Thread : pend[s] # t
    BY <1>a, <1>q DEF QueuesDisjoint
  <2>1. CASE contains(queue[d], t)
    <3>1. t # handoff[c].id /\ t # NoThread
      BY <1>0, <2>1, ConstantFacts DEF QueuesDisjoint
    <3>2. t \in threads /\ (contains(queue'[e], t) => d = e)
      BY <1>0, <1>q, <2>1, <3>1 DEF QueuesDisjoint
    <3>3. t # handoff'[e].id
      BY <1>0, <1>i, <2>1, <3>1 DEF QueuesDisjoint
    <3> QED BY <1>0, <2>1, <3>2, <3>3 DEF QueuesDisjoint
  <2>2. CASE ~contains(queue[d], t)
    <3>1. d = c /\ t = handoff[c].id /\ ~handoff[c].tag
      BY <1>q, <2>2, ZenonT(60)
    <3>2. contains(queue'[e], t) => d = e
      BY <1>0, <1>q, <3>1, SMT DEF QueuesDisjoint
    <3>3. t \notin {stack[e], next[e], wake[e], handoff'[e].id}
      <4>1. Apart(c, e) /\ Apart(e, c)
        BY <1>0 DEF ClaimsDisjoint
      <4>2. handoff'[e].id = IF e = c THEN NoThread ELSE handoff[e].id
        BY <1>i
      <4> QED BY <1>a, <1>h, <3>1, <4>1, <4>2 DEF Apart
    <3>4. \A s \in Thread : pend[s] # t
      <4> TAKE s \in Thread
      <4>1. SpawnApart(s)
        BY <1>0 DEF ClaimsDisjoint
      <4> QED BY <1>h, <3>1, <4>1 DEF SpawnApart
    <3> QED BY <1>h, <3>1, <3>2, <3>3, <3>4
  <2> QED BY <2>1, <2>2
<1>6. Resumable'
  <2>1. \A t \in Thread : Queued(t)' => Queued(t) \/ (t = handoff[c].id /\ ~handoff[c].tag)
    BY <1>q DEF Queued
  <2>2. ~handoff[c].tag => ~parked[handoff[c].id]
    BY <1>h
  <2> QED BY <1>0, <1>a, <2>1, <2>2 DEF Resumable
<1> QED BY <1>1, <1>2, <1>3, <1>4, <1>5, <1>6 DEF SafetyInv

-----------------------------------------------------------------------------
(***************************************************************************)
(* The steps that start and wake threads preserve the invariant: the push  *)
(* of spawn_kernel, and unpark with its push.                              *)
(***************************************************************************)

\* A step that moves thread u from the hands of its spawner or its waker, and
\* of nobody else, to CPU o's queue.
PushStep(o, u) ==
    /\ u \in threads /\ u \in Thread /\ ~parked[u]
    /\ queue' = [queue EXCEPT ![o] = push(queue[o], u, Prio[u])]
    /\ pend' \in [Thread -> Thread \cup {NoThread}]
    /\ wake' \in [Cpu -> Thread \cup {NoThread}]
    /\ \A s \in Thread : pend'[s] \in {pend[s], NoThread} \ {u}
    /\ \A d \in Cpu : wake'[d] \in {wake[d], NoThread} \ {u}
    /\ \A d \in Cpu : u \notin {stack[d], next[d], handoff[d].id} /\ ~contains(queue[d], u)
    /\ UNCHANGED <<table, current, handoff, stack, phase, out, next, probe, from, k>>

\* Such a step preserves the invariant.
LEMMA PushStepSafety ==
    ASSUME SafetyInv, Mortal = {}, NEW o \in Cpu, NEW u, PushStep(o, u)
    PROVE  SafetyInv'
<1>0. TypeOK /\ TableGrows /\ PhaseAgrees /\ ClaimsDisjoint /\ QueuesDisjoint /\ Resumable
  BY DEF SafetyInv
<1>a. /\ UNCHANGED <<threads, nextId, reapable, slot, state, parked, pending, ctx>>
      /\ UNCHANGED <<current, handoff, stack, phase, out, next, probe, from, k>>
  BY DEF PushStep, table
<1>u. u \in threads /\ u \in Thread /\ ~parked[u]
  BY DEF PushStep
<1>q. /\ queue' \in [Cpu -> [Band -> Seq(Thread)]]
      /\ \A d \in Cpu : NoRepeat(queue'[d])
      /\ \A d \in Cpu, t \in Thread :
            contains(queue'[d], t) <=> contains(queue[d], t) \/ (d = o /\ t = u)
  <2>1. queue' = [queue EXCEPT ![o] = push(queue[o], u, Prio[u])]
    BY DEF PushStep
  <2> QED BY <1>0, <1>u, <2>1, PushAt
<1>b. /\ \A s \in Thread : pend'[s] \in {pend[s], NoThread} \ {u}
      /\ \A d \in Cpu : wake'[d] \in {wake[d], NoThread} \ {u}
  BY DEF PushStep
<1>n. \A d \in Cpu : u \notin {stack[d], next[d], handoff[d].id} /\ ~contains(queue[d], u)
  BY DEF PushStep
<1>1. TypeOK'
  <2>1. /\ pend' \in [Thread -> Thread \cup {NoThread}]
        /\ wake' \in [Cpu -> Thread \cup {NoThread}]
    BY DEF PushStep
  <2> QED BY <1>0, <1>a, <1>q, <2>1 DEF TypeOK
<1>2. TableGrows'
  BY <1>0, <1>a DEF TableGrows
<1>3. PhaseAgrees'
  BY <1>0, <1>a DEF PhaseAgrees, PhaseOK
<1>4. ClaimsDisjoint'
  <2>1. ASSUME NEW d \in Cpu, NEW e \in Cpu PROVE Apart(d, e)'
    <3>1. Apart(d, e)
      BY <1>0 DEF ClaimsDisjoint
    <3>2. wake'[d] \in {wake[d], NoThread} /\ wake'[e] \in {wake[e], NoThread}
      BY <1>b, ZenonT(60)
    <3> QED BY <1>a, <3>1, <3>2 DEF Apart
  <2>2. ASSUME NEW s \in Thread PROVE SpawnApart(s)'
    <3>1. SpawnApart(s)
      BY <1>0 DEF ClaimsDisjoint
    <3>2. /\ \A r \in Thread : pend'[r] \in {pend[r], NoThread}
          /\ \A d \in Cpu : wake'[d] \in {wake[d], NoThread}
      BY <1>b
    <3> QED BY <1>a, <3>1, <3>2, SMT DEF SpawnApart
  <2> QED BY <2>1, <2>2 DEF ClaimsDisjoint
<1>5. QueuesDisjoint'
  <2> SUFFICES ASSUME NEW d \in Cpu, NEW e \in Cpu, NEW t \in Thread, contains(queue'[d], t)
               PROVE  /\ t \in threads /\ (contains(queue'[e], t) => d = e)
                      /\ t \notin {stack[e], next[e], wake'[e], handoff[e].id}
                      /\ \A s \in Thread : pend'[s] # t
    BY <1>a, <1>q DEF QueuesDisjoint
  <2>1. CASE contains(queue[d], t)
    <3>1. t # NoThread /\ t # u
      BY <1>n, <2>1, ConstantFacts
    <3>2. t \in threads /\ (contains(queue'[e], t) => d = e)
      BY <1>0, <1>q, <2>1, <3>1 DEF QueuesDisjoint
    <3>3. t # wake'[e] /\ \A s \in Thread : pend'[s] # t
      BY <1>0, <1>b, <2>1, <3>1, ZenonT(60) DEF QueuesDisjoint
    <3> QED BY <1>0, <2>1, <3>2, <3>3 DEF QueuesDisjoint
  <2>2. CASE ~contains(queue[d], t)
    <3>1. d = o /\ t = u
      BY <1>q, <2>2
    <3>2. contains(queue'[e], t) => d = e
      BY <1>q, <1>n, <3>1
    <3> QED BY <1>u, <1>b, <1>n, <3>1, <3>2
  <2> QED BY <2>1, <2>2
<1>6. Resumable'
  <2>1. \A t \in Thread : Queued(t)' => Queued(t) \/ t = u
    BY <1>q DEF Queued
  <2>2. \A t \in Thread : parked'[t] =>
          t \in threads' /\ ~Queued(t)' /\ \A s \in Thread : pend'[s] # t
    <3> SUFFICES ASSUME NEW t \in Thread, parked[t]
                 PROVE  t \in threads /\ ~Queued(t)' /\ \A s \in Thread : pend'[s] # t
      BY <1>a
    <3>1. t # u /\ t # NoThread /\ t \in threads /\ ~Queued(t) /\ \A s \in Thread : pend[s] # t
      BY <1>0, <1>u, ConstantFacts DEF Resumable
    <3> QED BY <1>b, <2>1, <3>1
  <2>3. \A d \in Cpu : wake'[d] = wake[d] \/ wake'[d] = NoThread
    BY <1>b
  <2> QED BY <1>0, <1>a, <2>2, <2>3 DEF Resumable
<1> QED BY <1>1, <1>2, <1>3, <1>4, <1>5, <1>6 DEF SafetyInv

\* spawn_kernel's push hands its new thread to a queue.
LEMMA SpawnPushSteps ==
    ASSUME SafetyInv, NEW c \in Cpu, SpawnPush(c)
    PROVE  PushStep(c, pend[stack[c]])
<1> DEFINE u == pend[stack[c]]
<1>0. TypeOK /\ ClaimsDisjoint /\ QueuesDisjoint /\ Resumable
  BY DEF SafetyInv
<1>1. stack[c] \in Thread /\ u \in Thread /\ u # NoThread
  BY <1>0, ConstantFacts DEF TypeOK, SpawnPush
<1>2. SpawnApart(stack[c])
  BY <1>0, <1>1 DEF ClaimsDisjoint
<1>3. /\ u \in threads /\ \A r \in Thread : pend[r] = u => r = stack[c]
      /\ \A d \in Cpu : u \notin {stack[d], next[d], wake[d], handoff[d].id}
  BY <1>1, <1>2 DEF SpawnApart
<1>4. ~parked[u] /\ \A d \in Cpu : ~contains(queue[d], u)
  BY <1>0, <1>1, ZenonT(60) DEF Resumable, QueuesDisjoint
<1>5. /\ pend' = [pend EXCEPT ![stack[c]] = NoThread] /\ wake' = wake
      /\ queue' = [queue EXCEPT ![c] = push(queue[c], u, Prio[u])]
      /\ UNCHANGED <<table, current, handoff, stack, phase, out, next, probe, from, k>>
  BY DEF SpawnPush
<1>6. /\ pend' \in [Thread -> Thread \cup {NoThread}]
      /\ wake' \in [Cpu -> Thread \cup {NoThread}]
      /\ \A s \in Thread : pend'[s] = IF s = stack[c] THEN NoThread ELSE pend[s]
  BY <1>0, <1>5 DEF TypeOK
<1> HIDE DEF u
<1>7. \A s \in Thread : pend'[s] \in {pend[s], NoThread} \ {u}
  BY <1>1, <1>3, <1>6
<1>8. \A d \in Cpu : wake'[d] \in {wake[d], NoThread} \ {u}
  BY <1>3, <1>5
<1>9. PushStep(c, u)
  BY <1>1, <1>3, <1>4, <1>5, <1>6, <1>7, <1>8 DEF PushStep
<1> QED BY <1>9 DEF u

\* unpark's push hands the woken thread to a queue.
LEMMA UnparkPushSteps ==
    ASSUME SafetyInv, NEW c \in Cpu, UnparkPush(c)
    PROVE  \E o \in Cpu : PushStep(o, wake[c])
<1> DEFINE u == wake[c]
           o == HomeQueue(c, u)
<1>0. TypeOK /\ ClaimsDisjoint /\ QueuesDisjoint /\ Resumable
  BY DEF SafetyInv
<1>1. u \in Thread /\ u # NoThread /\ o \in Cpu
  BY <1>0, ConstantFacts DEF TypeOK, UnparkPush, HomeQueue, Idle
<1>2. u \in threads /\ ~parked[u]
  BY <1>0, <1>1 DEF Resumable
<1>3. \A d \in Cpu : /\ u \notin {stack[d], next[d], handoff[d].id}
                     /\ wake[d] = u => d = c
  BY <1>0, <1>1 DEF ClaimsDisjoint, Apart
<1>4. /\ \A d \in Cpu : ~contains(queue[d], u)
      /\ \A s \in Thread : pend[s] # u
  BY <1>0, <1>1 DEF QueuesDisjoint, ClaimsDisjoint, SpawnApart
<1>5. /\ wake' = [wake EXCEPT ![c] = NoThread] /\ pend' = pend
      /\ queue' = [queue EXCEPT ![o] = push(queue[o], u, Prio[u])]
      /\ UNCHANGED <<table, current, handoff, stack, phase, out, next, probe, from, k>>
  BY DEF UnparkPush
<1>6. /\ pend' \in [Thread -> Thread \cup {NoThread}]
      /\ wake' \in [Cpu -> Thread \cup {NoThread}]
      /\ \A d \in Cpu : wake'[d] = IF d = c THEN NoThread ELSE wake[d]
  BY <1>0, <1>5 DEF TypeOK
<1> HIDE DEF u, o
<1>7. \A d \in Cpu : wake'[d] \in {wake[d], NoThread} \ {u}
  BY <1>1, <1>3, <1>6
<1>8. \A s \in Thread : pend'[s] \in {pend[s], NoThread} \ {u}
  BY <1>4, <1>5
<1>9. PushStep(o, u)
  BY <1>1, <1>2, <1>3, <1>4, <1>5, <1>6, <1>7, <1>8 DEF PushStep
<1> QED BY <1>1, <1>9 DEF u

\* The branch of unpark that finds its thread parked.
UnparkWake(c, u) == Unpark(c, u) /\ u \in threads /\ parked[u]

\* A parked thread that is woken is left to its CPU, to the handoff that names it, or to the waker: to exactly one of them.
LEMMA UnparkWakeSafety ==
    ASSUME SafetyInv, Mortal = {}, NEW c \in Cpu, NEW u \in Thread, UnparkWake(c, u)
    PROVE  SafetyInv'
<1>0. TypeOK /\ TableGrows /\ PhaseAgrees /\ ClaimsDisjoint /\ QueuesDisjoint /\ Resumable
  BY DEF SafetyInv
<1>a. /\ wake[c] = NoThread /\ phase[c] = "thread"
      /\ parked' = [parked EXCEPT ![u] = FALSE] /\ state' = [state EXCEPT ![u] = "Ready"]
      /\ UNCHANGED <<threads, nextId, reapable, slot, ctx, pending, queue, current>>
      /\ UNCHANGED <<stack, phase, out, next, probe, from, pend>>
  BY DEF UnparkWake, Unpark, Interruptible, Executing
<1>u. u \in threads /\ parked[u] /\ u # NoThread /\ threads \subseteq Thread
  BY <1>0, ConstantFacts DEF UnparkWake, TypeOK
<1>k. /\ k' \in [Thread -> Continuations]
      /\ \A t \in Thread : k'[t] \notin {"exit", "exithalt"}
  <2>1. stack[c] \in Thread /\ k[stack[c]] \in Continuations \ {"exit", "exithalt"}
    BY <1>0 DEF TypeOK, TableGrows
  <2>2. Awake(k[stack[c]]) \in Continuations \ {"exit", "exithalt"}
    BY <2>1 DEF Awake, Continuations, Halts
  <2>3. k' = [k EXCEPT ![stack[c]] = Awake(k[stack[c]])]
    BY DEF UnparkWake, Unpark
  <2> QED BY <1>0, <2>1, <2>2, <2>3 DEF TypeOK, TableGrows
<1>b. \A t \in Thread : parked'[t] <=> parked[t] /\ t # u
  BY <1>0, <1>a DEF TypeOK
<1>t. /\ handoff' \in [Cpu -> [id : Thread \cup {NoThread}, tag : BOOLEAN]]
      /\ wake' \in [Cpu -> Thread \cup {NoThread}]
      /\ \A d \in Cpu : handoff'[d].id = handoff[d].id
      /\ \A d \in Cpu : handoff[d].id # u => handoff'[d].tag = handoff[d].tag
      /\ \A d \in Cpu : handoff[d].id = u => ~handoff'[d].tag
      /\ \A d \in Cpu : wake'[d] = wake[d] \/ (d = c /\ wake'[d] = u)
      /\ \A d \in Cpu : wake'[c] = u =>
            u \notin {stack[d], next[d], wake[d], handoff[d].id}
  <2>0. /\ handoff \in [Cpu -> [id : Thread \cup {NoThread}, tag : BOOLEAN]]
        /\ wake \in [Cpu -> Thread \cup {NoThread}]
    BY <1>0 DEF TypeOK
  <2>h. \A d \in Cpu : handoff[d].id = u => handoff[d] = [id |-> u, tag |-> TRUE]
    <3> SUFFICES ASSUME NEW d \in Cpu, handoff[d].id = u PROVE handoff[d] = [id |-> u, tag |-> TRUE]
      OBVIOUS
    <3>1. handoff[d].tag = TRUE
      BY <1>0, <1>u, <2>0 DEF PhaseAgrees, PhaseOK
    <3> QED BY <2>0, <3>1
  <2>s. \A d \in Cpu : stack[d] = u => current[d] = u \/ handoff[d].id = u
    BY <1>0 DEF PhaseAgrees, PhaseOK
  <2>x. \A d \in Cpu : next[d] # u /\ wake[d] # u
    BY <1>0, <1>u, ZenonT(60) DEF Resumable
  <2>1. CASE is_current_anywhere(u) /\ UNCHANGED <<handoff, wake>>
    <3>1. PICK e \in Cpu : current[e] = u
      BY <2>1 DEF is_current_anywhere
    <3>2. stack[e] = u /\ phase[e] # "switch"
      BY <1>0, <1>u, <2>x, <3>1 DEF PhaseAgrees, PhaseOK
    <3>3. \A d \in Cpu : handoff[d].id # u
      <4> SUFFICES ASSUME NEW d \in Cpu PROVE handoff[d].id # u  OBVIOUS
      <4>1. CASE phase[d] = "switch"
        BY <1>0, <3>2, <4>1, SMTT(40) DEF PhaseAgrees, PhaseOK, ClaimsDisjoint, Apart, SpawnApart
      <4>2. CASE phase[d] = "land"
        BY <1>0, <3>2, <4>2 DEF ClaimsDisjoint, Apart, SpawnApart
      <4>3. CASE phase[d] \notin {"switch", "land"}
        BY <1>0, <1>u, <4>3 DEF PhaseAgrees, PhaseOK
      <4> QED BY <4>1, <4>2, <4>3
    <3> QED BY <2>0, <2>1, <2>x, <3>3
  <2>2. CASE /\ \E o \in ParkedHandoffs(u) :
                  handoff' = [handoff EXCEPT ![o] = [id |-> u, tag |-> FALSE]]
             /\ UNCHANGED wake
    <3>1. PICK o \in ParkedHandoffs(u) :
            handoff' = [handoff EXCEPT ![o] = [id |-> u, tag |-> FALSE]]
      BY <2>2
    <3>2. o \in Cpu /\ handoff[o].id = u
      BY <3>1, SMT DEF ParkedHandoffs
    <3>3. \A d \in Cpu : handoff[d].id = u => d = o
      BY <1>0, <1>u, <3>2 DEF ClaimsDisjoint, Apart, SpawnApart
    <3>4. handoff' \in [Cpu -> [id : Thread \cup {NoThread}, tag : BOOLEAN]]
      BY <2>0, <3>1, <3>2
    <3>5. \A d \in Cpu : handoff'[d] = IF d = o THEN [id |-> u, tag |-> FALSE] ELSE handoff[d]
      BY <2>0, <3>1
    <3>6. /\ \A d \in Cpu : handoff'[d].id = handoff[d].id
          /\ \A d \in Cpu : handoff[d].id # u => handoff'[d].tag = handoff[d].tag
          /\ \A d \in Cpu : handoff[d].id = u => ~handoff'[d].tag
      BY <3>2, <3>3, <3>5, SMT
    <3>7. wake' = wake /\ wake'[c] # u
      BY <2>2, <2>x
    <3> QED BY <2>0, <3>4, <3>6, <3>7
  <2>3. CASE /\ ~is_current_anywhere(u) /\ ParkedHandoffs(u) = {}
             /\ wake' = [wake EXCEPT ![c] = u] /\ UNCHANGED handoff
    <3>1. \A d \in Cpu : handoff[d].id # u
      BY <2>3, <2>h DEF ParkedHandoffs
    <3>2. \A d \in Cpu : stack[d] # u
      BY <2>3, <2>s, <3>1 DEF is_current_anywhere
    <3>3. wake' \in [Cpu -> Thread \cup {NoThread}]
          /\ \A d \in Cpu : wake'[d] = IF d = c THEN u ELSE wake[d]
      BY <2>0, <2>3
    <3> QED BY <2>0, <2>3, <2>x, <3>1, <3>2, <3>3
  <2> QED BY <1>u, <2>1, <2>2, <2>3 DEF UnparkWake, Unpark
<1>i. \A d \in Cpu : handoff'[d].id = handoff[d].id
  BY <1>t
<1>w. /\ \A d \in Cpu : wake'[d] = wake[d] \/ (d = c /\ wake'[d] = u)
      /\ \A d \in Cpu : wake'[c] = u => u \notin {stack[d], next[d], wake[d], handoff[d].id}
  BY <1>t
<1>n. /\ \A s \in Thread : pend[s] # u
      /\ \A d \in Cpu : ~contains(queue[d], u)
  BY <1>0, <1>u DEF Resumable, Queued
<1>1. TypeOK'
  <2>1. parked' \in [Thread -> BOOLEAN]
    BY <1>0, <1>a DEF TypeOK
  <2>2. state' \in [Thread -> ThreadStates]
    BY <1>0, <1>a DEF TypeOK, ThreadStates
  <2> QED BY <1>0, <1>a, <1>k, <1>t, <2>1, <2>2 DEF TypeOK
<1>2. TableGrows'
  <2>1. \A t \in Thread : state'[t] # "Exited"
    BY <1>0, <1>a DEF TypeOK, TableGrows
  <2> QED BY <1>0, <1>a, <1>k, <2>1 DEF TableGrows
<1>3. PhaseAgrees'
  <2> SUFFICES ASSUME NEW d \in Cpu PROVE PhaseOK(d)'
    BY DEF PhaseAgrees
  <2>1. handoff'[d].id = handoff[d].id
    BY <1>i
  <2>2. handoff'[d].id # NoThread => (handoff'[d].tag <=> parked'[handoff'[d].id])
    BY <1>0, <1>b, <1>t, SMTT(40) DEF PhaseAgrees, PhaseOK, TypeOK
  <2> QED BY <1>0, <1>a, <2>1, <2>2 DEF PhaseAgrees, PhaseOK
<1>4. ClaimsDisjoint'
  <2>1. ASSUME NEW d \in Cpu, NEW e \in Cpu PROVE Apart(d, e)'
    <3>1. Apart(d, e)
      BY <1>0 DEF ClaimsDisjoint
    <3>2. handoff'[d].id = handoff[d].id /\ handoff'[e].id = handoff[e].id
      BY <1>i
    <3>3. CASE wake'[d] = wake[d] /\ wake'[e] = wake[e]
      BY <1>a, <3>1, <3>2, <3>3 DEF Apart
    <3>4. CASE d = c /\ wake'[d] = u
      <4>1. u \notin {stack[e], next[e], wake[e], handoff[e].id}
        BY <1>w, <3>4
      <4>2. wake'[e] = wake[e] \/ e = c
        BY <1>w
      <4> QED BY <1>a, <3>1, <3>2, <3>4, <4>1, <4>2 DEF Apart
    <3>5. CASE wake'[d] = wake[d] /\ e = c /\ wake'[e] = u
      <4>1. wake[d] # u
        BY <1>w, <3>5
      <4> QED BY <1>a, <3>1, <3>2, <3>5, <4>1 DEF Apart
    <3> QED BY <1>w, <3>3, <3>4, <3>5
  <2>2. ASSUME NEW s \in Thread PROVE SpawnApart(s)'
    <3>1. SpawnApart(s) /\ pend[s] # u
      BY <1>0, <1>n DEF ClaimsDisjoint
    <3>2. \A d \in Cpu : handoff'[d].id = handoff[d].id /\ wake'[d] \in {wake[d], u}
      BY <1>i, <1>w
    <3> QED BY <1>a, <3>1, <3>2 DEF SpawnApart
  <2> QED BY <2>1, <2>2 DEF ClaimsDisjoint
<1>5. QueuesDisjoint'
  <2>1. \A d, e \in Cpu, t \in Thread : contains(queue[d], t) =>
          t \notin {stack[e], next[e], wake'[e], handoff'[e].id}
    BY <1>0, <1>i, <1>w, <1>n, SMTT(40) DEF QueuesDisjoint
  <2> QED BY <1>0, <1>a, <2>1, ZenonT(60) DEF QueuesDisjoint
<1>6. Resumable'
  <2>1. \A t \in Thread : Queued(t)' <=> Queued(t)
    BY <1>a DEF Queued
  <2>2. \A t \in threads : (\A d \in Cpu : stack'[d] # t) => ctx'[t] = t
    BY <1>0, <1>a DEF Resumable
  <2>3. \A t \in Thread : parked'[t] =>
          t \in threads /\ ~Queued(t)' /\ \A s \in Thread : pend'[s] # t
    BY <1>0, <1>a, <1>b, <2>1 DEF Resumable
  <2>4. ASSUME NEW d \in Cpu
        PROVE  /\ wake'[d] # NoThread => wake'[d] \in threads /\ ~parked'[wake'[d]]
               /\ next'[d] # NoThread => ~parked'[next'[d]]
    <3>1. /\ wake[d] # NoThread => wake[d] \in threads /\ ~parked[wake[d]]
          /\ next[d] # NoThread => next[d] \in threads /\ ~parked[next[d]]
      BY <1>0 DEF Resumable, PhaseAgrees, PhaseOK
    <3>2. wake'[d] = wake[d] \/ wake'[d] = u
      BY <1>w
    <3>3. \A t \in threads : parked'[t] => parked[t] /\ t # u
      BY <1>b, <1>u
    <3> QED BY <1>a, <1>u, <3>1, <3>2, <3>3
  <2> QED BY <1>a, <2>2, <2>3, <2>4 DEF Resumable
<1> QED BY <1>1, <1>2, <1>3, <1>4, <1>5, <1>6 DEF SafetyInv

\* unpark of a thread that is not parked only records the wake.
LEMMA UnparkSteps ==
    ASSUME SafetyInv, NEW c \in Cpu, NEW u \in Thread, Unpark(c, u)
    PROVE  ControlStep(c) \/ UnparkWake(c, u)
<1>0. /\ stack[c] \in Thread /\ pending \in [Thread -> BOOLEAN]
      /\ state \in [Thread -> ThreadStates \ {"Exited"}]
      /\ out = [out EXCEPT ![c] = out[c]] /\ out[c] \in ThreadStates \ {"Exited"}
      /\ phase = [phase EXCEPT ![c] = phase[c]]
      /\ probe \in [Cpu -> SUBSET Cpu]
      /\ k[stack[c]] \in Continuations \ {"exit", "exithalt"}
  BY DEF SafetyInv, TypeOK, TableGrows
<1>1. CASE u \in threads /\ parked[u]
  BY <1>1 DEF UnparkWake
<1>2. CASE ~(u \in threads /\ parked[u])
  <2>1. Awake(k[stack[c]]) \in Continuations \ {"exit", "exithalt"}
    BY <1>0 DEF Awake, Continuations, Halts
  <2>2. pending' \in [Thread -> BOOLEAN]
    BY <1>0, <1>2 DEF Unpark
  <2>3. UNCHANGED <<parked, state, handoff, wake>>
    BY <1>2 DEF Unpark
  <2>4. phase[c] = "thread" /\ "thread" \in Free
    BY DEF Unpark, Interruptible, Executing, Free
  <2> QED BY <1>0, <2>1, <2>2, <2>3, <2>4 DEF Unpark, ControlStep, percpu
<1> QED BY <1>1, <1>2

---------------------------------------------------------------------------
(* The remaining steps, and the theorems.                                  *)

\* park's look at its own flag, yield_now, a round of idle_loop, the wake IPI
\* and the timer are such steps; so is reap, with nobody to reap.
LEMMA ControlSteps ==
    ASSUME SafetyInv, NEW c \in Cpu,
           \/ ParkCheck(c) \/ Yield(c) \/ IdleLoop(c) \/ WakeIpi(c) \/ Tick(c) \/ Reap(c)
    PROVE  ControlStep(c)
<1>0. /\ TypeOK /\ stack[c] \in Thread
      /\ phase[c] \in Phases
      /\ k[stack[c]] \in Continuations \ {"exit", "exithalt"}
      /\ out[c] \in ThreadStates \ {"Exited"}
      /\ state \in [Thread -> ThreadStates \ {"Exited"}]
      /\ probe \in [Cpu -> SUBSET Cpu] /\ pending \in [Thread -> BOOLEAN]
      /\ phase = [phase EXCEPT ![c] = phase[c]]
      /\ out = [out EXCEPT ![c] = out[c]]
      /\ k = [k EXCEPT ![stack[c]] = k[stack[c]]]
  BY DEF SafetyInv, TypeOK, TableGrows
<1> USE DEF ControlStep, Executing, EnterSchedule, Free, table
<1>1. CASE ParkCheck(c)
  <2>1. \E kk \in Continuations \ {"exit", "exithalt"} : k' = [k EXCEPT ![stack[c]] = kk]
    BY <1>1 DEF ParkCheck, Continuations, Halts
  <2> QED BY <1>0, <1>1, <2>1 DEF ParkCheck
<1>2. CASE Yield(c)
  <2>1. "body" \in Continuations \ {"exit", "exithalt"} /\ "Ready" \in ThreadStates \ {"Exited"}
    BY DEF Continuations, ThreadStates
  <2> QED BY <1>0, <1>2, <2>1 DEF Yield
<1>3. CASE IdleLoop(c)
  <2>1. {"body", "idlehalt"} \subseteq Continuations \ {"exit", "exithalt"}
        /\ "Ready" \in ThreadStates \ {"Exited"}
    BY DEF Continuations, Halts, ThreadStates
  <2> QED BY <1>0, <1>3, <2>1 DEF IdleLoop
<1>a. \A kk \in Continuations \ {"exit", "exithalt"} :
        Awake(kk) \in Continuations \ {"exit", "exithalt"}
  BY DEF Awake, Continuations, Halts
<1>4. CASE WakeIpi(c)
  BY <1>0, <1>4, <1>a DEF WakeIpi
<1>5. CASE Tick(c)
  <2>1. "Ready" \in ThreadStates \ {"Exited"}
    BY DEF ThreadStates
  <2> QED BY <1>0, <1>5, <1>a, <2>1 DEF Tick, Interruptible
<1>6. CASE Reap(c)
  <2>1. reapable = {} /\ slot \in [Thread -> Nat]
    BY DEF SafetyInv, TypeOK, TableGrows
  <2>2. Cardinality({}) = 0
    BY FS_EmptySet
  <2>3. threads' = threads /\ reapable' = reapable
    BY <1>6, <2>1 DEF Reap
  <2>4. slot' = [t \in Thread |-> slot[t] - Cardinality({})]
    BY <1>6, <2>1, SMT DEF Reap
  <2>5. slot' = slot
    BY <2>1, <2>2, <2>4, SMTT(40)
  <2> QED BY <1>0, <1>6, <2>3, <2>5 DEF Reap
<1> QED BY <1>1, <1>2, <1>3, <1>4, <1>5, <1>6

\* spawn_kernel's new id is nobody's yet.
LEMMA SpawnInsertSafety ==
    ASSUME SafetyInv, Mortal = {}, NEW c \in Cpu, SpawnInsert(c)
    PROVE  SafetyInv'
<1>0. TypeOK /\ TableGrows /\ PhaseAgrees /\ ClaimsDisjoint /\ QueuesDisjoint /\ Resumable
  BY DEF SafetyInv
<1>a. /\ threads' = threads \cup {nextId} /\ nextId' = nextId + 1 /\ nextId < MaxThreads
      /\ slot' = [slot EXCEPT ![nextId] = Cardinality(threads)]
      /\ ctx' = [ctx EXCEPT ![nextId] = nextId] /\ k' = [k EXCEPT ![nextId] = "entry"]
      /\ pend' = [pend EXCEPT ![stack[c]] = nextId]
      /\ pend[stack[c]] = NoThread
      /\ UNCHANGED <<reapable, state, parked, pending, stack, phase, out, next>>
      /\ UNCHANGED <<queue, current, handoff, probe, from, wake>>
  BY DEF SpawnInsert, percpu
<1>h. /\ nextId \in Nat /\ nextId \in Thread /\ nextId \notin threads /\ threads \subseteq Thread
      /\ nextId # NoThread /\ NumCpus \in Nat /\ NumCpus <= nextId /\ nextId < MaxThreads
      /\ Cardinality(threads) = nextId
      /\ stack[c] \in Thread
  <2>1. nextId \in Nat /\ NumCpus \in Nat /\ NumCpus <= nextId /\ threads = 0..(nextId - 1)
    BY <1>0, CountsAssumption, SMTT(40) DEF TypeOK, TableGrows
  <2>2. nextId \in Thread /\ nextId \notin threads /\ nextId # NoThread
    BY <1>a, <2>1, CountsAssumption, SMTT(40) DEF Thread, NoThread
  <2>3. Cardinality(0..(nextId - 1)) = nextId
    <3>1. \A a, b \in Int : Cardinality(a..b) = IF a > b THEN 0 ELSE b - a + 1
      BY FS_Interval
    <3> QED BY <2>1, <3>1, SMT
  <2> QED BY <1>0, <1>a, <2>1, <2>2, <2>3 DEF TypeOK
<1>b. /\ \A t \in Thread : slot'[t] = IF t = nextId THEN nextId ELSE slot[t]
      /\ \A t \in Thread : ctx'[t] = IF t = nextId THEN nextId ELSE ctx[t]
      /\ \A t \in Thread : k'[t] = IF t = nextId THEN "entry" ELSE k[t]
      /\ \A t \in Thread : pend'[t] = IF t = stack[c] THEN nextId ELSE pend[t]
  BY <1>0, <1>a, <1>h, ZenonT(60) DEF TypeOK
<1>n. \A d \in Cpu : nextId \notin {stack[d], next[d], wake[d], handoff[d].id}
  BY <1>0, <1>h, SMT DEF PhaseAgrees, PhaseOK, Resumable
<1>1. TypeOK'
  <2>1. /\ threads' \subseteq Thread /\ nextId' \in NumCpus..MaxThreads
        /\ slot' \in [Thread -> Nat]
    BY <1>0, <1>a, <1>h, CountsAssumption, SMTT(40) DEF TypeOK
  <2>2. /\ ctx' \in [Thread -> Thread \cup {NoThread}] /\ pend' \in [Thread -> Thread \cup {NoThread}]
    BY <1>0, <1>a, <1>h DEF TypeOK
  <2>3. k' \in [Thread -> Continuations]
    BY <1>0, <1>a, <1>h, ZenonT(60) DEF TypeOK, Continuations
  <2> QED BY <1>0, <1>a, <2>1, <2>2, <2>3, ZenonT(60) DEF TypeOK
<1>2. TableGrows'
  <2>1. threads' = 0..(nextId' - 1)
    BY <1>0, <1>a, <1>h, SMTT(40) DEF TableGrows
  <2>2. \A t \in threads' : slot'[t] = t
    BY <1>0, <1>a, <1>b, <1>h, SMTT(40) DEF TableGrows
  <2> QED BY <1>0, <1>a, <1>b, <2>1, <2>2, SMTT(40) DEF TableGrows
<1>3. PhaseAgrees'
  BY <1>0, <1>a, <1>b, <1>h, SMTT(40) DEF PhaseAgrees, PhaseOK
<1>4. ClaimsDisjoint'
  <2>1. \A s, r \in Thread : pend'[s] # NoThread /\ pend'[r] = pend'[s] => r = s
    BY <1>0, <1>b, <1>h, SMTT(40) DEF ClaimsDisjoint, Apart, SpawnApart
  <2>2. \A s \in Thread : pend'[s] # NoThread => pend'[s] \in threads'
    BY <1>0, <1>a, <1>b, SMTT(40) DEF ClaimsDisjoint, Apart, SpawnApart
  <2>3. \A s \in Thread, d \in Cpu : pend'[s] # NoThread =>
          pend'[s] \notin {stack[d], next[d], wake[d], handoff[d].id}
    BY <1>0, <1>b, <1>n, SMTT(40) DEF ClaimsDisjoint, Apart, SpawnApart
  <2> QED BY <1>0, <1>a, <2>1, <2>2, <2>3, SMTT(40) DEF ClaimsDisjoint, Apart, SpawnApart
<1>5. QueuesDisjoint'
  <2>1. \A d \in Cpu, t \in Thread : contains(queue[d], t) => t # nextId
    BY <1>0, <1>h DEF QueuesDisjoint
  <2>2. \A d, e \in Cpu : \A t \in Thread : contains(queue[d], t) =>
          /\ t \in threads /\ (contains(queue[e], t) => d = e)
          /\ t \notin {stack[e], next[e], wake[e], handoff[e].id}
    BY <1>0 DEF QueuesDisjoint
  <2>3. \A d \in Cpu, t \in Thread : contains(queue[d], t) => \A s \in Thread : pend'[s] # t
    <3>1. \A d \in Cpu, t \in Thread : contains(queue[d], t) => \A s \in Thread : pend[s] # t
      BY <1>0 DEF QueuesDisjoint
    <3>2. \A s \in Thread : pend'[s] = nextId \/ pend'[s] = pend[s]
      BY <1>b
    <3> QED BY <2>1, <3>1, <3>2
  <2>4. \A d \in Cpu : NoRepeat(queue[d])
    BY <1>0 DEF QueuesDisjoint
  <2>5. /\ queue' = queue /\ stack' = stack /\ next' = next /\ wake' = wake /\ handoff' = handoff
        /\ threads \subseteq threads'
    BY <1>a
  <2> QED BY <2>2, <2>3, <2>4, <2>5 DEF QueuesDisjoint
<1>6. Resumable'
  <2>1. \A t \in Thread : Queued(t)' <=> Queued(t)
    BY <1>a DEF Queued
  <2>2. \A t \in threads' : (\A d \in Cpu : stack'[d] # t) => ctx'[t] = t
    <3>1. /\ stack' = stack /\ threads' = threads \cup {nextId}
          /\ threads \subseteq Thread /\ nextId \in Thread
      BY <1>a, <1>h
    <3>2. \A t \in threads : (\A d \in Cpu : stack[d] # t) => ctx[t] = t
      BY <1>0 DEF Resumable
    <3>3. \A t \in Thread : ctx'[t] = IF t = nextId THEN nextId ELSE ctx[t]
      BY <1>b
    <3> QED BY <3>1, <3>2, <3>3
  <2>3. \A t \in Thread : parked'[t] =>
          t \in threads' /\ ~Queued(t)' /\ \A s \in Thread : pend'[s] # t
    <3>1. parked' = parked /\ threads \subseteq threads' /\ nextId \notin threads
      BY <1>a, <1>h
    <3>2. \A t \in Thread : parked[t] => t \in threads /\ ~Queued(t) /\ \A s \in Thread : pend[s] # t
      BY <1>0 DEF Resumable
    <3>3. \A s \in Thread : pend'[s] = nextId \/ pend'[s] = pend[s]
      BY <1>b
    <3> QED BY <2>1, <3>1, <3>2, <3>3
  <2>4. \A d \in Cpu : /\ wake'[d] # NoThread => wake'[d] \in threads' /\ ~parked'[wake'[d]]
                       /\ next'[d] # NoThread => ~parked'[next'[d]]
    BY <1>0, <1>a DEF Resumable
  <2> QED BY <2>2, <2>3, <2>4 DEF Resumable
<1> QED BY <1>1, <1>2, <1>3, <1>4, <1>5, <1>6 DEF SafetyInv

-----------------------------------------------------------------------------
\* A system without exits takes no step of exit_current.
LEMMA NoExit ==
    ASSUME SafetyInv, Mortal = {}, NEW c \in Cpu
    PROVE  ~Exit(c)
BY DEF SafetyInv, TypeOK, TableGrows, Exit

\* The invariant is inductive.
LEMMA NextSafety ==
    ASSUME SafetyInv, Mortal = {}, [Next]_vars
    PROVE  SafetyInv'
<1>1. CASE Next
  <2>1. PICK c \in Cpu : Progress(c) \/ ThreadStep(c) \/ Interrupt(c)
    BY <1>1 DEF Next
  <2>2. CASE ControlStep(c)
    BY <2>2, ControlStepSafety
  <2>3. CASE TakeLocal(c) \/ StealFrom(c) \/ TakeLast(c)
    BY <2>2, <2>3, TakeNextSteps, TakeStepSafety
  <2>4. CASE Commit(c)
    BY <2>4, CommitSafety
  <2>5. CASE Switch(c)
    BY <2>5, SwitchSafety, ZenonT(60)
  <2>6. CASE Land(c)
    BY <2>6, LandSafety
  <2>7. CASE ParkCheck(c) \/ Yield(c) \/ IdleLoop(c) \/ WakeIpi(c) \/ Tick(c) \/ Reap(c)
    BY <2>2, <2>7, ControlSteps
  <2>8. CASE Park(c)
    BY <2>2, <2>8, ParkSteps, ParkStepSafety
  <2>9. CASE SpawnInsert(c)
    BY <2>9, SpawnInsertSafety
  <2>10. CASE SpawnPush(c)
    BY <2>10, SpawnPushSteps, PushStepSafety
  <2>11. CASE UnparkPush(c)
    BY <2>11, UnparkPushSteps, PushStepSafety
  <2>12. ASSUME NEW u \in Parkers, Unpark(c, u) PROVE SafetyInv'
    <3>1. u \in Thread
      BY RolesAssumption
    <3> QED BY <2>2, <2>12, <3>1, UnparkSteps, UnparkWakeSafety
  <2> QED
    BY <2>1, <2>3, <2>4, <2>5, <2>6, <2>7, <2>8, <2>9, <2>10, <2>11, <2>12, NoExit, ZenonT(60)
    DEF Progress, ThreadStep, Interrupt
<1>2. CASE UNCHANGED vars
  <2>1. /\ UNCHANGED <<threads, nextId, reapable, slot, state, parked, pending, ctx>>
        /\ UNCHANGED <<queue, current, handoff>>
        /\ UNCHANGED <<stack, phase, out, next, probe, from, wake, k, pend>>
    BY <1>2 DEF vars, table, percpu, machine
  <2>2. TypeOK' /\ TableGrows'
    BY <2>1 DEF SafetyInv, TypeOK, TableGrows
  <2>3. PhaseAgrees'
    BY <2>1 DEF SafetyInv, PhaseAgrees, PhaseOK
  <2>4. ClaimsDisjoint'
    BY <2>1, ZenonT(60) DEF SafetyInv, ClaimsDisjoint, Apart, SpawnApart
  <2>5. QueuesDisjoint' /\ Resumable'
    BY <2>1 DEF SafetyInv, QueuesDisjoint, Resumable, Queued
  <2> QED BY <2>2, <2>3, <2>4, <2>5 DEF SafetyInv
<1> QED BY <1>1, <1>2

\* The invariant gives the properties the model checker looks at.
LEMMA SafetyImplies ==
    ASSUME SafetyInv
    PROVE  TypeOK /\ OneCpuPerStack /\ QueuedIsDispatchable /\ ScheduleAsserts
<1>0. TypeOK /\ PhaseAgrees /\ ClaimsDisjoint /\ QueuesDisjoint /\ Resumable
  BY DEF SafetyInv
<1>1. OneCpuPerStack
  BY <1>0 DEF PhaseAgrees, PhaseOK, ClaimsDisjoint, Apart, SpawnApart, OneCpuPerStack
<1>2. ASSUME NEW c \in Cpu, NEW d \in Cpu, NEW a \in Band, NEW b \in Band,
             NEW i \in 1..Len(queue[c][a]), NEW j \in 1..Len(queue[d][b]),
             queue[c][a][i] = queue[d][b][j]
      PROVE  c = d /\ a = b /\ i = j
  <2>1. queue[c][a][i] \in Thread
    BY <1>0, SMTT(40) DEF TypeOK
  <2>2. contains(queue[c], queue[c][a][i]) /\ contains(queue[d], queue[c][a][i])
    BY <1>2 DEF contains
  <2>3. c = d
    BY <1>0, <2>1, <2>2 DEF QueuesDisjoint
  <2> QED BY <1>0, <1>2, <2>3, SMTT(40) DEF QueuesDisjoint, NoRepeat
<1>3. ASSUME NEW t \in Thread, Queued(t)
      PROVE  ~parked[t] /\ ctx[t] = t /\ \A c \in Cpu : stack[c] # t /\ next[c] # t
  <2>1. PICK d \in Cpu : contains(queue[d], t)
    BY <1>3 DEF Queued
  <2>2. t \in threads /\ \A c \in Cpu : stack[c] # t /\ next[c] # t
    BY <1>0, <2>1 DEF QueuesDisjoint
  <2> QED BY <1>0, <1>3, <2>2 DEF Resumable
<1>4. QueuedIsDispatchable
  BY <1>2, <1>3 DEF QueuedIsDispatchable
<1>5. ScheduleAsserts
  <2> SUFFICES ASSUME NEW c \in Cpu, phase[c] = "commit"
               PROVE  next[c] \in threads /\ ctx[next[c]] # NoThread /\ current[c] \in threads
    BY DEF ScheduleAsserts
  <2>1. next[c] \in threads /\ next[c] # NoThread /\ current[c] \in threads
    BY <1>0 DEF PhaseAgrees, PhaseOK
  <2>2. ctx[next[c]] = next[c]
    BY <1>0, <2>1, ZenonT(60) DEF ClaimsDisjoint, Apart, SpawnApart, Resumable
  <2> QED BY <2>1, <2>2
<1> QED BY <1>0, <1>1, <1>4, <1>5

\* For any number of CPUs and threads, none of which exits: the state stays well
\* typed.
THEOREM TypeCorrect ==
    ASSUME Mortal = {}
    PROVE  Spec => []TypeOK
<1>1. Init => SafetyInv
  BY InitSafety
<1>2. SafetyInv /\ [Next]_vars => SafetyInv'
  BY NextSafety
<1>3. SafetyInv => TypeOK
  BY SafetyImplies
<1> QED BY <1>1, <1>2, <1>3, PTL DEF Spec

\* For any number of CPUs and threads, none of which exits: no two CPUs ever
\* execute on one stack.
THEOREM StacksNotShared ==
    ASSUME Mortal = {}
    PROVE  Spec => []OneCpuPerStack
<1>1. Init => SafetyInv
  BY InitSafety
<1>2. SafetyInv /\ [Next]_vars => SafetyInv'
  BY NextSafety
<1>3. SafetyInv => OneCpuPerStack
  BY SafetyImplies
<1> QED BY <1>1, <1>2, <1>3, PTL DEF Spec

\* For any number of CPUs and threads, none of which exits: whatever a run queue
\* holds can be dispatched at once, by one CPU only.
THEOREM QueuedCanRun ==
    ASSUME Mortal = {}
    PROVE  Spec => []QueuedIsDispatchable
<1>1. Init => SafetyInv
  BY InitSafety
<1>2. SafetyInv /\ [Next]_vars => SafetyInv'
  BY NextSafety
<1>3. SafetyInv => QueuedIsDispatchable
  BY SafetyImplies
<1> QED BY <1>1, <1>2, <1>3, PTL DEF Spec

\* For any number of CPUs and threads, none of which exits: the assertions of
\* schedule never fail.
THEOREM ScheduleNeverPanics ==
    ASSUME Mortal = {}
    PROVE  Spec => []ScheduleAsserts
<1>1. Init => SafetyInv
  BY InitSafety
<1>2. SafetyInv /\ [Next]_vars => SafetyInv'
  BY NextSafety
<1>3. SafetyInv => ScheduleAsserts
  BY SafetyImplies
<1> QED BY <1>1, <1>2, <1>3, PTL DEF Spec

-----------------------------------------------------------------------------
(***************************************************************************)
(* No thread is stranded, for every number of CPUs and threads, in a       *)
(* system whose threads do not exit: relative to SafetyInv, NoneStranded   *)
(* is preserved by every step.  The argument is a bookkeeping one: a step  *)
(* that takes an unparked thread out of one hand puts it into another.     *)
(***************************************************************************)

\* Nobody is Exited, so the table's unparked threads are the ones to be held.
LEMMA HeldThreads ==
    ASSUME SafetyInv
    PROVE  NoneStranded <=> \A t \in threads : ~parked[t] => Held(t)
BY DEF SafetyInv, TypeOK, TableGrows, NoneStranded

\* Steps that move only control keep every hold.
LEMMA ControlHeld ==
    ASSUME SafetyInv, NoneStranded, NEW c \in Cpu, ControlStep(c)
    PROVE  NoneStranded'
<1>1. /\ threads' = threads /\ parked' = parked /\ queue' = queue /\ stack' = stack
      /\ next' = next /\ wake' = wake /\ handoff' = handoff /\ pend' = pend
  BY DEF ControlStep, percpu
<1>2. \A t : Held(t)' <=> Held(t)
  BY <1>1 DEF Held, Queued
<1>3. \A t \in threads : ~parked[t] => Held(t)
  BY HeldThreads
<1>4. \A t \in threads' : ~parked'[t] => Held(t)'
  BY <1>1, <1>2, <1>3
<1> QED BY <1>4 DEF NoneStranded

\* A thread taken from a queue is in the taker's hands.
LEMMA TakeHeld ==
    ASSUME SafetyInv, NoneStranded, NEW c \in Cpu, NEW o \in Cpu, NEW n \in Thread, TakeStep(c, o, n)
    PROVE  NoneStranded'
<1>0. TypeOK /\ PhaseAgrees
  BY DEF SafetyInv
<1>a. /\ threads' = threads /\ parked' = parked /\ stack' = stack /\ wake' = wake
      /\ handoff' = handoff /\ pend' = pend
      /\ next' = [next EXCEPT ![c] = n] /\ phase[c] \in {"take", "steal"}
      /\ \A d \in Cpu, t \in Thread :
            contains(queue'[d], t) <=> contains(queue[d], t) /\ ~(d = o /\ t = n)
  BY DEF TakeStep, table
<1>n. next[c] = NoThread /\ threads \subseteq Thread /\ NoThread \notin Thread
  BY <1>0, <1>a, ConstantFacts DEF TypeOK, PhaseAgrees, PhaseOK
<1>b. \A d \in Cpu : next'[d] = IF d = c THEN n ELSE next[d]
  BY <1>0, <1>a DEF TypeOK
<1>1. ASSUME NEW t \in threads, Held(t) PROVE Held(t)'
  <2>1. CASE t = n
    BY <1>b, <2>1 DEF Held
  <2>2. CASE t # n
    <3>1. Queued(t) => Queued(t)'
      BY <1>a, <1>n, <2>2 DEF Queued
    <3>2. \A d \in Cpu : next[d] = t => next'[d] = t
      BY <1>b, <1>n
    <3> QED BY <1>1, <1>a, <3>1, <3>2 DEF Held
  <2> QED BY <2>1, <2>2
<1>2. \A t \in threads' : ~parked'[t] => Held(t)'
  BY <1>a, <1>1, HeldThreads
<1> QED BY <1>2 DEF NoneStranded

\* A thread that parks needs no holder; the others keep theirs.
LEMMA ParkHeld ==
    ASSUME SafetyInv, NoneStranded, NEW c \in Cpu, ParkStep(c)
    PROVE  NoneStranded'
<1>a. /\ threads' = threads /\ queue' = queue /\ stack' = stack
      /\ next' = next /\ wake' = wake /\ handoff' = handoff /\ pend' = pend
      /\ parked' = [parked EXCEPT ![stack[c]] = TRUE]
  BY DEF ParkStep, percpu
<1>1. \A t : Held(t)' <=> Held(t)
  BY <1>a DEF Held, Queued
<1>2. \A t \in threads : ~parked'[t] => ~parked[t]
  BY <1>a DEF SafetyInv, TypeOK
<1>3. \A t \in threads' : ~parked'[t] => Held(t)'
  BY <1>a, <1>1, <1>2, HeldThreads
<1> QED BY <1>3 DEF NoneStranded

\* The section of schedule under SCHED names the outgoing thread in an empty slot.
LEMMA CommitHeld ==
    ASSUME SafetyInv, NoneStranded, NEW c \in Cpu, Commit(c)
    PROVE  NoneStranded'
<1>0. TypeOK /\ TableGrows /\ PhaseAgrees /\ ClaimsDisjoint /\ Resumable
  BY DEF SafetyInv
<1>h. /\ phase[c] = "commit" /\ next[c] \in threads /\ ctx[next[c]] = next[c]
      /\ handoff[c].id = NoThread
  <2>1. phase[c] = "commit"
    BY DEF Commit
  <2>2. next[c] \in threads /\ handoff[c].id = NoThread
    BY <1>0, <2>1 DEF PhaseAgrees, PhaseOK
  <2> QED BY <1>0, <2>1, <2>2 DEF ClaimsDisjoint, Apart, Resumable
<1>a. /\ next' = [next EXCEPT ![c] = ctx[next[c]]] /\ handoff' = [handoff EXCEPT ![c] = Outgoing(c)]
      /\ UNCHANGED <<threads, parked, queue, stack, wake, pend>>
  BY DEF Commit
<1>b. next' = next /\ \A d \in Cpu : d # c => handoff'[d] = handoff[d]
  BY <1>0, <1>a, <1>h DEF TypeOK
<1>n. NoThread \notin Thread /\ threads \subseteq Thread
  BY <1>0, ConstantFacts DEF TypeOK
<1>1. ASSUME NEW t \in threads, Held(t) PROVE Held(t)'
  <2>1. \A d \in Cpu : handoff[d].id = t => handoff'[d].id = t
    BY <1>b, <1>h, <1>n
  <2>2. Queued(t)' <=> Queued(t)
    BY <1>a DEF Queued
  <2> QED BY <1>1, <1>a, <1>b, <2>1, <2>2 DEF Held
<1>2. \A t \in threads' : ~parked'[t] => Held(t)'
  BY <1>a, <1>1, HeldThreads
<1> QED BY <1>2 DEF NoneStranded

\* Across the switch the handoff names the thread whose stack was left.
LEMMA SwitchHeld ==
    ASSUME SafetyInv, NoneStranded, NEW c \in Cpu, Switch(c)
    PROVE  NoneStranded'
<1>0. TypeOK /\ PhaseAgrees
  BY DEF SafetyInv
<1>a. /\ phase[c] = "switch"
      /\ stack' = [stack EXCEPT ![c] = next[c]] /\ next' = [next EXCEPT ![c] = NoThread]
      /\ UNCHANGED <<threads, parked, queue, handoff, wake, pend>>
  BY DEF Switch, percpu
<1>h. handoff[c].id = stack[c]
  BY <1>0, <1>a DEF PhaseAgrees, PhaseOK
<1>b. \A d \in Cpu : /\ stack'[d] = IF d = c THEN next[c] ELSE stack[d]
                     /\ next'[d] = IF d = c THEN NoThread ELSE next[d]
  BY <1>0, <1>a DEF TypeOK
<1>1. ASSUME NEW t \in threads, Held(t) PROVE Held(t)'
  <2>1. Queued(t)' <=> Queued(t)
    BY <1>a DEF Queued
  <2>2. \A d \in Cpu : stack[d] = t => stack'[d] = t \/ handoff'[d].id = t
    BY <1>a, <1>b, <1>h
  <2>3. \A d \in Cpu : next[d] = t => next'[d] = t \/ stack'[d] = t
    BY <1>b
  <2> QED BY <1>1, <1>a, <2>1, <2>2, <2>3 DEF Held
<1>2. \A t \in threads' : ~parked'[t] => Held(t)'
  BY <1>a, <1>1, HeldThreads
<1> QED BY <1>2 DEF NoneStranded

\* publish_handoff queues what the slot named, unless that thread is parked.
LEMMA LandHeld ==
    ASSUME SafetyInv, NoneStranded, NEW c \in Cpu, Land(c)
    PROVE  NoneStranded'
<1>0. TypeOK /\ PhaseAgrees /\ QueuesDisjoint
  BY DEF SafetyInv
<1> DEFINE h == handoff[c].id
<1>a. /\ phase[c] = "land" /\ handoff' = [handoff EXCEPT ![c] = NoHandoff]
      /\ UNCHANGED <<threads, parked, stack, next, wake, pend>>
      /\ queue' = IF h # NoThread /\ ~handoff[c].tag
                  THEN [queue EXCEPT ![c] = push(queue[c], h, Prio[h])] ELSE queue
  BY DEF Land, table
<1>h. h # NoThread /\ h \in Thread /\ (handoff[c].tag <=> parked[h])
  <2>1. h # NoThread
    BY <1>0, <1>a DEF PhaseAgrees, PhaseOK
  <2> QED BY <1>0, <2>1 DEF PhaseAgrees, PhaseOK, TypeOK
<1>b. \A d \in Cpu : d # c => handoff'[d] = handoff[d]
  BY <1>0, <1>a DEF TypeOK
<1> HIDE DEF h
<1>q. \A d \in Cpu, t \in Thread :
        contains(queue'[d], t) <=> contains(queue[d], t) \/ (d = c /\ t = h /\ ~parked[h])
  <2>1. CASE parked[h]
    BY <1>a, <1>h, <2>1
  <2>2. CASE ~parked[h]
    BY <1>0, <1>a, <1>h, <2>2, PushAt, ZenonT(60)
  <2> QED BY <2>1, <2>2
<1>1. ASSUME NEW t \in threads, ~parked[t], Held(t) PROVE Held(t)'
  <2>0. t \in Thread
    BY <1>0 DEF TypeOK
  <2>1. CASE t = h
    <3>1. Queued(t)'
      BY <1>1, <1>q, <2>0, <2>1 DEF Queued
    <3> QED BY <3>1 DEF Held
  <2>2. CASE t # h
    <3>1. Queued(t) => Queued(t)'
      BY <1>q, <2>0 DEF Queued
    <3>2. \A d \in Cpu : handoff[d].id = t => handoff'[d].id = t
      BY <1>b, <2>2 DEF h
    <3> QED BY <1>1, <1>a, <3>1, <3>2 DEF Held
  <2> QED BY <2>1, <2>2
<1>2. \A t \in threads' : ~parked'[t] => Held(t)'
  BY <1>a, <1>1, HeldThreads
<1> QED BY <1>2 DEF NoneStranded

\* A new thread is its spawner's until it is pushed.
LEMMA SpawnInsertHeld ==
    ASSUME SafetyInv, NoneStranded, NEW c \in Cpu, SpawnInsert(c)
    PROVE  NoneStranded'
<1>0. TypeOK
  BY DEF SafetyInv
<1>a. /\ threads' = threads \cup {nextId} /\ pend' = [pend EXCEPT ![stack[c]] = nextId]
      /\ pend[stack[c]] = NoThread
      /\ UNCHANGED <<parked, queue, stack, next, wake, handoff>>
  BY DEF SpawnInsert, percpu
<1>h. stack[c] \in Thread /\ threads \subseteq Thread /\ NoThread \notin Thread
  BY <1>0, ConstantFacts DEF TypeOK
<1>b. \A s \in Thread : pend'[s] = IF s = stack[c] THEN nextId ELSE pend[s]
  BY <1>0, <1>a DEF TypeOK
<1>1. ASSUME NEW t \in threads, Held(t) PROVE Held(t)'
  <2>1. Queued(t)' <=> Queued(t)
    BY <1>a DEF Queued
  <2>2. \A s \in Thread : pend[s] = t => pend'[s] = t
    BY <1>a, <1>b, <1>h
  <2> QED BY <1>1, <1>a, <2>1, <2>2 DEF Held
<1>2. ASSUME NEW t, t = nextId PROVE Held(t)'
  BY <1>2, <1>b, <1>h DEF Held
<1>3. \A t \in threads : ~parked'[t] => Held(t)'
  BY <1>a, <1>1, HeldThreads
<1>4. \A t \in threads' : ~parked'[t] => Held(t)'
  BY <1>a, <1>2, <1>3
<1> QED BY <1>4 DEF NoneStranded

\* Both pushes: a spawner or a waker lets go of u when CPU o's queue has it.
LEMMA PushHeld ==
    ASSUME SafetyInv, NoneStranded, NEW o \in Cpu, NEW u \in Thread,
           queue' = [queue EXCEPT ![o] = push(queue[o], u, Prio[u])],
           UNCHANGED <<threads, parked, stack, next, handoff>>,
           \A s \in Thread : pend[s] # u => pend'[s] = pend[s],
           \A d \in Cpu : wake[d] # u => wake'[d] = wake[d]
    PROVE  NoneStranded'
<1>0. TypeOK /\ QueuesDisjoint
  BY DEF SafetyInv
<1>q. \A d \in Cpu, t \in Thread :
        contains(queue'[d], t) <=> contains(queue[d], t) \/ (d = o /\ t = u)
  BY <1>0, PushAt
<1>1. ASSUME NEW t \in threads, Held(t) PROVE Held(t)'
  <2>0. t \in Thread
    BY <1>0 DEF TypeOK
  <2>1. CASE t = u
    <3>1. Queued(t)'
      BY <1>q, <2>0, <2>1 DEF Queued
    <3> QED BY <3>1 DEF Held
  <2>2. CASE t # u
    <3>1. Queued(t) => Queued(t)'
      BY <1>q, <2>0 DEF Queued
    <3>2. /\ \A s \in Thread : pend[s] = t => pend'[s] = t
          /\ \A d \in Cpu : wake[d] = t => wake'[d] = t
      BY <2>2
    <3> QED BY <1>1, <3>1, <3>2 DEF Held
  <2> QED BY <2>1, <2>2
<1>2. \A t \in threads' : ~parked'[t] => Held(t)'
  BY <1>1, HeldThreads
<1> QED BY <1>2 DEF NoneStranded

\* A woken thread is on its CPU, in the handoff its waker claimed, or the waker's.
LEMMA UnparkHeld ==
    ASSUME SafetyInv, NoneStranded, NEW c \in Cpu, NEW u \in Thread, UnparkWake(c, u)
    PROVE  NoneStranded'
<1>0. TypeOK /\ PhaseAgrees
  BY DEF SafetyInv
<1>a. /\ wake[c] = NoThread /\ parked' = [parked EXCEPT ![u] = FALSE] /\ parked[u] /\ u \in threads
      /\ UNCHANGED <<threads, queue, current, stack, next, pend>>
  BY DEF UnparkWake, Unpark, Interruptible, Executing
<1>b. \/ is_current_anywhere(u) /\ UNCHANGED <<handoff, wake>>
      \/ /\ \E o \in ParkedHandoffs(u) : handoff' = [handoff EXCEPT ![o] = [id |-> u, tag |-> FALSE]]
         /\ UNCHANGED wake
      \/ wake' = [wake EXCEPT ![c] = u] /\ UNCHANGED handoff
  BY <1>a DEF UnparkWake, Unpark
<1>n. NoThread \notin Thread /\ threads \subseteq Thread
  BY <1>0, ConstantFacts DEF TypeOK
<1>h. \A d \in Cpu : handoff'[d].id = handoff[d].id
  <2>1. CASE UNCHANGED handoff
    BY <2>1
  <2>2. ASSUME NEW o \in ParkedHandoffs(u), handoff' = [handoff EXCEPT ![o] = [id |-> u, tag |-> FALSE]]
        PROVE  \A d \in Cpu : handoff'[d].id = handoff[d].id
    BY <1>0, <2>2, SMT DEF ParkedHandoffs, TypeOK
  <2> QED BY <1>b, <2>1, <2>2
<1>w. \A d \in Cpu : wake[d] # NoThread => wake'[d] = wake[d]
  BY <1>0, <1>a, <1>b DEF TypeOK
<1>1. ASSUME NEW t \in threads, Held(t) PROVE Held(t)'
  <2>1. Queued(t)' <=> Queued(t)
    BY <1>a DEF Queued
  <2>2. \A d \in Cpu : wake[d] = t => wake'[d] = t
    BY <1>n, <1>w
  <2> QED BY <1>1, <1>a, <1>h, <2>1, <2>2 DEF Held
<1>2. Held(u)'
  <2>1. CASE is_current_anywhere(u)
    <3>1. PICK d \in Cpu : current[d] = u
      BY <2>1 DEF is_current_anywhere
    <3>2. stack[d] = u \/ next[d] = u
      BY <1>0, <3>1 DEF PhaseAgrees, PhaseOK
    <3> QED BY <1>a, <3>2 DEF Held
  <2>2. CASE \E o \in ParkedHandoffs(u) : handoff' = [handoff EXCEPT ![o] = [id |-> u, tag |-> FALSE]]
    <3>1. \E o \in Cpu : handoff[o].id = u
      BY <2>2, SMT DEF ParkedHandoffs
    <3> QED BY <1>h, <3>1 DEF Held
  <2>3. CASE wake' = [wake EXCEPT ![c] = u]
    <3>1. wake'[c] = u
      BY <1>0, <2>3 DEF TypeOK
    <3> QED BY <3>1 DEF Held
  <2> QED BY <1>b, <2>1, <2>2, <2>3
<1>3. \A t \in threads : t # u => parked'[t] = parked[t]
  BY <1>0, <1>a, <1>n DEF TypeOK
<1>4. \A t \in threads' : ~parked'[t] => Held(t)'
  BY <1>a, <1>1, <1>2, <1>3, HeldThreads
<1> QED BY <1>4 DEF NoneStranded

\* Relative to SafetyInv, every step preserves NoneStranded.
LEMMA NextHeld ==
    ASSUME SafetyInv, Mortal = {}, NoneStranded, [Next]_vars
    PROVE  NoneStranded'
<1>0. TypeOK
  BY DEF SafetyInv
<1>1. CASE Next
  <2>1. PICK c \in Cpu : Progress(c) \/ ThreadStep(c) \/ Interrupt(c)
    BY <1>1 DEF Next
  <2>2. CASE ControlStep(c)
    BY <2>2, ControlHeld
  <2>3. CASE TakeLocal(c) \/ StealFrom(c) \/ TakeLast(c)
    BY <2>2, <2>3, TakeNextSteps, TakeHeld
  <2>4. CASE Commit(c) \/ Switch(c) \/ Land(c)
    BY <2>4, CommitHeld, SwitchHeld, LandHeld
  <2>5. CASE ParkCheck(c) \/ Yield(c) \/ IdleLoop(c) \/ WakeIpi(c) \/ Tick(c) \/ Reap(c)
    BY <2>2, <2>5, ControlSteps
  <2>6. CASE Park(c)
    BY <2>2, <2>6, ParkSteps, ParkHeld
  <2>7. CASE SpawnInsert(c)
    BY <2>7, SpawnInsertHeld
  <2>8. CASE SpawnPush(c)
    <3>1. /\ stack[c] \in Thread /\ pend[stack[c]] \in Thread
          /\ queue' = [queue EXCEPT ![c] = push(queue[c], pend[stack[c]], Prio[pend[stack[c]]])]
          /\ pend' = [pend EXCEPT ![stack[c]] = NoThread] /\ wake' = wake
          /\ UNCHANGED <<threads, parked, stack, next, handoff>>
      BY <1>0, <2>8, ConstantFacts DEF SpawnPush, TypeOK, table
    <3>2. \A s \in Thread : pend[s] # pend[stack[c]] => pend'[s] = pend[s]
      BY <1>0, <3>1 DEF TypeOK
    <3> QED BY <3>1, <3>2, PushHeld
  <2>9. CASE UnparkPush(c)
    <3>1. /\ wake[c] \in Thread /\ HomeQueue(c, wake[c]) \in Cpu
          /\ wake' = [wake EXCEPT ![c] = NoThread] /\ pend' = pend
          /\ UNCHANGED <<threads, parked, stack, next, handoff>>
      BY <1>0, <2>9, ConstantFacts DEF UnparkPush, TypeOK, HomeQueue, Idle, table
    <3>2. PICK o \in Cpu : queue' = [queue EXCEPT ![o] = push(queue[o], wake[c], Prio[wake[c]])]
      BY <2>9, <3>1 DEF UnparkPush
    <3>3. \A d \in Cpu : wake[d] # wake[c] => wake'[d] = wake[d]
      BY <1>0, <3>1 DEF TypeOK
    <3> QED BY <3>1, <3>2, <3>3, PushHeld
  <2>10. ASSUME NEW u \in Parkers, Unpark(c, u) PROVE NoneStranded'
    <3>1. u \in Thread
      BY RolesAssumption
    <3> QED BY <2>2, <2>10, <3>1, UnparkSteps, UnparkHeld
  <2> QED
    BY <2>1, <2>3, <2>4, <2>5, <2>6, <2>7, <2>8, <2>9, <2>10, NoExit, ZenonT(60)
    DEF Progress, ThreadStep, Interrupt
<1>2. CASE UNCHANGED vars
  BY <1>2 DEF vars, table, percpu, machine, NoneStranded, Held, Queued
<1> QED BY <1>1, <1>2

\* For any number of CPUs and threads, none of which exits: schedule, the
\* handoff, park, unpark, steal and spawn_kernel never leave a runnable thread
\* with nobody to queue it.
THEOREM NobodyStranded ==
    ASSUME Mortal = {}
    PROVE  Spec => []NoneStranded
<1>1. Init => SafetyInv
  BY InitSafety
<1>2. Init => NoneStranded
  BY SMT DEF Init, NoneStranded, Held, Idle
<1>3. SafetyInv /\ [Next]_vars => SafetyInv'
  BY NextSafety
<1>4. SafetyInv /\ NoneStranded /\ [Next]_vars => NoneStranded'
  BY NextHeld
<1> QED BY <1>1, <1>2, <1>3, <1>4, PTL DEF Spec

-----------------------------------------------------------------------------
(***************************************************************************)
(* An idle thread never leaves its CPU, for every number of CPUs and       *)
(* threads, in a system whose threads do not exit.  What a thief relies on *)
(* is that runnable_len counts no idle band, so the band it steals from    *)
(* holds no idle thread: this needs every queued thread to sit in the band *)
(* of its priority.                                                        *)
(***************************************************************************)

\* Every entry of a queue is in the band of its thread's priority.
Banded(q) == \A b \in Band : \A i \in 1..Len(q[b]) : Prio[q[b][i]] = b

\* No CPU but its own has an idle thread in any of its hands.
HomeOK(c) ==
    /\ Banded(queue[c])
    /\ \A t \in Idle : t # c =>
        stack[c] # t /\ next[c] # t /\ handoff[c].id # t /\ ~contains(queue[c], t)

\* The inductive invariant behind IdleStaysHome, relative to SafetyInv.
HomeInv ==
    /\ \A c \in Cpu : HomeOK(c)
    /\ \A s \in Thread : pend[s] \notin Idle

\* RunQueue::push puts a thread into its band.
LEMMA PushBanded ==
    ASSUME NEW q \in [Band -> Seq(Thread)], NEW x \in Thread, Banded(q)
    PROVE  Banded(push(q, x, Prio[x]))
<1>1. CASE contains(q, x)
  BY <1>1 DEF push
<1>2. CASE ~contains(q, x)
  <2> DEFINE r == [q EXCEPT ![Prio[x]] = Append(q[Prio[x]], x)]
  <2>0. push(q, x, Prio[x]) = r /\ Prio[x] \in Band
    BY <1>2, ConstantFacts DEF push
  <2>1. ASSUME NEW b \in Band, NEW i \in 1..Len(r[b]) PROVE Prio[r[b][i]] = b
    <3>1. CASE b # Prio[x]
      BY <3>1, <2>0 DEF Banded
    <3>2. CASE b = Prio[x]
      <4>1. r[b] = Append(q[b], x) /\ q[b] \in Seq(Thread)
        BY <3>2, <2>0
      <4>2. Len(r[b]) = Len(q[b]) + 1 /\ r[b][Len(q[b]) + 1] = x
            /\ \A j \in 1..Len(q[b]) : r[b][j] = q[b][j]
        BY <4>1, SMTT(40)
      <4>3. i \in 1..Len(q[b]) \/ i = Len(q[b]) + 1
        BY <4>1, <4>2, SMT
      <4> QED BY <3>2, <4>2, <4>3, SMTT(40) DEF Banded
    <3> QED BY <3>1, <3>2
  <2> QED BY <2>0, <2>1 DEF Banded
<1> QED BY <1>1, <1>2

\* What pop and steal leave behind stays in its band, and with work in the
\* queue neither takes an idle thread.
LEMMA RemoveBanded ==
    ASSUME NEW q \in [Band -> Seq(Thread)], Banded(q), ~is_empty(q)
    PROVE  /\ Banded(pop(q)) /\ Banded(steal(q))
           /\ runnable_len(q) > 0 => Stolen(q) \notin Idle
<1> DEFINE p == TopBand(q)
           w == q[p]
<1>1. p \in Band /\ w # <<>> /\ w \in Seq(Thread)
  BY TopBandFacts
<1>2. Len(w) \in Nat /\ Len(w) >= 1
  BY <1>1, SMT
<1>3. /\ pop(q) = [q EXCEPT ![p] = Tail(w)] /\ steal(q) = [q EXCEPT ![p] = SubSeq(w, 1, Len(w) - 1)]
      /\ Stolen(q) = w[Len(w)]
      /\ runnable_len(q) > 0 => p # PIdle
  BY TopBandFacts DEF pop, steal, Stolen
<1>4. \A i \in 1..Len(w) : Prio[w[i]] = p /\ w[i] \in Thread
  BY <1>1, SMT DEF Banded
<1> HIDE DEF p, w
<1>5. \A i \in 1..Len(Tail(w)) : Prio[Tail(w)[i]] = p
  <2>1. Len(Tail(w)) = Len(w) - 1 /\ \A i \in 1..(Len(w) - 1) : Tail(w)[i] = w[i + 1]
    BY <1>1, <1>2, SMTT(40)
  <2>2. \A i \in 1..(Len(w) - 1) : i + 1 \in 1..Len(w)
    BY <1>2, SMT
  <2>3. \A i \in 1..(Len(w) - 1) : Prio[Tail(w)[i]] = p
    BY <1>4, <2>1, <2>2, ZenonT(60)
  <2> QED BY <2>1, <2>3
<1> DEFINE z == SubSeq(w, 1, Len(w) - 1)
<1>6. \A i \in 1..Len(z) : Prio[z[i]] = p
  <2>0. ASSUME NEW s \in Seq(Thread), NEW n \in Nat, n + 1 = Len(s)
        PROVE  Len(SubSeq(s, 1, n)) = n /\ \A i \in 1..n : SubSeq(s, 1, n)[i] = s[i]
    BY <2>0, SMT
  <2> DEFINE m == Len(w) - 1
  <2>a. m \in Nat /\ m + 1 = Len(w)
    BY <1>2, SMT
  <2> HIDE DEF m
  <2>b. Len(SubSeq(w, 1, m)) = m /\ \A i \in 1..m : SubSeq(w, 1, m)[i] = w[i]
    BY <1>1, <2>0, <2>a
  <2>1. Len(z) = Len(w) - 1 /\ \A i \in 1..(Len(w) - 1) : z[i] = w[i]
    BY <2>b DEF m
  <2> HIDE DEF z
  <2>2. \A i \in 1..(Len(w) - 1) : i \in 1..Len(w)
    BY <1>2, SMT
  <2> QED BY <1>4, <2>1, <2>2
<1>7. Banded(pop(q)) /\ Banded(steal(q))
  BY <1>1, <1>3, <1>5, <1>6, ZenonT(60) DEF Banded
<1>8. runnable_len(q) > 0 => Stolen(q) \notin Idle
  BY <1>2, <1>3, <1>4, PriorityAssumption, SMT
<1> QED BY <1>7, <1>8

-----------------------------------------------------------------------------
\* A CPU takes a thread from its own queue, or one that is not idle from another.
LEMMA TakeHome ==
    ASSUME SafetyInv, HomeInv, NEW c \in Cpu, NEW o \in Cpu, NEW n \in Thread, NEW q,
           next' = [next EXCEPT ![c] = n], queue' = [queue EXCEPT ![o] = q],
           contains(queue[o], n), o = c \/ n \notin Idle,
           Banded(q), \A x \in Thread : contains(q, x) => contains(queue[o], x),
           UNCHANGED <<stack, handoff, pend>>
    PROVE  HomeInv'
<1>0. TypeOK /\ Idle \subseteq Thread
  BY ConstantFacts DEF SafetyInv, Idle
<1>1. \A d \in Cpu : /\ next'[d] = IF d = c THEN n ELSE next[d]
                     /\ queue'[d] = IF d = o THEN q ELSE queue[d]
  BY <1>0 DEF TypeOK
<1>2. ASSUME NEW d \in Cpu PROVE HomeOK(d)'
  <2>1. Banded(queue'[d])
    BY <1>1 DEF HomeInv, HomeOK
  <2>2. \A t \in Idle : t # d => next'[d] # t
    BY <1>1, SMTT(40) DEF HomeInv, HomeOK
  <2>3. \A t \in Idle : t # d => ~contains(queue'[d], t)
    BY <1>0, <1>1, SMT DEF HomeInv, HomeOK
  <2>4. \A t \in Idle : t # d => stack'[d] # t /\ handoff'[d].id # t
    BY DEF HomeInv, HomeOK
  <2>5. Banded(queue[d])'
    BY <2>1 DEF Banded
  <2> QED BY <2>2, <2>3, <2>4, <2>5 DEF HomeOK
<1> QED BY <1>2 DEF HomeInv

\* A push to CPU o's queue of a thread that is not idle, or is o's own.
LEMMA PushHome ==
    ASSUME SafetyInv, HomeInv, NEW o \in Cpu, NEW u \in Thread, u = o \/ u \notin Idle,
           queue' = [queue EXCEPT ![o] = push(queue[o], u, Prio[u])],
           UNCHANGED <<stack, next>>,
           \A d \in Cpu : handoff'[d].id \in {handoff[d].id, NoThread},
           \A s \in Thread : pend'[s] \in {pend[s], NoThread}
    PROVE  HomeInv'
<1>0. TypeOK /\ QueuesDisjoint /\ Idle \subseteq Thread /\ NoThread \notin Thread
  BY ConstantFacts DEF SafetyInv, Idle
<1>q. \A d \in Cpu, t \in Thread :
        contains(queue'[d], t) <=> contains(queue[d], t) \/ (d = o /\ t = u)
  BY <1>0, PushAt
<1>b. /\ queue[o] \in [Band -> Seq(Thread)] /\ Banded(queue[o])
      /\ \A d \in Cpu : queue'[d] = IF d = o THEN push(queue[o], u, Prio[u]) ELSE queue[d]
  BY <1>0, ZenonT(60) DEF TypeOK, HomeInv, HomeOK
<1>1. ASSUME NEW d \in Cpu PROVE HomeOK(d)'
  <2>1. Banded(queue'[d])
    BY <1>b, PushBanded, SMT DEF HomeInv, HomeOK
  <2>2. \A t \in Idle : t # d => ~contains(queue'[d], t)
    BY <1>0, <1>q DEF HomeInv, HomeOK
  <2>3. \A t \in Idle : t # d => stack'[d] # t /\ next'[d] # t /\ handoff'[d].id # t
    BY <1>0 DEF HomeInv, HomeOK
  <2>4. Banded(queue[d])'
    BY <2>1 DEF Banded
  <2> QED BY <2>2, <2>3, <2>4, ZenonT(60) DEF HomeOK
<1>2. \A s \in Thread : pend'[s] \notin Idle
  BY <1>0 DEF HomeInv
<1> QED BY <1>1, <1>2 DEF HomeInv

\* Steps that touch no queue: each of a CPU's hands keeps its thread, gets one
\* from another hand of the same CPU, or gets none.
LEMMA HandsHome ==
    ASSUME HomeInv, queue' = queue,
           \A d \in Cpu :
               /\ stack'[d] \in {stack[d], next[d]}
               /\ next'[d] \in {next[d], NoThread}
               /\ handoff'[d].id \in {handoff[d].id, stack[d], NoThread},
           \A s \in Thread : pend'[s] \notin Idle
    PROVE  HomeInv'
<1>0. \A t \in Idle : t # NoThread
  BY ConstantFacts DEF Idle
<1>1. ASSUME NEW d \in Cpu PROVE HomeOK(d)'
  <2>1. Banded(queue[d])'
    <3>1. Banded(queue[d])
      BY DEF HomeInv, HomeOK
    <3> QED BY <3>1, SMT DEF Banded
  <2>2. \A t \in Idle : t # d => stack'[d] # t /\ next'[d] # t /\ handoff'[d].id # t
    BY <1>0, ZenonT(60) DEF HomeInv, HomeOK
  <2>3. \A t \in Idle : t # d => ~contains(queue'[d], t)
    BY DEF HomeInv, HomeOK
  <2> QED BY <2>1, <2>2, <2>3, ZenonT(60) DEF HomeOK
<1> QED BY <1>1 DEF HomeInv

\* take_next: a steal looks only at queues with work, and takes none but work.
LEMMA TakeNextHome ==
    ASSUME SafetyInv, HomeInv, NEW c \in Cpu, TakeLocal(c) \/ StealFrom(c) \/ TakeLast(c)
    PROVE  HomeInv'
<1>0. /\ \A d \in Cpu : queue[d] \in [Band -> Seq(Thread)] /\ NoRepeat(queue[d]) /\ Banded(queue[d])
      /\ \A d \in Cpu : runnable_len(queue[d]) > 0 => ~is_empty(queue[d])
      /\ probe[c] \subseteq Cpu
  <2>1. /\ \A d \in Cpu : queue[d] \in [Band -> Seq(Thread)] /\ NoRepeat(queue[d])
        /\ \A d \in Cpu : Banded(queue[d])
        /\ probe[c] \subseteq Cpu
    BY DEF SafetyInv, TypeOK, QueuesDisjoint, HomeInv, HomeOK
  <2> QED BY <2>1, TopBandFacts
<1>a. stack' = stack /\ handoff' = handoff /\ pend' = pend
  BY DEF TakeLocal, StealFrom, TakeLast
<1>1. CASE /\ ~is_empty(queue[c])
           /\ next' = [next EXCEPT ![c] = Popped(queue[c])]
           /\ queue' = [queue EXCEPT ![c] = pop(queue[c])]
  <2>1. /\ Popped(queue[c]) \in Thread /\ contains(queue[c], Popped(queue[c]))
        /\ \A x : contains(pop(queue[c]), x) => contains(queue[c], x)
    BY <1>0, <1>1, PopFacts
  <2>2. Banded(pop(queue[c]))
    BY <1>0, <1>1, RemoveBanded
  <2> QED BY <1>a, <1>1, <2>1, <2>2, TakeHome
<1>2. ASSUME NEW o \in Cpu, runnable_len(queue[o]) > 0,
             next' = [next EXCEPT ![c] = Stolen(queue[o])],
             queue' = [queue EXCEPT ![o] = steal(queue[o])]
      PROVE  HomeInv'
  <2>1. /\ Stolen(queue[o]) \in Thread /\ contains(queue[o], Stolen(queue[o]))
        /\ \A x : contains(steal(queue[o]), x) => contains(queue[o], x)
    BY <1>0, <1>2, StealFacts
  <2>2. Banded(steal(queue[o])) /\ Stolen(queue[o]) \notin Idle
    BY <1>0, <1>2, RemoveBanded
  <2> QED BY <1>a, <1>2, <2>1, <2>2, TakeHome
<1>3. CASE next' = next /\ queue' = queue
  BY <1>a, <1>3, HandsHome DEF HomeInv
<1>4. CASE TakeLocal(c)
  BY <1>0, <1>1, <1>3, <1>4 DEF TakeLocal
<1>5. CASE StealFrom(c)
  BY <1>0, <1>2, <1>3, <1>5 DEF StealFrom
<1>6. CASE TakeLast(c)
  BY <1>1, <1>3, <1>6 DEF TakeLast
<1> QED BY <1>4, <1>5, <1>6

\* The handoff word keeps its thread when a waker claims it.
LEMMA UnparkHome ==
    ASSUME SafetyInv, HomeInv, NEW c \in Cpu, NEW u \in Thread, Unpark(c, u)
    PROVE  HomeInv'
<1>0. TypeOK
  BY DEF SafetyInv
<1>a. queue' = queue /\ stack' = stack /\ next' = next /\ pend' = pend
  BY DEF Unpark
<1>b. \/ handoff' = handoff
      \/ \E o \in ParkedHandoffs(u) : handoff' = [handoff EXCEPT ![o] = [id |-> u, tag |-> FALSE]]
  BY DEF Unpark
<1>1. \A d \in Cpu : handoff'[d].id = handoff[d].id
  <2>1. ASSUME NEW o \in ParkedHandoffs(u), handoff' = [handoff EXCEPT ![o] = [id |-> u, tag |-> FALSE]]
        PROVE  \A d \in Cpu : handoff'[d].id = handoff[d].id
    BY <1>0, <2>1, SMTT(40) DEF ParkedHandoffs, TypeOK
  <2> QED BY <1>b, <2>1
<1> QED BY <1>a, <1>1, HandsHome DEF HomeInv

\* schedule's own steps move a thread between the hands of one CPU, or to its queue.
LEMMA ScheduleHome ==
    ASSUME SafetyInv, HomeInv, NEW c \in Cpu, Commit(c) \/ Switch(c) \/ Land(c)
    PROVE  HomeInv'
<1>0. TypeOK /\ TableGrows /\ PhaseAgrees /\ ClaimsDisjoint /\ QueuesDisjoint /\ Resumable
  BY DEF SafetyInv
<1>1. CASE Commit(c)
  <2>1. phase[c] = "commit" /\ queue' = queue /\ stack' = stack /\ pend' = pend
        /\ next' = [next EXCEPT ![c] = ctx[next[c]]] /\ handoff' = [handoff EXCEPT ![c] = Outgoing(c)]
    BY <1>1 DEF Commit
  <2>2. current[c] = stack[c] /\ ctx[next[c]] = next[c]
    BY <1>0, <2>1, ZenonT(60) DEF PhaseAgrees, PhaseOK, ClaimsDisjoint, Apart, Resumable
  <2>3. Outgoing(c).id \in {stack[c], NoThread}
    BY <2>2 DEF Outgoing, NoHandoff
  <2>4. \A d \in Cpu : next'[d] = next[d] /\ handoff'[d].id \in {handoff[d].id, stack[d], NoThread}
    BY <1>0, <2>1, <2>2, <2>3 DEF TypeOK
  <2> QED BY <2>1, <2>4, HandsHome DEF HomeInv
<1>2. CASE Switch(c)
  <2>1. /\ queue' = queue /\ handoff' = handoff /\ pend' = pend
        /\ stack' = [stack EXCEPT ![c] = next[c]] /\ next' = [next EXCEPT ![c] = NoThread]
    BY <1>2 DEF Switch, percpu
  <2>2. \A d \in Cpu : stack'[d] \in {stack[d], next[d]} /\ next'[d] \in {next[d], NoThread}
    BY <1>0, <2>1 DEF TypeOK
  <2> QED BY <2>1, <2>2, HandsHome DEF HomeInv
<1>3. CASE Land(c)
  <2> DEFINE h == handoff[c].id
  <2>1. /\ stack' = stack /\ next' = next /\ pend' = pend
        /\ handoff' = [handoff EXCEPT ![c] = NoHandoff]
        /\ queue' = IF h # NoThread /\ ~handoff[c].tag
                    THEN [queue EXCEPT ![c] = push(queue[c], h, Prio[h])] ELSE queue
    BY <1>3 DEF Land
  <2>2. \A d \in Cpu : handoff'[d].id \in {handoff[d].id, NoThread}
    BY <1>0, <2>1 DEF TypeOK, NoHandoff
  <2>3. CASE queue' = queue
    BY <2>1, <2>2, <2>3, HandsHome DEF HomeInv
  <2>4. CASE h # NoThread /\ queue' = [queue EXCEPT ![c] = push(queue[c], h, Prio[h])]
    <3>1. h \in Thread /\ (h = c \/ h \notin Idle)
      BY <1>0, <2>4 DEF TypeOK, HomeInv, HomeOK
    <3> QED BY <2>1, <2>2, <2>4, <3>1, PushHome
  <2> QED BY <2>1, <2>3, <2>4
<1> QED BY <1>1, <1>2, <1>3

\* Relative to SafetyInv, every step preserves HomeInv.
LEMMA NextHome ==
    ASSUME SafetyInv, Mortal = {}, HomeInv, [Next]_vars
    PROVE  HomeInv'
<1>0. TypeOK /\ TableGrows
  BY DEF SafetyInv
<1>s. CASE queue' = queue /\ stack' = stack /\ next' = next /\ handoff' = handoff /\ pend' = pend
  BY <1>s, HandsHome DEF HomeInv
<1>1. CASE Next
  <2>1. PICK c \in Cpu : Progress(c) \/ ThreadStep(c) \/ Interrupt(c)
    BY <1>1 DEF Next
  <2>2. CASE ParkCheck(c) \/ Yield(c) \/ IdleLoop(c) \/ WakeIpi(c) \/ Tick(c) \/ Reap(c) \/ Park(c)
    BY <1>s, <2>2 DEF ParkCheck, Yield, IdleLoop, WakeIpi, Tick, Reap, Park, percpu
  <2>3. CASE SpawnInsert(c)
    <3>1. /\ queue' = queue /\ stack' = stack /\ next' = next /\ handoff' = handoff
          /\ pend' = [pend EXCEPT ![stack[c]] = nextId]
      BY <2>3 DEF SpawnInsert, percpu
    <3>2. nextId \notin Idle
      BY <1>0, CountsAssumption, SMTT(40) DEF TypeOK, Idle, Cpu
    <3>3. \A s \in Thread : pend'[s] \notin Idle
      BY <1>0, <3>1, <3>2, ZenonT(60) DEF TypeOK, HomeInv
    <3> QED BY <3>1, <3>3, HandsHome, ZenonT(60)
  <2>4. CASE SpawnPush(c)
    <3>1. /\ stack[c] \in Thread /\ pend[stack[c]] \in Thread
          /\ queue' = [queue EXCEPT ![c] = push(queue[c], pend[stack[c]], Prio[pend[stack[c]]])]
          /\ pend' = [pend EXCEPT ![stack[c]] = NoThread]
          /\ UNCHANGED <<stack, next, handoff>>
      BY <1>0, <2>4, ConstantFacts DEF SpawnPush, TypeOK
    <3>2. pend[stack[c]] \notin Idle /\ \A s \in Thread : pend'[s] \in {pend[s], NoThread}
      BY <1>0, <3>1 DEF TypeOK, HomeInv
    <3> QED BY <3>1, <3>2, PushHome
  <2>5. CASE UnparkPush(c)
    <3> DEFINE o == HomeQueue(c, wake[c])
    <3>1. /\ wake[c] \in Thread /\ o \in Cpu /\ (wake[c] = o \/ wake[c] \notin Idle)
          /\ UNCHANGED <<stack, next, handoff, pend>>
      BY <1>0, <2>5, ConstantFacts DEF UnparkPush, TypeOK, HomeQueue, Idle
    <3>2. queue' = [queue EXCEPT ![o] = push(queue[o], wake[c], Prio[wake[c]])]
      BY <2>5 DEF UnparkPush
    <3> HIDE DEF o
    <3> QED BY <3>1, <3>2, PushHome
  <2>6. ASSUME NEW u \in Parkers, Unpark(c, u) PROVE HomeInv'
    BY <2>6, RolesAssumption, UnparkHome
  <2> QED
    BY <2>1, <2>2, <2>3, <2>4, <2>5, <2>6, TakeNextHome, ScheduleHome, NoExit, ZenonT(60)
    DEF Progress, ThreadStep, Interrupt
<1>2. CASE UNCHANGED vars
  BY <1>s, <1>2 DEF vars, percpu, machine
<1> QED BY <1>1, <1>2

\* For any number of CPUs and threads, none of which exits: neither a steal, a
\* wake from another CPU nor a handoff ever carries an idle thread away from
\* the CPU whose boot stack it executes on.
THEOREM IdleNeverMoves ==
    ASSUME Mortal = {}
    PROVE  Spec => []IdleStaysHome
<1>1. Init => SafetyInv
  BY InitSafety
<1>2. Init => HomeInv
  <2> SUFFICES ASSUME Init PROVE HomeInv
    OBVIOUS
  <2>1. \A c \in Cpu : queue[c] = NewQueue
    BY DEF Init, InitPercpu
  <2>2. \A x : ~contains(NewQueue, x)
    BY NewQueueFacts
  <2>3. \A c \in Cpu : Banded(queue[c])
    BY <2>1, SMT DEF Banded, NewQueue
  <2>4. \A t \in Idle : t # NoThread
    BY ConstantFacts, ZenonT(60) DEF Idle
  <2> QED BY <2>1, <2>2, <2>3, <2>4 DEF Init, InitPercpu, NoHandoff, HomeInv, HomeOK
<1>3. SafetyInv /\ [Next]_vars => SafetyInv'
  BY NextSafety
<1>4. SafetyInv /\ HomeInv /\ [Next]_vars => HomeInv'
  BY NextHome
<1>5. HomeInv => IdleStaysHome
  BY DEF HomeInv, HomeOK, IdleStaysHome
<1> QED BY <1>1, <1>2, <1>3, <1>4, <1>5, PTL DEF Spec
=============================================================================
