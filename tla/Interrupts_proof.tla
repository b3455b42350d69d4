-------------------------- MODULE Interrupts_proof --------------------------
(*
Two protocols between threads, other processors and interrupt handlers.

The virtio-blk driver of BlockDriver.tla keeps its books for every number of callers,
chains and timers and however many false entries the device writes: no chain is lost,
none is handed out while the device may still write through it unless a false entry was
taken for it, and no caller parks without somebody left to wake it.  The invariant IInv has three parts: the types; ChainInv, which ties a chain's slot
to the request that holds it and to what the device and the used ring hold; and WakeInv,
which ties a parked caller to its timer or to a wake under way.  Each has a lemma for
one step, one case per action.  The records of the slots are rewritten field by field,
so the actions that do it have a lemma that says what they leave.

The TLB shootdown of Shootdown.tla, for every number of processors, threads and pages:
it has one initiator at a time (OneShootdown), and a frame that unmap hands back is
cached nowhere outside the three windows (NoStaleOutsideWindows).
*)
EXTENDS BlockDriver, Shootdown, TLAPS

\* A leaf that names no prover is one for first-order reasoning.
USE Zenon

Places == {"idle", "submit", "poll", "polltime", "pending", "parked", "resolve", "finish", "drop"}
\* Places at which a caller has a Request.
Holding == {"poll", "polltime", "pending", "parked", "resolve", "finish", "drop"}

UsedEntry == [id : Chain \cup {BadId}, real : BOOLEAN]
Slot == [thread : Caller \cup {None}, done : BOOLEAN, abandoned : BOOLEAN]

TypeInv ==
    /\ free \subseteq Chain /\ inFlight \in [Chain -> BOOLEAN]
    /\ slots \in [Chain -> Slot]
    /\ dev \in [Chain -> Nat] /\ used \in Seq(UsedEntry) /\ misled \subseteq Chain
    /\ irq \in BOOLEAN /\ todo \in Nat \cup {None}
    /\ woken \subseteq Caller /\ wakes \subseteq Caller
    /\ timers \in [Timer -> Caller \cup {None}] /\ rem \in [Caller -> Nat]
    /\ pc \in [Caller -> Places] /\ head \in [Caller -> Chain \cup {None}]
    /\ answer \in [Caller -> {"none", "done", "timedout"}]
    /\ parked \in [Caller -> BOOLEAN] /\ pending \in [Caller -> BOOLEAN]

\* A slot is empty, for a chain on the free list, or names a submitter; a chain in
\* flight is allocated and unanswered.
SlotsOK ==
    \A h \in Chain :
        /\ h \in free => slots[h] = NoSlot
        /\ h \notin free => slots[h].thread # None
        /\ inFlight[h] => h \notin free /\ ~slots[h].done
        /\ slots[h].thread # None /\ ~slots[h].abandoned => head[slots[h].thread] = h

\* A request's chain is its own until it is given up, and its answer is the slot's.
HeadsOK ==
    \A t \in Caller :
        /\ head[t] # None <=> pc[t] \in Holding
        /\ head[t] # None => slots[head[t]].thread = t /\ ~slots[head[t]].abandoned
        /\ answer[t] = "done" => pc[t] \in {"resolve", "finish"} /\ slots[head[t]].done
        /\ pc[t] \in {"resolve", "finish"} => answer[t] \in {"done", "timedout"}

\* What the device holds is in flight, each chain once, unless a false entry for the
\* chain was taken.
DeviceOK == \A h \in Chain \ misled : dev[h] > 0 => inFlight[h] /\ dev[h] = 1

\* A true entry waiting in the used ring is the one answer to a chain in flight, with
\* the same exception; a false entry may wait for any chain in any state.
UsedOK ==
    /\ \A h \in Chain \ misled : \A i \in 1..Len(used) :
         used[i] = Entry(h, TRUE) =>
            /\ inFlight[h] /\ dev[h] = 0
            /\ \A j \in 1..Len(used) : used[j] = Entry(h, TRUE) => j = i
    /\ todo # None => todo <= Len(used)

ChainInv == SlotsOK /\ HeadsOK /\ DeviceOK /\ UsedOK

Registered(t) == \E i \in Timer : timers[i] = t
\* A caller that is parked or about to park has its deadline registered or a wake
\* under way; a deadline that has not passed is registered.
WakeInv ==
    \A t \in Caller :
        /\ rem[t] > 0 => Registered(t)
        /\ parked[t] => pc[t] = "parked" /\ (t \in wakes \/ t \in woken \/ Registered(t))
        /\ pc[t] = "pending" => pending[t] \/ t \in wakes \/ t \in woken \/ Registered(t)

IInv == TypeInv /\ ChainInv /\ WakeInv

\* What a write to one field of a slot leaves.
Rewrites(h, thread, done, abandoned) ==
    /\ slots' \in [Chain -> Slot]
    /\ slots'[h].thread = thread /\ slots'[h].done = done /\ slots'[h].abandoned = abandoned
    /\ \A k \in Chain \ {h} : slots'[k] = slots[k]

\* finish and Request::drop either release the chain or leave it to the interrupt.
Released(h) == free_chain(h) /\ slots' = [slots EXCEPT ![h] = NoSlot]
Quarantined(h) ==
    Rewrites(h, slots[h].thread, slots[h].done, TRUE) /\ UNCHANGED <<free, inFlight>>
Returned(t) ==
    /\ todo = None /\ head[t] \in Chain
    /\ pc' = [pc EXCEPT ![t] = "idle"] /\ head' = [head EXCEPT ![t] = None]
    /\ UNCHANGED <<devVars, irqVars, timeVars, parkVars>>

\* The vacant slot is a slot, nobody's, unanswered and not abandoned.
LEMMA EmptySlot ==
    NoSlot \in Slot /\ NoSlot.thread = None /\ NoSlot.done = FALSE /\ NoSlot.abandoned = FALSE
BY DEF NoSlot, Slot

\* An entry is its two fields.
LEMMA EntryFields ==
    ASSUME NEW h \in Chain \cup {BadId}, NEW b \in BOOLEAN
    PROVE  /\ Entry(h, b) \in UsedEntry /\ Entry(h, b).id = h /\ Entry(h, b).real = b
           /\ \A k, c : Entry(h, b) = Entry(k, c) => k = h /\ c = b
BY DEF Entry, UsedEntry

\* An entry is made of its two fields.
LEMMA EntryWhole ==
    ASSUME NEW e \in UsedEntry
    PROVE  e.id \in Chain \cup {BadId} /\ e.real \in BOOLEAN /\ e = Entry(e.id, e.real)
BY DEF Entry, UsedEntry

\* What an entry appended to the used ring leaves.
LEMMA UsedAppend ==
    ASSUME used \in Seq(UsedEntry), NEW e \in UsedEntry, used' = Append(used, e)
    PROVE  /\ used' \in Seq(UsedEntry) /\ Len(used') = Len(used) + 1 /\ used'[Len(used) + 1] = e
           /\ \A i \in 1..Len(used') : (i \in 1..Len(used) /\ used'[i] = used[i]) \/ i = Len(used) + 1
BY SMT

\* A caller between submit and the end of finish or Request::drop has a chain.
LEMMA HolderHasChain ==
    ASSUME IInv, NEW t \in Caller, pc[t] \in Holding
    PROVE  head[t] \in Chain
BY SMT DEF IInv, TypeInv, ChainInv, HeadsOK, Holding

\* `slots[head].abandoned = true` writes that field and nothing else.
LEMMA SlotAbandoned ==
    ASSUME slots \in [Chain -> Slot], NEW h \in Chain, slots' = [slots EXCEPT ![h].abandoned = TRUE]
    PROVE  Rewrites(h, slots[h].thread, slots[h].done, TRUE)
BY DEF Slot, Rewrites

\* `slots[head].done = true` writes that field and nothing else.
LEMMA SlotDone ==
    ASSUME slots \in [Chain -> Slot], NEW h \in Chain, slots' = [slots EXCEPT ![h].done = TRUE]
    PROVE  Rewrites(h, slots[h].thread, TRUE, slots[h].abandoned)
BY DEF Slot, Rewrites

\* submit stores a fresh slot that names its thread.
LEMMA SlotFilled ==
    ASSUME slots \in [Chain -> Slot], NEW h \in Chain, NEW t \in Caller,
           slots' = [slots EXCEPT ![h] = [NoSlot EXCEPT !.thread = t]]
    PROVE  Rewrites(h, t, FALSE, FALSE)
<1> DEFINE n == [NoSlot EXCEPT !.thread = t]
<1>1. n \in Slot /\ n.thread = t /\ n.done = FALSE /\ n.abandoned = FALSE
  BY DEF NoSlot, Slot
<1> HIDE DEF n
<1>2. slots' = [slots EXCEPT ![h] = n]
  BY DEF n
<1> QED BY <1>1, <1>2 DEF Rewrites

\* Releasing a chain stores the vacant slot.
LEMMA SlotCleared ==
    ASSUME slots \in [Chain -> Slot], NEW h \in Chain, slots' = [slots EXCEPT ![h] = NoSlot]
    PROVE  Rewrites(h, None, FALSE, FALSE) /\ slots'[h] = NoSlot
BY EmptySlot DEF Rewrites

\* BlockFuture's finish: a timed-out request leaves its chain to the interrupt, an
\* answered one releases it.
LEMMA FinishEffect ==
    ASSUME IInv, NEW t \in Caller, Finish(t)
    PROVE  /\ pc[t] = "finish" /\ Returned(t) /\ answer' = [answer EXCEPT ![t] = "none"]
           /\ \/ answer[t] = "timedout" /\ Quarantined(head[t])
              \/ answer[t] # "timedout" /\ Released(head[t])
<1>1. slots \in [Chain -> Slot] /\ head[t] \in Chain
  BY HolderHasChain DEF IInv, TypeInv, Holding, Finish
<1>2. CASE answer[t] = "timedout"
  <2>1. slots' = [slots EXCEPT ![head[t]].abandoned = TRUE] /\ UNCHANGED <<free, inFlight>>
    BY <1>2 DEF Finish
  <2> QED BY <1>1, <1>2, <2>1, SlotAbandoned DEF Finish, Quarantined, Returned, DeviceFree
<1>3. CASE answer[t] # "timedout"
  BY <1>1, <1>3 DEF Finish, Released, Returned, DeviceFree
<1> QED BY <1>2, <1>3

\* Request::drop: an unanswered chain is left to the interrupt, an answered one is
\* released.
LEMMA RequestDropEffect ==
    ASSUME IInv, NEW t \in Caller, RequestDrop(t)
    PROVE  /\ pc[t] = "drop" /\ Returned(t) /\ UNCHANGED answer
           /\ \/ ~slots[head[t]].done /\ Quarantined(head[t])
              \/ slots[head[t]].done /\ Released(head[t])
<1>1. slots \in [Chain -> Slot] /\ head[t] \in Chain
  BY HolderHasChain DEF IInv, TypeInv, Holding, RequestDrop
<1>2. CASE ~slots[head[t]].done
  <2>1. slots' = [slots EXCEPT ![head[t]].abandoned = TRUE] /\ UNCHANGED <<free, inFlight>>
    BY <1>2 DEF RequestDrop
  <2> QED BY <1>1, <1>2, <2>1, SlotAbandoned DEF RequestDrop, Quarantined, Returned, DeviceFree
<1>3. CASE slots[head[t]].done
  BY <1>1, <1>3 DEF RequestDrop, Released, Returned, DeviceFree
<1> QED BY <1>2, <1>3

\* submit publishes a free chain, or finds none and gives the deadline back.
Published(t, h) ==
    /\ h \in free /\ free' = free \ {h} /\ inFlight' = [inFlight EXCEPT ![h] = TRUE]
    /\ Rewrites(h, t, FALSE, FALSE)
    /\ dev' = [dev EXCEPT ![h] = @ + 1] /\ head' = [head EXCEPT ![t] = h]
    /\ pc' = [pc EXCEPT ![t] = "poll"] /\ UNCHANGED timeVars
Refused(t) ==
    /\ DropSleep(t) /\ pc' = [pc EXCEPT ![t] = "idle"] /\ UNCHANGED <<ringVars, dev, head>>

\* submit publishes a free chain or refuses for want of one.
LEMMA SubmitEffect ==
    ASSUME IInv, NEW t \in Caller, Submit(t)
    PROVE  /\ pc[t] = "submit" /\ todo = None
           /\ UNCHANGED <<used, misled, irqVars, answer, parkVars>>
           /\ Refused(t) \/ \E h \in free : Published(t, h)
<1>1. slots \in [Chain -> Slot] /\ free \subseteq Chain
  BY DEF IInv, TypeInv
<1>2. ASSUME NEW h \in free,
             free' = free \ {h}, inFlight' = [inFlight EXCEPT ![h] = TRUE],
             slots' = [slots EXCEPT ![h] = [NoSlot EXCEPT !.thread = t]],
             dev' = [dev EXCEPT ![h] = @ + 1], head' = [head EXCEPT ![t] = h],
             pc' = [pc EXCEPT ![t] = "poll"], UNCHANGED timeVars
      PROVE Published(t, h)
  <2>1. Rewrites(h, t, FALSE, FALSE)
    BY <1>1, <1>2, SlotFilled
  <2> QED BY <1>2, <2>1 DEF Published
<1> QED BY <1>2 DEF Submit, Refused, DeviceFree

\* What is left of the used ring, entry by entry.
LEMMA UsedTail ==
    ASSUME IInv, TakeUsed
    PROVE  /\ used' \in Seq(UsedEntry) /\ todo \in Nat \ {0} /\ todo' = todo - 1
           /\ Len(used') = Len(used) - 1 /\ Len(used) \in Nat \ {0} /\ todo <= Len(used)
           /\ used' = Tail(used) /\ Head(used) = used[1] /\ used[1] \in UsedEntry /\ DOMAIN used' = 1..Len(used')
           /\ \A i \in 1..Len(used') : used'[i] = used[i + 1] /\ i + 1 \in 1..Len(used)
<1>1. used # <<>> /\ todo \in Nat \ {0} /\ todo <= Len(used) /\ used \in Seq(UsedEntry)
  BY SMT DEF IInv, TypeInv, ChainInv, UsedOK, TakeUsed
<1>2. used' = Tail(used) /\ todo' = todo - 1
  BY DEF TakeUsed
<1> QED BY <1>1, <1>2, SMT

\* The entry the interrupt takes is dropped, gives a quarantined chain back, or is
\* delivered.
Delivered(h) ==
    /\ inFlight' = [inFlight EXCEPT ![h] = FALSE] /\ UNCHANGED free
    /\ Rewrites(h, slots[h].thread, TRUE, FALSE)
    /\ woken' = woken \cup {slots[h].thread} /\ slots[h].thread \in Caller

\* The three ends of one used entry in the interrupt handler.
LEMMA TakeUsedEffect ==
    ASSUME IInv, TakeUsed
    PROVE  /\ UNCHANGED <<dev, irq, timeVars, threadVars, parkVars>>
           /\ \/ ~Accepts(used[1].id) /\ UNCHANGED <<ringVars, woken>>
              \/ Accepts(used[1].id) /\ slots[used[1].id].abandoned /\ Released(used[1].id) /\ UNCHANGED woken
              \/ Accepts(used[1].id) /\ ~slots[used[1].id].abandoned /\ Delivered(used[1].id)
<1> DEFINE h == used[1].id
<1>1. Head(used).id = h /\ slots \in [Chain -> Slot]
  BY UsedTail DEF IInv, TypeInv
<1>2. UNCHANGED <<dev, irq, timeVars, threadVars, parkVars>>
  BY DEF TakeUsed
<1>3. CASE ~Accepts(h)
  BY <1>1, <1>2, <1>3 DEF TakeUsed
<1>4. CASE Accepts(h) /\ slots[h].abandoned
  BY <1>1, <1>2, <1>4 DEF TakeUsed, Released
<1>5. CASE Accepts(h) /\ ~slots[h].abandoned
  <2>1. h \in Chain /\ slots[h].thread \in Caller /\ slots[h].abandoned = FALSE
    BY <1>5 DEF Accepts, IInv, TypeInv, ChainInv, SlotsOK, Slot
  <2>2. /\ inFlight' = [inFlight EXCEPT ![h] = FALSE] /\ UNCHANGED free
        /\ slots' = [slots EXCEPT ![h].done = TRUE] /\ woken' = woken \cup {slots[h].thread}
    BY <1>1, <1>5 DEF TakeUsed
  <2> QED BY <1>1, <1>2, <1>5, <2>1, <2>2, SlotDone DEF Delivered
<1> QED BY <1>3, <1>4, <1>5

\* Every step keeps the types.
LEMMA TypeStep == ASSUME IInv, Next PROVE TypeInv'
<1> USE DEF IInv, TypeInv
<1>1. ASSUME NEW t \in Caller, Reserve(t) PROVE TypeInv'
  BY <1>1, TimerAssumption DEF Reserve, Places, ringVars, devVars, irqVars, parkVars
<1>2. ASSUME NEW t \in Caller, Submit(t) PROVE TypeInv'
  <2>0. pc[t] = "submit" /\ UNCHANGED <<used, misled, irqVars, answer, parkVars>>
    BY <1>2, SubmitEffect
  <2>1. CASE Refused(t)
    BY <2>0, <2>1 DEF Refused, DropSleep, Places, ringVars, irqVars, parkVars
  <2>2. ASSUME NEW h \in free, Published(t, h) PROVE TypeInv'
    <3>1. dev' \in [Chain -> Nat]
      BY <2>2, SMT DEF Published
    <3> QED BY <2>0, <2>2, <3>1 DEF Published, Rewrites, Places, irqVars, timeVars, parkVars
  <2> QED BY <1>2, <2>1, <2>2, SubmitEffect
<1>3. ASSUME NEW t \in Caller, PollDevice(t) PROVE TypeInv'
  <2>1. CASE slots[head[t]].done
    BY <1>3, <2>1 DEF Places, PollDevice, ringVars, devVars, irqVars, timeVars, parkVars
  <2>2. CASE ~slots[head[t]].done
    BY <1>3, <2>2 DEF Places, PollDevice, ringVars, devVars, irqVars, timeVars, parkVars
  <2> QED BY <2>1, <2>2
<1>4. ASSUME NEW t \in Caller, PollTime(t) PROVE TypeInv'
  BY <1>4 DEF Places, PollTime, ringVars, devVars, irqVars, timeVars, parkVars
<1>5. ASSUME NEW t \in Caller, Park(t) PROVE TypeInv'
  <2>1. CASE pending[t]
    BY <1>5, <2>1 DEF Places, Park, ringVars, devVars, irqVars, timeVars
  <2>2. CASE ~pending[t]
    BY <1>5, <2>2 DEF Places, Park, ringVars, devVars, irqVars, timeVars
  <2> QED BY <2>1, <2>2
<1>6. ASSUME NEW t \in Caller, Resume(t) \/ Resolve(t) \/ Cancel(t) PROVE TypeInv'
  <2>1. UNCHANGED <<ringVars, devVars, irqVars, head, answer, parkVars>>
    BY <1>6 DEF Resume, Resolve, Cancel
  <2>2. /\ pc' \in [Caller -> Places] /\ rem' \in [Caller -> Nat]
        /\ timers' \in [Timer -> Caller \cup {None}]
    <3>1. CASE Resume(t)
      BY <3>1 DEF Resume, timeVars, Places
    <3>2. CASE Resolve(t) \/ Cancel(t)
      <4>1. DropSleep(t) /\ pc' \in [Caller -> Places]
        BY <3>2 DEF Resolve, Cancel, Places
      <4> QED BY <4>1 DEF DropSleep
    <3> QED BY <1>6, <3>1, <3>2
  <2> QED BY <2>1, <2>2 DEF ringVars, devVars, irqVars, parkVars
<1>7. ASSUME NEW t \in Caller, Finish(t) \/ RequestDrop(t) PROVE TypeInv'
  <2>1. /\ Returned(t) /\ answer' \in [Caller -> {"none", "done", "timedout"}]
        /\ Quarantined(head[t]) \/ Released(head[t])
    BY <1>7, FinishEffect, RequestDropEffect
  <2>2. /\ slots' \in [Chain -> Slot]
        /\ free' \subseteq Chain /\ inFlight' \in [Chain -> BOOLEAN]
    BY <2>1, SlotCleared DEF Returned, Quarantined, Released, Rewrites, free_chain
  <2> QED BY <2>1, <2>2 DEF Returned, Places, devVars, irqVars, timeVars, parkVars
<1>8. ASSUME NEW t \in Caller, Unpark(t) PROVE TypeInv'
  BY <1>8 DEF Unpark, ringVars, devVars, irqVars, timeVars, threadVars
<1>10. ASSUME NEW h \in Chain, DeviceComplete(h) PROVE TypeInv'
  <2>1. used' \in Seq(UsedEntry)
    <3>1. Entry(h, TRUE) \in UsedEntry
      BY EntryFields
    <3>2. used' = Append(used, Entry(h, TRUE)) /\ used \in Seq(UsedEntry)
      BY <1>10 DEF DeviceComplete
    <3> QED BY <3>1, <3>2, UsedAppend
  <2>2. dev' \in [Chain -> Nat]
    BY <1>10, SMT DEF DeviceComplete
  <2> QED BY <1>10, <2>1, <2>2 DEF DeviceComplete, ringVars, timeVars, threadVars, parkVars
<1>11. ASSUME NEW id \in Chain \cup {BadId}, DeviceFault(id) PROVE TypeInv'
  <2>1. used' \in Seq(UsedEntry)
    <3>1. Entry(id, FALSE) \in UsedEntry
      BY EntryFields
    <3>2. used' = Append(used, Entry(id, FALSE)) /\ used \in Seq(UsedEntry)
      BY <1>11 DEF DeviceFault
    <3> QED BY <3>1, <3>2, UsedAppend
  <2> QED BY <1>11, <2>1 DEF DeviceFault, ringVars, timeVars, threadVars, parkVars
<1>12. CASE CompletionIrq
  <2>1. Len(used) \in Nat
    BY SMTT(40)
  <2> QED BY <1>12, <2>1 DEF CompletionIrq, ringVars, devVars, timeVars, threadVars, parkVars
<1>13. CASE TakeUsed
  <2>1. /\ slots' \in [Chain -> Slot] /\ woken' \subseteq Caller
        /\ free' \subseteq Chain /\ inFlight' \in [Chain -> BOOLEAN]
    BY <1>13, TakeUsedEffect, SlotCleared
    DEF Accepts, Released, Delivered, Rewrites, free_chain, ringVars
  <2>2. todo' \in Nat
    BY <1>13, UsedTail, SMTT(40)
  <2>3. misled' \subseteq Chain
    BY <1>13 DEF TakeUsed
  <2> QED BY <1>13, <2>1, <2>2, <2>3, UsedTail, TakeUsedEffect DEF timeVars, threadVars, parkVars
<1>14. CASE CompletionDone
  BY <1>14 DEF CompletionDone, ringVars, devVars, timeVars, threadVars
<1>15. CASE ExpireTimers
  BY <1>15, SMT DEF ExpireTimers, ringVars, devVars, irqVars, threadVars
<1>16. CASE Tick
  BY <1>16, SMTT(40) DEF Tick, ringVars, devVars, irqVars, threadVars, parkVars
<1> QED
  BY <1>1, <1>2, <1>3, <1>4, <1>5, <1>6, <1>7, <1>8, <1>10, <1>11, <1>12, <1>13, <1>14,
     <1>15, <1>16, Zenon DEF Next, CallerStep, Device, Handlers

\* Every step keeps WakeInv: a timer is given up only by its own caller, who then is
\* not parked, and a completion or an expiry that takes one away leaves a wake behind.
LEMMA WakeStep == ASSUME IInv, Next PROVE WakeInv'
<1> USE DEF IInv, TypeInv, WakeInv, Registered
<1>1. ASSUME NEW t \in Caller, Reserve(t) PROVE WakeInv'
  BY <1>1, NoneAssumption, SMT DEF Reserve, Places, irqVars, parkVars
<1>2. ASSUME NEW t \in Caller, Submit(t) PROVE WakeInv'
  <2>0. pc[t] = "submit" /\ UNCHANGED <<woken, parked, pending, wakes>>
    BY <1>2, SubmitEffect DEF irqVars, parkVars
  <2>1. CASE Refused(t)
    BY <2>0, <2>1, SMT DEF Refused, DropSleep, Places
  <2>2. ASSUME NEW h \in free, Published(t, h) PROVE WakeInv'
    BY <2>0, <2>2 DEF Published, Places, timeVars
  <2> QED BY <1>2, <2>1, <2>2, SubmitEffect
<1>3. ASSUME NEW t \in Caller, PollDevice(t) PROVE WakeInv'
  BY <1>3, SMT DEF Places, PollDevice, irqVars, timeVars, parkVars
<1>4. ASSUME NEW t \in Caller, PollTime(t) PROVE WakeInv'
  BY <1>4, SMT DEF Places, PollTime, irqVars, timeVars, parkVars
<1>5. ASSUME NEW t \in Caller, Park(t) PROVE WakeInv'
  <2> SUFFICES ASSUME NEW u \in Caller
               PROVE  /\ rem'[u] > 0 => Registered(u)'
                      /\ parked'[u] => pc'[u] = "parked" /\ (u \in wakes' \/ u \in woken' \/ Registered(u)')
                      /\ pc'[u] = "pending" => pending'[u] \/ u \in wakes' \/ u \in woken' \/ Registered(u)'
    OBVIOUS
  <2>1. UNCHANGED <<timers, rem, woken, wakes>> /\ pc[t] = "pending" /\ ~parked[t]
    BY <1>5 DEF Park, irqVars, timeVars
  <2>2. CASE pending[t]
    <3>1. parked' = parked /\ pending' = [pending EXCEPT ![t] = FALSE] /\ pc' = [pc EXCEPT ![t] = "poll"]
      BY <1>5, <2>2 DEF Park
    <3>2. CASE u = t
      BY <2>1, <3>1, <3>2
    <3>3. CASE u # t
      BY <2>1, <3>1, <3>3
    <3> QED BY <3>2, <3>3
  <2>3. CASE ~pending[t]
    <3>1. pending' = pending /\ parked' = [parked EXCEPT ![t] = TRUE] /\ pc' = [pc EXCEPT ![t] = "parked"]
      BY <1>5, <2>3 DEF Park
    <3>2. CASE u = t
      BY <2>1, <2>3, <3>1, <3>2
    <3>3. CASE u # t
      BY <2>1, <3>1, <3>3
    <3> QED BY <3>2, <3>3
  <2> QED BY <2>2, <2>3
<1>6. ASSUME NEW t \in Caller, Resume(t) \/ Resolve(t) \/ Cancel(t) PROVE WakeInv'
  BY <1>6, SMT DEF Resume, Resolve, Cancel, DropSleep, Places, irqVars, timeVars, parkVars
<1>7. ASSUME NEW t \in Caller, Finish(t) \/ RequestDrop(t) PROVE WakeInv'
  <2>1. pc[t] \in {"finish", "drop"} /\ Returned(t)
    BY <1>7, FinishEffect, RequestDropEffect
  <2> QED BY <2>1 DEF Returned, Places, irqVars, timeVars, parkVars
<1>8. ASSUME NEW t \in Caller, Unpark(t) PROVE WakeInv'
  BY <1>8, SMT DEF Unpark, irqVars, timeVars, threadVars
<1>9. CASE CompletionIrq \/ \E id \in Chain \cup {BadId} : DeviceFault(id)
  <2>1. UNCHANGED <<timers, rem, pc, parked, pending, wakes, woken>>
    BY <1>9 DEF DeviceFault, CompletionIrq, timeVars, threadVars, parkVars
  <2> QED BY <2>1
<1>10. ASSUME NEW h \in Chain, DeviceComplete(h) PROVE WakeInv'
  BY <1>10 DEF DeviceComplete, timeVars, threadVars, parkVars
<1>11. CASE TakeUsed
  <2>1. woken \subseteq woken'
    BY <1>11, TakeUsedEffect DEF Delivered
  <2> QED BY <1>11, <2>1, TakeUsedEffect, SMT DEF timeVars, threadVars, parkVars
<1>12. CASE CompletionDone
  BY <1>12 DEF CompletionDone, timeVars, threadVars
<1>13. CASE ExpireTimers
  BY <1>13, SMT DEF ExpireTimers, irqVars, threadVars
<1>14. CASE Tick
  BY <1>14, SMT DEF Tick, irqVars, threadVars, parkVars
<1> QED
  BY <1>1, <1>2, <1>3, <1>4, <1>5, <1>6, <1>7, <1>8, <1>9, <1>10, <1>11, <1>12, <1>13, <1>14,
     ZenonT(60) DEF Next, CallerStep, Device, Handlers

\* A step that leaves the rings alone, and what is in flight, keeps what is known of them.
LEMMA RingsSame ==
    ASSUME IInv, UNCHANGED <<dev, used, misled>>,
           \A k \in Chain : inFlight'[k] <=> inFlight[k],
           todo' # None => todo' <= Len(used')
    PROVE  DeviceOK' /\ UsedOK'
<1>1. DeviceOK'
  BY DEF IInv, ChainInv, DeviceOK
<1>2. ASSUME NEW k \in Chain \ misled, NEW i \in 1..Len(used), used[i] = Entry(k, TRUE)
      PROVE  /\ inFlight'[k] /\ dev[k] = 0
             /\ \A j \in 1..Len(used) : used[j] = Entry(k, TRUE) => j = i
  BY <1>2 DEF IInv, ChainInv, UsedOK
<1> QED BY <1>1, <1>2 DEF UsedOK

\* A step that touches neither chains nor requests keeps ChainInv.
LEMMA ChainSame ==
    ASSUME IInv, UNCHANGED <<ringVars, dev, used, misled, todo, threadVars>>
    PROVE  ChainInv'
<1>1. DeviceOK' /\ UsedOK'
  BY RingsSame DEF IInv, ChainInv, UsedOK, ringVars
<1> QED BY <1>1 DEF IInv, ChainInv, SlotsOK, HeadsOK, ringVars, threadVars

\* submit keeps ChainInv: the chain it takes was nobody's, so it is new to the rings.
LEMMA PublishChain ==
    ASSUME IInv, NEW t \in Caller, NEW h \in free, Published(t, h), pc[t] = "submit", todo = None,
           UNCHANGED <<used, misled, todo, answer>>
    PROVE  ChainInv'
<1>0. h \in Chain /\ ~inFlight[h] /\ head[t] = None /\ answer[t] # "done"
  <2>1. h \in Chain /\ ~inFlight[h]
    BY DEF IInv, TypeInv, ChainInv, SlotsOK
  <2>2. head[t] = None /\ answer[t] # "done"
    BY DEF IInv, ChainInv, HeadsOK, Holding
  <2> QED BY <2>1, <2>2
<1>1. \A k \in Chain : slots[k].thread # t \/ slots[k].abandoned
  BY <1>0, NoneAssumption DEF IInv, TypeInv, ChainInv, SlotsOK
<1>2. SlotsOK'
  BY <1>0, <1>1, NoneAssumption, SMT DEF IInv, TypeInv, ChainInv, SlotsOK, Published, Rewrites, Slot
<1>3. HeadsOK'
  <2> SUFFICES ASSUME NEW u \in Caller
               PROVE  /\ head'[u] # None <=> pc'[u] \in Holding
                      /\ head'[u] # None => slots'[head'[u]].thread = u /\ ~slots'[head'[u]].abandoned
                      /\ answer'[u] = "done" => pc'[u] \in {"resolve", "finish"} /\ slots'[head'[u]].done
                      /\ pc'[u] \in {"resolve", "finish"} => answer'[u] \in {"done", "timedout"}
    BY DEF HeadsOK
  <2>1. CASE u = t
    BY <1>0, <2>1, NoneAssumption DEF IInv, TypeInv, Published, Rewrites, Holding
  <2>2. CASE u # t
    <3>1. head'[u] = head[u] /\ pc'[u] = pc[u] /\ answer'[u] = answer[u]
      BY <2>2 DEF IInv, TypeInv, Published
    <3>2. head[u] # None => head[u] \in Chain \ {h}
      BY NoneAssumption, EmptySlot, SMT DEF IInv, TypeInv, ChainInv, HeadsOK, SlotsOK
    <3> QED BY <3>1, <3>2, SMT DEF IInv, TypeInv, ChainInv, HeadsOK, Published, Rewrites, Holding
  <2> QED BY <2>1, <2>2
<1>4. DeviceOK'
  BY <1>0, SMT DEF IInv, TypeInv, ChainInv, DeviceOK, Published
<1>5. UsedOK'
  <2>1. \A k \in Chain \ misled : \A i \in 1..Len(used) : used[i] = Entry(k, TRUE) => k # h
    BY <1>0 DEF IInv, ChainInv, UsedOK
  <2>2. \A k \in Chain \ {h} : dev'[k] = dev[k] /\ inFlight'[k] = inFlight[k]
    BY DEF IInv, TypeInv, Published
  <2>3. ASSUME NEW k \in Chain \ misled, NEW i \in 1..Len(used), used[i] = Entry(k, TRUE)
        PROVE  /\ inFlight'[k] /\ dev'[k] = 0
               /\ \A j \in 1..Len(used) : used[j] = Entry(k, TRUE) => j = i
    BY <2>1, <2>2, <2>3 DEF IInv, ChainInv, UsedOK
  <2>4. todo' = None
    OBVIOUS
  <2> QED BY <2>3, <2>4 DEF UsedOK
<1> QED BY <1>2, <1>3, <1>4, <1>5 DEF ChainInv

\* A caller that lets go of its chain, released or quarantined.
LEMMA ReturnChain ==
    ASSUME IInv, NEW t \in Caller, Returned(t), pc[t] \in Holding,
           \/ Quarantined(head[t])
           \/ slots[head[t]].done /\ Released(head[t]),
           \/ answer' = [answer EXCEPT ![t] = "none"]
           \/ UNCHANGED answer /\ answer[t] # "done"
    PROVE  ChainInv'
<1> DEFINE h == head[t]
<1>0. h \in Chain /\ slots[h].thread = t /\ ~slots[h].abandoned /\ h \notin free
  BY EmptySlot, NoneAssumption, SMT DEF IInv, TypeInv, ChainInv, HeadsOK, SlotsOK, Returned, Holding
<1>1. slots[h].done => ~inFlight[h]
  BY <1>0 DEF IInv, ChainInv, SlotsOK
<1>2. \A u \in Caller \ {t} : head[u] # h /\ head'[u] = head[u] /\ pc'[u] = pc[u] /\ answer'[u] = answer[u]
  BY <1>0, SMT DEF IInv, TypeInv, ChainInv, HeadsOK, Returned
<1>3. head'[t] = None /\ pc'[t] = "idle" /\ answer'[t] # "done"
  BY DEF IInv, TypeInv, Returned
<1>4. /\ \A k \in Chain : inFlight'[k] <=> inFlight[k]
      /\ slots' \in [Chain -> Slot]
      /\ \A k \in Chain \ {h} : slots'[k] = slots[k] /\ (k \in free' <=> k \in free)
      /\ \/ h \notin free' /\ slots'[h].thread = t /\ slots'[h].done = slots[h].done /\ slots'[h].abandoned
         \/ h \in free' /\ slots'[h] = NoSlot /\ ~inFlight[h]
  <2>1. CASE Quarantined(h)
    BY <1>0, <2>1 DEF IInv, TypeInv, Quarantined, Rewrites
  <2>2. CASE slots[h].done /\ Released(h)
    <3>1. slots' \in [Chain -> Slot] /\ slots'[h] = NoSlot /\ \A k \in Chain \ {h} : slots'[k] = slots[k]
      <4>1. slots \in [Chain -> Slot] /\ slots' = [slots EXCEPT ![h] = NoSlot]
        BY <2>2 DEF IInv, TypeInv, Released
      <4> QED BY <1>0, <4>1, SlotCleared DEF Rewrites
    <3>2. free' = free \cup {h} /\ \A k \in Chain : inFlight'[k] <=> inFlight[k]
      BY <1>0, <1>1, <2>2 DEF IInv, TypeInv, Released, free_chain
    <3> QED BY <1>1, <2>2, <3>1, <3>2
  <2> QED BY <2>1, <2>2
<1>5. SlotsOK'
  <2> SUFFICES ASSUME NEW k \in Chain
               PROVE  /\ k \in free' => slots'[k] = NoSlot
                      /\ k \notin free' => slots'[k].thread # None
                      /\ inFlight'[k] => k \notin free' /\ ~slots'[k].done
                      /\ slots'[k].thread # None /\ ~slots'[k].abandoned => head'[slots'[k].thread] = k
    BY DEF SlotsOK
  <2>1. CASE k = h
    BY <1>0, <1>1, <1>4, <2>1, EmptySlot, NoneAssumption
  <2>2. CASE k # h
    <3>1. /\ k \in free => slots[k] = NoSlot
          /\ k \notin free => slots[k].thread # None
          /\ inFlight[k] => k \notin free /\ ~slots[k].done
          /\ slots[k].thread # None /\ ~slots[k].abandoned => head[slots[k].thread] = k
          /\ slots[k].thread \in Caller \cup {None}
      BY DEF IInv, TypeInv, ChainInv, SlotsOK, Slot
    <3> QED BY <1>2, <1>3, <1>4, <2>2, <3>1, SMT
  <2> QED BY <2>1, <2>2
<1>6. HeadsOK'
  <2> SUFFICES ASSUME NEW u \in Caller
               PROVE  /\ head'[u] # None <=> pc'[u] \in Holding
                      /\ head'[u] # None => slots'[head'[u]].thread = u /\ ~slots'[head'[u]].abandoned
                      /\ answer'[u] = "done" => pc'[u] \in {"resolve", "finish"} /\ slots'[head'[u]].done
                      /\ pc'[u] \in {"resolve", "finish"} => answer'[u] \in {"done", "timedout"}
    BY DEF HeadsOK
  <2>1. CASE u = t
    BY <1>3, <2>1 DEF Holding
  <2>2. CASE u # t
    <3>1. head[u] # None => head[u] \in Chain \ {h}
      BY <1>2, <2>2 DEF IInv, TypeInv
    <3>2. answer[u] = "done" => head[u] # None
      BY DEF IInv, ChainInv, HeadsOK, Holding
    <3> QED BY <1>2, <1>4, <2>2, <3>1, <3>2, SMT DEF IInv, ChainInv, HeadsOK
  <2> QED BY <2>1, <2>2
<1>7. DeviceOK' /\ UsedOK'
  <2>1. UNCHANGED <<dev, used, misled, todo>>
    BY DEF Returned, devVars, irqVars
  <2>2. todo' = None
    BY <2>1 DEF Returned
  <2> QED BY <1>4, <2>1, <2>2, RingsSame
<1> QED BY <1>5, <1>6, <1>7 DEF ChainInv

\* The interrupt handler keeps what is known of the device and the used ring: after an
\* entry is taken its chain is not in flight, so either the device has nothing of it or
\* the entry was false and the chain is among the misled.
LEMMA TakeUsedDevice ==
    ASSUME IInv, TakeUsed,
           \A k \in Chain : k # used[1].id => inFlight'[k] = inFlight[k],
           ~Accepts(used[1].id) => UNCHANGED inFlight
    PROVE  DeviceOK' /\ UsedOK'
<1> DEFINE h == used[1].id
<1>1. /\ todo' \in Nat /\ todo' <= Len(used')
      /\ \A i \in 1..Len(used') : used'[i] = used[i + 1] /\ i + 1 \in 1..Len(used) /\ i + 1 # 1
      /\ 1 \in 1..Len(used) /\ \A i, j \in 1..Len(used') : i + 1 = j + 1 => i = j
  BY UsedTail, SMT
<1>2. used[1] = Entry(h, used[1].real) /\ used[1].real \in BOOLEAN
  BY UsedTail, EntryWhole
<1>3. UNCHANGED dev
  BY DEF TakeUsed
<1>4. ASSUME NEW k \in Chain, k \notin misled'
      PROVE  /\ dev'[k] > 0 => inFlight'[k] /\ dev'[k] = 1
             /\ \A i \in 1..Len(used') : used'[i] = Entry(k, TRUE) =>
                   /\ inFlight'[k] /\ dev'[k] = 0
                   /\ \A j \in 1..Len(used') : used'[j] = Entry(k, TRUE) => j = i
  <2>1. \/ ~Owes(k, used')
        \/ k \notin misled /\ ~(k = h /\ Accepts(h) /\ ~used[1].real)
    BY <1>4, UsedTail DEF TakeUsed
  <2>2. CASE ~Owes(k, used')
    BY <1>3, <2>2, UsedTail DEF Owes
  <2>3. CASE k \notin misled /\ k # h
    <3>1. inFlight'[k] = inFlight[k]
      BY <2>3
    <3>2. dev'[k] > 0 => inFlight'[k] /\ dev'[k] = 1
      BY <1>3, <2>3, <3>1 DEF IInv, ChainInv, DeviceOK
    <3>3. ASSUME NEW i \in 1..Len(used'), used'[i] = Entry(k, TRUE)
          PROVE  /\ inFlight'[k] /\ dev'[k] = 0
                 /\ \A j \in 1..Len(used') : used'[j] = Entry(k, TRUE) => j = i
      <4>1. used[i + 1] = Entry(k, TRUE) /\ i + 1 \in 1..Len(used)
        BY <1>1, <3>3
      <4>2. /\ inFlight[k] /\ dev[k] = 0
            /\ \A j \in 1..Len(used) : used[j] = Entry(k, TRUE) => j = i + 1
        BY <2>3, <4>1 DEF IInv, ChainInv, UsedOK
      <4>3. ASSUME NEW j \in 1..Len(used'), used'[j] = Entry(k, TRUE) PROVE j = i
        <5>1. used[j + 1] = Entry(k, TRUE) /\ j + 1 \in 1..Len(used)
          BY <1>1, <4>3
        <5>2. j + 1 = i + 1
          BY <4>2, <5>1
        <5> QED BY <1>1, <5>2
      <4> QED BY <1>3, <3>1, <4>2, <4>3
    <3> QED BY <3>2, <3>3
  <2>4. CASE k \notin misled /\ k = h /\ (~Accepts(h) \/ used[1].real)
    <3>1. CASE ~Accepts(h)
      <4>1. ~inFlight[k] /\ UNCHANGED inFlight
        BY <2>4, <3>1 DEF Accepts
      <4>2. ~(dev[k] > 0) /\ \A i \in 1..Len(used) : used[i] # Entry(k, TRUE)
        BY <2>4, <4>1 DEF IInv, ChainInv, DeviceOK, UsedOK
      <4> QED BY <1>1, <1>3, <4>2
    <3>2. CASE used[1].real
      <4>1. used[1] = Entry(k, TRUE)
        BY <1>2, <2>4, <3>2
      <4>2. dev[k] = 0 /\ \A j \in 1..Len(used) : used[j] = Entry(k, TRUE) => j = 1
        <5>1. 1 \in 1..Len(used) /\ k \in Chain \ misled /\ UsedOK
          BY <1>1, <2>4 DEF IInv, ChainInv
        <5> QED BY <4>1, <5>1 DEF UsedOK
      <4>3. ~(dev'[k] > 0)
        BY <1>3, <4>2, SMT
      <4>4. ASSUME NEW i \in 1..Len(used'), used'[i] = Entry(k, TRUE) PROVE FALSE
        <5>1. used[i + 1] = Entry(k, TRUE) /\ i + 1 \in 1..Len(used) /\ i + 1 # 1
          BY <1>1, <4>4
        <5> QED BY <4>2, <5>1
      <4> QED BY <4>3, <4>4
    <3> QED BY <2>4, <3>1, <3>2
  <2> QED BY <2>1, <2>2, <2>3, <2>4
<1> QED BY <1>1, <1>4 DEF DeviceOK, UsedOK

\* The interrupt handler keeps ChainInv, whatever the entry names: one of a chain that
\* is not in flight is dropped, one of a chain in flight ends its request.
LEMMA TakeUsedChain == ASSUME IInv, TakeUsed PROVE ChainInv'
<1> DEFINE h == used[1].id
<1>0. UNCHANGED <<pc, head, answer>>
  BY TakeUsedEffect DEF threadVars
<1>2. CASE ~Accepts(h)
  <2>1. UNCHANGED <<free, inFlight, slots>>
    BY <1>2, TakeUsedEffect DEF ringVars
  <2>2. SlotsOK' /\ HeadsOK'
    BY <1>0, <2>1 DEF IInv, ChainInv, SlotsOK, HeadsOK
  <2>3. DeviceOK' /\ UsedOK'
    BY <2>1, TakeUsedDevice
  <2> QED BY <2>2, <2>3 DEF ChainInv
<1>3. CASE Accepts(h)
  <2>1. h \in Chain /\ inFlight[h] /\ h \notin free /\ ~slots[h].done
    BY <1>3 DEF Accepts, IInv, ChainInv, SlotsOK
  <2>2. inFlight' = [inFlight EXCEPT ![h] = FALSE]
    <3>1. Released(h) \/ Delivered(h)
      BY <1>3, TakeUsedEffect
    <3> QED BY <3>1 DEF Released, Delivered, free_chain
  <2>3. \A k \in Chain : k # h => inFlight'[k] = inFlight[k]
    BY <2>2 DEF IInv, TypeInv
  <2>4. DeviceOK' /\ UsedOK'
    BY <1>3, <2>3, TakeUsedDevice
  <2>5. CASE slots[h].abandoned
    <3>1. Released(h)
      BY <1>3, <2>5, TakeUsedEffect
    <3>2. /\ slots' \in [Chain -> Slot] /\ slots'[h] = NoSlot
          /\ \A k \in Chain \ {h} : slots'[k] = slots[k]
          /\ free' = free \cup {h}
      <4>1. slots \in [Chain -> Slot] /\ slots' = [slots EXCEPT ![h] = NoSlot] /\ free' = free \cup {h}
        BY <3>1 DEF IInv, TypeInv, Released, free_chain
      <4> QED BY <2>1, <4>1, SlotCleared DEF Rewrites
    <3>3. SlotsOK'
      BY <1>0, <2>1, <2>2, <3>2, EmptySlot, SMTT(40) DEF IInv, TypeInv, ChainInv, SlotsOK
    <3>4. \A t \in Caller : head[t] # h
      BY <2>1, <2>5, NoneAssumption, ZenonT(60) DEF IInv, ChainInv, HeadsOK
    <3>5. \A t \in Caller : head[t] = None \/ head[t] \in Chain \ {h}
      BY <3>4 DEF IInv, TypeInv
    <3>6. HeadsOK'
      BY <1>0, <3>2, <3>5, SMTT(40) DEF IInv, ChainInv, HeadsOK, Holding
    <3> QED BY <2>4, <3>3, <3>6 DEF ChainInv
  <2>6. CASE ~slots[h].abandoned
    <3>1. Delivered(h)
      BY <1>3, <2>6, TakeUsedEffect
    <3>2. SlotsOK'
      BY <1>0, <2>1, <2>2, <2>6, <3>1, SMT DEF IInv, TypeInv, ChainInv, SlotsOK, Delivered, Rewrites
    <3>3. HeadsOK'
      <4>1. \A t \in Caller : head[t] = None \/ head[t] \in Chain
        BY DEF IInv, TypeInv
      <4>2. /\ \A k \in Chain : slots'[k].thread = slots[k].thread /\ (slots'[k].abandoned <=> slots[k].abandoned)
            /\ \A k \in Chain : slots[k].done => slots'[k].done
        BY <2>6, <3>1 DEF Delivered, Rewrites
      <4> QED BY <1>0, <4>1, <4>2, ZenonT(60) DEF IInv, ChainInv, HeadsOK, Holding
    <3> QED BY <2>4, <3>2, <3>3 DEF ChainInv
  <2> QED BY <2>5, <2>6
<1> QED BY <1>2, <1>3

\* The ring still holds what a running interrupt has left to read.
LEMMA UsedCovers ==
    ASSUME IInv, Len(used') = Len(used) + 1, UNCHANGED todo
    PROVE  todo' # None => todo' <= Len(used')
BY SMT DEF IInv, TypeInv, ChainInv, UsedOK

\* A completion keeps ChainInv: the chain passes from the device to its entry.
LEMMA CompleteChain ==
    ASSUME IInv, NEW h \in Chain, DeviceComplete(h)
    PROVE  ChainInv'
<1>0. Entry(h, TRUE) \in UsedEntry
  BY EntryFields
<1>1. /\ Len(used') = Len(used) + 1 /\ used'[Len(used) + 1] = Entry(h, TRUE)
      /\ \A i \in 1..Len(used') : (i \in 1..Len(used) /\ used'[i] = used[i]) \/ i = Len(used) + 1
  <2>1. used \in Seq(UsedEntry) /\ used' = Append(used, Entry(h, TRUE))
    BY DEF DeviceComplete, IInv, TypeInv
  <2> QED BY <1>0, <2>1, UsedAppend
<1>2. SlotsOK' /\ HeadsOK'
  BY DEF IInv, ChainInv, SlotsOK, HeadsOK, DeviceComplete, ringVars, threadVars
<1>3. /\ UNCHANGED <<inFlight, misled, todo>> /\ dev[h] > 0
      /\ dev' = [dev EXCEPT ![h] = @ - 1] /\ dev \in [Chain -> Nat]
  BY DEF IInv, TypeInv, DeviceComplete, ringVars
<1>4. DeviceOK'
  BY <1>3, SMT DEF IInv, ChainInv, DeviceOK
<1>5. h \notin misled => inFlight[h] /\ dev'[h] = 0 /\ \A i \in 1..Len(used) : used[i] # Entry(h, TRUE)
  <2>1. h \notin misled => inFlight[h] /\ dev[h] = 1
    BY <1>3 DEF IInv, ChainInv, DeviceOK
  <2>2. h \notin misled => dev'[h] = 0 /\ dev[h] # 0
    BY <1>3, <2>1, SMT
  <2> QED BY <2>1, <2>2 DEF IInv, ChainInv, UsedOK
<1>6. ASSUME NEW k \in Chain \ misled', NEW i \in 1..Len(used'), used'[i] = Entry(k, TRUE)
      PROVE  /\ inFlight'[k] /\ dev'[k] = 0
             /\ \A j \in 1..Len(used') : used'[j] = Entry(k, TRUE) => j = i
  <2>1. CASE k = h
    <3>1. \A j \in 1..Len(used') : used'[j] = Entry(k, TRUE) => j = Len(used) + 1
      BY <1>1, <1>3, <1>5, <1>6, <2>1
    <3> QED BY <1>3, <1>5, <1>6, <2>1, <3>1
  <2>2. CASE k # h
    <3>1. Entry(k, TRUE) # Entry(h, TRUE)
      <4>1. Entry(k, TRUE).id = k /\ Entry(h, TRUE).id = h
        BY DEF Entry
      <4> QED BY <2>2, <4>1
    <3>2. i \in 1..Len(used) /\ used[i] = Entry(k, TRUE)
      BY <1>1, <1>6, <3>1
    <3>3. /\ inFlight[k] /\ dev[k] = 0
          /\ \A j \in 1..Len(used) : used[j] = Entry(k, TRUE) => j = i
      BY <1>3, <3>2 DEF IInv, ChainInv, UsedOK
    <3>4. \A j \in 1..Len(used') : used'[j] = Entry(k, TRUE) => j = i
      BY <1>1, <3>1, <3>3
    <3> QED BY <1>3, <2>2, <3>3, <3>4
  <2> QED BY <2>1, <2>2
<1>7. UsedOK'
  BY <1>1, <1>3, <1>6, UsedCovers DEF UsedOK
<1> QED BY <1>2, <1>4, <1>7 DEF ChainInv

\* A false entry keeps ChainInv: as long as it waits nothing is said of it.
LEMMA FaultChain ==
    ASSUME IInv, NEW id \in Chain \cup {BadId}, DeviceFault(id)
    PROVE  ChainInv'
<1>0. Entry(id, FALSE) \in UsedEntry /\ \A k : Entry(id, FALSE) # Entry(k, TRUE)
  <2>1. Entry(id, FALSE).real = FALSE /\ \A k : Entry(k, TRUE).real = TRUE
    BY DEF Entry
  <2> QED BY <2>1, EntryFields
<1>1. /\ Len(used') = Len(used) + 1 /\ used'[Len(used) + 1] = Entry(id, FALSE)
      /\ \A i \in 1..Len(used') : (i \in 1..Len(used) /\ used'[i] = used[i]) \/ i = Len(used) + 1
  <2>1. used \in Seq(UsedEntry) /\ used' = Append(used, Entry(id, FALSE))
    BY DEF DeviceFault, IInv, TypeInv
  <2> QED BY <1>0, <2>1, UsedAppend
<1>2. UNCHANGED <<free, inFlight, slots, dev, misled, todo, pc, head, answer>>
  BY DEF DeviceFault, ringVars, threadVars
<1>3. SlotsOK' /\ HeadsOK' /\ DeviceOK'
  BY <1>2 DEF IInv, ChainInv, SlotsOK, HeadsOK, DeviceOK
<1>4. \A k : \A i \in 1..Len(used') : used'[i] = Entry(k, TRUE) => i \in 1..Len(used) /\ used[i] = Entry(k, TRUE)
  BY <1>0, <1>1
<1>5. ASSUME NEW k \in Chain \ misled', NEW i \in 1..Len(used'), used'[i] = Entry(k, TRUE)
      PROVE  /\ inFlight'[k] /\ dev'[k] = 0
             /\ \A j \in 1..Len(used') : used'[j] = Entry(k, TRUE) => j = i
  <2>1. /\ inFlight[k] /\ dev[k] = 0
        /\ \A j \in 1..Len(used) : used[j] = Entry(k, TRUE) => j = i
    BY <1>2, <1>4, <1>5 DEF IInv, ChainInv, UsedOK
  <2> QED BY <1>2, <1>4, <2>1
<1>6. UsedOK'
  BY <1>1, <1>2, <1>5, UsedCovers DEF UsedOK
<1> QED BY <1>3, <1>6 DEF ChainInv

\* Every step keeps ChainInv.
LEMMA ChainStep == ASSUME IInv, Next PROVE ChainInv'
<1>1. ASSUME NEW t \in Caller, Submit(t) PROVE ChainInv'
  <2>1. CASE Refused(t)
    <3>1. pc[t] = "submit" /\ UNCHANGED <<used, misled, todo, answer>>
      BY <1>1, SubmitEffect DEF irqVars
    <3>2. pc' = [pc EXCEPT ![t] = "idle"] /\ UNCHANGED <<ringVars, dev, head>>
      BY <2>1 DEF Refused
    <3>3. DeviceOK' /\ UsedOK'
      BY <3>1, <3>2, RingsSame DEF IInv, ChainInv, UsedOK, ringVars
    <3>4. SlotsOK' /\ HeadsOK'
      BY <3>1, <3>2, SMT DEF IInv, TypeInv, ChainInv, SlotsOK, HeadsOK, ringVars, Holding
    <3> QED BY <3>3, <3>4 DEF ChainInv
  <2>2. ASSUME NEW h \in free, Published(t, h) PROVE ChainInv'
    BY <1>1, <2>2, SubmitEffect, PublishChain DEF irqVars
  <2> QED BY <1>1, <2>1, <2>2, SubmitEffect
<1>2. ASSUME NEW t \in Caller, PollDevice(t) \/ PollTime(t) PROVE ChainInv'
  <2>1. UNCHANGED <<free, inFlight, slots, dev, used, misled, todo, head>>
    BY <1>2 DEF PollDevice, PollTime, ringVars, devVars, irqVars
  <2>2. SlotsOK' /\ DeviceOK' /\ UsedOK'
    BY <2>1, RingsSame DEF IInv, ChainInv, SlotsOK, UsedOK
  <2>3. HeadsOK'
    <3>1. CASE PollDevice(t)
      <4>1. CASE slots[head[t]].done
        BY <2>1, <3>1, <4>1, SMTT(40) DEF IInv, TypeInv, ChainInv, HeadsOK, PollDevice, Holding
      <4>2. CASE ~slots[head[t]].done
        BY <2>1, <3>1, <4>2, SMTT(40) DEF IInv, TypeInv, ChainInv, HeadsOK, PollDevice, Holding
      <4> QED BY <4>1, <4>2
    <3>2. CASE PollTime(t)
      BY <2>1, <3>2, SMT DEF IInv, TypeInv, ChainInv, HeadsOK, PollTime, Holding
    <3> QED BY <1>2, <3>1, <3>2
  <2> QED BY <2>2, <2>3 DEF ChainInv
<1>3. ASSUME NEW t \in Caller, Reserve(t) \/ Park(t) \/ Resume(t) \/ Resolve(t) \/ Cancel(t)
      PROVE  ChainInv'
  <2>1. /\ UNCHANGED <<free, inFlight, slots, dev, used, misled, todo, head, answer>>
        /\ \E p \in Places : pc' = [pc EXCEPT ![t] = p] /\ (p \in Holding <=> pc[t] \in Holding)
                             /\ (p \in {"resolve", "finish"} <=> pc[t] \in {"resolve", "finish"})
    BY <1>3 DEF Reserve, Park, Resume, Resolve, Cancel, ringVars, devVars, irqVars, Places, Holding
  <2>2. SlotsOK' /\ DeviceOK' /\ UsedOK'
    BY <2>1, RingsSame DEF IInv, ChainInv, SlotsOK, UsedOK
  <2>3. HeadsOK'
    BY <2>1, SMT DEF IInv, TypeInv, ChainInv, HeadsOK
  <2> QED BY <2>2, <2>3 DEF ChainInv
<1>4. ASSUME NEW t \in Caller, Finish(t) PROVE ChainInv'
  <2>1. pc[t] \in Holding /\ (answer[t] # "timedout" => slots[head[t]].done)
    <3>1. pc[t] = "finish"
      BY <1>4, FinishEffect
    <3> QED BY <3>1 DEF IInv, ChainInv, HeadsOK, Holding
  <2> QED BY <1>4, <2>1, FinishEffect, ReturnChain
<1>5. ASSUME NEW t \in Caller, RequestDrop(t) PROVE ChainInv'
  <2>1. pc[t] \in Holding /\ answer[t] # "done"
    <3>1. pc[t] = "drop"
      BY <1>5, RequestDropEffect
    <3> QED BY <3>1 DEF IInv, ChainInv, HeadsOK, Holding
  <2> QED BY <1>5, <2>1, RequestDropEffect, ReturnChain
<1>7. ASSUME NEW h \in Chain, DeviceComplete(h) PROVE ChainInv'
  BY <1>7, CompleteChain
<1>8. ASSUME NEW id \in Chain \cup {BadId}, DeviceFault(id) PROVE ChainInv'
  BY <1>8, FaultChain
<1>9. CASE CompletionIrq
  <2>1. UNCHANGED <<free, inFlight, slots, dev, used, misled, pc, head, answer>> /\ todo = None
    BY <1>9 DEF CompletionIrq, DeviceFree, ringVars, devVars, threadVars
  <2>2. Len(used) \in Nat /\ todo' \in {None, Len(used)}
    BY <1>9, SMT DEF IInv, TypeInv, CompletionIrq
  <2>3. todo' <= Len(used')
    BY <2>1, <2>2, SMT DEF None
  <2>4. DeviceOK' /\ UsedOK'
    BY <2>1, <2>3, RingsSame
  <2> QED BY <2>1, <2>4 DEF IInv, ChainInv, SlotsOK, HeadsOK
<1>10. CASE TakeUsed
  BY <1>10, TakeUsedChain
<1>11. CASE CompletionDone
  <2>1. UNCHANGED <<free, inFlight, slots, dev, used, misled, pc, head, answer>> /\ todo = 0 /\ todo' = None
    BY <1>11 DEF CompletionDone, ringVars, devVars, threadVars
  <2>2. DeviceOK' /\ UsedOK'
    BY <2>1, RingsSame
  <2> QED BY <2>1, <2>2 DEF IInv, ChainInv, SlotsOK, HeadsOK
<1>12. CASE ExpireTimers \/ Tick \/ \E t \in Caller : Unpark(t)
  BY <1>12, ChainSame DEF ExpireTimers, Tick, Unpark, devVars, irqVars
<1> QED
  BY <1>1, <1>2, <1>3, <1>4, <1>5, <1>7, <1>8, <1>9, <1>10, <1>11, <1>12 DEF Next, CallerStep, Device, Handlers

\* The driver starts with every chain free and nobody waiting.
LEMMA InitInv == Init => IInv
<1> SUFFICES ASSUME Init PROVE IInv
  OBVIOUS
<1>1. TypeInv
  <2>1. /\ slots \in [Chain -> Slot] /\ used \in Seq(UsedEntry) /\ dev \in [Chain -> Nat]
        /\ inFlight \in [Chain -> BOOLEAN]
    BY EmptySlot, SMT DEF Init
  <2> QED BY <2>1 DEF Init, TypeInv, Places
<1>2. ChainInv
  BY EmptySlot, NoneAssumption, SMT DEF Init, ChainInv, SlotsOK, HeadsOK, DeviceOK, UsedOK, Holding
<1>3. WakeInv
  BY SMT DEF Init, WakeInv
<1> QED BY <1>1, <1>2, <1>3 DEF IInv

\* IInv is inductive.
LEMMA NextInv == IInv /\ [Next]_vars => IInv'
<1> SUFFICES ASSUME IInv, [Next]_vars PROVE IInv'
  OBVIOUS
<1>1. CASE Next
  BY <1>1, TypeStep, ChainStep, WakeStep DEF IInv
<1>2. CASE UNCHANGED vars
  <2>1. ChainInv'
    BY <1>2, ChainSame DEF vars, devVars, irqVars
  <2>2. TypeInv' /\ WakeInv'
    BY <1>2 DEF IInv, TypeInv, WakeInv, Registered, vars, ringVars, devVars, irqVars, timeVars,
        threadVars, parkVars
  <2> QED BY <2>1, <2>2 DEF IInv
<1> QED BY <1>1, <1>2

\* The inductive invariant holds in every reachable state of the driver.
THEOREM InvariantHolds == Spec => []IInv
BY InitInv, NextInv, PTL DEF Spec

\* A chain is on the free list exactly when its slot is vacant, and a slot that is not
\* abandoned names the one request that holds the chain: submit, finish, Request::drop and
\* the interrupt between them neither lose a chain nor give one to two requests.
THEOREM ChainsAreAccounted == Spec => []ChainsAccounted
<1>1. IInv => ChainsAccounted
  <2> SUFFICES ASSUME IInv PROVE ChainsAccounted
    OBVIOUS
  <2>1. FreeOrTracked
    <3> SUFFICES ASSUME NEW h \in Chain PROVE h \in free <=> slots[h] = NoSlot
      BY DEF FreeOrTracked
    <3>1. (h \in free => slots[h] = NoSlot) /\ (h \notin free => slots[h].thread # None)
      BY DEF IInv, ChainInv, SlotsOK
    <3>2. slots[h] = NoSlot => slots[h].thread = None
      BY EmptySlot
    <3> QED BY <3>1, <3>2
  <2>2. SlotNamesHolder
    BY NoneAssumption, SMT DEF IInv, ChainInv, SlotsOK, HeadsOK, SlotNamesHolder
  <2> QED BY <2>1, <2>2 DEF ChainsAccounted
<1> QED BY <1>1, InvariantHolds, PTL

\* What the device holds stays allocated, in flight and unanswered: neither a time-out nor
\* a dropped future nor a used entry that names another chain, or a chain not in flight,
\* frees a bounce buffer the device may still write to.  A false entry that names a chain
\* in flight does, which take_used cannot tell, and nothing is claimed of that chain until
\* the device has returned all it was given of it.
THEOREM DeviceKeepsChain == Spec => []DeviceOwnsChain
<1>1. IInv => DeviceOwnsChain
  <2> SUFFICES ASSUME IInv, NEW h \in DeviceOwned \ misled
               PROVE  /\ h \notin free /\ inFlight[h] /\ ~slots[h].done
                      /\ \A t \in Caller : head[t] = h => answer[t] # "done"
    BY DEF DeviceOwnsChain
  <2>1. h \in Chain /\ inFlight[h]
    BY DEF DeviceOwned, IInv, ChainInv, DeviceOK
  <2>2. h \notin free /\ ~slots[h].done
    BY <2>1 DEF IInv, ChainInv, SlotsOK
  <2> QED BY <2>1, <2>2 DEF IInv, ChainInv, HeadsOK
<1> QED BY <1>1, InvariantHolds, PTL

\* A caller that is parked, or has decided to park, has an armed timer, a wake permit or
\* a wake under way: the driver never puts a thread to sleep that nothing will wake.
THEOREM ParkedCallersAreWoken == Spec => []ParkedHasWaker
<1>1. IInv => ParkedHasWaker
  BY DEF IInv, WakeInv, Registered, ParkedHasWaker
<1> QED BY <1>1, InvariantHolds, PTL


-----------------------------------------------------------------------------
(* The shootdown. *)

Pcs == {"start", "lock", "owner", "clear", "flush", "mask", "acquire", "target", "pending", "ipi",
        "wait", "free", "drop", "release", "done"}
Ents == {Leaf[t] : t \in Threads} \cup {Table[t] : t \in Threads}
ThreadPlaces == [pc : Pcs, irq : BOOLEAN, at : CPUs \cup {NoCpu}, remote : SUBSET CPUs, ent : Ents,
           svc : {"none", "found", "flushed"}, svcCpu : CPUs \cup {NoCpu}]

\* What the argument needs of the types.
TlbTypes ==
    /\ stage \in [CPUs -> {"pen", "open", "online"}]
    /\ th \in [Threads -> ThreadPlaces]
    /\ entry \in [Entries -> {"mapped", "cleared", "free"}]
    /\ tlb \in [CPUs -> SUBSET Entries]
    /\ IN_PROGRESS \in BOOLEAN
    /\ PENDING \subseteq CPUs /\ owed \subseteq CPUs /\ gap \subseteq CPUs

\* Only an update of a thread's place and of the words below can disturb the types.
LEMMA FlushedType ==
    ASSUME TlbTypes, NEW c \in CPUs, NEW target
    PROVE  Flushed(c, target) \in [CPUs -> SUBSET Entries]
BY DEF TlbTypes, Flushed

LEMMA ServiceNowType ==
    ASSUME TlbTypes, NEW c \in CPUs, ServiceNow(c)
    PROVE  tlb' \in [CPUs -> SUBSET Entries] /\ PENDING' \subseteq CPUs /\ owed' \subseteq CPUs
BY FlushedType DEF ServiceNow, TlbTypes

\* A thread's place changes field by field.
LEMMA PlaceMoves ==
    ASSUME NEW r \in ThreadPlaces, NEW p \in Pcs
    PROVE  [r EXCEPT !.pc = p] \in ThreadPlaces
BY DEF ThreadPlaces

LEMMA PlaceMasks ==
    ASSUME NEW r \in ThreadPlaces, NEW p \in Pcs, NEW i \in BOOLEAN
    PROVE  [r EXCEPT !.pc = p, !.irq = i] \in ThreadPlaces
BY DEF ThreadPlaces

LEMMA PlaceFlushes ==
    ASSUME NEW r \in ThreadPlaces, NEW p \in Pcs, NEW d \in CPUs
    PROVE  [r EXCEPT !.pc = p, !.at = d] \in ThreadPlaces
BY DEF ThreadPlaces

LEMMA PlaceReads ==
    ASSUME NEW r \in ThreadPlaces, NEW p \in Pcs, NEW m \in SUBSET CPUs
    PROVE  [r EXCEPT !.pc = p, !.remote = m] \in ThreadPlaces
BY DEF ThreadPlaces

LEMMA PlaceGoesOn ==
    ASSUME NEW r \in ThreadPlaces, NEW p \in Pcs, NEW x \in Ents
    PROVE  [r EXCEPT !.pc = p, !.ent = x, !.at = NoCpu, !.remote = {}] \in ThreadPlaces
BY DEF ThreadPlaces

LEMMA PlaceServes ==
    ASSUME NEW r \in ThreadPlaces, NEW v \in {"none", "found", "flushed"}, NEW d \in CPUs \cup {NoCpu}
    PROVE  [r EXCEPT !.svc = v] \in ThreadPlaces /\ [r EXCEPT !.svc = v, !.svcCpu = d] \in ThreadPlaces
BY DEF ThreadPlaces

LEMMA PlaceType ==
    ASSUME TlbTypes, NEW t \in Threads, NEW r \in ThreadPlaces, th' = [th EXCEPT ![t] = r]
    PROVE  th' \in [Threads -> ThreadPlaces]
BY DEF TlbTypes

LEMMA StepType ==
    ASSUME TlbTypes, NEW t \in Threads, NEW p \in Pcs, Step(t, p)
    PROVE  th' \in [Threads -> ThreadPlaces]
<1>1. th[t] \in ThreadPlaces
  BY DEF TlbTypes
<1>2. th' = [th EXCEPT ![t] = [th[t] EXCEPT !.pc = p]]
  BY DEF Step
<1> QED BY <1>1, <1>2, PlaceMoves, PlaceType

LEMMA ServiceBeginType ==
    ASSUME TlbTypes, NEW c \in CPUs, NEW t \in Threads, ServiceBegin(t, c)
    PROVE  /\ tlb' \in [CPUs -> SUBSET Entries] /\ PENDING' \subseteq CPUs /\ owed' \subseteq CPUs
           /\ th' \in [Threads -> ThreadPlaces]
<1>1. CASE th[t].irq /\ c \in PENDING
  <2>1. th' = [th EXCEPT ![t] = [th[t] EXCEPT !.svc = "found", !.svcCpu = c]]
    BY <1>1 DEF ServiceBegin
  <2>2. th[t] \in ThreadPlaces
    BY DEF TlbTypes
  <2>3. th' \in [Threads -> ThreadPlaces]
    BY <2>1, <2>2, PlaceServes, PlaceType
  <2> QED BY <1>1, <2>3 DEF ServiceBegin, TlbTypes
<1>2. CASE th[t].irq /\ c \notin PENDING
  BY <1>2 DEF ServiceBegin, TlbTypes
<1>3. CASE ~th[t].irq
  BY <1>3, ServiceNowType DEF ServiceBegin, TlbTypes
<1> QED BY <1>1, <1>2, <1>3

\* The initial state and every step keep the types.
LEMMA InitType == TlbInit => TlbTypes
<1> SUFFICES ASSUME TlbInit PROVE TlbTypes
  OBVIOUS
<1>1. \A t \in Threads : Leaf[t] \in Ents
  BY DEF Ents
<1>2. th \in [Threads -> ThreadPlaces]
  BY <1>1 DEF TlbInit, ThreadPlaces, Pcs
<1> QED BY <1>2 DEF TlbInit, TlbTypes

LEMMA LockType ==
    ASSUME TlbTypes, NEW c \in CPUs, NEW t \in Threads,
           \/ LockBegin(t, c) \/ LockSpin(t, c) \/ TryLock(t, c) \/ EnteredLock(t, c)
           \/ GuardDrop(t, c) \/ Release(t, c)
    PROVE  TlbTypes'
<1> USE DEF cpus, mem, prot, locks
<1>0. th[t] \in ThreadPlaces /\ {"lock", "owner", "clear", "drop", "release", "done"} \subseteq Pcs
  BY DEF TlbTypes, Pcs
<1>1. CASE LockBegin(t, c)
  <2>1. \/ th' = [th EXCEPT ![t] = [th[t] EXCEPT !.pc = "lock", !.irq = FALSE]]
        \/ Step(t, "clear")
    BY <1>1 DEF LockBegin, Step
  <2>2. th' \in [Threads -> ThreadPlaces]
    BY <1>0, <2>1, PlaceMasks, PlaceType, StepType
  <2> QED BY <1>1, <2>2 DEF LockBegin, TlbTypes
<1>2. CASE LockSpin(t, c)
  BY <1>2, ServiceBeginType DEF LockSpin, service_while_waiting, TlbTypes
<1>3. CASE TryLock(t, c)
  <2>1. th' \in [Threads -> ThreadPlaces]
    BY <1>0, <1>3, StepType DEF TryLock
  <2> QED BY <1>3, <2>1 DEF TryLock, TlbTypes
<1>4. CASE EnteredLock(t, c)
  <2>1. th' \in [Threads -> ThreadPlaces]
    BY <1>0, <1>4, StepType DEF EnteredLock
  <2> QED BY <1>4, <2>1 DEF EnteredLock, TlbTypes
<1>5. CASE GuardDrop(t, c)
  <2>1. th' \in [Threads -> ThreadPlaces]
    BY <1>0, <1>5, StepType DEF GuardDrop
  <2> QED BY <1>5, <2>1 DEF GuardDrop, TlbTypes
<1>6. CASE Release(t, c)
  <2>1. th' = [th EXCEPT ![t] = [th[t] EXCEPT !.pc = "done", !.irq = TRUE]]
    BY <1>6 DEF Release
  <2>2. th' \in [Threads -> ThreadPlaces]
    BY <1>0, <2>1, PlaceMasks, PlaceType
  <2> QED BY <1>6, <2>2 DEF Release, TlbTypes
<1> QED BY <1>1, <1>2, <1>3, <1>4, <1>5, <1>6

LEMMA UnmapType ==
    ASSUME TlbTypes, NEW c \in CPUs, NEW t \in Threads,
           \/ ClearEntry(t, c) \/ FlushLocal(t, c) \/ ReadMask(t, c) \/ Free(t, c)
           \/ ServiceInvalidate(t, c) \/ ServiceAck(t, c)
    PROVE  TlbTypes'
<1> USE DEF cpus, mem, prot, locks
<1>0. th[t] \in ThreadPlaces /\ {"clear", "flush", "mask", "free", "acquire", "drop", "done"} \subseteq Pcs
  BY DEF TlbTypes, Pcs
<1>1. CASE ClearEntry(t, c)
  <2>1. th' \in [Threads -> ThreadPlaces]
    BY <1>0, <1>1, StepType DEF ClearEntry
  <2>2. entry' \in [Entries -> {"mapped", "cleared", "free"}]
    BY <1>1 DEF ClearEntry, TlbTypes
  <2> QED BY <1>1, <2>1, <2>2 DEF ClearEntry, TlbTypes
<1>2. CASE FlushLocal(t, c)
  <2>1. tlb' \in [CPUs -> SUBSET Entries]
    BY <1>2, FlushedType DEF FlushLocal
  <2>2. th' = [th EXCEPT ![t] = [th[t] EXCEPT !.pc = "mask", !.at = c]]
    BY <1>2 DEF FlushLocal
  <2>3. th' \in [Threads -> ThreadPlaces]
    BY <1>0, <2>2, PlaceFlushes, PlaceType
  <2> QED BY <1>2, <2>1, <2>3 DEF FlushLocal, TlbTypes
<1>3. CASE ReadMask(t, c)
  <2> DEFINE m == remote_mask(online_mask, c)
             p == IF m = {} THEN "free" ELSE "acquire"
  <2>1. m \in SUBSET CPUs /\ p \in Pcs
    BY <1>0 DEF remote_mask, online_mask
  <2>2. th' = [th EXCEPT ![t] = [th[t] EXCEPT !.pc = p, !.remote = m]]
    BY <1>3 DEF ReadMask
  <2> HIDE DEF m, p
  <2>3. th' \in [Threads -> ThreadPlaces]
    BY <1>0, <2>1, <2>2, PlaceReads, PlaceType
  <2> QED BY <1>3, <2>3 DEF ReadMask, TlbTypes
<1>4. CASE Free(t, c)
  <2> DEFINE more == Table[t] # NoEntry /\ th[t].ent # Table[t]
             p == IF more THEN "clear" ELSE IF t \in Holders THEN "drop" ELSE "done"
             x == IF more THEN Table[t] ELSE th[t].ent
  <2>1. Table[t] \in Ents /\ th[t].ent \in Ents
    BY <1>0 DEF Ents, ThreadPlaces
  <2>2. p \in Pcs /\ x \in Ents
    BY <1>0, <2>1
  <2>3. th' = [th EXCEPT ![t] = [th[t] EXCEPT !.pc = p, !.ent = x, !.at = NoCpu, !.remote = {}]]
    BY <1>4 DEF Free
  <2> HIDE DEF p, x
  <2>4. th' \in [Threads -> ThreadPlaces]
    BY <1>0, <2>2, <2>3, PlaceGoesOn, PlaceType
  <2>5. entry' \in [Entries -> {"mapped", "cleared", "free"}]
    BY <1>4 DEF Free, TlbTypes
  <2> QED BY <1>4, <2>4, <2>5 DEF Free, TlbTypes
<1>5. CASE ServiceInvalidate(t, c)
  <2>1. tlb' \in [CPUs -> SUBSET Entries]
    BY <1>5, FlushedType DEF ServiceInvalidate
  <2>2. th' = [th EXCEPT ![t] = [th[t] EXCEPT !.svc = "flushed"]]
    BY <1>5 DEF ServiceInvalidate
  <2>3. th' \in [Threads -> ThreadPlaces]
    BY <1>0, <2>2, PlaceServes, PlaceType
  <2> QED BY <1>5, <2>1, <2>3 DEF ServiceInvalidate, TlbTypes
<1>6. CASE ServiceAck(t, c)
  <2>1. th' = [th EXCEPT ![t] = [th[t] EXCEPT !.svc = "none", !.svcCpu = NoCpu]]
    BY <1>6 DEF ServiceAck
  <2>2. th' \in [Threads -> ThreadPlaces]
    BY <1>0, <2>1, PlaceServes, PlaceType
  <2> QED BY <1>6, <2>2, SMT DEF ServiceAck, TlbTypes
<1> QED BY <1>1, <1>2, <1>3, <1>4, <1>5, <1>6

LEMMA ProtocolType ==
    ASSUME TlbTypes, NEW c \in CPUs, NEW t \in Threads,
           \/ Acquire(t, c) \/ AcquireSpin(t, c) \/ StoreTarget(t, c) \/ StorePending(t, c)
           \/ send_ipi_all_excluding_self(t, c) \/ WaitSpin(t, c) \/ EndShootdown(t, c)
    PROVE  TlbTypes'
<1> USE DEF cpus, mem, prot, locks
<1>0. th[t] \in ThreadPlaces /\ {"target", "pending", "ipi", "wait", "free"} \subseteq Pcs
  BY DEF TlbTypes, Pcs
<1>1. CASE Acquire(t, c)
  <2>1. th' \in [Threads -> ThreadPlaces]
    BY <1>0, <1>1, StepType DEF Acquire
  <2> QED BY <1>1, <2>1 DEF Acquire, TlbTypes
<1>2. CASE AcquireSpin(t, c)
  BY <1>2, ServiceBeginType DEF AcquireSpin, TlbTypes
<1>3. CASE StoreTarget(t, c)
  <2>1. th' \in [Threads -> ThreadPlaces]
    BY <1>0, <1>3, StepType DEF StoreTarget
  <2> QED BY <1>3, <2>1 DEF StoreTarget, TlbTypes
<1>4. CASE StorePending(t, c)
  <2>1. th' \in [Threads -> ThreadPlaces]
    BY <1>0, <1>4, StepType DEF StorePending
  <2>2. th[t].remote \subseteq CPUs
    BY <1>0 DEF ThreadPlaces
  <2> QED BY <1>4, <2>1, <2>2 DEF StorePending, TlbTypes
<1>5. CASE send_ipi_all_excluding_self(t, c)
  <2>1. th' \in [Threads -> ThreadPlaces]
    BY <1>0, <1>5, StepType DEF send_ipi_all_excluding_self
  <2> QED BY <1>5, <2>1 DEF send_ipi_all_excluding_self, TlbTypes
<1>6. CASE WaitSpin(t, c)
  BY <1>6, ServiceBeginType DEF WaitSpin, TlbTypes
<1>7. CASE EndShootdown(t, c)
  <2>1. th' \in [Threads -> ThreadPlaces]
    BY <1>0, <1>7, StepType DEF EndShootdown
  <2> QED BY <1>7, <2>1 DEF EndShootdown, TlbTypes
<1> QED BY <1>1, <1>2, <1>3, <1>4, <1>5, <1>6, <1>7

LEMMA NextType ==
    ASSUME TlbTypes, [TlbNext]_tlbVars
    PROVE  TlbTypes'
<1> USE DEF cpus, mem, prot, locks
<1>1. ASSUME NEW c \in CPUs, Bringup(c) PROVE TlbTypes'
  BY <1>1 DEF Bringup, After, TlbTypes
<1>2. ASSUME NEW c \in CPUs, Access(c) PROVE TlbTypes'
  BY <1>2 DEF Access, TlbTypes
<1>3. ASSUME NEW c \in CPUs, shootdown_handler(c) PROVE TlbTypes'
  BY <1>3, ServiceNowType DEF shootdown_handler, TlbTypes
<1>4. ASSUME NEW c \in CPUs, NEW t, Dispatch(c, t) \/ Preempt(c, t) PROVE TlbTypes'
  BY <1>4 DEF Dispatch, Preempt, TlbTypes
<1>5. CASE UNCHANGED tlbVars
  BY <1>5 DEF tlbVars, TlbTypes
<1> QED
  BY <1>1, <1>2, <1>3, <1>4, <1>5, LockType, UnmapType, ProtocolType DEF TlbNext, ThreadStep, Quiet

-----------------------------------------------------------------------------
(* The steps, by what they do to the protocol. *)

\* The pcs from clearing an entry to handing its frame back.
Working == {"flush", "mask", "acquire", "target", "pending", "ipi", "wait", "free"}

\* Threads keep the fields the argument is about, or one of them moves to p.
SameFields ==
    \A u \in Threads : /\ th'[u].pc = th[u].pc /\ th'[u].ent = th[u].ent
                       /\ th'[u].at = th[u].at /\ th'[u].remote = th[u].remote
Moves(t, p) ==
    /\ th'[t].pc = p /\ th'[t].ent = th[t].ent /\ th'[t].at = th[t].at /\ th'[t].remote = th[t].remote
    /\ \A u \in Threads : u # t => th'[u] = th[u]

LEMMA StepMoves ==
    ASSUME TlbTypes, NEW t \in Threads, NEW p, Step(t, p)
    PROVE  Moves(t, p)
BY DEF TlbTypes, ThreadPlaces, Step, Moves

\* A processor comes up, a thread is moved, or one that is not working takes a step.
Calm ==
    /\ UNCHANGED <<entry, tlb, gap, IN_PROGRESS, TARGET, PENDING, owed>>
    /\ \A c \in CPUs : stage[c] = "online" => stage'[c] = "online"
    /\ \/ SameFields
       \/ \E t \in Threads : /\ th[t].pc \notin Working
                             /\ \E p \in Pcs \ Working : Moves(t, p)

\* A processor invalidates what TARGET names, and may clear its bit.
Serve(c) ==
    /\ SameFields /\ UNCHANGED <<entry, gap, IN_PROGRESS, TARGET, stage>>
    /\ tlb' = Flushed(c, TARGET) /\ owed' = owed \ {c} /\ PENDING' \in {PENDING, PENDING \ {c}}

\* A bit is cleared late.
Ack(k) ==
    /\ SameFields /\ UNCHANGED <<entry, tlb, IN_PROGRESS, TARGET, owed, stage>>
    /\ PENDING' = PENDING \ {k}
    /\ gap' = IF k \in PENDING \cap owed THEN gap \cup {k} ELSE gap

LEMMA ServiceNowKinds ==
    ASSUME NEW c \in CPUs, ServiceNow(c), UNCHANGED <<stage, th, entry, gap, IN_PROGRESS, TARGET>>
    PROVE  Calm \/ Serve(c)
<1>1. SameFields
  BY DEF SameFields
<1> QED BY <1>1 DEF ServiceNow, Calm, Serve

LEMMA ServiceBeginKinds ==
    ASSUME TlbTypes, NEW c \in CPUs, NEW t \in Threads, ServiceBegin(t, c),
           UNCHANGED <<stage, entry, gap, IN_PROGRESS, TARGET>>
    PROVE  Calm \/ Serve(c)
<1>1. CASE ~th[t].irq
  BY <1>1, ServiceNowKinds DEF ServiceBegin
<1>2. CASE th[t].irq
  <2>1. SameFields
    <3>1. CASE th' = th
      BY <3>1 DEF SameFields
    <3>2. CASE th' = [th EXCEPT ![t].svc = "found", ![t].svcCpu = c]
      BY <3>2, ZenonT(60) DEF SameFields, TlbTypes, ThreadPlaces
    <3> QED BY <1>2, <3>1, <3>2 DEF ServiceBegin
  <2> QED BY <1>2, <2>1 DEF ServiceBegin, Calm
<1> QED BY <1>1, <1>2

\* What acts on the protocol and is none of the above.
Acts(t, c) ==
    \/ ClearEntry(t, c) \/ FlushLocal(t, c) \/ ReadMask(t, c)
    \/ Acquire(t, c) \/ StoreTarget(t, c) \/ StorePending(t, c)
    \/ send_ipi_all_excluding_self(t, c) \/ EndShootdown(t, c) \/ Free(t, c)

LEMMA LockKinds ==
    ASSUME TlbTypes, NEW c \in CPUs, NEW t \in Threads,
           \/ LockBegin(t, c) \/ TryLock(t, c) \/ EnteredLock(t, c) \/ GuardDrop(t, c) \/ Release(t, c)
    PROVE  Calm
<1> USE DEF cpus, mem, prot, locks
<1>0. th \in [Threads -> ThreadPlaces]
  BY DEF TlbTypes
<1>1. /\ UNCHANGED <<entry, tlb, gap, IN_PROGRESS, TARGET, PENDING, owed, stage>>
      /\ th[t].pc \in {"start", "lock", "owner", "drop", "release"}
  BY DEF LockBegin, TryLock, EnteredLock, GuardDrop, Release, At
<1>2. \E p \in {"lock", "clear", "owner", "drop", "release", "done"} : Moves(t, p)
  <2>1. CASE LockBegin(t, c)
    <3>1. CASE th' = [th EXCEPT ![t].pc = "lock", ![t].irq = FALSE]
      <4>1. Moves(t, "lock")
        BY <1>0, <3>1 DEF ThreadPlaces, Moves
      <4> QED BY <4>1
    <3>2. CASE Step(t, "clear")
      BY <3>2, StepMoves
    <3> QED BY <2>1, <3>1, <3>2 DEF LockBegin, Step
  <2>2. CASE TryLock(t, c) \/ EnteredLock(t, c) \/ GuardDrop(t, c)
    BY <2>2, StepMoves DEF TryLock, EnteredLock, GuardDrop
  <2>3. CASE Release(t, c)
    <3>1. Moves(t, "done")
      BY <1>0, <2>3, ZenonT(60) DEF Release, ThreadPlaces, Moves
    <3> QED BY <3>1
  <2> QED BY <2>1, <2>2, <2>3
<1>3. \E p \in Pcs \ Working : Moves(t, p)
  BY <1>2 DEF Pcs, Working
<1> QED BY <1>1, <1>3 DEF Calm, Working

LEMMA Kinds ==
    ASSUME TlbTypes, [TlbNext]_tlbVars
    PROVE  \/ Calm \/ \E c \in CPUs : Serve(c) \/ Access(c)
           \/ \E k : Ack(k)
           \/ \E t \in Threads, c \in CPUs : Acts(t, c)
<1> USE DEF cpus, mem, prot, locks
<1>s. (th' = th) => SameFields
  BY DEF SameFields
<1>1. ASSUME NEW c \in CPUs, Bringup(c) PROVE Calm
  BY <1>s, <1>1 DEF Bringup, Calm, TlbTypes
<1>2. ASSUME NEW c \in CPUs, shootdown_handler(c) PROVE Calm \/ Serve(c)
  BY <1>2, ServiceNowKinds DEF shootdown_handler
<1>3. ASSUME NEW c \in CPUs, NEW t, Dispatch(c, t) \/ Preempt(c, t) PROVE Calm
  BY <1>s, <1>3 DEF Dispatch, Preempt, Calm
<1>4. CASE UNCHANGED tlbVars
  BY <1>s, <1>4 DEF tlbVars, Calm
<1>5. ASSUME NEW c \in CPUs, NEW t \in Threads, LockSpin(t, c) \/ AcquireSpin(t, c) \/ WaitSpin(t, c)
      PROVE  Calm \/ Serve(c)
  BY <1>5, ServiceBeginKinds DEF LockSpin, AcquireSpin, WaitSpin, service_while_waiting
<1>6. ASSUME NEW c \in CPUs, NEW t \in Threads, ServiceInvalidate(t, c) PROVE Serve(c)
  <2>1. SameFields
    BY <1>6, ZenonT(60) DEF ServiceInvalidate, SameFields, TlbTypes, ThreadPlaces
  <2> QED BY <1>6, <2>1 DEF ServiceInvalidate, Serve
<1>7. ASSUME NEW c \in CPUs, NEW t \in Threads, ServiceAck(t, c) PROVE \E k : Ack(k)
  <2>1. SameFields
    BY <1>7, SMT DEF ServiceAck, SameFields, TlbTypes, ThreadPlaces
  <2>2. Ack(th[t].svcCpu)
    BY <1>7, <2>1 DEF ServiceAck, Ack
  <2> QED BY <2>2
<1> QED
  BY <1>1, <1>2, <1>3, <1>4, <1>5, <1>6, <1>7, LockKinds DEF TlbNext, ThreadStep, Quiet, Acts

-----------------------------------------------------------------------------
(* One initiator at a time. *)

\* A step that leaves everybody inside or outside, and sets no bit, keeps it.
LEMMA KeepsOne ==
    ASSUME OneShootdown, IN_PROGRESS' = IN_PROGRESS, PENDING' \subseteq PENDING,
           \A u \in Threads :
              /\ th'[u].pc \in {"target", "pending", "ipi", "wait"}
                    <=> th[u].pc \in {"target", "pending", "ipi", "wait"}
              /\ th[u].pc \in {"ipi", "wait"} =>
                    th'[u].pc \in {"ipi", "wait"} /\ th'[u].remote = th[u].remote
    PROVE  OneShootdown'
<1>1. Inside' = Inside
  BY DEF Inside
<1>2. ASSUME PENDING' # {}
      PROVE  \E t \in Inside' : th'[t].pc \in {"ipi", "wait"} /\ PENDING' \subseteq th'[t].remote
  <2>1. PICK t \in Inside : th[t].pc \in {"ipi", "wait"} /\ PENDING \subseteq th[t].remote
    BY <1>2 DEF OneShootdown
  <2> QED BY <1>1, <2>1 DEF Inside
<1> QED BY <1>1, <1>2 DEF OneShootdown

LEMMA ActsOne ==
    ASSUME TlbTypes, OneShootdown, NEW t \in Threads, NEW c \in CPUs, Acts(t, c)
    PROVE  OneShootdown'
<1> USE DEF cpus, mem, prot, locks
<1>0. th \in [Threads -> ThreadPlaces]
  BY DEF TlbTypes
<1>1. CASE ClearEntry(t, c) \/ StoreTarget(t, c) \/ send_ipi_all_excluding_self(t, c)
  <2>2. \A u \in Threads :
            /\ th'[u].pc \in {"target", "pending", "ipi", "wait"}
                  <=> th[u].pc \in {"target", "pending", "ipi", "wait"}
            /\ th[u].pc \in {"ipi", "wait"} =>
                  th'[u].pc \in {"ipi", "wait"} /\ th'[u].remote = th[u].remote
    BY <1>1, StepMoves, SMT DEF ClearEntry, StoreTarget, send_ipi_all_excluding_self, Moves, At
  <2> QED BY <1>1, <2>2, KeepsOne DEF ClearEntry, StoreTarget, send_ipi_all_excluding_self
<1>2. CASE FlushLocal(t, c) \/ ReadMask(t, c) \/ Free(t, c)
  <2>1. /\ th[t].pc \in {"flush", "mask", "free"}
        /\ th'[t].pc \in {"mask", "free", "acquire", "clear", "drop", "done"}
        /\ \A u \in Threads : u # t => th'[u] = th[u]
    BY <1>0, <1>2, SMT DEF FlushLocal, ReadMask, Free, At, ThreadPlaces
  <2>2. \A u \in Threads :
            /\ th'[u].pc \in {"target", "pending", "ipi", "wait"}
                  <=> th[u].pc \in {"target", "pending", "ipi", "wait"}
            /\ th[u].pc \in {"ipi", "wait"} =>
                  th'[u].pc \in {"ipi", "wait"} /\ th'[u].remote = th[u].remote
    BY <2>1
  <2> QED BY <1>2, <2>2, KeepsOne DEF FlushLocal, ReadMask, Free
<1>3. CASE Acquire(t, c)
  <2>1. Inside = {} /\ PENDING = {}
    BY <1>3 DEF Acquire, OneShootdown
  <2>2. Moves(t, "target")
    BY <1>3, StepMoves DEF Acquire
  <2>3. Inside' = {t}
    BY <2>1, <2>2 DEF Inside, Moves
  <2> QED BY <1>3, <2>1, <2>3 DEF OneShootdown, Acquire
<1>4. CASE StorePending(t, c)
  <2>1. Moves(t, "ipi") /\ th[t].pc = "pending"
    BY <1>4, StepMoves DEF StorePending, At
  <2>2. Inside' = Inside /\ t \in Inside
    BY <2>1 DEF Inside, Moves
  <2>3. th'[t].pc = "ipi" /\ PENDING' = th'[t].remote
    BY <1>4, <2>1 DEF StorePending, Moves
  <2> QED BY <1>4, <2>2, <2>3 DEF OneShootdown, StorePending
<1>5. CASE EndShootdown(t, c)
  <2>1. Moves(t, "free") /\ th[t].pc = "wait" /\ PENDING = {}
    BY <1>5, StepMoves DEF EndShootdown, At
  <2>2. t \in Inside
    BY <2>1 DEF Inside
  <2>3. Inside' = {}
    BY <2>1, <2>2, SMT DEF Inside, Moves, OneShootdown
  <2> QED BY <1>5, <2>1, <2>3 DEF OneShootdown, EndShootdown
<1> QED BY <1>1, <1>2, <1>3, <1>4, <1>5 DEF Acts

LEMMA NextOne ==
    ASSUME TlbTypes, OneShootdown, [TlbNext]_tlbVars
    PROVE  OneShootdown'
<1>1. CASE Calm
  BY <1>1, KeepsOne DEF Calm, SameFields, Moves, Working
<1>2. ASSUME NEW c \in CPUs, Serve(c) PROVE OneShootdown'
  BY <1>2, KeepsOne DEF Serve, SameFields
<1>3. ASSUME NEW c \in CPUs, Access(c) PROVE OneShootdown'
  BY <1>3, KeepsOne DEF Access, prot
<1>4. ASSUME NEW k, Ack(k) PROVE OneShootdown'
  BY <1>4, KeepsOne DEF Ack, SameFields
<1> QED BY <1>1, <1>2, <1>3, <1>4, Kinds, ActsOne

LEMMA InitOne == TlbInit => OneShootdown
BY SMT DEF TlbInit, OneShootdown, Inside

\* For every number of processors and threads, and whoever is preempted where: at
\* most one thread is between taking IN_PROGRESS and releasing it, and bits of
\* PENDING are only set for its shootdown (tlb::shootdown).
THEOREM OneInitiator == TlbSpec => []OneShootdown
<1>1. TlbInit => TlbTypes /\ OneShootdown
  BY InitType, InitOne
<1>2. TlbTypes /\ OneShootdown /\ [TlbNext]_tlbVars => (TlbTypes /\ OneShootdown)'
  BY NextType, NextOne
<1> QED BY <1>1, <1>2, PTL DEF TlbSpec

-----------------------------------------------------------------------------
(* Staleness. *)

\* The processors outside the windows that still cache x.
Stale(x) == {d \in CPUs \ gap : x \in tlb[d]}

\* Nothing is cached where nobody runs yet, unless that window was hit.
OfflineOK == \A c \in CPUs \ gap : stage[c] # "online" => tlb[c] = {}

\* What the thread's progress through unmap and shootdown has established: who may
\* still cache its entry, and that the words it shares are about its shootdown.
WordsOK(t) ==
    /\ th[t].pc \in {"pending", "ipi", "wait"} => TARGET = TargetOf(t)
    /\ th[t].pc \in {"ipi", "wait"} => owed \subseteq PENDING \cup gap
EntryOK(t, x) ==
    /\ th[t].pc \in Working => entry[x] # "mapped"
    /\ th[t].pc = "mask" => th[t].at \notin Stale(x)
    /\ th[t].pc \in {"acquire", "target", "pending"} => Stale(x) \subseteq th[t].remote
    /\ th[t].pc \in {"ipi", "wait"} => Stale(x) \subseteq owed
    /\ th[t].pc = "free" => Stale(x) = {}
ThreadsOK == \A t \in Threads : WordsOK(t) /\ \A x \in Entries : th[t].ent = x => EntryOK(t, x)

StaleInv == TlbTypes /\ OneShootdown /\ OfflineOK /\ NoStaleOutsideWindows /\ ThreadsOK

\* Unmapped entries stay unmapped and are cached by no more processors.
Shrinks == \A x \in Entries : entry[x] # "mapped" => entry'[x] # "mapped" /\ Stale(x)' \subseteq Stale(x)

LEMMA Shrinking ==
    ASSUME gap \subseteq gap',
           \A x \in Entries : entry[x] # "mapped" => entry'[x] # "mapped",
           \A c \in CPUs, x \in Entries : x \in tlb'[c] => x \in tlb[c] \/ entry[x] = "mapped"
    PROVE  Shrinks
BY DEF Shrinks, Stale

LEMMA FlushedLess ==
    ASSUME TlbTypes, NEW c \in CPUs, NEW target, tlb' = Flushed(c, target)
    PROVE  /\ \A d \in CPUs : tlb'[d] \subseteq tlb[d]
           /\ \A x \in Entries : target \in {ALL, x} => x \notin tlb'[c]
BY DEF TlbTypes, Flushed

\* A thread that keeps its place keeps what it has established.
LEMMA KeepsThread ==
    ASSUME NEW t \in Threads, WordsOK(t), Shrinks,
           \A x \in Entries : th[t].ent = x => EntryOK(t, x),
           th'[t].pc = th[t].pc, th'[t].ent = th[t].ent, th'[t].at = th[t].at,
           th'[t].remote = th[t].remote,
           th[t].pc \in {"pending", "ipi", "wait"} => TARGET' = TARGET,
           th[t].pc \in {"ipi", "wait"} =>
              /\ owed' \subseteq PENDING' \cup gap'
              /\ \A x \in Entries : th[t].ent = x => Stale(x)' \subseteq owed'
    PROVE  WordsOK(t)' /\ \A x \in Entries : th'[t].ent = x => EntryOK(t, x)'
<1>1. WordsOK(t)'
  BY DEF WordsOK, TargetOf
<1>2. ASSUME NEW x \in Entries, th'[t].ent = x PROVE EntryOK(t, x)'
  <2>1. EntryOK(t, x)
    BY <1>2
  <2>2. th[t].pc \in Working => entry'[x] # "mapped" /\ Stale(x)' \subseteq Stale(x)
    BY <2>1 DEF EntryOK, Shrinks
  <2>3. th[t].pc \in {"ipi", "wait"} => Stale(x)' \subseteq owed'
    BY <1>2
  <2> HIDE DEF Stale
  <2> QED BY <2>1, <2>2, <2>3 DEF EntryOK, Working
<1> QED BY <1>1, <1>2

\* A thread that is not working has established nothing.
LEMMA RestsOK ==
    ASSUME NEW t \in Threads, th'[t].pc \notin Working
    PROVE  WordsOK(t)' /\ \A x \in Entries : EntryOK(t, x)'
BY DEF WordsOK, EntryOK, Working

LEMMA CalmStale ==
    ASSUME StaleInv, Calm
    PROVE  OfflineOK' /\ NoStaleOutsideWindows' /\ ThreadsOK'
<1>1. OfflineOK' /\ NoStaleOutsideWindows'
  BY DEF StaleInv, Calm, OfflineOK, NoStaleOutsideWindows
<1>2. Shrinks
  BY Shrinking DEF Calm
<1>3. ASSUME NEW u \in Threads
      PROVE  WordsOK(u)' /\ \A x \in Entries : th'[u].ent = x => EntryOK(u, x)'
  <2>1. CASE /\ th'[u].pc = th[u].pc /\ th'[u].ent = th[u].ent
             /\ th'[u].at = th[u].at /\ th'[u].remote = th[u].remote
    <3>1. WordsOK(u) /\ \A x \in Entries : th[u].ent = x => EntryOK(u, x)
      BY DEF StaleInv, ThreadsOK
    <3>2. th[u].pc \in {"ipi", "wait"} =>
              /\ owed' \subseteq PENDING' \cup gap'
              /\ \A x \in Entries : th[u].ent = x => Stale(x)' \subseteq owed'
      BY <3>1 DEF Calm, WordsOK, EntryOK, Stale
    <3>3. TARGET' = TARGET
      BY DEF Calm
    <3> QED BY <1>2, <2>1, <3>1, <3>2, <3>3, KeepsThread
  <2>2. CASE th'[u].pc \notin Working
    BY <2>2, RestsOK
  <2> QED BY <2>1, <2>2 DEF Calm, SameFields, Moves
<1> QED BY <1>1, <1>3 DEF ThreadsOK

LEMMA ServeStale ==
    ASSUME StaleInv, NEW c \in CPUs, Serve(c)
    PROVE  OfflineOK' /\ NoStaleOutsideWindows' /\ ThreadsOK'
<1>0. TlbTypes /\ tlb' = Flushed(c, TARGET)
  BY DEF StaleInv, Serve
<1>1. /\ \A d \in CPUs : tlb'[d] \subseteq tlb[d]
      /\ \A x \in Entries : TARGET \in {ALL, x} => x \notin tlb'[c]
  BY <1>0, FlushedLess
<1>2. OfflineOK' /\ NoStaleOutsideWindows'
  BY <1>1 DEF StaleInv, Serve, OfflineOK, NoStaleOutsideWindows
<1>3. Shrinks
  BY <1>1, Shrinking DEF Serve
<1>4. ASSUME NEW u \in Threads
      PROVE  WordsOK(u)' /\ \A x \in Entries : th'[u].ent = x => EntryOK(u, x)'
  <2>1. WordsOK(u) /\ \A x \in Entries : th[u].ent = x => EntryOK(u, x)
    BY DEF StaleInv, ThreadsOK
  <2>2. ASSUME th[u].pc \in {"ipi", "wait"}
        PROVE  /\ owed' \subseteq PENDING' \cup gap'
               /\ \A x \in Entries : th[u].ent = x => Stale(x)' \subseteq owed'
    <3>1. owed' \subseteq PENDING' \cup gap'
      BY <2>1, <2>2 DEF Serve, WordsOK
    <3>2. ASSUME NEW x \in Entries, th[u].ent = x PROVE Stale(x)' \subseteq owed'
      <4>1. TARGET \in {ALL, x} /\ Stale(x) \subseteq owed
        BY <2>1, <2>2, <3>2 DEF WordsOK, TargetOf, EntryOK
      <4>2. x \notin tlb'[c]
        BY <1>1, <4>1
      <4>3. \A d \in CPUs : x \in tlb'[d] => x \in tlb[d]
        BY <1>1
      <4> QED BY <4>1, <4>2, <4>3 DEF Stale, Serve
    <3> QED BY <3>1, <3>2
  <2>3. TARGET' = TARGET /\ th'[u].pc = th[u].pc /\ th'[u].ent = th[u].ent
        /\ th'[u].at = th[u].at /\ th'[u].remote = th[u].remote
    BY DEF Serve, SameFields
  <2> QED BY <1>3, <2>1, <2>2, <2>3, KeepsThread
<1> QED BY <1>2, <1>4 DEF ThreadsOK

LEMMA AckStale ==
    ASSUME StaleInv, NEW k, Ack(k)
    PROVE  OfflineOK' /\ NoStaleOutsideWindows' /\ ThreadsOK'
<1>1. OfflineOK' /\ NoStaleOutsideWindows' /\ gap \subseteq gap'
  BY DEF StaleInv, Ack, OfflineOK, NoStaleOutsideWindows
<1>2. Shrinks
  BY <1>1, Shrinking DEF Ack
<1>3. ASSUME NEW u \in Threads
      PROVE  WordsOK(u)' /\ \A x \in Entries : th'[u].ent = x => EntryOK(u, x)'
  <2>1. WordsOK(u) /\ \A x \in Entries : th[u].ent = x => EntryOK(u, x)
    BY DEF StaleInv, ThreadsOK
  <2>2. th[u].pc \in {"ipi", "wait"} =>
           /\ owed' \subseteq PENDING' \cup gap'
           /\ \A x \in Entries : th[u].ent = x => Stale(x)' \subseteq owed'
    BY <1>1, <2>1 DEF Ack, WordsOK, EntryOK, Stale
  <2>3. TARGET' = TARGET /\ th'[u].pc = th[u].pc /\ th'[u].ent = th[u].ent
        /\ th'[u].at = th[u].at /\ th'[u].remote = th[u].remote
    BY DEF Ack, SameFields
  <2> QED BY <1>2, <2>1, <2>2, <2>3, KeepsThread
<1> QED BY <1>1, <1>3 DEF ThreadsOK

LEMMA AccessStale ==
    ASSUME StaleInv, NEW c \in CPUs, Access(c)
    PROVE  OfflineOK' /\ NoStaleOutsideWindows' /\ ThreadsOK'
<1>0. /\ gap \subseteq gap' /\ stage' = stage /\ entry' = entry /\ th' = th
      /\ TARGET' = TARGET /\ PENDING' = PENDING /\ owed' = owed
      /\ stage[c] # "online" => c \in gap'
  BY DEF Access, cpus, prot
<1>1. \A d \in CPUs, x \in Entries : x \in tlb'[d] => x \in tlb[d] \/ entry[x] = "mapped"
  BY DEF StaleInv, TlbTypes, Access
<1>2. \A d \in CPUs : d # c => tlb'[d] = tlb[d]
  BY DEF StaleInv, TlbTypes, Access
<1>3. OfflineOK'
  BY <1>0, <1>2 DEF StaleInv, OfflineOK
<1>4. NoStaleOutsideWindows'
  BY <1>0, <1>1 DEF StaleInv, NoStaleOutsideWindows
<1>5. Shrinks
  BY <1>0, <1>1, Shrinking
<1>6. ASSUME NEW u \in Threads
      PROVE  WordsOK(u)' /\ \A x \in Entries : th'[u].ent = x => EntryOK(u, x)'
  <2>1. WordsOK(u) /\ \A x \in Entries : th[u].ent = x => EntryOK(u, x)
    BY DEF StaleInv, ThreadsOK
  <2>2. ASSUME th[u].pc \in {"ipi", "wait"}
        PROVE  /\ owed' \subseteq PENDING' \cup gap'
               /\ \A x \in Entries : th[u].ent = x => Stale(x)' \subseteq owed'
    <3>1. ASSUME NEW x \in Entries, th[u].ent = x PROVE Stale(x)' \subseteq owed'
      <4>1. Stale(x) \subseteq owed /\ entry[x] # "mapped"
        BY <2>1, <2>2, <3>1 DEF EntryOK, Working
      <4>2. Stale(x)' \subseteq Stale(x)
        BY <1>5, <4>1 DEF Shrinks
      <4> QED BY <1>0, <4>1, <4>2
    <3> QED BY <1>0, <2>1, <2>2, <3>1 DEF WordsOK
  <2> QED BY <1>0, <1>5, <2>1, <2>2, KeepsThread
<1> QED BY <1>3, <1>4, <1>6 DEF ThreadsOK

\* What a thread does leaves the others what they have established: the shared words
\* change only under the one thread inside.
LEMMA OthersKeep ==
    ASSUME StaleInv, NEW t \in Threads, Shrinks, gap \subseteq gap',
           \A u \in Threads : u # t => th'[u] = th[u],
           t \in Inside \/ (TARGET' = TARGET /\ PENDING' = PENDING /\ owed' = owed),
           NEW u \in Threads, u # t
    PROVE  WordsOK(u)' /\ \A x \in Entries : th'[u].ent = x => EntryOK(u, x)'
<1>1. WordsOK(u) /\ \A x \in Entries : th[u].ent = x => EntryOK(u, x)
  BY DEF StaleInv, ThreadsOK
<1>2. th[u].pc \in {"pending", "ipi", "wait"} =>
          TARGET' = TARGET /\ PENDING' = PENDING /\ owed' = owed
  BY DEF StaleInv, OneShootdown, Inside
<1>3. ASSUME th[u].pc \in {"ipi", "wait"}
      PROVE  /\ owed' \subseteq PENDING' \cup gap'
             /\ \A x \in Entries : th[u].ent = x => Stale(x)' \subseteq owed'
  <2>1. ASSUME NEW x \in Entries, th[u].ent = x PROVE Stale(x)' \subseteq owed'
    <3>1. Stale(x) \subseteq owed /\ entry[x] # "mapped"
      BY <1>1, <1>3, <2>1 DEF EntryOK, Working
    <3>2. Stale(x)' \subseteq Stale(x)
      BY <3>1 DEF Shrinks
    <3> QED BY <1>2, <1>3, <3>1, <3>2
  <2> QED BY <1>1, <1>2, <1>3, <2>1 DEF WordsOK
<1> QED BY <1>1, <1>2, <1>3, KeepsThread

\* Clearing the entry and flushing it here.
LEMMA FlushStale ==
    ASSUME StaleInv, NEW t \in Threads, NEW c \in CPUs, ClearEntry(t, c) \/ FlushLocal(t, c)
    PROVE  OfflineOK' /\ NoStaleOutsideWindows' /\ ThreadsOK'
<1> USE DEF cpus, mem, prot, locks
<1>0. TlbTypes /\ th \in [Threads -> ThreadPlaces]
  BY DEF StaleInv, TlbTypes
<1>1. CASE ClearEntry(t, c)
  <2>1. Moves(t, "flush") /\ UNCHANGED <<stage, tlb, gap, TARGET, PENDING, owed>>
    BY <1>0, <1>1, StepMoves DEF ClearEntry
  <2>2. \A x \in Entries : entry'[x] = IF x = th[t].ent THEN "cleared" ELSE entry[x]
    BY <1>0, <1>1 DEF ClearEntry, TlbTypes
  <2>3. OfflineOK' /\ NoStaleOutsideWindows'
    BY <2>1, <2>2 DEF StaleInv, OfflineOK, NoStaleOutsideWindows
  <2>4. Shrinks
    BY <2>1, <2>2, Shrinking
  <2>5. WordsOK(t)' /\ \A x \in Entries : th'[t].ent = x => EntryOK(t, x)'
    BY <2>1, <2>2 DEF Moves, WordsOK, EntryOK, Working
  <2>6. \A u \in Threads : u # t => WordsOK(u)' /\ \A x \in Entries : th'[u].ent = x => EntryOK(u, x)'
    BY <2>1, <2>4, OthersKeep DEF Moves
  <2> QED BY <2>3, <2>5, <2>6 DEF ThreadsOK
<1>2. CASE FlushLocal(t, c)
  <2>1. /\ th'[t].pc = "mask" /\ th'[t].at = c /\ th'[t].ent = th[t].ent /\ th[t].pc = "flush"
        /\ \A u \in Threads : u # t => th'[u] = th[u]
        /\ UNCHANGED <<stage, entry, gap, TARGET, PENDING, owed>>
        /\ tlb' = Flushed(c, TargetOf(t))
    BY <1>0, <1>2, ZenonT(60) DEF FlushLocal, ThreadPlaces, At
  <2>2. /\ \A d \in CPUs : tlb'[d] \subseteq tlb[d]
        /\ \A x \in Entries : TargetOf(t) \in {ALL, x} => x \notin tlb'[c]
    BY <1>0, <2>1, FlushedLess
  <2>3. OfflineOK' /\ NoStaleOutsideWindows'
    BY <2>1, <2>2 DEF StaleInv, OfflineOK, NoStaleOutsideWindows
  <2>4. Shrinks
    BY <2>1, <2>2, Shrinking
  <2>5. ASSUME NEW x \in Entries, th'[t].ent = x PROVE EntryOK(t, x)'
    <3>1. x \notin tlb'[c] /\ entry[x] # "mapped"
      BY <2>1, <2>2, <2>5 DEF TargetOf, StaleInv, ThreadsOK, EntryOK, Working
    <3> QED BY <2>1, <3>1 DEF EntryOK, Stale
  <2>6. WordsOK(t)'
    BY <2>1 DEF WordsOK
  <2>7. \A u \in Threads : u # t => WordsOK(u)' /\ \A x \in Entries : th'[u].ent = x => EntryOK(u, x)'
    BY <2>1, <2>4, OthersKeep
  <2> QED BY <2>3, <2>5, <2>6, <2>7 DEF ThreadsOK
<1> QED BY <1>1, <1>2

\* Reading the mask: whoever is neither in it nor the reader caches nothing.
LEMMA MaskStale ==
    ASSUME StaleInv, NEW t \in Threads, NEW c \in CPUs, ReadMask(t, c)
    PROVE  OfflineOK' /\ NoStaleOutsideWindows' /\ ThreadsOK'
<1> USE DEF cpus, mem, prot, locks
<1>0. TlbTypes /\ th \in [Threads -> ThreadPlaces]
  BY DEF StaleInv, TlbTypes
<1> DEFINE remote == online_mask \ {c}
<1>1. /\ th'[t].pc = (IF remote = {} THEN "free" ELSE "acquire") /\ th'[t].remote = remote
      /\ th'[t].ent = th[t].ent /\ th[t].pc = "mask"
      /\ \A u \in Threads : u # t => th'[u] = th[u]
      /\ UNCHANGED <<stage, entry, tlb, TARGET, PENDING, owed>>
      /\ gap' = IF th[t].at = c THEN gap ELSE gap \cup {c}
  BY <1>0, ZenonT(60) DEF ReadMask, ThreadPlaces, At, remote_mask
<1>2. OfflineOK' /\ NoStaleOutsideWindows' /\ gap \subseteq gap'
  BY <1>1 DEF StaleInv, OfflineOK, NoStaleOutsideWindows
<1>3. Shrinks
  BY <1>1, <1>2, Shrinking
<1>4. ASSUME NEW x \in Entries, th'[t].ent = x PROVE EntryOK(t, x)'
  <2>1. th[t].at \notin Stale(x) /\ entry[x] # "mapped"
    BY <1>1, <1>4 DEF StaleInv, ThreadsOK, EntryOK, Working
  <2>2. \A d \in CPUs \ gap' : x \in tlb[d] => stage[d] = "online"
    BY <1>2 DEF StaleInv, OfflineOK
  <2>3. c \notin gap' => x \notin tlb[c]
    BY <1>1, <2>1 DEF Stale
  <2>4. Stale(x)' \subseteq remote
    BY <1>1, <2>2, <2>3 DEF Stale, online_mask
  <2> HIDE DEF remote
  <2> QED BY <1>1, <2>1, <2>4 DEF EntryOK
<1>5. WordsOK(t)'
  BY <1>1 DEF WordsOK
<1>6. \A u \in Threads : u # t => WordsOK(u)' /\ \A x \in Entries : th'[u].ent = x => EntryOK(u, x)'
  BY <1>1, <1>2, <1>3, OthersKeep
<1> QED BY <1>2, <1>4, <1>5, <1>6 DEF ThreadsOK

\* The owner's stores, and giving IN_PROGRESS back once every bit is clear.
LEMMA OwnerStale ==
    ASSUME StaleInv, NEW t \in Threads, NEW c \in CPUs,
           \/ Acquire(t, c) \/ StoreTarget(t, c) \/ StorePending(t, c)
           \/ send_ipi_all_excluding_self(t, c) \/ EndShootdown(t, c)
    PROVE  OfflineOK' /\ NoStaleOutsideWindows' /\ ThreadsOK'
<1> USE DEF cpus, mem, prot, locks
<1>0. UNCHANGED <<stage, entry, tlb, gap>>
  BY DEF Acquire, StoreTarget, StorePending, send_ipi_all_excluding_self, EndShootdown
<1>1. OfflineOK' /\ NoStaleOutsideWindows'
  BY <1>0 DEF StaleInv, OfflineOK, NoStaleOutsideWindows
<1>2. Shrinks
  BY <1>0, Shrinking
<1>3. TlbTypes /\ WordsOK(t) /\ \A x \in Entries : th[t].ent = x => EntryOK(t, x)
  BY DEF StaleInv, ThreadsOK
<1>4. \E p \in Pcs : Moves(t, p)
  BY <1>3, StepMoves DEF Acquire, StoreTarget, StorePending, send_ipi_all_excluding_self, EndShootdown, Pcs
<1>5. t \in Inside \/ (TARGET' = TARGET /\ PENDING' = PENDING /\ owed' = owed)
  BY DEF Acquire, StoreTarget, StorePending, send_ipi_all_excluding_self, EndShootdown, Inside, At
<1>6. \A u \in Threads : u # t => WordsOK(u)' /\ \A x \in Entries : th'[u].ent = x => EntryOK(u, x)'
  BY <1>0, <1>2, <1>4, <1>5, OthersKeep DEF Moves
<1>7. \A x : Stale(x)' = Stale(x)
  BY <1>0 DEF Stale
<1>8. TargetOf(t)' = TargetOf(t) /\ th'[t].ent = th[t].ent /\ th'[t].remote = th[t].remote
  BY <1>4 DEF Moves, TargetOf
<1>9. WordsOK(t)' /\ \A x \in Entries : th'[t].ent = x => EntryOK(t, x)'
  <2>1. CASE Acquire(t, c)
    <3>1. th'[t].pc = "target" /\ th[t].pc = "acquire"
      BY <1>3, <2>1, StepMoves DEF Acquire, Moves, At
    <3> HIDE DEF Stale
    <3> QED BY <1>0, <1>3, <1>7, <1>8, <3>1 DEF WordsOK, EntryOK, Working
  <2>2. CASE StoreTarget(t, c)
    <3>1. th'[t].pc = "pending" /\ th[t].pc = "target" /\ TARGET' = TargetOf(t)
      BY <1>3, <2>2, StepMoves DEF StoreTarget, Moves, At
    <3> QED BY <1>0, <1>3, <1>7, <1>8, <3>1 DEF WordsOK, EntryOK, Working
  <2>3. CASE StorePending(t, c)
    <3>1. /\ th'[t].pc = "ipi" /\ th[t].pc = "pending" /\ TARGET' = TARGET
          /\ PENDING' = th[t].remote /\ owed' = th[t].remote
      BY <1>3, <2>3, StepMoves DEF StorePending, Moves, At
    <3> QED BY <1>0, <1>3, <1>7, <1>8, <3>1 DEF WordsOK, EntryOK, Working
  <2>4. CASE send_ipi_all_excluding_self(t, c)
    <3>1. /\ th'[t].pc = "wait" /\ th[t].pc = "ipi"
          /\ TARGET' = TARGET /\ PENDING' = PENDING /\ owed' = owed
      BY <1>3, <2>4, StepMoves DEF send_ipi_all_excluding_self, Moves, At
    <3> QED BY <1>0, <1>3, <1>7, <1>8, <3>1 DEF WordsOK, EntryOK, Working
  <2>5. CASE EndShootdown(t, c)
    <3>1. th'[t].pc = "free" /\ th[t].pc = "wait" /\ PENDING = {}
      BY <1>3, <2>5, StepMoves DEF EndShootdown, Moves, At
    <3>2. ASSUME NEW x \in Entries, th[t].ent = x PROVE Stale(x) = {} /\ entry[x] # "mapped"
      <4>1. owed \subseteq gap /\ Stale(x) \subseteq owed /\ entry[x] # "mapped"
        BY <1>3, <3>1, <3>2 DEF WordsOK, EntryOK, Working
      <4> QED BY <4>1 DEF Stale
    <3> QED BY <1>0, <1>7, <1>8, <3>1, <3>2 DEF WordsOK, EntryOK, Working
  <2> QED BY <2>1, <2>2, <2>3, <2>4, <2>5
<1> QED BY <1>1, <1>6, <1>9 DEF ThreadsOK

\* Handing the frame back.
LEMMA FreeStale ==
    ASSUME StaleInv, NEW t \in Threads, NEW c \in CPUs, Free(t, c)
    PROVE  OfflineOK' /\ NoStaleOutsideWindows' /\ ThreadsOK'
<1> USE DEF cpus, mem, prot, locks
<1>0. TlbTypes /\ th \in [Threads -> ThreadPlaces]
  BY DEF StaleInv, TlbTypes
<1>1. /\ th'[t].pc \in {"clear", "drop", "done"} /\ th[t].pc = "free"
      /\ \A u \in Threads : u # t => th'[u] = th[u]
      /\ UNCHANGED <<stage, tlb, gap, TARGET, PENDING, owed>>
  BY <1>0, SMT DEF Free, ThreadPlaces, At
<1>2. \A x \in Entries : entry'[x] = IF x = th[t].ent THEN "free" ELSE entry[x]
  BY <1>0 DEF Free, TlbTypes
<1>3. \A x \in Entries : th[t].ent = x => Stale(x) = {}
  BY <1>1 DEF StaleInv, ThreadsOK, EntryOK
<1>4. OfflineOK'
  BY <1>1 DEF StaleInv, OfflineOK
<1>5. NoStaleOutsideWindows'
  BY <1>1, <1>2, <1>3 DEF StaleInv, NoStaleOutsideWindows, Stale
<1>6. Shrinks
  BY <1>1, <1>2, Shrinking
<1>7. WordsOK(t)' /\ \A x \in Entries : EntryOK(t, x)'
  BY <1>1, RestsOK DEF Working
<1>8. \A u \in Threads : u # t => WordsOK(u)' /\ \A x \in Entries : th'[u].ent = x => EntryOK(u, x)'
  BY <1>1, <1>6, OthersKeep
<1> QED BY <1>4, <1>5, <1>7, <1>8 DEF ThreadsOK

LEMMA NextStale ==
    ASSUME StaleInv, [TlbNext]_tlbVars
    PROVE  StaleInv'
<1>1. TlbTypes' /\ OneShootdown'
  BY NextType, NextOne DEF StaleInv
<1>2. TlbTypes
  BY DEF StaleInv
<1>3. OfflineOK' /\ NoStaleOutsideWindows' /\ ThreadsOK'
  BY <1>2, Kinds, CalmStale, ServeStale, AckStale, AccessStale, FlushStale, MaskStale, OwnerStale,
     FreeStale DEF Acts
<1> QED BY <1>1, <1>3 DEF StaleInv

LEMMA InitStale == TlbInit => StaleInv
<1>1. TlbInit => OfflineOK /\ NoStaleOutsideWindows
  BY DEF TlbInit, OfflineOK, NoStaleOutsideWindows
<1>2. TlbInit => ThreadsOK
  BY SMT DEF TlbInit, ThreadsOK, WordsOK, EntryOK, Working
<1> QED BY <1>1, <1>2, InitType, InitOne DEF StaleInv

\* For every number of processors, threads and pages: a frame unmap handed back is
\* cached by no processor that none of the three windows hit (tlb::shootdown,
\* paging::unmap and unmap_and_prune).
THEOREM FreedIsUncached == TlbSpec => []NoStaleOutsideWindows
<1>1. StaleInv /\ [TlbNext]_tlbVars => StaleInv'
  BY NextStale
<1>2. StaleInv => NoStaleOutsideWindows
  BY DEF StaleInv
<1> QED BY InitStale, <1>1, <1>2, PTL DEF TlbSpec
=============================================================================
