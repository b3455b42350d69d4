------------------------- MODULE BufferCache_proof --------------------------
(***************************************************************************)
(* The buffer cache is correct for every number of threads, slots, blocks  *)
(* and values: transfers have one owner and pins count readers; and, when  *)
(* no write-back is given up on (~MayTimeOut), clean slots match the       *)
(* device, sync is durable, and the cache is a block store.  With          *)
(* time-outs a late write may land after a newer one, and the last three   *)
(* fail.                                                                   *)
(***************************************************************************)
EXTENDS BufferCache, FiniteSetTheorems, TLAPS

\* A leaf that names no prover is one for first-order reasoning.
USE Zenon

---------------------------------------------------------------------------
(* What one step does.  KindOfStep reduces the twenty-odd actions to a few *)
(* kinds: a step is quiet, or it is one thread's and changes one slot in   *)
(* one of ten ways.  The rest is argued from the kinds: who owns a         *)
(* transfer, that clean frames are the device's, what a sync is still owed *)
(* and what a reader can see.                                              *)

\* The states of a slot and the places a thread can be at.
States == {"Free", "Clean", "Dirty", "InFlight"}
Places == {"idle", "claim", "fill", "filled", "hold", "store", "room", "begin", "write", "wrote",
           "round", "slots"}

TableType ==
    /\ key \in [Slot -> Key \cup {None}] /\ state \in [Slot -> States] /\ pins \in [Slot -> Nat]
    /\ dirtied \in [Slot -> BOOLEAN] /\ filling \in [Slot -> BOOLEAN]
    /\ writeback_failed \in [Slot -> BOOLEAN]
DataType ==
    frame \in [Slot -> Val \cup {None}] /\ disk \in [Key -> Val] /\ late \subseteq Key \X Val
CallType ==
    /\ pc \in [Thread -> Places] /\ op \in [Thread -> {"none", "read", "write", "sync"}]
    /\ arg \in [Thread -> [key : Key \cup {None}, val : Val \cup {None}]]
    /\ slot \in [Thread -> Slot \cup {None}] /\ flushed \in [Thread -> Nat]
    /\ failedNow \in [Thread -> BOOLEAN]
SyncType ==
    /\ owed \in [Thread -> SUBSET Slot] /\ todo \in [Thread -> SUBSET Slot]
    /\ failed \in [Thread -> SUBSET Slot] /\ acted \in [Thread -> BOOLEAN]
    /\ unsaved \in [Thread -> SUBSET Key]
TypeInv == TableType /\ DataType /\ CallType /\ SyncType

\* A block has at most one slot.  Only a slot in flight is being filled, and nothing
\* is dirtied during its transfer: a store waits for it.
TableInv ==
    /\ \A s \in Slot :
         /\ state[s] # "Free" => key[s] \in Key
         /\ filling[s] => state[s] = "InFlight"
         /\ ~dirtied[s]
         /\ state[s] # "Free" /\ ~filling[s] => frame[s] \in Val
    /\ \A r, s \in Slot : state[r] # "Free" /\ state[s] # "Free" /\ key[r] = key[s] => r = s

Filling(t) == pc[t] \in {"fill", "filled"}
Writing(t) == pc[t] \in {"write", "wrote"}

\* What a thread is doing and with which slot.
CallOK(t) ==
    /\ op[t] \in {"read", "write"} => arg[t].key \in Key
    /\ op[t] = "write" => arg[t].val \in Val
    /\ pc[t] \in {"claim", "fill", "filled", "hold"} => op[t] = "read"
    /\ pc[t] = "store" => op[t] = "write"
    /\ pc[t] \in {"room", "begin"} => op[t] \in {"read", "write"}
    /\ pc[t] \in {"round", "slots"} => op[t] = "sync"
    /\ Writing(t) => op[t] # "none"
    /\ pc[t] = "begin" => slot[t] \in Slot
    /\ Filling(t) => slot[t] \in Slot /\ filling[slot[t]] /\ key[slot[t]] = arg[t].key
    /\ Writing(t) => slot[t] \in Slot /\ state[slot[t]] = "InFlight" /\ ~filling[slot[t]]
    /\ pc[t] = "hold" => /\ slot[t] \in Slot /\ state[slot[t]] # "Free" /\ ~filling[slot[t]]
                         /\ key[slot[t]] = arg[t].key
    /\ pc[t] = "filled" => frame[slot[t]] \in Val

\* The thread owns the transfer of its slot: a Fill or a Writeback.
Token(t) == Filling(t) \/ Writing(t)
\* Every slot in flight has one owner.
TokenInv ==
    /\ \A t \in Thread : CallOK(t)
    /\ \A t, u \in Thread : Token(t) /\ Token(u) /\ slot[t] = slot[u] => t = u
    /\ \A s \in Slot : state[s] = "InFlight" => \E t \in Thread : Token(t) /\ slot[t] = s

\* A slot whose pins are 0 has no reader.
Readers(s) == {t \in Thread : pc[t] = "hold" /\ slot[t] = s}
PinsOK == \A s \in Slot : pins[s] = 0 => Readers(s) = {}

\* Without time-outs: a frame that should be the device's block is.
DataInv ==
    /\ late = {}
    /\ \A s \in Slot : state[s] = "Clean" => frame[s] = disk[key[s]]
    /\ \A t \in Thread : pc[t] = "filled" \/ (pc[t] = "wrote" /\ ~failedNow[t])
                            => frame[slot[t]] = disk[key[slot[t]]]

\* A block a sync still has to see written is in a slot it owes.
SyncInv ==
    /\ \A t \in Thread : \A b \in unsaved[t] :
         \E s \in owed[t] : key[s] = b /\ s \in unsynced_mask
    /\ \A t \in Thread : pc[t] = "wrote" /\ ~failedNow[t]
                            => \A u \in Thread : key[slot[t]] \notin unsaved[u]

\* What the lemmas about one step assume: control, and control with contents.
CInv == TypeInv /\ TableInv /\ TokenInv /\ PinsOK
DInv == CInv /\ DataInv /\ SyncInv

\* lookup finds the slots that hold the block.
LEMMA LookupIs ==
    ASSUME TableInv, NEW b, NEW s
    PROVE  s \in lookup(b) <=> s \in Slot /\ state[s] # "Free" /\ key[s] = b
BY SlotsAssumption, SMT DEF TableInv, lookup, First, Slot

\* A lookup that finds nothing: no slot holds the block.
LEMMA NotCached ==
    ASSUME TableInv, NEW b, lookup(b) = {}
    PROVE  \A s \in Slot : state[s] = "Free" \/ key[s] # b
BY LookupIs

\* The slot a scan of the table stops at is one of those it looks for.
LEMMA FirstIsIn == ASSUME NEW S, NEW s \in First(S) PROVE s \in S
BY DEF First

\* A pin keeps its slot: what a claim takes has no reader.
Victim(s) == s \in Slot /\ state[s] \in {"Free", "Clean"} /\ Readers(s) = {}

\* A claim takes a free slot or a clean one without readers.
LEMMA ClaimedIsVictim == ASSUME CInv, NEW s \in ClaimSlot PROVE Victim(s)
<1>1. s \in Slot /\ (state[s] = "Free" \/ (state[s] = "Clean" /\ pins[s] = 0))
  BY FirstIsIn DEF ClaimSlot, FreeSlots, reusable
<1>2. CASE state[s] = "Free"
  <2>1. Readers(s) = {}
    BY <1>2, ZenonT(60) DEF CInv, TokenInv, CallOK, Readers
  <2> QED BY <1>1, <1>2, <2>1 DEF Victim
<1>3. CASE state[s] = "Clean" /\ pins[s] = 0
  BY <1>1, <1>3 DEF CInv, PinsOK, Victim
<1> QED BY <1>1, <1>2, <1>3

-----------------------------------------------------------------------------
(* Every step is one of a few kinds, of one thread and at most one slot. *)

Others(t) ==
    \A u \in Thread \ {t} :
        /\ pc'[u] = pc[u] /\ op'[u] = op[u] /\ arg'[u] = arg[u] /\ slot'[u] = slot[u]
        /\ failedNow'[u] <=> failedNow[u]
OtherSlots(s) ==
    \A r \in Slot \ {s} :
        /\ key'[r] = key[r] /\ state'[r] = state[r] /\ frame'[r] = frame[r]
        /\ filling'[r] <=> filling[r]
SameSlots == UNCHANGED <<key, state, filling, frame>>
Uncached(b) == \A r \in Slot : state[r] = "Free" \/ key[r] # b

Quiet(t) ==
    /\ SameSlots /\ UNCHANGED <<pins, disk>>
    /\ ~Token(t) /\ pc[t] # "hold" /\ ~Token(t)' /\ pc'[t] # "hold" /\ CallOK(t)'
Hit(t, s) ==
    /\ SameSlots /\ UNCHANGED disk /\ pins' = [pins EXCEPT ![s] = @ + 1]
    /\ state[s] # "Free" /\ ~filling[s] /\ key[s] = arg[t].key
    /\ pc[t] = "claim" /\ pc'[t] = "hold" /\ slot'[t] = s /\ arg'[t] = arg[t] /\ op'[t] = op[t]
StartFill(t, s) ==
    /\ Victim(s) /\ OtherSlots(s) /\ UNCHANGED <<pins, frame, disk>> /\ Uncached(arg[t].key)
    /\ key'[s] = arg[t].key /\ state'[s] = "InFlight" /\ filling'[s]
    /\ pc[t] = "claim" /\ pc'[t] = "fill" /\ slot'[t] = s /\ arg'[t] = arg[t] /\ op'[t] = op[t]
Fetch(t, s) ==
    /\ OtherSlots(s) /\ UNCHANGED <<pins, key, state, filling, disk>> /\ frame'[s] = disk[key[s]]
    /\ pc[t] = "fill" /\ slot[t] = s
    /\ pc'[t] = "filled" /\ slot'[t] = s /\ arg'[t] = arg[t] /\ op'[t] = op[t]
EndFill(t, s) ==
    /\ OtherSlots(s) /\ UNCHANGED <<key, frame, disk>> /\ pins' = [pins EXCEPT ![s] = @ + 1]
    /\ state'[s] = "Clean" /\ ~filling'[s]
    /\ pc[t] = "filled" /\ slot[t] = s
    /\ pc'[t] = "hold" /\ slot'[t] = s /\ arg'[t] = arg[t] /\ op'[t] = op[t]
Evict(t, s) ==
    /\ OtherSlots(s) /\ UNCHANGED <<pins, frame, disk>>
    /\ state'[s] = "Free" /\ ~filling'[s]
    /\ pc[t] = "fill" /\ slot[t] = s /\ pc'[t] = "idle" /\ op'[t] = "none"
LetGo(t, s) ==
    /\ SameSlots /\ UNCHANGED disk /\ pins' = [pins EXCEPT ![s] = @ - 1]
    /\ pc[t] = "hold" /\ slot[t] = s /\ pc'[t] = "idle" /\ op'[t] = "none"
Store1(t, s) ==
    /\ OtherSlots(s) /\ UNCHANGED <<pins, filling, disk>>
    /\ Readers(s) = {} /\ state[s] # "InFlight"
    /\ state[s] = "Dirty" => key[s] = arg[t].key
    /\ \A r \in Slot \ {s} : state[r] = "Free" \/ key[r] # arg[t].key
    /\ key'[s] = arg[t].key /\ frame'[s] = arg[t].val /\ state'[s] = "Dirty"
    /\ pc[t] = "store" /\ pc'[t] = "idle" /\ op'[t] = "none"
Begin(t, s) ==
    /\ OtherSlots(s) /\ UNCHANGED <<pins, key, filling, frame, disk>>
    /\ state[s] = "Dirty" /\ state'[s] = "InFlight"
    /\ ~Token(t) /\ pc[t] # "hold"
    /\ pc'[t] = "write" /\ slot'[t] = s /\ arg'[t] = arg[t] /\ op'[t] = op[t] /\ op[t] # "none"
Transfer(t, s) ==
    /\ SameSlots /\ UNCHANGED pins
    /\ disk' = disk \/ disk' = [disk EXCEPT ![key[s]] = frame[s]]
    /\ ~failedNow'[t] => disk' = [disk EXCEPT ![key[s]] = frame[s]]
    /\ pc[t] = "write" /\ slot[t] = s
    /\ pc'[t] = "wrote" /\ slot'[t] = s /\ arg'[t] = arg[t] /\ op'[t] = op[t]
End(t, s) ==
    /\ OtherSlots(s) /\ UNCHANGED <<pins, key, filling, frame, disk>>
    /\ state'[s] = "Dirty" \/ (state'[s] = "Clean" /\ pc[t] = "wrote" /\ ~failedNow[t])
    /\ Writing(t) /\ slot[t] = s
    /\ ~Token(t)' /\ pc'[t] # "hold" /\ CallOK(t)'
Late ==
    /\ SameSlots /\ late # {} /\ UNCHANGED <<pins, pc, op, arg, slot, failedNow>>

SlotStep(t, s) ==
    \/ Hit(t, s) \/ StartFill(t, s) \/ Fetch(t, s) \/ EndFill(t, s) \/ Evict(t, s) \/ LetGo(t, s)
    \/ Store1(t, s) \/ Begin(t, s) \/ Transfer(t, s) \/ End(t, s)
ThreadStep(t) == Others(t) /\ (Quiet(t) \/ \E s \in Slot : SlotStep(t, s))
Clear == \A s \in Slot : ~dirtied[s]

\* A call that returns leaves its thread idle and the others where they were.
LEMMA Returned == ASSUME CInv, NEW t \in Thread, Return(t)
                  PROVE  /\ Others(t) /\ CallOK(t)' /\ ~Token(t)' /\ pc'[t] = "idle" /\ op'[t] = "none"
<1>1. CallType
  BY DEF CInv, TypeInv
<1>2. pc'[t] = "idle" /\ op'[t] = "none"
  BY <1>1 DEF CallType, Return
<1>3. Others(t)
  BY <1>1 DEF CallType, Return, Others
<1> QED BY <1>2, <1>3 DEF CallOK, Token, Filling, Writing

\* A thread that goes round its loop again holds no transfer and no pin.
LEMMA Retries ==
    ASSUME CInv, NEW t \in Thread, op'[t] = op[t], arg'[t] = arg[t],
           \/ pc'[t] = "claim" /\ op[t] = "read"
           \/ pc'[t] = "store" /\ op[t] = "write"
           \/ pc'[t] \in {"round", "slots"} /\ op[t] = "sync"
    PROVE  CallOK(t)' /\ ~Token(t)' /\ pc'[t] # "hold"
<1>1. op[t] \in {"read", "write"} => arg[t].key \in Key
  BY DEF CInv, TokenInv, CallOK
<1>2. op[t] = "write" => arg[t].val \in Val
  BY DEF CInv, TokenInv, CallOK
<1> QED BY <1>1, <1>2 DEF CallOK, Token, Filling, Writing

\* Every step of the cache is of one of the kinds, and leaves no slot dirtied.
LEMMA KindOfStep ==
    ASSUME CInv, Next
    PROVE  Clear' /\ (Late \/ \E t \in Thread : ThreadStep(t))
<1>0. TypeInv /\ TableInv /\ TokenInv /\ Clear
  BY DEF CInv, TableInv, Clear
<1> DEFINE G(t) == Clear' /\ ThreadStep(t)
<1>1. ASSUME NEW t \in Thread, NEW b \in Key, StartRead(t, b) PROVE G(t)
  <2>1. Others(t) /\ Quiet(t)
    BY <1>0, <1>1 DEF TypeInv, CallType, StartRead, Others, Quiet, SameSlots, Token, Filling, Writing, CallOK, table, data
  <2> QED BY <1>0, <1>1, <2>1 DEF ThreadStep, Clear, StartRead, table
<1>2. ASSUME NEW t \in Thread, NEW b \in Key, NEW v \in Val, StartWrite(t, b, v) PROVE G(t)
  <2>1. Others(t) /\ Quiet(t)
    BY <1>0, <1>2 DEF TypeInv, CallType, StartWrite, Others, Quiet, SameSlots, Token, Filling, Writing, CallOK, table, data
  <2> QED BY <1>0, <1>2, <2>1 DEF ThreadStep, Clear, StartWrite, table
<1>3. ASSUME NEW t \in Thread, Return(t), UNCHANGED <<table, data>>, ~Token(t), pc[t] # "hold" PROVE G(t)
  BY <1>0, <1>3, Returned DEF ThreadStep, Quiet, SameSlots, Clear, table, data
<1>4. ASSUME NEW t \in Thread, ClaimWait(t) \/ StoreWait(t) PROVE G(t)
  BY <1>3, <1>4 DEF ClaimWait, StoreWait, Token, Filling, Writing
<1>5. ASSUME NEW t \in Thread, ClaimHit(t) PROVE G(t)
  <2>1. PICK s \in lookup(arg[t].key) :
              /\ ~(state[s] = "InFlight" /\ filling[s])
              /\ pins' = [pins EXCEPT ![s] = @ + 1] /\ slot' = [slot EXCEPT ![t] = s]
    BY <1>5 DEF ClaimHit
  <2>2. s \in Slot /\ state[s] # "Free" /\ key[s] = arg[t].key /\ ~filling[s]
    BY <1>0, <2>1, LookupIs DEF TableInv
  <2>3. Others(t) /\ Hit(t, s)
    BY <1>0, <1>5, <2>1, <2>2 DEF TypeInv, CallType, ClaimHit, Others, Hit, SameSlots, data
  <2>4. Clear'
    BY <1>0, <1>5 DEF ClaimHit, Clear
  <2> QED BY <2>2, <2>3, <2>4 DEF ThreadStep, SlotStep
<1>6. ASSUME NEW t \in Thread, ClaimFill(t) PROVE G(t)
  <2>1. PICK s \in ClaimSlot :
          /\ key' = [key EXCEPT ![s] = arg[t].key]
          /\ state' = [state EXCEPT ![s] = "InFlight"]
          /\ dirtied' = [dirtied EXCEPT ![s] = FALSE]
          /\ filling' = [filling EXCEPT ![s] = TRUE]
          /\ slot' = [slot EXCEPT ![t] = s]
    BY <1>6 DEF ClaimFill
  <2>2. Victim(s) /\ s \in Slot
    BY ClaimedIsVictim DEF Victim
  <2>3. Uncached(arg[t].key)
    BY <1>0, <1>6, NotCached DEF ClaimFill, Uncached
  <2>4. pc[t] = "claim" /\ pc' = [pc EXCEPT ![t] = "fill"] /\ UNCHANGED <<pins, data, op, arg, flushed, failedNow, syncing>>
    BY <1>6 DEF ClaimFill
  <2>5. Others(t) /\ pc'[t] = "fill" /\ slot'[t] = s
    BY <1>0, <2>1, <2>4 DEF TypeInv, CallType, Others
  <2>6. OtherSlots(s) /\ key'[s] = arg[t].key /\ state'[s] = "InFlight" /\ filling'[s] /\ Clear'
    BY <1>0, <2>1, <2>2, <2>4 DEF TypeInv, TableType, OtherSlots, Clear, data
  <2>7. StartFill(t, s)
    BY <2>2, <2>3, <2>4, <2>5, <2>6 DEF StartFill, data
  <2> QED BY <2>2, <2>5, <2>6, <2>7 DEF ThreadStep, SlotStep
<1>7. ASSUME NEW t \in Thread, TableFull(t) PROVE G(t)
  <2>1. ~Token(t) /\ pc[t] # "hold"
    BY <1>7 DEF TableFull, Token, Filling, Writing
  <2>2. CASE Return(t)
    BY <1>3, <1>7, <2>1, <2>2 DEF TableFull
  <2>3. CASE ~Return(t)
    <3>1. /\ pc[t] \in {"claim", "store"} /\ pc' = [pc EXCEPT ![t] = "room"]
          /\ UNCHANGED <<op, arg, slot, failedNow, syncing, table, data>>
      BY <1>7, <2>3 DEF TableFull
    <3>2. Others(t) /\ Quiet(t)
      BY <1>0, <2>1, <3>1, SMTT(40) DEF TypeInv, CallType, TokenInv, Others, Quiet, SameSlots, Token, Filling, Writing, CallOK, table, data
    <3> QED BY <1>0, <3>1, <3>2 DEF ThreadStep, Clear, table
  <2> QED BY <2>2, <2>3
<1>8. ASSUME NEW t \in Thread, FillRead(t) PROVE G(t)
  <2>1. slot[t] \in Slot
    BY <1>0, <1>8 DEF TokenInv, CallOK, Filling, FillRead
  <2>2. Others(t) /\ Fetch(t, slot[t])
    BY <1>0, <1>8, <2>1 DEF TypeInv, CallType, DataType, FillRead, Others, Fetch, OtherSlots, table
  <2> QED BY <1>0, <1>8, <2>1, <2>2 DEF ThreadStep, SlotStep, Clear, FillRead, table
<1>9. ASSUME NEW t \in Thread, FinishFill(t) PROVE G(t)
  <2>1. slot[t] \in Slot
    BY <1>0, <1>9 DEF TokenInv, CallOK, Filling, FinishFill
  <2>2. AfterIo(slot[t], "Clean") = "Clean"
    BY <1>0, <2>1 DEF AfterIo, Clear
  <2>3. Others(t) /\ EndFill(t, slot[t]) /\ Clear'
    BY <1>0, <1>9, <2>1, <2>2 DEF TypeInv, CallType, TableType, FinishFill, Others, EndFill, OtherSlots, Clear, data
  <2> QED BY <2>1, <2>3 DEF ThreadStep, SlotStep
<1>10. ASSUME NEW t \in Thread, FillFails(t) PROVE G(t)
  <2>1. slot[t] \in Slot
    BY <1>0, <1>10 DEF TokenInv, CallOK, Filling, FillFails
  <2>2. Others(t) /\ pc'[t] = "idle" /\ op'[t] = "none"
    BY <1>10, Returned DEF FillFails
  <2>3. Evict(t, slot[t]) /\ Clear'
    BY <1>0, <1>10, <2>1, <2>2 DEF TypeInv, TableType, FillFails, Evict, OtherSlots, Clear, data
  <2> QED BY <2>1, <2>2, <2>3 DEF ThreadStep, SlotStep
<1>11. ASSUME NEW t \in Thread, Unpin(t) PROVE G(t)
  <2>1. slot[t] \in Slot
    BY <1>0, <1>11 DEF TokenInv, CallOK, Unpin
  <2>2. Others(t) /\ pc'[t] = "idle" /\ op'[t] = "none"
    BY <1>11, Returned DEF Unpin
  <2>3. LetGo(t, slot[t]) /\ Clear'
    BY <1>0, <1>11, <2>1, <2>2 DEF Unpin, LetGo, SameSlots, Clear, data
  <2> QED BY <2>1, <2>2, <2>3 DEF ThreadStep, SlotStep
<1>12. ASSUME NEW t \in Thread, StoreHit(t) PROVE G(t)
  <2>1. PICK s \in lookup(arg[t].key) :
          /\ state[s] # "InFlight" /\ pins[s] = 0
          /\ frame' = [frame EXCEPT ![s] = arg[t].val] /\ state' = [state EXCEPT ![s] = "Dirty"]
    BY <1>12 DEF StoreHit
  <2>2. s \in Slot /\ state[s] # "Free" /\ key[s] = arg[t].key
    BY <1>0, LookupIs
  <2>3. Readers(s) = {}
    BY <2>1, <2>2 DEF CInv, PinsOK
  <2>4. \A r \in Slot \ {s} : state[r] = "Free" \/ key[r] # arg[t].key
    BY <1>0, <2>2 DEF TableInv
  <2>5. Others(t) /\ pc'[t] = "idle" /\ op'[t] = "none"
    BY <1>12, Returned DEF StoreHit
  <2>6. pc[t] = "store" /\ UNCHANGED <<key, pins, dirtied, filling, disk, late>>
    BY <1>12 DEF StoreHit
  <2>7. OtherSlots(s) /\ frame'[s] = arg[t].val /\ state'[s] = "Dirty"
    BY <1>0, <2>1, <2>2, <2>6 DEF TypeInv, TableType, DataType, OtherSlots
  <2>8. Store1(t, s)
    BY <2>1, <2>2, <2>3, <2>4, <2>5, <2>6, <2>7 DEF Store1
  <2> QED BY <1>0, <2>2, <2>5, <2>6, <2>8 DEF ThreadStep, SlotStep, Clear
<1>13. ASSUME NEW t \in Thread, StoreMiss(t) PROVE G(t)
  <2>1. PICK s \in ClaimSlot :
          /\ key' = [key EXCEPT ![s] = arg[t].key] /\ frame' = [frame EXCEPT ![s] = arg[t].val]
          /\ state' = [state EXCEPT ![s] = "Dirty"] /\ dirtied' = [dirtied EXCEPT ![s] = FALSE]
    BY <1>13 DEF StoreMiss
  <2>2. s \in Slot /\ state[s] \in {"Free", "Clean"} /\ Readers(s) = {}
    BY ClaimedIsVictim DEF Victim
  <2>3. Uncached(arg[t].key)
    BY <1>0, <1>13, NotCached DEF StoreMiss, Uncached
  <2>4. Others(t) /\ pc'[t] = "idle" /\ op'[t] = "none"
    BY <1>13, Returned DEF StoreMiss
  <2>5. pc[t] = "store" /\ UNCHANGED <<pins, filling, disk, late>>
    BY <1>13 DEF StoreMiss
  <2>6. /\ OtherSlots(s) /\ frame'[s] = arg[t].val /\ state'[s] = "Dirty" /\ key'[s] = arg[t].key
        /\ Clear'
    BY <1>0, <2>1, <2>2, <2>5 DEF TypeInv, TableType, DataType, OtherSlots, Clear
  <2>7. Store1(t, s)
    BY <2>2, <2>3, <2>4, <2>5, <2>6 DEF Store1, Uncached
  <2> QED BY <2>2, <2>4, <2>6, <2>7 DEF ThreadStep, SlotStep
<1>14. ASSUME NEW t \in Thread, MakeRoom(t) PROVE G(t)
  <2>1. ~Token(t) /\ pc[t] # "hold"
    BY <1>14 DEF MakeRoom, Token, Filling, Writing
  <2>2. CASE Return(t)
    BY <1>3, <1>14, <2>1, <2>2 DEF MakeRoom
  <2>3. CASE ~Return(t)
    <3>1. PICK s \in flushable_slot : slot' = [slot EXCEPT ![t] = s]
      BY <1>14, <2>3 DEF MakeRoom
    <3>2. s \in Slot
      BY <3>1 DEF flushable_slot, First
    <3>3. /\ pc[t] = "room" /\ pc' = [pc EXCEPT ![t] = "begin"]
          /\ UNCHANGED <<op, arg, flushed, failedNow, syncing, table, data>>
      BY <1>14, <2>3 DEF MakeRoom
    <3>4. Others(t) /\ Quiet(t)
      BY <1>0, <2>1, <3>1, <3>2, <3>3, SMTT(40) DEF TypeInv, CallType, TokenInv, Others, Quiet, SameSlots, Token, Filling, Writing, CallOK, table, data
    <3> QED BY <1>0, <3>3, <3>4 DEF ThreadStep, Clear, table
  <2> QED BY <2>2, <2>3
<1>15. ASSUME NEW t \in Thread, NEW s \in Slot, state[s] = "Dirty", ~Token(t), pc[t] # "hold", op[t] # "none",
              state' = [state EXCEPT ![s] = "InFlight"], pc' = [pc EXCEPT ![t] = "write"], slot'[t] = s,
              \A u \in Thread \ {t} : slot'[u] = slot[u],
              UNCHANGED <<key, pins, dirtied, filling, data, op, arg, failedNow>>
       PROVE  G(t)
  <2>1. Others(t) /\ Begin(t, s)
    BY <1>0, <1>15 DEF TypeInv, CallType, TableType, Others, OtherSlots, Begin, data
  <2> QED BY <1>0, <1>15, <2>1 DEF ThreadStep, SlotStep, Clear
<1>16. ASSUME NEW t \in Thread, BeginWriteback(t) PROVE G(t)
  <2>1. /\ ~Token(t) /\ pc[t] # "hold" /\ pc[t] = "begin" /\ slot[t] \in Slot /\ op[t] \in {"read", "write"}
        /\ UNCHANGED <<key, pins, dirtied, filling, writeback_failed, data, op, arg, flushed, failedNow, syncing>>
    BY <1>0, <1>16 DEF BeginWriteback, Token, Filling, Writing, TokenInv, CallOK
  <2>2. CASE state[slot[t]] = "Dirty"
    <3>1. /\ state' = [state EXCEPT ![slot[t]] = "InFlight"] /\ pc' = [pc EXCEPT ![t] = "write"] /\ slot' = slot
      BY <1>16, <2>2 DEF BeginWriteback
    <3> QED BY <1>15, <2>1, <2>2, <3>1
  <2>3. CASE state[slot[t]] # "Dirty"
    <3>1. /\ pc' = [pc EXCEPT ![t] = Retry(t)] /\ slot' = [slot EXCEPT ![t] = None] /\ UNCHANGED state
      BY <1>16, <2>3 DEF BeginWriteback
    <3>2. Others(t) /\ Quiet(t)
      <4>1. Others(t) /\ pc'[t] = Retry(t)
        BY <1>0, <2>1, <3>1 DEF TypeInv, CallType, Others
      <4>2. CallOK(t)' /\ ~Token(t)' /\ pc'[t] # "hold"
        BY <2>1, <4>1, Retries DEF Retry
      <4> QED BY <2>1, <3>1, <4>1, <4>2 DEF Quiet, SameSlots, data
    <3> QED BY <1>0, <2>1, <3>2 DEF ThreadStep, Clear
  <2> QED BY <2>2, <2>3
<1>17. ASSUME NEW t \in Thread, WriteBlock(t) PROVE G(t)
  <2> DEFINE s == slot[t]
  <2>1. s \in Slot
    BY <1>0, <1>17 DEF TokenInv, CallOK, Writing, WriteBlock
  <2>2. /\ pc[t] = "write" /\ pc' = [pc EXCEPT ![t] = "wrote"] /\ UNCHANGED <<table, frame, op, arg, slot>>
    BY <1>17 DEF WriteBlock
  <2>3. disk' = disk \/ disk' = [disk EXCEPT ![key[s]] = frame[s]]
    BY <1>17 DEF WriteBlock, Land
  <2>4. ~failedNow'[t] => disk' = [disk EXCEPT ![key[s]] = frame[s]]
    BY <1>0, <1>17 DEF TypeInv, CallType, WriteBlock, Land
  <2>5. \E f \in BOOLEAN : failedNow' = [failedNow EXCEPT ![t] = f]
    BY <1>17 DEF WriteBlock
  <2>6. Others(t) /\ pc'[t] = "wrote"
    BY <1>0, <2>2, <2>5 DEF TypeInv, CallType, Others
  <2>7. Transfer(t, s)
    BY <2>2, <2>3, <2>4, <2>6 DEF Transfer, SameSlots, table
  <2> QED BY <1>0, <2>1, <2>2, <2>6, <2>7 DEF ThreadStep, SlotStep, Clear, table
<1>18. ASSUME NEW t \in Thread, FinishWriteback(t) PROVE G(t)
  <2> DEFINE s == slot[t]
  <2>1. s \in Slot /\ pc[t] = "wrote" /\ Writing(t) /\ op[t] # "none"
    BY <1>0, <1>18 DEF TokenInv, CallOK, Writing, FinishWriteback
  <2>2. AfterIo(s, WritebackState(t)) = IF failedNow[t] THEN "Dirty" ELSE "Clean"
    BY <1>0, <2>1 DEF AfterIo, WritebackState, Clear
  <2>3. /\ state' = [state EXCEPT ![s] = IF failedNow[t] THEN "Dirty" ELSE "Clean"]
        /\ dirtied' = [dirtied EXCEPT ![s] = FALSE] /\ UNCHANGED <<key, pins, filling, data>>
    BY <1>18, <2>2 DEF FinishWriteback
  <2>4. OtherSlots(s) /\ Clear' /\ (state'[s] = "Dirty" \/ (state'[s] = "Clean" /\ ~failedNow[t]))
    BY <1>0, <2>1, <2>3 DEF TypeInv, TableType, OtherSlots, Clear, data
  <2>5. Others(t) /\ ~Token(t)' /\ pc'[t] # "hold" /\ CallOK(t)'
    <3>1. CASE Return(t)
      BY <3>1, Returned
    <3>2. CASE ~Return(t)
      <4>1. /\ pc' = [pc EXCEPT ![t] = IF op[t] = "sync" THEN "slots" ELSE Retry(t)]
            /\ slot' = [slot EXCEPT ![t] = None]
            /\ failedNow' = [failedNow EXCEPT ![t] = FALSE]
            /\ UNCHANGED <<op, arg>>
        BY <1>18, <3>2 DEF FinishWriteback
      <4>2. Others(t)
        BY <1>0, <4>1 DEF TypeInv, CallType, Others
      <4>3. pc'[t] \in {"slots", "claim", "store"} /\ op'[t] = op[t] /\ arg'[t] = arg[t]
            /\ (pc'[t] = "slots" <=> op[t] = "sync") /\ (pc'[t] = "claim" <=> op[t] = "read")
        BY <1>0, <4>1 DEF TypeInv, CallType, Retry
      <4>4. op[t] \in {"read", "write", "sync"}
        BY <1>0, <2>1 DEF TypeInv, CallType
      <4> QED BY <4>2, <4>3, <4>4, Retries
    <3> QED BY <3>1, <3>2
  <2>6. End(t, s)
    BY <2>1, <2>3, <2>4, <2>5 DEF End, data
  <2> QED BY <2>1, <2>4, <2>5, <2>6 DEF ThreadStep, SlotStep
<1>19. ASSUME NEW t \in Thread, DropWriteback(t) PROVE G(t)
  <2> DEFINE s == slot[t]
  <2>1. s \in Slot /\ Writing(t)
    BY <1>0, <1>19 DEF TokenInv, CallOK, Writing, DropWriteback
  <2>2. Others(t) /\ ~Token(t)' /\ pc'[t] # "hold" /\ CallOK(t)'
    BY <1>19, Returned DEF DropWriteback
  <2>3. OtherSlots(s) /\ Clear' /\ state'[s] = "Dirty" /\ UNCHANGED <<pins, key, filling, frame, disk>>
    BY <1>0, <1>19, <2>1 DEF TypeInv, TableType, DropWriteback, OtherSlots, Clear
  <2> QED BY <2>1, <2>2, <2>3 DEF ThreadStep, SlotStep, End
<1>20. ASSUME NEW t \in Thread, SyncStart(t) PROVE G(t)
  <2>1. pc[t] = "idle" /\ pc' = [pc EXCEPT ![t] = "round"] /\ op' = [op EXCEPT ![t] = "sync"]
        /\ UNCHANGED <<table, data, arg, slot, failedNow>>
    BY <1>20 DEF SyncStart
  <2>2. Others(t) /\ Quiet(t)
    BY <1>0, <2>1 DEF TypeInv, CallType, Others, Quiet, SameSlots, Token, Filling, Writing, CallOK, table, data
  <2> QED BY <1>0, <2>1, <2>2 DEF ThreadStep, Clear, table
<1>21. ASSUME NEW t \in Thread, SyncRound(t) \/ SyncRoundEnd(t) PROVE G(t)
  <2>1. pc[t] \in {"round", "slots"} /\ ~Token(t) /\ pc[t] # "hold" /\ op[t] = "sync" /\ UNCHANGED <<table, data>>
    BY <1>0, <1>21 DEF SyncRound, SyncRoundEnd, Token, Filling, Writing, TokenInv, CallOK
  <2>2. CASE Return(t)
    BY <1>3, <2>1, <2>2
  <2>3. CASE ~Return(t)
    <3>1. PICK p \in {"round", "slots"} :
             pc' = [pc EXCEPT ![t] = p] /\ UNCHANGED <<op, arg, slot, failedNow>>
      BY <1>21, <2>3 DEF SyncRound, SyncRoundEnd
    <3>2. Others(t) /\ Quiet(t)
      <4>1. Others(t) /\ pc'[t] = p
        BY <1>0, <3>1 DEF TypeInv, CallType, Others
      <4>2. CallOK(t)' /\ ~Token(t)' /\ pc'[t] # "hold"
        BY <2>1, <3>1, <4>1, Retries
      <4> QED BY <2>1, <4>1, <4>2 DEF Quiet, SameSlots, table, data
    <3> QED BY <1>0, <2>1, <3>2 DEF ThreadStep, Clear, table
  <2> QED BY <2>2, <2>3
<1>22. ASSUME NEW t \in Thread, SyncSlot(t) PROVE G(t)
  <2>1. PICK s \in First(todo[t]) :
          IF state[s] = "Dirty"
          THEN /\ state' = [state EXCEPT ![s] = "InFlight"]
               /\ slot' = [slot EXCEPT ![t] = s]
               /\ pc' = [pc EXCEPT ![t] = "write"]
          ELSE UNCHANGED <<state, slot, pc>>
    BY <1>22 DEF SyncSlot
  <2>2. s \in Slot
    BY <1>0, FirstIsIn DEF TypeInv, SyncType
  <2>3. /\ ~Token(t) /\ pc[t] = "slots" /\ op[t] = "sync"
        /\ UNCHANGED <<key, pins, dirtied, filling, data, op, arg, failedNow>>
    BY <1>0, <1>22 DEF SyncSlot, Token, Filling, Writing, TokenInv, CallOK
  <2>4. CASE state[s] = "Dirty"
    <3>1. slot'[t] = s /\ \A u \in Thread \ {t} : slot'[u] = slot[u]
      BY <1>0, <2>1, <2>4 DEF TypeInv, CallType
    <3> QED BY <1>15, <2>1, <2>2, <2>3, <2>4, <3>1
  <2>5. CASE state[s] # "Dirty"
    <3>1. Others(t) /\ Quiet(t)
      BY <1>0, <2>1, <2>3, <2>5 DEF TokenInv, Others, Quiet, SameSlots, Token, Filling, Writing, CallOK, data
    <3> QED BY <1>0, <2>3, <3>1 DEF ThreadStep, Clear
  <2> QED BY <2>4, <2>5
<1>23. CASE LateWrite
  BY <1>0, <1>23 DEF LateWrite, Late, SameSlots, Clear, table, call
<1> QED
  BY <1>1, <1>2, <1>4, <1>5, <1>6, <1>7, <1>8, <1>9, <1>10, <1>11, <1>12, <1>13, <1>14, <1>16,
     <1>17, <1>18, <1>19, <1>20, <1>21, <1>22, <1>23, ZenonT(60) DEF Next, CallStep, Choice

\* Every step keeps the table: one slot per block, and only transfers fill.
LEMMA TableStep == ASSUME CInv, TypeInv', Next PROVE TableInv'
<1>0. TypeInv /\ TypeInv' /\ TableInv /\ TokenInv
  BY DEF CInv
<1>1. Clear' /\ (Late \/ \E t \in Thread : ThreadStep(t))
  BY KindOfStep
<1>2. CASE Late
  BY <1>0, <1>1, <1>2 DEF Late, SameSlots, TableInv, Clear
<1>3. ASSUME NEW t \in Thread, Quiet(t) PROVE TableInv'
  BY <1>0, <1>1, <1>3 DEF Quiet, SameSlots, TableInv, Clear
<1>4. ASSUME NEW t \in Thread, NEW s \in Slot, SlotStep(t, s) PROVE TableInv'
  <2>1. CASE Hit(t, s) \/ LetGo(t, s) \/ Transfer(t, s)
    BY <1>0, <1>1, <2>1, ZenonT(60) DEF Hit, LetGo, Transfer, SameSlots, TableInv, Clear
  <2>2. CASE StartFill(t, s)
    <3>1. arg[t].key \in Key
      BY <1>0, <2>2 DEF TokenInv, CallOK, StartFill
    <3> QED BY <1>0, <1>1, <2>2, <3>1, SMT DEF StartFill, OtherSlots, Uncached, TableInv, Clear
  <2>3. CASE Fetch(t, s)
    <3>1. filling[s] /\ key[s] \in Key
      BY <1>0, <2>3, SMT DEF TokenInv, TableInv, CallOK, Filling, Fetch
    <3> QED BY <1>0, <1>1, <2>3, <3>1, ZenonT(60) DEF Fetch, OtherSlots, TableInv, Clear
  <2>4. CASE EndFill(t, s)
    <3>1. filling[s] /\ state[s] = "InFlight" /\ key[s] \in Key /\ frame[s] \in Val
      BY <1>0, <2>4, SMTT(40) DEF TokenInv, TableInv, CallOK, Filling, EndFill
    <3> QED BY <1>0, <1>1, <2>4, <3>1, SMTT(40) DEF EndFill, OtherSlots, TableInv, Clear
  <2>5. CASE Evict(t, s)
    BY <1>0, <1>1, <2>5, SMTT(40) DEF Evict, OtherSlots, TableInv, Clear
  <2>6. CASE Store1(t, s)
    <3>1. arg[t].key \in Key /\ arg[t].val \in Val
      BY <1>0, <2>6 DEF TokenInv, CallOK, Store1
    <3> QED BY <1>0, <1>1, <2>6, <3>1, SMTT(40) DEF Store1, OtherSlots, TableInv, Clear
  <2>7. CASE Begin(t, s)
    BY <1>0, <1>1, <2>7, SMTT(40) DEF Begin, OtherSlots, TableInv, Clear
  <2>8. CASE End(t, s)
    <3>1. ~filling[s] /\ state[s] = "InFlight"
      BY <1>0, <2>8 DEF TokenInv, CallOK, End
    <3> QED BY <1>0, <1>1, <2>8, <3>1, SMTT(40) DEF End, OtherSlots, TableInv, Clear
  <2> QED BY <1>4, <2>1, <2>2, <2>3, <2>4, <2>5, <2>6, <2>7, <2>8 DEF SlotStep
<1> QED BY <1>1, <1>2, <1>3, <1>4 DEF ThreadStep

\* A thread whose slot the step leaves alone, in what that thread relies on, is
\* where it was.
LEMMA CallSame ==
    ASSUME NEW u \in Thread, CallOK(u),
           pc'[u] = pc[u], op'[u] = op[u], arg'[u] = arg[u], slot'[u] = slot[u],
           Token(u) => /\ key'[slot[u]] = key[slot[u]] /\ state'[slot[u]] = state[slot[u]]
                       /\ frame'[slot[u]] = frame[slot[u]] /\ (filling'[slot[u]] <=> filling[slot[u]]),
           pc[u] = "hold" => /\ key'[slot[u]] = key[slot[u]] /\ state'[slot[u]] # "Free"
                             /\ ~filling'[slot[u]]
    PROVE  CallOK(u)' /\ (Token(u)' <=> Token(u))
BY ZenonT(60) DEF CallOK, Token, Filling, Writing

\* Every step keeps the owners of transfers: who starts one owns it, and only the owner
\* ends it.
LEMMA TokenStep == ASSUME CInv, TypeInv', Next PROVE TokenInv'
<1>0. TypeInv /\ TypeInv' /\ TableInv /\ TokenInv
  BY DEF CInv
<1>a. /\ \A u \in Thread : CallOK(u)
      /\ \A u \in Thread : Token(u) => slot[u] \in Slot /\ state[slot[u]] = "InFlight"
      /\ \A u \in Thread : pc[u] = "hold" => slot[u] \in Slot /\ state[slot[u]] # "Free" /\ ~filling[slot[u]]
      /\ \A u, w \in Thread : Token(u) /\ Token(w) /\ slot[u] = slot[w] => u = w
      /\ \A r \in Slot : state[r] = "InFlight" => \E u \in Thread : Token(u) /\ slot[u] = r
  BY <1>0 DEF TokenInv, TableInv, CallOK, Token
<1>1. CASE Late
  <2>1. \A u \in Thread : CallOK(u)' /\ (Token(u)' <=> Token(u))
    BY <1>a, <1>1, CallSame DEF Late, SameSlots
  <2> QED BY <1>a, <1>1, <2>1 DEF Late, SameSlots, TokenInv
<1>2. ASSUME NEW t \in Thread, Others(t), Quiet(t) PROVE TokenInv'
  <2>1. \A u \in Thread \ {t} : CallOK(u)' /\ (Token(u)' <=> Token(u)) /\ slot'[u] = slot[u]
    BY <1>a, <1>2, CallSame DEF Others, Quiet, SameSlots
  <2>2. CallOK(t)' /\ ~Token(t)' /\ ~Token(t) /\ state' = state
    BY <1>2 DEF Quiet, SameSlots
  <2> QED BY <1>a, <2>1, <2>2, SMTT(40) DEF TokenInv
<1>3. ASSUME NEW t \in Thread, NEW s \in Slot, Others(t), SlotStep(t, s) PROVE TokenInv'
  <2>0. \A u \in Thread \ {t} : pc'[u] = pc[u] /\ op'[u] = op[u] /\ arg'[u] = arg[u] /\ slot'[u] = slot[u]
    BY <1>3 DEF Others
  <2>c. CallOK(t)
    BY <1>a
  <2>1. CASE Hit(t, s) \/ LetGo(t, s)
    <3>1. \A u \in Thread \ {t} : CallOK(u)' /\ (Token(u)' <=> Token(u))
      BY <1>a, <2>0, <2>1, CallSame, SMTT(40) DEF Hit, LetGo, SameSlots
    <3>2. CallOK(t)' /\ ~Token(t)' /\ ~Token(t) /\ state' = state
      BY <2>c, <2>1 DEF Hit, LetGo, SameSlots, CallOK, Token, Filling, Writing
    <3> QED BY <1>a, <2>0, <3>1, <3>2, SMTT(40) DEF TokenInv
  <2>2. CASE Transfer(t, s)
    <3>1. \A u \in Thread \ {t} : CallOK(u)' /\ (Token(u)' <=> Token(u))
      BY <1>a, <2>0, <2>2, CallSame DEF Transfer, SameSlots
    <3>2. CallOK(t)' /\ Token(t)' /\ Token(t) /\ slot'[t] = slot[t] /\ state' = state
      BY <2>c, <2>2 DEF Transfer, SameSlots, CallOK, Token, Filling, Writing
    <3> QED BY <1>a, <2>0, <3>1, <3>2, SMTT(40) DEF TokenInv
  <2>3. CASE StartFill(t, s)
    <3>1. \A u \in Thread : (Token(u) \/ pc[u] = "hold") => slot[u] \in Slot \ {s}
      BY <1>a, <2>3 DEF StartFill, Victim, Readers
    <3>2. \A u \in Thread \ {t} : CallOK(u)' /\ (Token(u)' <=> Token(u))
      BY <1>a, <2>0, <2>3, <3>1, CallSame, SMTT(40) DEF StartFill, OtherSlots
    <3>3. CallOK(t)' /\ Token(t)' /\ ~Token(t) /\ slot'[t] = s
      BY <2>c, <2>3 DEF StartFill, CallOK, Token, Filling, Writing
    <3>4. \A r \in Slot \ {s} : state'[r] = state[r]
      BY <2>3 DEF StartFill, OtherSlots
    <3> QED BY <1>a, <2>0, <3>1, <3>2, <3>3, <3>4, SMTT(40) DEF TokenInv
  <2>4. CASE Fetch(t, s)
    <3>0. Token(t) /\ slot[t] = s /\ Token(t)' /\ slot'[t] = s /\ state' = state
      BY <2>4 DEF Fetch, Token, Filling
    <3>1. \A u \in Thread \ {t} : Token(u) => slot[u] \in Slot \ {s}
      BY <1>a, <3>0
    <3>2. filling[s] /\ key[s] = arg[t].key /\ key[s] \in Key
      BY <1>0, <2>c, <2>4 DEF Fetch, CallOK, Filling, TableInv
    <3>3. frame'[s] \in Val
      BY <1>0, <2>4, <3>2 DEF Fetch, TypeInv, DataType
    <3>4. \A u \in Thread \ {t} : CallOK(u)' /\ (Token(u)' <=> Token(u))
      BY <1>a, <2>0, <2>4, <3>1, <3>2, CallSame, ZenonT(60) DEF Fetch, OtherSlots
    <3>5. CallOK(t)'
      BY <2>c, <2>4, <3>2, <3>3 DEF Fetch, CallOK, Filling, Writing
    <3> QED BY <1>a, <2>0, <3>0, <3>4, <3>5, SMTT(40) DEF TokenInv
  <2>5. CASE EndFill(t, s) \/ Evict(t, s)
    <3>0. Token(t) /\ slot[t] = s /\ filling[s] /\ key[s] = arg[t].key
      BY <2>c, <2>5 DEF EndFill, Evict, Token, CallOK, Filling
    <3>1. /\ \A u \in Thread \ {t} : Token(u) => slot[u] \in Slot \ {s}
          /\ \A u \in Thread : pc[u] = "hold" => slot[u] \in Slot \ {s}
      BY <1>a, <3>0
    <3>2. /\ OtherSlots(s) /\ state'[s] \in {"Clean", "Free"}
          /\ \A r \in Slot \ {s} : state'[r] = state[r]
      BY <2>5 DEF EndFill, Evict, OtherSlots
    <3>3. \A u \in Thread \ {t} : CallOK(u)' /\ (Token(u)' <=> Token(u))
      BY <1>a, <2>0, <3>1, <3>2, CallSame, SMT DEF OtherSlots
    <3>4. CallOK(t)' /\ ~Token(t)'
      BY <2>c, <2>5, <3>0 DEF EndFill, Evict, CallOK, Token, Filling, Writing
    <3> QED BY <1>a, <2>0, <3>0, <3>1, <3>2, <3>3, <3>4, SMT DEF TokenInv
  <2>6. CASE Store1(t, s)
    <3>1. \A u \in Thread : (Token(u) \/ pc[u] = "hold") => slot[u] \in Slot \ {s}
      BY <1>a, <2>6 DEF Store1, Readers
    <3>2. /\ OtherSlots(s) /\ state'[s] = "Dirty"
          /\ \A r \in Slot \ {s} : state'[r] = state[r]
      BY <2>6 DEF Store1, OtherSlots
    <3>3. \A u \in Thread \ {t} : CallOK(u)' /\ (Token(u)' <=> Token(u))
      BY <1>a, <2>0, <3>1, <3>2, CallSame, SMTT(40) DEF OtherSlots
    <3>4. CallOK(t)' /\ ~Token(t)' /\ ~Token(t)
      BY <2>6 DEF Store1, CallOK, Token, Filling, Writing
    <3> QED BY <1>a, <2>0, <3>1, <3>2, <3>3, <3>4, SMTT(40) DEF TokenInv
  <2>7. CASE Begin(t, s)
    <3>1. ~filling[s] /\ \A u \in Thread : Token(u) => slot[u] \in Slot \ {s}
      BY <1>0, <1>a, <2>7 DEF Begin, TableInv
    <3>2. /\ OtherSlots(s) /\ state'[s] = "InFlight" /\ key'[s] = key[s] /\ ~filling'[s]
          /\ \A r \in Slot \ {s} : state'[r] = state[r]
      BY <2>7, <3>1 DEF Begin, OtherSlots
    <3>3. \A u \in Thread \ {t} : CallOK(u)' /\ (Token(u)' <=> Token(u))
      BY <1>a, <2>0, <3>1, <3>2, CallSame, SMTT(40) DEF OtherSlots
    <3>4. CallOK(t)' /\ Token(t)' /\ ~Token(t) /\ slot'[t] = s
      BY <2>c, <2>7, <3>2 DEF Begin, CallOK, Token, Filling, Writing
    <3> QED BY <1>a, <2>0, <3>1, <3>2, <3>3, <3>4, SMTT(40) DEF TokenInv
  <2>8. CASE End(t, s)
    <3>0. Token(t) /\ slot[t] = s /\ ~filling[s]
      BY <2>c, <2>8 DEF End, Token, CallOK
    <3>1. \A u \in Thread \ {t} : Token(u) => slot[u] \in Slot \ {s}
      BY <1>a, <3>0
    <3>2. /\ OtherSlots(s) /\ state'[s] \in {"Clean", "Dirty"} /\ key'[s] = key[s] /\ ~filling'[s]
          /\ \A r \in Slot \ {s} : state'[r] = state[r]
      BY <2>8, <3>0 DEF End, OtherSlots
    <3>3. \A u \in Thread \ {t} : CallOK(u)' /\ (Token(u)' <=> Token(u))
      BY <1>a, <2>0, <3>1, <3>2, CallSame, SMT DEF OtherSlots
    <3>4. CallOK(t)' /\ ~Token(t)'
      BY <2>8 DEF End
    <3> QED BY <1>a, <2>0, <3>0, <3>1, <3>2, <3>3, <3>4, SMTT(40) DEF TokenInv
  <2> QED BY <1>3, <2>1, <2>2, <2>3, <2>4, <2>5, <2>6, <2>7, <2>8 DEF SlotStep
<1> QED BY <1>1, <1>2, <1>3, KindOfStep DEF ThreadStep

-----------------------------------------------------------------------------
(* Contents, when no write is given up on. *)

\* Without time-outs no write is left behind to land later.
LEMMA NothingLate == ASSUME ~MayTimeOut, late = {}, Next PROVE late' = {}
<1>1. CASE LateWrite
  BY <1>1 DEF LateWrite
<1>2. ASSUME NEW t \in Thread, CallStep(t) PROVE late' = {}
  BY <1>2 DEF CallStep, ClaimHit, ClaimFill, TableFull, FillRead, FinishFill, StoreHit, StoreMiss,
     MakeRoom, BeginWriteback, WriteBlock, FinishWriteback, SyncRound, SyncSlot, SyncRoundEnd, data
<1>3. ASSUME NEW t \in Thread, Choice(t) PROVE late' = {}
  BY <1>3 DEF Choice, ClaimWait, StoreWait, FillFails, DropWriteback, Unpin, SyncStart, StartRead,
     StartWrite, data
<1> QED BY <1>1, <1>2, <1>3 DEF Next

\* Every step keeps clean frames equal to the blocks of the device.
LEMMA DataStep == ASSUME ~MayTimeOut, DInv, Next PROVE DataInv'
<1>0. TypeInv /\ TableInv /\ TokenInv /\ DataInv /\ CInv
  BY DEF DInv, CInv
<1> DEFINE Good(r) == state[r] = "Clean" => frame[r] = disk[key[r]]
           Moved(u) == pc[u] = "filled" \/ (pc[u] = "wrote" /\ ~failedNow[u])
                          => frame[slot[u]] = disk[key[slot[u]]]
<1>1. \A r \in Slot : Good(r)
  BY <1>0 DEF DataInv
<1>2. \A u \in Thread : Moved(u)
  BY <1>0 DEF DataInv
<1>3. \A u \in Thread : Token(u) => slot[u] \in Slot /\ state[slot[u]] = "InFlight" /\ key[slot[u]] \in Key
  BY <1>0 DEF TokenInv, CallOK, TableInv, Token, Filling, Writing
<1>4. late' = {}
  BY <1>0, NothingLate DEF DataInv
<1>5. \A u, v \in Thread : Token(u) /\ Token(v) /\ slot[u] = slot[v] => u = v
  BY <1>0 DEF TokenInv
<1>6. ASSUME NEW t \in Thread, Others(t), SameSlots, UNCHANGED disk, ~Token(t)'
      PROVE  (\A r \in Slot : Good(r)') /\ (\A u \in Thread : Moved(u)')
  <2>1. \A r \in Slot : Good(r)'
    BY <1>1, <1>6 DEF SameSlots
  <2>2. \A u \in Thread : Moved(u)'
    BY <1>2, <1>6 DEF SameSlots, Others, Token, Filling, Writing
  <2> QED BY <2>1, <2>2
<1>7. ASSUME NEW t \in Thread, NEW s \in Slot, Others(t), OtherSlots(s), UNCHANGED disk,
             \A u \in Thread \ {t} : Token(u) => slot[u] # s
      PROVE  (\A r \in Slot \ {s} : Good(r)') /\ (\A u \in Thread \ {t} : Moved(u)')
  <2>1. \A r \in Slot \ {s} : Good(r)'
    BY <1>1, <1>7, ZenonT(60) DEF OtherSlots
  <2>2. ASSUME NEW u \in Thread \ {t} PROVE Moved(u)'
    <3>1. CASE Token(u)
      <4>1. slot[u] \in Slot \ {s}
        BY <1>3, <1>7, <3>1
      <4>2. pc'[u] = pc[u] /\ (failedNow'[u] <=> failedNow[u]) /\ slot'[u] = slot[u]
        BY <1>7 DEF Others
      <4>3. frame'[slot[u]] = frame[slot[u]] /\ key'[slot[u]] = key[slot[u]]
        BY <1>7, <4>1 DEF OtherSlots
      <4> QED BY <1>2, <1>7, <4>2, <4>3
    <3>2. CASE ~Token(u)
      BY <1>7, <3>2 DEF Others, Token, Filling, Writing
    <3> QED BY <3>1, <3>2
  <2> QED BY <2>1, <2>2
<1>8. ASSUME NEW t \in Thread, NEW s \in Slot, Others(t), SlotStep(t, s)
      PROVE  (\A r \in Slot : Good(r)') /\ (\A u \in Thread : Moved(u)')
  <2>1. CASE Hit(t, s) \/ LetGo(t, s)
    BY <1>6, <1>8, <2>1 DEF Hit, LetGo, Token, Filling, Writing
  <2>2. CASE StartFill(t, s)
    <3>1. \A u \in Thread \ {t} : Token(u) => slot[u] # s
      BY <1>3, <2>2 DEF StartFill, Victim
    <3>2. Good(s)' /\ Moved(t)'
      BY <2>2 DEF StartFill
    <3>3. OtherSlots(s) /\ UNCHANGED disk
      BY <2>2 DEF StartFill
    <3> QED BY <1>7, <1>8, <3>1, <3>2, <3>3
  <2>3. CASE Fetch(t, s)
    <3>1. \A u \in Thread \ {t} : Token(u) => slot[u] # s
      BY <1>5, <2>3 DEF Fetch, Token, Filling
    <3>2. state[s] = "InFlight"
      BY <1>3, <2>3 DEF Fetch, Token, Filling
    <3>3. Good(s)' /\ Moved(t)'
      BY <2>3, <3>2 DEF Fetch
    <3>4. OtherSlots(s) /\ UNCHANGED disk
      BY <2>3 DEF Fetch
    <3> QED BY <1>7, <1>8, <3>1, <3>3, <3>4
  <2>4. CASE EndFill(t, s) \/ Evict(t, s)
    <3>1. \A u \in Thread \ {t} : Token(u) => slot[u] # s
      BY <1>5, <2>4 DEF EndFill, Evict, Token, Filling
    <3>2. Good(s)' /\ Moved(t)'
      BY <1>2, <2>4 DEF EndFill, Evict
    <3>3. OtherSlots(s) /\ UNCHANGED disk
      BY <2>4 DEF EndFill, Evict
    <3> QED BY <1>7, <1>8, <3>1, <3>2, <3>3
  <2>5. CASE Store1(t, s) \/ Begin(t, s)
    <3>1. \A u \in Thread \ {t} : Token(u) => slot[u] # s
      BY <1>3, <2>5 DEF Store1, Begin
    <3>2. Good(s)' /\ Moved(t)'
      BY <2>5 DEF Store1, Begin
    <3>3. OtherSlots(s) /\ UNCHANGED disk
      BY <2>5 DEF Store1, Begin
    <3> QED BY <1>7, <1>8, <3>1, <3>2, <3>3
  <2>6. CASE End(t, s)
    <3>1. \A u \in Thread \ {t} : Token(u) => slot[u] # s
      BY <1>5, <2>6 DEF End, Token
    <3>2. Good(s)'
      BY <1>2, <2>6 DEF End
    <3>3. Moved(t)'
      BY <2>6 DEF End, Token, Filling, Writing
    <3>4. OtherSlots(s) /\ UNCHANGED disk
      BY <2>6 DEF End
    <3> QED BY <1>7, <1>8, <3>1, <3>2, <3>3, <3>4
  <2>7. CASE Transfer(t, s)
    <3>1. Token(t) /\ slot[t] = s /\ key[s] \in Key /\ state[s] = "InFlight"
      BY <1>3, <2>7 DEF Transfer, Token, Writing
    <3>2. \A b \in Key : b # key[s] => disk'[b] = disk[b]
      BY <1>0, <2>7 DEF Transfer, TypeInv, DataType
    <3>3. ~failedNow'[t] => disk'[key[s]] = frame[s]
      BY <1>0, <2>7, <3>1 DEF Transfer, TypeInv, DataType
    <3>4. \A r \in Slot : key'[r] = key[r] /\ frame'[r] = frame[r] /\ state'[r] = state[r]
      BY <2>7 DEF Transfer, SameSlots
    <3>5. \A r \in Slot \ {s} : state[r] # "Free" => key[r] \in Key /\ key[r] # key[s]
      BY <1>0, <3>1 DEF TableInv
    <3>6. ASSUME NEW r \in Slot PROVE Good(r)'
      <4>1. CASE r = s
        BY <3>1, <3>4, <4>1
      <4>2. CASE r # s
        BY <1>1, <3>2, <3>4, <3>5, <4>2, SMTT(40)
      <4> QED BY <4>1, <4>2
    <3>7. Moved(t)'
      BY <2>7, <3>3, <3>4 DEF Transfer
    <3>8. ASSUME NEW u \in Thread \ {t} PROVE Moved(u)'
      <4>1. CASE Token(u)
        <5>1. slot[u] \in Slot \ {s} /\ state[slot[u]] # "Free"
          BY <1>3, <1>5, <3>1, <4>1
        <5>2. pc'[u] = pc[u] /\ (failedNow'[u] <=> failedNow[u]) /\ slot'[u] = slot[u]
          BY <1>8 DEF Others
        <5>3. disk'[key[slot[u]]] = disk[key[slot[u]]]
          BY <3>2, <3>5, <5>1
        <5> QED BY <1>2, <3>4, <5>1, <5>2, <5>3, SMTT(40)
      <4>2. CASE ~Token(u)
        BY <1>8, <4>2 DEF Others, Token, Filling, Writing
      <4> QED BY <4>1, <4>2
    <3> QED BY <3>6, <3>7, <3>8
  <2> QED BY <1>8, <2>1, <2>2, <2>3, <2>4, <2>5, <2>6, <2>7 DEF SlotStep
<1>9. ~Late
  BY <1>0 DEF Late, DataInv
<1>10. (\A r \in Slot : Good(r)') /\ (\A u \in Thread : Moved(u)')
  <2>1. PICK t \in Thread : ThreadStep(t)
    BY <1>0, <1>9, KindOfStep
  <2>2. CASE Quiet(t)
    BY <1>6, <2>1, <2>2 DEF ThreadStep, Quiet
  <2>3. CASE \E s \in Slot : SlotStep(t, s)
    BY <1>8, <2>1, <2>3 DEF ThreadStep
  <2> QED BY <2>1, <2>2, <2>3 DEF ThreadStep
<1> QED BY <1>4, <1>10 DEF DataInv

\* A read of b finds slot s.
Shown(s, b) == state[s] # "Free" /\ key[s] = b /\ ~filling[s]
VisibleOK ==
    \A b \in Key :
        /\ \A s \in Slot : Shown(s, b) => Visible(b) = frame[s]
        /\ (\A s \in Slot : ~Shown(s, b)) => Visible(b) = disk[b]

\* What a read would see is the frame of the slot that shows the block, and the
\* device's block where none does.
LEMMA VisibleIs == TableInv => VisibleOK
<1> SUFFICES ASSUME TableInv, NEW b \in Key
             PROVE  /\ \A s \in Slot : Shown(s, b) => Visible(b) = frame[s]
                    /\ (\A s \in Slot : ~Shown(s, b)) => Visible(b) = disk[b]
  BY DEF VisibleOK
<1> DEFINE resident == {s \in lookup(b) : ~filling[s]}
<1>1. \A s : s \in resident <=> s \in Slot /\ Shown(s, b)
  BY LookupIs DEF Shown
<1>2. \A r, s \in Slot : Shown(r, b) /\ Shown(s, b) => r = s
  BY DEF TableInv, Shown
<1>3. ASSUME NEW s \in Slot, Shown(s, b) PROVE Visible(b) = frame[s]
  <2>1. resident = {s}
    BY <1>1, <1>2, <1>3
  <2> QED BY <2>1 DEF Visible
<1>4. ASSUME \A s \in Slot : ~Shown(s, b) PROVE Visible(b) = disk[b]
  <2>1. resident = {}
    BY <1>1, <1>4
  <2> QED BY <2>1 DEF Visible
<1> QED BY <1>3, <1>4

\* What syncs are owed only shrinks.
SyncKept ==
    \A u \in Thread :
        unsaved'[u] = {} \/ (unsaved'[u] \subseteq unsaved[u] /\ owed'[u] = owed[u])

\* A step that leaves what syncs are owed.
LEMMA SyncSame == ASSUME UNCHANGED <<owed, unsaved>> PROVE SyncKept
BY DEF SyncKept

\* A call that returns owes its sync nothing more.
LEMMA SyncReturned == ASSUME TypeInv, NEW t \in Thread, Return(t) PROVE SyncKept
BY DEF TypeInv, SyncType, Return, SyncKept

\* No step but the start of a sync adds to what it is owed.
LEMMA SyncKind == ASSUME CInv, Next, ~\E t \in Thread : SyncStart(t) PROVE SyncKept
<1>0. TypeInv
  BY DEF CInv
<1>1. CASE LateWrite
  BY <1>1, SyncSame DEF LateWrite, syncing
<1>2. ASSUME NEW t \in Thread,
             \/ ClaimHit(t) \/ ClaimFill(t) \/ FillRead(t) \/ FinishFill(t) \/ BeginWriteback(t)
             \/ SyncSlot(t) \/ \E b \in Key : StartRead(t, b) \/ \E v \in Val : StartWrite(t, b, v)
      PROVE  SyncKept
  BY <1>2, SyncSame DEF ClaimHit, ClaimFill, FillRead, FinishFill, BeginWriteback, SyncSlot,
     StartRead, StartWrite, syncing
<1>3. ASSUME NEW t \in Thread,
             \/ TableFull(t) \/ MakeRoom(t) \/ FinishWriteback(t) \/ SyncRound(t) \/ SyncRoundEnd(t)
      PROVE  SyncKept
  BY <1>0, <1>3, SyncSame, SyncReturned DEF TableFull, MakeRoom, FinishWriteback, SyncRound,
     SyncRoundEnd, syncing
<1>4. ASSUME NEW t \in Thread,
             \/ StoreHit(t) \/ StoreMiss(t) \/ ClaimWait(t) \/ StoreWait(t) \/ FillFails(t)
             \/ DropWriteback(t) \/ Unpin(t)
      PROVE  SyncKept
  BY <1>0, <1>4, SyncReturned DEF StoreHit, StoreMiss, ClaimWait, StoreWait, FillFails,
     DropWriteback, Unpin
<1>5. ASSUME NEW t \in Thread, WriteBlock(t) PROVE SyncKept
  <2>1. owed' = owed
    BY <1>5 DEF WriteBlock
  <2>2. unsaved' = unsaved \/ \E b : unsaved' = [u \in Thread |-> unsaved[u] \ {b}]
    BY <1>5 DEF WriteBlock, Land
  <2> QED BY <2>1, <2>2 DEF SyncKept
<1> QED BY <1>1, <1>2, <1>3, <1>4, <1>5 DEF Next, CallStep, Choice

\* A write that has just succeeded is in the device, and no sync still misses it.
LEMMA WroteKind ==
    ASSUME CInv, Next, NEW t \in Thread, pc'[t] = "wrote", ~failedNow'[t], pc[t] # "wrote"
    PROVE  \A u \in Thread : key'[slot'[t]] \notin unsaved'[u]
<1>0. CallType
  BY DEF CInv, TypeInv
<1>1. CASE WriteBlock(t)
  <2>1. Land(key[slot[t]], frame[slot[t]]) /\ UNCHANGED <<key, slot>>
    BY <1>0, <1>1 DEF WriteBlock, table, CallType
  <2> QED BY <2>1 DEF Land
<1>2. ASSUME NEW u \in Thread, Return(u) PROVE pc'[t] # "wrote"
  BY <1>0, <1>2 DEF CallType, Return
<1>3. ASSUME NEW u \in Thread,
             CallStep(u) /\ ~WriteBlock(u) PROVE pc'[t] # "wrote"
  BY <1>0, <1>2, <1>3 DEF CallType, CallStep, ClaimHit, ClaimFill, TableFull, FillRead, FinishFill,
     StoreHit, StoreMiss, MakeRoom, BeginWriteback, FinishWriteback, SyncRound, SyncSlot,
     SyncRoundEnd, Retry
<1>4. ASSUME NEW u \in Thread, Choice(u) PROVE pc'[t] # "wrote"
  BY <1>0, <1>2, <1>4 DEF CallType, Choice, ClaimWait, StoreWait, FillFails, DropWriteback, Unpin,
     SyncStart, StartRead, StartWrite
<1>5. ASSUME NEW u \in Thread \ {t}, WriteBlock(u) PROVE pc'[t] # "wrote"
  BY <1>0, <1>5 DEF CallType, WriteBlock
<1>6. ~LateWrite
  BY DEF LateWrite, call
<1> QED BY <1>1, <1>3, <1>4, <1>5, <1>6 DEF Next

\* A slot some sync still misses stays unsynced, and keeps its block.
LEMMA MaskKept ==
    ASSUME DInv, Next, NEW u \in Thread, NEW r \in Slot, r \in unsynced_mask, key[r] \in unsaved[u]
    PROVE  r \in unsynced_mask' /\ key'[r] = key[r]
<1>0. TypeInv /\ TableInv /\ TokenInv /\ DataInv /\ SyncInv /\ CInv
  BY DEF DInv, CInv
<1>1. ~Late
  BY <1>0 DEF Late, DataInv
<1>2. PICK t \in Thread : ThreadStep(t)
  BY <1>0, <1>1, KindOfStep
<1>3. state[r] = "Dirty" \/ (state[r] = "InFlight" /\ ~filling[r])
  BY DEF unsynced_mask
<1>4. ~filling[r]
  BY <1>0, <1>3 DEF TableInv
<1> DEFINE Same == key'[r] = key[r] /\ state'[r] = state[r] /\ (filling'[r] <=> filling[r])
<1>5. Same => r \in unsynced_mask' /\ key'[r] = key[r]
  BY <1>3 DEF unsynced_mask
<1>6. CASE SameSlots
  BY <1>5, <1>6 DEF SameSlots
<1>7. ASSUME NEW s \in Slot, SlotStep(t, s) PROVE r \in unsynced_mask' /\ key'[r] = key[r]
  <2>1. CASE Hit(t, s) \/ LetGo(t, s) \/ Transfer(t, s)
    BY <1>6, <2>1 DEF Hit, LetGo, Transfer
  <2>2. CASE OtherSlots(s) /\ r # s
    BY <1>5, <2>2 DEF OtherSlots
  <2>3. CASE r = s /\ StartFill(t, s)
    BY <1>3, <2>3 DEF StartFill, Victim
  <2>4. CASE r = s /\ (Fetch(t, s) \/ EndFill(t, s) \/ Evict(t, s))
    <3>1. Filling(t) /\ slot[t] = s
      BY <2>4 DEF Fetch, EndFill, Evict, Filling
    <3> QED BY <1>0, <1>4, <2>4, <3>1 DEF TokenInv, CallOK
  <2>5. CASE r = s /\ Store1(t, s)
    BY <1>3, <2>5 DEF Store1, unsynced_mask
  <2>6. CASE r = s /\ Begin(t, s)
    BY <1>4, <2>6 DEF Begin, unsynced_mask
  <2>7. CASE r = s /\ End(t, s)
    <3>1. ~(pc[t] = "wrote" /\ ~failedNow[t])
      BY <1>0, <2>7 DEF SyncInv, End
    <3>2. state'[s] = "Dirty" /\ key' = key
      BY <2>7, <3>1 DEF End
    <3> QED BY <2>7, <3>2 DEF unsynced_mask
  <2> QED BY <1>7, <2>1, <2>2, <2>3, <2>4, <2>5, <2>6, <2>7
          DEF SlotStep, StartFill, Fetch, EndFill, Evict, Store1, Begin, End
<1> QED BY <1>2, <1>6, <1>7 DEF ThreadStep, Quiet

\* Nobody else touches a slot whose write-back has been transferred.
LEMMA WroteKept ==
    ASSUME DInv, Next, NEW u \in Thread, pc[u] = "wrote", pc'[u] = "wrote", ~failedNow'[u]
    PROVE  ~failedNow[u] /\ slot'[u] = slot[u] /\ key'[slot[u]] = key[slot[u]]
<1>0. TypeInv /\ TableInv /\ TokenInv /\ DataInv /\ CInv
  BY DEF DInv, CInv
<1>1. ~Late
  BY <1>0 DEF Late, DataInv
<1>2. PICK t \in Thread : ThreadStep(t)
  BY <1>0, <1>1, KindOfStep
<1>3. slot[u] \in Slot /\ state[slot[u]] = "InFlight" /\ Token(u)
  BY <1>0 DEF TokenInv, CallOK, Token, Writing
<1>4. t # u
  BY <1>2, <1>3 DEF ThreadStep, Quiet, SlotStep, Hit, StartFill, Fetch, EndFill, Evict, LetGo,
     Store1, Begin, Transfer, End, Token, Writing
<1>5. ~failedNow[u] /\ slot'[u] = slot[u]
  BY <1>2, <1>4 DEF ThreadStep, Others
<1>6. key'[slot[u]] = key[slot[u]]
  <2>1. CASE SameSlots
    BY <2>1 DEF SameSlots
  <2>2. ASSUME NEW s \in Slot, SlotStep(t, s) PROVE key'[slot[u]] = key[slot[u]]
    <3>1. CASE Hit(t, s) \/ LetGo(t, s) \/ Transfer(t, s)
      BY <2>1, <3>1 DEF Hit, LetGo, Transfer
    <3>2. CASE Fetch(t, s) \/ EndFill(t, s) \/ Begin(t, s) \/ End(t, s)
      BY <3>2 DEF Fetch, EndFill, Begin, End
    <3>3. CASE StartFill(t, s) \/ Store1(t, s)
      <4>1. slot[u] # s
        BY <1>3, <3>3 DEF StartFill, Store1, Victim
      <4> QED BY <1>3, <3>3, <4>1 DEF StartFill, Store1, OtherSlots
    <3>4. CASE Evict(t, s)
      <4>1. slot[u] # s
        BY <1>0, <1>3, <1>4, <3>4 DEF Evict, TokenInv, Token, Filling
      <4> QED BY <1>3, <3>4, <4>1 DEF Evict, OtherSlots
    <3> QED BY <2>2, <3>1, <3>2, <3>3, <3>4 DEF SlotStep
  <2> QED BY <1>2, <2>1, <2>2 DEF ThreadStep, Quiet
<1> QED BY <1>5, <1>6

\* Every step keeps SyncInv.
LEMMA SyncStep == ASSUME DInv, Next PROVE SyncInv'
<1>0. TypeInv /\ TableInv /\ TokenInv /\ DataInv /\ SyncInv /\ CInv
  BY DEF DInv, CInv
<1>1. CASE ~\E t \in Thread : SyncStart(t)
  <2>1. SyncKept
    BY <1>0, <1>1, SyncKind
  <2>2. ASSUME NEW u \in Thread, NEW b \in unsaved'[u]
        PROVE  \E s \in owed'[u] : key'[s] = b /\ s \in unsynced_mask'
    <3>1. b \in unsaved[u] /\ owed'[u] = owed[u]
      BY <2>1, <2>2 DEF SyncKept
    <3>2. PICK s \in owed[u] : key[s] = b /\ s \in unsynced_mask
      BY <1>0, <3>1 DEF SyncInv
    <3>3. s \in Slot
      BY <3>2 DEF unsynced_mask
    <3>4. s \in unsynced_mask' /\ key'[s] = key[s]
      BY <3>1, <3>2, <3>3, MaskKept
    <3> QED BY <3>1, <3>2, <3>4
  <2>3. ASSUME NEW t \in Thread, pc'[t] = "wrote", ~failedNow'[t], NEW u \in Thread
        PROVE  key'[slot'[t]] \notin unsaved'[u]
    <3>1. CASE pc[t] # "wrote"
      BY <1>0, <2>3, <3>1, WroteKind
    <3>2. CASE pc[t] = "wrote"
      <4>1. ~failedNow[t] /\ slot'[t] = slot[t] /\ key'[slot[t]] = key[slot[t]]
        BY <2>3, <3>2, WroteKept
      <4>2. key[slot[t]] \notin unsaved[u]
        BY <1>0, <3>2, <4>1 DEF SyncInv
      <4> QED BY <2>1, <4>1, <4>2 DEF SyncKept
    <3> QED BY <3>1, <3>2
  <2> QED BY <2>2, <2>3 DEF SyncInv
<1>2. ASSUME NEW t \in Thread, SyncStart(t) PROVE SyncInv'
  <2>1. /\ UNCHANGED <<key, state, filling, frame, disk, slot, failedNow>>
        /\ owed' = [owed EXCEPT ![t] = unsynced_mask]
        /\ unsaved' = [unsaved EXCEPT ![t] = {b \in Key : disk[b] # Visible(b)}]
        /\ pc[t] = "idle" /\ pc' = [pc EXCEPT ![t] = "round"]
    BY <1>2 DEF SyncStart, table, data
  <2>2. unsynced_mask' = unsynced_mask
    BY <2>1 DEF unsynced_mask
  <2>3. /\ owed'[t] = unsynced_mask
        /\ unsaved'[t] = {b \in Key : disk[b] # Visible(b)}
        /\ \A u \in Thread \ {t} : owed'[u] = owed[u] /\ unsaved'[u] = unsaved[u]
    BY <1>0, <2>1 DEF TypeInv, SyncType
  <2>4. \A u \in Thread : pc'[u] = "wrote" => pc[u] = "wrote"
    BY <1>0, <2>1 DEF TypeInv, CallType
  <2>5. VisibleOK
    BY <1>0, VisibleIs
  <2>6. ASSUME NEW b \in unsaved'[t]
        PROVE  \E s \in owed'[t] : key'[s] = b /\ s \in unsynced_mask'
    <3>1. b \in Key /\ disk[b] # Visible(b)
      BY <2>3
    <3>2. PICK s \in Slot : Shown(s, b)
      BY <2>5, <3>1 DEF VisibleOK
    <3>3. frame[s] # disk[b]
      BY <2>5, <3>1, <3>2 DEF VisibleOK
    <3>4. state[s] # "Clean" /\ state[s] # "Free" /\ key[s] = b /\ ~filling[s]
      BY <1>0, <3>2, <3>3 DEF Shown, DataInv
    <3>5. s \in unsynced_mask
      BY <1>0, <3>4 DEF unsynced_mask, TypeInv, TableType, States
    <3> QED BY <2>1, <2>2, <2>3, <3>4, <3>5
  <2>7. \A u \in Thread : \A b \in unsaved'[u] : \E s \in owed'[u] : key'[s] = b /\ s \in unsynced_mask'
    <3>1. ASSUME NEW u \in Thread \ {t}, NEW b \in unsaved'[u]
          PROVE  \E s \in owed'[u] : key'[s] = b /\ s \in unsynced_mask'
      <4>1. b \in unsaved[u]
        BY <2>3
      <4>2. PICK s \in owed[u] : key[s] = b /\ s \in unsynced_mask
        BY <1>0, <4>1 DEF SyncInv
      <4> QED BY <2>1, <2>2, <2>3, <4>2
    <3> QED BY <2>6, <3>1
  <2>8. ASSUME NEW v \in Thread, pc'[v] = "wrote", ~failedNow'[v], NEW u \in Thread
        PROVE  key'[slot'[v]] \notin unsaved'[u]
    <3>1. pc[v] = "wrote" /\ ~failedNow[v] /\ slot'[v] = slot[v] /\ key' = key
      BY <2>1, <2>4, <2>8
    <3>2. CASE u # t
      BY <1>0, <2>3, <3>1, <3>2 DEF SyncInv
    <3>3. CASE u = t
      <4>1. slot[v] \in Slot /\ Shown(slot[v], key[slot[v]]) /\ key[slot[v]] \in Key
        BY <1>0, <3>1 DEF TokenInv, CallOK, Writing, TableInv, Shown
      <4>2. Visible(key[slot[v]]) = frame[slot[v]]
        BY <2>5, <4>1 DEF VisibleOK
      <4>3. frame[slot[v]] = disk[key[slot[v]]]
        BY <1>0, <3>1 DEF DataInv
      <4> QED BY <2>3, <3>1, <3>3, <4>2, <4>3
    <3> QED BY <3>2, <3>3
  <2> QED BY <2>7, <2>8 DEF SyncInv
<1> QED BY <1>1, <1>2

-----------------------------------------------------------------------------
(* The refinement of BlockStore: what readers see and hold. *)

\* What thread t has in its hands.
Held(t) == IF pc[t] = "hold" THEN [key |-> key[slot[t]], val |-> frame[slot[t]]] ELSE NoBlock

\* A reader whose slot keeps its block and frame holds what it held.
LEMMA HeldSame ==
    ASSUME TokenInv, NEW u \in Thread,
           pc'[u] = "hold" <=> pc[u] = "hold",
           pc[u] = "hold" => /\ slot'[u] = slot[u]
                             /\ key'[slot[u]] = key[slot[u]] /\ frame'[slot[u]] = frame[slot[u]]
    PROVE  Held(u)' = Held(u)
BY DEF Held

\* VisibleIs, for the state after a step.
LEMMA SeenThen == TableInv' => VisibleOK'
BY VisibleIs, PTL

\* All but a store leave what readers see; a store changes its block alone.
LEMMA SeenStep ==
    ASSUME DInv, TableInv', NEW t \in Thread, NEW s \in Slot, Others(t), SlotStep(t, s), NEW b \in Key
    PROVE  Visible(b)' = IF Store1(t, s) /\ b = arg[t].key THEN arg[t].val ELSE Visible(b)
<1>0. TypeInv /\ TableInv /\ TokenInv /\ DataInv
  BY DEF DInv, CInv
<1>1. VisibleOK /\ VisibleOK'
  BY <1>0, VisibleIs, SeenThen
<1>2. \A r, q \in Slot : Shown(r, b) /\ Shown(q, b) => r = q
  BY <1>0 DEF TableInv, Shown
<1>3. ASSUME SameSlots, UNCHANGED disk PROVE Visible(b)' = Visible(b)
  <2>1. \A r \in Slot : (Shown(r, b)' <=> Shown(r, b)) /\ frame'[r] = frame[r]
    BY <1>3 DEF SameSlots, Shown
  <2> QED BY <1>1, <1>3, <2>1, SMT DEF VisibleOK
<1>4. ASSUME OtherSlots(s) PROVE \A r \in Slot \ {s} : (Shown(r, b)' <=> Shown(r, b)) /\ frame'[r] = frame[r]
  BY <1>4 DEF OtherSlots, Shown
<1>5. CASE Hit(t, s) \/ LetGo(t, s)
  BY <1>3, <1>5 DEF Hit, LetGo, Store1
<1>6. ASSUME OtherSlots(s), UNCHANGED disk, Shown(s, b) => frame[s] = disk[b],
             Shown(s, b)' => frame'[s] = disk[b] /\ \A r \in Slot \ {s} : ~Shown(r, b)
      PROVE  Visible(b)' = Visible(b)
  <2>1. CASE \E r \in Slot \ {s} : Shown(r, b)
    <3>1. PICK r \in Slot \ {s} : Shown(r, b)
      BY <2>1
    <3>2. Shown(r, b)' /\ frame'[r] = frame[r]
      BY <1>4, <1>6, <3>1
    <3> QED BY <1>1, <3>1, <3>2, ZenonT(60) DEF VisibleOK
  <2>2. CASE \A r \in Slot \ {s} : ~Shown(r, b)
    <3>1. \A r \in Slot \ {s} : ~Shown(r, b)'
      BY <1>4, <1>6, <2>2
    <3>2. Visible(b) = disk[b]
      BY <1>1, <1>6, <2>2 DEF VisibleOK
    <3>3. Visible(b)' = disk'[b]
      BY <1>1, <1>6, <3>1 DEF VisibleOK
    <3> QED BY <1>6, <3>2, <3>3
  <2> QED BY <2>1, <2>2
<1>7. CASE StartFill(t, s)
  <2>1. ~Shown(s, b)' /\ OtherSlots(s) /\ UNCHANGED disk
    BY <1>7 DEF StartFill, Shown
  <2>2. Shown(s, b) => frame[s] = disk[b]
    BY <1>0, <1>7 DEF StartFill, Victim, Shown, DataInv
  <2> QED BY <1>6, <1>7, <2>1, <2>2 DEF StartFill, Store1
<1>8. CASE Fetch(t, s) \/ Evict(t, s)
  <2>1. filling[s]
    BY <1>0, <1>8 DEF Fetch, Evict, TokenInv, CallOK, Filling
  <2>2. ~Shown(s, b)' /\ ~Shown(s, b) /\ OtherSlots(s) /\ UNCHANGED disk
    BY <1>8, <2>1 DEF Fetch, Evict, Shown
  <2> QED BY <1>6, <1>8, <2>2 DEF Fetch, Evict, Store1
<1>9. CASE EndFill(t, s)
  <2>1. filling[s] /\ frame[s] = disk[key[s]] /\ state[s] # "Free"
    BY <1>0, <1>9, SMT DEF EndFill, TokenInv, CallOK, Filling, DataInv, TableInv
  <2>2. ~Shown(s, b) /\ OtherSlots(s) /\ UNCHANGED <<key, frame, disk>>
    BY <1>9, <2>1 DEF EndFill, Shown
  <2>3. Shown(s, b)' => key[s] = b
    BY <2>2 DEF Shown
  <2>4. key[s] = b => \A r \in Slot \ {s} : ~Shown(r, b)
    BY <1>0, <2>1 DEF TableInv, Shown
  <2> QED BY <1>6, <1>9, <2>1, <2>2, <2>3, <2>4, ZenonT(60) DEF EndFill, Store1
<1>10. CASE Begin(t, s) \/ End(t, s)
  <2>1. /\ OtherSlots(s) /\ UNCHANGED <<key, filling, frame, disk>>
        /\ state[s] # "Free" /\ state'[s] # "Free"
    BY <1>0, <1>10 DEF Begin, End, TokenInv, CallOK
  <2>2. Shown(s, b)' <=> Shown(s, b)
    BY <2>1 DEF Shown
  <2>3. \A r \in Slot : (Shown(r, b)' <=> Shown(r, b)) /\ frame'[r] = frame[r]
    BY <1>4, <2>1, <2>2, ZenonT(60)
  <2>4. Visible(b)' = Visible(b)
    BY <1>1, <2>1, <2>3, SMTT(40) DEF VisibleOK
  <2> QED BY <1>10, <2>4 DEF Begin, End, Store1, Writing, Token
<1>11. CASE Transfer(t, s)
  <2>a. SameSlots /\ Writing(t) /\ slot[t] = s
    BY <1>11 DEF Transfer, Writing
  <2>b. state[s] = "InFlight" /\ ~filling[s]
    BY <1>0, <2>a DEF TokenInv, CallOK
  <2>1. SameSlots /\ Shown(s, key[s]) /\ key[s] \in Key
    BY <1>0, <2>a, <2>b DEF TableInv, Shown
  <2>2. \A r \in Slot : (Shown(r, b)' <=> Shown(r, b)) /\ frame'[r] = frame[r]
    BY <2>1 DEF SameSlots, Shown
  <2>3. b # key[s] => disk'[b] = disk[b]
    BY <1>0, <1>11, <2>1, ZenonT(60) DEF Transfer, TypeInv, DataType
  <2>4. Visible(b)' = Visible(b)
    BY <1>1, <2>1, <2>2, <2>3, SMTT(40) DEF VisibleOK
  <2> QED BY <1>11, <2>4 DEF Transfer, Store1
<1>12. CASE Store1(t, s)
  <2>1. OtherSlots(s) /\ UNCHANGED <<filling, disk>> /\ ~filling[s]
    BY <1>0, <1>12 DEF Store1, TableInv
  <2>2. CASE b = arg[t].key
    <3>1. Shown(s, b)' /\ frame'[s] = arg[t].val
      BY <1>12, <2>1, <2>2 DEF Store1, Shown
    <3> QED BY <1>1, <1>12, <2>2, <3>1 DEF VisibleOK
  <2>3. CASE b # arg[t].key
    <3>1. ~Shown(s, b)'
      BY <1>12, <2>3 DEF Store1, Shown
    <3>2. Shown(s, b) => frame[s] = disk[b]
      BY <1>0, <1>12, <2>3 DEF Store1, Shown, DataInv, TypeInv, TableType, States
    <3> QED BY <1>6, <2>1, <2>3, <3>1, <3>2
  <2> QED BY <2>2, <2>3
<1> QED BY <1>5, <1>7, <1>8, <1>9, <1>10, <1>11, <1>12 DEF SlotStep

\* Blocks in readers' hands do not change; only hits and fills hand one out, and
\* only a drop takes one back.
LEMMA HeldStep ==
    ASSUME DInv, NEW t \in Thread, NEW s \in Slot, Others(t), SlotStep(t, s), NEW u \in Thread
    PROVE  Held(u)' = IF u = t /\ (Hit(t, s) \/ EndFill(t, s)) THEN [key |-> key[s], val |-> frame[s]]
                      ELSE IF u = t /\ LetGo(t, s) THEN NoBlock ELSE Held(u)
<1>0. TypeInv /\ TableInv /\ TokenInv
  BY DEF DInv, CInv
<1>1. CASE u = t
  <2>1. CASE Hit(t, s) \/ EndFill(t, s)
    <3>1. pc'[t] = "hold" /\ slot'[t] = s /\ key'[s] = key[s] /\ frame'[s] = frame[s]
      BY <2>1 DEF Hit, EndFill, SameSlots
    <3> QED BY <1>1, <2>1, <3>1 DEF Held
  <2>2. CASE LetGo(t, s)
    <3>1. pc'[t] # "hold" /\ ~Hit(t, s) /\ ~EndFill(t, s)
      BY <2>2 DEF LetGo, Hit, EndFill
    <3> QED BY <1>1, <2>2, <3>1 DEF Held
  <2>3. CASE ~(Hit(t, s) \/ EndFill(t, s) \/ LetGo(t, s))
    <3>1. pc[t] # "hold" /\ pc'[t] # "hold"
      BY <2>3 DEF SlotStep, StartFill, Fetch, Evict, Store1, Begin, Transfer, End, Writing
    <3> QED BY <1>1, <2>3, <3>1 DEF Held
  <2> QED BY <2>1, <2>2, <2>3
<1>2. CASE u # t
  <2>1. pc'[u] = pc[u] /\ slot'[u] = slot[u]
    BY <1>2 DEF Others
  <2>2. ASSUME pc[u] = "hold"
        PROVE  key'[slot[u]] = key[slot[u]] /\ frame'[slot[u]] = frame[slot[u]]
    <3>1. slot[u] \in Slot /\ state[slot[u]] # "Free" /\ ~filling[slot[u]] /\ u \in Readers(slot[u])
      BY <1>0, <2>2 DEF TokenInv, CallOK, Readers
    <3>2. CASE Hit(t, s) \/ LetGo(t, s) \/ Transfer(t, s)
      BY <3>2 DEF Hit, LetGo, Transfer, SameSlots
    <3>3. CASE EndFill(t, s) \/ Begin(t, s) \/ End(t, s)
      BY <3>3 DEF EndFill, Begin, End
    <3>4. CASE StartFill(t, s) \/ Store1(t, s)
      <4>1. slot[u] # s
        BY <3>1, <3>4 DEF StartFill, Store1, Victim
      <4> QED BY <3>1, <3>4, <4>1 DEF StartFill, Store1, OtherSlots
    <3>5. CASE Fetch(t, s) \/ Evict(t, s)
      <4>1. filling[s]
        BY <1>0, <3>5, ZenonT(60) DEF Fetch, Evict, TokenInv, CallOK, Filling
      <4> QED BY <3>1, <3>5, <4>1, ZenonT(60) DEF Fetch, Evict, OtherSlots
    <3> QED BY <3>2, <3>3, <3>4, <3>5 DEF SlotStep
  <2>3. Held(u)' = Held(u)
    BY <1>0, <2>1, <2>2, HeldSame
  <2> QED BY <1>2, <2>3
<1> QED BY <1>1, <1>2

\* The empty cache shows the device's blocks, and nobody holds one.
LEMMA InitStore == ASSUME Init, TableInv PROVE Store!Init
<1>2. VisibleOK
  BY VisibleIs
<1>3. \A b \in Key : Visible(b) \in Val
  <2> TAKE b \in Key
  <2>1. \A s \in Slot : ~Shown(s, b)
    BY DEF Init, Shown
  <2> QED BY <1>2, <2>1 DEF VisibleOK, Init
<1>4. [b \in Key |-> Visible(b)] \in [Key -> Val]
  BY <1>3
<1>5. \A t \in Thread : pc[t] # "hold"
  BY DEF Init
<1> QED BY <1>4, <1>5 DEF Store!Init

\* Every step of the cache is a step of the block store or changes nothing of it.
LEMMA NextStore == ASSUME DInv, TableInv', [Next]_vars PROVE [Store!Next]_(Store!vars)
<1> DEFINE content == [b \in Key |-> Visible(b)]
           held == [t \in Thread |-> Held(t)]
<1>a. content' = [b \in Key |-> Visible(b)'] /\ held' = [t \in Thread |-> Held(t)']
  OBVIOUS
<1>b. held = [t \in Thread |-> IF pc[t] = "hold" THEN [key |-> key[slot[t]], val |-> frame[slot[t]]] ELSE NoBlock]
  BY DEF Held
<1>0. TypeInv /\ TableInv /\ TokenInv /\ DataInv /\ CInv
  BY DEF DInv, CInv
<1> DEFINE Stutter == content' = content /\ held' = held
<1>1. ASSUME Stutter PROVE UNCHANGED Store!vars
  BY <1>1 DEF Store!vars, Held
<1>2. CASE UNCHANGED vars
  <2>1. \A b \in Key : Visible(b)' = Visible(b)
    BY <1>2, SMT DEF Visible, lookup, First, vars, table, data
  <2>2. \A t \in Thread : Held(t)' = Held(t)
    BY <1>2 DEF Held, vars, table, data, call
  <2> QED BY <1>1, <1>a, <2>1, <2>2
<1>3. ASSUME NEW t \in Thread, Others(t), Quiet(t) PROVE Stutter
  <2>1. \A b \in Key : Visible(b)' = Visible(b)
    BY <1>3, SMT DEF Visible, lookup, First, Quiet, SameSlots
  <2>2. ASSUME NEW u \in Thread PROVE Held(u)' = Held(u)
    <3>1. pc'[u] = "hold" <=> pc[u] = "hold"
      BY <1>3 DEF Quiet, Others
    <3>2. pc[u] = "hold" => slot'[u] = slot[u] /\ UNCHANGED <<key, frame>>
      BY <1>3 DEF Quiet, Others, SameSlots
    <3> QED BY <1>0, <3>1, <3>2, HeldSame
  <2> QED BY <1>a, <2>1, <2>2, ZenonT(60)
<1>4. ASSUME NEW t \in Thread, NEW s \in Slot, Others(t), SlotStep(t, s) PROVE [Store!Next]_(Store!vars)
  <2>1. \A b \in Key : Visible(b)' = IF Store1(t, s) /\ b = arg[t].key THEN arg[t].val ELSE Visible(b)
    BY <1>4, SeenStep
  <2>2. \A u \in Thread : Held(u)' =
             IF u = t /\ (Hit(t, s) \/ EndFill(t, s)) THEN [key |-> key[s], val |-> frame[s]]
             ELSE IF u = t /\ LetGo(t, s) THEN NoBlock ELSE Held(u)
    BY <1>4, HeldStep
  <2>3. CASE Hit(t, s) \/ EndFill(t, s)
    <3>1. content' = content
      BY <1>a, <2>1, <2>3 DEF Hit, EndFill, Store1
    <3>2. key[s] \in Key /\ Held(t) = NoBlock
      BY <1>0, <2>3 DEF Hit, EndFill, TableInv, TokenInv, CallOK, Filling, Held
    <3>3. PICK b \in Key : b = key[s] /\ b = key'[s]
      BY <2>3, <3>2 DEF Hit, EndFill, SameSlots
    <3>4. Visible(b)' = frame[s]
      <4>1. Shown(s, b)'
        BY <1>0, <2>3, <3>3 DEF Hit, EndFill, Shown, SameSlots
      <4>2. VisibleOK'
        BY SeenThen
      <4>3. frame'[s] = frame[s]
        BY <2>3 DEF Hit, EndFill, SameSlots
      <4> QED BY <4>1, <4>2, <4>3 DEF VisibleOK
    <3>5. content[b] = frame[s]
      <4>1. Visible(b) = Visible(b)'
        BY <2>1, <2>3 DEF Hit, EndFill, Store1
      <4> QED BY <3>4, <4>1
    <3>6. held' = [held EXCEPT ![t] = [key |-> b, val |-> content[b]]]
      BY <1>a, <2>2, <2>3, <3>3, <3>5
    <3>7. Store!Read(t, b)
      BY <3>1, <3>2, <3>6 DEF Store!Read, Held
    <3> QED BY <3>7 DEF Store!Next
  <2>4. CASE LetGo(t, s)
    <3>1. content' = content
      BY <1>a, <2>1, <2>4 DEF LetGo, Store1
    <3>2. held' = [held EXCEPT ![t] = NoBlock]
      BY <1>a, <2>2, <2>4 DEF LetGo, Hit, EndFill
    <3>3. Held(t) # NoBlock
      <4>1. Held(t).key \in Key
        BY <1>0, <2>4 DEF LetGo, Held, TokenInv, CallOK, TableInv
      <4>2. NoBlock.key = None
        BY DEF NoBlock
      <4> QED BY <4>1, <4>2, DomainsAssumption
    <3>4. Store!Release(t)
      BY <3>1, <3>2, <3>3 DEF Store!Release, Held
    <3> QED BY <3>4 DEF Store!Next
  <2>5. CASE Store1(t, s)
    <3>1. arg[t].key \in Key /\ arg[t].val \in Val
      BY <1>0, <2>5 DEF Store1, TokenInv, CallOK
    <3>2. content' = [content EXCEPT ![arg[t].key] = arg[t].val]
      BY <1>a, <2>1, <2>5
    <3>3. held' = held
      BY <1>a, <2>2, <2>5 DEF Store1, Hit, EndFill, LetGo
    <3>4. \A u \in Thread : held[u] # NoBlock => held[u].key # arg[t].key
      <4> SUFFICES ASSUME NEW u \in Thread, pc[u] = "hold" PROVE key[slot[u]] # arg[t].key
        BY DEF Held
      <4>1. slot[u] \in Slot /\ state[slot[u]] # "Free" /\ u \in Readers(slot[u])
        BY <1>0 DEF TokenInv, CallOK, Readers
      <4> QED BY <2>5, <4>1 DEF Store1
    <3>5. Store!Write(arg[t].key, arg[t].val)
      BY <3>2, <3>3, <3>4 DEF Store!Write, Held
    <3> QED BY <3>1, <3>5 DEF Store!Next
  <2>6. CASE ~(Hit(t, s) \/ EndFill(t, s) \/ LetGo(t, s) \/ Store1(t, s))
    BY <1>1, <1>a, <2>1, <2>2, <2>6
  <2> QED BY <2>3, <2>4, <2>5, <2>6
<1>5. CASE Next
  <2>1. ~Late
    BY <1>0 DEF Late, DataInv
  <2>2. PICK t \in Thread : ThreadStep(t)
    BY <1>0, <1>5, <2>1, KindOfStep
  <2> QED BY <1>1, <1>3, <1>4, <2>2 DEF ThreadStep
<1> QED BY <1>2, <1>5

---------------------------------------------------------------------------
(* The invariants put together, and the theorems.                          *)

\* The exact count behind PinsOK, and the inductive invariant.
PinInv == \A s \in Slot : pins[s] = Cardinality(Readers(s))
IInv == TypeInv /\ TableInv /\ TokenInv /\ PinInv

\* A slot has finitely many readers.
LEMMA ReadersFinite == ASSUME NEW s PROVE IsFiniteSet(Readers(s))
<1>1. Readers(s) \subseteq Thread
  BY DEF Readers
<1> QED BY <1>1, DomainsAssumption, FS_Subset

\* The exact count of pins gives what the step lemmas use of it.
LEMMA PinnedHasReader == ASSUME IInv PROVE CInv
<1>1. ASSUME NEW s \in Slot, pins[s] = 0 PROVE Readers(s) = {}
  <2>1. Cardinality(Readers(s)) = 0
    BY <1>1 DEF IInv, PinInv
  <2> QED BY <2>1, ReadersFinite, FS_EmptySet
<1> QED BY <1>1 DEF IInv, CInv, PinsOK

\* A return keeps the types of the caller's variables.
LEMMA ReturnType == ASSUME CallType, SyncType, NEW t \in Thread, Return(t) PROVE CallType' /\ SyncType'
<1>1. NoBlock \in [key : Key \cup {None}, val : Val \cup {None}]
  BY DEF NoBlock
<1>2. CallType'
  BY <1>1 DEF CallType, Return, Places
<1>3. SyncType'
  BY DEF SyncType, Return
<1> QED BY <1>2, <1>3

\* A step that leaves the table keeps its types.
LEMMA SameTable == ASSUME TableType, UNCHANGED table PROVE TableType'
BY DEF TableType, table

\* A step that leaves frames and device keeps their types.
LEMMA SameData == ASSUME DataType, UNCHANGED data PROVE DataType'
BY DEF DataType, data

\* A step that leaves the syncs' accounts keeps their types.
LEMMA SameSync == ASSUME SyncType, UNCHANGED syncing PROVE SyncType'
BY DEF SyncType, syncing

\* Every step keeps the types.
LEMMA TypeStep == ASSUME CInv, Next PROVE TypeInv'
<1>0. TableType /\ DataType /\ CallType /\ SyncType
  BY DEF CInv, TypeInv
<1> SUFFICES TableType' /\ DataType' /\ CallType' /\ SyncType'
  BY DEF TypeInv
<1> DEFINE G == TableType' /\ DataType' /\ CallType' /\ SyncType'
<1>1. ASSUME NEW t \in Thread, NEW b \in Key, StartRead(t, b) PROVE G
  BY <1>0, <1>1, SameTable, SameData, SameSync DEF StartRead, CallType, Places
<1>2. ASSUME NEW t \in Thread, NEW b \in Key, NEW v \in Val, StartWrite(t, b, v) PROVE G
  BY <1>0, <1>2, SameTable, SameData, SameSync DEF StartWrite, CallType, Places
<1>3. ASSUME NEW t \in Thread, ClaimWait(t) \/ StoreWait(t) PROVE G
  BY <1>0, <1>3, SameTable, SameData, ReturnType DEF ClaimWait, StoreWait
<1>4. ASSUME NEW t \in Thread, ClaimHit(t) PROVE G
  <2>1. PICK s \in lookup(arg[t].key) :
              pins' = [pins EXCEPT ![s] = @ + 1] /\ slot' = [slot EXCEPT ![t] = s]
    BY <1>4 DEF ClaimHit
  <2>2. s \in Slot
    BY DEF lookup, First
  <2>3. TableType'
    BY <1>0, <1>4, <2>1, <2>2, SMTT(40) DEF ClaimHit, TableType
  <2>4. CallType'
    BY <1>0, <1>4, <2>1, <2>2 DEF ClaimHit, CallType, Places
  <2> QED BY <1>0, <1>4, <2>3, <2>4, SameData, SameSync DEF ClaimHit
<1>5. ASSUME NEW t \in Thread, ClaimFill(t) PROVE G
  <2>1. PICK s \in ClaimSlot :
          /\ key' = [key EXCEPT ![s] = arg[t].key]
          /\ state' = [state EXCEPT ![s] = "InFlight"]
          /\ dirtied' = [dirtied EXCEPT ![s] = FALSE]
          /\ filling' = [filling EXCEPT ![s] = TRUE]
          /\ writeback_failed' =
               [writeback_failed EXCEPT ![s] = IF state[s] = "Free" THEN @ ELSE FALSE]
          /\ slot' = [slot EXCEPT ![t] = s]
    BY <1>5 DEF ClaimFill
  <2>2. s \in Slot /\ arg[t].key \in Key \cup {None}
    BY <1>0, ClaimedIsVictim DEF Victim, CallType
  <2>3. key' \in [Slot -> Key \cup {None}] /\ state' \in [Slot -> States] /\ pins' \in [Slot -> Nat]
    BY <1>0, <1>5, <2>1, <2>2 DEF ClaimFill, TableType, States
  <2>4. /\ dirtied' \in [Slot -> BOOLEAN] /\ filling' \in [Slot -> BOOLEAN]
        /\ writeback_failed' \in [Slot -> BOOLEAN]
    BY <1>0, <2>1, <2>2 DEF TableType
  <2>5. CallType'
    BY <1>0, <1>5, <2>1, <2>2 DEF ClaimFill, CallType, Places
  <2> QED BY <1>0, <1>5, <2>3, <2>4, <2>5, SameData, SameSync DEF ClaimFill, TableType
<1>6. ASSUME NEW t \in Thread, TableFull(t) PROVE G
  <2>1. CASE Return(t)
    BY <1>0, <1>6, <2>1, SameTable, SameData, ReturnType DEF TableFull
  <2>2. CASE ~Return(t)
    <3>1. /\ flushed' = [flushed EXCEPT ![t] = @ + 1] /\ pc' = [pc EXCEPT ![t] = "room"]
          /\ UNCHANGED <<op, arg, slot, failedNow, syncing, table, data>>
      BY <1>6, <2>2 DEF TableFull
    <3> QED BY <1>0, <3>1, SameTable, SameData, SameSync, SMTT(40) DEF CallType, Places
  <2> QED BY <2>1, <2>2
<1>7. ASSUME NEW t \in Thread, FillRead(t) PROVE G
  <2>1. slot[t] \in Slot /\ key[slot[t]] \in Key
    BY <1>7 DEF CInv, TokenInv, TableInv, CallOK, Filling, FillRead
  <2>2. DataType'
    BY <1>0, <1>7, <2>1 DEF FillRead, DataType
  <2>3. CallType'
    BY <1>0, <1>7 DEF FillRead, CallType, Places
  <2> QED BY <1>0, <1>7, <2>2, <2>3, SameTable, SameSync DEF FillRead
<1>8. ASSUME NEW t \in Thread, FinishFill(t) PROVE G
  <2>1. slot[t] \in Slot /\ AfterIo(slot[t], "Clean") \in States
    BY <1>8 DEF CInv, TokenInv, CallOK, Filling, FinishFill, AfterIo, States
  <2>2. TableType'
    BY <1>0, <1>8, <2>1, SMT DEF FinishFill, TableType
  <2>3. CallType'
    BY <1>0, <1>8 DEF FinishFill, CallType, Places
  <2> QED BY <1>0, <1>8, <2>2, <2>3, SameData, SameSync DEF FinishFill
<1>9. ASSUME NEW t \in Thread, FillFails(t) PROVE G
  <2>1. TableType'
    BY <1>0, <1>9 DEF FillFails, TableType, States
  <2> QED BY <1>0, <1>9, <2>1, SameData, ReturnType DEF FillFails
<1>10. ASSUME NEW t \in Thread, Unpin(t) PROVE G
  <2>1. slot[t] \in Slot /\ t \in Readers(slot[t])
    BY <1>10 DEF CInv, TokenInv, CallOK, Readers, Unpin
  <2>2. pins[slot[t]] # 0 /\ pins[slot[t]] \in Nat
    BY <1>0, <2>1 DEF CInv, PinsOK, TableType
  <2>3. TableType'
    BY <1>0, <1>10, <2>1, <2>2, SMTT(40) DEF Unpin, TableType
  <2> QED BY <1>0, <1>10, <2>3, SameData, ReturnType DEF Unpin
<1>11. ASSUME NEW t \in Thread, StoreHit(t) PROVE G
  <2>1. PICK s \in lookup(arg[t].key) :
          /\ frame' = [frame EXCEPT ![s] = arg[t].val] /\ state' = [state EXCEPT ![s] = "Dirty"]
          /\ writeback_failed' = [writeback_failed EXCEPT ![s] = FALSE]
    BY <1>11 DEF StoreHit
  <2>2. s \in Slot /\ arg[t].val \in Val \cup {None}
    BY <1>0 DEF lookup, First, CallType
  <2>3. TableType'
    BY <1>0, <1>11, <2>1, <2>2 DEF StoreHit, TableType, States
  <2>4. DataType'
    BY <1>0, <1>11, <2>1, <2>2 DEF StoreHit, DataType
  <2> QED BY <1>0, <1>11, <2>3, <2>4, ReturnType DEF StoreHit
<1>12. ASSUME NEW t \in Thread, StoreMiss(t) PROVE G
  <2>1. PICK s \in ClaimSlot :
          /\ key' = [key EXCEPT ![s] = arg[t].key] /\ frame' = [frame EXCEPT ![s] = arg[t].val]
          /\ state' = [state EXCEPT ![s] = "Dirty"] /\ dirtied' = [dirtied EXCEPT ![s] = FALSE]
          /\ writeback_failed' = [writeback_failed EXCEPT ![s] = FALSE]
    BY <1>12 DEF StoreMiss
  <2>2. s \in Slot /\ arg[t].val \in Val \cup {None} /\ arg[t].key \in Key \cup {None}
    BY <1>0, ClaimedIsVictim DEF Victim, CallType
  <2>3. TableType'
    BY <1>0, <1>12, <2>1, <2>2 DEF StoreMiss, TableType, States
  <2>4. DataType'
    BY <1>0, <1>12, <2>1, <2>2 DEF StoreMiss, DataType
  <2> QED BY <1>0, <1>12, <2>3, <2>4, ReturnType DEF StoreMiss
<1>13. ASSUME NEW t \in Thread, MakeRoom(t) PROVE G
  <2>1. CASE Return(t)
    BY <1>0, <1>13, <2>1, SameTable, SameData, ReturnType DEF MakeRoom
  <2>2. CASE ~Return(t)
    <3>1. PICK s \in flushable_slot : slot' = [slot EXCEPT ![t] = s]
      BY <1>13, <2>2 DEF MakeRoom
    <3>2. s \in Slot
      BY <3>1 DEF flushable_slot, First
    <3>3. pc' = [pc EXCEPT ![t] = "begin"] /\ UNCHANGED <<op, arg, flushed, failedNow, syncing, table, data>>
      BY <1>13, <2>2 DEF MakeRoom
    <3> QED BY <1>0, <3>1, <3>2, <3>3, SameTable, SameData, SameSync, ZenonT(60) DEF CallType, Places
  <2> QED BY <2>1, <2>2
<1>14. ASSUME NEW t \in Thread, BeginWriteback(t) PROVE G
  <2>1. state' \in [Slot -> States]
    BY <1>0, <1>14, SMT DEF BeginWriteback, TableType, States
  <2>2. pc' \in [Thread -> Places] /\ slot' \in [Thread -> Slot \cup {None}]
    BY <1>0, <1>14 DEF BeginWriteback, CallType, Places, Retry
  <2> QED BY <1>0, <1>14, <2>1, <2>2, SameData, SameSync, ZenonT(60) DEF BeginWriteback, TableType, CallType
<1>15. ASSUME NEW t \in Thread, WriteBlock(t) PROVE G
  <2> DEFINE b == key[slot[t]]
             v == frame[slot[t]]
  <2>1. b \in Key /\ v \in Val
    BY <1>15 DEF CInv, TableInv, TokenInv, CallOK, Writing, WriteBlock
  <2>2. Land(b, v) \/ UNCHANGED <<disk, unsaved>>
    BY <1>15 DEF WriteBlock
  <2>3. late' = late \/ late' = late \cup {<<b, v>>}
    BY <1>15 DEF WriteBlock
  <2>4. failedNow' \in [Thread -> BOOLEAN]
    BY <1>0, <1>15 DEF WriteBlock, CallType
  <2>5. /\ pc' = [pc EXCEPT ![t] = "wrote"]
        /\ UNCHANGED <<table, frame, op, arg, slot, flushed, owed, todo, failed, acted>>
    BY <1>15 DEF WriteBlock
  <2> HIDE DEF b, v
  <2>6. DataType'
    BY <1>0, <2>1, <2>2, <2>3, <2>5, SMTT(40) DEF DataType, Land
  <2>7. CallType'
    BY <1>0, <2>4, <2>5 DEF CallType, Places
  <2>8. SyncType'
    BY <1>0, <2>2, <2>5 DEF SyncType, Land
  <2> QED BY <1>0, <2>5, <2>6, <2>7, <2>8, SameTable
<1>16. ASSUME NEW t \in Thread, FinishWriteback(t) PROVE G
  <2>1. slot[t] \in Slot /\ AfterIo(slot[t], WritebackState(t)) \in States /\ failedNow[t] \in BOOLEAN
    BY <1>0, <1>16 DEF CInv, TokenInv, CallOK, Writing, FinishWriteback, AfterIo, WritebackState, States, CallType
  <2>2. TableType'
    BY <1>0, <1>16, <2>1 DEF FinishWriteback, TableType
  <2>3. CASE Return(t)
    BY <1>0, <1>16, <2>2, <2>3, SameData, ReturnType DEF FinishWriteback
  <2>4. CASE ~Return(t)
    <3>1. /\ pc' = [pc EXCEPT ![t] = IF op[t] = "sync" THEN "slots" ELSE Retry(t)]
          /\ slot' = [slot EXCEPT ![t] = None]
          /\ failedNow' = [failedNow EXCEPT ![t] = FALSE]
          /\ failed' = [failed EXCEPT ![t] =
                           IF op[t] = "sync" /\ failedNow[t] THEN @ \cup {slot[t]} ELSE @]
          /\ acted' = [acted EXCEPT ![t] = op[t] = "sync"]
          /\ UNCHANGED <<op, arg, flushed, owed, todo, unsaved, data>>
      BY <1>16, <2>4 DEF FinishWriteback
    <3>2. CallType'
      BY <1>0, <3>1 DEF CallType, Places, Retry
    <3>3. failed' \in [Thread -> SUBSET Slot]
      BY <1>0, <2>1, <3>1 DEF SyncType
    <3>4. acted' \in [Thread -> BOOLEAN]
      BY <1>0, <3>1 DEF SyncType
    <3> QED BY <1>0, <2>2, <3>1, <3>2, <3>3, <3>4, SameData, ZenonT(60) DEF SyncType
  <2> QED BY <2>3, <2>4
<1>17. ASSUME NEW t \in Thread, DropWriteback(t) PROVE G
  <2>1. slot[t] \in Slot /\ key[slot[t]] \in Key /\ frame[slot[t]] \in Val
    BY <1>17 DEF CInv, TableInv, TokenInv, CallOK, Writing, DropWriteback
  <2>2. TableType'
    BY <1>0, <1>17, <2>1 DEF DropWriteback, TableType, States
  <2>3. DataType'
    BY <1>0, <1>17, <2>1, SMT DEF DropWriteback, DataType
  <2> QED BY <1>0, <1>17, <2>2, <2>3, ReturnType DEF DropWriteback
<1>18. CASE LateWrite
  BY <1>0, <1>18, SameTable, SameSync DEF LateWrite, DataType, CallType, call
<1>19. ASSUME NEW t \in Thread, SyncStart(t) PROVE G
  <2>1. unsynced_mask \subseteq Slot /\ {b \in Key : disk[b] # Visible(b)} \subseteq Key
    BY DEF unsynced_mask
  <2>2. owed' = [owed EXCEPT ![t] = unsynced_mask]
        /\ unsaved' = [unsaved EXCEPT ![t] = {b \in Key : disk[b] # Visible(b)}]
        /\ pc' = [pc EXCEPT ![t] = "round"] /\ op' = [op EXCEPT ![t] = "sync"]
        /\ UNCHANGED <<table, data, arg, slot, flushed, failedNow, todo, failed, acted>>
    BY <1>19 DEF SyncStart
  <2>3. CallType'
    BY <1>0, <2>2 DEF CallType, Places
  <2>4. SyncType'
    BY <1>0, <2>1, <2>2 DEF SyncType
  <2> QED BY <1>0, <2>2, <2>3, <2>4, SameTable, SameData
<1>20. ASSUME NEW t \in Thread, SyncRound(t) PROVE G
  <2>1. CASE Return(t)
    BY <1>0, <1>20, <2>1, SameTable, SameData, ReturnType DEF SyncRound
  <2>2. CASE ~Return(t)
    <3>1. /\ todo' = [todo EXCEPT ![t] = Outstanding(t)] /\ acted' = [acted EXCEPT ![t] = FALSE]
          /\ pc' = [pc EXCEPT ![t] = "slots"]
          /\ UNCHANGED <<op, arg, slot, flushed, failedNow, owed, failed, unsaved, table, data>>
      BY <1>20, <2>2 DEF SyncRound
    <3>2. Outstanding(t) \subseteq Slot
      BY <1>0 DEF Outstanding, unsynced_mask
    <3>3. CallType'
      BY <1>0, <3>1 DEF CallType, Places
    <3>4. SyncType'
      BY <1>0, <3>1, <3>2 DEF SyncType
    <3> QED BY <1>0, <3>1, <3>3, <3>4, SameTable, SameData
  <2> QED BY <2>1, <2>2
<1>21. ASSUME NEW t \in Thread, SyncSlot(t) PROVE G
  <2>1. PICK s \in First(todo[t]) :
        /\ todo' = [todo EXCEPT ![t] = @ \ {s}]
        /\ IF state[s] = "Dirty"
           THEN /\ state' = [state EXCEPT ![s] = "InFlight"]
                /\ slot' = [slot EXCEPT ![t] = s]
                /\ pc' = [pc EXCEPT ![t] = "write"]
           ELSE UNCHANGED <<state, slot, pc>>
    BY <1>21 DEF SyncSlot
  <2>2. s \in Slot
    BY <1>0, FirstIsIn DEF SyncType
  <2>3. state' \in [Slot -> States] /\ slot' \in [Thread -> Slot \cup {None}] /\ pc' \in [Thread -> Places]
    <3>1. CASE state[s] = "Dirty"
      <4>1. /\ state' = [state EXCEPT ![s] = "InFlight"] /\ slot' = [slot EXCEPT ![t] = s]
            /\ pc' = [pc EXCEPT ![t] = "write"]
        BY <2>1, <3>1
      <4> QED BY <1>0, <2>2, <4>1 DEF TableType, CallType, States, Places
    <3>2. CASE state[s] # "Dirty"
      BY <1>0, <2>1, <3>2 DEF TableType, CallType
    <3> QED BY <3>1, <3>2
  <2>4. todo' \in [Thread -> SUBSET Slot]
    BY <1>0, <2>1 DEF SyncType
  <2>5. UNCHANGED <<key, pins, dirtied, filling, writeback_failed, data, op, arg, flushed,
                   failedNow, owed, failed, acted, unsaved>>
    BY <1>21 DEF SyncSlot
  <2> QED BY <1>0, <2>3, <2>4, <2>5, SameData DEF TableType, CallType, SyncType
<1>22. ASSUME NEW t \in Thread, SyncRoundEnd(t) PROVE G
  <2>1. CASE Return(t)
    BY <1>0, <1>22, <2>1, SameTable, SameData, ReturnType DEF SyncRoundEnd
  <2>2. CASE ~Return(t)
    <3>1. /\ pc' = [pc EXCEPT ![t] = "round"]
          /\ UNCHANGED <<op, arg, slot, flushed, failedNow, syncing, table, data>>
      BY <1>22, <2>2 DEF SyncRoundEnd
    <3> QED BY <1>0, <3>1, SameTable, SameData, SameSync DEF CallType, Places
  <2> QED BY <2>1, <2>2
<1> QED
  BY <1>1, <1>2, <1>3, <1>4, <1>5, <1>6, <1>7, <1>8, <1>9, <1>10, <1>11, <1>12, <1>13, <1>14,
     <1>15, <1>16, <1>17, <1>18, <1>19, <1>20, <1>21, <1>22, ZenonT(60) DEF Next, CallStep, Choice

\* Every step keeps the pins: a hit and a finished fill add one and a reader, a drop
\* takes one of each away.
LEMMA PinStep == ASSUME IInv, Next PROVE PinInv'
<1>0. TypeInv /\ TableInv /\ TokenInv /\ PinInv
  BY DEF IInv
<1>1. CASE Late
  <2>1. \A r \in Slot : Readers(r)' = Readers(r) /\ pins' = pins
    BY <1>1 DEF Late, Readers
  <2> QED BY <1>0, <2>1 DEF PinInv
<1>2. ASSUME NEW t \in Thread, Others(t), pc[t] # "hold", pc'[t] # "hold", UNCHANGED pins PROVE PinInv'
  <2>1. \A r \in Slot : Readers(r)' = Readers(r)
    BY <1>2 DEF Others, Readers
  <2> QED BY <1>0, <1>2, <2>1 DEF PinInv
<1>3. ASSUME NEW t \in Thread, NEW s \in Slot, Others(t), pc[t] # "hold",
             pc'[t] = "hold", slot'[t] = s, pins' = [pins EXCEPT ![s] = @ + 1]
      PROVE  PinInv'
  <2>1. \A r \in Slot \ {s} : Readers(r)' = Readers(r)
    BY <1>3 DEF Others, Readers
  <2>2. t \notin Readers(s) /\ Readers(s)' = Readers(s) \cup {t}
    BY <1>3 DEF Others, Readers
  <2>3. Cardinality(Readers(s) \cup {t}) = Cardinality(Readers(s)) + 1
    BY <2>2, ReadersFinite, FS_AddElement
  <2>4. \A r \in Slot \ {s} : pins'[r] = pins[r]
    BY <1>0, <1>3 DEF TypeInv, TableType
  <2>5. pins'[s] = pins[s] + 1
    BY <1>0, <1>3 DEF TypeInv, TableType
  <2> QED BY <1>0, <2>1, <2>2, <2>3, <2>4, <2>5 DEF PinInv
<1>4. ASSUME NEW t \in Thread, NEW s \in Slot, Others(t), LetGo(t, s) PROVE PinInv'
  <2>1. \A r \in Slot \ {s} : Readers(r)' = Readers(r)
    BY <1>4 DEF Others, LetGo, Readers
  <2>2. t \in Readers(s) /\ Readers(s)' = Readers(s) \ {t}
    BY <1>4 DEF Others, LetGo, Readers
  <2>3. Cardinality(Readers(s) \ {t}) = Cardinality(Readers(s)) - 1
    BY <2>2, ReadersFinite, FS_RemoveElement
  <2>4. \A r \in Slot \ {s} : pins'[r] = pins[r]
    BY <1>0, <1>4 DEF LetGo, TypeInv, TableType
  <2>5. pins'[s] = pins[s] - 1
    BY <1>0, <1>4 DEF LetGo, TypeInv, TableType
  <2> QED BY <1>0, <2>1, <2>2, <2>3, <2>4, <2>5 DEF PinInv
<1>5. ASSUME NEW t \in Thread, Others(t), Quiet(t) PROVE PinInv'
  BY <1>2, <1>5 DEF Quiet
<1>6. ASSUME NEW t \in Thread, NEW s \in Slot, Others(t), SlotStep(t, s) PROVE PinInv'
  <2>1. CASE Hit(t, s) \/ EndFill(t, s)
    BY <1>3, <1>6, <2>1 DEF Hit, EndFill
  <2>2. CASE LetGo(t, s)
    BY <1>4, <1>6, <2>2
  <2>3. CASE StartFill(t, s) \/ Fetch(t, s) \/ Evict(t, s) \/ Store1(t, s) \/ Begin(t, s)
             \/ Transfer(t, s) \/ End(t, s)
    BY <1>2, <1>6, <2>3 DEF StartFill, Fetch, Evict, Store1, Begin, Transfer, End, Writing
  <2> QED BY <1>6, <2>1, <2>2, <2>3 DEF SlotStep
<1> QED BY <1>1, <1>5, <1>6, PinnedHasReader, KindOfStep DEF ThreadStep

\* The cache starts empty, with nobody in it.
LEMMA InitInv == Init => IInv
<1> SUFFICES ASSUME Init PROVE IInv
  OBVIOUS
<1>1. TableType /\ DataType
  BY DEF Init, TableType, DataType, States
<1>2. CallType
  BY DEF Init, CallType, Places, NoBlock
<1>3. SyncType
  BY DEF Init, SyncType
<1>4. TableInv
  BY DEF Init, TableInv
<1>5. TokenInv
  BY DEF Init, TokenInv, CallOK, Token, Filling, Writing
<1>6. \A s \in Slot : Readers(s) = {}
  BY DEF Init, Readers
<1>7. PinInv
  BY <1>6, FS_EmptySet DEF Init, PinInv
<1> QED BY <1>1, <1>2, <1>3, <1>4, <1>5, <1>7 DEF IInv, TypeInv

\* IInv is inductive.
LEMMA NextInv == IInv /\ [Next]_vars => IInv'
<1> SUFFICES ASSUME IInv, [Next]_vars PROVE IInv'
  OBVIOUS
<1>1. CASE Next
  BY <1>1, PinnedHasReader, TypeStep, TableStep, TokenStep, PinStep DEF IInv
<1>2. CASE UNCHANGED vars
  <2>1. TypeInv'
    BY <1>2, SameTable, SameData, SameSync, ZenonT(60) DEF IInv, TypeInv, CallType, vars, call
  <2>2. TableInv' /\ TokenInv'
    BY <1>2, SMT DEF IInv, TableInv, TokenInv, CallOK, Token, Filling, Writing, vars, table, data, call
  <2>3. PinInv'
    <3>1. \A s \in Slot : Readers(s)' = Readers(s) /\ pins' = pins
      BY <1>2 DEF Readers, vars, table, call
    <3> QED BY <3>1 DEF IInv, PinInv
  <2> QED BY <2>1, <2>2, <2>3 DEF IInv
<1> QED BY <1>1, <1>2

\* The inductive invariant holds in every reachable state of the cache.
THEOREM InvariantHolds == Spec => []IInv
BY InitInv, NextInv, PTL DEF Spec

\* A slot in flight has exactly one thread filling it or writing it back, a slot being
\* filled has no reader and is not dirtied, and the pins of a slot count its readers: what
\* Fill, Writeback and BlockRef rely on, time-outs and failures included.
THEOREM TransfersHaveOwners == Spec => []TransfersOwned
<1>1. IInv => TransfersOwned
  <2> SUFFICES ASSUME IInv PROVE TransfersOwned
    OBVIOUS
  <2>0. TypeInv /\ TableInv /\ TokenInv /\ PinInv
    BY DEF IInv
  <2>1. ASSUME NEW s \in Slot PROVE Cardinality(Fills(s)) = IF filling[s] THEN 1 ELSE 0
    <3>1. CASE filling[s]
      <4>1. PICK t \in Thread : Token(t) /\ slot[t] = s
        BY <2>0, <3>1, ZenonT(60) DEF TokenInv, TableInv
      <4>2. Fills(s) = {t}
        BY <2>0, <3>1, <4>1, SMTT(40) DEF Fills, TokenInv, CallOK, Token, Filling, Writing
      <4> QED BY <3>1, <4>2, FS_Singleton
    <3>2. CASE ~filling[s]
      <4>1. Fills(s) = {}
        BY <2>0, <3>2, SMTT(40) DEF Fills, TokenInv, CallOK, Filling
      <4> QED BY <3>2, <4>1, FS_EmptySet, ZenonT(60)
    <3> QED BY <3>1, <3>2
  <2>2. ASSUME NEW s \in Slot
        PROVE  Cardinality(Writebacks(s)) = IF state[s] = "InFlight" /\ ~filling[s] THEN 1 ELSE 0
    <3>1. CASE state[s] = "InFlight" /\ ~filling[s]
      <4>1. PICK t \in Thread : Token(t) /\ slot[t] = s
        BY <2>0, <3>1 DEF TokenInv
      <4>2. Writebacks(s) = {t}
        BY <2>0, <3>1, <4>1, SMTT(40) DEF Writebacks, TokenInv, CallOK, Token, Filling, Writing
      <4> QED BY <3>1, <4>2, FS_Singleton
    <3>2. CASE ~(state[s] = "InFlight" /\ ~filling[s])
      <4>1. Writebacks(s) = {}
        BY <2>0, <3>2, SMT DEF Writebacks, TokenInv, CallOK, Writing
      <4> QED BY <3>2, <4>1, FS_EmptySet, ZenonT(60)
    <3> QED BY <3>1, <3>2
  <2>3. OneTokenPerTransfer
    BY <2>0, <2>1, <2>2 DEF OneTokenPerTransfer, TableInv
  <2>4. FillIsPrivate
    <3> SUFFICES ASSUME NEW s \in Slot, filling[s] PROVE pins[s] = 0 /\ ~dirtied[s]
      BY DEF FillIsPrivate
    <3>1. Readers(s) = {}
      BY <2>0, SMTT(40) DEF Readers, TokenInv, CallOK
    <3> QED BY <2>0, <3>1, FS_EmptySet DEF PinInv, TableInv
  <2>5. PinsCountReaders
    BY <2>0, SMTT(40) DEF PinsCountReaders, PinInv, Readers, TokenInv, CallOK
  <2> QED BY <2>3, <2>4, <2>5 DEF TransfersOwned
<1> QED BY <1>1, InvariantHolds, PTL

\* With contents: the inductive invariant when nothing times out.
SInv == IInv /\ DataInv /\ SyncInv

\* Nothing is cached at the start, so nothing differs from the device.
LEMMA InitData == Init => SInv
<1> SUFFICES ASSUME Init PROVE SInv
  OBVIOUS
<1>1. DataInv /\ SyncInv
  BY DEF Init, DataInv, SyncInv
<1> QED BY <1>1, InitInv DEF SInv

\* SInv is inductive when no write-back is given up on.
LEMMA NextData == ASSUME ~MayTimeOut PROVE SInv /\ [Next]_vars => SInv'
<1> SUFFICES ASSUME SInv, [Next]_vars PROVE SInv'
  OBVIOUS
<1>0. DInv
  BY PinnedHasReader DEF SInv, DInv
<1>1. IInv'
  BY NextInv DEF SInv
<1>2. CASE Next
  BY <1>0, <1>1, <1>2, DataStep, SyncStep DEF SInv
<1>3. CASE UNCHANGED vars
  <2>1. DataInv' /\ SyncInv'
    BY <1>3, SMT DEF SInv, DataInv, SyncInv, unsynced_mask, vars, table, data, call, syncing
  <2> QED BY <1>1, <2>1, ZenonT(60) DEF SInv
<1> QED BY <1>2, <1>3

\* The invariant on contents holds in every reachable state.
THEOREM DataInvariantHolds == ASSUME ~MayTimeOut PROVE Spec => []SInv
<1>1. SInv /\ [Next]_vars => SInv'
  BY NextData
<1> QED BY <1>1, InitData, PTL DEF Spec

\* A clean slot holds what the device has, so that evicting it without a write loses
\* nothing (claim, claim_free_slot).
THEOREM CleanSlotsMatch == ASSUME ~MayTimeOut PROVE Spec => []CleanMatchesDevice
<1>1. SInv => CleanMatchesDevice
  BY DEF SInv, DataInv, CleanMatchesDevice
<1>2. Spec => []SInv
  BY DataInvariantHolds
<1> QED BY <1>1, <1>2, PTL

\* A sync that finds nothing of its snapshot outstanding and no failure has every block
\* that was dirty when it began in the device (sync).
THEOREM SyncReachesDevice == ASSUME ~MayTimeOut PROVE Spec => []SyncIsDurable
<1>1. SInv => SyncIsDurable
  <2> SUFFICES ASSUME SInv, NEW t \in Thread, Outstanding(t) = {}, failed[t] = {}, unsaved[t] # {}
               PROVE  FALSE
    BY DEF SyncIsDurable
  <2>1. PICK b \in unsaved[t] : TRUE
    OBVIOUS
  <2>2. PICK s \in owed[t] : s \in unsynced_mask
    BY <2>1 DEF SInv, SyncInv
  <2> QED BY <2>2 DEF Outstanding
<1>2. Spec => []SInv
  BY DataInvariantHolds
<1> QED BY <1>1, <1>2, PTL

\* The cache implements the block store: what a read returns is the last value written,
\* whoever wrote it and wherever it is, and a block does not change in a reader's hands.
THEOREM CacheIsAStore == ASSUME ~MayTimeOut PROVE Spec => ImplementsStore
<1>1. Spec => []SInv
  BY DataInvariantHolds
<1>2. SInv /\ SInv' /\ [Next]_vars => [Store!Next]_(Store!vars)
  <2> SUFFICES ASSUME SInv, SInv', [Next]_vars PROVE [Store!Next]_(Store!vars)
    OBVIOUS
  <2>1. DInv /\ TableInv'
    BY PinnedHasReader DEF SInv, DInv, IInv
  <2> QED BY <2>1, NextStore
<1>3. Init => Store!Init
  BY InitInv, InitStore DEF IInv
<1> QED BY <1>1, <1>2, <1>3, PTL DEF Spec, ImplementsStore, Store!Spec
=============================================================================
