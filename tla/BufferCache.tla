---------------------------- MODULE BufferCache -----------------------------
(***************************************************************************)
(* The buffer cache: the slot table of crates/qunix-bcache/src/lib.rs and  *)
(* the read, write, write-back, make-room and sync paths of                *)
(* kernel/src/bcache.rs, over a block device seen through                  *)
(* block::read_at and block::write_at.                                     *)
(*                                                                         *)
(* A step is one critical section under CACHE or one effect of a device    *)
(* transfer.  Waiting for a tick and trying again is re-evaluating the     *)
(* same step; a wait bounded in ticks may give up whenever it is blocked.  *)
(***************************************************************************)
EXTENDS Naturals, FiniteSets

CONSTANTS
    Thread, Key, Val,
    NumSlots,     \* SLOTS
    MayTimeOut    \* whether a write can land after its caller gave up on it

Slot == 1..NumSlots
None == 0
NoBlock == [key |-> None, val |-> None]

ASSUME SlotsAssumption == NumSlots \in Nat \ {0} /\ MayTimeOut \in BOOLEAN
ASSUME DomainsAssumption ==
    IsFiniteSet(Thread) /\ Key # {} /\ Val # {} /\ None \notin Key \cup Val

VARIABLES
    key, state, pins, dirtied,   \* the table: Slot::{key, state, pins, dirtied_during_io}
    filling, writeback_failed,   \* Bcache::{filling, writeback_failed}
    frame,                       \* contents of each slot's frame
    disk,                        \* contents of the device
    late,                        \* writes given up on that the device still holds
    pc, op,                      \* where each thread is, and for which call
    arg,                         \* the call's block and data
    slot,                        \* the slot its BlockRef, Fill or Writeback names
    flushed,                     \* retries of a call that found the table full
    failedNow,                   \* whether the transfer just made failed
    owed, todo, failed, acted,   \* sync's locals
    unsaved                      \* blocks each sync still has to see on the device

table == <<key, state, pins, dirtied, filling, writeback_failed>>
data == <<frame, disk, late>>
call == <<pc, op, arg, slot, flushed, failedNow>>
syncing == <<owed, todo, failed, acted, unsaved>>
vars == <<table, data, call, syncing>>

Init ==
    /\ key = [s \in Slot |-> None]
    /\ state = [s \in Slot |-> "Free"]
    /\ pins = [s \in Slot |-> 0]
    /\ dirtied = [s \in Slot |-> FALSE]
    /\ filling = [s \in Slot |-> FALSE]
    /\ writeback_failed = [s \in Slot |-> FALSE]
    /\ frame = [s \in Slot |-> None]
    /\ disk \in [Key -> Val]
    /\ late = {}
    /\ pc = [t \in Thread |-> "idle"] /\ op = [t \in Thread |-> "none"]
    /\ arg = [t \in Thread |-> NoBlock]
    /\ slot = [t \in Thread |-> None]
    /\ flushed = [t \in Thread |-> 0]
    /\ failedNow = [t \in Thread |-> FALSE]
    /\ owed = [t \in Thread |-> {}] /\ todo = [t \in Thread |-> {}]
    /\ failed = [t \in Thread |-> {}]
    /\ acted = [t \in Thread |-> FALSE]
    /\ unsaved = [t \in Thread |-> {}]

-----------------------------------------------------------------------------
(* The slot table *)

First(S) == {s \in S : \A r \in S : s <= r}

\* lookup(b), as a set of at most one slot.
lookup(b) == First({s \in Slot : state[s] # "Free" /\ key[s] = b})

reusable(s) == state[s] \in {"Free", "Clean"} /\ pins[s] = 0

\* insert's free slot, else the victim that is evicted for it.
FreeSlots == {s \in Slot : state[s] = "Free"}
ClaimSlot == IF FreeSlots # {} THEN First(FreeSlots)
             ELSE First({s \in Slot : reusable(s)})

\* end_io: back to st, or Dirty if it was dirtied meanwhile.
AfterIo(s, st) == IF dirtied[s] THEN "Dirty" ELSE st

\* Mutant: sync looks at dirty slots only.
dirty_only == {s \in Slot : state[s] = "Dirty"}

\* What sync must see through: a write-back in flight is not on the device yet.
unsynced_mask == {s \in Slot : state[s] = "Dirty" \/ (state[s] = "InFlight" /\ ~filling[s])}

\* flushable_slot: dirty and unpinned, one the device has not refused if there is.
flushable_slot ==
    LET unpinned == {s \in Slot : state[s] = "Dirty" /\ pins[s] = 0}
        untried == {s \in unpinned : ~writeback_failed[s]}
    IN  First(IF untried # {} THEN untried ELSE unpinned)

\* What a read of block b returns: its slot's frame once filled, else the device's.
Visible(b) ==
    LET resident == {s \in lookup(b) : ~filling[s]}
    IN  IF resident = {} THEN disk[b] ELSE frame[CHOOSE s \in resident : TRUE]

-----------------------------------------------------------------------------
(* Calls *)

\* The locals of a call that has returned.
Return(t) ==
    /\ pc' = [pc EXCEPT ![t] = "idle"]
    /\ op' = [op EXCEPT ![t] = "none"]
    /\ arg' = [arg EXCEPT ![t] = NoBlock]
    /\ slot' = [slot EXCEPT ![t] = None]
    /\ flushed' = [flushed EXCEPT ![t] = 0]
    /\ failedNow' = [failedNow EXCEPT ![t] = FALSE]
    /\ owed' = [owed EXCEPT ![t] = {}] /\ todo' = [todo EXCEPT ![t] = {}]
    /\ failed' = [failed EXCEPT ![t] = {}]
    /\ acted' = [acted EXCEPT ![t] = FALSE]
    /\ unsaved' = [unsaved EXCEPT ![t] = {}]

StartRead(t, b) ==
    /\ pc[t] = "idle"
    /\ pc' = [pc EXCEPT ![t] = "claim"] /\ op' = [op EXCEPT ![t] = "read"]
    /\ arg' = [arg EXCEPT ![t] = [key |-> b, val |-> None]]
    /\ UNCHANGED <<table, data, slot, flushed, failedNow, syncing>>

StartWrite(t, b, v) ==
    /\ pc[t] = "idle"
    /\ pc' = [pc EXCEPT ![t] = "store"] /\ op' = [op EXCEPT ![t] = "write"]
    /\ arg' = [arg EXCEPT ![t] = [key |-> b, val |-> v]]
    /\ UNCHANGED <<table, data, slot, flushed, failedNow, syncing>>

\* claim on a block being filled: wait, or give up with FillStalled.
ClaimWait(t) ==
    /\ pc[t] = "claim"
    /\ \E s \in lookup(arg[t].key) : state[s] = "InFlight" /\ filling[s]
    /\ Return(t)
    /\ UNCHANGED <<table, data>>

\* claim on a resident block: pin it, whatever else is happening to it.
ClaimHit(t) ==
    /\ pc[t] = "claim"
    /\ \E s \in lookup(arg[t].key) :
        /\ ~(state[s] = "InFlight" /\ filling[s])
        /\ pins' = [pins EXCEPT ![s] = @ + 1]
        /\ slot' = [slot EXCEPT ![t] = s]
    /\ pc' = [pc EXCEPT ![t] = "hold"]
    /\ UNCHANGED <<key, state, dirtied, filling, writeback_failed, data, op, arg, flushed,
                   failedNow, syncing>>

\* claim on a missing block: take a slot for it and start the read.
ClaimFill(t) ==
    /\ pc[t] = "claim" /\ lookup(arg[t].key) = {}
    /\ \E s \in ClaimSlot :
        /\ key' = [key EXCEPT ![s] = arg[t].key]
        /\ state' = [state EXCEPT ![s] = "InFlight"]
        /\ dirtied' = [dirtied EXCEPT ![s] = FALSE]
        /\ filling' = [filling EXCEPT ![s] = TRUE]
        /\ writeback_failed' =
             [writeback_failed EXCEPT ![s] = IF state[s] = "Free" THEN @ ELSE FALSE]
        /\ slot' = [slot EXCEPT ![t] = s]
    /\ pc' = [pc EXCEPT ![t] = "fill"]
    /\ UNCHANGED <<pins, data, op, arg, flushed, failedNow, syncing>>

\* Either call on a missing block with no slot to take: make room and retry,
\* at most SLOTS times.
TableFull(t) ==
    /\ pc[t] \in {"claim", "store"}
    /\ lookup(arg[t].key) = {} /\ ClaimSlot = {}
    /\ IF flushed[t] + 1 > NumSlots
       THEN Return(t)
       ELSE /\ flushed' = [flushed EXCEPT ![t] = @ + 1]
            /\ pc' = [pc EXCEPT ![t] = "room"]
            /\ UNCHANGED <<op, arg, slot, failedNow, syncing>>
    /\ UNCHANGED <<table, data>>

\* block::read_at succeeded: the device's bytes are in the frame.
FillRead(t) ==
    /\ pc[t] = "fill"
    /\ frame' = [frame EXCEPT ![slot[t]] = disk[key[slot[t]]]]
    /\ pc' = [pc EXCEPT ![t] = "filled"]
    /\ UNCHANGED <<table, disk, late, op, arg, slot, flushed, failedNow, syncing>>

\* finish_fill(ok)
FinishFill(t) ==
    LET s == slot[t]
    IN
    /\ pc[t] = "filled"
    /\ filling' = [filling EXCEPT ![s] = FALSE]
    /\ state' = [state EXCEPT ![s] = AfterIo(s, "Clean")]
    /\ dirtied' = [dirtied EXCEPT ![s] = FALSE]
    /\ pins' = [pins EXCEPT ![s] = @ + 1]
    /\ pc' = [pc EXCEPT ![t] = "hold"]
    /\ UNCHANGED <<key, writeback_failed, data, op, arg, slot, flushed, failedNow, syncing>>

\* A failed read (finish_fill) or a dropped future (Fill::drop): evict the slot.
FillFails(t) ==
    LET s == slot[t]
    IN
    /\ pc[t] = "fill"
    /\ filling' = [filling EXCEPT ![s] = FALSE]
    /\ state' = [state EXCEPT ![s] = "Free"]
    /\ key' = [key EXCEPT ![s] = None]
    /\ dirtied' = [dirtied EXCEPT ![s] = FALSE]
    /\ Return(t)
    /\ UNCHANGED <<pins, writeback_failed, data>>

\* BlockRef::drop
Unpin(t) ==
    /\ pc[t] = "hold"
    /\ pins' = [pins EXCEPT ![slot[t]] = @ - 1]
    /\ Return(t)
    /\ UNCHANGED <<key, state, dirtied, filling, writeback_failed, data>>

\* store on a block that has I/O outstanding or readers: wait, or give up.
StoreWait(t) ==
    /\ pc[t] = "store"
    /\ \E s \in lookup(arg[t].key) : state[s] = "InFlight" \/ pins[s] # 0
    /\ Return(t)
    /\ UNCHANGED <<table, data>>

\* Mutant: store overwrites a block under its readers.
StoreHitPinned(t) ==
    /\ pc[t] = "store"
    /\ \E s \in lookup(arg[t].key) :
        /\ state[s] # "InFlight"
        /\ frame' = [frame EXCEPT ![s] = arg[t].val]
        /\ state' = [state EXCEPT ![s] = "Dirty"]
        /\ writeback_failed' = [writeback_failed EXCEPT ![s] = FALSE]
    /\ Return(t)
    /\ UNCHANGED <<key, pins, dirtied, filling, disk, late>>

\* store: the block is copied into its slot, which becomes dirty.
StoreHit(t) ==
    /\ pc[t] = "store"
    /\ \E s \in lookup(arg[t].key) :
        /\ state[s] # "InFlight" /\ pins[s] = 0
        /\ frame' = [frame EXCEPT ![s] = arg[t].val]
        /\ state' = [state EXCEPT ![s] = "Dirty"]
        /\ writeback_failed' = [writeback_failed EXCEPT ![s] = FALSE]
    /\ Return(t)
    /\ UNCHANGED <<key, pins, dirtied, filling, disk, late>>

\* A whole block is stored, so a missing one is not read first.
StoreMiss(t) ==
    /\ pc[t] = "store" /\ lookup(arg[t].key) = {}
    /\ \E s \in ClaimSlot :
        /\ key' = [key EXCEPT ![s] = arg[t].key]
        /\ frame' = [frame EXCEPT ![s] = arg[t].val]
        /\ state' = [state EXCEPT ![s] = "Dirty"]
        /\ dirtied' = [dirtied EXCEPT ![s] = FALSE]
        /\ writeback_failed' = [writeback_failed EXCEPT ![s] = FALSE]
    /\ Return(t)
    /\ UNCHANGED <<pins, filling, disk, late>>

-----------------------------------------------------------------------------
(* Write-back *)

\* Where make_room's caller goes on.
Retry(t) == IF op[t] = "read" THEN "claim" ELSE "store"

\* make_room: choose a slot; with none there is no room to be made.
MakeRoom(t) ==
    /\ pc[t] = "room"
    /\ IF flushable_slot = {}
       THEN Return(t)
       ELSE /\ \E s \in flushable_slot : slot' = [slot EXCEPT ![t] = s]
            /\ pc' = [pc EXCEPT ![t] = "begin"]
            /\ UNCHANGED <<op, arg, flushed, failedNow, syncing>>
    /\ UNCHANGED <<table, data>>

\* Mutant: the slot chosen before the lock was released is taken on trust.
BeginAnyway(t) ==
    /\ pc[t] = "begin"
    /\ state' = [state EXCEPT ![slot[t]] = "InFlight"]
    /\ pc' = [pc EXCEPT ![t] = "write"]
    /\ UNCHANGED <<key, pins, dirtied, filling, writeback_failed, data, op, arg, slot, flushed,
                   failedNow, syncing>>

\* begin_writeback for make_room; None if the slot is no longer dirty.
BeginWriteback(t) ==
    /\ pc[t] = "begin"
    /\ IF state[slot[t]] = "Dirty"
       THEN /\ state' = [state EXCEPT ![slot[t]] = "InFlight"]
            /\ pc' = [pc EXCEPT ![t] = "write"]
            /\ UNCHANGED slot
       ELSE /\ pc' = [pc EXCEPT ![t] = Retry(t)]
            /\ slot' = [slot EXCEPT ![t] = None]
            /\ UNCHANGED state
    /\ UNCHANGED <<key, pins, dirtied, filling, writeback_failed, data, op, arg, flushed,
                   failedNow, syncing>>

\* The device has written the block.
Land(b, v) ==
    /\ disk' = [disk EXCEPT ![b] = v]
    /\ unsaved' = [t \in Thread |-> unsaved[t] \ {b}]

\* block::write_at returned: written; refused, written or not; or timed out,
\* with the bounce buffer still in the device's hands.
WriteBlock(t) ==
    LET b == key[slot[t]]
        v == frame[slot[t]]
    IN
    /\ pc[t] = "write"
    /\ \/ /\ Land(b, v)
          /\ failedNow' = [failedNow EXCEPT ![t] = FALSE]
          /\ UNCHANGED late
       \/ /\ Land(b, v) \/ UNCHANGED <<disk, unsaved>>
          /\ failedNow' = [failedNow EXCEPT ![t] = TRUE]
          /\ UNCHANGED late
       \/ /\ MayTimeOut
          /\ late' = late \cup {<<b, v>>}
          /\ failedNow' = [failedNow EXCEPT ![t] = TRUE]
          /\ UNCHANGED <<disk, unsaved>>
    /\ pc' = [pc EXCEPT ![t] = "wrote"]
    /\ UNCHANGED <<table, frame, op, arg, slot, flushed, owed, todo, failed, acted>>

\* Mutant: the outcome of the transfer is ignored.
AlwaysClean(t) == "Clean"

\* The state finish_writeback ends the transfer in.
WritebackState(t) == IF failedNow[t] THEN "Dirty" ELSE "Clean"

\* finish_writeback, and what its caller does with the outcome.
FinishWriteback(t) ==
    LET s == slot[t]
    IN
    /\ pc[t] = "wrote"
    /\ state' = [state EXCEPT ![s] = AfterIo(s, WritebackState(t))]
    /\ dirtied' = [dirtied EXCEPT ![s] = FALSE]
    /\ writeback_failed' = [writeback_failed EXCEPT ![s] = failedNow[t]]
    /\ IF op[t] # "sync" /\ failedNow[t]
       THEN Return(t)
       ELSE /\ pc' = [pc EXCEPT ![t] = IF op[t] = "sync" THEN "slots" ELSE Retry(t)]
            /\ slot' = [slot EXCEPT ![t] = None]
            /\ failedNow' = [failedNow EXCEPT ![t] = FALSE]
            /\ failed' = [failed EXCEPT ![t] =
                             IF op[t] = "sync" /\ failedNow[t] THEN @ \cup {s} ELSE @]
            /\ acted' = [acted EXCEPT ![t] = op[t] = "sync"]
            /\ UNCHANGED <<op, arg, flushed, owed, todo, unsaved>>
    /\ UNCHANGED <<key, pins, filling, data>>

\* A future dropped during its transfer (Writeback::drop): dirty again, and the
\* write may still happen.
DropWriteback(t) ==
    LET s == slot[t]
    IN
    /\ MayTimeOut /\ pc[t] = "write"
    /\ state' = [state EXCEPT ![s] = "Dirty"]
    /\ dirtied' = [dirtied EXCEPT ![s] = FALSE]
    /\ late' = late \cup {<<key[s], frame[s]>>}
    /\ Return(t)
    /\ UNCHANGED <<key, pins, filling, writeback_failed, frame, disk>>

\* The device performs a write nobody waits for any more.
LateWrite ==
    /\ \E w \in late :
        /\ disk' = [disk EXCEPT ![w[1]] = w[2]]
        /\ late' = late \ {w}
    /\ UNCHANGED <<table, frame, call, syncing>>

-----------------------------------------------------------------------------
(* sync *)

SyncStart(t) ==
    /\ pc[t] = "idle"
    /\ owed' = [owed EXCEPT ![t] = unsynced_mask]
    /\ unsaved' = [unsaved EXCEPT ![t] = {b \in Key : disk[b] # Visible(b)}]
    /\ pc' = [pc EXCEPT ![t] = "round"] /\ op' = [op EXCEPT ![t] = "sync"]
    /\ UNCHANGED <<table, data, arg, slot, flushed, failedNow, todo, failed, acted>>

\* What a round of sync finds to do.
Outstanding(t) == (owed[t] \cap unsynced_mask) \ failed[t]

SyncRound(t) ==
    /\ pc[t] = "round"
    /\ IF Outstanding(t) = {}
       THEN Return(t)
       ELSE /\ todo' = [todo EXCEPT ![t] = Outstanding(t)]
            /\ acted' = [acted EXCEPT ![t] = FALSE]
            /\ pc' = [pc EXCEPT ![t] = "slots"]
            /\ UNCHANGED <<op, arg, slot, flushed, failedNow, owed, failed, unsaved>>
    /\ UNCHANGED <<table, data>>

\* The next slot of the round: begin its write-back if it is still dirty.
SyncSlot(t) ==
    /\ pc[t] = "slots"
    /\ \E s \in First(todo[t]) :
        /\ todo' = [todo EXCEPT ![t] = @ \ {s}]
        /\ IF state[s] = "Dirty"
           THEN /\ state' = [state EXCEPT ![s] = "InFlight"]
                /\ slot' = [slot EXCEPT ![t] = s]
                /\ pc' = [pc EXCEPT ![t] = "write"]
           ELSE UNCHANGED <<state, slot, pc>>
    /\ UNCHANGED <<key, pins, dirtied, filling, writeback_failed, data, op, arg, flushed,
                   failedNow, owed, failed, acted, unsaved>>

\* The round is over.  One that resolved nothing waits for another processor's
\* write-backs, and may give up on them with WritebackStalled.
SyncRoundEnd(t) ==
    /\ pc[t] = "slots" /\ todo[t] = {}
    /\ \/ /\ pc' = [pc EXCEPT ![t] = "round"]
          /\ UNCHANGED <<op, arg, slot, flushed, failedNow, syncing>>
       \/ /\ ~acted[t]
          /\ Return(t)
    /\ UNCHANGED <<table, data>>

-----------------------------------------------------------------------------
CallStep(t) ==
    \/ ClaimHit(t) \/ ClaimFill(t) \/ TableFull(t) \/ FillRead(t) \/ FinishFill(t)
    \/ StoreHit(t) \/ StoreMiss(t) \/ MakeRoom(t) \/ BeginWriteback(t) \/ WriteBlock(t)
    \/ FinishWriteback(t) \/ SyncRound(t) \/ SyncSlot(t) \/ SyncRoundEnd(t)

Choice(t) ==
    \/ ClaimWait(t) \/ StoreWait(t) \/ FillFails(t) \/ DropWriteback(t) \/ Unpin(t)
    \/ SyncStart(t)
    \/ \E b \in Key : StartRead(t, b) \/ \E v \in Val : StartWrite(t, b, v)

Next == LateWrite \/ \E t \in Thread : CallStep(t) \/ Choice(t)

Spec == Init /\ [][Next]_vars

-----------------------------------------------------------------------------
(* Properties *)

\* The threads holding an IoToken for s, for a fill and for a write-back.
Fills(s) == {t \in Thread : pc[t] \in {"fill", "filled"} /\ slot[t] = s}
Writebacks(s) == {t \in Thread : pc[t] \in {"write", "wrote"} /\ slot[t] = s}

\* Exactly one thread holds the token of each slot in flight, and of the kind
\* the filling flag says: no transfer is resolved twice, none is forgotten, and
\* the assertions of end_io, begin_io and begin_writeback cannot fire.
OneTokenPerTransfer ==
    \A s \in Slot :
        /\ Cardinality(Fills(s)) = IF filling[s] THEN 1 ELSE 0
        /\ Cardinality(Writebacks(s)) =
             IF state[s] = "InFlight" /\ ~filling[s] THEN 1 ELSE 0
        /\ filling[s] => state[s] = "InFlight"

\* While a slot is filled nobody reads it or dirties it, so a failed or
\* abandoned fill can always evict it (the panics of finish_fill, Fill::drop).
FillIsPrivate == \A s \in Slot : filling[s] => pins[s] = 0 /\ ~dirtied[s]

\* A pin stands for exactly one live BlockRef, and a pinned slot is never
\* evicted or handed to another block.
PinsCountReaders ==
    \A s \in Slot :
        LET readers == {t \in Thread : pc[t] = "hold" /\ slot[t] = s}
        IN  /\ pins[s] = Cardinality(readers)
            /\ \A t \in readers : state[s] # "Free" /\ key[s] = arg[t].key

\* Every transfer and every pin of a slot has its owner, timed-out requests
\* included.
TransfersOwned == OneTokenPerTransfer /\ FillIsPrivate /\ PinsCountReaders

\* "Holds a block whose contents match the device" (SlotState::Clean).
CleanMatchesDevice == \A s \in Slot : state[s] = "Clean" => frame[s] = disk[key[s]]

\* sync returns Ok only when every block that was dirty or under write-back when
\* it was called has since been written to the device, by whichever thread.
SyncIsDurable ==
    \A t \in Thread :
        pc[t] = "round" /\ Outstanding(t) = {} /\ failed[t] = {} => unsaved[t] = {}

\* The store the cache's callers see.
Store == INSTANCE BlockStore WITH
    content <- [b \in Key |-> Visible(b)],
    held <- [t \in Thread |->
               IF pc[t] = "hold" THEN [key |-> key[slot[t]], val |-> frame[slot[t]]]
               ELSE NoBlock]

\* Fills, evictions, write-backs, their failures and their races change nothing
\* a caller can observe: reads return the last stored block, an acknowledged
\* write is never lost, and a BlockRef's bytes never change under its reader.
ImplementsStore == Store!Spec
=============================================================================
