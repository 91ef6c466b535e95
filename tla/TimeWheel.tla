----------------------------- MODULE TimeWheel -----------------------------
(***************************************************************************)
(* include/time_wheel.h and src/time_wheel.cc: a hashed timing wheel whose *)
(* N slots are intrusive doubly linked lists.  tick() is modelled node by  *)
(* node because cb_func runs in the middle of it and may re-enter          *)
(* add_timer and delete_timer.                                             *)
(*                                                                         *)
(* External: the callers, which never use a timer after it was freed, and  *)
(* the callbacks, which never delete the timer they run for (tick() frees  *)
(* it itself).                                                             *)
(***************************************************************************)
EXTENDS Integers

CONSTANTS Timers,      (* the addresses operator new may return            *)
          NULL,        (* nullptr                                          *)
          N,           (* number of slots, 60 in the code                  *)
          SI,          (* seconds per slot, 1 in the code                  *)
          MaxTimeout   (* bound on the timeouts callers ask for            *)

ASSUME WheelAssumption ==
    /\ NULL \notin Timers
    /\ N \in Nat \ {0}
    /\ SI \in Nat \ {0}
    /\ MaxTimeout \in Nat

VARIABLES alive,       (* the timers allocated and not yet deleted         *)
          rotation, time_slot, next, prev,   (* the fields of each timer   *)
          slots,       (* the heads of the lists                           *)
          cur_slot,
          tmp,         (* the local of tick()                              *)
          pc,          (* "idle", "ticking", "firing", "closing", "closed" *)
          passed       (* history: timers of cur_slot behind tmp           *)

heap == <<alive, rotation, time_slot, next, prev, slots>>
vars == <<alive, rotation, time_slot, next, prev, slots, cur_slot, tmp, pc, passed>>

Slots == 0 .. N - 1
Ptr == Timers \cup {NULL}
Timeouts == -1 .. MaxTimeout

Init ==
    /\ alive = {}
    /\ rotation = [t \in Timers |-> 0]
    /\ time_slot = [t \in Timers |-> 0]
    /\ next = [t \in Timers |-> NULL]
    /\ prev = [t \in Timers |-> NULL]
    /\ slots = [s \in Slots |-> NULL]
    /\ cur_slot = 0
    /\ tmp = NULL
    /\ pc = "idle"
    /\ passed = {}

-----------------------------------------------------------------------------
Ticks(timeout) == IF timeout < SI THEN 1 ELSE timeout \div SI

(* Variant with a slip: a whole revolution rounded down.                   *)
RotationShort(ticks) == (ticks - 1) \div N

Rotation(ticks) == ticks \div N

SlotFor(ticks) == (cur_slot + (ticks % N)) % N

(* Variant with a slip: the old head does not point back.                  *)
PushFrontOneWay(t, s) ==
    /\ next' = [next EXCEPT ![t] = slots[s]]
    /\ prev' = [prev EXCEPT ![t] = NULL]
    /\ slots' = [slots EXCEPT ![s] = t]

PushFront(t, s) ==
    /\ next' = [next EXCEPT ![t] = slots[s]]
    /\ prev' = [x \in Timers |-> IF x = t THEN NULL
                                 ELSE IF x = slots[s] THEN t ELSE prev[x]]
    /\ slots' = [slots EXCEPT ![s] = t]

(* add_timer, from the caller or from a running callback.  A negative      *)
(* timeout returns nullptr and changes nothing.                            *)
AddTimer(timeout) ==
    /\ pc \in {"idle", "firing"}
    /\ \/ timeout < 0 /\ UNCHANGED <<heap, passed>>
       \/ /\ timeout >= 0
          /\ \E t \in Timers \ alive :
             LET ticks == Ticks(timeout)
                 ts    == SlotFor(ticks)
             IN /\ alive' = alive \cup {t}
                /\ rotation' = [rotation EXCEPT ![t] = Rotation(ticks)]
                /\ time_slot' = [time_slot EXCEPT ![t] = ts]
                /\ PushFront(t, ts)
                /\ passed' = IF pc = "firing" /\ ts = cur_slot
                             THEN passed \cup {t} ELSE passed
    /\ UNCHANGED <<cur_slot, tmp, pc>>

(* The fields of a deleted timer hold nothing any more: they are reset so  *)
(* that freed memory has one representation.                               *)
FreeFields(t) ==
    /\ alive' = alive \ {t}
    /\ rotation' = [rotation EXCEPT ![t] = 0]
    /\ time_slot' = [time_slot EXCEPT ![t] = 0]

(* The unlinking that delete_timer and tick() share: from the head of slot *)
(* s, or between two neighbours.                                           *)
Unlink(t, s) ==
    /\ \/ /\ t = slots[s]
          /\ slots' = [slots EXCEPT ![s] = next[t]]
          /\ next' = [next EXCEPT ![t] = NULL]
          /\ prev' = [x \in Timers |-> IF x \in {t, next[t]} THEN NULL ELSE prev[x]]
       \/ /\ t # slots[s]
          /\ slots' = slots
          /\ next' = [next EXCEPT ![prev[t]] = next[t], ![t] = NULL]
          /\ prev' = [x \in Timers |-> IF x = t THEN NULL
                                       ELSE IF x = next[t] THEN prev[t] ELSE prev[x]]
    /\ FreeFields(t)

DeleteTimer(t) ==
    /\ \/ pc = "idle"
       \/ pc = "firing" /\ t # tmp
    /\ t \in alive
    /\ Unlink(t, time_slot[t])
    /\ passed' = passed \ {t}
    /\ UNCHANGED <<cur_slot, tmp, pc>>

-----------------------------------------------------------------------------
(* tick(): one pass over the list of cur_slot. *)
TickBegin ==
    /\ pc = "idle"
    /\ pc' = "ticking"
    /\ tmp' = slots[cur_slot]
    /\ UNCHANGED <<heap, cur_slot, passed>>

TickSkip ==
    /\ pc = "ticking"
    /\ tmp # NULL
    /\ rotation[tmp] > 0
    /\ rotation' = [rotation EXCEPT ![tmp] = @ - 1]
    /\ tmp' = next[tmp]
    /\ passed' = passed \cup {tmp}
    /\ UNCHANGED <<alive, time_slot, next, prev, slots, cur_slot, pc>>

TickFire ==
    /\ pc = "ticking"
    /\ tmp # NULL
    /\ rotation[tmp] <= 0
    /\ pc' = "firing"
    /\ UNCHANGED <<heap, cur_slot, tmp, passed>>

(* Variant with a slip: the walk starts over from the head.                *)
TickRemoveRestart ==
    /\ pc = "firing"
    /\ Unlink(tmp, cur_slot)
    /\ tmp' = slots'[cur_slot]
    /\ pc' = "ticking"
    /\ UNCHANGED <<cur_slot, passed>>

(* The callback has returned. *)
TickRemove ==
    /\ pc = "firing"
    /\ Unlink(tmp, cur_slot)
    /\ tmp' = next[tmp]
    /\ pc' = "ticking"
    /\ UNCHANGED <<cur_slot, passed>>

(* Variant with a slip: the wheel does not wrap around.                    *)
NextSlotUnwrapped == cur_slot + 1

NextSlot == (cur_slot + 1) % N

TickEnd ==
    /\ pc = "ticking"
    /\ tmp = NULL
    /\ cur_slot' = NextSlot
    /\ pc' = "idle"
    /\ passed' = {}
    /\ UNCHANGED <<heap, tmp>>

-----------------------------------------------------------------------------
(* ~time_wheel(): the slots in order, each list from its head.             *)
CloseBegin ==
    /\ pc = "idle"
    /\ pc' = "closing"
    /\ UNCHANGED <<heap, cur_slot, tmp, passed>>

CloseFree ==
    /\ pc = "closing"
    /\ \E s \in Slots :
        /\ slots[s] # NULL
        /\ \A r \in 0 .. s - 1 : slots[r] = NULL
        /\ slots' = [slots EXCEPT ![s] = next[slots[s]]]
        /\ FreeFields(slots[s])
        /\ next' = [next EXCEPT ![slots[s]] = NULL]
        /\ prev' = [prev EXCEPT ![slots[s]] = NULL]
    /\ UNCHANGED <<cur_slot, tmp, pc, passed>>

CloseEnd ==
    /\ pc = "closing"
    /\ \A s \in Slots : slots[s] = NULL
    /\ pc' = "closed"
    /\ UNCHANGED <<heap, cur_slot, tmp, passed>>

-----------------------------------------------------------------------------
Tick == TickBegin \/ TickSkip \/ TickFire \/ TickRemove \/ TickEnd

Next ==
    \/ \E timeout \in Timeouts : AddTimer(timeout)
    \/ \E t \in Timers : DeleteTimer(t)
    \/ Tick
    \/ CloseBegin \/ CloseFree \/ CloseEnd

Spec == Init /\ [][Next]_vars

(* Once begun, tick() runs on: it is straight-line code on one thread, and *)
(* each callback returns.  Nothing obliges a caller to call.               *)
FairSpec ==
    /\ Spec
    /\ WF_vars(TickSkip) /\ WF_vars(TickFire) /\ WF_vars(TickRemove) /\ WF_vars(TickEnd)

-----------------------------------------------------------------------------
TypeOK ==
    /\ alive \in SUBSET Timers
    /\ rotation \in [Timers -> Nat]
    /\ time_slot \in [Timers -> Slots]
    /\ next \in [Timers -> Ptr]
    /\ prev \in [Timers -> Ptr]
    /\ slots \in [Slots -> Ptr]
    /\ cur_slot \in Slots
    /\ tmp \in Ptr
    /\ pc \in {"idle", "ticking", "firing", "closing", "closed"}
    /\ passed \in SUBSET Timers

(* A head is a live timer of its slot with nothing before it.              *)
HeadsOK ==
    \A s \in Slots : slots[s] # NULL =>
        /\ slots[s] \in alive
        /\ time_slot[slots[s]] = s
        /\ prev[slots[s]] = NULL

(* Neighbours are live timers of the same slot and point at each other; a  *)
(* timer with nothing before it is the head of its slot.                   *)
NeighboursOK ==
    \A t \in alive :
        /\ prev[t] = NULL => slots[time_slot[t]] = t
        /\ prev[t] # NULL => /\ prev[t] \in alive
                             /\ next[prev[t]] = t
                             /\ time_slot[prev[t]] = time_slot[t]
        /\ next[t] # NULL => /\ next[t] \in alive
                             /\ prev[next[t]] = t
                             /\ time_slot[next[t]] = time_slot[t]

(* The pointer tick() holds across a callback is a live timer of the slot  *)
(* it is visiting.                                                         *)
CursorOK ==
    /\ tmp # NULL => tmp \in alive /\ time_slot[tmp] = cur_slot
    /\ pc = "firing" => tmp # NULL
    /\ pc \notin {"ticking", "firing"} => tmp = NULL

(* Whatever callbacks add and delete while tick() walks a list, no pointer *)
(* of the wheel, nor the one tick() keeps over the callback of line 82,    *)
(* reaches a freed timer, and the lists stay doubly linked.  The           *)
(* destructor takes the lists apart without keeping prev up to date.       *)
LinksOK == pc \notin {"closing", "closed"} => HeadsOK /\ NeighboursOK /\ CursorOK

(* tick() comes to an end although the callbacks it runs may arm timers in *)
(* the very slot it is walking.                                            *)
TickTerminates == (pc = "ticking") ~> (pc = "idle")

(* The ticks that must still complete before a tick fires t.               *)
Remaining(t) ==
    IF t \in passed THEN (rotation[t] + 1) * N
    ELSE (rotation[t] * N) + ((time_slot[t] - cur_slot) % N)

Countdown == INSTANCE CountdownTimers WITH
    Durations <- {Ticks(timeout) : timeout \in 0 .. MaxTimeout},
    left <- [t \in Timers |-> IF t \in alive THEN Remaining(t) ELSE -1],
    phase <- pc,
    firing <- IF pc = "firing" THEN tmp ELSE NULL

(* The wheel keeps the promise of CountdownTimers: every timer fires in    *)
(* the tick its timeout asks for, never earlier and never later, exactly   *)
(* once unless it is cancelled, and the destructor frees every timer.      *)
KeepsCountdown == Countdown!Spec

=============================================================================
