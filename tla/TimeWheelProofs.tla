-------------------------- MODULE TimeWheelProofs --------------------------
(***************************************************************************)
(* The links of the time wheel stay sound for every number of slots and    *)
(* timers, every timeout, and every nesting of calls in callbacks.         *)
(***************************************************************************)
EXTENDS TimeWheel, TLAPS

(* A remainder by the number of slots is a slot.                           *)
LEMMA RemainderIsSlot ==
    ASSUME NEW i \in Int
    PROVE  i % N \in Slots
BY WheelAssumption DEF Slots

(* What the numbers add_timer computes range over.                         *)
LEMMA AddTimerNumbers ==
    ASSUME NEW timeout \in Timeouts, timeout >= 0, cur_slot \in Slots
    PROVE  /\ Rotation(Ticks(timeout)) \in Nat
           /\ SlotFor(Ticks(timeout)) \in Slots
<1>1. Ticks(timeout) \in Nat
  BY WheelAssumption DEF Ticks, Timeouts
<1>2. Ticks(timeout) % N \in Nat
  BY <1>1, RemainderIsSlot DEF Slots
<1>3. SlotFor(Ticks(timeout)) \in Slots
  BY <1>2, RemainderIsSlot DEF SlotFor, Slots
<1>4. Rotation(Ticks(timeout)) \in Nat
  BY <1>1, WheelAssumption DEF Rotation
<1>5. QED BY <1>3, <1>4

-----------------------------------------------------------------------------
(* Typing is inductive only together with this: a callback runs for a      *)
(* timer, so tick() unlinks one.                                           *)
Typed == TypeOK /\ (pc = "firing" => tmp # NULL)

LEMMA UnlinkTyping ==
    ASSUME TypeOK, NEW t \in Timers, NEW s \in Slots, Unlink(t, s)
    PROVE  /\ alive' \in SUBSET Timers
           /\ rotation' \in [Timers -> Nat]
           /\ time_slot' \in [Timers -> Slots]
           /\ next' \in [Timers -> Ptr]
           /\ prev' \in [Timers -> Ptr]
           /\ slots' \in [Slots -> Ptr]
<1>1. next[t] \in Ptr /\ prev[t] \in Ptr /\ NULL \in Ptr
  BY DEF TypeOK, Ptr
<1>2. 0 \in Slots
  BY WheelAssumption DEF Slots
<1>3. /\ alive' \in SUBSET Timers
      /\ rotation' \in [Timers -> Nat]
      /\ time_slot' \in [Timers -> Slots]
  BY <1>2 DEF Unlink, FreeFields, TypeOK
<1>4. slots' \in [Slots -> Ptr]
  BY <1>1 DEF Unlink, TypeOK
<1>5. next' \in [Timers -> Ptr]
  BY <1>1 DEF Unlink, TypeOK
<1>6. prev' \in [Timers -> Ptr]
  <2>1. CASE t = slots[s]
    BY <1>1, <2>1 DEF Unlink, TypeOK
  <2>2. CASE t # slots[s]
    BY <1>1, <2>2 DEF Unlink, TypeOK
  <2>3. QED BY <2>1, <2>2
<1>7. QED BY <1>3, <1>4, <1>5, <1>6

LEMMA TypingNext == Typed /\ [Next]_vars => Typed'
<1> SUFFICES ASSUME Typed, [Next]_vars
             PROVE  Typed'
  OBVIOUS
<1> USE DEF Typed, TypeOK
<1>1. ASSUME NEW timeout \in Timeouts, AddTimer(timeout)
      PROVE  Typed'
  <2>1. CASE timeout < 0
    BY <1>1, <2>1 DEF AddTimer, heap, Timeouts
  <2>2. CASE timeout >= 0
    BY <1>1, <2>2, AddTimerNumbers DEF AddTimer, PushFront, Ptr, Timeouts
  <2>3. QED BY <2>1, <2>2 DEF Timeouts
<1>2. ASSUME NEW t \in Timers, DeleteTimer(t)
      PROVE  Typed'
  BY <1>2, UnlinkTyping DEF DeleteTimer
<1>3. CASE TickBegin
  BY <1>3 DEF TickBegin, heap
<1>4. CASE TickSkip
  BY <1>4 DEF TickSkip, Ptr
<1>5. CASE TickFire
  BY <1>5 DEF TickFire, heap
<1>6. CASE TickRemove
  <2>1. tmp \in Timers
    BY <1>6 DEF TickRemove, Ptr
  <2>2. QED BY <1>6, <2>1, UnlinkTyping DEF TickRemove
<1>7. CASE TickEnd
  <2>1. cur_slot + 1 \in Int
    BY WheelAssumption DEF Slots
  <2>2. NextSlot \in Slots
    BY <2>1, RemainderIsSlot DEF NextSlot
  <2>3. QED BY <1>7, <2>2 DEF TickEnd, heap
<1>8. CASE CloseBegin
  BY <1>8 DEF CloseBegin, heap
<1>9. CASE CloseFree
  <2>1. PICK s \in Slots :
          /\ slots[s] \in Timers
          /\ slots' = [slots EXCEPT ![s] = next[slots[s]]]
          /\ FreeFields(slots[s])
          /\ next' = [next EXCEPT ![slots[s]] = NULL]
          /\ prev' = [prev EXCEPT ![slots[s]] = NULL]
    BY <1>9 DEF CloseFree, Ptr
  <2>2. 0 \in Slots
    BY WheelAssumption DEF Slots
  <2>3. next[slots[s]] \in Ptr /\ NULL \in Ptr
    BY <2>1 DEF Ptr
  <2>4. /\ alive' \in SUBSET Timers
        /\ rotation' \in [Timers -> Nat]
        /\ time_slot' \in [Timers -> Slots]
    BY <2>1, <2>2 DEF FreeFields
  <2>5. /\ next' \in [Timers -> Ptr]
        /\ prev' \in [Timers -> Ptr]
        /\ slots' \in [Slots -> Ptr]
    BY <2>1, <2>3
  <2>6. QED BY <1>9, <2>4, <2>5 DEF CloseFree
<1>10. CASE CloseEnd
  BY <1>10 DEF CloseEnd, heap
<1>11. CASE UNCHANGED vars
  BY <1>11 DEF vars
<1>12. QED
  BY <1>1, <1>2, <1>3, <1>4, <1>5, <1>6, <1>7, <1>8, <1>9, <1>10, <1>11
  DEF Next, Tick

LEMMA TypedAlways == Spec => []Typed
<1>1. Init => Typed
  BY WheelAssumption DEF Init, Typed, TypeOK, Slots, Ptr
<1>2. QED BY <1>1, TypingNext, PTL DEF Spec

(* Every variable of the wheel keeps its type.                             *)
THEOREM TypeCorrect == Spec => []TypeOK
<1>1. Typed => TypeOK
  BY DEF Typed
<1>2. QED BY <1>1, TypedAlways, PTL

-----------------------------------------------------------------------------
(* HeadsOK and NeighboursOK look at one link at a time and would allow a   *)
(* ring of timers, in which unlinking one leaves tick() with a freed       *)
(* cursor.  There is no ring: some rank descends along next.               *)
Descends(rank) == \A t \in alive : next[t] # NULL => rank[next[t]] < rank[t]

Acyclic == \E rank \in [Timers -> Int] : Descends(rank)

LinksInv == pc \notin {"closing", "closed"} =>
               HeadsOK /\ NeighboursOK /\ CursorOK /\ Acyclic

(* Inserting a fresh timer at the head of a slot.                          *)
LEMMA PushKeepsLists ==
    ASSUME TypeOK, HeadsOK, NeighboursOK,
           NEW t \in Timers \ alive, NEW s \in Slots,
           PushFront(t, s),
           alive' = alive \cup {t},
           time_slot' = [time_slot EXCEPT ![t] = s]
    PROVE  HeadsOK' /\ NeighboursOK'
<1> USE DEF TypeOK, PushFront
<1>1. HeadsOK'
  BY WheelAssumption DEF HeadsOK, Ptr
<1>2. ASSUME NEW x \in alive', x = t
      PROVE  /\ prev'[x] = NULL
             /\ slots'[time_slot'[x]] = x
             /\ next'[x] # NULL => /\ next'[x] \in alive'
                                   /\ prev'[next'[x]] = x
                                   /\ time_slot'[next'[x]] = time_slot'[x]
  BY <1>2, WheelAssumption DEF HeadsOK, Ptr
<1>3. ASSUME NEW x \in alive, prev'[x] = NULL
      PROVE  slots'[time_slot'[x]] = x
  BY <1>3, WheelAssumption DEF HeadsOK, NeighboursOK, Ptr
<1>4. ASSUME NEW x \in alive, prev'[x] # NULL
      PROVE  /\ prev'[x] \in alive'
             /\ next'[prev'[x]] = x
             /\ time_slot'[prev'[x]] = time_slot'[x]
  <2>1. CASE x = slots[s]
    BY <2>1, WheelAssumption DEF HeadsOK, Ptr
  <2>2. CASE x # slots[s]
    BY <1>4, <2>2, WheelAssumption DEF NeighboursOK, Ptr
  <2>3. QED BY <2>1, <2>2
<1>5. ASSUME NEW x \in alive, next'[x] # NULL
      PROVE  /\ next'[x] \in alive'
             /\ prev'[next'[x]] = x
             /\ time_slot'[next'[x]] = time_slot'[x]
  BY <1>5, WheelAssumption DEF HeadsOK, NeighboursOK, Ptr
<1>6. NeighboursOK'
  BY <1>2, <1>3, <1>4, <1>5 DEF NeighboursOK
<1>7. QED BY <1>1, <1>6

(* Unlinking a live timer from the slot it hashes to.                      *)
LEMMA UnlinkKeepsLists ==
    ASSUME TypeOK, HeadsOK, NeighboursOK,
           NEW t \in alive, Unlink(t, time_slot[t])
    PROVE  HeadsOK' /\ NeighboursOK'
<1> USE DEF TypeOK
<1>0. /\ alive' = alive \ {t}
      /\ \A x \in alive' : x # t /\ x \in alive /\ time_slot'[x] = time_slot[x]
  BY DEF Unlink, FreeFields
<1>1. CASE t = slots[time_slot[t]]
  <2>1. /\ prev[t] = NULL
        /\ slots' = [slots EXCEPT ![time_slot[t]] = next[t]]
        /\ \A x \in alive' : next'[x] = next[x]
        /\ \A x \in alive' : prev'[x] = IF x = next[t] THEN NULL ELSE prev[x]
    BY <1>0, <1>1, WheelAssumption DEF HeadsOK, Unlink, Ptr
  <2>2. next[t] # t
    BY <2>1, WheelAssumption DEF NeighboursOK, Ptr
  <2>3. HeadsOK'
    BY <1>0, <1>1, <2>1, <2>2, WheelAssumption DEF HeadsOK, NeighboursOK, Ptr
  <2>4. NeighboursOK'
    BY <1>0, <1>1, <2>1, <2>2, WheelAssumption DEF HeadsOK, NeighboursOK, Ptr
  <2>5. QED BY <2>3, <2>4
<1>2. CASE t # slots[time_slot[t]]
  <2>1. /\ prev[t] \in alive
        /\ slots' = slots
        /\ \A x \in alive' : next'[x] = IF x = prev[t] THEN next[t] ELSE next[x]
        /\ \A x \in alive' : prev'[x] = IF x = next[t] THEN prev[t] ELSE prev[x]
    BY <1>0, <1>2, WheelAssumption DEF NeighboursOK, Unlink, Ptr
  <2>2. HeadsOK'
    BY <1>0, <1>2, <2>1, WheelAssumption DEF HeadsOK, NeighboursOK, Ptr
  <2>3. NeighboursOK'
    BY <1>0, <1>2, <2>1, WheelAssumption DEF HeadsOK, NeighboursOK, Ptr
  <2>4. QED BY <2>2, <2>3
<1>3. QED BY <1>1, <1>2

LEMMA PushKeepsAcyclic ==
    ASSUME TypeOK, HeadsOK, NeighboursOK, Acyclic,
           NEW t \in Timers \ alive, NEW s \in Slots,
           PushFront(t, s),
           alive' = alive \cup {t}
    PROVE  Acyclic'
<1>1. PICK rank \in [Timers -> Int] : Descends(rank)
  BY DEF Acyclic
<1>2. PICK top \in Int : slots[s] # NULL => rank[slots[s]] < top
  <2>1. CASE slots[s] = NULL
    BY <2>1
  <2>2. CASE slots[s] # NULL
    <3>1. rank[slots[s]] \in Int
      BY <1>1, <2>2 DEF TypeOK, Ptr
    <3>2. rank[slots[s]] + 1 \in Int /\ rank[slots[s]] < rank[slots[s]] + 1
      BY <3>1
    <3>3. QED BY <3>2
  <2>3. QED BY <2>1, <2>2
<1> DEFINE higher == [rank EXCEPT ![t] = top]
<1>3. higher \in [Timers -> Int]
  BY <1>1, <1>2
<1>4. ASSUME NEW x \in alive', next'[x] # NULL
      PROVE  higher[next'[x]] < higher[x]
  <2>1. CASE x = t
    BY <1>1, <1>2, <1>4, <2>1 DEF TypeOK, PushFront, HeadsOK
  <2>2. CASE x # t
    BY <1>1, <1>4, <2>2 DEF TypeOK, PushFront, NeighboursOK, Descends
  <2>3. QED BY <2>1, <2>2
<1>5. QED BY <1>3, <1>4 DEF Acyclic, Descends

LEMMA UnlinkKeepsAcyclic ==
    ASSUME TypeOK, HeadsOK, NeighboursOK, Acyclic,
           NEW t \in alive, Unlink(t, time_slot[t])
    PROVE  Acyclic'
<1>1. PICK rank \in [Timers -> Int] : Descends(rank)
  BY DEF Acyclic
<1>2. alive' = alive \ {t}
  BY DEF Unlink, FreeFields
<1>3. ASSUME NEW x \in alive', next'[x] # NULL
      PROVE  rank[next'[x]] < rank[x]
  <2>0. next[x] # NULL => rank[next[x]] < rank[x]
    BY <1>1, <1>2 DEF Descends
  <2>1. CASE t = slots[time_slot[t]] \/ x # prev[t]
    BY <1>2, <1>3, <2>0, <2>1 DEF Unlink, TypeOK
  <2>2. CASE t # slots[time_slot[t]] /\ x = prev[t]
    <3>1. next'[x] = next[t] /\ next[x] = t
      BY <1>2, <2>2, WheelAssumption DEF Unlink, TypeOK, NeighboursOK
    <3>2. rank[t] < rank[x] /\ rank[next[t]] < rank[t]
      BY <1>1, <1>3, <2>0, <3>1, WheelAssumption DEF Descends, TypeOK
    <3>3. next[t] \in Timers /\ t \in Timers /\ x \in Timers
      BY <1>2, <1>3, <3>1 DEF TypeOK, Ptr
    <3>4. QED BY <1>1, <3>1, <3>2, <3>3
  <2>3. QED BY <2>1, <2>2
<1>4. QED BY <1>1, <1>3 DEF Acyclic, Descends

LEMMA LinksNext == Typed /\ LinksInv /\ [Next]_vars => LinksInv'
<1> SUFFICES ASSUME Typed, LinksInv, [Next]_vars
             PROVE  LinksInv'
  OBVIOUS
<1> USE DEF Typed, LinksInv
<1>1. ASSUME NEW timeout \in Timeouts, AddTimer(timeout)
      PROVE  LinksInv'
  <2>0. HeadsOK /\ NeighboursOK /\ CursorOK /\ Acyclic
    BY <1>1 DEF AddTimer
  <2>1. CASE timeout < 0
    BY <1>1, <2>0, <2>1 DEF AddTimer, heap, HeadsOK, NeighboursOK, CursorOK, Acyclic, Descends, Timeouts
  <2>2. CASE timeout >= 0
    <3>1. PICK t \in Timers \ alive, s \in Slots :
            /\ PushFront(t, s)
            /\ alive' = alive \cup {t}
            /\ time_slot' = [time_slot EXCEPT ![t] = s]
      BY <1>1, <2>2, AddTimerNumbers DEF AddTimer, Timeouts, TypeOK
    <3>2. HeadsOK' /\ NeighboursOK'
      BY <2>0, <3>1, PushKeepsLists
    <3>3. CursorOK'
      BY <1>1, <2>0, <3>1 DEF AddTimer, CursorOK, TypeOK
    <3>4. Acyclic'
      BY <2>0, <3>1, PushKeepsAcyclic
    <3>5. QED BY <3>2, <3>3, <3>4
  <2>3. QED BY <2>1, <2>2 DEF Timeouts
<1>2. ASSUME NEW t \in Timers, DeleteTimer(t)
      PROVE  LinksInv'
  <2>1. /\ HeadsOK /\ NeighboursOK /\ CursorOK /\ Acyclic
        /\ t \in alive /\ t # tmp
        /\ Unlink(t, time_slot[t])
    BY <1>2, WheelAssumption DEF DeleteTimer, CursorOK
  <2>2. HeadsOK' /\ NeighboursOK'
    BY <2>1, UnlinkKeepsLists
  <2>3. CursorOK'
    BY <1>2, <2>1 DEF DeleteTimer, Unlink, FreeFields, CursorOK, TypeOK
  <2>4. Acyclic'
    BY <2>1, UnlinkKeepsAcyclic
  <2>5. QED BY <2>2, <2>3, <2>4
<1>3. CASE TickBegin
  BY <1>3 DEF TickBegin, heap, HeadsOK, NeighboursOK, CursorOK, Acyclic, Descends, TypeOK
<1>4. CASE TickSkip
  BY <1>4 DEF TickSkip, HeadsOK, NeighboursOK, CursorOK, Acyclic, Descends, TypeOK
<1>5. CASE TickFire
  BY <1>5 DEF TickFire, heap, HeadsOK, NeighboursOK, CursorOK, Acyclic, Descends, TypeOK
<1>6. CASE TickRemove
  <2>1. /\ HeadsOK /\ NeighboursOK /\ Acyclic
        /\ tmp \in alive /\ time_slot[tmp] = cur_slot
        /\ Unlink(tmp, time_slot[tmp])
    BY <1>6 DEF TickRemove, CursorOK
  <2>2. HeadsOK' /\ NeighboursOK'
    BY <2>1, UnlinkKeepsLists
  <2>3. tmp' # NULL => tmp' \in alive /\ tmp' # tmp /\ time_slot[tmp'] = cur_slot
    <3>1. PICK rank \in [Timers -> Int] : Descends(rank)
      BY <2>1 DEF Acyclic
    <3>2. next[tmp] # NULL => next[tmp] # tmp
      BY <2>1, <3>1 DEF Descends, TypeOK
    <3>3. QED BY <1>6, <2>1, <3>2 DEF TickRemove, NeighboursOK, Unlink, FreeFields
  <2>4. CursorOK'
    BY <1>6, <2>1, <2>3 DEF TickRemove, Unlink, FreeFields, CursorOK, TypeOK
  <2>5. Acyclic'
    BY <2>1, UnlinkKeepsAcyclic
  <2>6. QED BY <2>2, <2>4, <2>5
<1>7. CASE TickEnd
  BY <1>7 DEF TickEnd, heap, HeadsOK, NeighboursOK, CursorOK, Acyclic, Descends
<1>8. CASE CloseBegin \/ CloseFree \/ CloseEnd
  BY <1>8 DEF CloseBegin, CloseFree, CloseEnd
<1>9. CASE UNCHANGED vars
  BY <1>9 DEF vars, HeadsOK, NeighboursOK, CursorOK, Acyclic, Descends
<1>10. QED
  BY <1>1, <1>2, <1>3, <1>4, <1>5, <1>6, <1>7, <1>8, <1>9 DEF Next, Tick

LEMMA LinksAlways == Spec => []LinksInv
<1>1. Init => LinksInv
  <2>1. SUFFICES ASSUME Init PROVE LinksInv
    OBVIOUS
  <2>2. [t \in Timers |-> 0] \in [Timers -> Int]
    OBVIOUS
  <2>3. Acyclic
    BY <2>1, <2>2 DEF Init, Acyclic, Descends
  <2>4. QED BY <2>1, <2>3 DEF Init, LinksInv, HeadsOK, NeighboursOK, CursorOK
<1>2. QED BY <1>1, TypedAlways, LinksNext, PTL DEF Spec

(* No pointer of the wheel reaches a freed timer, whatever the callbacks   *)
(* tick() runs add and delete: the property LinksOK, in every behaviour.   *)
THEOREM LinksCorrect == Spec => []LinksOK
<1>1. LinksInv => LinksOK
  BY DEF LinksInv, LinksOK
<1>2. QED BY <1>1, LinksAlways, PTL

=============================================================================
