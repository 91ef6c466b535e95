------------------------ MODULE TimeWheelRefinement ------------------------
(***************************************************************************)
(* The wheel implements CountdownTimers, for every number of slots and     *)
(* timers and every nesting of calls in callbacks.                         *)
(***************************************************************************)
EXTENDS TimeWheelProofs

(* The lists read forwards, which holds in the destructor as well: heads   *)
(* and successors are live timers of the slot, and a rank falls along      *)
(* next.                                                                   *)
Forward(rank) ==
    /\ \A s \in Slots : slots[s] # NULL => slots[s] \in alive /\ time_slot[slots[s]] = s
    /\ \A t \in alive : next[t] # NULL =>
          next[t] \in alive /\ time_slot[next[t]] = time_slot[t] /\ rank[next[t]] < rank[t]

(* Each slot has one list: next is the timer of the slot with the next     *)
(* lower rank, and the head has the highest.                               *)
Ordered(rank) ==
    /\ \A t, u \in alive : time_slot[t] = time_slot[u] /\ rank[t] = rank[u] => t = u
    /\ \A t, u \in alive : time_slot[t] = time_slot[u] /\ rank[u] < rank[t] =>
          next[t] # NULL /\ rank[u] <= rank[next[t]]
    /\ \A t \in alive : slots[time_slot[t]] # NULL /\ rank[t] <= rank[slots[time_slot[t]]]

(* tick() has behind it the timers of the slot that rank above tmp, all of *)
(* them at the end; the callback it runs is due.                           *)
Walk(rank) ==
    /\ passed \subseteq alive
    /\ pc \notin {"ticking", "firing"} => passed = {}
    /\ pc \in {"ticking", "firing"} => \A t \in alive :
          t \in passed <=> time_slot[t] = cur_slot /\ (tmp # NULL => rank[tmp] < rank[t])
    /\ pc = "firing" => rotation[tmp] = 0

WalkInv == \E rank \in [Timers -> Int] : Forward(rank) /\ Ordered(rank) /\ Walk(rank)

(* A timer pushed to the front ranks above all others of its slot.         *)
LEMMA PushKeepsOrder ==
    ASSUME TypeOK, NEW rank \in [Timers -> Int], Forward(rank), Ordered(rank),
           NEW t \in Timers \ alive, NEW s \in Slots, PushFront(t, s),
           alive' = alive \cup {t}, time_slot' = [time_slot EXCEPT ![t] = s]
    PROVE  \E top \in Int :
              /\ \A x \in alive : time_slot[x] = s => rank[x] < top
              /\ Forward([rank EXCEPT ![t] = top])'
              /\ Ordered([rank EXCEPT ![t] = top])'
<1> USE DEF TypeOK
<1>1. PICK top \in Int : \A x \in alive : time_slot[x] = s => rank[x] < top
  <2>1. CASE slots[s] = NULL
    BY <2>1 DEF Ordered
  <2>2. CASE slots[s] # NULL
    <3>1. rank[slots[s]] \in Int /\ rank[slots[s]] + 1 \in Int
      BY <2>2 DEF Forward
    <3>2. \A x \in alive : time_slot[x] = s => rank[x] < rank[slots[s]] + 1
      BY <3>1 DEF Ordered
    <3> QED BY <3>1, <3>2
  <2> QED BY <2>1, <2>2
<1> DEFINE higher == [rank EXCEPT ![t] = top]
<1>2. /\ higher[t] = top /\ \A x \in alive : higher[x] = rank[x] /\ rank[x] \in Int
      /\ next'[t] = slots[s] /\ \A x \in alive : next'[x] = next[x]
      /\ slots'[s] = t /\ \A r \in Slots \ {s} : slots'[r] = slots[r]
      /\ time_slot'[t] = s /\ \A x \in alive : time_slot'[x] = time_slot[x] /\ time_slot[x] \in Slots
  BY DEF PushFront
<1> HIDE DEF higher
<1>3. Forward(higher)'
  BY <1>1, <1>2 DEF Forward
<1>4. ASSUME NEW x \in alive', NEW y \in alive', time_slot'[x] = time_slot'[y]
      PROVE  /\ higher[x] = higher[y] => x = y
             /\ higher[y] < higher[x] => next'[x] # NULL /\ higher[y] <= higher[next'[x]]
  <2>1. CASE x = t /\ y # t
    BY <1>1, <1>2, <1>4, <2>1 DEF Forward, Ordered
  <2>2. CASE x # t /\ y = t
    BY <1>1, <1>2, <1>4, <2>2
  <2>3. CASE x # t /\ y # t
    BY <1>2, <1>4, <2>3 DEF Forward, Ordered
  <2> QED BY <1>2, <2>1, <2>2, <2>3
<1>5. ASSUME NEW x \in alive'
      PROVE  slots'[time_slot'[x]] # NULL /\ higher[x] <= higher[slots'[time_slot'[x]]]
  <2>1. CASE time_slot'[x] = s
    BY <1>1, <1>2, <2>1, WheelAssumption
  <2>2. CASE time_slot'[x] # s
    BY <1>2, <2>2 DEF Forward, Ordered
  <2> QED BY <2>1, <2>2
<1> QED BY <1>1, <1>3, <1>4, <1>5 DEF Ordered, higher

(* Unlinking leaves the order of the others as it was.                     *)
LEMMA UnlinkKeepsOrder ==
    ASSUME TypeOK, HeadsOK, NeighboursOK,
           NEW rank \in [Timers -> Int], Forward(rank), Ordered(rank),
           NEW t \in alive, Unlink(t, time_slot[t])
    PROVE  Forward(rank)' /\ Ordered(rank)'
<1> USE DEF TypeOK
<1>1. /\ alive' = alive \ {t} /\ alive \subseteq Timers
      /\ \A x \in alive' : time_slot'[x] = time_slot[x] /\ rank[x] \in Int /\ time_slot[x] \in Slots
      /\ rank[t] \in Int /\ time_slot[t] \in Slots
  BY DEF Unlink, FreeFields
<1>2. CASE t = slots[time_slot[t]]
  <2>1. /\ slots' = [slots EXCEPT ![time_slot[t]] = next[t]]
        /\ \A x \in alive' : next'[x] = next[x] /\ next[x] # t
    BY <1>1, <1>2, WheelAssumption DEF HeadsOK, NeighboursOK, Unlink
  <2>2. Forward(rank)'
    BY <1>1, <1>2, <2>1 DEF Forward
  <2>3. ASSUME NEW x \in alive', time_slot[x] = time_slot[t]
        PROVE  next[t] # NULL /\ rank[x] <= rank[next[t]]
    <3>1. rank[x] < rank[t]
      BY <1>1, <1>2, <2>3 DEF Ordered
    <3> QED BY <1>1, <2>3, <3>1 DEF Ordered
  <2>4. Ordered(rank)'
    BY <1>1, <2>1, <2>3 DEF Ordered
  <2> QED BY <2>2, <2>4
<1>3. CASE t # slots[time_slot[t]]
  <2>1. /\ prev[t] \in alive' /\ next[prev[t]] = t /\ time_slot[prev[t]] = time_slot[t]
        /\ rank[t] < rank[prev[t]]
        /\ slots' = slots /\ \A s \in Slots : slots[s] # t
        /\ next'[prev[t]] = next[t]
        /\ \A x \in alive' : x # prev[t] => next'[x] = next[x] /\ next[x] # t
    BY <1>1, <1>3, WheelAssumption DEF NeighboursOK, Forward, Unlink
  <2>2. next[t] # NULL => next[t] \in alive' /\ rank[next[t]] < rank[t] /\ rank[next[t]] \in Int
    BY <1>1 DEF Forward
  <2>3. Forward(rank)'
    BY <1>1, <1>3, <2>1, <2>2 DEF Forward
  <2>4. ASSUME NEW x \in alive', NEW y \in alive', time_slot[x] = time_slot[y], rank[y] < rank[x]
        PROVE  next'[x] # NULL /\ rank[y] <= rank[next'[x]]
    <3>1. CASE x = prev[t]
      <4>1. rank[y] <= rank[t] /\ y # t
        BY <1>1, <2>1, <2>4, <3>1 DEF Ordered
      <4>2. rank[y] < rank[t]
        BY <1>1, <2>1, <2>4, <3>1, <4>1 DEF Ordered
      <4> QED BY <1>1, <2>1, <2>4, <3>1, <4>2 DEF Ordered
    <3>2. CASE x # prev[t]
      BY <1>1, <2>1, <2>4, <3>2 DEF Ordered
    <3> QED BY <3>1, <3>2
  <2>5. Ordered(rank)'
    BY <1>1, <2>1, <2>4 DEF Ordered
  <2> QED BY <2>3, <2>5
<1> QED BY <1>2, <1>3

(* The destructor takes the head of a list off.                            *)
LEMMA FreeKeepsOrder ==
    ASSUME TypeOK, NEW rank \in [Timers -> Int], Forward(rank), Ordered(rank), CloseFree
    PROVE  \E h \in alive : /\ alive' = alive \ {h}
                            /\ \A x \in alive' : /\ time_slot'[x] = time_slot[x]
                                                 /\ rotation'[x] = rotation[x]
                            /\ Forward(rank)' /\ Ordered(rank)'
<1> USE DEF TypeOK
<1>1. PICK s \in Slots :
        /\ slots[s] # NULL
        /\ slots' = [slots EXCEPT ![s] = next[slots[s]]]
        /\ FreeFields(slots[s])
        /\ next' = [next EXCEPT ![slots[s]] = NULL]
  BY DEF CloseFree
<1> DEFINE h == slots[s]
<1>2. h \in alive /\ time_slot[h] = s /\ rank[h] \in Int
  BY <1>1 DEF Forward
<1>3. /\ alive' = alive \ {h}
      /\ \A x \in alive' : /\ time_slot'[x] = time_slot[x] /\ rotation'[x] = rotation[x]
                           /\ next'[x] = next[x] /\ rank[x] \in Int /\ time_slot[x] \in Slots
  BY <1>1, <1>2 DEF FreeFields
<1>4. \A x \in alive' : next[x] # h
  BY <1>2, <1>3, WheelAssumption DEF Forward, Ordered
<1> HIDE DEF h
<1>5. slots' = [slots EXCEPT ![s] = next[h]]
  BY <1>1 DEF h
<1>6. Forward(rank)'
  BY <1>2, <1>3, <1>4, <1>5 DEF Forward
<1>7. ASSUME NEW x \in alive', time_slot[x] = s
      PROVE  next[h] # NULL /\ rank[x] <= rank[next[h]]
  <2>1. rank[x] < rank[h]
    BY <1>2, <1>3, <1>7 DEF Ordered, h
  <2> QED BY <1>2, <1>3, <1>7, <2>1 DEF Ordered
<1>8. Ordered(rank)'
  BY <1>3, <1>5, <1>7 DEF Ordered
<1> QED BY <1>2, <1>3, <1>6, <1>8

-----------------------------------------------------------------------------
(* The order and the walk survive every action: callbacks push above tmp,  *)
(* and tick() steps from tmp to the next lower rank.                       *)
LEMMA WalkNext == Typed /\ LinksInv /\ WalkInv /\ [Next]_vars => WalkInv'
<1> SUFFICES ASSUME Typed, LinksInv, WalkInv, [Next]_vars
             PROVE  WalkInv'
  OBVIOUS
<1> PICK rank \in [Timers -> Int] : Forward(rank) /\ Ordered(rank) /\ Walk(rank)
  BY DEF WalkInv
<1>0. TypeOK /\ (pc = "firing" => tmp # NULL)
  BY DEF Typed
<1> SUFFICES \E r \in [Timers -> Int] : (Forward(r) /\ Ordered(r) /\ Walk(r))'
  BY DEF WalkInv, Forward, Ordered, Walk
<1>1. ASSUME NEW timeout \in Timeouts, AddTimer(timeout)
      PROVE  \E r \in [Timers -> Int] : (Forward(r) /\ Ordered(r) /\ Walk(r))'
  <2>1. CASE timeout < 0
    BY <1>1, <2>1 DEF AddTimer, heap, Forward, Ordered, Walk, Timeouts
  <2>2. CASE timeout >= 0
    <3>1. PICK t \in Timers \ alive, s \in Slots :
            /\ PushFront(t, s)
            /\ alive' = alive \cup {t}
            /\ rotation' = [rotation EXCEPT ![t] = Rotation(Ticks(timeout))]
            /\ time_slot' = [time_slot EXCEPT ![t] = s]
            /\ passed' = IF pc = "firing" /\ s = cur_slot THEN passed \cup {t} ELSE passed
            /\ pc' = pc /\ tmp' = tmp /\ cur_slot' = cur_slot
            /\ pc \in {"idle", "firing"}
      BY <1>1, <2>2, AddTimerNumbers, <1>0 DEF AddTimer, Timeouts, TypeOK
    <3>2. PICK top \in Int :
            /\ \A x \in alive : time_slot[x] = s => rank[x] < top
            /\ Forward([rank EXCEPT ![t] = top])'
            /\ Ordered([rank EXCEPT ![t] = top])'
      BY <1>0, <3>1, PushKeepsOrder
    <3> DEFINE higher == [rank EXCEPT ![t] = top]
    <3>3. /\ higher[t] = top
          /\ \A x \in alive : /\ higher[x] = rank[x]
                               /\ time_slot'[x] = time_slot[x]
                               /\ rotation'[x] = rotation[x]
          /\ time_slot'[t] = s
      BY <1>0, <3>1 DEF TypeOK
    <3>4. higher \in [Timers -> Int]
      BY <3>1
    <3>5. Forward(higher)' /\ Ordered(higher)'
      BY <3>2
    <3> HIDE DEF higher
    <3>6. pc = "firing" => tmp \in alive /\ time_slot[tmp] = cur_slot
      BY <1>0, <3>1 DEF LinksInv, CursorOK
    <3>7. Walk(higher)'
      <4>1. passed' \subseteq alive'
        BY <3>1 DEF Walk
      <4>2. CASE pc = "idle"
        BY <3>1, <4>1, <4>2 DEF Walk
      <4>3. CASE pc = "firing"
        <5>1. \A x \in alive : x \in passed' <=> x \in passed
          BY <3>1
        <5>2. ASSUME NEW x \in alive
              PROVE  x \in passed' <=> time_slot'[x] = cur_slot' /\ (tmp' # NULL => higher[tmp'] < higher[x])
          BY <3>1, <3>3, <3>6, <4>3, <5>1, <5>2 DEF Walk
        <5>3. t \in passed' <=> time_slot'[t] = cur_slot' /\ (tmp' # NULL => higher[tmp'] < higher[t])
          BY <3>1, <3>2, <3>3, <3>6, <4>3 DEF Walk
        <5>4. rotation'[tmp'] = 0
          BY <3>1, <3>3, <3>6, <4>3 DEF Walk
        <5> QED BY <3>1, <4>1, <4>3, <5>2, <5>3, <5>4 DEF Walk
      <4> QED BY <3>1, <4>2, <4>3
    <3> QED BY <3>4, <3>5, <3>7
  <2> QED BY <2>1, <2>2 DEF Timeouts
<1>2. ASSUME NEW t \in Timers, DeleteTimer(t)
      PROVE  \E r \in [Timers -> Int] : (Forward(r) /\ Ordered(r) /\ Walk(r))'
  <2>1. /\ HeadsOK /\ NeighboursOK /\ CursorOK
        /\ t \in alive /\ t # tmp /\ Unlink(t, time_slot[t])
        /\ passed' = passed \ {t}
        /\ pc' = pc /\ tmp' = tmp /\ cur_slot' = cur_slot
    BY <1>0, <1>2, WheelAssumption DEF DeleteTimer, LinksInv, CursorOK
  <2>2. Forward(rank)' /\ Ordered(rank)'
    BY <1>0, <2>1, UnlinkKeepsOrder
  <2>3. /\ alive' = alive \ {t}
        /\ \A x \in alive' : time_slot'[x] = time_slot[x] /\ rotation'[x] = rotation[x]
    BY <1>0, <2>1 DEF Unlink, FreeFields, TypeOK
  <2>4. Walk(rank)'
    BY <2>1, <2>3 DEF Walk, CursorOK
  <2> QED BY <2>2, <2>4
<1>3. CASE TickBegin
  <2>1. Forward(rank)' /\ Ordered(rank)'
    BY <1>3 DEF TickBegin, heap, Forward, Ordered
  <2>2. \A x \in alive : time_slot[x] = cur_slot =>
           slots[cur_slot] # NULL /\ ~(rank[slots[cur_slot]] < rank[x])
    BY <1>0 DEF TypeOK, Forward, Ordered
  <2>3. Walk(rank)'
    BY <1>3, <2>2 DEF TickBegin, heap, Walk
  <2> QED BY <2>1, <2>3
<1>4. CASE TickSkip
  <2>1. Forward(rank)' /\ Ordered(rank)'
    BY <1>4 DEF TickSkip, Forward, Ordered
  <2>2. tmp \in alive /\ time_slot[tmp] = cur_slot
    BY <1>4 DEF TickSkip, LinksInv, CursorOK
  <2>3. ASSUME NEW x \in alive, time_slot[x] = cur_slot
        PROVE  (next[tmp] # NULL => rank[next[tmp]] < rank[x]) <=> x = tmp \/ rank[tmp] < rank[x]
    <3>1. /\ rank[tmp] \in Int /\ rank[x] \in Int
          /\ next[tmp] # NULL => rank[next[tmp]] \in Int /\ rank[next[tmp]] < rank[tmp]
      BY <1>0, <2>2, <2>3 DEF TypeOK, Forward
    <3>2. rank[x] < rank[tmp] => next[tmp] # NULL /\ rank[x] <= rank[next[tmp]]
      BY <2>2, <2>3 DEF Ordered
    <3>3. rank[x] = rank[tmp] => x = tmp
      BY <2>2, <2>3 DEF Ordered
    <3> QED BY <3>1, <3>2, <3>3
  <2>4. Walk(rank)'
    BY <1>4, <2>2, <2>3 DEF TickSkip, Walk
  <2> QED BY <2>1, <2>4
<1>5. CASE TickFire
  <2>1. rotation[tmp] = 0
    BY <1>0, <1>5 DEF TickFire, TypeOK, Ptr
  <2>2. (Forward(rank) /\ Ordered(rank) /\ Walk(rank))'
    BY <1>5, <2>1 DEF TickFire, heap, Forward, Ordered, Walk
  <2> QED BY <2>2
<1>6. CASE TickRemove
  <2>1. /\ HeadsOK /\ NeighboursOK
        /\ tmp \in alive /\ time_slot[tmp] = cur_slot /\ Unlink(tmp, time_slot[tmp])
    BY <1>6 DEF TickRemove, LinksInv, CursorOK
  <2>2. Forward(rank)' /\ Ordered(rank)'
    BY <1>0, <2>1, UnlinkKeepsOrder
  <2>3. /\ alive' = alive \ {tmp}
        /\ \A x \in alive' : time_slot'[x] = time_slot[x]
    BY <1>0, <2>1 DEF Unlink, FreeFields, TypeOK
  <2>4. tmp \notin passed
    BY <1>0, <1>6, <2>1 DEF TickRemove, Walk, TypeOK
  <2>5. ASSUME NEW x \in alive', time_slot[x] = cur_slot
        PROVE  (next[tmp] # NULL => rank[next[tmp]] < rank[x]) <=> rank[tmp] < rank[x]
    BY <1>0, <2>1, <2>3, <2>5 DEF TypeOK, Forward, Ordered
  <2>6. Walk(rank)'
    BY <1>6, <2>1, <2>3, <2>4, <2>5, WheelAssumption DEF TickRemove, Walk
  <2> QED BY <2>2, <2>6
<1>7. CASE TickEnd
  BY <1>7 DEF TickEnd, heap, Forward, Ordered, Walk
<1>8. CASE CloseBegin
  BY <1>8 DEF CloseBegin, heap, Forward, Ordered, Walk
<1>9. CASE CloseFree
  <2>1. alive' \subseteq alive /\ Forward(rank)' /\ Ordered(rank)'
    BY <1>0, <1>9, FreeKeepsOrder
  <2>2. Walk(rank)'
    BY <1>9 DEF CloseFree, Walk
  <2> QED BY <2>1, <2>2
<1>10. CASE CloseEnd
  BY <1>10 DEF CloseEnd, heap, Forward, Ordered, Walk
<1>11. CASE UNCHANGED vars
  BY <1>11 DEF vars, Forward, Ordered, Walk
<1> QED
  BY <1>1, <1>2, <1>3, <1>4, <1>5, <1>6, <1>7, <1>8, <1>9, <1>10, <1>11 DEF Next, Tick

LEMMA WalkAlways == Spec => []WalkInv
<1>1. Init => WalkInv
  <2> SUFFICES ASSUME Init
               PROVE  WalkInv
    OBVIOUS
  <2>1. [t \in Timers |-> 0] \in [Timers -> Int]
    OBVIOUS
  <2> QED BY <2>1 DEF Init, WalkInv, Forward, Ordered, Walk
<1> QED BY <1>1, TypedAlways, LinksAlways, WalkNext, PTL DEF Spec

-----------------------------------------------------------------------------
(* The slots to the next visit of slot s, by what the remainder is.        *)
LEMMA Distance ==
    ASSUME NEW s \in Slots, NEW c \in Slots
    PROVE  (s - c) % N = IF c <= s THEN s - c ELSE s - c + N
<1> USE WheelAssumption DEF Slots
<1>1. s - c \in Int /\ s - c < N /\ -N < s - c
  OBVIOUS
<1>2. CASE c <= s
  BY <1>1, <1>2
<1>3. CASE s < c
  BY <1>1, <1>3
<1> QED BY <1>2, <1>3

(* tick() moves on to the next slot, or from the last to the first.        *)
LEMMA NextSlotIs ==
    ASSUME cur_slot \in Slots
    PROVE  NextSlot = IF cur_slot = N - 1 THEN 0 ELSE cur_slot + 1
BY WheelAssumption DEF NextSlot, Slots

(* add_timer hashes to the slot that is ticks % N slots ahead.             *)
LEMMA SlotForDistance ==
    ASSUME cur_slot \in Slots, NEW ticks \in Nat
    PROVE  /\ SlotFor(ticks) \in Slots
           /\ (SlotFor(ticks) - cur_slot) % N = ticks % N
           /\ SlotFor(ticks) = cur_slot <=> ticks % N = 0
<1> DEFINE d == ticks % N
<1>1. d \in Slots
  BY RemainderIsSlot
<1>2. SlotFor(ticks) = (cur_slot + d) % N
  BY DEF SlotFor
<1> HIDE DEF d
<1>3. SlotFor(ticks) = IF cur_slot + d < N THEN cur_slot + d ELSE cur_slot + d - N
  BY <1>1, <1>2, WheelAssumption DEF Slots
<1>4. SlotFor(ticks) \in Slots
  BY <1>1, <1>3, WheelAssumption DEF Slots
<1>5. (SlotFor(ticks) - cur_slot) % N = d
  BY <1>1, <1>3, <1>4, Distance, WheelAssumption DEF Slots
<1>6. SlotFor(ticks) = cur_slot <=> d = 0
  BY <1>1, <1>3, WheelAssumption DEF Slots
<1> QED BY <1>4, <1>5, <1>6 DEF d

(* The revolutions and the slots add_timer splits a timeout into.          *)
LEMMA Division ==
    ASSUME NEW ticks \in Nat
    PROVE  ticks = Rotation(ticks) * N + (ticks % N)
BY WheelAssumption DEF Rotation

(* One revolution more.                                                    *)
LEMMA OneMore ==
    ASSUME NEW r \in Nat
    PROVE  /\ r * N \in Nat /\ (r + 1) * N \in Nat
           /\ (r + 1) * N = r * N + N
           /\ (r + 1) * N # 0
BY WheelAssumption

-----------------------------------------------------------------------------
(* What CountdownTimers sees of a timer, as the refinement of TimeWheel    *)
(* maps it.                                                                *)
Left(t) == IF t \in alive THEN Remaining(t) ELSE -1

LEMMA RemainingIsCount ==
    ASSUME TypeOK, NEW t \in alive
    PROVE  Remaining(t) \in Nat
<1>1. rotation[t] \in Nat /\ time_slot[t] \in Slots /\ cur_slot \in Slots
  BY DEF TypeOK
<1>2. (time_slot[t] - cur_slot) % N \in Nat
  BY <1>1, RemainderIsSlot DEF Slots
<1> QED BY <1>1, <1>2, OneMore DEF Remaining

(* The timers armed in the abstraction are the timers not yet freed.       *)
LEMMA ArmedAreAlive ==
    ASSUME TypeOK
    PROVE  Countdown!Armed = alive
<1>1. \A t \in alive : Remaining(t) # -1
  BY RemainingIsCount
<1> QED BY <1>1 DEF Countdown!Armed, Countdown!Off, TypeOK

(* A timer whose fields an action leaves alone keeps its count.            *)
LEMMA RemainingKept ==
    ASSUME NEW t \in Timers, cur_slot' = cur_slot, rotation'[t] = rotation[t],
           time_slot'[t] = time_slot[t], t \in passed' <=> t \in passed
    PROVE  Remaining(t)' = Remaining(t)
BY DEF Remaining

-----------------------------------------------------------------------------
LEMMA AddTimerArms ==
    ASSUME TypeOK, WalkInv, NEW timeout \in Timeouts, AddTimer(timeout)
    PROVE  [Countdown!Next]_(Countdown!vars)
<1>1. CASE timeout < 0
  BY <1>1 DEF AddTimer, heap, Countdown!vars, Remaining, Timeouts
<1>2. CASE timeout >= 0
  <2> DEFINE ticks == Ticks(timeout)
             s     == SlotFor(ticks)
  <2>1. ticks \in Nat /\ timeout \in 0 .. MaxTimeout
    BY <1>2, WheelAssumption DEF Ticks, Timeouts
  <2>2. PICK t \in Timers \ alive :
          /\ alive' = alive \cup {t}
          /\ rotation' = [rotation EXCEPT ![t] = Rotation(ticks)]
          /\ time_slot' = [time_slot EXCEPT ![t] = s]
          /\ passed' = IF pc = "firing" /\ s = cur_slot THEN passed \cup {t} ELSE passed
          /\ pc' = pc /\ tmp' = tmp /\ cur_slot' = cur_slot
          /\ pc \in {"idle", "firing"}
    BY <1>2 DEF AddTimer, Timeouts
  <2> HIDE DEF ticks, s
  <2>3. t \notin passed /\ (pc = "idle" => passed = {})
    BY <2>2 DEF WalkInv, Walk
  <2>4. ASSUME NEW x \in Timers, x # t
        PROVE  Left(x)' = Left(x)
    BY <2>2, <2>4, RemainingKept DEF TypeOK, Left
  <2>5. Left(t)' = IF pc = "firing" /\ ticks % N = 0 THEN ticks + N ELSE ticks
    <3>1. rotation'[t] = Rotation(ticks) /\ time_slot'[t] = s /\ Rotation(ticks) \in Nat
      BY <1>2, <2>2, AddTimerNumbers DEF TypeOK, ticks
    <3>2. /\ ticks = Rotation(ticks) * N + (ticks % N)
          /\ (Rotation(ticks) + 1) * N = Rotation(ticks) * N + N
          /\ Rotation(ticks) * N \in Nat
      BY <2>1, <3>1, Division, OneMore
    <3>3. (s - cur_slot) % N = ticks % N /\ (s = cur_slot <=> ticks % N = 0)
      BY <2>1, SlotForDistance DEF TypeOK, s
    <3>4. t \in passed' <=> pc = "firing" /\ ticks % N = 0
      BY <2>2, <2>3, <3>3
    <3>5. CASE pc = "firing" /\ ticks % N = 0
      <4>1. Left(t)' = Rotation(ticks) * N + N
        BY <2>2, <3>1, <3>2, <3>4, <3>5 DEF Left, Remaining
      <4> QED BY <2>1, <3>2, <3>5, <4>1, WheelAssumption
    <3>6. CASE ~(pc = "firing" /\ ticks % N = 0)
      <4>1. Left(t)' = Rotation(ticks) * N + (ticks % N)
        BY <2>2, <3>1, <3>3, <3>4, <3>6 DEF Left, Remaining
      <4> QED BY <3>2, <3>6, <4>1
    <3> QED BY <3>5, <3>6
  <2>6. [x \in Timers |-> Left(x)]' = [[x \in Timers |-> Left(x)] EXCEPT ![t] =
            IF pc = "firing" /\ ticks % N = 0 THEN ticks + N ELSE ticks]
    BY <2>2, <2>4, <2>5
  <2>7. Countdown!Arm(t, ticks)
    BY <2>2, <2>6, ArmedAreAlive DEF Countdown!Arm, Left
  <2>8. ticks \in {Ticks(to) : to \in 0 .. MaxTimeout}
    BY <2>1 DEF ticks
  <2> QED BY <2>2, <2>7, <2>8 DEF Countdown!Next
<1> QED BY <1>1, <1>2 DEF Timeouts

(* An action that frees one timer and leaves the others' counts switches   *)
(* off that timer's count.                                                 *)
LEMMA FreedIsOff ==
    ASSUME TypeOK, NEW t \in alive, alive' = alive \ {t}, cur_slot' = cur_slot,
           \A x \in alive' : /\ rotation'[x] = rotation[x] /\ time_slot'[x] = time_slot[x]
                             /\ x \in passed' <=> x \in passed
    PROVE  [x \in Timers |-> Left(x)]' = [[x \in Timers |-> Left(x)] EXCEPT ![t] = -1]
<1>1. ASSUME NEW x \in Timers, x # t
      PROVE  Left(x)' = Left(x)
  BY <1>1, RemainingKept DEF Left
<1>2. Left(t)' = -1
  BY DEF Left
<1> QED BY <1>1, <1>2

LEMMA UnlinkFrees ==
    ASSUME TypeOK, NEW t \in alive, NEW s \in Slots, Unlink(t, s)
    PROVE  /\ alive' = alive \ {t}
           /\ \A x \in alive' : rotation'[x] = rotation[x] /\ time_slot'[x] = time_slot[x]
BY DEF Unlink, FreeFields, TypeOK

LEMMA DeleteTimerCancels ==
    ASSUME TypeOK, NEW t \in Timers, DeleteTimer(t)
    PROVE  Countdown!Next
<1>1. /\ t \in alive /\ Unlink(t, time_slot[t]) /\ time_slot[t] \in Slots
      /\ passed' = passed \ {t} /\ cur_slot' = cur_slot /\ tmp' = tmp /\ pc' = pc
      /\ pc = "idle" \/ (pc = "firing" /\ t # tmp)
  BY DEF DeleteTimer, TypeOK
<1>2. /\ alive' = alive \ {t}
      /\ \A x \in alive' : rotation'[x] = rotation[x] /\ time_slot'[x] = time_slot[x]
  BY <1>1, UnlinkFrees
<1>3. [x \in Timers |-> Left(x)]' = [[x \in Timers |-> Left(x)] EXCEPT ![t] = -1]
  BY <1>1, <1>2, FreedIsOff
<1>4. Countdown!Cancel(t)
  BY <1>1, <1>3, ArmedAreAlive, WheelAssumption DEF Countdown!Cancel, Countdown!Off, Left
<1> QED BY <1>4 DEF Countdown!Next

LEMMA TickBeginBegins ==
    ASSUME TickBegin
    PROVE  Countdown!Next
<1>1. Countdown!BeginTick
  BY DEF TickBegin, heap, Remaining, Countdown!BeginTick
<1> QED BY <1>1 DEF Countdown!Next

(* A skipped timer loses a revolution and is behind tmp: it waits as long. *)
LEMMA TickSkipStutters ==
    ASSUME TypeOK, LinksInv, WalkInv, TickSkip
    PROVE  UNCHANGED Countdown!vars
<1>1. PICK t \in alive : t = tmp /\ time_slot[t] = cur_slot
  BY DEF TickSkip, LinksInv, CursorOK
<1>2. t \notin passed
  BY <1>1 DEF TickSkip, WalkInv, Walk, TypeOK
<1>3. /\ rotation' = [rotation EXCEPT ![t] = rotation[t] - 1] /\ passed' = passed \cup {t}
      /\ alive' = alive /\ time_slot' = time_slot /\ cur_slot' = cur_slot /\ pc' = pc
      /\ pc = "ticking" /\ rotation[t] \in Nat \ {0} /\ t \in Timers
  BY <1>1 DEF TickSkip, TypeOK
<1>4. ASSUME NEW x \in Timers, x # t
      PROVE  Left(x)' = Left(x)
  BY <1>3, <1>4, RemainingKept DEF Left, TypeOK
<1>5. Left(t)' = Left(t)
  <2>1. rotation'[t] = rotation[t] - 1 /\ (rotation[t] - 1) + 1 = rotation[t]
    BY <1>3 DEF TypeOK
  <2>2. Left(t)' = rotation[t] * N
    BY <1>3, <2>1 DEF Left, Remaining
  <2>3. (time_slot[t] - cur_slot) % N = 0
    BY <1>1, Distance DEF TypeOK, Slots
  <2>4. Left(t) = rotation[t] * N + 0
    BY <1>2, <2>3 DEF Left, Remaining
  <2> QED BY <1>3, <2>2, <2>4, OneMore
<1>6. [x \in Timers |-> Left(x)]' = [x \in Timers |-> Left(x)]
  BY <1>4, <1>5
<1> QED BY <1>3, <1>6 DEF Countdown!vars, Left

(* The timer tick() fires is due, by the count, in this very tick.         *)
LEMMA TickFireFires ==
    ASSUME TypeOK, LinksInv, WalkInv, TickFire
    PROVE  Countdown!Next
<1>1. tmp \in alive /\ time_slot[tmp] = cur_slot /\ tmp \in Timers /\ pc = "ticking"
  BY DEF TickFire, LinksInv, CursorOK, TypeOK
<1>2. tmp \notin passed
  BY <1>1, WheelAssumption DEF WalkInv, Walk, TypeOK
<1>3. rotation[tmp] = 0
  BY <1>1 DEF TickFire, TypeOK
<1>4. (time_slot[tmp] - cur_slot) % N = 0
  BY <1>1, Distance DEF TypeOK, Slots
<1>5. Left(tmp) = 0
  <2>1. Left(tmp) = 0 * N + 0
    BY <1>1, <1>2, <1>3, <1>4 DEF Left, Remaining
  <2> QED BY <2>1, WheelAssumption
<1>6. [x \in Timers |-> Left(x)]' = [x \in Timers |-> Left(x)]
  BY DEF TickFire, heap, Left, Remaining
<1>7. Countdown!Fire(tmp)
  BY <1>1, <1>5, <1>6 DEF TickFire, Countdown!Fire, Left
<1> QED BY <1>1, <1>7 DEF Countdown!Next

LEMMA TickRemoveReturns ==
    ASSUME TypeOK, LinksInv, TickRemove
    PROVE  Countdown!Next
<1>1. /\ tmp \in alive /\ Unlink(tmp, cur_slot) /\ cur_slot \in Slots
      /\ passed' = passed /\ cur_slot' = cur_slot /\ pc = "firing" /\ pc' = "ticking"
  BY DEF TickRemove, LinksInv, CursorOK, TypeOK
<1>2. /\ alive' = alive \ {tmp}
      /\ \A x \in alive' : rotation'[x] = rotation[x] /\ time_slot'[x] = time_slot[x]
  BY <1>1, UnlinkFrees
<1>3. [x \in Timers |-> Left(x)]' = [[x \in Timers |-> Left(x)] EXCEPT ![tmp] = -1]
  BY <1>1, <1>2, FreedIsOff
<1>4. Countdown!CallbackReturns
  BY <1>1, <1>3 DEF Countdown!CallbackReturns, Countdown!Off, Left
<1> QED BY <1>4 DEF Countdown!Next

(* At the end of a tick no timer is due any more, and every armed timer is *)
(* one tick nearer: a slot nearer, or a revolution behind the slot left.   *)
LEMMA TickEndEnds ==
    ASSUME TypeOK, WalkInv, TickEnd
    PROVE  Countdown!Next
<1>1. /\ pc = "ticking" /\ pc' = "idle" /\ passed' = {} /\ cur_slot' = NextSlot
      /\ alive' = alive /\ rotation' = rotation /\ time_slot' = time_slot
      /\ cur_slot \in Slots
  BY DEF TickEnd, heap, TypeOK
<1>2. \A t \in alive : t \in passed <=> time_slot[t] = cur_slot
  BY DEF WalkInv, Walk, TickEnd
<1>3. NextSlot \in Slots /\ NextSlot = IF cur_slot = N - 1 THEN 0 ELSE cur_slot + 1
  BY <1>1, NextSlotIs, WheelAssumption DEF Slots
<1>4. ASSUME NEW t \in alive
      PROVE  Left(t) # 0 /\ Left(t)' = Left(t) - 1
  <2>1. rotation[t] \in Nat /\ time_slot[t] \in Slots
    BY DEF TypeOK
  <2>2. Left(t)' = rotation[t] * N + ((time_slot[t] - NextSlot) % N)
    BY <1>1 DEF Left, Remaining
  <2>3. /\ (time_slot[t] - NextSlot) % N = IF NextSlot <= time_slot[t] THEN time_slot[t] - NextSlot
                                           ELSE time_slot[t] - NextSlot + N
        /\ (time_slot[t] - cur_slot) % N = IF cur_slot <= time_slot[t] THEN time_slot[t] - cur_slot
                                           ELSE time_slot[t] - cur_slot + N
    BY <1>1, <1>3, <2>1, Distance
  <2>4. CASE time_slot[t] = cur_slot
    <3>1. Left(t) = rotation[t] * N + N
      BY <1>2, <2>1, <2>4, OneMore DEF Left, Remaining
    <3>2. (time_slot[t] - NextSlot) % N = N - 1
      BY <1>3, <2>1, <2>3, <2>4, WheelAssumption DEF Slots
    <3> QED BY <2>1, <2>2, <3>1, <3>2, OneMore, WheelAssumption
  <2>5. CASE time_slot[t] # cur_slot
    <3>1. Left(t) = rotation[t] * N + ((time_slot[t] - cur_slot) % N)
      BY <1>2, <2>5 DEF Left, Remaining
    <3>2. /\ (time_slot[t] - cur_slot) % N \in Nat \ {0}
          /\ (time_slot[t] - NextSlot) % N = ((time_slot[t] - cur_slot) % N) - 1
      BY <1>1, <1>3, <2>1, <2>3, <2>5, WheelAssumption DEF Slots
    <3> QED BY <2>1, <2>2, <3>1, <3>2, OneMore
  <2> QED BY <2>4, <2>5
<1>5. \A t \in Timers : Left(t) # 0
  BY <1>4 DEF Left
<1>6. [t \in Timers |-> Left(t)]' = [t \in Timers |-> IF t \in alive THEN Left(t) - 1 ELSE -1]
  BY <1>1, <1>4 DEF Left
<1>7. Countdown!EndTick
  BY <1>1, <1>5, <1>6, ArmedAreAlive DEF TypeOK, Countdown!EndTick, Countdown!Off, Left
<1> QED BY <1>7 DEF Countdown!Next

LEMMA CloseBeginCloses ==
    ASSUME CloseBegin
    PROVE  Countdown!Next
<1>1. Countdown!BeginClose
  BY DEF CloseBegin, heap, Remaining, Countdown!BeginClose
<1> QED BY <1>1 DEF Countdown!Next

LEMMA CloseFreeDrops ==
    ASSUME TypeOK, WalkInv, CloseFree
    PROVE  Countdown!Next
<1>1. PICK rank \in [Timers -> Int] : Forward(rank) /\ Ordered(rank)
  BY DEF WalkInv
<1>2. PICK h \in alive : /\ alive' = alive \ {h}
                         /\ \A x \in alive' : time_slot'[x] = time_slot[x] /\ rotation'[x] = rotation[x]
  BY <1>1, FreeKeepsOrder
<1>3. pc = "closing" /\ cur_slot' = cur_slot /\ pc' = pc /\ passed' = passed
  BY DEF CloseFree
<1>4. [x \in Timers |-> Left(x)]' = [[x \in Timers |-> Left(x)] EXCEPT ![h] = -1]
  BY <1>2, <1>3, FreedIsOff
<1>5. Countdown!Drop(h)
  BY <1>2, <1>3, <1>4, ArmedAreAlive DEF Countdown!Drop, Countdown!Off, Left
<1> QED BY <1>2, <1>5 DEF TypeOK, Countdown!Next

(* When every list is empty no timer is left: a timer nobody can reach     *)
(* would never be freed.                                                   *)
LEMMA CloseEndCloses ==
    ASSUME TypeOK, WalkInv, CloseEnd
    PROVE  Countdown!Next
<1>1. alive = {}
  BY DEF CloseEnd, WalkInv, Ordered, TypeOK
<1>2. Countdown!EndClose
  BY <1>1, ArmedAreAlive DEF CloseEnd, heap, Remaining, Countdown!EndClose
<1> QED BY <1>2 DEF Countdown!Next

-----------------------------------------------------------------------------
LEMMA InitIsInit == Init => Countdown!Init
BY DEF Init, Countdown!Init, Countdown!Off

LEMMA StepIsStep ==
    Typed /\ LinksInv /\ WalkInv /\ [Next]_vars => [Countdown!Next]_(Countdown!vars)
<1> SUFFICES ASSUME Typed, LinksInv, WalkInv, [Next]_vars
             PROVE  [Countdown!Next]_(Countdown!vars)
  OBVIOUS
<1>0. TypeOK
  BY DEF Typed
<1>1. ASSUME NEW timeout \in Timeouts, AddTimer(timeout)
      PROVE  [Countdown!Next]_(Countdown!vars)
  BY <1>0, <1>1, AddTimerArms
<1>2. ASSUME NEW t \in Timers, DeleteTimer(t)
      PROVE  Countdown!Next
  BY <1>0, <1>2, DeleteTimerCancels
<1>3. CASE Tick
  BY <1>0, <1>3, TickBeginBegins, TickSkipStutters, TickFireFires, TickRemoveReturns, TickEndEnds DEF Tick
<1>4. CASE CloseBegin \/ CloseFree \/ CloseEnd
  BY <1>0, <1>4, CloseBeginCloses, CloseFreeDrops, CloseEndCloses
<1>5. CASE UNCHANGED vars
  BY <1>5 DEF vars, Countdown!vars, Remaining
<1> QED BY <1>1, <1>2, <1>3, <1>4, <1>5 DEF Next

(* The wheel keeps the promise of CountdownTimers: a tick fires exactly    *)
(* the timers whose timeout asks for it, none earlier and none later, and  *)
(* the destructor frees every timer, whatever the callbacks arm and cancel *)
(* while tick() walks a list.                                              *)
THEOREM KeepsPromise == Spec => KeepsCountdown
<1>1. Spec => Countdown!Init
  BY InitIsInit DEF Spec
<1> QED
  BY <1>1, TypedAlways, LinksAlways, WalkAlways, StepIsStep, PTL
  DEF Spec, KeepsCountdown, Countdown!Spec
=============================================================================
