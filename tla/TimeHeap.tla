------------------------------ MODULE TimeHeap ------------------------------
(***************************************************************************)
(* include/time_heap.h and src/time_heap.cc: timers in a binary min-heap   *)
(* kept in an array that doubles when it is full.  delete_timer only takes *)
(* the callback away; the timer leaves the heap when it is due.            *)
(*                                                                         *)
(* The code is followed where it surprises: the constructor from an array  *)
(* throws when the array is smaller than the capacity (line 24) and does   *)
(* not sift the root (line 42); percolate_down looks at children past the  *)
(* last timer (lines 130, 132) and compares what it has just moved up, not *)
(* the timer it sifts (line 136).  What it reads there is an entry left    *)
(* behind by pop(), nullptr, or memory outside the array.  An access       *)
(* through nullptr, to a freed timer or outside the array is undefined     *)
(* behaviour: the model stops there and says nothing of what follows.  It  *)
(* stops as well once an entry behind the last timer has been moved up:    *)
(* then one timer is on the heap twice, to be freed twice, and another is  *)
(* lost.                                                                   *)
(*                                                                         *)
(* External: the caller, who makes a heap with room for one timer at       *)
(* least, adds timers fresh from new with deadlines that have not passed,  *)
(* deletes only timers on the heap, and calls pop() outside callbacks.     *)
(***************************************************************************)
EXTENDS Integers, FiniteSets

CONSTANTS Timers,       (* the timers a caller may hold at one time         *)
          NULL,         (* nullptr                                          *)
          Delays,       (* arguments of heap_timer()                        *)
          Capacities,   (* arguments of the constructors                    *)
          MaxTime       (* Bound: the clock stops here                      *)

ASSUME HeapAssumption ==
    /\ IsFiniteSet(Timers)
    /\ NULL \notin Timers
    /\ Delays \subseteq Nat
    /\ Capacities \subseteq Nat \ {0}
    /\ MaxTime \in Nat

VARIABLES array, cur_size,   (* the fields; capacity is the size of array   *)
          expire,            (* deadline of each timer, 0 once freed        *)
          alive,             (* the timers handed over and not freed        *)
          deleted,           (* those whose cb_func is nullptr              *)
          now,               (* time(nullptr)                               *)
          pc,                (* "none", "thrown", "idle", "ticking",        *)
                             (* "firing", "gone", "astray" or "undefined"   *)
          cur, tmp           (* locals of tick(), 0 and NULL outside        *)

timerVars == <<expire, alive, deleted>>
tickVars == <<cur, tmp>>
vars == <<array, cur_size, timerVars, now, pc, tickVars>>

Ptr == Timers \cup {NULL}

Init ==
    /\ array = <<>>
    /\ cur_size = 0
    /\ expire = [t \in Timers |-> 0]
    /\ alive = {}
    /\ deleted = {}
    /\ now = 0
    /\ pc = "none"
    /\ cur = 0
    /\ tmp = NULL

-----------------------------------------------------------------------------
capacity == Cardinality(DOMAIN array)
empty == cur_size = 0
top == IF empty THEN NULL ELSE array[0]
OnHeap == {array[i] : i \in 0 .. cur_size - 1}
Parent(i) == (i - 1) \div 2

(* What is left of the array after undefined behaviour.                     *)
Wreck == <<>>

(* The test of line 130 reads (hole << 1) | (1 <= cur_size).                *)
Continues(hole, size) == hole > 0 \/ 1 <= size

(* Lines 132 and 136: the entries percolate_down reads at hole.             *)
Read(hole, size) ==
    {hole, 2 * hole + 1} \cup IF 2 * hole + 1 <= size - 1 THEN {2 * hole + 2} ELSE {}

(* Variant: the left child only.                                            *)
LeftChild(a, hole, size, e) == 2 * hole + 1

Child(a, hole, size, e) ==
    LET left == 2 * hole + 1
    IN  IF left <= size - 1 /\ e[a[left + 1]] < e[a[left]] THEN left + 1 ELSE left

(* percolate_down(start) on array a with size timers and deadlines e, where *)
(* only the timers in live may be accessed.  sift[hole] is what the loop    *)
(* makes of the array from hole on; what it has written before lies above.  *)
PercolateDown(a, size, start, live, e) ==
    LET sift[hole \in Nat] ==
            LET safe == \A i \in Read(hole, size) : i \in DOMAIN a /\ a[i] \in live
                child == Child(a, hole, size, e)
            IN  IF Continues(hole, size) /\ ~safe THEN Wreck
                ELSE IF Continues(hole, size) /\ e[a[hole]] > e[a[child]]
                     THEN IF sift[child] = Wreck THEN Wreck
                          ELSE [sift[child] EXCEPT ![hole] = a[child]]
                     ELSE [a EXCEPT ![hole] = a[start]]
    IN  sift[start]

(* percolate_down has moved up entries from behind the size timers of a.    *)
GoesAstray(a, b, size) == \E i \in DOMAIN a : i >= size /\ b[i] # a[i]

Empty(cap) == [i \in 0 .. cap - 1 |-> NULL]

(* The entry at i after the copy of lines 157 to 159.  Variant: one short.  *)
CopiedShort(a, i, size) == IF i < size - 1 THEN a[i] ELSE NULL

Copied(a, i, size) == IF i < size THEN a[i] ELSE NULL

(* resize()                                                                 *)
Resized(a, size) ==
    [i \in 0 .. 2 * Cardinality(DOMAIN a) - 1 |-> Copied(a, i, size)]

(* Variant: one timer too late.                                             *)
FullLate == cur_size > capacity

Full == cur_size >= capacity

(* Line 69.  Variants: timers rise past equal ones; never rise.             *)
StaysBelowEarlier(e, parent, t) == e[parent] < e[t]

StaysBelowAlways(e, parent, t) == TRUE

StaysBelow(e, parent, t) == e[parent] <= e[t]

(* add_timer(): t rises from entry start of array a; rise[hole] is what the *)
(* loop makes of the array from hole on.                                    *)
PercolateUp(a, start, t, e) ==
    LET rise[hole \in 0 .. start] ==
            LET parent == Parent(hole)
            IN  IF hole = 0 \/ StaysBelow(e, a[parent], t) THEN [a EXCEPT ![hole] = t]
                ELSE [rise[parent] EXCEPT ![hole] = a[parent]]
    IN  rise[start]

-----------------------------------------------------------------------------
TimePasses ==
    /\ pc \in {"idle", "ticking", "firing"}
    /\ now < MaxTime
    /\ now' = now + 1
    /\ UNCHANGED <<array, cur_size, timerVars, pc, tickVars>>

(* time_heap(cap)                                                           *)
NewHeap(cap) ==
    /\ pc = "none"
    /\ array' = Empty(cap)
    /\ pc' = "idle"
    /\ UNCHANGED <<cur_size, timerVars, now, tickVars>>

(* time_heap(init_array, size, cap), with given the timers of init_array.   *)
Build(init_array, size, cap, given, e) ==
    LET half == (size - 1) \div 2
        built[k \in 0 .. half] ==
            IF k = 0 THEN init_array
            ELSE IF built[k - 1] = Wreck THEN Wreck
            ELSE PercolateDown(built[k - 1], size, half - k + 1, given, e)
    IN  IF size > cap THEN Wreck ELSE built[half]

NewHeapThrows(size, cap) ==
    /\ pc = "none"
    /\ size < cap
    /\ pc' = "thrown"
    /\ UNCHANGED <<array, cur_size, timerVars, now, tickVars>>

NewHeapFrom(init_array, size, cap) ==
    LET given == {init_array[i] : i \in DOMAIN init_array}
    IN  /\ pc = "none"
        /\ size >= cap
        /\ \E delay \in [Timers -> Delays \cap 0 .. MaxTime] :
             expire' = [t \in Timers |-> IF t \in given THEN delay[t] ELSE 0]
        /\ array' = Build(init_array, size, cap, given, expire')
        /\ pc' = IF array' = Wreck THEN "undefined" ELSE "idle"
        /\ cur_size' = size
        /\ alive' = given
        /\ UNCHANGED <<deleted, now, tickVars>>

AddTimer(t, delay) ==
    /\ pc \in {"idle", "firing"}
    /\ t \in Timers \ alive
    /\ now + delay <= MaxTime
    /\ alive' = alive \cup {t}
    /\ expire' = [expire EXCEPT ![t] = now + delay]
    /\ LET a == IF Full THEN Resized(array, cur_size) ELSE array
       IN  array' = PercolateUp(a, cur_size, t, expire')
    /\ cur_size' = cur_size + 1
    /\ UNCHANGED <<deleted, now, pc, tickVars>>

DeleteTimer(t) ==
    /\ pc \in {"idle", "firing"}
    /\ t \in alive
    /\ deleted' = deleted \cup {t}
    /\ UNCHANGED <<array, cur_size, expire, alive, now, pc, tickVars>>

(* pop() of a heap that is not empty; control goes on at next.              *)
PopRoot(next) ==
    LET root == array[0]
        last == cur_size - 1
        a == [array EXCEPT ![0] = array[last]]
    IN  /\ cur_size' = last
        /\ alive' = alive \ {root}
        /\ deleted' = deleted \ {root}
        /\ expire' = [expire EXCEPT ![root] = 0]
        /\ array' = PercolateDown(a, last, 0, alive', expire')
        /\ pc' = IF array' = Wreck THEN "undefined"
                 ELSE IF GoesAstray(a, array', last) THEN "astray" ELSE next

Pop ==
    /\ pc = "idle"
    /\ ~empty
    /\ PopRoot("idle")
    /\ UNCHANGED <<now, tickVars>>

(* tick()                                                                   *)
TickBegin ==
    /\ pc = "idle"
    /\ pc' = "ticking"
    /\ tmp' = array[0]
    /\ cur' = now
    /\ UNCHANGED <<array, cur_size, timerVars, now>>

Due == ~empty /\ tmp # NULL /\ expire[tmp] <= cur

TickFire ==
    /\ pc = "ticking"
    /\ Due
    /\ array[0] \notin deleted
    /\ pc' = "firing"
    /\ UNCHANGED <<array, cur_size, timerVars, now, tickVars>>

TickPop ==
    /\ \/ pc = "firing"
       \/ pc = "ticking" /\ Due /\ array[0] \in deleted
    /\ PopRoot("ticking")
    /\ tmp' = IF array' = Wreck THEN NULL ELSE array'[0]
    /\ UNCHANGED <<now, cur>>

(* Variant: tick() ends at a timer without a callback.                      *)
LeavesAtDeleted == ~Due \/ array[0] \in deleted

Leaves == ~Due

TickEnd ==
    /\ pc = "ticking"
    /\ Leaves
    /\ pc' = "idle"
    /\ tmp' = NULL
    /\ cur' = 0
    /\ UNCHANGED <<array, cur_size, timerVars, now>>

Destroy ==
    /\ pc = "idle"
    /\ pc' = "gone"
    /\ alive' = alive \ OnHeap
    /\ UNCHANGED <<array, cur_size, expire, deleted, now, tickVars>>

(* The arrays of different timers.                                          *)
Arrays == {a \in UNION {[0 .. n - 1 -> Timers] : n \in 1 .. Cardinality(Timers)} :
              \A i, j \in DOMAIN a : a[i] = a[j] => i = j}

Next ==
    \/ \E cap \in Capacities :
         \/ NewHeap(cap)
         \/ \E a \in Arrays : LET size == Cardinality(DOMAIN a)
                              IN  NewHeapThrows(size, cap) \/ NewHeapFrom(a, size, cap)
    \/ \E t \in Timers : DeleteTimer(t) \/ \E delay \in Delays : AddTimer(t, delay)
    \/ TimePasses \/ Pop \/ TickBegin \/ TickFire \/ TickPop \/ TickEnd \/ Destroy

Spec == Init /\ [][Next]_vars

-----------------------------------------------------------------------------
Intact == pc \notin {"undefined", "astray"}

Ordered == \A i \in 1 .. cur_size - 1 : expire[array[Parent(i)]] <= expire[array[i]]

(* The fields and locals have their types, and the array has room for the   *)
(* timers add_timer() counts.                                               *)
TypeOK ==
    /\ pc \in {"none", "thrown", "idle", "ticking", "firing", "gone", "astray", "undefined"}
    /\ pc \in {"idle", "ticking", "firing", "gone", "astray"} =>
          /\ array \in [0 .. capacity - 1 -> Ptr]
          /\ cur_size <= capacity
    /\ cur_size \in 0 .. Cardinality(Timers)
    /\ expire \in [Timers -> 0 .. MaxTime]
    /\ deleted \subseteq alive \/ pc = "gone"
    /\ alive \subseteq Timers
    /\ now \in 0 .. MaxTime
    /\ cur \in 0 .. MaxTime
    /\ tmp \in Ptr

(* The first cur_size entries hold every timer that was added and not       *)
(* popped, and each of them once, though percolate_down reads beyond them,  *)
(* as long as it moves none from there: none is lost by growth or sifting,  *)
(* and pop() and the destructor free each exactly once.                     *)
HoldsEachOnce ==
    IF pc = "gone" THEN alive = {}
    ELSE Intact => OnHeap = alive /\ Cardinality(alive) = cur_size

(* The timer whose deadline tick() compared (tmp) is at the root when its   *)
(* callback is called and still when pop() frees the root, although the     *)
(* callback may add timers of the same second and make the array move.      *)
RootStays == pc \in {"ticking", "firing"} /\ ~empty => tmp = top

(* add_timer() keeps a heap in order that is in order.                      *)
AddKeepsOrder == [][pc # "none" /\ cur_size' > cur_size /\ Ordered => Ordered']_vars

(* pop() of a heap in order brings the earliest of the timers that are left *)
(* to the root and loses none, if it survives the entries percolate_down    *)
(* reads.  (It does not keep the heap in order, so the next may go wrong.)  *)
PopFindsEarliest ==
    [][cur_size' < cur_size /\ pc' # "undefined" /\ Ordered =>
          Intact' /\ \A t \in alive' : expire'[array'[0]] <= expire'[t]]_vars

(* A tick that ends leaves no timer of a heap in order that was due when it *)
(* read the clock, deleted timers among them or not: a timer without a      *)
(* callback must not hold up those below it.                                *)
TickServesDue ==
    [][pc = "ticking" /\ pc' = "idle" /\ Ordered => \A t \in alive : expire[t] > cur]_vars
=============================================================================
