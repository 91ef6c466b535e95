---------------------------- MODULE SortTimerList ---------------------------
(***************************************************************************)
(* include/sort_timer_list.h and src/sort_timer_list.cc: timers on a       *)
(* doubly linked list in the order of their deadlines.  Callbacks run      *)
(* inside tick() and may call the list again.                              *)
(*                                                                         *)
(* delete_timer of the last of several timers falls through to line 105    *)
(* after it has freed the timer, and writes through its null next pointer: *)
(* the program is gone (crashed).                                          *)
(*                                                                         *)
(* External: the caller, who adds timers fresh from new with deadlines     *)
(* that have not passed, moves a deadline only to a later time before      *)
(* adjust_timer (which looks at the following timers alone), passes only   *)
(* timers on the list, and in a callback leaves the timer alone that is    *)
(* firing (tick() uses it afterwards).                                     *)
(***************************************************************************)
EXTENDS Integers, Sequences, FiniteSets

CONSTANTS Timers,    (* the timers a caller may hold at one time           *)
          NULL,      (* nullptr                                            *)
          Delays,    (* how far ahead the caller sets a deadline           *)
          MaxTime    (* Bound: the clock stops here                        *)

ASSUME ListAssumption ==
    /\ IsFiniteSet(Timers)
    /\ NULL \notin Timers
    /\ Delays \subseteq Nat
    /\ MaxTime \in Nat

VARIABLES list,      (* head and tail, and next and prev of each timer     *)
          expire,    (* deadline of each timer                             *)
          alive,     (* the timers added and not freed                     *)
          now,       (* time(nullptr)                                      *)
          pc,        (* "idle", "ticking" or "firing" in tick(), "gone"    *)
          cur, tmp,  (* locals of tick(), 0 and NULL outside                *)
          crashed    (* has the program followed a null pointer?           *)

vars == <<list, expire, alive, now, pc, cur, tmp, crashed>>
tickVars == <<pc, cur, tmp>>

Ptr == Timers \cup {NULL}

Init ==
    /\ list = [head |-> NULL, tail |-> NULL,
               next |-> [t \in Timers |-> NULL], prev |-> [t \in Timers |-> NULL]]
    /\ expire = [t \in Timers |-> 0]
    /\ alive = {}
    /\ now = 0
    /\ pc = "idle"
    /\ cur = 0
    /\ tmp = NULL
    /\ crashed = FALSE

-----------------------------------------------------------------------------
(* The timers from p on, as the links have them.  A walk longer than there  *)
(* are timers goes round in circles.                                        *)
Chain(l, p) ==
    LET at[i \in Nat] == IF i <= 1 THEN p
                         ELSE IF at[i - 1] = NULL THEN NULL ELSE l.next[at[i - 1]]
        steps == {i \in 1 .. Cardinality(Timers) + 1 : at[i] # NULL}
    IN  [i \in steps |-> at[i]]

(* Variant: without line 35.                                                *)
LinkLastKeepsTail(l, t, last) ==
    [l EXCEPT !.next[last] = t, !.prev[t] = last, !.next[t] = NULL]

LinkLast(l, t, last) ==
    [l EXCEPT !.next[last] = t, !.prev[t] = last, !.next[t] = NULL, !.tail = t]

(* add_timer(timer, list_head): the timer goes before the first timer after *)
(* start that has a later deadline, else to the end.                        *)
InsertAfter(l, e, t, start) ==
    LET chain == Chain(l, start)
        later == {i \in 2 .. Len(chain) : e[t] < e[chain[i]]}
        i == IF later = {} THEN Len(chain) + 1
             ELSE CHOOSE j \in later : \A k \in later : j <= k
        before == chain[i - 1]
    IN  IF later = {}
        THEN LinkLast(l, t, before)
        ELSE [l EXCEPT !.next[before] = t, !.next[t] = chain[i],
                       !.prev[chain[i]] = t, !.prev[t] = before]

(* Variant: a timer goes before a head with the same deadline.              *)
BeforeHeadOrEqual(l, e, t) == e[t] <= e[l.head]

BeforeHead(l, e, t) == e[t] < e[l.head]

(* add_timer(timer)                                                         *)
Add(l, e, t) ==
    IF l.head = NULL THEN [l EXCEPT !.head = t, !.tail = t]
    ELSE IF BeforeHead(l, e, t)
         THEN [l EXCEPT !.next[t] = l.head, !.prev[l.head] = t, !.head = t]
         ELSE InsertAfter(l, e, t, l.head)

(* adjust_timer(timer)                                                      *)
Adjust(l, e, t) ==
    LET second == l.next[t]
        unheaded == [l EXCEPT !.head = second, !.prev[second] = NULL, !.next[t] = NULL]
        unlinked == [l EXCEPT !.next[l.prev[t]] = second, !.prev[second] = l.prev[t]]
    IN  IF second = NULL \/ e[t] < e[second] THEN l
        ELSE IF t = l.head THEN InsertAfter(unheaded, e, t, second)
             ELSE InsertAfter(unlinked, e, t, second)

(* delete_timer(timer), where it survives.                                  *)
DeletesTail(l, t) == t = l.tail /\ t # l.head

Delete(l, t) ==
    IF t = l.head /\ t = l.tail THEN [l EXCEPT !.head = NULL, !.tail = NULL]
    ELSE IF t = l.head
         THEN [l EXCEPT !.head = l.next[t], !.prev[l.next[t]] = NULL]
         ELSE [l EXCEPT !.next[l.prev[t]] = l.next[t], !.prev[l.next[t]] = l.prev[t]]

(* The fields of a freed timer are gone; NULL and 0 stand for them.         *)
Freed(l, t) == [l EXCEPT !.next[t] = NULL, !.prev[t] = NULL]

-----------------------------------------------------------------------------
Callable == ~crashed /\ pc \in {"idle", "firing"}

(* The timers the caller may name.                                          *)
Named == IF pc = "firing" THEN alive \ {tmp} ELSE alive

TimePasses ==
    /\ ~crashed
    /\ now < MaxTime
    /\ now' = now + 1
    /\ UNCHANGED <<list, expire, alive, tickVars, crashed>>

AddTimer(t, delay) ==
    /\ Callable
    /\ t \in Timers \ alive
    /\ alive' = alive \cup {t}
    /\ expire' = [expire EXCEPT ![t] = now + delay]
    /\ list' = Add(list, expire', t)
    /\ UNCHANGED <<now, tickVars, crashed>>

AdjustTimer(t, delay) ==
    /\ Callable
    /\ t \in Named
    /\ now + delay > expire[t]
    /\ expire' = [expire EXCEPT ![t] = now + delay]
    /\ list' = Adjust(list, expire', t)
    /\ UNCHANGED <<alive, now, tickVars, crashed>>

DeleteTimer(t) ==
    /\ Callable
    /\ t \in Named
    /\ alive' = alive \ {t}
    /\ \/ DeletesTail(list, t) /\ crashed' = TRUE /\ UNCHANGED list
       \/ ~DeletesTail(list, t) /\ list' = Freed(Delete(list, t), t) /\ UNCHANGED crashed
    /\ expire' = [expire EXCEPT ![t] = 0]
    /\ UNCHANGED <<now, tickVars>>

(* tick()                                                                   *)
TickBegin ==
    /\ ~crashed
    /\ pc = "idle"
    /\ list.head # NULL
    /\ pc' = "ticking"
    /\ cur' = now
    /\ tmp' = list.head
    /\ UNCHANGED <<list, expire, alive, now, crashed>>

(* Variants: a timer due this very second waits for the next tick; or the   *)
(* loop runs to the end of the list.                                        *)
NotDueThisSecond == cur <= expire[tmp]
NotDueNever == FALSE

NotDue == cur < expire[tmp]

TickFire ==
    /\ ~crashed
    /\ pc = "ticking"
    /\ tmp # NULL
    /\ ~NotDue
    /\ pc' = "firing"
    /\ UNCHANGED <<list, expire, alive, now, cur, tmp, crashed>>

(* Variant: without line 130.                                               *)
StayAt(p) == tmp' = tmp

MoveTo(p) == tmp' = p

TickRemove ==
    /\ ~crashed
    /\ pc = "firing"
    /\ LET head == list.next[tmp]
       IN  /\ list' = Freed([list EXCEPT !.head = head,
                     !.prev = IF head = NULL THEN @ ELSE [@ EXCEPT ![head] = NULL]], tmp)
           /\ MoveTo(head)
    /\ alive' = alive \ {tmp}
    /\ expire' = [expire EXCEPT ![tmp] = 0]
    /\ pc' = "ticking"
    /\ UNCHANGED <<now, cur, crashed>>

TickEnd ==
    /\ ~crashed
    /\ pc = "ticking"
    /\ (tmp # NULL => NotDue)
    /\ pc' = "idle"
    /\ cur' = 0
    /\ tmp' = NULL
    /\ UNCHANGED <<list, expire, alive, now, crashed>>

(* The destructor frees what it finds on the list.                          *)
Destroy ==
    /\ ~crashed
    /\ pc = "idle"
    /\ pc' = "gone"
    /\ LET chain == Chain(list, list.head)
       IN  alive' = alive \ {chain[i] : i \in DOMAIN chain}
    /\ list' = [list EXCEPT !.head = NULL]  \* and the rest is gone with it
    /\ UNCHANGED <<expire, now, cur, tmp, crashed>>

Tick == TickBegin \/ TickFire \/ TickRemove \/ TickEnd

Next ==
    \/ \E t \in Timers : \/ \E delay \in Delays : AddTimer(t, delay) \/ AdjustTimer(t, delay)
                         \/ DeleteTimer(t)
    \/ Tick \/ TimePasses \/ Destroy

Spec == Init /\ [][Next]_vars

(* A tick that has begun goes on, and callbacks return.                     *)
FairSpec == Spec /\ WF_vars(TickFire) /\ WF_vars(TickRemove) /\ WF_vars(TickEnd)

-----------------------------------------------------------------------------
TypeOK ==
    /\ list \in [head : Ptr, tail : Ptr, next : [Timers -> Ptr], prev : [Timers -> Ptr]]
    /\ expire \in [Timers -> Nat]
    /\ alive \in SUBSET Timers
    /\ now \in 0 .. MaxTime
    /\ pc \in {"idle", "ticking", "firing", "gone"}
    /\ cur \in 0 .. MaxTime
    /\ tmp \in alive \cup {NULL}
    /\ crashed \in BOOLEAN

(* The list is what its users take it for, in the middle of a tick as well: *)
(* the links from head run through every timer once, in the order of the    *)
(* deadlines, prev runs back, and tail is the last timer.                   *)
ListOK ==
    LET chain == Chain(list, list.head)
    IN  ~crashed =>
          /\ {chain[i] : i \in DOMAIN chain} = alive
          /\ Len(chain) = Cardinality(alive)
          /\ \A i \in 1 .. Len(chain) - 1 : /\ expire[chain[i]] <= expire[chain[i + 1]]
                                            /\ list.prev[chain[i + 1]] = chain[i]
          /\ chain # <<>> => list.prev[list.head] = NULL /\ list.tail = chain[Len(chain)]

(* The loop of tick() works on the head of the list, whatever callbacks do: *)
(* line 125 loses nothing.                                                  *)
TickAtHead == ~crashed /\ pc \in {"ticking", "firing"} => tmp = list.head

(* A tick ends, though its callbacks arm timers, unless they arm timers for *)
(* the second it serves for ever: the clock was read before the loop (line  *)
(* 117), and what became due since waits for the next tick.                 *)
ArmsDue == \E t \in alive' \ alive : expire'[t] <= cur

TickTerminates ==
    <>[][~ArmsDue]_vars => (pc \in {"ticking", "firing"} ~> pc = "idle" \/ crashed)

(* The list keeps the promise of DeadlineTimers, until it crashes: exactly  *)
(* the timers that are due fire in a tick, the earliest first, none twice.  *)
Off == -1
Deadlines == INSTANCE DeadlineTimers WITH
    Times <- {time + delay : time \in 0 .. MaxTime, delay \in Delays \cup {0}},
    deadline <- [t \in Timers |-> IF t \in alive THEN expire[t] ELSE Off],
    phase <- pc,
    firing <- IF pc = "firing" THEN tmp ELSE NULL

KeepsDeadlines == Deadlines!Spec

(* delete_timer removes every timer a caller can name, the last as well.    *)
EveryTimerCanBeDeleted == ~crashed

=============================================================================
