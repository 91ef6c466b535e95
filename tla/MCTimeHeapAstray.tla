-------------------------- MODULE MCTimeHeapAstray --------------------------
(* A caller that makes certain calls, each at any time before the first     *)
(* deadline.                                                                *)
EXTENDS TimeHeap, Sequences

Latest == 5             (* Bound: the last second in which a call is made   *)
PopCalled == -1

(* The calls on a heap with room for eight: a rank adds a timer whose       *)
(* deadline is so many seconds after Latest.                                *)
Calls == <<5, 2, 2, 3, 2, 7, 3, 1, 2, 4, 1, 2, PopCalled, PopCalled, PopCalled, 0>>
         \o [i \in 1 .. 6 |-> PopCalled] \o <<6, PopCalled>>

VARIABLE made           (* the number of calls made                         *)

Make(call) ==
    /\ made < Len(Calls)
    /\ call = Calls[made + 1]
    /\ made' = made + 1

CallAdd(rank) ==
    /\ Make(rank)
    /\ AddTimer(CHOOSE t \in Timers \ alive : TRUE, Latest + rank - now)

CallPop == Make(PopCalled) /\ Pop

Wait == now < Latest /\ TimePasses /\ UNCHANGED made

Construct == NewHeap(8) /\ UNCHANGED made

CallerInit == Init /\ made = 0
Caller == Construct \/ CallPop \/ \E rank \in 0 .. 7 : CallAdd(rank)
CallerSpec ==
    /\ CallerInit /\ [][Caller \/ Wait]_<<vars, made>>
    /\ WF_<<vars, made>>(Caller)

(* percolate_down does not only read what lies behind the last timer: here  *)
(* it moves such an entry up, though every access is to a live timer inside *)
(* the array.  A timer that is neither popped nor freed is on the heap no   *)
(* more, and will never fire.                                               *)
TimerIsLost == <>(\E t \in alive : t \notin OnHeap)
=============================================================================
