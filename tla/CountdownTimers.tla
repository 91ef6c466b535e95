-------------------------- MODULE CountdownTimers --------------------------
(***************************************************************************)
(* What the time wheel promises to its caller, without slots, rotations or *)
(* links: an armed timer counts completed ticks down, and a tick runs the  *)
(* callback of exactly the timers whose count is 0.  Callbacks may arm and *)
(* cancel other timers.                                                    *)
(*                                                                         *)
(* One promise depends on who arms the timer.  A timer armed by a callback *)
(* for a whole number of revolutions (ticks % N = 0) waits one revolution  *)
(* longer than the same timer armed between two ticks: the slot it hashes  *)
(* to is the one being visited.                                            *)
(***************************************************************************)
EXTENDS Integers

CONSTANTS Timers,     (* the timers a caller may hold at one time          *)
          NULL,       (* no timer                                          *)
          N,          (* ticks per revolution                              *)
          Durations   (* the numbers of ticks a timer may be armed for     *)

VARIABLES left,     (* completed ticks before each timer is due, or Off    *)
          phase,    (* "idle", "ticking", "firing", "closing" or "closed"  *)
          firing    (* the timer whose callback runs, or NULL              *)

vars == <<left, phase, firing>>

Off == -1

Armed == {t \in Timers : left[t] # Off}

Init ==
    /\ left = [t \in Timers |-> Off]
    /\ phase = "idle"
    /\ firing = NULL

Arm(t, ticks) ==
    /\ phase \in {"idle", "firing"}
    /\ t \notin Armed
    /\ left' = [left EXCEPT ![t] =
                  IF phase = "firing" /\ ticks % N = 0 THEN ticks + N ELSE ticks]
    /\ UNCHANGED <<phase, firing>>

Cancel(t) ==
    /\ phase \in {"idle", "firing"}
    /\ t \in Armed \ {firing}
    /\ left' = [left EXCEPT ![t] = Off]
    /\ UNCHANGED <<phase, firing>>

BeginTick ==
    /\ phase = "idle"
    /\ phase' = "ticking"
    /\ UNCHANGED <<left, firing>>

Fire(t) ==
    /\ phase = "ticking"
    /\ left[t] = 0
    /\ phase' = "firing"
    /\ firing' = t
    /\ UNCHANGED left

CallbackReturns ==
    /\ phase = "firing"
    /\ left' = [left EXCEPT ![firing] = Off]
    /\ phase' = "ticking"
    /\ firing' = NULL

EndTick ==
    /\ phase = "ticking"
    /\ \A t \in Timers : left[t] # 0
    /\ left' = [t \in Timers |-> IF t \in Armed THEN left[t] - 1 ELSE Off]
    /\ phase' = "idle"
    /\ UNCHANGED firing

BeginClose ==
    /\ phase = "idle"
    /\ phase' = "closing"
    /\ UNCHANGED <<left, firing>>

Drop(t) ==
    /\ phase = "closing"
    /\ t \in Armed
    /\ left' = [left EXCEPT ![t] = Off]
    /\ UNCHANGED <<phase, firing>>

EndClose ==
    /\ phase = "closing"
    /\ Armed = {}
    /\ phase' = "closed"
    /\ UNCHANGED <<left, firing>>

Next ==
    \/ \E t \in Timers : \/ \E ticks \in Durations : Arm(t, ticks)
                         \/ Cancel(t) \/ Fire(t) \/ Drop(t)
    \/ BeginTick \/ CallbackReturns \/ EndTick
    \/ BeginClose \/ EndClose

Spec == Init /\ [][Next]_vars

=============================================================================
