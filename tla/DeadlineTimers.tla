--------------------------- MODULE DeadlineTimers ---------------------------
(***************************************************************************)
(* What a timer container with absolute deadlines promises to its caller:  *)
(* a tick reads the clock once and runs the callbacks of exactly the       *)
(* timers that are due by then, the earliest first; callbacks may arm,     *)
(* postpone and cancel other timers.                                       *)
(***************************************************************************)
EXTENDS Integers

CONSTANTS Timers,     (* the timers a caller may hold at one time          *)
          NULL,       (* no timer                                          *)
          Times       (* the readings of the clock and the deadlines       *)

VARIABLES deadline,   (* of each timer, or Off                             *)
          now,        (* the clock                                         *)
          phase,      (* "idle", "ticking", "firing" or "gone"             *)
          cur,        (* the clock as a running tick has read it, else 0   *)
          firing      (* the timer whose callback runs, or NULL            *)

vars == <<deadline, now, phase, cur, firing>>

Off == -1

Armed == {t \in Timers : deadline[t] # Off}
Due == {t \in Armed : deadline[t] <= cur}

Init ==
    /\ deadline = [t \in Timers |-> Off]
    /\ now = 0
    /\ phase = "idle"
    /\ cur = 0
    /\ firing = NULL

TimePasses ==
    /\ now' \in Times
    /\ now' > now
    /\ UNCHANGED <<deadline, phase, cur, firing>>

Callable == phase \in {"idle", "firing"}

Arm(t, expire) ==
    /\ Callable
    /\ t \notin Armed
    /\ expire >= now
    /\ deadline' = [deadline EXCEPT ![t] = expire]
    /\ UNCHANGED <<now, phase, cur, firing>>

Postpone(t, expire) ==
    /\ Callable
    /\ t \in Armed \ {firing}
    /\ expire >= deadline[t]
    /\ deadline' = [deadline EXCEPT ![t] = expire]
    /\ UNCHANGED <<now, phase, cur, firing>>

Cancel(t) ==
    /\ Callable
    /\ t \in Armed \ {firing}
    /\ deadline' = [deadline EXCEPT ![t] = Off]
    /\ UNCHANGED <<now, phase, cur, firing>>

BeginTick ==
    /\ phase = "idle"
    /\ phase' = "ticking"
    /\ cur' = now
    /\ UNCHANGED <<deadline, now, firing>>

Fire(t) ==
    /\ phase = "ticking"
    /\ t \in Due
    /\ \A u \in Due : deadline[t] <= deadline[u]
    /\ phase' = "firing"
    /\ firing' = t
    /\ UNCHANGED <<deadline, now, cur>>

CallbackReturns ==
    /\ phase = "firing"
    /\ deadline' = [deadline EXCEPT ![firing] = Off]
    /\ phase' = "ticking"
    /\ firing' = NULL
    /\ UNCHANGED <<now, cur>>

EndTick ==
    /\ phase = "ticking"
    /\ Due = {}
    /\ phase' = "idle"
    /\ cur' = 0
    /\ UNCHANGED <<deadline, now, firing>>

Destroy ==
    /\ phase = "idle"
    /\ phase' = "gone"
    /\ deadline' = [t \in Timers |-> Off]
    /\ UNCHANGED <<now, cur, firing>>

Next ==
    \/ \E t \in Timers : \/ \E expire \in Times : Arm(t, expire) \/ Postpone(t, expire)
                         \/ Cancel(t) \/ Fire(t)
    \/ TimePasses \/ BeginTick \/ CallbackReturns \/ EndTick \/ Destroy

Spec == Init /\ [][Next]_vars

=============================================================================
