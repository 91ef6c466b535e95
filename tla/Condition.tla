----------------------------- MODULE Condition -----------------------------
(***************************************************************************)
(* src/locker.cc, class cond: a condition variable with a mutex of its     *)
(* own.  wait() locks the mutex only around pthread_cond_wait() and tests  *)
(* nothing; signal() does not lock it.  A signal sent before the waiter    *)
(* blocks wakes nobody, and no caller can prevent that.                    *)
(*                                                                         *)
(* External: the threads that call wait() and signal(), and pthreads,      *)
(* whose pthread_cond_wait() gives up the mutex and blocks in one step,    *)
(* may return without a signal, and takes the mutex before it returns.     *)
(* The owner destroys the object when no thread is inside.                 *)
(***************************************************************************)
EXTENDS Naturals

CONSTANTS Waiters,           (* the threads that call wait()               *)
          Nobody,            (* no thread                                  *)
          MaxCalls           (* calls of wait() and signal() at most       *)

ASSUME ConditionAssumption == Nobody \notin Waiters /\ MaxCalls \in Nat

VARIABLES
    object,     (* "new", "alive", "thrown" or "destroyed"                 *)
    inited,     (* which of "mutex" and "cond" pthreads has initialised    *)
    m_mutex,    (* the thread that has locked the mutex, or Nobody         *)
    wpc,        (* each thread: "out", "lock", "wait", "blocked", "woken"  *)
                (* or "unlock"                                             *)
    calls       (* calls of wait() and signal()                            *)

condVars == <<object, inited, m_mutex, wpc, calls>>

CondInit ==
    /\ object = "new" /\ inited = {} /\ m_mutex = Nobody
    /\ wpc = [t \in Waiters |-> "out"] /\ calls = 0

(* Either initialisation may fail; after the second the mutex is destroyed.*)
Construct ==
    /\ object = "new"
    /\ \/ object' = "alive" /\ inited' = {"mutex", "cond"}
       \/ object' = "thrown" /\ inited' = {}
    /\ UNCHANGED <<m_mutex, wpc, calls>>

Destruct ==
    /\ object = "alive" /\ \A t \in Waiters : wpc[t] = "out"
    /\ object' = "destroyed" /\ inited' = {}
    /\ UNCHANGED <<m_mutex, wpc, calls>>

Moves(t, from, to) == wpc[t] = from /\ wpc' = [wpc EXCEPT ![t] = to]

CallWait(t) ==
    /\ object = "alive" /\ calls < MaxCalls /\ Moves(t, "out", "lock")
    /\ calls' = calls + 1
    /\ UNCHANGED <<object, inited, m_mutex>>

(* pthread_mutex_lock(), first in wait() and then in pthread_cond_wait().  *)
Lock(t) ==
    /\ m_mutex = Nobody /\ m_mutex' = t
    /\ Moves(t, "lock", "wait") \/ Moves(t, "woken", "unlock")
    /\ UNCHANGED <<object, inited, calls>>

Block(t) ==
    /\ Moves(t, "wait", "blocked") /\ m_mutex' = Nobody
    /\ UNCHANGED <<object, inited, calls>>

(* Variant: wait() without its pthread_mutex_unlock().                     *)
UnlockVariant(t) == Moves(t, "unlock", "out") /\ UNCHANGED <<object, inited, m_mutex, calls>>

Unlock(t) ==
    /\ Moves(t, "unlock", "out") /\ m_mutex' = Nobody
    /\ UNCHANGED <<object, inited, calls>>

Spurious(t) == Moves(t, "blocked", "woken") /\ UNCHANGED <<object, inited, m_mutex, calls>>

signal ==
    /\ object = "alive" /\ calls < MaxCalls
    /\ calls' = calls + 1
    /\ \/ \E t \in Waiters : Moves(t, "blocked", "woken")
       \/ (\A t \in Waiters : wpc[t] # "blocked") /\ UNCHANGED wpc
    /\ UNCHANGED <<object, inited, m_mutex>>

WaitStep(t) == Lock(t) \/ Block(t) \/ Unlock(t)
CondNext ==
    \/ Construct \/ Destruct \/ signal
    \/ \E t \in Waiters : CallWait(t) \/ WaitStep(t) \/ Spurious(t)
----------------------------------------------------------------------------
(* wait() returns once its thread is woken, however many threads wait and  *)
(* call it again: no path through it keeps the hidden mutex.  (A thread    *)
(* that blocks after the last signal() stays.)                             *)
WokenReturns == \A t \in Waiters : wpc[t] = "woken" ~> wpc[t] = "out"
=============================================================================
