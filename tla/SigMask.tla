------------------------------ MODULE SigMask ------------------------------
(***************************************************************************)
(* src/sigmask.cc: main() blocks SIGQUIT and SIGUSR1, starts a thread that *)
(* waits for them with sigwait(), and pauses.  A thread starts with its    *)
(* creator's mask.                                                         *)
(*                                                                         *)
(* External: whoever sends signals to the process, and the kernel.  A      *)
(* signal that some thread does not block takes its default action, which  *)
(* ends the process; otherwise it is pending, once however often it came,  *)
(* until sigwait() takes it.                                               *)
(***************************************************************************)
EXTENDS Naturals

CONSTANT MaxSignals          (* signals sent at most                       *)
ASSUME SigMaskAssumption == MaxSignals \in Nat

MaskSet == {"SIGQUIT", "SIGUSR1"}
Threads == {"main", "sig_thread"}

VARIABLES
    mask,       (* the signals each thread blocks                          *)
    threads,    (* the threads that run                                    *)
    pendings,   (* the signals pending for the process                     *)
    raised,     (* signals sent                                            *)
    spc         (* main(): "sigmask", "create", "pause" or "dead"          *)

sigVars == <<mask, threads, pendings, raised, spc>>

SigInit ==
    /\ mask = [t \in Threads |-> {}] /\ threads = {"main"}
    /\ pendings = {} /\ raised = 0 /\ spc = "sigmask"

(* handle_error_en: pthread_sigmask(), pthread_create() or, in the thread, *)
(* sigwait() failed.                                                       *)
ErrorExit ==
    /\ spc \in {"sigmask", "create"} \/ ("sig_thread" \in threads /\ spc # "dead")
    /\ spc' = "dead"
    /\ UNCHANGED <<mask, threads, pendings, raised>>

PthreadSigmask ==
    /\ spc = "sigmask"
    /\ mask' = [mask EXCEPT !["main"] = MaskSet]
    /\ spc' = "create"
    /\ UNCHANGED <<threads, pendings, raised>>

(* Variant: the thread starts with no signal blocked, as it would before   *)
(* pthread_sigmask().                                                      *)
PthreadCreateVariant ==
    /\ spc = "create" /\ threads' = Threads
    /\ spc' = "pause" /\ UNCHANGED <<mask, pendings, raised>>

PthreadCreate ==
    /\ spc = "create"
    /\ threads' = Threads
    /\ mask' = [mask EXCEPT !["sig_thread"] = mask["main"]]
    /\ spc' = "pause"
    /\ UNCHANGED <<pendings, raised>>

(* sig_thread(): one turn of the loop.                                     *)
SigWait ==
    /\ "sig_thread" \in threads /\ spc # "dead"
    /\ \E s \in pendings \cap MaskSet : pendings' = pendings \ {s}
    /\ UNCHANGED <<mask, threads, raised, spc>>

Raise(s) ==
    /\ raised < MaxSignals /\ spc # "dead"
    /\ raised' = raised + 1
    /\ IF \E t \in threads : s \notin mask[t]
       THEN spc' = "dead" /\ UNCHANGED pendings
       ELSE pendings' = pendings \cup {s} /\ UNCHANGED spc
    /\ UNCHANGED <<mask, threads>>

SigStep == PthreadSigmask \/ PthreadCreate \/ SigWait
SigNext == SigStep \/ ErrorExit \/ \E s \in MaskSet : Raise(s)

SigSpec == SigInit /\ [][SigNext]_sigVars
----------------------------------------------------------------------------
(* From pthread_sigmask() on, no signal of the set ends the process, in    *)
(* whichever thread it would be delivered.                                 *)
SignalsAreBlocked ==
    [][\A s \in MaskSet : spc # "sigmask" /\ Raise(s) => spc' # "dead"]_sigVars

(* And sig_thread gets every one of them, those sent before it was started *)
(* too, unless a call fails.                                               *)
SignalsAreWaitedFor ==
    /\ SignalsAreBlocked
    /\ \A s \in MaskSet : s \in pendings ~> (s \notin pendings \/ spc = "dead")
=============================================================================
