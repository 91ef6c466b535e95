----------------------------- MODULE IpcPrivate -----------------------------
(***************************************************************************)
(* src/ipc_private.cc: a parent and a child share a System V semaphore and *)
(* hold it for five seconds each.  Every semop() has SEM_UNDO: the kernel  *)
(* keeps the opposite of what a process did to the semaphore and applies   *)
(* it when the process ends, killed or not.                                *)
(*                                                                         *)
(* pv() looks at no result.  semop() fails at once when semget() had       *)
(* failed, and a blocked one fails when the process is stopped and         *)
(* continued (no handler is installed, so no other signal interrupts it);  *)
(* the caller goes on as if it had the semaphore, and gives back what it   *)
(* never took.                                                             *)
(***************************************************************************)
EXTENDS Integers

Processes == {"parent", "child"}
Removed == -1                (* the semaphore does not exist               *)

VARIABLES
    semval,     (* its value, or Removed                                   *)
    semadj,     (* what the end of each process adds to it                 *)
    ipc,        (* next step of each process                               *)
    refused     (* history: the processes whose pv(sem_id, -1) failed      *)

ipcVars == <<semval, semadj, ipc, refused>>

Goto(p, step) == ipc' = [ipc EXCEPT ![p] = step]

(* semget() may fail, unnoticed; SETVAL sets the value to 1.               *)
IpcInit ==
    /\ semval \in {1, Removed}
    /\ semadj = [p \in Processes |-> 0]
    /\ ipc = [p \in Processes |-> IF p = "parent" THEN "fork" ELSE "unborn"]
    /\ refused = {}

(* The child inherits sem_id but no undo values.                           *)
Fork ==
    /\ ipc["parent"] = "fork"
    /\ \/ ipc' = [p \in Processes |-> "acquire"]
       \/ Goto("parent", "left")
    /\ UNCHANGED <<semval, semadj, refused>>

(* Variant: no SEM_UNDO in sem_flg.                                        *)
pvVariant(p, op) ==
    /\ semval # Removed /\ semval + op >= 0
    /\ semval' = semval + op /\ UNCHANGED semadj

pv(p, op) ==
    /\ semval # Removed
    /\ semval + op >= 0
    /\ semval' = semval + op
    /\ semadj' = [semadj EXCEPT ![p] = @ - op]

Acquire(p) ==
    /\ ipc[p] = "acquire"
    /\ pv(p, -1)
    /\ Goto(p, "release")
    /\ UNCHANGED refused

(* semop() fails: there is no semaphore to operate on ...                  *)
AcquireFails(p) ==
    /\ ipc[p] = "acquire" /\ semval = Removed
    /\ refused' = refused \cup {p}
    /\ Goto(p, "release")
    /\ UNCHANGED <<semval, semadj>>

(* ... or the blocked process is stopped and continued.                    *)
AcquireInterrupted(p) ==
    /\ ipc[p] = "acquire" /\ semval = 0
    /\ refused' = refused \cup {p}
    /\ Goto(p, "release")
    /\ UNCHANGED <<semval, semadj>>

(* After five seconds.                                                     *)
Release(p) ==
    /\ ipc[p] = "release"
    /\ \/ pv(p, 1)
       \/ semval = Removed /\ UNCHANGED <<semval, semadj>>
    /\ Goto(p, IF p = "child" THEN "exit" ELSE "waitpid")
    /\ UNCHANGED refused

(* The kernel's part in the end of a process.                              *)
Undo(p) ==
    /\ semadj' = [semadj EXCEPT ![p] = 0]
    /\ semval' = IF semval = Removed THEN Removed
                 ELSE IF semval + semadj[p] < 0 THEN 0 ELSE semval + semadj[p]

ChildExits ==
    /\ ipc["child"] = "exit"
    /\ Undo("child")
    /\ Goto("child", "ended")
    /\ UNCHANGED refused

(* Variant: IPC_RMID without the waitpid() before it.                      *)
RemoveVariant ==
    /\ ipc["parent"] = "waitpid" /\ semval' = Removed
    /\ semadj' = [p \in Processes |-> 0] /\ Goto("parent", "ended") /\ UNCHANGED refused

(* waitpid(), IPC_RMID and the return of main().                           *)
RemoveSemaphore ==
    /\ ipc["parent"] = "waitpid" /\ ipc["child"] = "ended"
    /\ semval' = Removed
    /\ semadj' = [p \in Processes |-> 0]
    /\ Goto("parent", "ended")
    /\ UNCHANGED refused

(* A process is killed, anywhere.  One that returned early keeps nothing.  *)
Kill(p) ==
    /\ ipc[p] \notin {"unborn", "left", "ended", "killed"}
    /\ Undo(p)
    /\ Goto(p, IF p = "child" THEN "ended" ELSE "killed")
    /\ UNCHANGED refused

(* sleep(5) ends and a runnable process runs; nobody need be killed.       *)
IpcStep ==
    \/ Fork \/ ChildExits \/ RemoveSemaphore
    \/ \E p \in Processes : Acquire(p) \/ AcquireFails(p) \/ Release(p)
IpcNext == IpcStep \/ \E p \in Processes : AcquireInterrupted(p) \/ Kill(p)
IpcSpec == IpcInit /\ [][IpcNext]_ipcVars
----------------------------------------------------------------------------
(* A process gives back, at its end, exactly what it still has: value and  *)
(* undo values always add up to the 1 of SETVAL, whoever was killed when,  *)
(* and whoever released what it had not acquired.                          *)
UndoBalances == semval # Removed => semval + semadj["parent"] + semadj["child"] = 1

(* Between the two pv() calls there is one process, unless a semop()       *)
(* failed; and no process is left there without a semaphore that existed.  *)
MutualExclusion ==
    refused = {} => /\ ~ \A p \in Processes : ipc[p] = "release"
                    /\ \A p \in Processes : ipc[p] = "release" => semval # Removed

SemaphoreKept == UndoBalances /\ MutualExclusion

(* pv(sem_id, -1) blocks nobody forever, even when the holder is killed.   *)
WaiterPasses == \A p \in Processes : ipc[p] = "acquire" ~> ipc[p] # "acquire"
=============================================================================
