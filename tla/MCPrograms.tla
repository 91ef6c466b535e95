----------------------------- MODULE MCPrograms -----------------------------
(* The programs of the repository that share no code, side by side: a      *)
(* behaviour is one of one of them, and leaves the others at their start.  *)
EXTENDS IpcPrivate, EpollServer, UrgentData, Connects, SigMask, Condition

VARIABLE program
vars == <<program, ipcVars, epollVars, urgentVars, connectVars, sigVars, condVars>>

Init ==
    /\ program \in {"ipc_private", "epoll", "urgent", "connect", "sigmask", "cond"}
    /\ IpcInit /\ SigInit /\ CondInit
    /\ \E h \in {"lt", "et"} : EpollInit(h)
    /\ \E r \in Receivers : UrgentInit(r)
    /\ \E f \in Functions : ConnectInit(f)
    /\ program # "ipc_private" => semval = 1
    /\ program # "epoll" => handler = "et"
    /\ program # "urgent" => receiver = "select"
    /\ program # "connect" => caller = "unblock_connect"

Next ==
    /\ UNCHANGED program
    /\ \/ program = "ipc_private" /\ IpcNext
          /\ UNCHANGED <<epollVars, urgentVars, connectVars, sigVars, condVars>>
       \/ program = "epoll" /\ EpollNext
          /\ UNCHANGED <<ipcVars, urgentVars, connectVars, sigVars, condVars>>
       \/ program = "urgent" /\ UrgentNext
          /\ UNCHANGED <<ipcVars, epollVars, connectVars, sigVars, condVars>>
       \/ program = "connect" /\ ConnectNext
          /\ UNCHANGED <<ipcVars, epollVars, urgentVars, sigVars, condVars>>
       \/ program = "sigmask" /\ SigNext
          /\ UNCHANGED <<ipcVars, epollVars, urgentVars, connectVars, condVars>>
       \/ program = "cond" /\ CondNext
          /\ UNCHANGED <<ipcVars, epollVars, urgentVars, connectVars, sigVars>>

FairSpec ==
    /\ Init /\ [][Next]_vars
    /\ WF_ipcVars(program = "ipc_private" /\ IpcStep)
    /\ WF_epollVars(program = "epoll" /\ EpollServerStep)
    /\ WF_urgentVars(program = "urgent" /\ Receive)
    /\ WF_sigVars(program = "sigmask" /\ SigStep)
    /\ \A t \in Waiters : WF_condVars(WaitStep(t))
=============================================================================
