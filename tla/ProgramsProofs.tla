--------------------------- MODULE ProgramsProofs ---------------------------
(***************************************************************************)
(* The safety properties of ipc_private.cc, of the receivers of urgent     *)
(* data, of the two connecting clients, of epoll.cc and of sigmask.cc.     *)
(***************************************************************************)
EXTENDS IpcPrivate, EpollServer, UrgentData, Connects, SigMask, SequenceTheorems, TLAPS

(* What a process owes the semaphore, by where it is: nothing before it    *)
(* has it and after its end; 1 while it holds it, unless semop() failed;   *)
(* then releasing makes it -1 until the end.  A refused process was at the *)
(* semaphore; without a semaphore nobody owes anything.                    *)
Owes ==
    \A p \in Processes :
        /\ ipc[p] \in {"unborn", "fork", "left", "acquire", "ended", "killed"} => semadj[p] = 0
        /\ ipc[p] = "release" => semadj[p] = IF p \in refused THEN 0 ELSE 1
        /\ ipc[p] \in {"waitpid", "exit"} => semadj[p] \in {-1, 0}
        /\ p \in refused => ipc[p] \notin {"unborn", "fork", "acquire"}
        /\ semval = Removed => semadj[p] = 0

IpcInv ==
    /\ semval \in Int /\ Removed <= semval
    /\ semadj \in [Processes -> Int]
    /\ ipc \in [Processes -> {"unborn", "fork", "left", "acquire", "release",
                              "waitpid", "exit", "ended", "killed"}]
    /\ refused \subseteq Processes
    /\ ipc["parent"] = "fork" => ipc["child"] = "unborn"
    /\ Owes
    /\ UndoBalances

(* The clamp at 0 of the kernel never takes anything: the other process    *)
(* owes at most 1.                                                         *)
LEMMA UndoKeepsBalance ==
    ASSUME IpcInv, NEW p \in Processes, Undo(p)
    PROVE  /\ semval' \in Int /\ Removed <= semval'
           /\ semadj' \in [Processes -> Int]
           /\ semadj'[p] = 0
           /\ \A q \in Processes \ {p} : semadj'[q] = semadj[q]
           /\ semval' = Removed <=> semval = Removed
           /\ UndoBalances'
<1> USE DEF Processes, Removed
<1>1. \A q \in Processes : semadj[q] \in Int /\ semadj[q] <= 1
  BY DEF IpcInv, Owes
<1>2. semval # Removed => semval + semadj[p] >= 0 /\ semval' = semval + semadj[p]
  BY <1>1 DEF IpcInv, Undo, UndoBalances
<1>3. semadj' = [semadj EXCEPT ![p] = 0] /\ (semval = Removed => semval' = Removed)
  BY DEF Undo
<1>4. UndoBalances'
  BY <1>1, <1>2, <1>3 DEF UndoBalances, IpcInv
<1> QED BY <1>1, <1>2, <1>3, <1>4 DEF IpcInv

(* An operation moves as much from the undo value as to the semaphore.     *)
LEMMA pvKeepsBalance ==
    ASSUME IpcInv, NEW p \in Processes, NEW op \in {-1, 1}, pv(p, op)
    PROVE  /\ semval' \in Nat /\ semval # Removed
           /\ semadj' \in [Processes -> Int]
           /\ semadj'[p] = semadj[p] - op
           /\ \A q \in Processes \ {p} : semadj'[q] = semadj[q]
           /\ UndoBalances'
<1> USE DEF Processes, Removed
<1>1. /\ semval' \in Nat /\ semval # Removed /\ semval' = semval + op
      /\ semadj' = [semadj EXCEPT ![p] = @ - op]
      /\ \A q \in Processes : semadj[q] \in Int
  BY DEF pv, IpcInv
<1>2. semadj' \in [Processes -> Int] /\ semadj'[p] = semadj[p] - op
  BY <1>1 DEF IpcInv
<1>3. \A q \in Processes \ {p} : semadj'[q] = semadj[q]
  BY <1>1 DEF IpcInv
<1>4. semadj'["parent"] + semadj'["child"] = semadj["parent"] + semadj["child"] - op
  <2>1. CASE p = "parent"
    BY <1>1, <1>2, <1>3, <2>1
  <2>2. CASE p = "child"
    BY <1>1, <1>2, <1>3, <2>2
  <2> QED BY <2>1, <2>2
<1>5. UndoBalances'
  BY <1>1, <1>2, <1>4 DEF UndoBalances, IpcInv
<1> QED BY <1>1, <1>2, <1>3, <1>5

LEMMA IpcStepKeeps == IpcInv /\ [IpcNext]_ipcVars => IpcInv'
<1> SUFFICES ASSUME IpcInv, [IpcNext]_ipcVars
             PROVE  IpcInv'
  OBVIOUS
<1> USE DEF Processes, Removed
<1>1. CASE Fork
  BY <1>1 DEF Fork, Goto, IpcInv, Owes, UndoBalances
<1>2. ASSUME NEW p \in Processes, Acquire(p)
      PROVE  IpcInv'
  <2>1. pv(p, -1) /\ refused' = refused /\ ipc[p] = "acquire" /\ ipc' = [ipc EXCEPT ![p] = "release"]
    BY <1>2 DEF Acquire, Goto
  <2>2. semadj'[p] = 1 /\ p \notin refused
    BY <2>1, pvKeepsBalance DEF IpcInv, Owes
  <2>3. Owes'
    BY <2>1, <2>2, pvKeepsBalance DEF IpcInv, Owes
  <2> QED BY <2>1, <2>3, pvKeepsBalance DEF IpcInv
<1>3. ASSUME NEW p \in Processes, AcquireFails(p) \/ AcquireInterrupted(p)
      PROVE  IpcInv'
  <2>1. CASE AcquireFails(p)
    BY <2>1 DEF AcquireFails, Goto, IpcInv, Owes, UndoBalances
  <2>2. CASE AcquireInterrupted(p)
    BY <2>2 DEF AcquireInterrupted, Goto, IpcInv, Owes, UndoBalances
  <2> QED BY <1>3, <2>1, <2>2
<1>4. ASSUME NEW p \in Processes, Release(p)
      PROVE  IpcInv'
  <2>1. CASE pv(p, 1)
    <3>1. /\ refused' = refused /\ ipc[p] = "release"
          /\ ipc' = [ipc EXCEPT ![p] = IF p = "child" THEN "exit" ELSE "waitpid"]
      BY <1>4 DEF Release, Goto
    <3>2. semadj'[p] \in {-1, 0}
      BY <2>1, <3>1, pvKeepsBalance DEF IpcInv, Owes
    <3>3. Owes'
      BY <2>1, <3>1, <3>2, pvKeepsBalance DEF IpcInv, Owes
    <3> QED BY <2>1, <3>1, <3>3, pvKeepsBalance DEF IpcInv
  <2>2. CASE ~ pv(p, 1)
    BY <1>4, <2>2 DEF Release, Goto, IpcInv, Owes, UndoBalances
  <2> QED BY <2>1, <2>2
<1>5. CASE ChildExits
  BY <1>5, UndoKeepsBalance DEF ChildExits, Goto, IpcInv, Owes
<1>6. CASE RemoveSemaphore
  BY <1>6 DEF RemoveSemaphore, Goto, IpcInv, Owes, UndoBalances
<1>7. ASSUME NEW p \in Processes, Kill(p)
      PROVE  IpcInv'
  BY <1>7, UndoKeepsBalance DEF Kill, Goto, IpcInv, Owes
<1>8. CASE UNCHANGED ipcVars
  BY <1>8 DEF ipcVars, IpcInv, Owes, UndoBalances
<1> QED BY <1>1, <1>2, <1>3, <1>4, <1>5, <1>6, <1>7, <1>8 DEF IpcNext, IpcStep

(* Undo values and the semaphore always balance, whichever process is      *)
(* killed when; and the two are between their pv() calls together only     *)
(* after a semop() failed.                                                 *)
THEOREM SemaphoreIsKept == IpcSpec => []SemaphoreKept
<1>1. IpcInit => IpcInv
  BY DEF IpcInit, IpcInv, Owes, UndoBalances, Processes, Removed
<1>2. IpcInv => SemaphoreKept
  BY DEF IpcInv, Owes, UndoBalances, MutualExclusion, SemaphoreKept, Processes, Removed
<1> QED BY <1>1, <1>2, IpcStepKeeps, PTL DEF IpcSpec

-----------------------------------------------------------------------------
(* What the two functions know at each step.  An attempt is under way only *)
(* after connect(); a socket waited for in select() is open and            *)
(* non-blocking, and one asked for its error has had its answer.           *)
ConnectInv ==
    /\ caller \in Functions
    /\ cpc \in {"socket", "connect"} => network = "idle"
    /\ cpc = "connect" /\ caller = "timeout_connect" => socket = "open"
    /\ cpc \in {"socket", "connect"} /\ caller = "timeout_connect" => nonblocking = FALSE
    /\ cpc \in {"select", "getsockopt"} =>
          /\ caller = "unblock_connect" /\ socket = "open"
          /\ network \in {"pending", "established", "refused"}
    /\ cpc = "getsockopt" => network # "pending"
    /\ cpc = "connecting" => caller = "timeout_connect" /\ socket = "open" /\ nonblocking = FALSE
    /\ ConnectedOrClosed

(* The network's answer changes nothing for a call that has returned.      *)
LEMMA ConnectKeeps == ConnectInv /\ [ConnectNext]_connectVars => ConnectInv'
<1> SUFFICES ASSUME ConnectInv, [ConnectNext]_connectVars
             PROVE  ConnectInv'
  OBVIOUS
<1> USE DEF ConnectInv, ConnectedOrClosed, Functions
<1>1. CASE OpenSocket
  <2>1. caller = "timeout_connect" => nonblocking' = FALSE
    BY <1>1 DEF OpenSocket, Waiting
  <2>2. /\ caller' = caller /\ network' = network /\ network = "idle"
        /\ cpc' \in {"connect", "aborted"}
        /\ cpc' = "connect" /\ caller = "timeout_connect" => socket' = "open"
    BY <1>1 DEF OpenSocket, Waiting
  <2> QED BY <2>1, <2>2
<1>2. CASE NonBlockingConnect
  BY <1>2 DEF NonBlockingConnect, Return, Fail
<1>3. CASE SelectFails \/ SelectReturns
  BY <1>3 DEF SelectFails, SelectReturns, Waiting, Return, CloseAndFail
<1>4. CASE GetSockOpt
  BY <1>4 DEF GetSockOpt, Waiting, Return, CloseAndFail
<1>5. CASE BlockingConnect \/ BlockingConnectEnds
  BY <1>5 DEF BlockingConnect, BlockingConnectEnds, Waiting, Return, Fail
<1>6. CASE ConnectMain
  BY <1>6 DEF ConnectMain, Waiting
<1>7. CASE Answer
  BY <1>7 DEF Answer
<1>8. CASE UNCHANGED connectVars
  BY <1>8 DEF connectVars
<1> QED
  BY <1>1, <1>2, <1>3, <1>4, <1>5, <1>6, <1>7, <1>8 DEF ConnectNext, ConnectStep

(* A returned socket is connected and blocking, and a failed call leaves   *)
(* only the sockets open that the functions forget.                        *)
THEOREM SocketsAreRight == ConnectSpec => []ConnectedOrClosed
<1>1. (\E f \in Functions : ConnectInit(f)) => ConnectInv
  BY DEF ConnectInit, ConnectInv, ConnectedOrClosed
<1>2. ConnectInv => ConnectedOrClosed
  BY DEF ConnectInv
<1> QED BY <1>1, <1>2, ConnectKeeps, PTL DEF ConnectSpec

-----------------------------------------------------------------------------
(* The stream: what was sent, what arrived of it, and what of that recv()  *)
(* has passed.  The end of the stream comes after all of it.               *)
StreamInv ==
    /\ sends \in 0 .. 3
    /\ written = IF sends = 0 THEN 0 ELSE Writes[sends]
    /\ landed \in 0 .. written
    /\ pos \in 0 .. landed
    /\ fin => landed = 5

(* Which program is at which step; tcp_recv.cc asks for the urgent byte    *)
(* between its first recv(), which cannot pass it, and its last.           *)
ReceiverInv ==
    /\ receiver \in Receivers
    /\ rpc \in {"recv1", "oob", "recv2"} => receiver = "tcp_recv"
    /\ rpc \in {"select", "test"} => receiver = "select"
    /\ rpc \in {"add_sig", "own", "recv"} => receiver = "sigurg"
    /\ rpc \in {"accept", "recv1", "add_sig", "own"} => pos = 0
    /\ rpc = "recv2" => missed \/ urg \in {"read", "gone"}

(* The handler is installed before the socket has its owner, so a signal   *)
(* that was raised is handled; until then it is pending.                   *)
SignalInv ==
    /\ sig \subseteq {"handled", "owned", "pending"}
    /\ "owned" \in sig => "handled" \in sig
    /\ rpc = "own" => "handled" \in sig
    /\ "pending" \in sig => urg # "none"
    /\ receiver = "sigurg" /\ urg \in {"notyet", "valid"} => unowned \/ missed \/ "pending" \in sig

UrgentInv ==
    /\ StreamInv /\ ReceiverInv /\ SignalInv
    /\ urg \in {"none", "notyet", "valid", "read", "gone"}
    /\ lost => urg = "gone"
    /\ UrgentKept

(* The units after each send().                                            *)
LEMMA WritesAre == Writes[1] = 1 /\ Writes[2] = 3 /\ Writes[3] = 5
BY DEF Writes

LEMMA WrittenIs ==
    ASSUME StreamInv
    PROVE  /\ written \in {0, 1, 3, 5} /\ landed \in Nat /\ pos \in Nat
           /\ sends = 3 => written = 5
           /\ pos <= landed /\ landed <= written
BY WritesAre DEF StreamInv

(* recv() returns something exactly when it passes an ordinary unit, and   *)
(* it stops before the urgent byte unless it starts there.                 *)
LEMMA RecvStops ==
    ASSUME StreamInv
    PROVE  /\ Stop \in pos .. landed
           /\ Jumps => pos = Mark - 1 /\ Stop = landed /\ Mark <= landed
           /\ Jumps /\ Available # <<>> => Mark < landed
<1> USE DEF Mark
<1>1. /\ pos \in Nat /\ landed \in Nat /\ pos <= landed /\ landed <= 5
  BY WrittenIs
<1>2. Stop \in pos .. landed /\ (Jumps => pos = Mark - 1 /\ Stop = landed /\ Mark <= landed)
  BY <1>1 DEF Stop, Jumps
<1>3. ASSUME Jumps, landed = Mark
      PROVE  Available = <<>>
  BY <1>1, <1>2, <1>3 DEF Available, OrdinaryAmong, Ordinary
<1> QED BY <1>1, <1>2, <1>3

(* What an ordinary recv(), when it ends or jumps, does to the urgent byte. *)
LEMMA RecvKeeps ==
    ASSUME UrgentInv, NEW a, NEW b, Recv(a, b)
    PROVE  /\ StreamInv'
           /\ urg' = urg \/ urg' = "gone"
           /\ lost' => urg' = "gone"
           /\ lost' /\ ~ lost => /\ urg = "valid" /\ "pending" \notin sig
                               /\ Mark < landed /\ pos = Mark - 1
<1>1. /\ pos' = Stop /\ landed' = landed /\ written' = written /\ sends' = sends /\ fin' = fin
      /\ urg' = IF Jumps THEN "gone" ELSE urg
      /\ InputReady /\ ~ Held
  BY DEF Recv, senderVars, streamVars
<1>2. lost' = (lost \/ (Jumps /\ urg = "valid"))
  BY DEF Recv
<1>3. StreamInv /\ (lost => urg = "gone")
  BY DEF UrgentInv
<1>4. Stop \in Nat /\ StreamInv'
  BY <1>1, <1>3, RecvStops, WrittenIs DEF StreamInv
<1>5. Jumps => pos = Mark - 1 /\ Mark < landed /\ "pending" \notin sig
  BY <1>1, <1>3, RecvStops DEF InputReady, Held, StreamInv, Mark
<1> QED BY <1>1, <1>2, <1>3, <1>4, <1>5

LEMMA RecvWaitsKeeps ==
    ASSUME UrgentInv, RecvWaits
    PROVE  UrgentInv'
<1>1. /\ pos' = Mark /\ landed' = landed /\ written' = written /\ sends' = sends /\ fin' = fin
      /\ urg' = "gone" /\ rpc' = rpc /\ receiver' = receiver /\ sig' = sig
      /\ missed' = missed /\ unowned' = unowned
      /\ rpc \in {"recv", "recv2"} /\ Jumps /\ ~ Held
  BY DEF RecvWaits, senderVars, streamVars, signalVars
<1>2. lost' = (lost \/ urg = "valid")
  BY DEF RecvWaits
<1>3. pos = Mark - 1 /\ Mark <= landed /\ "pending" \notin sig
  BY <1>1, RecvStops DEF UrgentInv, Held
<1>4. StreamInv'
  BY <1>1, <1>3, WrittenIs DEF UrgentInv, StreamInv, Mark
<1>5. ReceiverInv' /\ SignalInv'
  BY <1>1 DEF UrgentInv, ReceiverInv, SignalInv
<1>6. urg = "valid" => missed \/ (receiver = "sigurg" /\ unowned)
  BY <1>1, <1>3 DEF UrgentInv, ReceiverInv, SignalInv
<1>7. UrgentKept'
  BY <1>1, <1>2, <1>6 DEF UrgentInv, UrgentKept
<1> QED BY <1>1, <1>4, <1>5, <1>7 DEF UrgentInv

(* What recv(MSG_OOB) does: it takes the byte or counts as a miss.         *)
LEMMA RecvOobKeeps ==
    ASSUME UrgentInv, NEW a, NEW b, RecvOob(a, b)
    PROVE  /\ StreamInv'
           /\ receiver' = receiver /\ pos' = pos /\ landed' = landed /\ unowned' = unowned /\ lost' = lost
           /\ \/ urg = "valid" /\ urg' = "read" /\ missed' = missed /\ rpc' = a
              \/ urg' = urg /\ urg # "valid" /\ missed' = TRUE /\ rpc' = b
           /\ lost' => urg' = "gone"
           /\ UrgentKept'
<1>1. /\ StreamInv'
      /\ receiver' = receiver /\ pos' = pos /\ landed' = landed /\ unowned' = unowned /\ lost' = lost
      /\ \/ urg = "valid" /\ urg' = "read" /\ missed' = missed /\ rpc' = a
         \/ urg' = urg /\ urg # "valid" /\ missed' = TRUE /\ rpc' = b
  BY DEF RecvOob, senderVars, streamVars, UrgentInv, StreamInv
<1> QED BY <1>1 DEF UrgentInv, UrgentKept

(* The sender and the network.                                             *)
LEMMA PeerKeeps ==
    ASSUME UrgentInv, SenderConnects \/ SenderSends \/ SenderCloses \/ Deliver \/ DeliverEnd
    PROVE  UrgentInv'
<1> DEFINE Rest == <<receiver, pos, rpc, missed, lost>>
<1>1. CASE SenderConnects \/ SenderCloses
  <2>1. UNCHANGED <<Rest, sends, written, landed, fin, urg, sig, unowned>>
    BY <1>1 DEF SenderConnects, SenderCloses, streamVars, readVars, signalVars
  <2> QED BY <2>1 DEF UrgentInv, StreamInv, ReceiverInv, SignalInv, UrgentKept
<1>2. CASE SenderSends
  <2>1. /\ UNCHANGED <<Rest, landed, fin, urg, sig, unowned>>
        /\ sends < 3 /\ sends' = sends + 1 /\ written' = Writes[sends + 1]
    BY <1>2 DEF SenderSends, streamVars, readVars, signalVars
  <2>2. StreamInv'
    <3>1. sends = 0 \/ sends = 1 \/ sends = 2
      BY <2>1 DEF UrgentInv, StreamInv
    <3>2. written <= written' /\ written' \in Nat
      BY <2>1, <3>1, WritesAre DEF UrgentInv, StreamInv
    <3> QED BY <2>1, <3>1, <3>2, WrittenIs DEF UrgentInv, StreamInv
  <2> QED BY <2>1, <2>2 DEF UrgentInv, ReceiverInv, SignalInv, UrgentKept
<1>3. CASE Deliver
  <2>1. PICK n \in landed + 1 .. written, pointer \in BOOLEAN :
          /\ landed' = n
          /\ urg' = IF urg \in {"none", "notyet"} /\ (pointer \/ urg = "notyet")
                    THEN IF n >= Mark THEN "valid" ELSE "notyet"
                    ELSE urg
          /\ IF urg = "none" /\ pointer
             THEN /\ sig' = IF sig = {"handled", "owned"} THEN sig \cup {"pending"} ELSE sig
                  /\ unowned' = ("owned" \notin sig)
             ELSE UNCHANGED <<sig, unowned>>
    BY <1>3 DEF Deliver
  <2>2. UNCHANGED <<Rest, sends, written, fin>>
    BY <1>3 DEF Deliver, readVars, senderVars
  <2>3. StreamInv' /\ landed <= landed'
    <3>1. fin => landed = 5 /\ written <= 5
      BY WrittenIs DEF UrgentInv, StreamInv
    <3> QED BY <2>1, <2>2, <3>1, WrittenIs DEF UrgentInv, StreamInv
  <2>4. ReceiverInv'
    BY <2>1, <2>2 DEF UrgentInv, ReceiverInv
  <2>5. SignalInv'
    <3>1. CASE urg = "none" /\ pointer
      BY <2>1, <2>2, <3>1 DEF UrgentInv, SignalInv
    <3>2. CASE ~ (urg = "none" /\ pointer)
      BY <2>1, <2>2, <3>2 DEF UrgentInv, SignalInv
    <3> QED BY <3>1, <3>2
  <2>6. lost' => lost /\ urg = "gone" /\ urg' = "gone" /\ unowned' = unowned
    BY <2>1, <2>2 DEF UrgentInv
  <2>7. UrgentKept'
    BY <2>2, <2>3, <2>6, WrittenIs DEF UrgentInv, StreamInv, UrgentKept, Mark
  <2> QED BY <2>1, <2>3, <2>4, <2>5, <2>6, <2>7 DEF UrgentInv
<1>4. CASE DeliverEnd
  <2>1. UNCHANGED <<Rest, sends, written, landed, urg, sig, unowned>> /\ landed = written /\ sends = 3
    BY <1>4 DEF DeliverEnd, senderVars, readVars, signalVars
  <2> QED BY <2>1, WrittenIs DEF UrgentInv, StreamInv, ReceiverInv, SignalInv, UrgentKept
<1> QED BY <1>1, <1>2, <1>3, <1>4

(* A step of a receiver that touches neither the stream nor the byte.      *)
LEMMA StepKeeps ==
    ASSUME UrgentInv, NEW to, Step(to)
    PROVE  /\ StreamInv'
           /\ UNCHANGED <<receiver, pos, landed, urg, unowned, missed, lost>>
           /\ rpc' = to
           /\ lost' => urg' = "gone"
           /\ UrgentKept'
BY DEF UrgentInv, Step, senderVars, streamVars, StreamInv, UrgentKept

LEMMA ReceiveKeeps == ASSUME UrgentInv, Receive PROVE UrgentInv'
<1>1. ASSUME NEW a, NEW b, Recv(a, b),
             \/ rpc \in {"recv1", "recv2"} /\ a \in {"oob", "done"} /\ b \in {"oob", "done"}
             \/ rpc \in {"recv", "test"} /\ a \in {"recv", "select"} /\ b = "done"
                   /\ (a = "recv" <=> rpc = "recv")
      PROVE  UrgentInv'
  <2>1. /\ UNCHANGED <<receiver, landed, sig, missed, unowned>> /\ rpc' \in {a, b}
    BY <1>1 DEF Recv, streamVars, signalVars
  <2>2. rpc = "recv1" => ~ (lost' /\ ~ lost)
    BY <1>1, RecvKeeps DEF UrgentInv, ReceiverInv, Mark
  <2>3. lost' /\ ~ lost => missed \/ (receiver = "sigurg" /\ unowned) \/ (receiver = "select" /\ landed > Mark)
    BY <1>1, <2>2, RecvKeeps DEF UrgentInv, ReceiverInv, SignalInv, Receivers, Mark, StreamInv
  <2>4. UrgentKept'
    BY <2>1, <2>3 DEF UrgentInv, UrgentKept
  <2>5. ReceiverInv' /\ SignalInv'
    BY <1>1, <2>1, RecvKeeps DEF UrgentInv, ReceiverInv, SignalInv, Receivers
  <2> QED BY <1>1, <2>4, <2>5, RecvKeeps DEF UrgentInv
<1>2. CASE TcpRecv
  <2>1. CASE AcceptElse("tcp_recv", "recv1", "failed")
    <3>1. PICK to \in {"recv1", "failed"} : Step(to) /\ sig' = sig /\ receiver = "tcp_recv" /\ rpc = "accept"
      BY <2>1 DEF AcceptElse
    <3>2. StreamInv' /\ UrgentKept' /\ (lost' => urg' = "gone")
      BY <3>1, StepKeeps
    <3>3. UNCHANGED <<receiver, pos, landed, urg, unowned, missed, lost>> /\ rpc' = to
      BY <3>1, StepKeeps
    <3> QED BY <3>1, <3>2, <3>3 DEF UrgentInv, ReceiverInv, SignalInv
  <2>2. CASE rpc = "oob" /\ RecvOob("recv2", "recv2") /\ UNCHANGED sig
    <3>1. StreamInv' /\ UrgentKept' /\ (lost' => urg' = "gone")
      BY <2>2, RecvOobKeeps
    <3>2. /\ UNCHANGED <<receiver, pos, landed, unowned>> /\ rpc' = "recv2"
          /\ \/ urg' = "read"
             \/ urg' = urg /\ missed' = TRUE
      BY <2>2, RecvOobKeeps
    <3> QED BY <2>2, <3>1, <3>2 DEF UrgentInv, ReceiverInv, SignalInv
  <2> QED BY <1>1, <1>2, <2>1, <2>2 DEF TcpRecv
<1>3. CASE SelectAccept \/ SigurgAccept
  <2>1. PICK to \in {"select", "stuck", "add_sig", "failed"} :
          /\ Step(to) /\ sig' = sig /\ rpc = "accept"
          /\ to = "select" => receiver = "select"
          /\ to = "add_sig" => receiver = "sigurg"
    BY <1>3 DEF SelectAccept, SigurgAccept, AcceptElse
  <2>2. StreamInv' /\ UrgentKept' /\ (lost' => urg' = "gone")
    BY <2>1, StepKeeps
  <2>3. UNCHANGED <<receiver, pos, landed, urg, unowned, missed, lost>> /\ rpc' = to
    BY <2>1, StepKeeps
  <2> QED BY <2>1, <2>2, <2>3 DEF UrgentInv, ReceiverInv, SignalInv
<1>4. CASE Select
  BY <1>4 DEF Select, senderVars, streamVars, signalVars, UrgentInv, ReceiverInv, SignalInv, StreamInv, UrgentKept
<1>5. CASE Selected
  <2>1. CASE RecvOob("select", "done") /\ UNCHANGED sig
    <3>1. StreamInv' /\ UrgentKept' /\ (lost' => urg' = "gone") /\ rpc = "test"
      BY <1>5, <2>1, RecvOobKeeps DEF Selected
    <3>2. /\ UNCHANGED <<receiver, pos, landed, unowned>> /\ rpc' \in {"select", "done"}
          /\ \/ urg' = "read"
             \/ urg' = urg /\ missed' = TRUE
      BY <2>1, RecvOobKeeps
    <3> QED BY <2>1, <3>1, <3>2 DEF UrgentInv, ReceiverInv, SignalInv
  <2> QED BY <1>1, <1>5, <2>1 DEF Selected
<1>6. CASE Install
  <2>1. PICK to \in {"own", "recv"} :
          /\ Step(to)
          /\ \/ to = "own" /\ rpc = "add_sig" /\ sig' = sig \cup {"handled"}
             \/ to = "recv" /\ rpc = "own" /\ sig' = sig \cup {"owned"}
    BY <1>6 DEF Install
  <2>2. StreamInv' /\ UrgentKept' /\ (lost' => urg' = "gone")
    BY <2>1, StepKeeps
  <2>3. UNCHANGED <<receiver, pos, landed, urg, unowned, missed, lost>> /\ rpc' = to
    BY <2>1, StepKeeps
  <2> QED BY <2>1, <2>2, <2>3 DEF UrgentInv, ReceiverInv, SignalInv
<1>7. CASE MainRecv
  BY <1>1, <1>7 DEF MainRecv
<1>8. CASE SigUrg
  <2>1. RecvOob(rpc, rpc) /\ sig' = sig \ {"pending"}
    BY <1>8 DEF SigUrg
  <2>2. StreamInv' /\ UrgentKept' /\ (lost' => urg' = "gone")
    BY <2>1, RecvOobKeeps
  <2>3. /\ UNCHANGED <<receiver, pos, landed, unowned>> /\ rpc' = rpc
        /\ \/ urg' = "read" /\ missed' = missed
           \/ urg' = urg /\ missed' = TRUE
    BY <2>1, RecvOobKeeps
  <2> QED BY <1>8, <2>1, <2>2, <2>3 DEF UrgentInv, ReceiverInv, SignalInv, SigUrg
<1>9. CASE RecvWaits
  BY <1>9, RecvWaitsKeeps
<1> QED BY <1>2, <1>3, <1>4, <1>5, <1>6, <1>7, <1>8, <1>9 DEF Receive

LEMMA UrgentAlways == UrgentSpec => []UrgentInv
<1>1. (\E r \in Receivers : UrgentInit(r)) => UrgentInv
  BY DEF UrgentInit, UrgentInv, StreamInv, ReceiverInv, SignalInv, UrgentKept
<1>2. UrgentInv /\ [UrgentNext]_urgentVars => UrgentInv'
  <2> SUFFICES ASSUME UrgentInv, [UrgentNext]_urgentVars
               PROVE  UrgentInv'
    OBVIOUS
  <2>1. CASE UNCHANGED urgentVars
    BY <2>1 DEF urgentVars, senderVars, streamVars, readVars, signalVars,
                UrgentInv, StreamInv, ReceiverInv, SignalInv, UrgentKept
  <2> QED BY <2>1, PeerKeeps, ReceiveKeeps DEF UrgentNext
<1> QED BY <1>1, <1>2, PTL DEF UrgentSpec

(* The urgent byte is destroyed unread only where the program asked for it *)
(* too early, had no owner for the signal, or prefers ordinary data.       *)
THEOREM UrgentByteIsKept == UrgentSpec => []UrgentKept
<1>1. UrgentInv => UrgentKept
  BY DEF UrgentInv
<1> QED BY <1>1, UrgentAlways, PTL

(* What recv() returned is what it has passed, but for the urgent byte.    *)
ReadInv == got = SubSeq(Ordinary, 1, OrdinaryAmong(pos))

LEMMA ReadKeeps == UrgentInv /\ ReadInv /\ [UrgentNext]_urgentVars => ReadInv'
<1> SUFFICES ASSUME UrgentInv, ReadInv, [UrgentNext]_urgentVars
             PROVE  ReadInv'
  OBVIOUS
<1>1. ASSUME NEW a, NEW b, Recv(a, b)
      PROVE  ReadInv'
  <2>1. got' = got \o Available /\ pos' = Stop
    BY <1>1 DEF Recv
  <2>2. Stop \in pos .. 5 /\ pos \in Nat
    BY RecvStops, WrittenIs DEF UrgentInv
  <2>3. /\ OrdinaryAmong(pos) \in 0 .. 4
        /\ OrdinaryAmong(Stop) \in OrdinaryAmong(pos) .. 4
    BY <2>2 DEF OrdinaryAmong, Mark
  <2>4. Ordinary \in Seq(Nat) /\ Len(Ordinary) = 4
    BY DEF Ordinary
  <2>5. SubSeq(Ordinary, 1, OrdinaryAmong(pos)) \o Available = SubSeq(Ordinary, 1, OrdinaryAmong(Stop))
    <3> DEFINE k == OrdinaryAmong(pos)
               n == OrdinaryAmong(Stop)
    <3>1. 1 \in 1 .. Len(Ordinary) + 1 /\ k \in 1 - 1 .. Len(Ordinary) /\ n \in k .. Len(Ordinary)
      BY <2>3, <2>4
    <3> HIDE DEF k, n
    <3>2. SubSeq(Ordinary, 1, k) \o SubSeq(Ordinary, k + 1, n) = SubSeq(Ordinary, 1, n)
      BY <2>4, <3>1, ConcatAdjacentSubSeq
    <3> QED BY <3>2 DEF Available, k, n
  <2> QED BY <2>1, <2>5 DEF ReadInv
<1>2. CASE RecvWaits
  <2>1. got' = got /\ pos' = Mark /\ pos = Mark - 1
    BY <1>2, RecvStops DEF RecvWaits, UrgentInv
  <2> QED BY <2>1 DEF ReadInv, OrdinaryAmong, Mark
<1>3. CASE UNCHANGED <<pos, got>>
  BY <1>3 DEF ReadInv
<1>4. (\E a, b : Recv(a, b)) \/ RecvWaits \/ UNCHANGED <<pos, got>>
  BY DEF UrgentNext, SenderConnects, SenderSends, SenderCloses, Deliver, DeliverEnd, Receive,
         TcpRecv, SelectAccept, Select, Selected, SigurgAccept, Install, MainRecv, SigUrg,
         AcceptElse, Step, RecvOob, urgentVars, readVars
<1> QED BY <1>1, <1>2, <1>3, <1>4

(* The receivers get the ordinary data in order, none twice and none left  *)
(* out, whatever the urgent byte and the handler do in between.            *)
THEOREM StreamIsReadInOrder == UrgentSpec => []ReadInOrder
<1>1. (\E r \in Receivers : UrgentInit(r)) => ReadInv
  <2> SUFFICES ASSUME NEW r \in Receivers, UrgentInit(r)
               PROVE  ReadInv
    OBVIOUS
  <2>1. SubSeq(Ordinary, 1, 0) = <<>>
    BY SubSeqEmpty
  <2> QED BY <2>1 DEF UrgentInit, ReadInv, OrdinaryAmong, Mark
<1>2. UrgentInv /\ ReadInv => ReadInOrder
  <2> SUFFICES ASSUME UrgentInv, ReadInv
               PROVE  ReadInOrder
    OBVIOUS
  <2>1. OrdinaryAmong(pos) \in 0 .. 4
    BY WrittenIs DEF UrgentInv, OrdinaryAmong, Mark
  <2>2. Len(SubSeq(Ordinary, 1, OrdinaryAmong(pos))) = OrdinaryAmong(pos)
    BY <2>1 DEF Ordinary
  <2> QED BY <2>2 DEF ReadInv, ReadInOrder
<1> QED BY <1>1, <1>2, UrgentAlways, ReadKeeps, PTL DEF UrgentSpec
-----------------------------------------------------------------------------
(* StrandedCounted is inductive together with what ties the two places of  *)
(* an event of listen_fd to the code: listen_fd stays edge-triggered, no   *)
(* event is left over when main() waits, and et() closes connections only. *)
ListenInv ==
    /\ backlog \in Seq(Clients)
    /\ merged \in Nat /\ failed \in Nat
    /\ Listen \in edges
    /\ srv = "wait" => events = {}
    /\ srv = "recv" => sock_fd \in Fds
    /\ StrandedCounted

(* The empty backlog, no arrival and no event.                             *)
LEMMA ListenInit == ASSUME NEW h, EpollInit(h) PROVE ListenInv
BY DEF EpollInit, ListenInv, StrandedCounted, Pending

(* A connection joins the backlog with its arrival, or shares one.         *)
LEMMA ConnectCounts == ASSUME ListenInv, NEW c \in Clients, Connect(c) PROVE ListenInv'
BY DEF ListenInv, StrandedCounted, Pending, Connect, Arrival, serverVars

(* Clients' input arrives on connections, not on listen_fd.                *)
LEMMA ClientCounts ==
    ASSUME ListenInv, NEW c \in Clients, Send(c) \/ End(c) PROVE ListenInv'
<1>1. UNCHANGED <<backlog, srv, merged, serverVars>>
  BY DEF Send, End
<1>2. Listen \in arrived' <=> Listen \in arrived
  BY EpollServerAssumption DEF Send, End, ClientArrival, Arrival
<1> QED
  BY <1>1, <1>2 DEF ListenInv, StrandedCounted, Pending, serverVars

(* A reported arrival becomes an event: by the count something is there.   *)
LEMMA WaitCounts == ASSUME ListenInv, epoll_wait PROVE ListenInv'
<1>1. Listen \in arrived => backlog # <<>>
  <2> SUFFICES ASSUME Listen \in arrived PROVE Len(backlog) # 0
    BY DEF ListenInv
  <2> QED
    BY DEF ListenInv, StrandedCounted, Pending
<1>2. Listen \in events' <=> Listen \in arrived /\ backlog # <<>>
  BY DEF epoll_wait, Readable, ListenInv
<1>3. Listen \notin arrived'
  BY <1>1, <1>2 DEF epoll_wait
<1>4. /\ UNCHANGED <<backlog, merged, failed, edges, sock_fd>>
      /\ srv = "wait" /\ srv' = "dispatch"
  BY DEF epoll_wait
<1>5. Pending(events') = Pending(arrived) /\ Pending(events) = 0 /\ Pending(arrived') = 0
  BY <1>1, <1>2, <1>3, <1>4 DEF Pending, ListenInv
<1> QED
  BY <1>4, <1>5 DEF ListenInv, StrandedCounted, Pending

(* accept() takes one connection for its event, or is counted.             *)
LEMMA AcceptCounts ==
    ASSUME ListenInv, srv = "dispatch", AcceptOne PROVE ListenInv'
<1>1. /\ Pending(events) = 1 /\ Pending(events') = 0
      /\ UNCHANGED <<srv, merged, sock_fd>>
  BY DEF AcceptOne, Pending
<1>2. CASE failed' = failed + 1 /\ UNCHANGED <<conn, edges, arrived, backlog>>
  BY <1>1, <1>2 DEF ListenInv, StrandedCounted, Pending
<1>3. CASE /\ backlog # <<>> /\ backlog' = Tail(backlog) /\ UNCHANGED failed
           /\ \E fd \in Fds : add_fd(fd, FALSE)
  <2>1. UNCHANGED <<edges, arrived>>
    BY <1>3 DEF add_fd
  <2>2. backlog' \in Seq(Clients) /\ Len(backlog') = Len(backlog) - 1
    BY <1>3, HeadTailProperties DEF ListenInv
  <2> QED
    BY <1>1, <1>3, <2>1, <2>2, LenProperties DEF ListenInv, StrandedCounted, Pending
<1> QED
  BY <1>2, <1>3 DEF AcceptOne

(* Closing a connection leaves listen_fd as it is.                         *)
LEMMA CloseCounts ==
    ASSUME ListenInv, NEW fd \in Fds, Close(fd)
    PROVE  /\ Listen \in edges'
           /\ Listen \in arrived' <=> Listen \in arrived
BY EpollServerAssumption DEF Close, ListenInv

(* The handlers' steps on a connection.                                    *)
LEMMA LtCounts == ASSUME ListenInv, NEW fd \in Fds, LtEvent(fd) PROVE ListenInv'
<1>1. /\ UNCHANGED <<backlog, srv, merged, sock_fd, failed>>
      /\ srv = "dispatch"
      /\ Listen \in events' <=> Listen \in events
  BY EpollServerAssumption DEF LtEvent
<1>2. Listen \in edges' /\ (Listen \in arrived' <=> Listen \in arrived)
  BY CloseCounts DEF LtEvent, Received, ListenInv
<1> QED
  BY <1>1, <1>2 DEF ListenInv, StrandedCounted, Pending

LEMMA EtCounts == ASSUME ListenInv, NEW fd \in Fds, EtEvent(fd) PROVE ListenInv'
<1>1. Listen \in events' <=> Listen \in events
  BY EpollServerAssumption DEF EtEvent
<1> QED
  BY <1>1 DEF EtEvent, ListenInv, StrandedCounted, Pending

LEMMA EtRecvCounts == ASSUME ListenInv, EtRecv PROVE ListenInv'
<1>1. /\ UNCHANGED <<backlog, merged, events, failed>>
      /\ srv = "recv" /\ sock_fd \in Fds
  BY DEF EtRecv, ListenInv
<1>2. Listen \in edges' /\ (Listen \in arrived' <=> Listen \in arrived)
  BY <1>1, CloseCounts DEF EtRecv, Received, ListenInv
<1>3. srv' = "dispatch" \/ (srv' = "recv" /\ sock_fd' = sock_fd)
  BY <1>1 DEF EtRecv, Break
<1> QED
  BY <1>1, <1>2, <1>3 DEF ListenInv, StrandedCounted, Pending

(* Every step keeps the count.                                             *)
LEMMA ListenNext == ASSUME ListenInv, [EpollNext]_epollVars PROVE ListenInv'
<1>1. CASE UNCHANGED epollVars
  BY <1>1 DEF epollVars, serverVars, ListenInv, StrandedCounted, Pending
<1>2. CASE EpollServerStep
  <2>1. CASE NextEvents
    BY <2>1 DEF NextEvents, serverVars, ListenInv, StrandedCounted, Pending
  <2> QED
    BY <1>2, <2>1, WaitCounts, AcceptCounts, LtCounts, EtCounts, EtRecvCounts DEF EpollServerStep
<1>3. CASE EpollFailure
  BY <1>3 DEF EpollFailure, serverVars, ListenInv, StrandedCounted, Pending
<1> QED
  BY <1>1, <1>2, <1>3, ConnectCounts, ClientCounts DEF EpollNext

(* The connections left in the backlog of epoll.cc are those that shared   *)
(* an arrival or met a failing accept(), and those whose event is due.     *)
THEOREM Stranded == EpollSpec => []StrandedCounted
<1>1. (\E h \in {"lt", "et"} : EpollInit(h)) => ListenInv
  BY ListenInit
<1>2. ListenInv /\ [EpollNext]_epollVars => ListenInv'
  BY ListenNext
<1>3. ListenInv => StrandedCounted
  BY DEF ListenInv
<1> QED
  BY <1>1, <1>2, <1>3, PTL DEF EpollSpec
-----------------------------------------------------------------------------
(* Where each client is: not yet connected, in the backlog once, behind    *)
(* one descriptor, or closed after its end.                                *)
OnePlace ==
    /\ \A c \in Clients : peer[c] = "none" =>
          ~ Accepted(c) /\ \A i \in 1 .. Len(backlog) : backlog[i] # c
    /\ \A i, j \in 1 .. Len(backlog) : backlog[i] = backlog[j] => i = j
    /\ \A i \in 1 .. Len(backlog), f \in Fds : conn[f] # backlog[i]
    /\ \A f, g \in Fds : conn[f] = conn[g] /\ conn[f] # NULL => f = g

(* ClosedAtItsEnd with what it rests on in lt(): an event that is still to *)
(* be handled is that of a readable connection, since nobody else reads.   *)
EndInv ==
    /\ peer \in [Clients -> {"none", "open", "ended", "reset"}]
    /\ unread \in [Clients -> Nat]
    /\ conn \in [Fds -> Clients \cup {NULL}]
    /\ backlog \in Seq(Clients)
    /\ closed \subseteq Clients
    /\ OnePlace
    /\ handler = "lt" => \A fd \in events \cap Fds : Readable(fd)
    /\ \A c \in closed : peer[c] \in {"ended", "reset"}

LEMMA EndInit == ASSUME NEW h, EpollInit(h) PROVE EndInv
<1> USE DEF EpollInit
<1>1. backlog \in Seq(Clients) /\ 1 .. Len(backlog) = {}
  OBVIOUS
<1>2. OnePlace
  BY <1>1, EpollServerAssumption DEF OnePlace, Accepted
<1> QED BY <1>1, <1>2 DEF EndInv

(* A new client is in none of the places.                                  *)
LEMMA EndConnect == ASSUME EndInv, NEW c \in Clients, Connect(c) PROVE EndInv'
<1> USE DEF EndInv
<1>1. /\ peer[c] = "none" /\ peer' = [peer EXCEPT ![c] = "open"]
      /\ backlog' = Append(backlog, c)
      /\ UNCHANGED <<unread, conn, closed, handler, events>>
  BY DEF Connect, serverVars
<1>2. /\ backlog' \in Seq(Clients) /\ Len(backlog') = Len(backlog) + 1 /\ Len(backlog) \in Nat
      /\ \A i \in 1 .. Len(backlog) : backlog'[i] = backlog[i]
      /\ backlog'[Len(backlog) + 1] = c
  BY <1>1
<1>3. OnePlace'
  <2>1. ~ Accepted(c) /\ \A i \in 1 .. Len(backlog) : backlog[i] # c
    BY <1>1 DEF OnePlace
  <2>2. \A d : Accepted(d)' <=> Accepted(d)
    BY <1>1 DEF Accepted
  <2>3. \A d \in Clients : peer'[d] = "none" =>
          ~ Accepted(d)' /\ \A i \in 1 .. Len(backlog') : backlog'[i] # d
    <3> SUFFICES ASSUME NEW d \in Clients, peer'[d] = "none"
                 PROVE  ~ Accepted(d)' /\ \A i \in 1 .. Len(backlog') : backlog'[i] # d
      OBVIOUS
    <3>1. d # c /\ peer[d] = "none"
      BY <1>1
    <3>2. ~ Accepted(d)' /\ \A i \in 1 .. Len(backlog) : backlog[i] # d
      BY <2>2, <3>1 DEF OnePlace
    <3>3. \A i \in 1 .. Len(backlog) + 1 : i \in 1 .. Len(backlog) \/ i = Len(backlog) + 1
      BY <1>2
    <3> QED BY <1>2, <3>1, <3>2, <3>3
  <2>4. \A i, j \in 1 .. Len(backlog') : backlog'[i] = backlog'[j] => i = j
    <3>1. \A i \in 1 .. Len(backlog') : i \in 1 .. Len(backlog) \/ i = Len(backlog) + 1
      BY <1>2
    <3>2. \A i, j \in 1 .. Len(backlog) : backlog[i] = backlog[j] => i = j
      BY DEF OnePlace
    <3> QED BY <1>2, <2>1, <3>1, <3>2
  <2>5. \A i \in 1 .. Len(backlog'), f \in Fds : conn[f] # backlog'[i]
    BY <1>2, <2>1 DEF OnePlace, Accepted
  <2> QED BY <1>1, <2>2, <2>3, <2>4, <2>5 DEF OnePlace
<1>4. handler' = "lt" => \A fd \in events' \cap Fds : Readable(fd)'
  <2> SUFFICES ASSUME handler = "lt", NEW fd \in events \cap Fds
               PROVE  Readable(fd)'
    BY <1>1
  <2>1. Readable(fd) /\ fd # Listen
    BY EpollServerAssumption
  <2>2. conn[fd] # NULL => conn[fd] # c
    BY <1>1 DEF OnePlace, Accepted
  <2> QED BY <1>1, <2>1, <2>2 DEF Readable
<1> QED BY <1>1, <1>2, <1>3, <1>4

(* What a client sends, and its end, leave what was readable readable.     *)
LEMMA EndClients == ASSUME EndInv, NEW c \in Clients, Send(c) \/ End(c) PROVE EndInv'
<1> USE DEF EndInv
<1>1. /\ UNCHANGED <<backlog, conn, closed, handler, events>>
      /\ peer[c] = "open"
      /\ peer' \in [Clients -> {"none", "open", "ended", "reset"}] /\ unread' \in [Clients -> Nat]
      /\ \A d \in Clients : d # c => peer'[d] = peer[d] /\ unread'[d] = unread[d]
      /\ peer'[c] # "none" /\ (unread'[c] > 0 \/ peer'[c] # "open")
  <2>1. CASE Send(c)
    BY <2>1 DEF Send, serverVars
  <2>2. CASE End(c)
    BY <2>2 DEF End, serverVars
  <2> QED BY <2>1, <2>2
<1>2. OnePlace'
  <2>1. \A d \in Clients : peer'[d] = "none" => peer[d] = "none"
    BY <1>1
  <2>2. \A d \in Clients : peer'[d] = "none" =>
          ~ Accepted(d)' /\ \A i \in 1 .. Len(backlog') : backlog'[i] # d
    <3> SUFFICES ASSUME NEW d \in Clients, peer'[d] = "none"
                 PROVE  ~ Accepted(d)' /\ \A i \in 1 .. Len(backlog') : backlog'[i] # d
      OBVIOUS
    <3>1. ~ Accepted(d) /\ \A i \in 1 .. Len(backlog) : backlog[i] # d
      BY <2>1 DEF OnePlace
    <3> QED BY <1>1, <3>1 DEF Accepted
  <2> QED BY <1>1, <2>2 DEF OnePlace
<1>3. handler' = "lt" => \A fd \in events' \cap Fds : Readable(fd)'
  <2> SUFFICES ASSUME handler = "lt", NEW fd \in events \cap Fds
               PROVE  Readable(fd)'
    BY <1>1
  <2>1. fd # Listen /\ conn[fd] \in Clients /\ (unread[conn[fd]] > 0 \/ peer[conn[fd]] # "open")
    BY EpollServerAssumption DEF Readable
  <2>2. conn'[fd] = conn[fd] /\ (unread'[conn[fd]] > 0 \/ peer'[conn[fd]] # "open")
    BY <1>1, <2>1
  <2> QED BY <2>1, <2>2, EpollServerAssumption DEF Readable
<1> QED BY <1>1, <1>2, <1>3

(* epoll_wait() reports what is readable.                                  *)
LEMMA EndWait == ASSUME EndInv, epoll_wait PROVE EndInv'
<1>1. UNCHANGED <<peer, unread, backlog, conn, closed, handler>>
  BY DEF epoll_wait, clientVars
<1>2. \A fd \in events' \cap Fds : Readable(fd)'
  BY <1>1 DEF epoll_wait, Readable
<1> QED BY <1>1, <1>2 DEF EndInv, OnePlace, Accepted

(* accept() gives a client of the backlog a number no event names.         *)
LEMMA EndAccept == ASSUME EndInv, AcceptOne PROVE EndInv'
<1> USE DEF EndInv
<1>1. UNCHANGED <<peer, unread, closed, handler>> /\ events' \subseteq events
  BY DEF AcceptOne, clientVars
<1>2. CASE UNCHANGED <<conn, backlog>>
  BY <1>1, <1>2 DEF OnePlace, Accepted, Readable
<1>3. ASSUME NEW fd \in Fds, conn[fd] = NULL, backlog # <<>>,
             conn' = [conn EXCEPT ![fd] = Head(backlog)], backlog' = Tail(backlog)
      PROVE  EndInv'
  <2> DEFINE c == Head(backlog)
  <2>1. /\ c \in Clients /\ c = backlog[1] /\ 1 \in 1 .. Len(backlog)
        /\ backlog' \in Seq(Clients) /\ Len(backlog') = Len(backlog) - 1
        /\ \A i \in 1 .. Len(backlog') : backlog'[i] = backlog[i + 1] /\ i + 1 \in 1 .. Len(backlog)
    BY <1>3, HeadTailProperties
  <2> HIDE DEF c
  <2>2. ~ Accepted(c) /\ c # NULL /\ peer[c] # "none"
    <3>1. \A f \in Fds : conn[f] # backlog[1]
      BY <2>1 DEF OnePlace
    <3>2. peer[c] # "none"
      BY <2>1 DEF OnePlace
    <3> QED BY <2>1, <3>1, <3>2, EpollServerAssumption DEF Accepted
  <2>3. conn' = [conn EXCEPT ![fd] = c]
    BY <1>3 DEF c
  <2>4. \A d : Accepted(d)' => Accepted(d) \/ d = c
    BY <2>3 DEF Accepted
  <2>5. \A i \in 1 .. Len(backlog') : backlog'[i] # c
    <3>1. \A i \in 1 .. Len(backlog) : backlog[i] = backlog[1] => i = 1
      BY <2>1 DEF OnePlace
    <3>2. \A i \in 1 .. Len(backlog') : i + 1 # 1
      OBVIOUS
    <3> QED BY <2>1, <3>1, <3>2
  <2>6. OnePlace'
    <3>1. \A d \in Clients : peer'[d] = "none" =>
            ~ Accepted(d)' /\ \A i \in 1 .. Len(backlog') : backlog'[i] # d
      BY <1>1, <2>1, <2>2, <2>4 DEF OnePlace
    <3>2. \A i, j \in 1 .. Len(backlog') : backlog'[i] = backlog'[j] => i = j
      <4> SUFFICES ASSUME NEW i \in 1 .. Len(backlog'), NEW j \in 1 .. Len(backlog'),
                          backlog'[i] = backlog'[j]
                   PROVE  i = j
        OBVIOUS
      <4>1. backlog[i + 1] = backlog[j + 1] /\ i + 1 \in 1 .. Len(backlog) /\ j + 1 \in 1 .. Len(backlog)
        BY <2>1
      <4>2. i + 1 = j + 1
        BY <4>1, Zenon DEF OnePlace
      <4> QED BY <4>2
    <3>3. \A i \in 1 .. Len(backlog'), f \in Fds : conn'[f] # backlog'[i]
      BY <2>1, <2>3, <2>5 DEF OnePlace
    <3>4. \A f, g \in Fds : conn'[f] = conn'[g] /\ conn'[f] # NULL => f = g
      BY <2>2, <2>3 DEF OnePlace, Accepted
    <3> QED BY <3>1, <3>2, <3>3, <3>4 DEF OnePlace
  <2>7. handler' = "lt" => \A f \in events' \cap Fds : Readable(f)'
    BY <1>1, <1>3, <2>3, EpollServerAssumption DEF Readable
  <2> QED BY <1>1, <2>1, <2>3, <2>6, <2>7
<1> QED BY <1>2, <1>3 DEF AcceptOne

(* recv() takes input of its own connection only.                          *)
LEMMA EndReceived ==
    ASSUME EndInv, NEW fd \in Fds, Received(fd), UNCHANGED <<peer, backlog, handler>>,
           events' \subseteq events, handler = "lt" => fd \notin events'
    PROVE  EndInv'
<1> USE DEF EndInv
<1>1. /\ UNCHANGED <<conn, closed>> /\ conn[fd] \in Clients
      /\ unread' = [unread EXCEPT ![conn[fd]] = @ - 1] /\ unread[conn[fd]] > 0
  BY DEF Received
<1>2. unread' \in [Clients -> Nat]
  BY <1>1
<1>3. OnePlace'
  BY <1>1 DEF OnePlace, Accepted
<1>4. handler' = "lt" => \A f \in events' \cap Fds : Readable(f)'
  <2> SUFFICES ASSUME handler = "lt", NEW f \in events' \cap Fds
               PROVE  Readable(f)'
    OBVIOUS
  <2>1. f # Listen /\ f # fd /\ Readable(f)
    BY EpollServerAssumption
  <2>2. conn[f] \in Clients /\ conn[f] # conn[fd]
    BY <1>1, <2>1, EpollServerAssumption DEF Readable, OnePlace
  <2> QED BY <1>1, <2>1, <2>2 DEF Readable
<1> QED BY <1>1, <1>2, <1>3, <1>4

(* close() of a connection whose client has ended, or of a dead number.    *)
LEMMA EndClose ==
    ASSUME EndInv, NEW fd \in Fds, Close(fd), conn[fd] # NULL => peer[conn[fd]] # "open",
           UNCHANGED <<peer, unread, backlog, handler>>,
           events' \subseteq events, handler = "lt" => fd \notin events'
    PROVE  EndInv'
<1> USE DEF EndInv
<1>1. conn' = [conn EXCEPT ![fd] = NULL] /\ closed' = closed \cup ({conn[fd]} \ {NULL})
  BY DEF Close
<1>2. conn[fd] # NULL => conn[fd] \in Clients /\ peer[conn[fd]] \in {"ended", "reset"}
  BY DEF OnePlace, Accepted
<1>3. \A d \in Clients : Accepted(d)' => Accepted(d)
  BY <1>1, EpollServerAssumption DEF Accepted
<1>4. OnePlace'
  <2>1. \A i \in 1 .. Len(backlog) : backlog[i] \in Clients
    OBVIOUS
  <2>2. \A f \in Fds : conn'[f] = conn[f] \/ conn'[f] = NULL
    BY <1>1
  <2>3. \A i \in 1 .. Len(backlog), f \in Fds : conn'[f] # backlog[i]
    BY <2>1, <2>2, EpollServerAssumption DEF OnePlace
  <2>4. \A f, g \in Fds : conn'[f] = conn'[g] /\ conn'[f] # NULL => f = g
    BY <2>2 DEF OnePlace
  <2> QED BY <1>3, <2>3, <2>4 DEF OnePlace
<1>5. handler' = "lt" => \A f \in events' \cap Fds : Readable(f)'
  BY <1>1, EpollServerAssumption DEF Readable
<1> QED BY <1>1, <1>2, <1>4, <1>5

LEMMA EndLt == ASSUME EndInv, NEW fd \in Fds, LtEvent(fd) PROVE EndInv'
<1>1. /\ handler = "lt" /\ fd \in events /\ fd # Listen /\ events' = events \ {fd}
      /\ UNCHANGED <<peer, backlog, handler>>
  BY DEF LtEvent, clientVars
<1>2. CASE Received(fd)
  BY <1>1, <1>2, EndReceived
<1>3. CASE (conn[fd] # NULL => unread[conn[fd]] = 0) /\ Close(fd) /\ UNCHANGED unread
  <2>1. Readable(fd)
    BY <1>1 DEF EndInv
  <2>2. conn[fd] # NULL => peer[conn[fd]] # "open"
    BY <1>1, <1>3, <2>1 DEF Readable, EndInv
  <2> QED BY <1>1, <1>3, <2>2, EndClose
<1> QED BY <1>2, <1>3 DEF LtEvent

LEMMA EndEtRecv ==
    ASSUME EndInv, EtRecv, sock_fd \in Fds, handler # "lt" PROVE EndInv'
<1>1. UNCHANGED <<peer, backlog, handler, events>>
  BY DEF EtRecv, clientVars
<1>2. CASE Received(sock_fd)
  BY <1>1, <1>2, EndReceived
<1>3. CASE AtEnd(sock_fd) /\ Close(sock_fd) /\ UNCHANGED unread
  BY <1>1, <1>3, EndClose DEF AtEnd
<1>4. CASE UNCHANGED <<unread, conn, closed>>
  BY <1>1, <1>4 DEF EndInv, OnePlace, Accepted
<1> QED BY <1>2, <1>3, <1>4 DEF EtRecv

(* et() receives; lt() never leaves main() in its loop.                    *)
EtReceives == srv = "recv" => handler = "et"

LEMMA EndNext ==
    ASSUME EndInv, EtReceives, ListenInv, [EpollNext]_epollVars
    PROVE  EndInv' /\ EtReceives'
<1>1. EtReceives'
  BY DEF EtReceives, EpollNext, EpollServerStep, epoll_wait, NextEvents, EtRecv, Break, AcceptOne,
         LtEvent, EtEvent, EpollFailure, Connect, Send, End, epollVars, serverVars
<1>2. CASE EtRecv
  BY <1>2, EndEtRecv DEF EtRecv, EtReceives, ListenInv
<1>3. CASE UNCHANGED <<peer, unread, backlog, conn, closed, handler>> /\ events' \subseteq events
  <2>1. OnePlace'
    BY <1>3 DEF EndInv, OnePlace, Accepted
  <2>2. handler' = "lt" => \A fd \in events' \cap Fds : Readable(fd)'
    BY <1>3 DEF EndInv, Readable
  <2> QED BY <1>1, <1>3, <2>1, <2>2 DEF EndInv
<1>4. ASSUME NEW fd \in Fds, EtEvent(fd)
      PROVE  UNCHANGED <<peer, unread, backlog, conn, closed, handler>> /\ events' \subseteq events
  BY <1>4 DEF EtEvent, clientVars
<1>5. NextEvents \/ EpollFailure \/ UNCHANGED epollVars =>
        UNCHANGED <<peer, unread, backlog, conn, closed, handler>> /\ events' \subseteq events
  BY DEF NextEvents, EpollFailure, epollVars, clientVars, serverVars
<1> QED
  BY <1>1, <1>2, <1>3, <1>4, <1>5, EndConnect, EndClients, EndWait, EndAccept, EndLt
     DEF EpollNext, EpollServerStep

(* et() and lt() of epoll.cc close a connection only after its client has  *)
(* ended it, whatever the order of events and however numbers are reused.  *)
THEOREM ClosesAtTheEnd == EpollSpec => []ClosedAtItsEnd
<1>1. (\E h \in {"lt", "et"} : EpollInit(h)) => EndInv /\ EtReceives /\ ListenInv
  BY EndInit, ListenInit DEF EpollInit, EtReceives
<1>2. (EndInv /\ EtReceives /\ ListenInv) /\ [EpollNext]_epollVars
         => (EndInv /\ EtReceives /\ ListenInv)'
  BY EndNext, ListenNext
<1>3. EndInv => ClosedAtItsEnd
  BY DEF EndInv, ClosedAtItsEnd
<1> QED
  BY <1>1, <1>2, <1>3, PTL DEF EpollSpec
-----------------------------------------------------------------------------
(* Once main() has called pthread_sigmask(), every thread there is blocks  *)
(* the whole set: the second one inherits the mask.                        *)
MaskedInv ==
    /\ mask \in [Threads -> SUBSET MaskSet]
    /\ spc \in {"sigmask", "create", "pause", "dead"}
    /\ spc \in {"sigmask", "create"} => threads = {"main"}
    /\ spc = "pause" => threads = Threads
    /\ spc \in {"create", "pause"} => \A t \in threads : mask[t] = MaskSet

(* No signal of the set that comes after pthread_sigmask() ends sigmask.cc, *)
(* before, while or after its thread is started.                           *)
THEOREM MaskedSignalsKillNobody == SigSpec => SignalsAreBlocked
<1>1. SigInit => MaskedInv
  BY DEF SigInit, MaskedInv, Threads, MaskSet
<1>2. MaskedInv /\ [SigNext]_sigVars => MaskedInv'
  <2> SUFFICES ASSUME MaskedInv, [SigNext]_sigVars PROVE MaskedInv'
    OBVIOUS
  <2> USE DEF MaskedInv, Threads
  <2>1. CASE PthreadSigmask
    BY <2>1 DEF PthreadSigmask
  <2>2. CASE PthreadCreate
    BY <2>2 DEF PthreadCreate
  <2>3. CASE SigWait \/ ErrorExit \/ UNCHANGED sigVars
    BY <2>3 DEF SigWait, ErrorExit, sigVars
  <2>4. ASSUME NEW s \in MaskSet, Raise(s) PROVE MaskedInv'
    BY <2>4 DEF Raise
  <2> QED BY <2>1, <2>2, <2>3, <2>4 DEF SigNext, SigStep
<1>3. MaskedInv /\ [SigNext]_sigVars
        => [\A s \in MaskSet : spc # "sigmask" /\ Raise(s) => spc' # "dead"]_sigVars
  <2> SUFFICES ASSUME MaskedInv, NEW s \in MaskSet, spc # "sigmask", Raise(s)
               PROVE  spc' # "dead"
    OBVIOUS
  <2>1. \A t \in threads : s \in mask[t]
    BY DEF MaskedInv, Raise
  <2> QED BY <2>1 DEF Raise
<1> QED
  BY <1>1, <1>2, <1>3, PTL DEF SigSpec, SignalsAreBlocked
=============================================================================
