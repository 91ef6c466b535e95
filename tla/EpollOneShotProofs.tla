------------------------- MODULE EpollOneShotProofs -------------------------
(***************************************************************************)
(* EpollOneShot for any number of clients, descriptors, workers and        *)
(* buffers: typing, one worker for each connection, no input forgotten,    *)
(* and no connection closed before its end.                                *)
(***************************************************************************)
EXTENDS EpollOneShot, SequenceTheorems, FiniteSetTheorems, TLAPS

(* Typing is inductive only together with: accept() for an event of        *)
(* listen_fd finds a connection, a started worker an argument, and no more *)
(* is unread than was sent.                                                *)
Pending(fds) == IF Listen \in fds THEN 1 ELSE 0

BacklogHolds ==
    /\ mpc = "wait" => events = {}
    /\ Pending(ready) + Pending(events) <= Len(backlog)

Typed ==
    /\ TypeOK
    /\ BacklogHolds
    /\ \A w \in Workers : wpc[w] = "start" => slot # NULL
    /\ \A c \in Clients : unread[c] <= sent[c]

LEMMA TypedInit == Init => Typed
BY ServerAssumption DEF Init, Typed, TypeOK, BacklogHolds, Pending

(* Connect, Send and Leave.                                                *)
LEMMA TypedClients ==
    ASSUME Typed, NEW c \in Clients, Connect(c) \/ Send(c) \/ Leave(c)
    PROVE  Typed'
<1> USE DEF Typed, TypeOK
<1>1. CASE Connect(c)
  <2>1. backlog' \in Seq(Clients) /\ Len(backlog') = Len(backlog) + 1
    BY <1>1 DEF Connect
  <2>2. BacklogHolds'
    BY <1>1, <2>1 DEF Connect, BacklogHolds, Pending, mainVars
  <2>3. QED BY <1>1, <2>1, <2>2 DEF Connect, mainVars, workerVars
<1>2. ASSUME Notify(c), UNCHANGED <<backlog, mainVars>>
      PROVE  ready' \in SUBSET (Fds \cup {Listen}) /\ BacklogHolds'
  BY <1>2, ServerAssumption DEF Notify, BacklogHolds, Pending, Open, mainVars
<1>3. CASE Send(c)
  BY <1>2, <1>3, ServerAssumption DEF Send, mainVars, workerVars
<1>4. CASE Leave(c)
  BY <1>2, <1>4 DEF Leave, mainVars, workerVars
<1> QED BY <1>1, <1>3, <1>4

(* epoll_wait(), accept() and the start of a worker.                       *)
LEMMA TypedMain == ASSUME Typed, Main \/ EpollFailure PROVE Typed'
<1> USE DEF Typed, TypeOK
<1>1. CASE EpollWait
  <2>1. Reported \in SUBSET (Fds \cup {Listen})
    BY DEF Reported
  <2>2. BacklogHolds'
    BY <1>1 DEF EpollWait, BacklogHolds, Pending, Reported
  <2>3. QED BY <1>1, <2>1, <2>2 DEF EpollWait, clientVars, workerVars
<1>2. CASE EpollFailure
  BY <1>2 DEF EpollFailure, BacklogHolds, clientVars, epollVars, workerVars
<1>3. ASSUME NEW fd \in Fds \cup {Listen}, Dispatched(fd)
      PROVE  /\ events' \in SUBSET (Fds \cup {Listen})
             /\ mpc' \in {"wait", "dispatch", "exited"}
             /\ mpc' = "wait" => events' = {}
             /\ fd # Listen => Pending(events') = Pending(events)
             /\ fd = Listen => Pending(events') = 0 /\ Pending(events) = 1
  BY <1>3 DEF Dispatched, Pending
<1>4. CASE Accept
  <2>1. Dispatched(Listen) /\ UNCHANGED <<clientVars, slot, orphans, workerVars>>
    BY <1>4 DEF Accept
  <2>2. 1 <= Len(backlog) /\ Pending(events') = 0 /\ Pending(ready) + 1 <= Len(backlog)
    BY <1>3, <2>1 DEF BacklogHolds, Pending
  <2>3. CASE UNCHANGED <<backlog, conn, epollVars>>
    <3>1. BacklogHolds'
      BY <1>3, <2>1, <2>2, <2>3 DEF BacklogHolds, Pending, epollVars
    <3>2. QED BY <1>3, <2>1, <2>3, <3>1 DEF epollVars, clientVars, workerVars
  <2>4. ASSUME NEW fd \in Fds \ Open,
               conn' = [conn EXCEPT ![fd] = Head(backlog)],
               backlog' = Tail(backlog), Arm(fd, Head(backlog))
        PROVE  Typed'
    <3>1. /\ Head(backlog) \in Clients
          /\ backlog' \in Seq(Clients) /\ Len(backlog') = Len(backlog) - 1
      BY <2>2, <2>4
    <3>2. /\ armed' \in SUBSET (Fds \cup {Listen}) /\ ready' \in SUBSET (Fds \cup {Listen})
          /\ Pending(ready') = Pending(ready)
      BY <2>4, ServerAssumption DEF Arm, Pending
    <3>3. BacklogHolds'
      BY <1>3, <2>1, <2>2, <3>1, <3>2 DEF BacklogHolds, Pending
    <3>4. QED BY <1>3, <2>1, <2>4, <3>1, <3>2, <3>3 DEF clientVars, workerVars
  <2>5. QED BY <1>4, <2>3, <2>4 DEF Accept
<1>5. ASSUME NEW fd \in Fds, StartWorker(fd)
      PROVE  Typed'
  <2>1. /\ Dispatched(fd) /\ slot' = fd
        /\ UNCHANGED <<clientVars, backlog, conn, epollVars, sock_fd>>
    BY <1>5 DEF StartWorker, Store
  <2>2. BacklogHolds'
    BY <1>3, <2>1, ServerAssumption DEF BacklogHolds, Pending, epollVars
  <2>3. /\ wpc' \in [Workers -> {"none", "start", "recv", "close", "rearm", "done"}]
        /\ \A w \in Workers : wpc'[w] \in {"none", "start"} <=> sock_fd'[w] = NULL
        /\ mine' \in [Workers -> Fds \cup {NULL}]
        /\ orphans' \in SUBSET Fds
    <3>1. UNCHANGED sock_fd
      BY <1>5 DEF StartWorker
    <3>2. CASE UNCHANGED <<wpc, mine>> /\ orphans' = orphans \cup {fd}
      BY <3>1, <3>2
    <3>3. CASE \E w \in Workers : /\ wpc[w] = "none" /\ wpc' = [wpc EXCEPT ![w] = "start"]
                                   /\ mine' = [mine EXCEPT ![w] = fd] /\ UNCHANGED orphans
      BY <3>1, <3>3
    <3> QED BY <1>5, <3>2, <3>3, Zenon DEF StartWorker
  <2>4. QED BY <1>3, <2>1, <2>2, <2>3, ServerAssumption DEF clientVars, epollVars
<1> QED BY <1>1, <1>2, <1>4, <1>5 DEF Main

(* The steps of worker().                                                  *)
LEMMA TypedWorkers == ASSUME Typed, NEW w \in Workers, WStep(w) PROVE Typed'
<1> USE DEF Typed, TypeOK
<1>1. CASE WStart(w)
  BY <1>1, ServerAssumption
  DEF WStart, WGoto, BacklogHolds, clientVars, epollVars, mainVars
<1>2. CASE WRecv(w)
  <2>1. conn[sock_fd[w]] \in Clients /\ sock_fd[w] # NULL
    BY <1>2, ServerAssumption DEF WRecv, Open
  <2>2. /\ peer' \in [Clients -> {"absent", "connected", "closed", "reset"}]
        /\ unread' \in [Clients -> 0 .. MaxInput]
        /\ \A c \in Clients : unread'[c] <= sent[c]
    <3> DEFINE c == conn[sock_fd[w]]
    <3>1. peer' = peer \/ peer' = [peer EXCEPT ![c] = "closed"]
      BY <1>2 DEF WRecv
    <3>2. unread' = unread \/ (unread[c] > 0 /\ unread' = [unread EXCEPT ![c] = @ - 1])
      BY <1>2 DEF WRecv
    <3>3. unread[c] \in 0 .. MaxInput /\ sent[c] \in Nat /\ unread[c] <= sent[c]
      BY <2>1
    <3> HIDE DEF c
    <3>4. c \in Clients
      BY <2>1 DEF c
    <3>5. unread' \in [Clients -> 0 .. MaxInput] /\ \A d \in Clients : unread'[d] <= sent[d]
      <4>1. unread[c] > 0 => unread[c] - 1 \in 0 .. MaxInput /\ unread[c] - 1 <= sent[c]
        BY <3>3, ServerAssumption
      <4>2. ASSUME NEW d \in Clients
            PROVE  unread'[d] \in 0 .. MaxInput /\ unread'[d] <= sent[d]
        BY <3>2, <3>4, <4>1
      <4> QED BY <3>2, <4>2
    <3> QED BY <3>1, <3>4, <3>5
  <2>3. /\ wpc' \in [Workers -> {"none", "start", "recv", "close", "rearm", "done"}]
        /\ wpc' = [wpc EXCEPT ![w] = wpc'[w]] /\ wpc'[w] \in {"recv", "close", "rearm"}
    BY <1>2 DEF WRecv, WGoto
  <2>4. QED
    BY <1>2, <2>1, <2>2, <2>3 DEF WRecv, BacklogHolds, epollVars, mainVars
<1>3. CASE WClose(w)
  <2>1. sock_fd[w] \in Fds
    BY <1>3 DEF WClose
  <2>2. Pending(ready') = Pending(ready)
    BY <1>3, <2>1, ServerAssumption DEF WClose, Pending
  <2>3. QED
    BY <1>3, <2>1, <2>2 DEF WClose, Break, WGoto, BacklogHolds, clientVars, mainVars
<1>4. CASE WRearm(w)
  <2>1. sock_fd[w] \in Fds
    BY <1>4 DEF WRearm
  <2>2. /\ armed' \in SUBSET (Fds \cup {Listen}) /\ ready' \in SUBSET (Fds \cup {Listen})
        /\ Pending(ready') = Pending(ready)
    BY <1>4, <2>1, ServerAssumption DEF WRearm, ResetOneShot, Arm, Pending, epollVars
  <2>3. QED
    BY <1>4, <2>1, <2>2 DEF WRearm, Break, WGoto, BacklogHolds, clientVars, mainVars
<1> QED BY <1>1, <1>2, <1>3, <1>4 DEF WStep

LEMMA TypedNext == Typed /\ [Next]_vars => Typed'
<1> SUFFICES ASSUME Typed, [Next]_vars PROVE Typed'
  OBVIOUS
<1>1. CASE UNCHANGED vars
  BY <1>1 DEF vars, clientVars, epollVars, mainVars, workerVars, Typed, TypeOK, BacklogHolds
<1> QED
  BY <1>1, TypedClients, TypedMain, TypedWorkers DEF Next

LEMMA TypedAlways == Spec => []Typed
BY TypedInit, TypedNext, PTL DEF Spec

(* The variables of main(), the workers and the kernel keep their types.   *)
THEOREM TypeCorrect == Spec => []TypeOK
<1>1. Typed => TypeOK
  BY DEF Typed
<1> QED BY <1>1, TypedAlways, PTL

-----------------------------------------------------------------------------
(* While every worker serves the descriptor it was started for:            *)
(* workers have connections of their own, of which nothing is armed, ready *)
(* or reported; nor is anything armed or ready of what main() has an event *)
(* for.                                                                    *)
Separate ==
    /\ \A v, w \in Alive : mine[v] = mine[w] => v = w
    /\ \A w \in Alive : mine[w] \in Open /\ mine[w] \notin armed \cup ready \cup events
    /\ \A fd \in events \cap Fds : fd \in Open /\ fd \notin armed \cup ready

(* Every connection is armed, reported, served or orphaned, and ready when *)
(* it is armed and can be read.                                            *)
Watched ==
    /\ \A fd \in Open : fd \in armed \cup events \cup orphans \/ \E w \in Alive : mine[w] = fd
    /\ \A fd \in ReadableFds \cap armed : fd \in ready

(* A worker that is about to close has seen the end of its own connection. *)
Ended == \A w \in Workers : wpc[w] = "close" => EndOfStream(conn[mine[w]])

SocketInv == WorkerServesItsFd => Separate /\ Watched /\ Ended

LEMMA OwnConnection ==
    ASSUME Typed, Separate, NEW w \in Alive
    PROVE  w \in Workers /\ mine[w] \in Fds /\ conn[mine[w]] \in Clients
BY DEF Typed, TypeOK, Separate, Alive, Open

(* A worker that has read its argument keeps it.                           *)
LEMMA ServesBefore ==
    ASSUME Typed, [Next]_vars, WorkerServesItsFd'
    PROVE  WorkerServesItsFd
<1> SUFFICES ASSUME NEW w \in Workers, wpc[w] \notin {"none", "start"}
             PROVE  sock_fd[w] = mine[w]
  BY DEF WorkerServesItsFd
<1> USE DEF Typed, TypeOK, WorkerServesItsFd
<1>1. CASE UNCHANGED workerVars
  BY <1>1 DEF workerVars
<1>2. ASSUME NEW fd \in Fds, StartWorker(fd) PROVE sock_fd[w] = mine[w]
  BY <1>2 DEF StartWorker
<1>3. ASSUME NEW v \in Workers, WStep(v) PROVE sock_fd[w] = mine[w]
  BY <1>3 DEF WStep, WStart, WRecv, WClose, WRearm, WGoto, Break
<1> QED
  BY <1>1, <1>2, <1>3 DEF Next, Main, vars, Connect, Send, Leave, EpollWait, EpollFailure, Accept

(* Input and the end of a stream make a connection ready where it is armed.*)
LEMMA SocketsClients ==
    ASSUME Typed, Separate, Watched, Ended,
           NEW c \in Clients, Connect(c) \/ Send(c) \/ Leave(c)
    PROVE  Separate' /\ Watched' /\ Ended'
<1> USE DEF Typed, TypeOK
<1>1. /\ UNCHANGED <<conn, armed, mainVars, workerVars>>
      /\ Open' = Open /\ Alive' = Alive
  BY DEF Connect, Send, Leave, Open, Alive, workerVars
<1>2. ready' \subseteq ready \cup (Open \cap armed) \cup {Listen} /\ ready \subseteq ready'
  BY DEF Connect, Send, Leave, Notify
<1>3. Separate'
  BY <1>1, <1>2, ServerAssumption DEF Separate, Open, mainVars, workerVars
<1>4. ASSUME NEW fd \in ReadableFds' \cap armed' PROVE fd \in ready'
  <2>1. fd \in Open \cap armed /\ conn[fd] \in Clients
    BY <1>1, <1>4, ServerAssumption DEF ReadableFds, Open
  <2>2. CASE conn[fd] # c
    BY <1>1, <1>2, <1>4, <2>1, <2>2 DEF ReadableFds, Readable, Watched, Connect, Send, Leave
  <2>3. CASE conn[fd] = c
    BY <1>1, <1>2, <1>4, <2>1, <2>3
    DEF ReadableFds, Readable, Watched, Connect, Send, Leave, Notify
  <2> QED BY <2>2, <2>3
<1>5. Watched'
  BY <1>1, <1>4 DEF Watched, mainVars, workerVars
<1>6. Ended'
  <2> SUFFICES ASSUME NEW w \in Workers, wpc[w] = "close", EndOfStream(conn[mine[w]])
               PROVE  EndOfStream(conn[mine[w]])'
    BY <1>1 DEF Ended, workerVars
  <2>1. conn[mine[w]] \in Clients
    BY OwnConnection DEF Alive
  <2> QED BY <1>1, <2>1 DEF EndOfStream, Connect, Send, Leave, workerVars
<1> QED BY <1>3, <1>5, <1>6

(* What is reported is disarmed, and was not with a worker.                *)
LEMMA SocketsWait ==
    ASSUME Typed, Separate, Watched, Ended, EpollWait
    PROVE  Separate' /\ Watched' /\ Ended'
<1> USE DEF Typed, TypeOK
<1>1. /\ UNCHANGED <<clientVars, conn, orphans, workerVars>>
      /\ events = {} /\ events' = Reported /\ ready' = {} /\ armed' = armed \ (Reported \cap Fds)
      /\ Open' = Open /\ Alive' = Alive /\ ReadableFds' = ReadableFds
  BY DEF EpollWait, BacklogHolds, Open, Alive, ReadableFds, Readable, clientVars, workerVars
<1>2. Separate'
  BY <1>1, ServerAssumption DEF Separate, Reported, ReadableFds, workerVars
<1>3. Watched'
  BY <1>1, ServerAssumption DEF Watched, Reported, ReadableFds, Open, workerVars
<1>4. Ended'
  BY <1>1 DEF Ended, EndOfStream, clientVars, workerVars
<1> QED BY <1>2, <1>3, <1>4

(* A number that accept() reuses is nobody's.                              *)
LEMMA SocketsAccept ==
    ASSUME Typed, Separate, Watched, Ended, Accept
    PROVE  Separate' /\ Watched' /\ Ended'
<1> USE DEF Typed, TypeOK
<1>1. /\ UNCHANGED <<clientVars, orphans, workerVars>>
      /\ events' = events \ {Listen} /\ Alive' = Alive
  BY DEF Accept, Dispatched, Alive, workerVars
<1>2. CASE UNCHANGED <<backlog, conn, epollVars>>
  BY <1>1, <1>2, ServerAssumption
  DEF Separate, Watched, Ended, EndOfStream, Open, ReadableFds, Readable,
      clientVars, epollVars, workerVars
<1>3. ASSUME NEW fd \in Fds \ Open, conn' = [conn EXCEPT ![fd] = Head(backlog)],
             Arm(fd, Head(backlog))
      PROVE  Separate' /\ Watched' /\ Ended'
  <2>1. Head(backlog) \in Clients
    <3>1. Listen \in events /\ 1 <= Len(backlog)
      BY DEF Accept, Dispatched, BacklogHolds, Pending
    <3> QED BY <3>1
  <2>2. Open' = Open \cup {fd} /\ \A x \in Open : conn'[x] = conn[x]
    BY <1>3, <2>1, ServerAssumption DEF Open
  <2>3. ready \subseteq ready' /\ ready' \subseteq ready \cup {fd} /\ armed' = armed \cup {fd}
    BY <1>3 DEF Arm
  <2>4. Separate'
    BY <1>1, <2>2, <2>3, ServerAssumption DEF Separate, Open, workerVars
  <2>5. ASSUME NEW x \in ReadableFds' \cap armed' PROVE x \in ready'
    <3>1. CASE x = fd
      BY <1>1, <1>3, <2>5, <3>1 DEF ReadableFds, Readable, Arm, clientVars
    <3>2. CASE x # fd
      BY <1>1, <2>2, <2>3, <2>5, <3>2 DEF Watched, ReadableFds, Readable, clientVars
    <3> QED BY <3>1, <3>2
  <2>6. Watched'
    BY <1>1, <2>2, <2>3, <2>5, ServerAssumption DEF Watched, Open, workerVars
  <2>7. Ended'
    BY <1>1, <2>2 DEF Ended, EndOfStream, Separate, Alive, clientVars, workerVars
  <2> QED BY <2>4, <2>6, <2>7
<1> QED BY <1>2, <1>3 DEF Accept

(* The event of a connection becomes its worker, or the thread fails.      *)
LEMMA SocketsStart ==
    ASSUME Typed, Separate, Watched, Ended, NEW fd \in Fds, StartWorker(fd)
    PROVE  Separate' /\ Watched' /\ Ended'
<1> USE DEF Typed, TypeOK
<1>1. /\ UNCHANGED <<clientVars, conn, epollVars>>
      /\ fd \in events /\ events' = events \ {fd}
      /\ Open' = Open /\ ReadableFds' = ReadableFds
  BY DEF StartWorker, Dispatched, Open, ReadableFds, Readable, clientVars
<1>2. ASSUME NEW w \in Workers, wpc[w] = "none",
             wpc' = [wpc EXCEPT ![w] = "start"], mine' = [mine EXCEPT ![w] = fd],
             UNCHANGED orphans
      PROVE  Separate' /\ Watched' /\ Ended'
  <2>1. /\ w \notin Alive /\ Alive' = Alive \cup {w}
        /\ mine'[w] = fd /\ \A v \in Alive : mine'[v] = mine[v]
    BY <1>2 DEF Alive
  <2>2. Separate'
    <3>1. UNCHANGED <<armed, ready>> /\ Open' = Open
      BY <1>1 DEF epollVars
    <3>2. /\ \A v \in Alive : mine[v] # fd
          /\ fd \in Open /\ fd \notin armed' \cup ready' \cup events'
      <4>1. fd \in events \cap Fds /\ events' = events \ {fd}
        BY <1>1, Zenon
      <4>2. \A v \in Alive : mine[v] \notin events
        BY DEF Separate
      <4>3. fd \in Open /\ fd \notin armed \cup ready
        BY <4>1, Zenon DEF Separate
      <4>4. fd \notin events' /\ armed' = armed /\ ready' = ready
        BY <3>1, <4>1, Zenon
      <4> HIDE DEF Typed, TypeOK
      <4> QED BY <4>1, <4>2, <4>3, <4>4
    <3>3. \A v, u \in Alive' : mine'[v] = mine'[u] => v = u
      <4>1. \A v, u \in Alive : mine[v] = mine[u] => v = u
        BY Zenon DEF Separate
      <4> HIDE DEF Typed, TypeOK
      <4> QED BY <2>1, <3>2, <4>1
    <3>4. \A v \in Alive' : mine'[v] \in Open' /\ mine'[v] \notin armed' \cup ready' \cup events'
      <4>1. \A v \in Alive : mine[v] \in Open /\ mine[v] \notin armed \cup ready \cup events
        BY Zenon DEF Separate
      <4> HIDE DEF Typed, TypeOK
      <4> QED BY <1>1, <2>1, <3>1, <3>2, <4>1
    <3>5. \A f \in events' \cap Fds : f \in Open' /\ f \notin armed' \cup ready'
      BY <1>1, <3>1 DEF Separate
    <3> QED BY <3>3, <3>4, <3>5 DEF Separate
  <2>3. Watched'
    BY <1>1, <1>2, <2>1 DEF Watched, epollVars
  <2>4. Ended'
    BY <1>1, <1>2 DEF Ended, EndOfStream, clientVars
  <2> QED BY <2>2, <2>3, <2>4
<1>3. CASE orphans' = orphans \cup {fd} /\ UNCHANGED <<wpc, mine>>
  <2>1. Separate'
    BY <1>1, <1>3 DEF Separate, Alive, epollVars
  <2>2. Watched'
    BY <1>1, <1>3 DEF Watched, Alive, epollVars
  <2>3. Ended'
    BY <1>1, <1>3 DEF Ended, EndOfStream, clientVars
  <2> QED BY <2>1, <2>2, <2>3
<1> QED BY <1>2, <1>3 DEF StartWorker

(* A worker reads from its own connection only, arms it again when there   *)
(* is nothing to read, and closes it at the end.                           *)
LEMMA SocketsWorkers ==
    ASSUME Typed, WorkerServesItsFd, WorkerServesItsFd', Separate, Watched, Ended,
           NEW w \in Workers, WStep(w)
    PROVE  Separate' /\ Watched' /\ Ended'
<1> USE DEF Typed, TypeOK
<1>1. UNCHANGED <<events, orphans, mine, backlog>> /\ w \in Alive
  BY DEF WStep, WStart, WRecv, WClose, WRearm, mainVars, Alive
<1>2. CASE WStart(w)
  BY <1>1, <1>2
  DEF WStart, WGoto, Separate, Watched, Ended, EndOfStream, Alive, Open, ReadableFds, Readable,
      clientVars, epollVars
<1>3. CASE WRecv(w)
  <2>1. /\ UNCHANGED <<conn, epollVars>> /\ sock_fd[w] = mine[w]
        /\ Open' = Open /\ Alive' = Alive
    BY <1>3 DEF WRecv, WGoto, WorkerServesItsFd, Open, Alive
  <2>2. \A c \in Clients : Readable(c)' => Readable(c)
    BY <1>3, ServerAssumption DEF WRecv, Readable, Open
  <2>3. \A c \in Clients : EndOfStream(c) => EndOfStream(c)'
    BY <1>3, ServerAssumption DEF WRecv, EndOfStream, Open
  <2>4. Separate'
    BY <1>1, <2>1 DEF Separate, epollVars
  <2>5. Watched'
    BY <1>1, <2>1, <2>2, ServerAssumption DEF Watched, ReadableFds, Open, epollVars
  <2>6. ASSUME NEW v \in Workers, wpc'[v] = "close" PROVE EndOfStream(conn[mine[v]])'
    <3>1. conn[mine[v]] \in Clients
      BY <1>3, <2>6, OwnConnection DEF Alive, WRecv, WGoto
    <3>2. CASE v # w
      BY <1>1, <1>3, <2>1, <2>3, <2>6, <3>1, <3>2 DEF WRecv, WGoto, Ended
    <3>3. CASE v = w
      BY <1>1, <1>3, <2>1, <2>3, <2>6, <3>1, <3>3 DEF WRecv, WGoto
    <3> QED BY <3>2, <3>3
  <2> QED BY <2>4, <2>5, <2>6 DEF Ended
<1>4. CASE WClose(w)
  <2>1. /\ UNCHANGED clientVars
        /\ conn' = [conn EXCEPT ![mine[w]] = NULL]
        /\ armed' = armed \ {mine[w]} /\ ready' = ready \ {mine[w]}
        /\ Open' = Open \ {mine[w]} /\ Alive' = Alive \ {w}
    <3>1. wpc[w] = "close" /\ sock_fd[w] = mine[w] /\ mine[w] \in Fds
      BY <1>1, <1>4, OwnConnection DEF WClose, WorkerServesItsFd
    <3>2. conn' = [conn EXCEPT ![mine[w]] = NULL] /\ wpc' = [wpc EXCEPT ![w] = "done"]
      BY <1>4, <3>1 DEF WClose, Break, WGoto
    <3>3. Open' = Open \ {mine[w]}
      BY <3>1, <3>2 DEF Open
    <3>4. Alive' = Alive \ {w}
      BY <3>1, <3>2 DEF Alive
    <3> QED BY <1>4, <3>1, <3>2, <3>3, <3>4 DEF WClose
  <2>2. Separate'
    BY <1>1, <2>1 DEF Separate
  <2>3. Watched'
    BY <1>1, <2>1, ServerAssumption DEF Watched, ReadableFds, Readable, Open, clientVars
  <2>4. Ended'
    BY <1>1, <1>4, <2>1, ServerAssumption
    DEF Ended, EndOfStream, Separate, Alive, Open, WClose, Break, WGoto, clientVars
  <2> QED BY <2>2, <2>3, <2>4
<1>5. CASE WRearm(w)
  <2>1. /\ UNCHANGED <<clientVars, conn>> /\ sock_fd[w] = mine[w] /\ mine[w] \in Open
        /\ Open' = Open /\ Alive' = Alive \ {w} /\ ReadableFds' = ReadableFds
    <3>1. UNCHANGED <<clientVars, conn>> /\ wpc[w] = "rearm" /\ wpc' = [wpc EXCEPT ![w] = "done"]
      BY <1>5 DEF WRearm, Break, WGoto
    <3>2. sock_fd[w] = mine[w] /\ mine[w] \in Open
      BY <1>1, <3>1 DEF WorkerServesItsFd, Separate
    <3>3. Open' = Open /\ ReadableFds' = ReadableFds
      BY <3>1 DEF Open, ReadableFds, Readable, clientVars
    <3>4. Alive' = Alive \ {w}
      BY <3>1 DEF Alive
    <3> QED BY <3>1, <3>2, <3>3, <3>4
  <2>2. Arm(mine[w], conn[mine[w]])
    BY <1>5, <2>1 DEF WRearm, ResetOneShot
  <2>3. Separate'
    BY <1>1, <2>1, <2>2 DEF Separate, Arm
  <2>4. Watched'
    BY <1>1, <2>1, <2>2 DEF Watched, Arm, ReadableFds
  <2>5. Ended'
    BY <1>1, <1>5, <2>1 DEF Ended, EndOfStream, WRearm, Break, WGoto, clientVars
  <2> QED BY <2>3, <2>4, <2>5
<1> QED BY <1>2, <1>3, <1>4, <1>5 DEF WStep

LEMMA SocketsNext == Typed /\ SocketInv /\ [Next]_vars => SocketInv'
<1> SUFFICES ASSUME Typed, SocketInv, [Next]_vars, WorkerServesItsFd'
             PROVE  Separate' /\ Watched' /\ Ended'
  BY DEF SocketInv
<1>1. WorkerServesItsFd /\ Separate /\ Watched /\ Ended
  BY ServesBefore DEF SocketInv
<1>2. CASE UNCHANGED vars \/ EpollFailure
  BY <1>1, <1>2
  DEF vars, EpollFailure, clientVars, epollVars, mainVars, workerVars,
      Separate, Watched, Ended, EndOfStream, Alive, Open, ReadableFds, Readable
<1> QED
  BY <1>1, <1>2, SocketsClients, SocketsWait, SocketsAccept, SocketsStart, SocketsWorkers
  DEF Next, Main

LEMMA SocketsAlways == Spec => []SocketInv
<1>1. Init => SocketInv
  BY DEF Init, SocketInv, Separate, Watched, Ended, Alive, Open, ReadableFds
<1> QED BY <1>1, TypedAlways, SocketsNext, PTL DEF Spec

-----------------------------------------------------------------------------
(* The workers of a connection, where each serves its own.                 *)
LEMMA WorkersOfMine ==
    ASSUME Typed, WorkerServesItsFd, NEW fd \in Fds
    PROVE  Workers_of(fd) = {w \in Alive : mine[w] = fd}
BY DEF Workers_of, Alive, WorkerServesItsFd, Typed, TypeOK

(* EPOLLONESHOT keeps workers apart: at most one thread reads from a       *)
(* connection, and none while an event of it can still be reported, for    *)
(* any number of connections and threads.                                  *)
THEOREM OneWorker == Spec => []OneWorkerPerSocket
<1>1. Typed /\ SocketInv => OneWorkerPerSocket
  <2> SUFFICES ASSUME Typed, WorkerServesItsFd, Separate, NEW fd \in Fds
               PROVE  /\ Cardinality(Workers_of(fd)) <= 1
                      /\ fd \in armed \cup ready => fd \notin events /\ Workers_of(fd) = {}
                      /\ fd \in events => Workers_of(fd) = {}
    BY DEF SocketInv, OneWorkerPerSocket
  <2>1. Cardinality(Workers_of(fd)) <= 1
    <3>1. CASE Workers_of(fd) = {}
      BY <3>1, FS_EmptySet
    <3>2. ASSUME NEW w \in Workers_of(fd) PROVE Cardinality(Workers_of(fd)) <= 1
      <4>1. Workers_of(fd) = {w}
        BY <3>2, WorkersOfMine DEF Separate
      <4>2. Cardinality({w}) = 1
        BY FS_Singleton
      <4> QED BY <4>1, <4>2
    <3> QED BY <3>1, <3>2
  <2>2. fd \in armed \cup ready \cup events => Workers_of(fd) = {}
    BY WorkersOfMine DEF Separate
  <2> QED BY <2>1, <2>2 DEF Separate
<1> QED BY <1>1, TypedAlways, SocketsAlways, PTL

(* What can be read is ready, reported or with a worker, unless the thread *)
(* for this very connection could not be created: input that comes between *)
(* EAGAIN and reset_one_shot() is seen.                                    *)
THEOREM Attended == Spec => []InputIsAttended
<1>1. Typed /\ SocketInv => InputIsAttended
  <2> SUFFICES ASSUME Typed, WorkerServesItsFd, Watched, NEW fd \in ReadableFds
               PROVE  fd \in ready \cup events \cup orphans \/ Workers_of(fd) # {}
    BY DEF SocketInv, InputIsAttended
  <2> QED BY WorkersOfMine DEF Watched, ReadableFds, Open
<1> QED BY <1>1, TypedAlways, SocketsAlways, PTL

(* Nothing but a worker that has read everything up to the end closes a    *)
(* connection, and it closes its own.                                      *)
THEOREM ClosesAtTheEnd == Spec => ClosedAtTheEnd
<1> DEFINE Closes == WorkerServesItsFd =>
             \A fd \in Open : conn'[fd] = NULL =>
                 unread[conn[fd]] = 0 /\ peer[conn[fd]] = "closed"
<1>1. Typed /\ SocketInv /\ [Next]_vars => [Closes]_vars
  <2> SUFFICES ASSUME Typed, WorkerServesItsFd, Separate, Ended, Next,
                      NEW fd \in Open, conn'[fd] = NULL
               PROVE  EndOfStream(conn[fd])
    BY DEF SocketInv, EndOfStream
  <2> USE DEF Typed, TypeOK
  <2>1. conn[fd] # NULL
    BY DEF Open
  <2>2. CASE UNCHANGED conn
    BY <2>1, <2>2
  <2>3. CASE Accept
    <3>1. UNCHANGED conn \/ \E x \in Fds \ Open : conn' = [conn EXCEPT ![x] = Head(backlog)]
      BY <2>3 DEF Accept
    <3> QED BY <2>1, <3>1 DEF Open
  <2>4. ASSUME NEW w \in Workers, WClose(w) PROVE EndOfStream(conn[fd])
    <3>1. wpc[w] = "close" /\ conn' = [conn EXCEPT ![mine[w]] = NULL]
      BY <2>4 DEF WClose, WorkerServesItsFd
    <3>2. fd = mine[w]
      BY <2>1, <3>1 DEF Open
    <3> QED BY <3>1, <3>2 DEF Ended
  <2> QED
    BY <2>2, <2>3, <2>4
    DEF Next, Main, WStep, Connect, Send, Leave, EpollWait, EpollFailure, StartWorker,
        WStart, WRecv, WRearm
<1> QED BY <1>1, TypedAlways, SocketsAlways, PTL DEF Spec, ClosedAtTheEnd
=============================================================================
