---------------------------- MODULE EpollOneShot ----------------------------
(***************************************************************************)
(* src/epoll_one_shot.cc: the main thread waits on an edge-triggered epoll *)
(* set and starts one worker thread for each event of a connection, which  *)
(* is registered EPOLLONESHOT so that one worker at a time reads from it.  *)
(*                                                                         *)
(* main() hands the descriptor over through fds_for_new_worker, a local of *)
(* the loop body whose address the worker reads when it gets to run.  The  *)
(* project builds without optimisation, where every iteration has it at    *)
(* the same place of the stack: the worker finds what was stored last.     *)
(* The worker's missing return is harmless there too.                      *)
(*                                                                         *)
(* External: the clients and the kernel.  A socket is readable when it has *)
(* unread input, an error or the end of the stream.  A readable socket is  *)
(* put on the ready list when input arrives while its registration is      *)
(* armed, and when EPOLL_CTL_ADD or _MOD arms it; epoll_wait disarms what  *)
(* it reports.  close() ends the registration and frees the number for the *)
(* next accept().  pthread_create may fail at any time, and does so after  *)
(* Workers threads in all, since nobody joins a thread that has ended and  *)
(* its stack is kept.                                                      *)
(*                                                                         *)
(* Input is counted in buffers, one recv() each.  Bound: MaxInput.         *)
(***************************************************************************)
EXTENDS Naturals, Sequences, FiniteSets

CONSTANTS Clients,   (* the connections clients make, each once            *)
          Fds,       (* the descriptors open to connections                *)
          Listen,    (* listen_fd                                          *)
          Workers,   (* the threads that can be started                    *)
          NULL,      (* none                                               *)
          MaxInput   (* buffers a client sends at most                     *)

ASSUME ServerAssumption ==
    /\ IsFiniteSet(Clients) /\ IsFiniteSet(Fds) /\ IsFiniteSet(Workers)
    /\ Listen \notin Fds
    /\ NULL \notin Clients \cup Fds
    /\ MaxInput \in Nat

VARIABLES
    peer,       (* what each client has done to its connection             *)
    sent,       (* buffers each client has sent                            *)
    unread,     (* those the server has not received                       *)
    backlog,    (* connections accept() has not returned, in order         *)
    conn,       (* the connection behind each descriptor, or NULL          *)
    armed,      (* the descriptors whose registration is enabled           *)
    ready,      (* the ready list of the epoll set                         *)
    mpc,        (* main(): "wait", "dispatch" or "exited"                  *)
    events,     (* the reported descriptors main() has still to look at    *)
    slot,       (* fds_for_new_worker.sock_fd                              *)
    wpc,        (* next step of each worker                                *)
    sock_fd,    (* its local                                               *)
    mine,       (* history: the descriptor each worker was started for     *)
    orphans     (* history: descriptors for which pthread_create failed    *)

clientVars == <<peer, sent, unread>>
epollVars == <<armed, ready>>
mainVars == <<mpc, events, slot, orphans>>
workerVars == <<wpc, sock_fd, mine>>
vars == <<clientVars, backlog, conn, epollVars, mainVars, workerVars>>

Open == {fd \in Fds : conn[fd] # NULL}

Readable(c) == unread[c] > 0 \/ peer[c] \in {"closed", "reset"}

ReadableFds == {fd \in Open : Readable(conn[fd])}

Init ==
    /\ peer = [c \in Clients |-> "absent"]
    /\ sent = [c \in Clients |-> 0]
    /\ unread = [c \in Clients |-> 0]
    /\ backlog = <<>>
    /\ conn = [fd \in Fds |-> NULL]
    /\ armed = {Listen}
    /\ ready = {}
    /\ mpc = "wait"
    /\ events = {}
    /\ slot = NULL
    /\ wpc = [w \in Workers |-> "none"]
    /\ sock_fd = [w \in Workers |-> NULL]
    /\ mine = [w \in Workers |-> NULL]
    /\ orphans = {}

Running == mpc # "exited"

-----------------------------------------------------------------------------
(* The clients.                                                             *)
Connect(c) ==
    /\ peer[c] = "absent"
    /\ peer' = [peer EXCEPT ![c] = "connected"]
    /\ backlog' = Append(backlog, c)
    /\ ready' = ready \cup {Listen}
    /\ UNCHANGED <<sent, unread, conn, armed, mainVars, workerVars>>

Notify(c) == ready' = ready \cup {fd \in Open \cap armed : conn[fd] = c}

Served(c) == (\E fd \in Open : conn[fd] = c) \/ (\E i \in DOMAIN backlog : backlog[i] = c)

Send(c) ==
    /\ peer[c] = "connected" /\ Served(c)
    /\ sent[c] < MaxInput
    /\ sent' = [sent EXCEPT ![c] = @ + 1]
    /\ unread' = [unread EXCEPT ![c] = @ + 1]
    /\ Notify(c)
    /\ UNCHANGED <<peer, backlog, conn, armed, mainVars, workerVars>>

Leave(c) ==
    /\ peer[c] = "connected" /\ Served(c)
    /\ \E way \in {"closed", "reset"} : peer' = [peer EXCEPT ![c] = way]
    /\ Notify(c)
    /\ UNCHANGED <<sent, unread, backlog, conn, armed, mainVars, workerVars>>

-----------------------------------------------------------------------------
(* main()                                                                   *)
Arm(fd, c) ==
    /\ armed' = armed \cup {fd}
    /\ ready' = ready \cup IF Readable(c) THEN {fd} ELSE {}

(* What epoll_wait reports; the registration of listen_fd is not one-shot.  *)
Reported == {fd \in ready : fd = Listen \/ fd \in ReadableFds}

EpollWait ==
    /\ mpc = "wait"
    /\ Reported # {}
    /\ events' = Reported
    /\ armed' = armed \ (Reported \cap Fds)
    /\ ready' = {}
    /\ mpc' = "dispatch"
    /\ UNCHANGED <<clientVars, backlog, conn, slot, orphans, workerVars>>

EpollFailure ==
    /\ mpc = "wait"
    /\ mpc' = "exited"
    /\ UNCHANGED <<clientVars, backlog, conn, epollVars, events, slot, orphans, workerVars>>

Dispatched(fd) ==
    /\ mpc = "dispatch"
    /\ fd \in events
    /\ events' = events \ {fd}
    /\ mpc' = IF events' = {} THEN "wait" ELSE "dispatch"

(* One accept() for an event, however many connections wait.  When it fails *)
(* the calls of add_fd on -1 fail too.                                      *)
Accept ==
    /\ Dispatched(Listen)
    /\ \/ /\ Open = Fds
          /\ UNCHANGED <<backlog, conn, epollVars>>
       \/ \E fd \in Fds \ Open :
            /\ conn' = [conn EXCEPT ![fd] = Head(backlog)]
            /\ backlog' = Tail(backlog)
            /\ Arm(fd, Head(backlog))
    /\ UNCHANGED <<clientVars, slot, orphans, workerVars>>

(* Variant: the worker is started before its argument is stored.            *)
StoreNothing(fd) == slot' = slot

Store(fd) == slot' = fd

(* Every reported connection has EPOLLIN: the kernel sets it with an error  *)
(* and with a hang-up.                                                      *)
StartWorker(fd) ==
    /\ fd \in Fds
    /\ Dispatched(fd)
    /\ Store(fd)
    /\ \/ \E w \in Workers :
            /\ wpc[w] = "none"
            /\ wpc' = [wpc EXCEPT ![w] = "start"]
            /\ mine' = [mine EXCEPT ![w] = fd]
            /\ UNCHANGED orphans
       \/ /\ orphans' = orphans \cup {fd}
          /\ UNCHANGED <<wpc, mine>>
    /\ UNCHANGED <<clientVars, backlog, conn, epollVars, sock_fd>>

-----------------------------------------------------------------------------
(* worker()                                                                 *)
WGoto(w, step) == wpc' = [wpc EXCEPT ![w] = step]

WStart(w) ==
    /\ wpc[w] = "start"
    /\ sock_fd' = [sock_fd EXCEPT ![w] = slot]
    /\ WGoto(w, "recv")
    /\ UNCHANGED <<clientVars, backlog, conn, epollVars, mainVars, mine>>

(* Variant: every result of recv() below 1 is taken for the end.            *)
NoInputIsEnd(c) == unread[c] = 0 /\ peer[c] # "reset"

EndOfStream(c) == unread[c] = 0 /\ peer[c] = "closed"

(* recv() on a descriptor that is not open fails with EBADF and is tried    *)
(* again for ever, as after every error but EAGAIN.                         *)
WRecv(w) ==
    /\ wpc[w] = "recv"
    /\ sock_fd[w] \in Open
    /\ LET c == conn[sock_fd[w]]
       IN  \/ /\ unread[c] > 0
              /\ unread' = [unread EXCEPT ![c] = @ - 1]
              /\ UNCHANGED <<peer, wpc>>
           \/ /\ unread[c] = 0 /\ peer[c] = "reset"
              /\ peer' = [peer EXCEPT ![c] = "closed"]
              /\ UNCHANGED <<unread, wpc>>
           \/ /\ EndOfStream(c)
              /\ WGoto(w, "close")
              /\ UNCHANGED <<peer, unread>>
           \/ /\ unread[c] = 0 /\ peer[c] = "connected"
              /\ WGoto(w, "rearm")
              /\ UNCHANGED <<peer, unread>>
    /\ UNCHANGED <<sent, backlog, conn, epollVars, mainVars, sock_fd, mine>>

(* Variant: the worker goes on reading.                                     *)
GoOn(w) == WGoto(w, "recv")

Break(w) == WGoto(w, "done")

WClose(w) ==
    /\ wpc[w] = "close"
    /\ conn' = [conn EXCEPT ![sock_fd[w]] = NULL]
    /\ armed' = armed \ {sock_fd[w]}
    /\ ready' = ready \ {sock_fd[w]}
    /\ Break(w)
    /\ UNCHANGED <<clientVars, backlog, mainVars, sock_fd, mine>>

(* Variant: the call of reset_one_shot is missing.                          *)
ResetNothing(fd) == UNCHANGED epollVars

ResetOneShot(fd) ==
    \/ fd \in Open /\ Arm(fd, conn[fd])
    \/ fd \notin Open /\ UNCHANGED epollVars

WRearm(w) ==
    /\ wpc[w] = "rearm"
    /\ ResetOneShot(sock_fd[w])
    /\ Break(w)
    /\ UNCHANGED <<clientVars, backlog, conn, mainVars, sock_fd, mine>>

-----------------------------------------------------------------------------
Main == EpollWait \/ Accept \/ \E fd \in Fds : StartWorker(fd)

WStep(w) == WStart(w) \/ WRecv(w) \/ WClose(w) \/ WRearm(w)

Next ==
    /\ Running
    /\ \/ Main \/ EpollFailure
       \/ \E c \in Clients : Connect(c) \/ Send(c) \/ Leave(c)
       \/ \E w \in Workers : WStep(w)

Spec == Init /\ [][Next]_vars

(* The threads run.  Of the clients nothing is assumed, and main() may end. *)
FairSpec ==
    /\ Spec
    /\ WF_vars(Running /\ Main)
    /\ \A w \in Workers : WF_vars(Running /\ WStep(w))

-----------------------------------------------------------------------------
TypeOK ==
    /\ peer \in [Clients -> {"absent", "connected", "closed", "reset"}]
    /\ sent \in [Clients -> 0 .. MaxInput]
    /\ unread \in [Clients -> 0 .. MaxInput]
    /\ backlog \in Seq(Clients)
    /\ conn \in [Fds -> Clients \cup {NULL}]
    /\ armed \in SUBSET (Fds \cup {Listen})
    /\ ready \in SUBSET (Fds \cup {Listen})
    /\ mpc \in {"wait", "dispatch", "exited"}
    /\ events \in SUBSET (Fds \cup {Listen})
    /\ slot \in Fds \cup {NULL}
    /\ wpc \in [Workers -> {"none", "start", "recv", "close", "rearm", "done"}]
    /\ sock_fd \in [Workers -> Fds \cup {NULL}]
    /\ \A w \in Workers : wpc[w] \in {"none", "start"} <=> sock_fd[w] = NULL
    /\ mine \in [Workers -> Fds \cup {NULL}]
    /\ orphans \in SUBSET Fds

Alive == {w \in Workers : wpc[w] \notin {"none", "done"}}

Workers_of(fd) == {w \in Alive : fd = IF wpc[w] = "start" THEN mine[w] ELSE sock_fd[w]}

(* A worker serves the descriptor it was started for: what line 54 reports  *)
(* is what line 125 stored for it.                                          *)
WorkerServesItsFd ==
    \A w \in Workers : wpc[w] \notin {"none", "start"} => sock_fd[w] = mine[w]

(* EPOLLONESHOT does its work: while main() has an event or a worker for a  *)
(* connection, no other event of it can be reported, and no second worker   *)
(* reads from it.                                                           *)
OneWorkerPerSocket ==
    WorkerServesItsFd =>
        \A fd \in Fds :
            /\ Cardinality(Workers_of(fd)) <= 1
            /\ fd \in armed \cup ready => fd \notin events /\ Workers_of(fd) = {}
            /\ fd \in events => Workers_of(fd) = {}

(* No input is forgotten: a connection that could be read is on the ready   *)
(* list, among the events of main(), or with a worker; in particular input  *)
(* that arrives between EAGAIN and reset_one_shot.  A failed pthread_create *)
(* leaves alone the connection it was called for, and no other.             *)
InputIsAttended ==
    WorkerServesItsFd =>
        \A fd \in ReadableFds : fd \in ready \cup events \cup orphans \/ Workers_of(fd) # {}

(* A connection is closed only at the end of its stream, with all its input *)
(* received: the worker that saw the end closes that connection and not one *)
(* that took its number.                                                    *)
ClosedAtTheEnd ==
    [][WorkerServesItsFd =>
         \A fd \in Open : conn'[fd] = NULL =>
             unread[conn[fd]] = 0 /\ peer[conn[fd]] = "closed"]_vars

(* Input of an accepted connection is received in the end.                  *)
InputIsReceived ==
    \A fd \in Fds, c \in Clients :
        conn[fd] = c /\ unread[c] > 0
            ~> \/ unread[c] = 0
               \/ ~WorkerServesItsFd \/ fd \in orphans \/ ~Running

=============================================================================
