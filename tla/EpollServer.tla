---------------------------- MODULE EpollServer ----------------------------
(***************************************************************************)
(* src/epoll.cc: one thread serves every connection, through lt() or et(). *)
(* main() calls et(); the call of lt() is a comment beside it, and both    *)
(* are modelled.  Only listen_fd is registered with EPOLLET, and each of   *)
(* its events makes one accept().                                          *)
(*                                                                         *)
(* External: the clients and the kernel.  epoll_wait reports a readable    *)
(* descriptor whenever it is registered level-triggered, and once after    *)
(* each arrival when it is edge-triggered: arrivals before the report      *)
(* share it.  Events of one call are handled in any order.                 *)
(*                                                                         *)
(* Input is counted in buffers, one recv() each.  Bound: MaxInput.         *)
(***************************************************************************)
EXTENDS Naturals, Sequences, FiniteSets

CONSTANTS Clients,   (* the connections clients make, each once            *)
          Fds,       (* the descriptors open to connections                *)
          Listen,    (* listen_fd                                          *)
          NULL,      (* none                                               *)
          MaxInput   (* buffers a client sends at most                     *)

ASSUME EpollServerAssumption ==
    /\ IsFiniteSet(Clients) /\ IsFiniteSet(Fds) /\ MaxInput \in Nat
    /\ Listen \notin Fds /\ NULL \notin Clients \cup Fds

VARIABLES
    handler,    (* "lt" or "et"                                            *)
    peer,       (* each client: "none", "open", "ended" or "reset"         *)
    sent,       (* buffers it has sent                                     *)
    unread,     (* those the server has not received                       *)
    backlog,    (* connections accept() has not returned, in order         *)
    conn,       (* the connection behind each descriptor, or NULL          *)
    closed,     (* the connections the server has closed                   *)
    edges,      (* the edge-triggered descriptors                          *)
    arrived,    (* those of them with an arrival not yet reported          *)
    srv,        (* next step: "wait", "dispatch", "recv" or "exited"       *)
    events,     (* the events still to be handled                          *)
    sock_fd,    (* the descriptor et() receives from                       *)
    merged,     (* history: connections that shared an arrival             *)
    failed      (* history: calls of accept() that failed                  *)

clientVars == <<peer, sent>>
serverVars == <<conn, closed, edges, events, sock_fd, failed, handler>>
epollVars == <<clientVars, unread, backlog, arrived, srv, merged, serverVars>>

Accepted(c) == \E fd \in Fds : conn[fd] = c

Arrival(fd) == arrived' = arrived \cup ({fd} \cap edges)
Readable(fd) ==
    IF fd = Listen THEN backlog # <<>>
    ELSE conn[fd] # NULL /\ (unread[conn[fd]] > 0 \/ peer[conn[fd]] # "open")

EpollInit(h) ==
    /\ handler = h
    /\ peer = [c \in Clients |-> "none"]
    /\ sent = [c \in Clients |-> 0]
    /\ unread = [c \in Clients |-> 0]
    /\ backlog = <<>>
    /\ conn = [fd \in Fds |-> NULL]
    /\ closed = {}
    /\ edges = {Listen}
    /\ arrived = {}
    /\ srv = "wait"
    /\ events = {}
    /\ sock_fd = NULL
    /\ merged = 0
    /\ failed = 0
----------------------------------------------------------------------------
(* The clients.                                                            *)

Connect(c) ==
    /\ peer[c] = "none" /\ srv # "exited"
    /\ peer' = [peer EXCEPT ![c] = "open"]
    /\ backlog' = Append(backlog, c)
    /\ Arrival(Listen)
    /\ merged' = IF Listen \in arrived THEN merged + 1 ELSE merged
    /\ UNCHANGED <<sent, unread, srv, serverVars>>

(* What is sent before accept() is readable when epoll_ctl() registers it. *)
ClientArrival(c) == \/ \E fd \in Fds : conn[fd] = c /\ Arrival(fd)
                    \/ ~ Accepted(c) /\ UNCHANGED arrived

Send(c) ==
    /\ peer[c] = "open" /\ c \notin closed /\ sent[c] < MaxInput
    /\ sent' = [sent EXCEPT ![c] = @ + 1]
    /\ unread' = [unread EXCEPT ![c] = @ + 1]
    /\ ClientArrival(c)
    /\ UNCHANGED <<peer, backlog, srv, merged, serverVars>>

(* The client shuts down or closes, or the connection breaks and its       *)
(* unread input with it.                                                   *)
End(c) ==
    /\ peer[c] = "open"
    /\ \/ peer' = [peer EXCEPT ![c] = "ended"] /\ UNCHANGED unread
       \/ /\ peer' = [peer EXCEPT ![c] = "reset"]
          /\ unread' = [unread EXCEPT ![c] = 0]
    /\ ClientArrival(c)
    /\ UNCHANGED <<sent, backlog, srv, merged, serverVars>>
----------------------------------------------------------------------------
(* The server.                                                             *)

epoll_wait ==
    /\ srv = "wait"
    /\ events' = {fd \in Fds \cup {Listen} :
                    Readable(fd) /\ (fd \in edges => fd \in arrived)}
    /\ events' # {}
    /\ arrived' = arrived \ events'
    /\ srv' = "dispatch"
    /\ UNCHANGED <<clientVars, unread, backlog, merged, conn, closed, edges,
                   sock_fd, failed, handler>>

(* Stopped and continued, epoll_wait() fails, and main() ends.             *)
EpollFailure ==
    /\ srv = "wait"
    /\ srv' = "exited"
    /\ UNCHANGED <<clientVars, unread, backlog, arrived, merged, serverVars>>

NextEvents ==
    /\ srv = "dispatch" /\ events = {}
    /\ srv' = "wait"
    /\ UNCHANGED <<clientVars, unread, backlog, arrived, merged, serverVars>>

(* Variant: EPOLLET whatever the caller asks for.                          *)
add_fd_Variant(fd, enable_et) ==
    /\ edges' = edges \cup {fd} /\ arrived' = arrived \cup {fd}

(* EPOLL_CTL_ADD reports what is readable already.                         *)
add_fd(fd, enable_et) ==
    /\ edges' = IF enable_et THEN edges \cup {fd} ELSE edges
    /\ arrived' = IF enable_et THEN arrived \cup {fd} ELSE arrived

(* Variant: the event of listen_fd falls through to the next branch.       *)
AcceptVariant ==
    /\ Listen \in events /\ events' = events \ {Listen}
    /\ UNCHANGED <<clientVars, unread, backlog, arrived, srv, merged, conn,
                   closed, edges, sock_fd, failed, handler>>

(* One accept() and add_fd() for each event of listen_fd.  When accept()   *)
(* fails, for want of descriptors say, the connection stays in the backlog *)
(* and add_fd() of -1 does nothing.                                        *)
AcceptOne ==
    /\ Listen \in events
    /\ events' = events \ {Listen}
    /\ \/ /\ backlog # <<>>
          /\ \E fd \in Fds :
               /\ conn[fd] = NULL
               /\ conn' = [conn EXCEPT ![fd] = Head(backlog)]
               /\ add_fd(fd, FALSE)
          /\ backlog' = Tail(backlog)
          /\ UNCHANGED failed
       \/ /\ failed' = failed + 1
          /\ UNCHANGED <<conn, edges, arrived, backlog>>
    /\ UNCHANGED <<clientVars, unread, srv, merged, closed, sock_fd, handler>>

(* close() ends the registration too.                                      *)
Close(fd) ==
    /\ conn' = [conn EXCEPT ![fd] = NULL]
    /\ closed' = closed \cup ({conn[fd]} \ {NULL})
    /\ edges' = edges \ {fd}
    /\ arrived' = arrived \ {fd}

Received(fd) ==
    /\ conn[fd] # NULL /\ unread[conn[fd]] > 0
    /\ unread' = [unread EXCEPT ![conn[fd]] = @ - 1]
    /\ UNCHANGED <<conn, closed, edges, arrived>>

(* lt(): one recv() for each event; close() whenever it returns no data.   *)
LtEvent(fd) ==
    /\ srv = "dispatch" /\ handler = "lt" /\ fd \in events \ {Listen}
    /\ events' = events \ {fd}
    /\ \/ Received(fd)
       \/ /\ conn[fd] # NULL => unread[conn[fd]] = 0
          /\ Close(fd) /\ UNCHANGED unread
    /\ UNCHANGED <<clientVars, backlog, srv, merged, sock_fd, failed, handler>>

EtEvent(fd) ==
    /\ srv = "dispatch" /\ handler = "et" /\ fd \in events \ {Listen}
    /\ events' = events \ {fd}
    /\ sock_fd' = fd
    /\ srv' = "recv"
    /\ UNCHANGED <<clientVars, unread, backlog, arrived, merged, conn, closed,
                   edges, failed, handler>>

Break == srv' = "dispatch" /\ sock_fd' = NULL

(* recv() returns 0, or -1 with an error.                                  *)
AtEnd(fd) == conn[fd] # NULL /\ unread[conn[fd]] = 0 /\ peer[conn[fd]] # "open"

(* One turn of the loop in et(): data; EAGAIN and break; an error, close() *)
(* and break; or the end of the stream and close() with no break, after    *)
(* which recv() and close() of the closed number fail and break.           *)
EtRecv ==
    /\ srv = "recv"
    /\ \/ Received(sock_fd) /\ UNCHANGED <<srv, sock_fd>>
       \/ /\ AtEnd(sock_fd) /\ Close(sock_fd)
          /\ IF peer[conn[sock_fd]] = "reset" THEN Break
             ELSE UNCHANGED <<srv, sock_fd>>
          /\ UNCHANGED unread
       \/ /\ ~ Readable(sock_fd)
          /\ Break
          /\ UNCHANGED <<unread, conn, closed, edges, arrived>>
    /\ UNCHANGED <<clientVars, backlog, merged, events, failed, handler>>

(* The server runs whenever it can; clients need do nothing.               *)
EpollServerStep ==
    \/ epoll_wait \/ NextEvents \/ EtRecv
    \/ srv = "dispatch" /\ AcceptOne
    \/ \E fd \in Fds : LtEvent(fd) \/ EtEvent(fd)
EpollNext ==
    \/ EpollServerStep \/ EpollFailure
    \/ \E c \in Clients : Connect(c) \/ Send(c) \/ End(c)

EpollSpec == (\E h \in {"lt", "et"} : EpollInit(h)) /\ [][EpollNext]_epollVars
----------------------------------------------------------------------------
(* One accept() per event leaves a connection in the backlog for each that *)
(* shared its arrival with another and for each accept() that failed, and  *)
(* for no other reason; the next arrivals take them, oldest first.         *)
Pending(fds) == IF Listen \in fds THEN 1 ELSE 0
StrandedCounted == Len(backlog) = merged + failed + Pending(arrived) + Pending(events)

(* A connection is closed only after its client has ended it: not by lt(), *)
(* which closes whenever recv() returns no data, nor by et(), whose second *)
(* recv() and close() go to a number that is dead.                         *)
ClosedAtItsEnd == \A c \in closed : peer[c] # "open"

(* That always holds; and what an accepted client sends is received, and   *)
(* its end closes the connection, though lt() leaves the rest of the input *)
(* to the next report.                                                     *)
InputIsHandled ==
    /\ []ClosedAtItsEnd
    /\ \A c \in Clients :
        /\ (Accepted(c) /\ unread[c] > 0) ~> (unread[c] = 0 \/ srv = "exited")
        /\ (Accepted(c) /\ peer[c] # "open") ~> (c \in closed \/ srv = "exited")
=============================================================================
