------------------------------ MODULE Connects ------------------------------
(***************************************************************************)
(* src/unblock_connect.cc and src/timeout_connect.cc: two ways to give a   *)
(* connection attempt ten seconds.  unblock_connect() makes the socket     *)
(* non-blocking and waits for it in select(); timeout_connect() sets       *)
(* SO_SNDTIMEO and lets connect() wait.                                    *)
(*                                                                         *)
(* unblock_connect() clears read_fds and uses write_fds, which is left as  *)
(* the stack had it: it may hold descriptors that are writable at once,    *)
(* or numbers that are not open, for which select() fails.                 *)
(*                                                                         *)
(* External: the network, which answers at any time or never.  SO_ERROR of *)
(* a socket still connecting is 0.                                         *)
(***************************************************************************)

Functions == {"unblock_connect", "timeout_connect"}

VARIABLES
    caller,       (* the function called                                   *)
    cpc,          (* its next step, "returned", "aborted" or "exited"      *)
    result,       (* what it returned: "socket" or "-1"                    *)
    socket,       (* sock_fd: "none", "open" or "closed"                   *)
    nonblocking,  (* O_NONBLOCK                                            *)
    network,      (* "idle", "pending", "established" or "refused"         *)
    stray         (* the rest of write_fds: "none", "writable" or "bad"    *)

connectVars == <<caller, cpc, result, socket, nonblocking, network, stray>>

ConnectInit(f) ==
    /\ caller = f
    /\ cpc = "socket" /\ result = "" /\ socket = "none"
    /\ nonblocking = FALSE /\ network = "idle" /\ stray = "none"

Waiting(step) == cpc = step /\ UNCHANGED <<caller, stray>>
Return(r) == cpc' = "returned" /\ result' = r
Fail == Return("-1") /\ UNCHANGED socket
CloseAndFail == Return("-1") /\ socket' = "closed"

(* socket(), and set_non_blocking() or setsockopt().  Only                 *)
(* timeout_connect() asserts that they succeed.                            *)
OpenSocket ==
    /\ Waiting("socket")
    /\ \/ /\ socket' = "open" /\ cpc' = "connect"
          /\ nonblocking' = (caller = "unblock_connect")
       \/ /\ UNCHANGED <<socket, nonblocking>>
          /\ cpc' = IF caller = "unblock_connect" THEN "connect" ELSE "aborted"
    /\ UNCHANGED <<result, network>>

(* connect() of a non-blocking socket: at once, in progress, or an error,  *)
(* after which the socket is left open.  EBADF of descriptor -1 is one.    *)
NonBlockingConnect ==
    /\ cpc = "connect" /\ caller = "unblock_connect"
    /\ \/ /\ socket = "open" /\ network' = "established"
          /\ Return("socket") /\ nonblocking' = FALSE
          /\ UNCHANGED <<socket, stray>>
       \/ /\ socket = "open" /\ network' = "pending"
          /\ stray' \in {"none", "writable", "bad"}
          /\ cpc' = "select" /\ UNCHANGED <<result, socket, nonblocking>>
       \/ Fail /\ UNCHANGED <<nonblocking, network, stray>>
    /\ UNCHANGED caller

(* select() fails, or the time is over.                                    *)
SelectFails ==
    /\ Waiting("select")
    /\ stray = "bad" \/ (stray = "none" /\ network = "pending")
    /\ CloseAndFail
    /\ UNCHANGED <<nonblocking, network>>

(* Variant: no FD_ISSET(sock_fd, &write_fds).                              *)
SelectVariant ==
    /\ Waiting("select") /\ stray # "bad" /\ (stray = "writable" \/ network # "pending")
    /\ cpc' = "getsockopt" /\ UNCHANGED <<result, socket, nonblocking, network>>

(* select() finds something writable: if not sock_fd, the call fails.      *)
SelectReturns ==
    /\ Waiting("select") /\ stray # "bad"
    /\ \/ network # "pending" /\ cpc' = "getsockopt" /\ UNCHANGED <<result, socket>>
       \/ network = "pending" /\ stray = "writable" /\ CloseAndFail
    /\ UNCHANGED <<nonblocking, network>>

(* getsockopt(SO_ERROR) fails or tells of an error, or sock_fd is made     *)
(* blocking again and returned.                                            *)
GetSockOpt ==
    /\ Waiting("getsockopt")
    /\ \/ CloseAndFail /\ UNCHANGED nonblocking
       \/ network # "refused" /\ Return("socket") /\ nonblocking' = FALSE /\ UNCHANGED socket
    /\ UNCHANGED network

(* connect() of timeout_connect(): begins, or fails at once ...            *)
BlockingConnect ==
    /\ Waiting("connect") /\ caller = "timeout_connect"
    /\ \/ network' = "pending" /\ cpc' = "connecting" /\ UNCHANGED <<result, socket>>
       \/ Fail /\ UNCHANGED network
    /\ UNCHANGED nonblocking

(* ... and ends with the answer, or with EINPROGRESS when the time is      *)
(* over, which leaves the attempt going on and the socket open.            *)
BlockingConnectEnds ==
    /\ Waiting("connecting")
    /\ \/ network = "established" /\ Return("socket") /\ UNCHANGED socket
       \/ network # "established" /\ Fail
    /\ UNCHANGED <<nonblocking, network>>

(* main() closes the socket it got, or ends, which closes it too.          *)
ConnectMain ==
    /\ Waiting("returned")
    /\ cpc' = "exited"
    /\ socket' = IF socket = "open" THEN "closed" ELSE socket
    /\ UNCHANGED <<result, nonblocking, network>>

(* The answer; a closed socket's attempt is over.                          *)
Answer ==
    /\ network = "pending" /\ socket = "open"
    /\ network' \in {"established", "refused"}
    /\ UNCHANGED <<caller, cpc, result, socket, nonblocking, stray>>

ConnectStep ==
    \/ OpenSocket \/ NonBlockingConnect \/ SelectFails \/ SelectReturns \/ GetSockOpt
    \/ BlockingConnect \/ BlockingConnectEnds \/ ConnectMain
ConnectNext == ConnectStep \/ Answer
ConnectSpec == (\E f \in Functions : ConnectInit(f)) /\ [][ConnectNext]_connectVars
----------------------------------------------------------------------------
(* A socket is returned only once it is connected, and blocking, whatever  *)
(* else select() reported and whenever the answer came; and after -1 it is *)
(* closed, except that timeout_connect() and an unblock_connect() that     *)
(* never waited leave it open.  No call returns with the socket half done. *)
ConnectedOrClosed ==
    cpc = "returned" =>
        IF result = "socket" THEN network = "established" /\ socket = "open" /\ ~ nonblocking
        ELSE socket = "open" => caller = "timeout_connect" \/ network = "idle"
=============================================================================
