----------------------------- MODULE UrgentData -----------------------------
(***************************************************************************)
(* src/tcp_send.cc sends "123", "abc" with MSG_OOB and "123" again to one  *)
(* of three receivers: src/tcp_recv.cc, src/select.cc or src/sigurg.cc.    *)
(* Only the last byte of "abc" is urgent.                                  *)
(*                                                                         *)
(* External: TCP.  The stream is five units, the third the urgent byte,    *)
(* which arrive one or more at a time.  The urgent pointer comes with the  *)
(* segments of the MSG_OOB send, or of earlier data still unsent, so       *)
(* possibly before the byte; SIGURG is raised then, once, if the socket    *)
(* has an owner.  An ordinary recv() stops before the urgent byte when it  *)
(* has something to return, and otherwise jumps over it, which destroys    *)
(* it; a pending signal interrupts it there before it jumps.  At the mark  *)
(* the socket is readable only when something follows the urgent byte.     *)
(***************************************************************************)
EXTENDS Integers, Sequences

Receivers == {"tcp_recv", "select", "sigurg"}
Mark == 3                            (* the urgent byte                    *)
Writes == <<1, 3, 5>>                (* the units of the stream after each *)
Ordinary == <<1, 2, 4, 5>>           (* send(), and all but the urgent one *)

VARIABLES
    receiver,   (* the program that receives                               *)
    sender,     (* the client's socket: "new", "connected" or "closed"     *)
    sends,      (* send() calls it has made                                *)
    written,    (* units sent                                              *)
    landed,     (* units that arrived                                      *)
    fin,        (* has the end of the stream arrived?                      *)
    urg,        (* the urgent byte: "none" announced, "notyet" there,      *)
                (* "valid", "read" or "gone"                               *)
    pos,        (* units consumed by ordinary recv(), the urgent one too   *)
    got,        (* units recv() returned                                   *)
    rpc,        (* next step of the receiver                               *)
    isset,      (* the sets of select() that hold connection_fd            *)
    sig,        (* SIGURG: which of "handled", "owned" and "pending"       *)
    unowned,    (* history: SIGURG found no owner                          *)
    missed,     (* history: recv(MSG_OOB) failed                           *)
    lost        (* history: the urgent byte was destroyed unread           *)

senderVars == <<sender, sends, written>>
streamVars == <<landed, fin>>
readVars == <<pos, got, rpc, isset>>
signalVars == <<sig, unowned>>
urgentVars == <<receiver, senderVars, streamVars, urg, readVars, signalVars, missed, lost>>

UrgentInit(r) ==
    /\ receiver = r
    /\ sender = "new" /\ sends = 0 /\ written = 0
    /\ landed = 0 /\ fin = FALSE
    /\ urg = "none" /\ pos = 0 /\ got = <<>>
    /\ rpc = "accept" /\ isset = {}
    /\ sig = {} /\ unowned = FALSE
    /\ missed = FALSE /\ lost = FALSE
----------------------------------------------------------------------------
(* tcp_send.cc                                                             *)

SenderConnects ==
    /\ sender = "new"
    /\ sender' \in {"connected", "closed"}
    /\ UNCHANGED <<receiver, sends, written, streamVars, urg, readVars,
                   signalVars, missed, lost>>

SenderSends ==
    /\ sender = "connected" /\ sends < 3
    /\ sends' = sends + 1
    /\ written' = Writes[sends + 1]
    /\ UNCHANGED <<receiver, sender, streamVars, urg, readVars,
                   signalVars, missed, lost>>

SenderCloses ==
    /\ sends = 3 /\ sender = "connected"
    /\ sender' = "closed"
    /\ UNCHANGED <<receiver, sends, written, streamVars, urg, readVars,
                   signalVars, missed, lost>>
----------------------------------------------------------------------------
(* TCP: some of what was written arrives, with or without the pointer.     *)

Deliver ==
    \E n \in landed + 1 .. written, pointer \in BOOLEAN :
        /\ pointer => written >= Mark
        /\ n > 1 /\ urg = "none" => pointer
        /\ landed' = n
        /\ urg' = IF urg \in {"none", "notyet"} /\ (pointer \/ urg = "notyet")
                  THEN IF n >= Mark THEN "valid" ELSE "notyet"
                  ELSE urg
        /\ IF urg = "none" /\ pointer
           THEN /\ sig' = IF sig = {"handled", "owned"} THEN sig \cup {"pending"} ELSE sig
                /\ unowned' = ("owned" \notin sig)
           ELSE UNCHANGED <<sig, unowned>>
        /\ UNCHANGED <<receiver, senderVars, fin, readVars, missed, lost>>

DeliverEnd ==
    /\ sender = "closed" /\ sends = 3 /\ landed = written /\ ~ fin
    /\ fin' = TRUE
    /\ UNCHANGED <<receiver, senderVars, landed, urg, readVars, signalVars, missed, lost>>

(* Where a recv() from here ends, what it returns, and whether it jumps.   *)
Stop == IF pos < Mark - 1 /\ landed >= Mark THEN Mark - 1 ELSE landed
OrdinaryAmong(n) == IF n < Mark THEN n ELSE n - 1
Available == SubSeq(Ordinary, OrdinaryAmong(pos) + 1, OrdinaryAmong(Stop))
Jumps == pos < Mark /\ Stop >= Mark
InputReady == Available # <<>> \/ fin
Held == pos = Mark - 1 /\ "pending" \in sig

(* An ordinary recv() that returns data, or the end, and the step after.   *)
Recv(afterData, afterEnd) ==
    /\ InputReady /\ ~ Held
    /\ got' = got \o Available
    /\ pos' = Stop
    /\ lost' = (lost \/ (Jumps /\ urg = "valid"))
    /\ urg' = IF Jumps THEN "gone" ELSE urg
    /\ rpc' = IF Available = <<>> THEN afterEnd ELSE afterData
    /\ UNCHANGED <<receiver, senderVars, streamVars, isset, signalVars, missed>>

(* A recv() that waits for data jumps over an urgent byte alone.           *)
RecvWaits ==
    /\ rpc \in {"recv", "recv2"} /\ Jumps /\ ~ InputReady /\ ~ Held
    /\ pos' = Mark /\ urg' = "gone" /\ lost' = (lost \/ urg = "valid")
    /\ UNCHANGED <<receiver, senderVars, streamVars, got, rpc, isset, signalVars, missed>>

(* recv(MSG_OOB) takes the urgent byte when it is there; it never waits.   *)
RecvOob(after, afterError) ==
    /\ \/ urg = "valid" /\ urg' = "read" /\ rpc' = after /\ UNCHANGED missed
       \/ urg # "valid" /\ missed' = TRUE /\ rpc' = afterError /\ UNCHANGED urg
    /\ UNCHANGED <<receiver, senderVars, streamVars, pos, got, isset, unowned, lost>>
----------------------------------------------------------------------------
(* The receivers                                                           *)
Step(to) ==
    /\ rpc' = to
    /\ UNCHANGED <<receiver, senderVars, streamVars, urg, pos, got, isset, unowned, missed, lost>>

AcceptElse(program, first, otherwise) ==
    /\ receiver = program /\ rpc = "accept" /\ (sender = "connected" \/ sends > 0)
    /\ Step(first) \/ Step(otherwise)
    /\ UNCHANGED sig

(* tcp_recv.cc: three calls, whatever they return.                         *)
TcpRecv ==
    \/ AcceptElse("tcp_recv", "recv1", "failed")
    \/ rpc = "recv1" /\ Recv("oob", "oob")
    \/ rpc = "oob" /\ RecvOob("recv2", "recv2") /\ UNCHANGED sig
    \/ rpc = "recv2" /\ Recv("done", "done")

(* select.cc goes on after a failed accept(), and select() then waits for  *)
(* ever for no descriptor.                                                 *)
SelectAccept == AcceptElse("select", "select", "stuck")

(* select.cc: connection_fd is set in both sets before each call.  When the *)
(* call fails, for want of memory, the loop is left.                       *)
Select ==
    /\ rpc = "select"
    /\ \/ /\ isset' = {s \in {"read", "exception"} :
                         IF s = "read" THEN InputReady ELSE urg = "valid"}
          /\ isset' # {}
          /\ rpc' = "test"
       \/ rpc' = "failed" /\ UNCHANGED isset
    /\ UNCHANGED <<receiver, senderVars, streamVars, urg, pos, got, signalVars, missed, lost>>

(* The exception set is looked at only when the read set does not hold it. *)
Selected ==
    /\ rpc = "test"
    /\ \/ "read" \in isset /\ Recv("select", "done")
       \/ "read" \notin isset /\ RecvOob("select", "done") /\ UNCHANGED sig

(* sigurg.cc                                                               *)
SigurgAccept == AcceptElse("sigurg", "add_sig", "failed")

(* Variant: F_SETOWN before sigaction().                                   *)
InstallVariant ==
    \/ rpc = "add_sig" /\ Step("own") /\ sig' = sig \cup {"owned"}
    \/ rpc = "own" /\ Step("recv") /\ sig' = sig \cup {"handled"}

(* sigaction() before F_SETOWN.                                            *)
Install ==
    \/ rpc = "add_sig" /\ Step("own") /\ sig' = sig \cup {"handled"}
    \/ rpc = "own" /\ Step("recv") /\ sig' = sig \cup {"owned"}

(* The loop of main().                                                     *)
MainRecv == rpc = "recv" /\ Recv("recv", "done")

(* Variant: no SA_RESTART, and recv() fails with EINTR.                    *)
SigUrgVariant ==
    /\ "pending" \in sig /\ sig' = sig \ {"pending"}
    /\ RecvOob(IF rpc = "recv" THEN "done" ELSE rpc, IF rpc = "recv" THEN "done" ELSE rpc)

(* sig_urg(): between two steps of main(), or inside its recv(), which     *)
(* SA_RESTART starts again.                                                *)
SigUrg ==
    /\ "pending" \in sig
    /\ sig' = sig \ {"pending"}
    /\ RecvOob(rpc, rpc)

(* The receiver runs; the sender and the network need do nothing.          *)
Receive ==
    \/ TcpRecv \/ SelectAccept \/ Select \/ Selected
    \/ SigurgAccept \/ Install \/ MainRecv \/ SigUrg \/ RecvWaits
UrgentNext == SenderConnects \/ SenderSends \/ SenderCloses \/ Deliver \/ DeliverEnd \/ Receive
UrgentSpec == (\E r \in Receivers : UrgentInit(r)) /\ [][UrgentNext]_urgentVars
----------------------------------------------------------------------------
(* tcp_recv.cc destroys the urgent byte only after it asked for it too     *)
(* early; and so does sigurg.cc, unless the byte was announced before      *)
(* F_SETOWN: main()'s recv() never overtakes the handler.  select.cc,      *)
(* which prefers the read set, loses it when something follows it in time. *)
UrgentKept ==
    lost => \/ missed
            \/ receiver = "sigurg" /\ unowned
            \/ receiver = "select" /\ landed > Mark

(* Ordinary data is received in order, and without the urgent byte.        *)
ReadInOrder == got = SubSeq(Ordinary, 1, Len(got))

(* That always holds; and once the client has closed, select.cc and        *)
(* sigurg.cc receive all of the data, the handler's interruptions          *)
(* notwithstanding, and every receiver ends, unless accept() or select()   *)
(* failed.                                                                 *)
StreamIsRead ==
    /\ []ReadInOrder
    /\ fin ~> \/ rpc \in {"failed", "stuck"}
              \/ rpc = "done" /\ (receiver # "tcp_recv" => got = Ordinary)
=============================================================================
