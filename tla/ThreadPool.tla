----------------------------- MODULE ThreadPool -----------------------------
(***************************************************************************)
(* include/thread_pool.h and src/thread_pool.cc, with the semaphore and    *)
(* the mutex of src/locker.cc: a request queue filled by append() and      *)
(* emptied by the worker threads in run().  A step is one access to shared *)
(* state; the lock protects what the code puts between lock and unlock.    *)
(*                                                                         *)
(* The code is followed where it surprises: the constructor throws when    *)
(* pthread_detach SUCCEEDS (line 26), and workers loop while m_stop is     *)
(* TRUE (line 66).                                                         *)
(*                                                                         *)
(* External: pthread_create, pthread_detach and sem_init, which succeed or *)
(* fail; the owner, who destroys the pool when no append() is running; and *)
(* request->process(), which returns and does not call the pool.           *)
(***************************************************************************)
EXTENDS Integers, Sequences, FiniteSets

CONSTANTS Workers,        (* the thread_number threads of the pool         *)
          Appenders,      (* the threads that call append()                *)
          Requests,       (* the requests they hand over, each once        *)
          NULL,           (* nullptr; also "nobody"                        *)
          MaxRequests,    (* max_requests                                  *)
          InitResults, CreateResults, DetachResults
                          (* what sem_init, pthread_create and             *)
                          (* pthread_detach may return: "ok", "error"      *)

ASSUME PoolAssumption ==
    /\ IsFiniteSet(Workers) /\ Workers # {}
    /\ IsFiniteSet(Appenders)
    /\ Workers \cap Appenders = {}
    /\ NULL \notin Workers \cup Appenders
    /\ MaxRequests \in Nat \ {0}

VARIABLES pool,          (* life of the object, see TypeOK                  *)
          failed,        (* history: has a call of the constructor failed?  *)
          detaching,     (* the thread created but not yet detached         *)
          m_stop,
          m_work_queue,
          holder,        (* m_queue_locker: the thread that holds it        *)
          permits,       (* m_queue_stat: the value of the semaphore        *)
          wpc, request,  (* run(): next step and local of each worker       *)
          apc, argument, (* append(): next step and parameter               *)
          unsent,        (* the items no append() was called with yet       *)
          accepted, taken,  (* history: items pushed and popped, in order   *)
          interrupted    (* history: has a signal ended a wait?             *)

poolVars == <<pool, failed, detaching>>
runVars == <<wpc, request, taken, interrupted>>
appendVars == <<apc, argument, unsent, accepted>>
vars == <<poolVars, m_stop, m_work_queue, holder, permits, runVars, appendVars>>

Items == Requests \cup {NULL}

(* The object exists: its members may be used.                              *)
Live == pool \in {"building", "open", "stopping"}

Init ==
    /\ pool = "raw"
    /\ failed = FALSE
    /\ detaching = NULL
    /\ m_stop = FALSE
    /\ m_work_queue = <<>>
    /\ holder = NULL
    /\ permits = 0
    /\ wpc = [w \in Workers |-> "none"]
    /\ request = [w \in Workers |-> NULL]
    /\ apc = [a \in Appenders |-> "idle"]
    /\ argument = [a \in Appenders |-> NULL]
    /\ unsent = Items
    /\ accepted = <<>>
    /\ taken = <<>>
    /\ interrupted = FALSE

-----------------------------------------------------------------------------
(* The constructor.  An exception leaves the memory of the object dead.     *)
ConstructMembers ==
    /\ pool = "raw"
    /\ \E result \in InitResults :
        /\ pool' = IF result = "ok" THEN "building" ELSE "thrown"
        /\ failed' = (result # "ok")
    /\ UNCHANGED <<detaching, m_stop, m_work_queue, holder, permits, runVars, appendVars>>

CreateThread(w) ==
    /\ pool = "building"
    /\ detaching = NULL
    /\ wpc[w] = "none"
    /\ \E result \in CreateResults :
        \/ /\ result = "ok"
           /\ wpc' = [wpc EXCEPT ![w] = "test"]
           /\ detaching' = w
           /\ UNCHANGED <<pool, failed>>
        \/ /\ result # "ok"
           /\ pool' = "thrown"
           /\ failed' = TRUE
           /\ UNCHANGED <<wpc, detaching>>
    /\ UNCHANGED <<m_stop, m_work_queue, holder, permits, request, taken, interrupted, appendVars>>

(* Line 26: zero, which is success, is what throws.                         *)
DetachThrows(result) == result = "ok"

DetachThread ==
    /\ pool = "building"
    /\ detaching # NULL
    /\ \E result \in DetachResults :
        /\ failed' = (failed \/ result # "ok")
        /\ pool' = IF DetachThrows(result) THEN "thrown"
                   ELSE IF \E w \in Workers : wpc[w] = "none" THEN "building" ELSE "open"
    /\ detaching' = NULL
    /\ UNCHANGED <<m_stop, m_work_queue, holder, permits, runVars, appendVars>>

(* The destructor: its body, then those of the members.                     *)
Stop ==
    /\ pool = "open"
    /\ \A a \in Appenders : apc[a] = "idle"
    /\ pool' = "stopping"
    /\ m_stop' = TRUE
    /\ UNCHANGED <<failed, detaching, m_work_queue, holder, permits, runVars, appendVars>>

DestroyMembers ==
    /\ pool = "stopping"
    /\ pool' = "destroyed"
    /\ UNCHANGED <<failed, detaching, m_stop, m_work_queue, holder, permits, runVars, appendVars>>

-----------------------------------------------------------------------------
AGoto(a, step) == apc' = [apc EXCEPT ![a] = step]
WGoto(w, step) == wpc' = [wpc EXCEPT ![w] = step]

Acquire(thread) == holder = NULL /\ holder' = thread
Release == holder' = NULL

(* append() *)
ACall(a, r) ==
    /\ pool = "open"
    /\ apc[a] = "idle"
    /\ r \in unsent
    /\ unsent' = unsent \ {r}
    /\ argument' = [argument EXCEPT ![a] = r]
    /\ AGoto(a, "lock")
    /\ UNCHANGED <<poolVars, m_stop, m_work_queue, holder, permits, runVars, accepted>>

ALock(a) ==
    /\ apc[a] = "lock"
    /\ Acquire(a)
    /\ AGoto(a, "check")
    /\ UNCHANGED <<poolVars, m_stop, m_work_queue, permits, runVars, argument, unsent, accepted>>

Full == Len(m_work_queue) > MaxRequests

(* Variants of the return of line 45: without the unlock() before it, or    *)
(* with the post() of line 52.                                              *)
RejectKeepsLock(a) == UNCHANGED holder /\ AGoto(a, "idle")
RejectPosts(a) == Release /\ AGoto(a, "post")

Reject(a) == Release /\ AGoto(a, "idle")

(* Variant: the lock is not held from the test to push_back().              *)
ProceedUnlocked(a) == Release /\ AGoto(a, "push")

Proceed(a) == UNCHANGED holder /\ AGoto(a, "push")

ACheck(a) ==
    /\ apc[a] = "check"
    /\ \/ Full /\ Reject(a)
       \/ ~Full /\ Proceed(a)
    /\ UNCHANGED <<poolVars, m_stop, m_work_queue, permits, runVars, argument, unsent, accepted>>

APush(a) ==
    /\ apc[a] = "push"
    /\ m_work_queue' = Append(m_work_queue, argument[a])
    /\ accepted' = Append(accepted, argument[a])
    /\ Release
    /\ AGoto(a, "post")
    /\ UNCHANGED <<poolVars, m_stop, permits, runVars, argument, unsent>>

(* Variant: post() only when the queue holds just this request.             *)
PostWhenFirst == permits' = IF Len(m_work_queue) = 1 THEN permits + 1 ELSE permits

Post == permits' = permits + 1

APost(a) ==
    /\ apc[a] = "post"
    /\ Post
    /\ AGoto(a, "idle")
    /\ UNCHANGED <<poolVars, m_stop, m_work_queue, holder, runVars, argument, unsent, accepted>>

-----------------------------------------------------------------------------
(* run() *)
(* Variant: the loop runs until the pool is stopped.                        *)
KeepRunningUntilStop == m_stop = FALSE

KeepRunning == m_stop # FALSE

WTest(w) ==
    /\ Live
    /\ wpc[w] = "test"
    /\ WGoto(w, IF KeepRunning THEN "wait" ELSE "exit")
    /\ UNCHANGED <<poolVars, m_stop, m_work_queue, holder, permits, request, taken, interrupted, appendVars>>

TakePermit == permits > 0 /\ permits' = permits - 1

(* The result of sem::wait is ignored: an interrupted wait goes on as if a  *)
(* permit had been taken.                                                   *)
WWait(w) ==
    /\ Live
    /\ wpc[w] = "wait"
    /\ \/ TakePermit /\ UNCHANGED interrupted
       \/ UNCHANGED permits /\ interrupted' = TRUE
    /\ WGoto(w, "lock")
    /\ UNCHANGED <<poolVars, m_stop, m_work_queue, holder, request, taken, appendVars>>

WLock(w) ==
    /\ Live
    /\ wpc[w] = "lock"
    /\ Acquire(w)
    /\ WGoto(w, "front")
    /\ UNCHANGED <<poolVars, m_stop, m_work_queue, permits, request, taken, interrupted, appendVars>>

WFront(w) ==
    /\ Live
    /\ wpc[w] = "front"
    /\ \/ /\ m_work_queue = <<>>
          /\ Release
          /\ WGoto(w, "test")
          /\ UNCHANGED request
       \/ /\ m_work_queue # <<>>
          /\ request' = [request EXCEPT ![w] = Head(m_work_queue)]
          /\ WGoto(w, "pop")
          /\ UNCHANGED holder
    /\ UNCHANGED <<poolVars, m_stop, m_work_queue, permits, taken, interrupted, appendVars>>

(* Variant: pop_back() for pop_front().                                     *)
PopBack == SubSeq(m_work_queue, 1, Len(m_work_queue) - 1)

PopFront == Tail(m_work_queue)

WPop(w) ==
    /\ Live
    /\ wpc[w] = "pop"
    /\ m_work_queue' = PopFront
    /\ taken' = Append(taken, request[w])
    /\ Release
    /\ WGoto(w, IF request[w] = NULL THEN "test" ELSE "process")
    /\ UNCHANGED <<poolVars, m_stop, permits, request, interrupted, appendVars>>

WProcess(w) ==
    /\ wpc[w] = "process"
    /\ WGoto(w, "test")
    /\ UNCHANGED <<poolVars, m_stop, m_work_queue, holder, permits, request, taken, interrupted, appendVars>>

(* The threads outlive the object: a worker that goes on after it is gone   *)
(* uses dead memory, and nothing is known of it from then on.               *)
WDangling(w) ==
    /\ pool \in {"thrown", "destroyed"}
    /\ wpc[w] \in {"test", "wait", "lock", "front", "pop"}
    /\ WGoto(w, "undefined")
    /\ UNCHANGED <<poolVars, m_stop, m_work_queue, holder, permits, request, taken, interrupted, appendVars>>

-----------------------------------------------------------------------------
AStep(a) == ALock(a) \/ ACheck(a) \/ APush(a) \/ APost(a)

WStep(w) == WTest(w) \/ WWait(w) \/ WLock(w) \/ WFront(w) \/ WPop(w) \/ WProcess(w)

Construct == ConstructMembers \/ DetachThread \/ \E w \in Workers : CreateThread(w)

Next ==
    \/ Construct \/ Stop \/ DestroyMembers
    \/ \E a \in Appenders : AStep(a) \/ \E r \in Items : ACall(a, r)
    \/ \E w \in Workers : WStep(w) \/ WDangling(w)

Spec == Init /\ [][Next]_vars

(* Every thread keeps running; nothing is assumed of the order in which the *)
(* mutex is granted, nor that anybody calls append() or destroys the pool.  *)
FairSpec ==
    /\ Spec
    /\ \A a \in Appenders : WF_vars(AStep(a))
    /\ \A w \in Workers : WF_vars(WStep(w))
    /\ WF_vars(Construct)

-----------------------------------------------------------------------------
Typed ==
    /\ pool \in {"raw", "building", "open", "stopping", "destroyed", "thrown"}
    /\ failed \in BOOLEAN
    /\ detaching \in Workers \cup {NULL}
    /\ m_stop \in BOOLEAN
    /\ m_work_queue \in Seq(Items)
    /\ holder \in Workers \cup Appenders \cup {NULL}
    /\ permits \in Nat
    /\ wpc \in [Workers -> {"none", "test", "wait", "lock", "front", "pop", "process",
                            "exit", "undefined"}]
    /\ request \in [Workers -> Items]
    /\ apc \in [Appenders -> {"idle", "lock", "check", "push", "post"}]
    /\ argument \in [Appenders -> Items]
    /\ unsent \in SUBSET Items
    /\ accepted \in Seq(Items)
    /\ taken \in Seq(Items)
    /\ interrupted \in BOOLEAN

(* The queue holds at most one request more than max_requests: append()     *)
(* compares the size before the push with >.                                *)
QueueBound == Len(m_work_queue) <= MaxRequests + 1

(* The fields, locals and program counters have their types, and the size   *)
(* of the queue its bound, however the appenders interleave.                *)
TypeOK == Typed /\ QueueBound

(* Every accepted request leaves the queue at most once, in the order of    *)
(* the append() calls that accepted it, and none disappears in between:     *)
(* front and pop are two steps of run(), check and push two of append().    *)
TakenOnceInOrder == accepted = taken \o m_work_queue

(* No wake-up is lost: for every request in the queue there is a permit, a  *)
(* worker past its wait, or an append() about to post.                      *)
Woken == {w \in Workers : wpc[w] \in {"lock", "front", "pop"}}
Unposted == {a \in Appenders : apc[a] = "post"}
NoLostWakeup ==
    Live => Len(m_work_queue) <= permits + Cardinality(Woken) + Cardinality(Unposted)

(* As long as no signal has ended a wait, a worker always finds a request:  *)
(* the test for an empty queue (line 69) only serves interrupted waits.     *)
WokenFindsRequest ==
    ~interrupted => \A w \in Workers : wpc[w] = "front" /\ Live => m_work_queue # <<>>

(* What lines 66 and 36 together make of the pool: no request is taken      *)
(* before the destructor has begun.                                         *)
NothingServedWhileOpen == taken # <<>> => m_stop

(* append() always returns.                                                 *)
AppendReturns == \A a \in Appenders : apc[a] # "idle" ~> apc[a] = "idle"

(* A constructor whose calls all succeed does not throw.                    *)
ThrowsOnlyOnFailure == pool = "thrown" => failed

=============================================================================
