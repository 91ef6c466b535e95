-------------------------- MODULE ThreadPoolProofs --------------------------
(***************************************************************************)
(* The thread pool for every number of workers, appenders and requests,    *)
(* every capacity, and every outcome of the calls it makes.                *)
(***************************************************************************)
EXTENDS ThreadPool, FiniteSetTheorems, SequenceTheorems, TLAPS

(* The lock and the semaphore mean something until the object is gone.      *)
Usable == pool \notin {"thrown", "destroyed"}

(* append() runs only between the constructor and the destructor.           *)
AppendWhileOpen == pool # "open" => \A a \in Appenders : apc[a] = "idle"

(* The holder of the lock is the thread between lock() and unlock().        *)
LockOwned ==
    /\ \A w \in Workers : Usable => (wpc[w] \in {"front", "pop"} <=> holder = w)
    /\ \A a \in Appenders : apc[a] \in {"check", "push"} <=> holder = a

(* What was tested under the lock still holds when it is used.              *)
TestedUnderLock ==
    /\ \A w \in Workers :
         Usable /\ wpc[w] = "pop" => m_work_queue # <<>> /\ request[w] = Head(m_work_queue)
    /\ \A a \in Appenders : apc[a] = "push" => Len(m_work_queue) <= MaxRequests

(* Only a stopped pool lets a worker into the loop.                         *)
InLoopWhenStopped ==
    /\ \A w \in Workers : wpc[w] \in {"wait", "lock", "front", "pop", "process"} => m_stop
    /\ taken # <<>> => m_stop

WokenCount == Cardinality(Woken)
UnpostedCount == Cardinality(Unposted)

(* Requests and wake-ups in balance: at least one wake-up for each request, *)
(* and exactly one while no signal has made a worker skip its wait.         *)
Balance ==
    /\ Usable => Len(m_work_queue) <= permits + WokenCount + UnpostedCount
    /\ Usable /\ ~interrupted => Len(m_work_queue) = permits + WokenCount + UnpostedCount

IInv ==
    /\ Typed
    /\ AppendWhileOpen
    /\ LockOwned
    /\ TestedUnderLock
    /\ QueueBound
    /\ TakenOnceInOrder
    /\ InLoopWhenStopped
    /\ Balance

-----------------------------------------------------------------------------
(* The initial state.                                                       *)
LEMMA Initially == Init => IInv
<1> SUFFICES ASSUME Init PROVE IInv
  OBVIOUS
<1> USE PoolAssumption DEF Init
<1>1. Typed
  BY EmptySeq DEF Typed, Items
<1>2. Woken = {} /\ Unposted = {}
  BY DEF Woken, Unposted
<1>3. WokenCount = 0 /\ UnpostedCount = 0
  BY <1>2, FS_EmptySet DEF WokenCount, UnpostedCount
<1>4. Len(m_work_queue) = 0
  BY EmptySeq
<1>5. Balance
  BY <1>3, <1>4 DEF Balance
<1>6. QueueBound
  BY <1>4 DEF QueueBound
<1>7. TakenOnceInOrder
  BY ConcatEmptySeq, EmptySeq DEF TakenOnceInOrder
<1>8. LockOwned /\ AppendWhileOpen
  BY DEF LockOwned, AppendWhileOpen
<1>9. TestedUnderLock /\ InLoopWhenStopped
  BY DEF TestedUnderLock, InLoopWhenStopped
<1>10. QED BY <1>1, <1>5, <1>6, <1>7, <1>8, <1>9 DEF IInv

(* What front() and pop_front() give.                                       *)
LEMMA FrontIsItem ==
    ASSUME NEW q \in Seq(Items), q # <<>>
    PROVE  /\ Head(q) \in Items
           /\ Tail(q) \in Seq(Items)
           /\ Len(Tail(q)) = Len(q) - 1
BY HeadTailProperties

(* Moving the front of one sequence to the end of the other.                *)
LEMMA FrontMoves ==
    ASSUME NEW s \in Seq(Items), NEW q \in Seq(Items), q # <<>>
    PROVE  Append(s, Head(q)) \o Tail(q) = s \o q
<1>1. Head(q) \in Items /\ Tail(q) \in Seq(Items) /\ Len(Tail(q)) = Len(q) - 1
  BY FrontIsItem
<1>2. Append(s, Head(q)) \in Seq(Items) /\ Len(Append(s, Head(q))) = Len(s) + 1
  BY <1>1
<1>3. \A i \in 1 .. Len(s) + Len(q) :
        (Append(s, Head(q)) \o Tail(q))[i] = (s \o q)[i]
  BY <1>1, <1>2
<1>4. /\ Append(s, Head(q)) \o Tail(q) \in Seq(Items)
      /\ s \o q \in Seq(Items)
      /\ Len(Append(s, Head(q)) \o Tail(q)) = Len(s) + Len(q)
      /\ Len(s \o q) = Len(s) + Len(q)
  BY <1>1, <1>2, ConcatProperties
<1>5. QED
  BY <1>3, <1>4, SeqEqual

(* Every step keeps the types. *)
LEMMA TypeStep ==
    ASSUME Typed, TestedUnderLock, PoolAssumption, [Next]_vars
    PROVE  Typed'
<1> USE DEF Typed, poolVars, runVars, appendVars
<1>1. CASE ConstructMembers
  BY <1>1 DEF ConstructMembers
<1>2. CASE DetachThread
  BY <1>2 DEF DetachThread
<1>3. ASSUME NEW w \in Workers, CreateThread(w) PROVE Typed'
  BY <1>3 DEF CreateThread
<1>4. CASE Stop
  BY <1>4 DEF Stop
<1>5. CASE DestroyMembers
  BY <1>5 DEF DestroyMembers
<1>6. ASSUME NEW a \in Appenders, ALock(a) PROVE Typed'
  BY <1>6 DEF ALock, Acquire, AGoto
<1>7. ASSUME NEW a \in Appenders, ACheck(a) PROVE Typed'
  BY <1>7 DEF ACheck, Full, Reject, Proceed, Release, AGoto
<1>8. ASSUME NEW a \in Appenders, APush(a) PROVE Typed'
  BY <1>8 DEF APush, Release, AGoto
<1>9. ASSUME NEW a \in Appenders, APost(a) PROVE Typed'
  BY <1>9 DEF APost, Post, AGoto
<1>10. ASSUME NEW a \in Appenders, NEW r \in Items, ACall(a, r) PROVE Typed'
  BY <1>10 DEF ACall, AGoto
<1>11. ASSUME NEW w \in Workers, WTest(w) PROVE Typed'
  BY <1>11 DEF WTest, Live, KeepRunning, WGoto
<1>12. ASSUME NEW w \in Workers, WWait(w) PROVE Typed'
  <2>1. permits' \in Nat
    BY <1>12 DEF WWait, TakePermit
  <2>2. interrupted' \in BOOLEAN
    <3>1. interrupted' = interrupted \/ interrupted' = TRUE
      BY <1>12, Zenon DEF WWait
    <3>2. QED BY <3>1
  <2>3. wpc' \in [Workers -> {"none", "test", "wait", "lock", "front", "pop", "process",
                             "exit", "undefined"}]
    BY <1>12 DEF WWait, WGoto
  <2>4. QED BY <1>12, <2>1, <2>2, <2>3 DEF WWait
<1>13. ASSUME NEW w \in Workers, WLock(w) PROVE Typed'
  BY <1>13 DEF WLock, Live, Acquire, WGoto
<1>14. ASSUME NEW w \in Workers, WFront(w) PROVE Typed'
  <2>1. m_work_queue \in Seq(Items)
    OBVIOUS
  <2>2. m_work_queue # <<>> => Head(m_work_queue) \in Items
    BY <2>1, FrontIsItem
  <2>3. CASE m_work_queue = <<>>
    BY <1>14, <2>3 DEF WFront, Live, Release, WGoto
  <2>4. CASE m_work_queue # <<>>
    <3>1. Head(m_work_queue) \in Items
      BY <2>2, <2>4
    <3>2. request' = [request EXCEPT ![w] = Head(m_work_queue)]
      BY <1>14, <2>4 DEF WFront
    <3>3. request' \in [Workers -> Items]
      BY <3>1, <3>2
    <3>4. wpc' = [wpc EXCEPT ![w] = "pop"]
      BY <1>14, <2>4 DEF WFront, WGoto
    <3>5. QED BY <1>14, <2>4, <3>3, <3>4 DEF WFront
  <2>5. QED BY <2>3, <2>4
<1>15. ASSUME NEW w \in Workers, WPop(w) PROVE Typed'
  <2>1. m_work_queue # <<>>
    BY <1>15 DEF WPop, TestedUnderLock, Live, Usable
  <2>2. Tail(m_work_queue) \in Seq(Items)
    BY <2>1, FrontIsItem
  <2>3. QED BY <1>15, <2>2 DEF WPop, PopFront, Live, Release, WGoto
<1>16. ASSUME NEW w \in Workers, WProcess(w) PROVE Typed'
  BY <1>16 DEF WProcess, WGoto
<1>17. ASSUME NEW w \in Workers, WDangling(w) PROVE Typed'
  BY <1>17 DEF WDangling, WGoto
<1>18. CASE UNCHANGED vars
  BY <1>18 DEF vars
<1>19. QED
  BY <1>1, <1>2, <1>3, <1>4, <1>5, <1>6, <1>7, <1>8, <1>9, <1>10, <1>11, <1>12, <1>13, <1>14, <1>15, <1>16, <1>17, <1>18 DEF Next, Construct, AStep, WStep

(* append() keeps inside the life of the open pool. *)
LEMMA AppendWhileOpenStep ==
    ASSUME IInv, [Next]_vars
    PROVE  AppendWhileOpen'
<1> USE DEF IInv, Typed, AppendWhileOpen, poolVars, runVars, appendVars
<1>1. CASE ConstructMembers
  BY <1>1 DEF ConstructMembers
<1>2. CASE DetachThread
  BY <1>2 DEF DetachThread
<1>3. ASSUME NEW w \in Workers, CreateThread(w) PROVE AppendWhileOpen'
  BY <1>3 DEF CreateThread
<1>4. CASE Stop
  BY <1>4 DEF Stop
<1>5. CASE DestroyMembers
  BY <1>5 DEF DestroyMembers
<1>6. ASSUME NEW a \in Appenders, ALock(a) PROVE AppendWhileOpen'
  BY <1>6 DEF ALock, Acquire, AGoto
<1>7. ASSUME NEW a \in Appenders, ACheck(a) PROVE AppendWhileOpen'
  BY <1>7 DEF ACheck, Full, Reject, Proceed, Release, AGoto
<1>8. ASSUME NEW a \in Appenders, APush(a) PROVE AppendWhileOpen'
  BY <1>8 DEF APush, Release, AGoto
<1>9. ASSUME NEW a \in Appenders, APost(a) PROVE AppendWhileOpen'
  BY <1>9 DEF APost, Post, AGoto
<1>10. ASSUME NEW a \in Appenders, NEW r \in Items, ACall(a, r) PROVE AppendWhileOpen'
  BY <1>10 DEF ACall, AGoto
<1>11. ASSUME NEW w \in Workers, WTest(w) PROVE AppendWhileOpen'
  BY <1>11 DEF WTest, Live, KeepRunning, WGoto
<1>12. ASSUME NEW w \in Workers, WWait(w) PROVE AppendWhileOpen'
  BY <1>12 DEF WWait, Live, TakePermit, WGoto
<1>13. ASSUME NEW w \in Workers, WLock(w) PROVE AppendWhileOpen'
  BY <1>13 DEF WLock, Live, Acquire, WGoto
<1>14. ASSUME NEW w \in Workers, WFront(w) PROVE AppendWhileOpen'
  BY <1>14 DEF WFront, Live, Release, WGoto
<1>15. ASSUME NEW w \in Workers, WPop(w) PROVE AppendWhileOpen'
  BY <1>15 DEF WPop, Live, PopFront, Release, WGoto
<1>16. ASSUME NEW w \in Workers, WProcess(w) PROVE AppendWhileOpen'
  BY <1>16 DEF WProcess, WGoto
<1>17. ASSUME NEW w \in Workers, WDangling(w) PROVE AppendWhileOpen'
  BY <1>17 DEF WDangling, WGoto
<1>18. CASE UNCHANGED vars
  BY <1>18 DEF vars
<1>19. QED
  BY <1>1, <1>2, <1>3, <1>4, <1>5, <1>6, <1>7, <1>8, <1>9, <1>10, <1>11, <1>12, <1>13, <1>14, <1>15, <1>16, <1>17, <1>18 DEF Next, Construct, AStep, WStep

(* The lock and the places of the threads go together. *)
LEMMA LockOwnedStep ==
    ASSUME IInv, [Next]_vars
    PROVE  LockOwned'
<1> USE PoolAssumption DEF IInv, Typed, LockOwned, Usable, poolVars, runVars, appendVars
<1>1. CASE ConstructMembers
  BY <1>1 DEF ConstructMembers
<1>2. CASE DetachThread
  BY <1>2 DEF DetachThread
<1>3. ASSUME NEW w \in Workers, CreateThread(w) PROVE LockOwned'
  BY <1>3 DEF CreateThread
<1>4. CASE Stop
  BY <1>4 DEF Stop
<1>5. CASE DestroyMembers
  BY <1>5 DEF DestroyMembers
<1>6. ASSUME NEW a \in Appenders, ALock(a) PROVE LockOwned'
  BY <1>6 DEF ALock, Acquire, AGoto
<1>7. ASSUME NEW a \in Appenders, ACheck(a) PROVE LockOwned'
  <2>1. wpc' = wpc /\ pool' = pool /\ holder = a
    BY <1>7 DEF ACheck
  <2>2. CASE Full
    BY <1>7, <2>1, <2>2 DEF ACheck, Reject, Release, AGoto
  <2>3. CASE ~Full
    BY <1>7, <2>1, <2>3 DEF ACheck, Proceed, AGoto
  <2>4. QED BY <2>2, <2>3
<1>8. ASSUME NEW a \in Appenders, APush(a) PROVE LockOwned'
  BY <1>8 DEF APush, Release, AGoto
<1>9. ASSUME NEW a \in Appenders, APost(a) PROVE LockOwned'
  BY <1>9 DEF APost, Post, AGoto
<1>10. ASSUME NEW a \in Appenders, NEW r \in Items, ACall(a, r) PROVE LockOwned'
  BY <1>10 DEF ACall, AGoto
<1>11. ASSUME NEW w \in Workers, WTest(w) PROVE LockOwned'
  BY <1>11 DEF WTest, Live, KeepRunning, WGoto
<1>12. ASSUME NEW w \in Workers, WWait(w) PROVE LockOwned'
  BY <1>12 DEF WWait, Live, TakePermit, WGoto
<1>13. ASSUME NEW w \in Workers, WLock(w) PROVE LockOwned'
  BY <1>13 DEF WLock, Live, Acquire, WGoto
<1>14. ASSUME NEW w \in Workers, WFront(w) PROVE LockOwned'
  <2>1. apc' = apc /\ pool' = pool /\ holder = w
    BY <1>14 DEF WFront, Live
  <2>2. CASE m_work_queue = <<>>
    <3>1. holder' = NULL /\ wpc' = [wpc EXCEPT ![w] = "test"]
      BY <1>14, <2>2 DEF WFront, Release, WGoto
    <3>2. \A v \in Workers : Usable => (wpc'[v] \in {"front", "pop"} <=> NULL = v)
      BY <2>1, <3>1
    <3>3. \A a \in Appenders : apc[a] \in {"check", "push"} <=> NULL = a
      BY <2>1
    <3>4. QED BY <2>1, <3>1, <3>2, <3>3
  <2>3. CASE m_work_queue # <<>>
    BY <1>14, <2>1, <2>3 DEF WFront, WGoto
  <2>4. QED BY <2>2, <2>3
<1>15. ASSUME NEW w \in Workers, WPop(w) PROVE LockOwned'
  BY <1>15 DEF WPop, Live, PopFront, Release, WGoto
<1>16. ASSUME NEW w \in Workers, WProcess(w) PROVE LockOwned'
  BY <1>16 DEF WProcess, WGoto
<1>17. ASSUME NEW w \in Workers, WDangling(w) PROVE LockOwned'
  BY <1>17 DEF WDangling, WGoto
<1>18. CASE UNCHANGED vars
  BY <1>18 DEF vars
<1>19. QED
  BY <1>1, <1>2, <1>3, <1>4, <1>5, <1>6, <1>7, <1>8, <1>9, <1>10, <1>11, <1>12, <1>13, <1>14, <1>15, <1>16, <1>17, <1>18 DEF Next, Construct, AStep, WStep

(* A worker in the loop means a stopped pool. *)
LEMMA InLoopStep ==
    ASSUME IInv, [Next]_vars
    PROVE  InLoopWhenStopped'
<1> USE DEF IInv, Typed, InLoopWhenStopped, poolVars, runVars, appendVars
<1>1. CASE ConstructMembers
  BY <1>1 DEF ConstructMembers
<1>2. CASE DetachThread
  BY <1>2 DEF DetachThread
<1>3. ASSUME NEW w \in Workers, CreateThread(w) PROVE InLoopWhenStopped'
  BY <1>3 DEF CreateThread
<1>4. CASE Stop
  BY <1>4 DEF Stop
<1>5. CASE DestroyMembers
  BY <1>5 DEF DestroyMembers
<1>6. ASSUME NEW a \in Appenders, ALock(a) PROVE InLoopWhenStopped'
  BY <1>6 DEF ALock, Acquire, AGoto
<1>7. ASSUME NEW a \in Appenders, ACheck(a) PROVE InLoopWhenStopped'
  BY <1>7 DEF ACheck, Full, Reject, Proceed, Release, AGoto
<1>8. ASSUME NEW a \in Appenders, APush(a) PROVE InLoopWhenStopped'
  BY <1>8 DEF APush, Release, AGoto
<1>9. ASSUME NEW a \in Appenders, APost(a) PROVE InLoopWhenStopped'
  BY <1>9 DEF APost, Post, AGoto
<1>10. ASSUME NEW a \in Appenders, NEW r \in Items, ACall(a, r) PROVE InLoopWhenStopped'
  BY <1>10 DEF ACall, AGoto
<1>11. ASSUME NEW w \in Workers, WTest(w) PROVE InLoopWhenStopped'
  BY <1>11 DEF WTest, Live, KeepRunning, WGoto
<1>12. ASSUME NEW w \in Workers, WWait(w) PROVE InLoopWhenStopped'
  BY <1>12 DEF WWait, Live, TakePermit, WGoto
<1>13. ASSUME NEW w \in Workers, WLock(w) PROVE InLoopWhenStopped'
  BY <1>13 DEF WLock, Live, Acquire, WGoto
<1>14. ASSUME NEW w \in Workers, WFront(w) PROVE InLoopWhenStopped'
  BY <1>14 DEF WFront, Live, Release, WGoto
<1>15. ASSUME NEW w \in Workers, WPop(w) PROVE InLoopWhenStopped'
  BY <1>15 DEF WPop, Live, PopFront, Release, WGoto
<1>16. ASSUME NEW w \in Workers, WProcess(w) PROVE InLoopWhenStopped'
  BY <1>16 DEF WProcess, WGoto
<1>17. ASSUME NEW w \in Workers, WDangling(w) PROVE InLoopWhenStopped'
  BY <1>17 DEF WDangling, WGoto
<1>18. CASE UNCHANGED vars
  BY <1>18 DEF vars
<1>19. QED
  BY <1>1, <1>2, <1>3, <1>4, <1>5, <1>6, <1>7, <1>8, <1>9, <1>10, <1>11, <1>12, <1>13, <1>14, <1>15, <1>16, <1>17, <1>18 DEF Next, Construct, AStep, WStep

(* What append() and run() tested is still so when they act on it. *)
LEMMA TestedStep ==
    ASSUME IInv, [Next]_vars
    PROVE  TestedUnderLock'
<1> USE PoolAssumption DEF IInv, Typed, LockOwned, TestedUnderLock, Usable, poolVars, runVars, appendVars
<1>1. CASE ConstructMembers
  BY <1>1 DEF ConstructMembers
<1>2. CASE DetachThread
  BY <1>2 DEF DetachThread
<1>3. ASSUME NEW w \in Workers, CreateThread(w) PROVE TestedUnderLock'
  BY <1>3 DEF CreateThread
<1>4. CASE Stop
  BY <1>4 DEF Stop
<1>5. CASE DestroyMembers
  BY <1>5 DEF DestroyMembers
<1>6. ASSUME NEW a \in Appenders, ALock(a) PROVE TestedUnderLock'
  BY <1>6 DEF ALock, Acquire, AGoto
<1>7. ASSUME NEW a \in Appenders, ACheck(a) PROVE TestedUnderLock'
  BY <1>7 DEF ACheck, Full, Reject, Proceed, Release, AGoto
<1>8. ASSUME NEW a \in Appenders, APush(a) PROVE TestedUnderLock'
  BY <1>8 DEF APush, Release, AGoto
<1>9. ASSUME NEW a \in Appenders, APost(a) PROVE TestedUnderLock'
  BY <1>9 DEF APost, Post, AGoto
<1>10. ASSUME NEW a \in Appenders, NEW r \in Items, ACall(a, r) PROVE TestedUnderLock'
  BY <1>10 DEF ACall, AGoto
<1>11. ASSUME NEW w \in Workers, WTest(w) PROVE TestedUnderLock'
  BY <1>11 DEF WTest, Live, KeepRunning, WGoto
<1>12. ASSUME NEW w \in Workers, WWait(w) PROVE TestedUnderLock'
  BY <1>12 DEF WWait, Live, TakePermit, WGoto
<1>13. ASSUME NEW w \in Workers, WLock(w) PROVE TestedUnderLock'
  BY <1>13 DEF WLock, Live, Acquire, WGoto
<1>14. ASSUME NEW w \in Workers, WFront(w) PROVE TestedUnderLock'
  BY <1>14 DEF WFront, Live, Release, WGoto
<1>15. ASSUME NEW w \in Workers, WPop(w) PROVE TestedUnderLock'
  BY <1>15 DEF WPop, Live, PopFront, Release, WGoto
<1>16. ASSUME NEW w \in Workers, WProcess(w) PROVE TestedUnderLock'
  BY <1>16 DEF WProcess, WGoto
<1>17. ASSUME NEW w \in Workers, WDangling(w) PROVE TestedUnderLock'
  BY <1>17 DEF WDangling, WGoto
<1>18. CASE UNCHANGED vars
  BY <1>18 DEF vars
<1>19. QED
  BY <1>1, <1>2, <1>3, <1>4, <1>5, <1>6, <1>7, <1>8, <1>9, <1>10, <1>11, <1>12, <1>13, <1>14, <1>15, <1>16, <1>17, <1>18 DEF Next, Construct, AStep, WStep

(* append() never overfills the queue. *)
LEMMA QueueBoundStep ==
    ASSUME IInv, [Next]_vars
    PROVE  QueueBound'
<1> USE PoolAssumption DEF IInv, Typed, QueueBound, TestedUnderLock, Usable, poolVars, runVars, appendVars
<1>1. CASE ConstructMembers
  BY <1>1 DEF ConstructMembers
<1>2. CASE DetachThread
  BY <1>2 DEF DetachThread
<1>3. ASSUME NEW w \in Workers, CreateThread(w) PROVE QueueBound'
  BY <1>3 DEF CreateThread
<1>4. CASE Stop
  BY <1>4 DEF Stop
<1>5. CASE DestroyMembers
  BY <1>5 DEF DestroyMembers
<1>6. ASSUME NEW a \in Appenders, ALock(a) PROVE QueueBound'
  BY <1>6 DEF ALock, Acquire, AGoto
<1>7. ASSUME NEW a \in Appenders, ACheck(a) PROVE QueueBound'
  BY <1>7 DEF ACheck, Full, Reject, Proceed, Release, AGoto
<1>8. ASSUME NEW a \in Appenders, APush(a) PROVE QueueBound'
  BY <1>8 DEF APush, Release, AGoto
<1>9. ASSUME NEW a \in Appenders, APost(a) PROVE QueueBound'
  BY <1>9 DEF APost, Post, AGoto
<1>10. ASSUME NEW a \in Appenders, NEW r \in Items, ACall(a, r) PROVE QueueBound'
  BY <1>10 DEF ACall, AGoto
<1>11. ASSUME NEW w \in Workers, WTest(w) PROVE QueueBound'
  BY <1>11 DEF WTest, Live, KeepRunning, WGoto
<1>12. ASSUME NEW w \in Workers, WWait(w) PROVE QueueBound'
  BY <1>12 DEF WWait, Live, TakePermit, WGoto
<1>13. ASSUME NEW w \in Workers, WLock(w) PROVE QueueBound'
  BY <1>13 DEF WLock, Live, Acquire, WGoto
<1>14. ASSUME NEW w \in Workers, WFront(w) PROVE QueueBound'
  BY <1>14 DEF WFront, Live, Release, WGoto
<1>15. ASSUME NEW w \in Workers, WPop(w) PROVE QueueBound'
  BY <1>15 DEF WPop, Live, PopFront, Release, WGoto
<1>16. ASSUME NEW w \in Workers, WProcess(w) PROVE QueueBound'
  BY <1>16 DEF WProcess, WGoto
<1>17. ASSUME NEW w \in Workers, WDangling(w) PROVE QueueBound'
  BY <1>17 DEF WDangling, WGoto
<1>18. CASE UNCHANGED vars
  BY <1>18 DEF vars
<1>19. QED
  BY <1>1, <1>2, <1>3, <1>4, <1>5, <1>6, <1>7, <1>8, <1>9, <1>10, <1>11, <1>12, <1>13, <1>14, <1>15, <1>16, <1>17, <1>18 DEF Next, Construct, AStep, WStep

(* front() and pop_front() take the oldest request once. *)
LEMMA TakenInOrderStep ==
    ASSUME IInv, [Next]_vars
    PROVE  TakenOnceInOrder'
<1> USE DEF IInv, Typed, TakenOnceInOrder, TestedUnderLock, Usable, poolVars, runVars, appendVars
<1>1. CASE ConstructMembers
  BY <1>1 DEF ConstructMembers
<1>2. CASE DetachThread
  BY <1>2 DEF DetachThread
<1>3. ASSUME NEW w \in Workers, CreateThread(w) PROVE TakenOnceInOrder'
  BY <1>3 DEF CreateThread
<1>4. CASE Stop
  BY <1>4 DEF Stop
<1>5. CASE DestroyMembers
  BY <1>5 DEF DestroyMembers
<1>6. ASSUME NEW a \in Appenders, ALock(a) PROVE TakenOnceInOrder'
  BY <1>6 DEF ALock, Acquire, AGoto
<1>7. ASSUME NEW a \in Appenders, ACheck(a) PROVE TakenOnceInOrder'
  BY <1>7 DEF ACheck, Full, Reject, Proceed, Release, AGoto
<1>8. ASSUME NEW a \in Appenders, APush(a) PROVE TakenOnceInOrder'
  <2>1. argument[a] \in Items /\ taken \in Seq(Items) /\ m_work_queue \in Seq(Items)
    OBVIOUS
  <2>2. taken \o Append(m_work_queue, argument[a]) = Append(taken \o m_work_queue, argument[a])
    BY <2>1
  <2>3. QED BY <1>8, <2>2 DEF APush
<1>9. ASSUME NEW a \in Appenders, APost(a) PROVE TakenOnceInOrder'
  BY <1>9 DEF APost, Post, AGoto
<1>10. ASSUME NEW a \in Appenders, NEW r \in Items, ACall(a, r) PROVE TakenOnceInOrder'
  BY <1>10 DEF ACall, AGoto
<1>11. ASSUME NEW w \in Workers, WTest(w) PROVE TakenOnceInOrder'
  BY <1>11 DEF WTest, Live, KeepRunning, WGoto
<1>12. ASSUME NEW w \in Workers, WWait(w) PROVE TakenOnceInOrder'
  BY <1>12 DEF WWait, Live, TakePermit, WGoto
<1>13. ASSUME NEW w \in Workers, WLock(w) PROVE TakenOnceInOrder'
  BY <1>13 DEF WLock, Live, Acquire, WGoto
<1>14. ASSUME NEW w \in Workers, WFront(w) PROVE TakenOnceInOrder'
  BY <1>14 DEF WFront, Live, Release, WGoto
<1>15. ASSUME NEW w \in Workers, WPop(w) PROVE TakenOnceInOrder'
  <2>1. m_work_queue # <<>> /\ request[w] = Head(m_work_queue)
    BY <1>15 DEF WPop, Live
  <2>2. m_work_queue \in Seq(Items) /\ taken \in Seq(Items)
    OBVIOUS
  <2>3. Append(taken, Head(m_work_queue)) \o Tail(m_work_queue) = taken \o m_work_queue
    BY <2>1, <2>2, FrontMoves
  <2>4. accepted' = accepted /\ taken' = Append(taken, request[w])
        /\ m_work_queue' = Tail(m_work_queue)
    BY <1>15 DEF WPop, PopFront
  <2>5. QED BY <2>1, <2>3, <2>4
<1>16. ASSUME NEW w \in Workers, WProcess(w) PROVE TakenOnceInOrder'
  BY <1>16 DEF WProcess, WGoto
<1>17. ASSUME NEW w \in Workers, WDangling(w) PROVE TakenOnceInOrder'
  BY <1>17 DEF WDangling, WGoto
<1>18. CASE UNCHANGED vars
  BY <1>18 DEF vars
<1>19. QED
  BY <1>1, <1>2, <1>3, <1>4, <1>5, <1>6, <1>7, <1>8, <1>9, <1>10, <1>11, <1>12, <1>13, <1>14, <1>15, <1>16, <1>17, <1>18 DEF Next, Construct, AStep, WStep

-----------------------------------------------------------------------------
(* Requests and wake-ups stay in balance.                                   *)
LEMMA CountsAreNumbers ==
    /\ IsFiniteSet(Woken) /\ IsFiniteSet(Unposted)
    /\ WokenCount \in Nat /\ UnpostedCount \in Nat
<1>1. Woken \subseteq Workers /\ Unposted \subseteq Appenders
  BY DEF Woken, Unposted
<1>2. IsFiniteSet(Woken) /\ IsFiniteSet(Unposted)
  BY <1>1, FS_Subset, PoolAssumption
<1>3. QED BY <1>2, FS_CardinalityType DEF WokenCount, UnpostedCount

LEMMA WokenSame ==
    ASSUME wpc' = wpc PROVE WokenCount' = WokenCount
BY DEF Woken, WokenCount

LEMMA UnpostedSame ==
    ASSUME apc' = apc PROVE UnpostedCount' = UnpostedCount
BY DEF Unposted, UnpostedCount

(* A worker passes its wait.                                                *)
LEMMA WokenGrows ==
    ASSUME Typed, NEW w \in Workers, wpc[w] \notin {"lock", "front", "pop"}, WGoto(w, "lock")
    PROVE  WokenCount' = WokenCount + 1
<1>1. Woken' = Woken \cup {w} /\ w \notin Woken
  BY DEF Woken, WGoto, Typed
<1>2. QED BY <1>1, CountsAreNumbers, FS_AddElement DEF WokenCount

(* A worker that was woken is done with the queue.                          *)
LEMMA WokenShrinks ==
    ASSUME Typed, NEW w \in Workers, wpc[w] \in {"lock", "front", "pop"},
           NEW step \in {"test", "process", "undefined"}, WGoto(w, step)
    PROVE  WokenCount' = WokenCount - 1
<1>1. Woken' = Woken \ {w} /\ w \in Woken
  BY DEF Woken, WGoto, Typed
<1>2. QED BY <1>1, CountsAreNumbers, FS_RemoveElement DEF WokenCount

(* A worker moves on the same side of its wait.                             *)
LEMMA WokenKept ==
    ASSUME Typed, NEW w \in Workers, NEW step, WGoto(w, step),
           wpc[w] \in {"lock", "front", "pop"} <=> step \in {"lock", "front", "pop"}
    PROVE  WokenCount' = WokenCount
<1>1. Woken' = Woken
  BY DEF Woken, WGoto, Typed
<1>2. QED BY <1>1 DEF WokenCount

(* append() has pushed, has posted, or neither.                             *)
LEMMA UnpostedGrows ==
    ASSUME Typed, NEW a \in Appenders, apc[a] # "post", AGoto(a, "post")
    PROVE  UnpostedCount' = UnpostedCount + 1
<1>1. Unposted' = Unposted \cup {a} /\ a \notin Unposted
  BY DEF Unposted, AGoto, Typed
<1>2. QED BY <1>1, CountsAreNumbers, FS_AddElement DEF UnpostedCount

LEMMA UnpostedShrinks ==
    ASSUME Typed, NEW a \in Appenders, apc[a] = "post", AGoto(a, "idle")
    PROVE  UnpostedCount' = UnpostedCount - 1
<1>1. Unposted' = Unposted \ {a} /\ a \in Unposted
  BY DEF Unposted, AGoto, Typed
<1>2. QED BY <1>1, CountsAreNumbers, FS_RemoveElement DEF UnpostedCount

LEMMA UnpostedKept ==
    ASSUME Typed, NEW a \in Appenders, NEW step, AGoto(a, step),
           apc[a] = "post" <=> step = "post"
    PROVE  UnpostedCount' = UnpostedCount
<1>1. Unposted' = Unposted
  BY DEF Unposted, AGoto, Typed
<1>2. QED BY <1>1 DEF UnpostedCount

(* Every step keeps the balance. *)
LEMMA BalanceStep ==
    ASSUME IInv, [Next]_vars
    PROVE  Balance'
<1> USE CountsAreNumbers DEF IInv, Typed, Balance, Usable, poolVars, runVars, appendVars
<1>1. CASE ConstructMembers
  <2>1. WokenCount' = WokenCount /\ UnpostedCount' = UnpostedCount
    BY <1>1, WokenSame, UnpostedSame DEF ConstructMembers
  <2>2. QED BY <1>1, <2>1 DEF ConstructMembers
<1>2. CASE DetachThread
  <2>1. WokenCount' = WokenCount /\ UnpostedCount' = UnpostedCount
    BY <1>2, WokenSame, UnpostedSame DEF DetachThread
  <2>2. QED BY <1>2, <2>1 DEF DetachThread
<1>3. ASSUME NEW w \in Workers, CreateThread(w) PROVE Balance'
  <2>1. WokenCount' = WokenCount
    <3>1. CASE wpc' = wpc
      BY <3>1, WokenSame
    <3>2. CASE WGoto(w, "test")
      BY <1>3, <3>2, WokenKept DEF CreateThread
    <3>3. QED BY <1>3, <3>1, <3>2 DEF CreateThread, WGoto
  <2>2. UnpostedCount' = UnpostedCount
    BY <1>3, UnpostedSame DEF CreateThread
  <2>3. QED BY <1>3, <2>1, <2>2 DEF CreateThread
<1>4. CASE Stop
  <2>1. WokenCount' = WokenCount /\ UnpostedCount' = UnpostedCount
    BY <1>4, WokenSame, UnpostedSame DEF Stop
  <2>2. QED BY <1>4, <2>1 DEF Stop
<1>5. CASE DestroyMembers
  <2>1. WokenCount' = WokenCount /\ UnpostedCount' = UnpostedCount
    BY <1>5, WokenSame, UnpostedSame DEF DestroyMembers
  <2>2. QED BY <1>5, <2>1 DEF DestroyMembers
<1>6. ASSUME NEW a \in Appenders, ALock(a) PROVE Balance'
  <2>1. UnpostedCount' = UnpostedCount
    BY <1>6, UnpostedKept DEF ALock
  <2>2. WokenCount' = WokenCount
    BY <1>6, WokenSame DEF ALock
  <2>3. QED BY <1>6, <2>1, <2>2 DEF ALock
<1>7. ASSUME NEW a \in Appenders, ACheck(a) PROVE Balance'
  <2>1. UnpostedCount' = UnpostedCount
    <3>1. CASE Full
      BY <1>7, <3>1, UnpostedKept DEF ACheck, Reject
    <3>2. CASE ~Full
      BY <1>7, <3>2, UnpostedKept DEF ACheck, Proceed
    <3>3. QED BY <3>1, <3>2
  <2>2. WokenCount' = WokenCount
    BY <1>7, WokenSame DEF ACheck
  <2>3. QED BY <1>7, <2>1, <2>2 DEF ACheck
<1>8. ASSUME NEW a \in Appenders, APush(a) PROVE Balance'
  <2>1. UnpostedCount' = UnpostedCount + 1
    BY <1>8, UnpostedGrows DEF APush
  <2>2. WokenCount' = WokenCount
    BY <1>8, WokenSame DEF APush
  <2>3. Len(m_work_queue') = Len(m_work_queue) + 1
    BY <1>8 DEF APush
  <2>4. permits' = permits /\ pool' = pool /\ interrupted' = interrupted
    BY <1>8 DEF APush
  <2>5. QED BY <2>1, <2>2, <2>3, <2>4
<1>9. ASSUME NEW a \in Appenders, APost(a) PROVE Balance'
  <2>1. UnpostedCount' = UnpostedCount - 1
    BY <1>9, UnpostedShrinks DEF APost
  <2>2. WokenCount' = WokenCount
    BY <1>9, WokenSame DEF APost
  <2>3. QED BY <1>9, <2>1, <2>2 DEF APost, Post
<1>10. ASSUME NEW a \in Appenders, NEW r \in Items, ACall(a, r) PROVE Balance'
  <2>1. UnpostedCount' = UnpostedCount
    BY <1>10, UnpostedKept DEF ACall
  <2>2. WokenCount' = WokenCount
    BY <1>10, WokenSame DEF ACall
  <2>3. QED BY <1>10, <2>1, <2>2 DEF ACall
<1>11. ASSUME NEW w \in Workers, WTest(w) PROVE Balance'
  <2>1. WokenCount' = WokenCount
    <3>1. CASE KeepRunning
      BY <1>11, <3>1, WokenKept DEF WTest
    <3>2. CASE ~KeepRunning
      BY <1>11, <3>2, WokenKept DEF WTest
    <3>3. QED BY <3>1, <3>2
  <2>2. UnpostedCount' = UnpostedCount
    BY <1>11, UnpostedSame DEF WTest
  <2>3. QED BY <1>11, <2>1, <2>2 DEF WTest
<1>12. ASSUME NEW w \in Workers, WWait(w) PROVE Balance'
  <2>1. WokenCount' = WokenCount + 1
    BY <1>12, WokenGrows DEF WWait
  <2>2. UnpostedCount' = UnpostedCount
    BY <1>12, UnpostedSame DEF WWait
  <2>3. QED BY <1>12, <2>1, <2>2 DEF WWait, TakePermit
<1>13. ASSUME NEW w \in Workers, WLock(w) PROVE Balance'
  <2>1. WokenCount' = WokenCount
    BY <1>13, WokenKept DEF WLock
  <2>2. UnpostedCount' = UnpostedCount
    BY <1>13, UnpostedSame DEF WLock
  <2>3. QED BY <1>13, <2>1, <2>2 DEF WLock
<1>14. ASSUME NEW w \in Workers, WFront(w) PROVE Balance'
  <2>1. UnpostedCount' = UnpostedCount
    BY <1>14, UnpostedSame DEF WFront
  <2>2. /\ pool' = pool /\ permits' = permits /\ interrupted' = interrupted
        /\ m_work_queue' = m_work_queue
    BY <1>14 DEF WFront
  <2>3. CASE m_work_queue = <<>>
    <3>1. WokenCount' = WokenCount - 1
      BY <1>14, <2>3, WokenShrinks DEF WFront
    <3>2. Len(m_work_queue) = 0
      BY <2>3
    <3>3. WokenCount' \in Nat
      <4>1. Woken' \subseteq Workers
        BY DEF Woken
      <4>2. QED BY <4>1, FS_Subset, FS_CardinalityType, PoolAssumption DEF WokenCount
    <3>4. QED BY <2>1, <2>2, <3>1, <3>2, <3>3
  <2>4. CASE m_work_queue # <<>>
    <3>1. WokenCount' = WokenCount
      BY <1>14, <2>4, WokenKept DEF WFront
    <3>2. QED BY <2>1, <2>2, <3>1
  <2>5. QED BY <2>3, <2>4
<1>15. ASSUME NEW w \in Workers, WPop(w) PROVE Balance'
  <2>1. UnpostedCount' = UnpostedCount
    BY <1>15, UnpostedSame DEF WPop
  <2>2. WokenCount' = WokenCount - 1
    <3>1. CASE request[w] = NULL
      BY <1>15, <3>1, WokenShrinks DEF WPop
    <3>2. CASE request[w] # NULL
      BY <1>15, <3>2, WokenShrinks DEF WPop
    <3>3. QED BY <3>1, <3>2
  <2>3. m_work_queue # <<>> /\ m_work_queue \in Seq(Items)
    BY <1>15 DEF WPop, Live, TestedUnderLock
  <2>4. Len(m_work_queue') = Len(m_work_queue) - 1
    BY <1>15, <2>3, FrontIsItem DEF WPop, PopFront
  <2>5. pool' = pool /\ permits' = permits /\ interrupted' = interrupted
    BY <1>15 DEF WPop
  <2>6. Len(m_work_queue) \in Nat
    BY <2>3
  <2>7. QED BY <2>1, <2>2, <2>4, <2>5, <2>6
<1>16. ASSUME NEW w \in Workers, WProcess(w) PROVE Balance'
  <2>1. WokenCount' = WokenCount
    BY <1>16, WokenKept DEF WProcess
  <2>2. UnpostedCount' = UnpostedCount
    BY <1>16, UnpostedSame DEF WProcess
  <2>3. QED BY <1>16, <2>1, <2>2 DEF WProcess
<1>17. ASSUME NEW w \in Workers, WDangling(w) PROVE Balance'
  <2>1. ~Usable /\ pool' = pool
    BY <1>17 DEF WDangling
  <2>2. QED BY <2>1
<1>18. CASE UNCHANGED vars
  <2>1. WokenCount' = WokenCount /\ UnpostedCount' = UnpostedCount
    BY <1>18, WokenSame, UnpostedSame DEF vars
  <2>2. QED BY <1>18, <2>1 DEF vars
<1>19. QED
  BY <1>1, <1>2, <1>3, <1>4, <1>5, <1>6, <1>7, <1>8, <1>9, <1>10, <1>11, <1>12, <1>13, <1>14, <1>15, <1>16, <1>17, <1>18 DEF Next, Construct, AStep, WStep

-----------------------------------------------------------------------------
(* The strengthened invariant is inductive.                                 *)
LEMMA Invariant == Spec => []IInv
<1>1. IInv /\ [Next]_vars => IInv'
  <2> SUFFICES ASSUME IInv, [Next]_vars PROVE IInv'
    OBVIOUS
  <2>1. Typed'
    BY TypeStep, PoolAssumption DEF IInv
  <2>2. QED
    BY <2>1, AppendWhileOpenStep, LockOwnedStep, TestedStep, QueueBoundStep,
       TakenInOrderStep, InLoopStep, BalanceStep DEF IInv
<1>2. QED BY Initially, <1>1, PTL DEF Spec

(* The fields, locals and program counters keep their types, and the size  *)
(* of the queue its bound (lines 43 to 48).                                *)
THEOREM TypeCorrect == Spec => []TypeOK
<1>1. IInv => TypeOK
  BY DEF IInv, TypeOK
<1>2. QED BY Invariant, <1>1, PTL

(* Between the push_back() of append() and the pop_front() of run() no      *)
(* request is lost, duplicated or overtaken.                                *)
THEOREM OnceInOrder == Spec => []TakenOnceInOrder
<1>1. IInv => TakenOnceInOrder
  BY DEF IInv
<1>2. QED BY Invariant, <1>1, PTL

(* The queue never outgrows max_requests by more than one.                  *)
THEOREM Bounded == Spec => []QueueBound
<1>1. IInv => QueueBound
  BY DEF IInv
<1>2. QED BY Invariant, <1>1, PTL

(* No post() is lost on a request that waits in the queue.                  *)
THEOREM WakeUpsKept == Spec => []NoLostWakeup
<1>1. IInv => NoLostWakeup
  BY DEF IInv, Balance, NoLostWakeup, Live, Usable, WokenCount, UnpostedCount
<1>2. QED BY Invariant, <1>1, PTL

(* Before a signal ends a wait, the test for an empty queue in run() (line  *)
(* 69) never succeeds.                                                     *)
THEOREM WakeUpsExact == Spec => []WokenFindsRequest
<1>1. IInv => WokenFindsRequest
  <2> SUFFICES ASSUME IInv, ~interrupted, NEW w \in Workers, wpc[w] = "front", Live
               PROVE  m_work_queue # <<>>
    BY DEF WokenFindsRequest
  <2>1. w \in Woken
    BY DEF Woken
  <2>2. WokenCount # 0
    BY <2>1, CountsAreNumbers, FS_EmptySet DEF WokenCount
  <2>3. Len(m_work_queue) = permits + WokenCount + UnpostedCount
    BY DEF IInv, Balance, Live, Usable
  <2>4. permits \in Nat
    BY DEF IInv, Typed
  <2>5. Len(m_work_queue) # 0
    BY <2>2, <2>3, <2>4, CountsAreNumbers
  <2>6. QED BY <2>5
<1>2. QED BY Invariant, <1>1, PTL

(* The pool takes no request before its destructor runs.                    *)
THEOREM ServesOnlyWhenStopped == Spec => []NothingServedWhileOpen
<1>1. IInv => NothingServedWhileOpen
  BY DEF IInv, InLoopWhenStopped, NothingServedWhileOpen
<1>2. QED BY Invariant, <1>1, PTL

=============================================================================
