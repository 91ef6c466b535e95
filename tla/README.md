# Verification of high-performance-linux-server-programming

TLA+ models of the programs and classes in `src/` and `include/`, the TLC runs
that check them on small instances, and TLAPS proofs of what holds for every
instance. Paths and lines below are those of the repository; the sources lie in
its directories `src` and `include`.

## The system

The repository is a collection: four reusable classes (three timer containers
and a thread pool over three lock wrappers), and some twenty programs of one
file each that show an interface of Linux. The classes are not used by the
programs. There are no tests and hardly a comment, so the models follow the
code, and the specifications of what a component promises are written here.

| component | state | operations | with whom | what is hard |
|---|---|---|---|---|
| `time_wheel` | 60 lists of timers, the current slot | `add_timer`, `delete_timer`, `tick`, destructor | callbacks run inside `tick` and call the wheel | a pointer kept over the callback, whole revolutions |
| `sort_timer_list` | one list in the order of the deadlines, `head`, `tail` | `add_timer`, `adjust_timer`, `delete_timer`, `tick`, destructor | callbacks, `time()` | the ends of the list, callbacks, deadlines of this second |
| `time_heap` | an array heap, its size and capacity | two constructors, `add_timer`, `delete_timer` (lazy), `pop`, `tick` | callbacks, `time()` | the bounds of `percolate_down`, growth, entries left behind |
| `thread_pool` | a queue, a mutex, a semaphore, `m_stop` | constructor, `append`, worker loop, destructor | any number of threads | every interleaving, calls that fail half-way, threads that outlive the object |
| `locker` | `sem`, `locker`, `cond` | wait/post, lock/unlock, wait/signal | the pool; `cond` has no user | interrupted and spurious waits |
| `epoll_one_shot` | an epoll set, one thread per event | `main` loop, `worker`, `reset_one_shot` | kernel, clients | one-shot events, the argument of the thread, reused descriptors |
| `epoll` | an epoll set | `lt`, `et` | kernel, clients | edge and level triggering, one `accept` per edge |
| `http_parse` | a buffer, three indices, the parser's state | `parse_line`, `parse_request_line`, `parse_headers`, `parse_content`, the loop around `recv` | one client | requests in several segments, the end of the stream |
| `ipc_private` | a System V semaphore | `pv` in two processes | fork, wait | death in the critical section, calls that fail unnoticed |
| `send_fd` | a socket pair, a passed descriptor | `send_fd`, `recv_fd` | fork | both ends, closed too early |
| `tcp_send`; `tcp_recv`, `select`, `sigurg` | one connection | three `send`s; three `recv`s, `select` loop, `SIGURG` handler | each other, through TCP | urgent data among ordinary data |
| `sigmask` | a blocked signal set | `sigwait` loop | threads | signals before the thread waits |
| `unblock_connect`, `timeout_connect` | one connecting socket | `connect` with a timeout | kernel | the timeout against the answer, descriptors left open |
| `writev`, `sendfile`, `splice`, `dup` | none that outlives a call | one `accept`, a sequence of calls | one client | - |
| other programs | none | one call each | - | - |

What makes each component correct:

* timer containers: every timer fires once, in the tick its deadline asks for,
  unless it was deleted; none is lost or reached after it was freed; a tick ends.
* thread pool: an accepted request is taken once and in order, its wake-up is
  not lost, the queue keeps its bound, `append` returns.
* event loops: at most one thread reads a connection, no input is forgotten,
  a connection is closed at its end and not the one that got its number.
* parser: a request gives the same result however it is cut into segments.
* semaphore, condition variable and signal thread: whoever dies, waits or is
  signalled when, nobody is kept out for ever and nothing is lost that the code can keep.
* urgent data: the urgent byte is read and not passed over, ordinary data stays whole.
* connecting: a socket is returned only when it is connected; otherwise it is closed.

## Modules

| module | what it is |
|---|---|
| `TimeWheel` | `time_wheel.h/.cc`, link by link |
| `CountdownTimers` | what the wheel promises; `TimeWheel!KeepsCountdown` is the refinement |
| `TimeWheelProofs` | the types and the links of every wheel |
| `TimeWheelRefinement` | every wheel implements `CountdownTimers` |
| `ThreadPool` | `thread_pool.h/.cc` with `sem` and `locker` of `locker.cc`, one action per access to shared state |
| `ThreadPoolProofs` | the invariants of every pool |
| `EpollOneShot` | `epoll_one_shot.cc` with the kernel's readiness |
| `EpollOneShotProofs` | the one-shot protocol for any number of connections and threads |
| `SortTimerList` | `sort_timer_list.h/.cc`, operations on the links |
| `SortTimerListProofs` | the order of every list; every list implements `DeadlineTimers` |
| `TimeHeap` | `time_heap.h/.cc`, the array entry by entry |
| `TimeHeapProofs` | what sifting, growth and ticks do to a heap of any size |
| `HttpParse` | `http_parse.cc` from `accept()` to `close()` |
| `HttpParseProofs` | the indices, the text and the answers for every text and every buffer |
| `DeadlineTimers` | what a container of deadlines promises; `SortTimerList!KeepsDeadlines` is the refinement |
| `EpollServer` | `epoll.cc`, both `lt` and `et`, with the kernel's readiness |
| `IpcPrivate` | `ipc_private.cc` with the kernel's undo values |
| `UrgentData` | `tcp_send.cc` against `tcp_recv.cc`, `select.cc` or `sigurg.cc` |
| `Connects` | `unblock_connect.cc` and `timeout_connect.cc` |
| `SigMask` | `sigmask.cc` |
| `ProgramsProofs` | the safety properties of the five above |
| `Condition` | `cond` of `locker.h/.cc` |
| `MCPrograms` | `EpollServer` and the modules below it, without the proofs, side by side: a behaviour picks one program and leaves the others alone |
| other `MC...` | instances for TLC, with the symmetry |

Definitions headed *Variant* are plausible slips in the code; no specification
uses them. Each property has one that it catches (`mutants` in `PROJECT.json`).

### TimeWheel

A timer is an address; `rotation`, `time_slot`, `next`, `prev` are its fields,
`slots` the heads, `tmp` the local of `tick()`. `tick()` is one action per turn
of its loop (`TickSkip`, `TickFire`, `TickRemove`), split at the callback of line
82: while `pc = "firing"` the callback may run `AddTimer` and `DeleteTimer` any
number of times, on any timer but its own, which `tick()` frees. The caller sets
`cb_func` before it does anything else and never uses a freed timer.

`CountdownTimers` knows no slots: an armed timer counts completed ticks down.
The mapping computes the count from rotation, slot and the side of `tmp` the timer
lies on (`passed`). It shows one thing the code does not say: a timer armed in a
callback for a whole number of revolutions fires one revolution later than the
same timer armed between two ticks.

### ThreadPool

Each worker has a program counter for the steps of `run()`, each appender one for
`append()`. What lies between `lock()` and `unlock()` is split as well, so that the
lock is seen to be needed. Two oddities of the code are kept: the constructor
throws when `pthread_detach` succeeds (line 26), and workers loop while `m_stop` is
true (line 66). A pool comes into being only where `pthread_detach` fails; its
workers leave at once unless they first test after the destructor's
`m_stop = true`, and serve in the window before the members are destroyed. No `append()`
runs then: what meets in the queue at any time is appenders among themselves, later
workers among themselves. After that a worker is in dead memory: `WDangling` takes it out of the model.

A signal may interrupt `sem_wait`, whose result is ignored; `interrupted` remembers that
one did, because until then permits are exact. The owner destroys the pool when no
`append()` is running.

### EpollOneShot

The kernel is modelled by what the program relies on: a ready list, the
registrations that are armed, and a check for input when a registration is armed.
Descriptors are reused. The argument of the worker is one variable (`slot`) that
`StartWorker` writes and `WStart` reads later; this is what the unoptimised build
of `CMakeLists.txt` does. `mine` remembers the descriptor a worker was started
for. Threads are never joined and keep their stacks, so `Workers` is the number of
threads there will ever be. `pthread_create` fails after that, and may fail before.

Two kinds of behaviour are outside the properties and named in them: a worker with
another's descriptor (`~WorkerServesItsFd`, the finding below), and a descriptor whose
`pthread_create` failed (`orphans`), of which nobody reads any more; the other
connections are still covered then. Everything else, reuse of numbers, input between
`EAGAIN` and re-arming, resets, failing `accept()`, is inside.

### SortTimerList

`list` is a record of `head`, `tail` and the links; each operation is a function
on it that follows the code's assignments. The loop of `add_timer` is the chain of
links from its starting point (`Chain`). Deleting the last of several timers
crashes, and the model stops there. The caller sets no deadline in the past,
postpones deadlines only (`adjust_timer` looks forward only), and leaves a firing
timer alone.

`DeadlineTimers`: a tick reads the clock once and fires exactly the timers due by
then, the earliest first.

### TimeHeap

`array` is the array with all its entries, those behind `cur_size` too, because
`percolate_down` reads them: the loop test of line 130 is true for every hole, line
132 looks at the entry after the last, and line 136 compares the entry that was just
moved up instead of the timer that sinks. `alive` is what may be accessed. A read of
`nullptr`, of a freed timer or outside the array is undefined behaviour; the model
goes to `"undefined"` and stops. The caller makes a heap with room for one timer at
least, sets no deadline in the past, and calls `pop()` outside callbacks only.

What the properties say holds wherever the behaviour is defined and no entry from behind
the last timer has been moved up: no timer is lost or held twice, callbacks cannot push the firing timer from the root, `add_timer` keeps the
order, one `pop()` of a heap in order finds the earliest timer, and a tick serves all
that is due on one. What does not hold, and no text of the repository claims:

* three timers that expire one after the other make `pop()` read an entry that was
  never set (line 136, `array[3]`);
* `pop()` moves a timer down one level at most, so the order is lost with five timers,
  and a later `pop()` brings up the wrong one;
* on a heap out of order `percolate_down` may move up what it reads behind the last timer
  (lines 132 and 136). If that is a copy of a timer on the heap, every access is in the
  array and to a live timer, and yet the timer is held twice from then on, to be freed
  twice, and another is lost. Run `heap_astray` shows it: room for eight, twelve timers, 24
  calls of `add_timer` and `pop()`. The model goes to `"astray"` and stops. It cannot happen
  to a `pop()` of a heap in order (`PopBringsEarliest`);
* the constructor from an array throws when the array is smaller than the capacity
  (line 24), writes past the new array when it is larger, and reads past it from three
  timers on.

### HttpParse

The text is a sequence of symbols: CR, LF, blanks, and the words the parser looks for,
one entry of the buffer each. Each turn of `parse_content`'s loop is an action, with
`parse_line` as the search for the first CR or LF (`StopsAt`). `reply` names the entries
of `szret` whose text and whose length are sent. `Meaning` is the reference: what a text
deserves, defined on the whole text by its line ends, without a parser.

`main()` stores the length of the last segment in `read_index` (line 210). One segment is
served rightly (`Answered`, `VerdictRight`). Two are still in the buffer as they were sent
(`TextIntact`) and never get a wrong answer, but may get none: the parser looks no further
than the length of the second, and answers if that much decides (`Answered`). A third is written over the
second; TLC finds texts that are then refused though they are right. At the end of the
stream the loop goes on for ever (line 207), and a bad request is told "I get a correct ",
16 characters of the wrong text (line 220). `RequestLineOk` leaves out the NULs that
`parse_request_line` writes into a line it has consumed.

### EpollServer

One thread; `events` are those of the last `epoll_wait`, in no order. `handler` chooses
between `et`, which `main` calls, and `lt`, which stands beside it in a comment. `EtRecv` is
one turn of the loop in `et`. At the end of the stream it closes and goes on: since no
other thread opens descriptors, the number is still closed in the next turn, `recv` and
`close` fail on it, and the loop ends (`InputIsHandled`: no other connection is ever
closed). A reset is reported with `EPOLLIN`, so the branch "something else happened" is
not reached.

`listen_fd` is edge-triggered and gets one `accept` per event. `merged` and `failed` count
what that costs: `StrandedCounted` says that the backlog is exactly the connections that
shared an arrival with another, those whose `accept` failed, and the one on its way. Only
new arrivals take them out, one for one, so the backlog never gets shorter than that.

### IpcPrivate

`semadj` is what the kernel adds at the end of a process. A process may be killed at every
step. `pv` looks at no result: `semop` fails without a semaphore and, as no handler is
installed, when the blocked process is stopped and continued; it then goes on as if it had
acquired (`refused`). Even so value and undo values add up to 1 (`UndoBalances`). If `fork`
fails or the parent is killed, nobody removes the semaphore.

### UrgentData

The stream is five units, the third the urgent byte. The urgent pointer may arrive before
the byte, and `SIGURG` with it; `recv` stops before the byte, and the next one passes over
it and destroys it. `sigurg.cc` cannot lose the byte to `main`, because a pending signal is
handled before its `recv` goes past the mark; it loses it when the pointer came before
`F_SETOWN`, or when the handler ran before the byte was there (`missed`). `select.cc` tests the
read set first, and so loses the byte when ordinary data follows it before `select`
returns. After a failed `accept`, `select.cc` waits for no descriptor for ever; after a failed
`select`, it ends.

### Connects

`write_fds` of `unblock_connect` is never cleared (line 54 clears the other set); `stray` is
the part of it below `sock_fd`: nothing, a writable descriptor, or a number that is not
open. The test of line 66 is what keeps the first kind from returning a socket that is
not connected. `timeout_connect` leaves its socket open when it fails, and
`unblock_connect` when `connect` fails at once.

### SigMask

`mask` is per thread, `pendings` those of the process. Before `pthread_sigmask` a signal ends
the process; from then on none does (`SignalsAreBlocked`), and every one is kept for
`sig_thread`, which inherits the mask. A call that fails ends the process as well, `sigwait` too.

### Condition

Threads call `wait` and `signal` as they like; wake-ups may be spurious. A signal before the
waiter blocks wakes nobody: the mutex is private, so no caller can close that window. What
remains to be shown is that a woken thread gets out again. `wait` and the signals are
modelled for objects that are alive; the owner destroys one when no thread is inside.

## Runs

| run | properties | what it shows |
|---|---|---|
| `wheel` | `TypeOK`, `LinksOK`, `KeepsCountdown`, `TickTerminates` | links, firing times and the end of a tick under callbacks that add and delete |
| `pool` | `TypeOK` (with the queue's bound), `TakenOnceInOrder`, `NoLostWakeup`, `WokenFindsRequest`, `NothingServedWhileOpen`, `AppendReturns` | the queue under every interleaving and failure; permits are exact until a signal ends a wait; `append()` gives the lock back on each path |
| `pool_throws` | `ThrowsOnlyOnFailure` (violated) | all calls succeed and the constructor throws |
| `one_shot` | `TypeOK`, `OneWorkerPerSocket`, `InputIsAttended`, `ClosedAtTheEnd` | the one-shot protocol |
| `one_shot_live` | `InputIsReceived` | input is received in the end |
| `one_shot_hand_over` | `WorkerServesItsFd` (violated) | two events in one `epoll_wait` |
| `list` | `TypeOK`, `ListOK`, `TickAtHead`, `KeepsDeadlines`, `TickTerminates` | the list, its firing and the end of a tick under callbacks |
| `list_delete_tail` | `EveryTimerCanBeDeleted` (violated) | deleting the last of two timers |
| `heap` | `TypeOK`, `HoldsEachOnce`, `RootStays`, `AddKeepsOrder`, `PopFindsEarliest`, `TickServesDue` | what holds of the heap where it is defined |
| `heap_astray` | `TimerIsLost` | a timer is lost, though every access is defined |
| `http` | `TypeOK`, `TextIntact`, `VerdictRight`, `Answered` | requests in one, two and three segments |
| `programs` | `SemaphoreKept`, `WaiterPasses` (`IpcPrivate`); `StrandedCounted`, `InputIsHandled` (`EpollServer`); `UrgentKept`, `StreamIsRead` (`UrgentData`); `ConnectedOrClosed`; `SignalsAreWaitedFor`; `WokenReturns` | each of the smaller programs, with peers that die, answer, send and signal at any time |

### Bounds

* `wheel`: three timers and three slots give a head, a middle and a tail in one slot,
  and neighbours that change while `tmp` is between them; timeouts to 14
  seconds in slots of two cover two whole revolutions, the remainders and the rounding.
* `pool`: two workers and two appenders meet at every access; `max_requests = 1` fills the
  queue past its test, and three requests with `nullptr` are enough for one to be rejected
  while another appender waits for the lock. More threads add only repetitions, and the
  theorems cover them.
* `one_shot`: three connections on two descriptors, so that both are in use and a
  number is reused; three workers, so that a third is started while two run, and
  `pthread_create` must fail for the fourth; two buffers of input, so that input arrives
  before and after `EAGAIN`. `one_shot_live`: two connections and two workers. The
  backlog of `listen()` and the 1024 events of `epoll_wait` are never reached.
* `list`: four timers give every position a timer can be moved from and to; delays to
  2 and a clock to 3 (`MaxTime`) make equal deadlines, deadlines of the current second
  and clocks that run on during a tick.
* `heap`: five timers, the least with which `pop()` loses the order, and room for two or
  four at first, so that the array grows twice and `percolate_down` reads copies, freed
  timers and `nullptr` behind the last; delays to 2 and a clock to 2 make ties.
* `heap_astray`: one sequence of calls (`Calls`), each at any second before the first deadline
  (`Latest`): twelve timers, because with fewer no such sequence was found. The deadlines in it are
  ranks, so that the same order results whenever the calls are made.
* `http`: ten request lines, right and wrong in each word and blank, with a header or
  none and every combination of line ends, 630 texts in all, cut in every way into up to
  three segments (`MaxSegments`); the buffer of 12 symbols is too small for the longest.
* `programs`: two clients on two descriptors for `epoll.cc`, so that arrivals merge, both
  descriptors have an event at once and a number is closed while the other is read; two
  buffers of input (`MaxInput`), so that some is left after one `recv` of `lt`. Three
  signals (`MaxSignals`), so that one is raised again while it is pending. Three waiting
  threads with five calls (`MaxCalls`), so that one is woken while another holds the mutex
  and a third comes in. The others have no bounds: the programs end by themselves.

Deadlock is not checked: every caller may stop calling, and a closed or crashed
object has no step left.

### Fairness

* `TimeWheel`, `SortTimerList`: the steps of a tick that has begun, which are
  straight-line code of one thread, and the return of callbacks. No call is forced.
  `SortTimerList!TickTerminates` is for behaviours in which callbacks do not arm timers
  for the running second for ever: a tick serves those too.
* `MCTimeHeapAstray`: the caller makes its calls. It may wait before each, up to `Latest`.
* `HttpParse`: the parser runs. The client may do nothing more.
* `ThreadPool`: every thread runs, nothing else. The mutex may pass over a thread as
  long as others take it; appenders have finitely many requests.
* `EpollOneShot`: the main thread and the workers run. Clients may do nothing more.
* `MCPrograms`: weak fairness of the steps of the program itself: `EpollServerStep`, `Receive`,
  `SigStep`, `IpcStep` (both processes together; `sleep` ends) and every thread's `WaitStep`.
  Nobody need connect, send, answer, signal, kill or stop anything. The mutex of `cond` need
  not be fair: with finitely many calls each thread gets it in the end. `Connects` has no
  liveness property and no fairness.

## Proofs

TLAPS checks, for every value of the constants within the named assumptions:

`TimeWheelProofs` (`WheelAssumption`: at least one slot, positive seconds per slot):

* `TypeCorrect`. Typing is not inductive alone: `tick()` unlinks `tmp`, so a firing
  tick must have one (`Typed`).
* `LinksCorrect`. `LinksOK` says of each timer what its neighbours are, which does not
  exclude that a list is a circle, and unlinking a timer that is its own neighbour
  would break it. The strengthening `LinksInv` adds that there is a rank that grows
  along `next`. Insertion at the head and removal keep it.

`TimeWheelRefinement` (the same assumption):

* `KeepsPromise`, the refinement `KeepsCountdown`. `LinksInv` says nothing of what `tick()`
  has behind it, so `WalkInv` orders each slot by its rank: `next` is the next lower one, the
  head the highest, and during a walk the timers above `tmp` are those that `tick()` has
  passed, all of them at the end. A callback pushes above every other timer, hence behind
  the walk. What is left is arithmetic: `add_timer` splits a timeout into whole revolutions
  and slots (`Division`, `SlotForDistance`), and leaving a slot brings every timer one tick
  nearer, or puts it a revolution away (`TickEndEnds`). The lists are used forwards only,
  since the destructor does not repair `prev`; it frees every timer because the highest rank
  of a slot is its head (`CloseEndCloses`).

`ThreadPoolProofs` (`PoolAssumption`: finite sets of threads, no thread in two roles):

* `TypeCorrect`, `OnceInOrder`, `Bounded`, `WakeUpsKept`, `WakeUpsExact`,
  `ServesOnlyWhenStopped`, all from one inductive invariant `IInv`. None of the checked
  invariants is inductive alone. `LockOwned` ties the lock to the program counters;
  from it, `TestedUnderLock` says that what was tested under the lock (the queue is not
  empty, not full; `request` is its front) still holds at the next step; `Balance`
  counts requests against permits, woken workers and pending posts, as an equation
  until a signal ends a wait and as an inequality after that. One lemma per part, one step per action.

`EpollOneShotProofs` (the assumption of `EpollOneShot`: finite sets, `NULL` and the listening
descriptor in none of them):

* `TypeCorrect`. Typing needs to know that `accept()` for an event of `listen_fd` finds a
  connection (`BacklogHolds`), that `slot` was written before a worker reads it, and that no
  more is unread than was sent (`Typed`).
* `OneWorker`, `Attended`, `ClosesAtTheEnd`. The three hold together or not at all, as long as
  each worker serves its own descriptor: `Separate` says that what a worker serves is not armed,
  ready or reported, and what is reported is not armed; `Watched`, that every connection is
  armed, reported, served or orphaned, and ready if it is armed and can be read; `Ended`, that
  a worker about to close has seen the end. Re-arming moves a connection from a worker to
  `armed` and looks for input in one step, which is why nothing is lost after `EAGAIN`.
  A number that is reused was closed by its last worker, so nobody else knows it.

`SortTimerListProofs` (the assumption of `SortTimerList`: a finite set of timers, `NULL` not among
them; nothing of the clock and the delays but that they are naturals):

* `TypeCorrect`, `ListCorrect`, `TickWorksOnTheHead`. `ListOK` speaks of the walk from `head`, a
  recursive function, of which nothing can be computed by expanding it. The proofs go through
  a sequence `w` instead: `Linked` says that the links are the neighbours in `w`, and `ChainIs`, by
  induction, that a walk over such links finds `w`. `InsertLinks` and `RemoveLinks` show what
  the two kinds of assignments do to `w`; `InsertAfterPlaces` that the loop of `add_timer` stops at
  the place the order asks for; `AddKeeps`, `AdjustKeeps`, `DeleteKeeps` and `HeadRemoveKeeps`
  cover the branches of the four functions. The invariant `IInv` adds to the order that timers off
  the list have clear links (`Clear`), and, for a tick, that the timer that fires was due by the
  clock read before the loop (`Ticking`). From this a timer that a callback arms is never put
  before the one that fires: its deadline is no earlier, and `add_timer` goes behind
  equal ones, because lines 20 and 48 of `sort_timer_list.cc` compare with `<`.
* `KeepsItsDeadlines`, the refinement `KeepsDeadlines`: the head is a timer with the earliest
  deadline, so the loop is left only when none is due.

`HttpParseProofs` (`HttpAssumption`: a buffer that is not empty, texts of symbols):

* `IndicesStayInBuffer`. The types are inductive with `start_line <= checked_index`.
* `TwoSegmentsIntact`. The text is intact because the second segment goes right behind
  the first (`SecondGoesBehind`): `read_index` is the end of the text after one segment,
  unless there is nothing to come or no room. Cutting a line off writes before the start
  of the next line only.
* `VerdictsAreRight`. `Meaning` is a statement about the whole text, the parser knows the part
  that has come. `FirstLine`, `NextHeader`, `StrayFirst` and `StrayLater` say that `Meaning` is
  decided by the lines up to the first that decides; `RequestLines`, that `parse_request_line`, which looks
  for one blank after the other, accepts exactly what the reference calls a request line.
  The invariant `ParsedInv` adds to `IntactInv` that the lines cut off are a request line
  and headers, that a NUL lies in front of the current line, and that no line end was passed
  in it. It holds for texts cut in two that fit the buffer, as `VerdictRight` does: beyond
  that the text is not in the buffer.

`TimeHeapProofs` (`HeapAssumption`: finitely many timers, `NULL` not among them, capacities of one
at least, delays that are naturals):

* `TypeCorrect`, `NoneLostNoneTwice`, `TickPopsWhatItCompared`, from the inductive invariant
  `IndInv`: the first `cur_size` entries hold the living timers, each once (`Holds`), a tick has
  `tmp` at the root, and a timer that fires was due. Both loops that sift are recursive functions,
  so the proofs first show that such a function exists (`RiseExists`, by induction upwards;
  `SiftExists`, downwards from the end of the array, where `percolate_down` cannot go on).
  `RiseKept` and `SiftKept` then say what the loop makes of the array from a hole on,
  for every array that differs above it: each turn swaps two entries (`SwapHolds`). Sifting down
  keeps the timers unless it takes a step behind the last one; such a step always changes
  an entry there, because what moves up is earlier than what was there, which is how
  `GoesAstray` sees it.
* `AddingKeepsOrder`: while a timer rises, only the hole and its parent may be in the wrong order
  (`OrderedBut`).
* `PopBringsEarliest`: the earlier of the root's children comes before all other timers, so the loop,
  which compares that child with what it reads below, stops after one turn, and never
  behind the last timer.
* `TickServesAllDue`: the root of a heap in order is its earliest timer (`RootIsEarliest`).
* `ConstructorOverruns`: the first call of `percolate_down` starts at the parent of the last entry of
  an array that is full (`FirstSiftOverruns`), so the constructor makes heaps of at most two timers.

`ProgramsProofs` (`EpollServerAssumption`: finite sets, `listen_fd` and `NULL` are none of the
connections' descriptors; of the other programs only `sigmask.cc` has a parameter, a bound):

* `SemaphoreIsKept`. `Owes` says what each process owes at each of its steps: nothing, the 1 it
  holds, or -1 once it has released what it was refused. The kernel never has to cut the
  value off at 0, because the other process owes at most 1 (`UndoKeepsBalance`).
* `SocketsAreRight`. `ConnectInv` says what the two functions know at each step: a socket
  waited for is open and non-blocking, one whose error is asked for has had its answer.
* `UrgentByteIsKept`, `StreamIsReadInOrder`. `StreamInv` orders sent, arrived and read; `ReceiverInv`
  ties the step of each program to the position in the stream; `SignalInv` says that a signal
  raised after `F_SETOWN` is pending or handled, so `main`'s `recv` does not go past the mark before it.
  `ReadInv` says that what was received is what was passed, the urgent byte left out. That is the
  safety half of `StreamIsRead`.
* `Stranded`. `StrandedCounted` is not inductive: `epoll_wait` could replace an event of
  `listen_fd` that was not handled, report it without an arrival, or `close` could take its
  registration away. `ListenInv` adds that `events` is empty while the server waits, that
  `listen_fd` stays edge-triggered, and that `et` receives from a connection's descriptor.
* `ClosesAtTheEnd`, the safety half of `InputIsHandled`. `lt` closes whenever `recv` returns no data.
  `EndInv` says that this is the end: each event still to be handled is that of a
  readable connection, which nobody else has read since it was reported, because each client is
  in one place only (`OnePlace`) and a number that is reused in the same batch had its event before.
* `MaskedSignalsKillNobody`, the safety half of `SignalsAreWaitedFor`. From `pthread_sigmask` on every thread
  that runs blocks the whole set (`MaskedInv`).

A statement about a recursive function is proved by induction over a set of numbers (`Least`,
`SetInduction`, from the theorem that a well-founded relation has minimal elements): the
library's induction rules take a predicate as a parameter, which the provers used here cannot
instantiate.

Only model-checked:

* liveness: `TickTerminates` of both containers, `AppendReturns`,
  `InputIsReceived`, `Answered`, `WaiterPasses`, `WokenReturns`, and the leads-to parts of
  `InputIsHandled`, `StreamIsRead` and `SignalsAreWaitedFor`, whose safety parts are theorems. Proofs with fairness need `ENABLED`,
  which the prover does not know.
* `TimerIsLost`: a behaviour that exists, of one caller.

## Findings

* `pool_throws`: `thread_pool.cc:26` takes the success of `pthread_detach` for failure.
* `one_shot_hand_over`: `epoll_one_shot.cc:126` hands every worker the same local.
* `list_delete_tail`: `sort_timer_list.cc:102` lacks the `return` of the branches
  before it.

`NothingServedWhileOpen` holds, and says that the pool serves nothing in its life:
the condition of line 66 is the wrong way round.

## Not modelled

* `send_fd`: undefined on every run. Both functions describe one byte of a zero-length
  array (lines 18 and 43), use `CMSG_DATA` behind a `cmsghdr` without room for it, and the
  parent receives from the end of the pair it has just closed.
* `writev`, `sendfile`, `splice`, `dup`: one `accept` and a fixed sequence of calls, no state
  that outlives a call.
* the other programs: one socket call, a union that shows the byte order, two ids.
* output, addresses and the setting up of listening sockets, everywhere; `recv` of a fault
  other than a reset.

## Plan

Every invariant and every safety property of a step that the runs check is a theorem, and so are the
safety parts of the properties that also say that something happens. What is left are the measures behind the liveness properties, which can be stated as properties of steps: that each
turn of a tick of the wheel leaves fewer timers to be visited, that the parser's loop
consumes a line at each turn, and that `append()` is left after a bounded number of steps.
Then `Condition`: that the waiting threads it counts are those inside `pthread_cond_wait`.
