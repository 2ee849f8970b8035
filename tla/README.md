# A verification project for saturn

saturn is a C++ coroutine server framework: stackful fibers, an N:M scheduler,
an epoll reactor with timers, hooked blocking system calls and an HTTP stack on
top. This directory holds TLA+ models of these parts, the TLC configurations that
check them on small instances and proofs checked by TLAPS.

Source paths below are relative to `src/saturn/`.

## The system

| component | state | operations | interacts with |
|---|---|---|---|
| Fiber (`fiber.*`) | `m_state`, `m_cb`, a saved context | swapIn/swapOut, call/back, YieldToReady, YieldToHold, reset, MainFunc | every thread has a main fiber; `run()` reads and writes `m_state` from outside |
| Scheduler (`scheduler.*`) | queue `m_fibers`, `m_activeThreadCount`, `m_idleThreadCount`, `m_stopping`, `m_autoStop` | schedule, start, stop, run, idle, stopping, switchTo | threads share the queue under `m_mutex`, the counters are atomics, the flags are plain |
| TimerManager (`timer.*`) | ordered set `m_timers`, per timer `m_next`, `m_ms`, `m_cb`, `m_recurring`; `m_tickled` | addTimer, cancel, refresh, reset, getNextTimer, listExpiredCb | `idle()` sleeps until the next timer; a new front timer tickles it |
| IOManager (`iomanager.*`) | `FdContext` per fd (events, waiters), `m_pendingEventCount`, epoll, tickle pipe | addEvent, delEvent, cancelEvent, cancelAll, idle, stopping | is a Scheduler and a TimerManager; triggers schedule fibers |
| hooks (`hook.*`), FdManager (`fdmanager.*`) | table of fd properties; per call a timer and a flag | io(), sleep*, connect, close, fcntl | add an event and a timer, then YieldToHold |
| Socket, Stream, ByteArray, Address, Uri | buffers and descriptors | wrappers and codecs | use the hooked calls |
| TcpServer, HTTP server, connection pool | listening sockets, servlets, idle connections | bind/start/stop, accept loops, dispatch, take and release | schedule callbacks on IOManagers |
| Config, Log | variables with listeners, loggers | setValue, log | locks around callbacks |

What is hard here is concurrency between threads that share fibers, timers and
descriptors: a fiber registers somewhere to be resumed *before* it has switched
out; counters are adjusted outside the locks that protect what they count;
`epoll_wait()` hands out copies of events that go stale; two operations on
timers release the lock in the middle. `PROJECT.json` lists these hazards line
by line.

What makes each component correct:

* Scheduler: no callback is lost or run twice, a suspended fiber has exactly one
  party that will resume it, the counters are exact, `stop()` returns and leaves
  nothing in the queue.
* TimerManager: one outcome per one-shot timer, nobody sleeps past the earliest
  timer, no timer fires early, a due timer expires.
* IOManager: a wait is registered consistently in `FdContext`, in epoll and in
  the pending count; no edge is lost; a wait for what stays true ends.
* Hooked calls: a fiber that sleeps in a call is known to IOManager, a timeout
  ends its own call and no other, a close ends the waits of the descriptor.
* ByteArray: behaves as a sequence of bytes with a position, wherever the chunks
  end; what is written is read back.
* Uri: `Uri::Create` accepts what the grammar says and every component is its own
  text.
* TcpServer, HTTP: the accept loops end after `stop()` and none is left on a closed
  socket; a connection has one
  owner; a response answers the request of the fiber that gets it.

## The modules

### Scheduler.tla (`scheduler.*`, `fiber.*`)

One variable for each field of `Scheduler` and of the `Fiber` objects, and for
each thread its position `pc` in `run()` with the locals `ft` and `cb_fiber`.
A Fiber object is named after the callback it was created for. One action per
critical section of `m_mutex` and per write of an atomic or of a fiber's
`m_state`:

| action | code |
|---|---|
| `Take`, `TakeNothing` | the locked scan of `run()`: the first task that is not pinned elsewhere and whose fiber is not EXEC |
| `DispatchFiber`, `DispatchCb`, `DropTask` | the three branches after it; `DispatchCb` resets or creates `cb_fiber` |
| `SwapIn`, `SwapOut` | `Fiber::swapIn()`/`swapOut()`; `SwapOut` includes the decrement that follows |
| `SettleReady`, `SettleEnded`, `SettleOther`, `SetHold` | what `run()` does with the fiber it got back; the test and the write of HOLD are separate |
| `EnterIdle`, `IdleCheck`, `LeaveIdle` | the idle fiber |
| `Spawn`, `YieldToReady`, `Park`, `SwitchTo`, `YieldToHold`, `Return`, `Throw` | what callbacks do; `Park` hands the fiber to a timer or an fd, `Wake` is the resumption from `IOManager::idle()` |
| `MainSchedule`, `Start`, `StopBegin`, `StopMark`, `StopCall`, `RootReturn`, `Join` | the thread that owns the scheduler; `stop()` is split where other threads can see the difference |

`m_state` of a new fiber is not initialised by the code. The build uses the
address sanitizer, whose allocator fills memory with a pattern that is no
State: the value `"UNINIT"`. `FreshStates` says what may be there.

A fiber that two threads execute at once (the finding below) is followed until
one of them ends it; what the other does with the stack then is undefined and
not modelled.

`Jobs.tla` is what the callers of `schedule()` are promised: a set of jobs that
wait, run and are done, without threads, queue or fibers. `Scheduler` implements
it (`ImplementsJobs`) under the mapping: a callback waits while it is queued or in
a thread's `ft`, runs while it is the `m_cb` of a fiber, and is done once it has
returned or thrown. Suspensions, thread switches and early resumptions are
stutters.

### IOManager.tla (`iomanager.*`, events)

`events`, `context` and `m_pendingEventCount` are the code's; the operations are
atomic because each holds the FdContext's mutex from its first test to its end.
The kernel's epoll is external: interest with or without EPOLLET, a ready list
on which a level-triggered fd stays after `epoll_wait()`, and EPOLLHUP (for
EPOLLERR too), reported whatever the interest. `idle()` is `EpollWait`, which
copies the reports into the thread's `batch`, and `HandleEvent`, one per fd, so
that everything can happen between the two. Descriptors are below 32, the
initial size of the table.

### TimerManager.tla (`timer.*`, the sleep of `idle()`)

Times are relative to the present, so that the clock runs for ever in a finite
model: `Tick` brings every stored time one millisecond nearer. `addTimer()`
reads the clock before it takes the lock; `reset()` and `listExpiredCb()` take
the lock twice: two actions each. An idler goes through `GetNextTimer`
(compute the timeout), `TimeOut`, `Tickled` or `Interrupt` (`epoll_wait()`),
`ListExpired`, `CollectExpired` and `Deliver`. The address order of timers with
the same time, and the address of the probe of `upper_bound()`, are chosen
freely.

Ghost variables: `aim` (until when getNextTimer() let the idler sleep), `fired`,
`cancelled`, and `pulled` (timers that `refresh()` moved forward).

### HookIO.tla (`hook.*`, `fdmanager.*`, with `timer.*` and `iomanager.*`)

A hooked call goes through `Start` (the tests of `io()` and
`connect_with_timeout()`), `Try` (the system call), `Arm` (the timer), `Add`
(`addEvent()` and the yield), `Resume` (`timer->cancel()`), `Check` (ETIMEDOUT or
retry) and, for connect, `GetSockOpt`. `Expire`, `Callback` and `CallbackCancel`
are the life of an expired timer: the callback is a task that locks its weak
pointer, marks the call and then cancels the event. `close()` is four actions,
`CloseStart`, `CloseCancelAll`, `CloseDel` and `CloseF`. `Open`, `SetTimeout`,
`Fcntl` and `Ioctl` change a descriptor. What the module needs of IOManager is
`Trigger`, `cancelEvent`, `cancelAll` and `Deliver`, over `context` and `polled`
(is the descriptor registered with epoll), with epoll abstracted to level
triggering. Left to IOManager is what epoll is told: that `cancelEvent()` registers
a level-triggered EPOLLIN again, and that `idle()` then triggers an event which nobody
registered and an assertion fails (`io_trigger`). `HookIO` follows the program as
long as that does not happen, so its `Deliver` delivers registered events only.

`single` is chosen at the start. With one scheduler thread a task keeps the
thread until it yields, which the guard `Dispatch` of every action that takes up
a task says; with several, all tasks interleave. A callback that is late
carries the number of calls its fiber had still to make (`cb.n`), which is what
identifies the `timer_info` its weak pointer points to.

### ByteArray.tla, ByteSeq.tla and ByteItems.tla (`bytearray.*`, `stream/socketstream.cc`)

`ByteArray` has one variable for each field of the class (`m_cur` is the number of
the chunk it points to, 0 for NULL) and the locals of the call under way: `pc`
says in which function or loop the program is, and each iteration of a loop over
the chunks is an action.

| actions | code |
|---|---|
| `Write`, `WriteChunk`, `WriteLast`, `addCapacity` | `write()` |
| `OpenFile`, `LoadChunk`, `LoadEnd`, `LoadFails` | `readFromFile()`, which calls `write()` for each buffer; the loop tests `eof()` only, and after a read that fails (of a directory, say) it goes on for ever (`pc = "spin"`) |
| `Read`, `ReadChunk`, `ReadLast`, `ReadNothing`, `ReadThrows` | `read()`; `ReadLast` copies all of the last chunk, as the code does, and `over` counts what is written behind the caller's buffer |
| `toString`, `PeekChunk`, `PeekLast` | `toString()` and the `read()` with a position |
| `WriteToFile`, `FileChunk`, `FileEnd` | `writeToFile()` |
| `SetPosition`, `SeekNext`, `SeekLast`, `Clear` | `setPosition()`, `clear()` |
| `Receive`, `Send`, `IovChunk`, `IovLast`, `Readv`, `Writev` | `SocketStream::read()` and `write()` with a ByteArray: `getWriteBuffers()` or `getReadBuffers()`, the system call on the buffers, `setPosition()` |
| `NullDeref` | a loop that meets a NULL chunk; the program stops (`crashed`) |

The bytes of a `new char[]` are any of `Junk`. `was` is a history variable: the
contents and the position when the call began. The functions that take a position
are modelled for the current one, which is what their callers pass.

`ByteSeq` is the abstraction: a sequence and a position that a call changes in one
step, when it returns, and the result it returns. `ByteArray` implements it
(`ImplementsByteSeq`) under the mapping `data <- IF pc = "idle" THEN Data ELSE was.data`,
and the same for `pos`: while a call is under way its caller sees the old
array. A crashed or spinning call never returns.

`ByteItems` drives `ByteArray` with eight kinds of items: fixed, variable-length and
zigzag integers of two widths each, and strings with two forms of length. The
encodings are those of the code at reduced widths: a byte of three bits, of which
a variable-length integer uses two, and 3 and 5 bits for the 32- and 64-bit types,
which keeps what matters in the loops, a last byte that is not full. The run has
two kinds of callers, chosen at the start (`bare`): one that writes items and reads
them back, and one that makes any calls of `ByteArray` in any order.

### UriTable.tla, UriGrammar.tla, Uri.tla (`uri.cc`, `uri.rl`)

`UriTable` is the scanner of `uri.cc`: 560 states with their transitions and
actions. Characters are represented by classes that no state tells apart. States
that differ only in their numbers share a shape (`Octet`, `HeadGroup`, `Group`,
...), and the second half of the scanner, after a scheme, is the first one under
other numbers with other actions at its end (`Absolute`).

`UriGrammar` is the grammar of `uri.rl`, read as rules and not as a scanner, in
two versions: as `uri.rl` writes it and, with `RFC`, as RFC 3986 does. They differ in
four rules: an octet of an address, the `::` of an IPv6 address, the letter of
IPvFuture, and `pchar`. `Uri` runs scanner, grammars and a splitting of the string by its delimiters side by side.
The state is finite although the strings are not: nothing but the scanner's
state, the mark, the positions in the grammars and the phase of the splitting
decides what happens next. A component's value is abstracted to the question whether
it is the component's text; for the port, which `atoi()` converts, also whether the
number fits an int, for which the significant digits are counted up to one more than
an int has.

### TcpServer.tla and Http.tla (`tcpserver.*`, `http/`)

`TcpServer` has `bind`, `start` and `stop`, each at any time and any number of times,
the task that `stop()` schedules and an accept loop per socket and `start()`.

| action | code |
|---|---|
| `Bind`, `BindFails` | `bind()`; when an address fails it empties `m_socks`, the sockets of earlier calls included, and so does a retry with the same `fails` vector, whatever its addresses do. A socket that no accept loop has is closed by `~Socket()` |
| `start`, `stop` | `start()` schedules a loop per socket; `stop()` raises `m_isStop` and schedules its task |
| `StopCancel`, `StopClose` | the task: `cancelAll()` wakes the loops that wait, `close()` closes the sockets. Two actions, because other threads run in between |
| `AcceptLoop`, `AcceptEnds` | the test of `m_isStop` in `startAccept()` |
| `AcceptClient`, `AcceptFails` | `accept()` returns a client, or -1 on a closed socket |
| `AcceptWaits`, `AcceptWakes` | the hooked `accept()` without a client: `addEvent()`, with its assertion that nobody waits yet (`aborted`), and the resumption |

As in `HookIO`, `single` says whether the accept worker has one thread; then no loop
runs between `StopCancel` and `StopClose` (`Dispatch`).

`Http` extends it with what runs on both
ends of a connection: `doRequest`, `Connect`, `Send`, `Receive`, `ReceiveFails` and
`ReleasePtr` of a fiber that uses the pool, and `recvRequest`, `recvRequestFails`
and `Handle` of a server session. A message is a head and a body that carry the
number of their request, so that a response which is read by the wrong fiber is
seen.

### Composition

`Scheduler` abstracts timers and events to `wakers`, references to a fiber that a
timer or event holds and that `idle()` may schedule in an iteration that found
`stopping()` false. `TimerManager` contains the part of `idle()` that concerns
it, `IOManager` the rest. `HookIO` composes the operations of both with the
hooks and FdManager: a timer is in the manager, expired or gone (what
TimerManager shows of `cancel()` and expiry), a registered wait is triggered when
it is ready (what IOManager shows of edges). `Http` composes the pool, the
connections, the sessions and the accept loops; a hooked read or connect is one
step there that may time out.

## The runs

| run | instance | shows |
|---|---|---|
| `sched_pool` | 1 worker + the caller's root fiber, 3 callbacks that yield, throw, spawn | NoAssertFails, EveryCallbackOnce, StopDrains, QueueDrained; StopReturns and EveryCallbackRuns under fairness |
| `sched_hold` | root fiber only, 2 callbacks with up to 2 suspensions each | OneResumer; RootDestroyable, given that something was scheduled |
| `sched_switch` | 2 workers, 2 callbacks that throw, pins and `switchTo()` | CountersExact, and the refinement ImplementsJobs, although fibers may be resumed too early |
| `sched_hold_race` | 2 workers, fibers that wait | **violates** ExecutingIsExec |
| `io_events` | 1 fd, 3 waits, 2 threads in `idle()` | PendingExact, WaitersRegistered, NoLostEdge, ReadyResumes |
| `io_trigger` | 1 fd, 2 waits, 1 thread | **violates** TriggersRegistered |
| `timers` | 2 timers, 1 user, 1 idler | OneOutcome, EarliestCovered |
| `timers_live` | 1 timer, 2 users, 1 idler, 1 signal | OnePlace, NeverEarly, DueExpires |
| `hook` | 2 fibers, 1 closer, 1 descriptor number used again, one thread and several | HoldIffRegistered, TimeoutsAreOwn, TimerGuardsWait, NoOrphanWait, FailsOnlyStale, WaitEnds |
| `bytes` | chunks of 1 to 3 bytes; arbitrary calls with positions to 4 and up to 3 bytes written, or 2 items in either byte order | ChunksConsistent, OverrunIsRestOfChunk, CrashesOnlyAtEnds, ItemsReadBack, EveryCallEnds, and the refinement ImplementsByteSeq |
| `uri` | strings of any length | AcceptsGrammar, ComponentsAreText, ThrowsOnEmptyPort, DiffersFromRfc |
| `http` | 2 fibers, 2 requests, 2 connections, 1 listener, 2 starts, 5 calls in all; one accept thread and several | OwnResponse, OneOwner, SpinsOnlyAfterRestart, StopEndsLoops |

Bounds. Two threads are enough for a thread to leave while another still has to
queue a task, and for a fiber to be resumed by one while the other still leaves
it; three callbacks let a spawned one arrive in between. Two idlers hold a stale
and a fresh copy of an event; three waits on one fd give a READ and a WRITE
waiter at once and a successor to one of them. Two timers give a front and a
second. `MaxSuspends` bounds the suspensions of a callback, `MaxLate` how far
back a time is distinguished, `MaxInterrupts` the signals, `MaxFired` a ghost
counter (2 is enough to see a second firing). In `hook` one descriptor number is
enough because what is at stake is its reuse; the plans in `MCHookIO` give a fiber
two calls in a row (a late callback), two fibers on one number (an old owner and
a new one), a read with a connect (two events of one FdContext), and a change of
the blocking mode. In `bytes` four bytes span two chunks of every size, and a
call of three bytes crosses a chunk end from every offset; `ByteArrayProofs` has
no bound on the chunk size. Two items put the second at every offset of a chunk.
`BareSize` bounds the position for arbitrary calls; `MaxSize` is the largest length
that two bytes encode, which a string misread after a wide `Int64` may ask for. In `http`, two
requests and two connections give a request that times out and its successor,
on the same connection or not; `MaxStarts` 2 is one restart. `MaxCalls` bounds the
calls of `bind`, `start`, `stop` and `doRequest` together: 5 are enough for a server
that is bound, started, stopped, bound or stopped again, and started again, and for two requests
to a server that is stopped in between.

Fairness. Threads that exist keep running and callbacks return, so every
scheduler thread is weakly fair, and so are the rest of `stop()` and of a timer
operation once called. Nothing forces a call of `start()`, `stop()` or any user
operation, the arrival of data, or a timer that resumes a fiber. In
TimerManager the clock advances and idlers return to `idle()`, as `run()` does
whenever its queue is empty. In HookIO a call, a callback and a `close()` that has
begun go on, and a timer expires because `idle()` looks at the timers at least
every `MAX_TIMEOUT`; data need never come. In Http only what `StopEndsLoops` is about
is fair: the two steps of the task of `stop()`, and of an accept loop the steps that
do not depend on a client, an `accept()` that fails on a closed socket (`AcceptFails`)
and the end of the loop (`AcceptEnds`). Both are in the queue of a scheduler that runs them. A wait
in `accept()` is not taken to end: it ends when something wakes it. In ByteArray a call that has begun goes on
(weak fairness of `Step` in `ItemsSpec`), as the code of one thread does; nobody need make another.

Every property has a mutant in `PROJECT.json`: a change of one small definition
(a decrement dropped, an erase forgotten, a mask overwritten) under which TLC
finds it violated.

### What the violations show

* `sched_hold_race`: a fiber registers with a timer or an fd, and another thread
  resumes it before the first has executed `m_state = HOLD` and `swapOut()`. The
  late writes of HOLD (`fiber.cc:149`, `scheduler.cc:174`, `193`) then hit a
  fiber that executes: `addEvent()`'s assertion on EXEC can fail, and `swapIn()`
  may switch into a context that is not saved yet.
* `io_trigger`: `delEvent()`/`cancelEvent()` of READ leave `EPOLLIN` in the
  interest; `idle()` triggers READ with no waiter and `triggerEvent()` asserts.

### What the passing runs say of faults

Some properties hold only with an exception, and the exception is the code's:

* `RootDestroyable`: with `use_caller`, a `stop()` that finds `stopping()` already
  true never runs the root fiber, whose `m_state` is then uninitialised when
  `~Fiber()` asserts on it (`fiber.cc:34`, `58`). The property says that this needs
  a scheduler on which nothing was scheduled.
* `TimerGuardsWait`, `NoOrphanWait`, `WaitEnds` hold with one thread. With several, a
  timer that expires before `addEvent()` finds nothing to cancel and the wait
  that follows has no timeout any more; and a waiter that `cancelAll()` has
  resumed may register again before `close_f()`, which drops the registration
  from epoll and leaves the fiber asleep.
* `WaitEnds` excludes descriptors that `ioctl(FIONBIO, 0)` has made blocking for the
  kernel too: unlike `fcntl()`, `ioctl()` passes the user's flag on (`hook.cc:434`).
* `FailsOnlyStale`: a call that retries after its descriptor was closed and reused
  meets the waiter of the new owner, even with one thread, and the assertion of
  `addEvent()` fails.
* `OverrunIsRestOfChunk`: `ByteArray::read()` copies the rest of the chunk whatever
  was asked for (`bytearray.cc:390`).
* `CrashesOnlyAtEnds`: reading nothing with the position at the capacity goes through
  a NULL pointer (`385`), so that an empty string that ends a full array cannot be read
  back; and `writeToFile()` from the middle of a chunk with less than the size of a
  chunk to write computes a wrong length (`473`), goes to and fro and runs off the list.
  `ItemsReadBack` excludes the first, and 64-bit integers whose code needs more
  than 32 bits: `readInt64()` decodes a 32-bit one (`272`).
* `ThrowsOnEmptyPort`: `http://host:` and the like build the path from a NULL mark.
* `ComponentsAreText` has three exceptions. The path is saved only behind both a scheme
  and an authority (`uri.rl:119`): that of `/a/b`, of `//h/a` and of `http:/a` is lost.
  Of the userinfo `name:1...` only the part from the digit on is kept. And a port that
  no int holds is another number, or anything, since `atoi()` has no value then (`30`).
* `DiffersFromRfc`: `uri.rl` refers to RFC 3986 (`uri.rl:6`). It accepts more: bytes that
  are not ASCII in `pchar`, on purpose (`85`-`87`), and the byte 2 instead of the digit in one
  form of an octet (`51`). It refuses some IP literals: its IPv6 rules want exactly n groups
  before `::` where the RFC says at most n (`58`-`63`), so that `[1::]` is refused, that
  octet with the digit, and a capital `V` (`64`).
* `EveryCallEnds` excepts a `readFromFile()` whose file opens but cannot be read, which
  loops for ever (`bytearray.cc:493`).
* `SpinsOnlyAfterRestart`: a `start()` before the last `stop()` is over leaves an
  accept loop on a closed socket, where `accept()` fails at once, for ever; or two loops
  on one socket, of which the second to wait fails the assertion of `addEvent()`.
* `StopEndsLoops` holds for an accept worker with one thread. With several, a loop that
  `cancelAll()` has woken may wait again before the socket is closed; `close()` wakes
  once more before `close_f()`, but behind that the loop sleeps for ever, as a
  listener has no timeout. It also excepts a server whose `bind()` has failed while
  loops were running: `m_socks` is empty then, and `stop()` reaches no loop.
* Not excluded but worth knowing: `m_createTime` is never set, so that the pool's
  age limit never applies, and `m_maxSize` is never read (`http_connection.cc:308`,
  `349`); a connection the server has closed stays in the pool, and the request
  that takes it fails with TIMEOUT.

## The proofs

`SchedulerProofs.tla` proves for every set of threads and callbacks, all pins
(unless stated) and all kinds of callbacks, from `ThreadsAssumption` (finitely
many workers, the root is not one of them, pins name threads) and
`BodyAssumption`:

* `TypeCorrect`: `Spec => []TypeOK`; `CountersCorrect`: `Spec => []CountersExact`;
* `DrainsOnStop`: with `Pins = {None}` and at least one thread,
  `Spec => []QueueDrained`.

The first two rest on `IInv`, which adds to the type invariant and the exact
counters what `Running(t)` is at each position (a thread between `dispatch` and
`setHold` has a task or a `cb_fiber`): without it the state that `run()` reads
after a switch is not the state of any fiber. The counting steps use that a
thread that enters or leaves `ActivePcs` changes the cardinality by one
(`FiniteSetTheorems`).

`DrainsOnStop` needs more (`DInv`). A thread that will not look at the queue
again is *leaving*: it has exited, or has found nothing after its idle fiber
ended. `Drained` says that once `stop()` has begun, if all threads are leaving
then the queue is empty. A thread that is not leaving may queue tasks, but it
will look again; when the last one finds nothing, every task left was skipped
because its fiber is EXEC, and then some thread executes that fiber
(`ExecHasRunner`) and is not leaving, so there is none. `StopFlags` (idle fibers
end only during `stop()`) and `Joined` (what `mainPc` says about the threads)
make it inductive.

`IOManagerProofs.tla` proves for every finite set of fds, waits and idle threads,
from `IOAssumption` alone: `TypeCorrect`, `PendingCorrect` (`Spec => []PendingExact`),
`Registered` (`Spec => []WaitersRegistered`) and `EdgesKept`
(`Spec => []NoLostEdge`). All but the types are claims up to the first failed
assertion, which `io_trigger` shows can happen. None of the three is inductive
alone, their conjunction `IInv` is. The count falls by the number of events
triggered only because each event has a waiter and the waiters are distinct
(`Recorded`, lemma `RemoveWaiters`). An fd that `epoll_wait()` takes off the ready
list is covered by the batch only because epoll watches all that is waited for
(`Watched`). And a batch entry may be dropped because it either concerns nothing
waited for, or ends in an `epoll_ctl()` that lists the fd again for what is left
(`UpdateKeeps`).

`HookIOProofs.tla` proves, for any fibers, closers, descriptors and plans, with one
thread or several, from `HookAssumption`: `TypeCorrect`, `RegisteredIffHeld`
(`Spec => []HoldIffRegistered`), `TimeoutsOwn` (`Spec => []TimeoutsAreOwn`),
`AssertFailsOnlyStale` (`Spec => []FailsOnlyStale`), `NoOrphan`
(`Spec => []NoOrphanWait`) and `TimerGuards` (`Spec => []TimerGuardsWait`). The types need
HoldIffRegistered and it needs them (`Core`): that `Trigger` makes only sleeping
fibers ready is what keeps a fiber idle exactly when it has no call. All steps
that resume fibers have one effect, `Waking`: they move some from `hold` to `ready`
and nothing else. `TimeoutsAreOwn` needs that a callback not yet over is of a call
that its fiber has made (`CallbacksOwn`: its number is at least that of the calls
left, and if equal, the call has expired and is on the same descriptor and
event); the numbers only fall, so that no later call has the number of an earlier one.
`FailsOnlyStale` needs that of two calls on one descriptor and event at most one
is not stale (`OneLiveCall`). `NoOrphanWait` rests on what one thread gives
(`Exclusive`: at most one call, close or callback is between two yields), from which
nobody registers on a descriptor between its `cancelAll()` and its `close_f()`
(`ClosedWaits`). `TimerGuardsWait` is strengthened to the time before the wait
(`Guarded`, from the arming on). A callback may leave only a call that it has marked
(`MarksFirst`); with one thread a marked call sleeps only while that callback has
the thread (`MarkedWakes`), and its `cancelEvent()` then finds the registration
in epoll, by `NoOrphanWait`, and resumes the call (lemma `CancelReadies`).

`SchedulerTaskProofs.tla` follows the callbacks, again for every set of threads,
pins and kinds of callbacks, the early resumption of `sched_hold_race` included:

* `RootFiberDestroyable`: `Spec => []RootDestroyable`. Without workers nothing takes
  a task before `stop()` calls the root fiber, so that an empty queue means that
  nothing was scheduled (`RootCalled`).
* `CallbacksOnce`: `Spec => []EveryCallbackOnce`. The property counts places; the
  invariant `OInv` says of each place that it is the only one (`OnePlaceOf`, and
  that a callback is in the queue, in a thread's `ft` and in a fiber at most once).
  It also needs that a task holds a callback or a fiber, not both (`TasksPure`); that a
  `cb_fiber` kept for reuse is of one thread and has no callback unless that thread
  runs it (`CbFiberOwn`, `CbFiberFree`): this is why `reset()` overwrites none; that a
  fiber in TERM or EXCEPT has a callback that has ended (`EndedStates`); and that the
  object named after a callback is not in use before the callback is taken
  (`Unmade`).
* `SchedulerIsPool`: `Spec => ImplementsJobs`. By `OInv` every callback is at one
  stage (lemma `Stages`), so that the stages fix the abstract variables; the
  actions fall into those that change no stage, that schedule, that start, and
  that end or settle (`PoolStutters`, `PoolSchedules`, `PoolStarts`, `PoolEnds`, `PoolSettles`).

`SchedulerFiberProofs.tla` follows the fibers. What it shows is false under the race
of `sched_hold_race`, so it assumes `NoHandover`: there is at most one thread, or the
callbacks do not hand their fiber to a timer, an fd or another thread before they
have left it (`BodyOps` without `hold` and `switchTo`). `sched_hold` is an instance
of the first case, `sched_pool` of the second.

* `AssertsHold` (`NoAssertFails`), `ExecutingInExec` (`ExecutingIsExec`),
  `ResumedByOne` (`OneResumer`), and, with `Pins = {None}` and at least one thread,
  `DrainsCallbacks` (`StopDrains`).
* `StoppingMissesOnlyYielded` (`StoppingMeans`): when `stopping()` is true, every callback
  ever scheduled has ended, waits for a timer or an fd, or has yielded to a thread that
  has lowered `m_activeThreadCount` and not yet queued it again (`scheduler.cc:169`).
  `stopping()` reads a queue and a counter, neither of which has such a fiber; the theorem says
  that nothing else escapes them.

They rest on `RInv`, which says for each fiber who has it: at most one thread
(`OneGrip`), in a state that fits the thread's position (`GripOK`); or it is queued once
and in a state in which `swapIn()` may resume it (`QueuedOK`); or a timer or event has its one
reference (`WaitingOK`); or it is a `cb_fiber` kept in INIT for the next callback (`KeptOK`). `LiveOK`
says that a fiber with an unfinished callback is one of these, `UnbornOK` that a
new one is none. On several threads a yield to READY is the only way back into the
queue, and `run()` itself queues the fiber after the switch; on one thread nobody can
take the fiber between registration and switch. `DrainsCallbacks` combines `RInv` with
`DInv`: after `stop()` the queue is empty and no thread holds a task, so that what is
unfinished waits.

`TimerManagerProofs.tla` proves for any timers, intervals, users and idlers, from
`TimerAssumption` (some thread executes `idle()`; the constructor's default is one,
and on an IOManager created without threads nobody serves timers): `TypeCorrect`,
`InOnePlace` (`Spec => []OnePlace`), `OutcomeOnce` (`Spec => []OneOutcome`), `FiresLate` (`Spec => NeverEarly`, an action property) and
`EarliestIsCovered` (`Spec => []EarliestCovered`). The first four rest on `PInv`, per
timer: an object that was never added is nowhere (`Fresh`), the places exclude each other
(`Apart`), a one-shot timer with a future has no outcome yet (`Outcome`), and what an
idler has taken out is due and stays so (`Late`). Both gaps in the locks are closed
by the same fact: who takes a timer out of the set is the only one to have it.
`CInv` is for the sleepers: what an idler aims at covers every timer of the set, unless
`m_tickled` is set (`SleeperCovers`); and while all sleep with `m_tickled` set, the
tickle that it stands for is in the pipe or about to be written
(`TickleOnTheWay`), so that the tickles it suppresses are not missed.

`HttpProofs.tla` proves for any number of fibers, connections, requests and
listeners, from `HttpAssumption` (the placeholder `None` is neither a fiber nor a number) and the
bounds' types: `SpinsLate` (`Spec => []SpinsOnlyAfterRestart`), `Matches`
(`Spec => []OwnResponse`) and `Owned` (`Spec => []OneOwner`). The first is for one accept
thread and several, and rests on `AInv`: without a hasty `start()` a server that is not stopping has no
`stop()` task left (`NoStopUnderWay`), and the loops that live are those of the last
`start()` (`LastLoops`), so that a socket has one. The other two rest on `HInv`: a connection has one owner
(`Ownership`); one that lies in the pool is `Clean`: connected, with nothing on its way in
either direction and no half-read message at the server; and between request and
response the two streams and the session hold exactly the parts of one exchange, all
with the number of the fiber's request (`Request`). A timeout or a failed read closes
the connection, which is why the late answer stays in it. A failed send does not
(`http_connection.cc:461`-`470`), but it fails only when the server has closed: the connection goes
back to the pool with nothing on its way, and nothing will ever come.

`ByteArrayProofs.tla` proves for every chunk size, every set of bytes and every
sequence of calls, from `ByteArrayAssumption` (chunk sizes are positive; what
`new char[]` contains are bytes): `ChunksStayConsistent` (`Spec => []ChunksConsistent`),
`OverrunBounded` (`Spec => []OverrunIsRestOfChunk`), `NoOtherCrash`
(`Spec => []CrashesOnlyAtEnds`) and `ByteArrayIsByteSeq` (`Spec => ImplementsByteSeq`). The
properties speak of calls that have returned, so the invariant has to say what
holds inside each loop. `IInv` has one part for each place in the program
(`Writing`, `Loading`, `Reading`, `Peeking`, `Filing`, `Seeking`, `Gathering`, `Filling`,
`Sending`), and these are put together from a few ideas: the loop is in the chunk of
its position (`Inside`, `Points`), the contents are the old ones except for what
the call has written so far (`Contents`), what is left to write is the rest of the
argument (`ToWrite`), what has been read is what was there (`Reads`), and the
buffers for the kernel lie one after the other from the position on (`Buffers`).
A `readFromFile()` that spins has left its loop's part for a place about which nothing is
claimed but the types and that it has returned nothing.
`Astray` describes the fault of `writeToFile()`: from the middle of a chunk with
less than a chunk left, the length is never right, and the loop does not end before
the list does; with nothing left it does not begin. The step from one chunk to the next is
arithmetic (lemmas `Division`, `DivisionUnique`, `Multiples`): the chunk after the one of
position `p` is that of `p` plus the rest of the chunk. For the refinement, every
step inside a call is a stutter (`CallStutters`), and each way to return is one abstract
action: by the loop's part of `IInv` the contents are then the old ones overwritten
(`ReturnsWrite`), or unchanged with what was read as the result (`ReturnsLook`,
`ReturnsTaken`).

Only model-checked: all liveness (`StopReturns`, `EveryCallbackRuns`, `ReadyResumes`,
`DueExpires`, `WaitEnds`, `StopEndsLoops`, `EveryCallEnds`), which is beyond the prover;
`ItemsReadBack`, which is about recursive encodings and so needs an induction over
data; and Uri, which is one finite computation over the table of the scanner that
TLC does completely.

## Not modelled

* Logging, names, formatting, backtraces; third-party parsers (mongrel2); restarting
  a stopped scheduler; growth of `m_fdContexts` and of FdManager's table; steps of
  the wall clock (`getCurrentTime()` is `system_clock`).
* `Address`: pure computations and name lookup. `Config` and `Log`: their one
  question of control is a mutex taken twice by the same call, which no schedule
  is needed for; both are listed as hazards.
* Of the hooks, the conversion of times: a timeout of 0 means an immediate
  ETIMEDOUT, `sleep()` and `usleep()` multiply in 32 bits, and `Socket`'s setters
  lose the milliseconds (`socket.cc:86`-`102`).
* Of HTTP, message text, chunked bodies, and the dispatch to servlets.
* `IOManager::stopping()` over scheduler, timers and events together.

## Plan

1. **Reactor**: `Scheduler::run`, `idle()`, `tickle()`, `epoll_wait()` and
   `IOManager::stopping()` composed, with abstract timers and events. Questions:
   does `stop()` of an IOManager return, is work lost at the end, does a task wait
   longer than `MAX_TIMEOUT`?
2. The growth of `m_fdContexts` and of FdManager's table; servlet dispatch.
