------------------------------- MODULE HookIO -------------------------------
(***************************************************************************)
(* The hooked system calls (hook.cc) over FdManager (fdmanager.cc), with    *)
(* the part of IOManager and TimerManager they use.                         *)
(*                                                                          *)
(* A fiber that calls read(), accept(), write(), ... on a socket tries the  *)
(* system call, and on EAGAIN arms a timer, registers itself with addEvent, *)
(* yields, and tries again when it is resumed; connect() does the same once. *)
(* A timer callback runs as a task of its own: it marks the call cancelled  *)
(* and cancels the event.  close() cancels the waits of the descriptor and  *)
(* closes it, and the kernel gives its number to the next socket.           *)
(*                                                                          *)
(* An operation under an FdContext's mutex is one action, and a call goes   *)
(* through several.  With one scheduler thread (single) a task keeps the    *)
(* thread until it yields or returns; with more, tasks interleave freely.   *)
(*                                                                          *)
(* One fiber at a time reads, and one writes, a given socket.  Readiness    *)
(* is the kernel's.  What epoll_wait() returns is handled at once here:     *)
(* module IOManager has the gap between the two.                            *)
(***************************************************************************)
EXTENDS Integers, Sequences

CONSTANTS
    Callers,    \* fibers that make calls
    Closers,    \* fibers that close descriptors
    Fds,        \* descriptor numbers
    Plans,      \* what the fibers do, of which one is chosen: [calls, changes]
    None

Events == {"READ", "WRITE"}

\* A call; and a plan: the calls of each fiber, and a bound on those of
\* fcntl() and ioctl().
Op == ({"io"} \X Events) \cup {<<"connect", "WRITE">>}
Plan == [calls : [Callers -> Seq(Op)], changes : Nat]

\* The variables of a call.  cancelled is timer_info::cancelled; ghosts: stale,
\* the descriptor was closed during the call, and expired, a timer of the call
\* has expired.
CallType == [fd : Fds, e : Events, kind : {"io", "connect"}, timed : BOOLEAN, cancelled : BOOLEAN,
             stale : BOOLEAN, expired : BOOLEAN]

ASSUME HookAssumption ==
    /\ None \notin Callers /\ None \notin Fds /\ None \notin CallType
    /\ Plans \subseteq Plan

VARIABLES
    single,      \* the IOManager has one thread
    open,        \* kernel: the descriptors that are open
    blocking,    \* kernel: those without O_NONBLOCK
    ready,       \* kernel: what would not block
    managed,     \* FdManager: the descriptors that have an FdContext
    user,        \* FdContext::m_userNonblock, where set
    timeouts,    \* FdContext::m_recvTimeout, m_sendTimeout: which are not -1
    context,     \* IOManager: the fiber that waits for an event of a descriptor
    polled,      \* kernel: the descriptors registered with epoll
    pc,          \* where each fiber is
    call,        \* its call, or None
    todo,        \* the calls it has not made; their number tells its calls apart
    armed,       \* the timer of its call is in TimerManager
    callbacks,   \* expired timers whose callback has not ended
    closing,     \* per closer: <<step, fd>>
    changes,     \* how often fcntl() and ioctl() may be called
    failed       \* SATURN_ASSERT in addEvent() failed

kernel == <<open, blocking, ready>>
fdManager == <<managed, user, timeouts>>
waits == <<context, polled>>
calls == <<pc, call, todo, armed>>
vars == <<single, kernel, fdManager, waits, calls, callbacks, closing, changes, failed>>

Waited(fd) == {e \in Events : context[fd][e] # None}

Active(c) == pc[c] \notin {"idle", "hold", "ready"}
Cancelling == {cb \in callbacks : cb.stage = "cancel"}

\* A thread takes up a task, or its idle fiber.
Dispatch ==
    /\ ~failed
    /\ single => /\ \A c \in Callers : ~Active(c)
                 /\ \A k \in Closers : closing[k][1] = "idle"
                 /\ Cancelling = {}

Init ==
    /\ single \in BOOLEAN
    /\ open = {} /\ blocking = {} /\ ready = [fd \in Fds |-> {}]
    /\ managed = {} /\ user = {} /\ timeouts = [fd \in Fds |-> {}]
    /\ context = [fd \in Fds |-> [e \in Events |-> None]]
    /\ polled = {}
    /\ pc = [c \in Callers |-> "idle"]
    /\ call = [c \in Callers |-> None]
    /\ \E p \in Plans : todo = p.calls /\ changes = p.changes
    /\ armed = [c \in Callers |-> FALSE]
    /\ callbacks = {}
    /\ closing = [k \in Closers |-> <<"idle", None>>]
    /\ failed = FALSE

-----------------------------------------------------------------------------
(***************************************************************************)
(* Descriptors and their options.                                           *)
(***************************************************************************)
\* socket() and accept(): get(fd, true) makes a context and sets O_NONBLOCK.
Open(fd) ==
    /\ Dispatch
    /\ fd \notin open
    /\ open' = open \cup {fd}
    /\ ready' = [ready EXCEPT ![fd] = {}]
    /\ managed' = managed \cup {fd}
    /\ user' = user \ {fd}
    /\ timeouts' = [timeouts EXCEPT ![fd] = {}]
    /\ UNCHANGED <<single, blocking, waits, calls, callbacks, closing, changes, failed>>

\* setsockopt() of SO_RCVTIMEO or SO_SNDTIMEO; here a call has a timeout or not.
\* It is set for a call that is still to come: the others have read it.
SetTimeout(fd, e) ==
    /\ Dispatch
    /\ fd \in managed
    /\ \E c \in Callers : todo[c] # <<>> /\ Head(todo[c]) = <<"io", e>>
    /\ timeouts' = [timeouts EXCEPT ![fd] = @ \cup {e}]
    /\ UNCHANGED <<single, kernel, managed, user, waits, calls, callbacks, closing, changes, failed>>

SetUser(fd, nonblock) == user' = IF nonblock THEN user \cup {fd} ELSE user \ {fd}
SetKernel(fd, nonblock) == blocking' = IF nonblock THEN blocking \ {fd} ELSE blocking \cup {fd}

\* fcntl(F_SETFL): a socket is non-blocking for the kernel, whatever the user asks.
Fcntl(fd, nonblock) ==
    /\ Dispatch
    /\ fd \in managed
    /\ SetUser(fd, nonblock)
    /\ SetKernel(fd, TRUE)
    /\ changes > 0 /\ changes' = changes - 1
    /\ UNCHANGED <<single, open, ready, managed, timeouts, waits, calls, callbacks, closing, failed>>

\* ioctl(FIONBIO): the kernel gets what the user asks.
Ioctl(fd, nonblock) ==
    /\ Dispatch
    /\ fd \in managed
    /\ SetUser(fd, nonblock)
    /\ SetKernel(fd, nonblock)
    /\ changes > 0 /\ changes' = changes - 1
    /\ UNCHANGED <<single, open, ready, managed, timeouts, waits, calls, callbacks, closing, failed>>

\* Data, room or a connection; before a call they are as good as at its start.
BecomeReady(fd, e) ==
    /\ fd \in open /\ e \notin ready[fd]
    /\ \E c \in Callers : call[c] # None /\ call[c].e = e
    /\ ready' = [ready EXCEPT ![fd] = @ \cup {e}]
    /\ UNCHANGED <<single, open, blocking, fdManager, waits, calls, callbacks, closing, changes, failed>>

-----------------------------------------------------------------------------
(***************************************************************************)
(* IOManager: resume the fibers that wait for the events es of fd.          *)
(***************************************************************************)
\* Mutant: the waiter stays registered.
TriggerKeeps(fd, es) ==
    /\ UNCHANGED <<context, polled>>
    /\ pc' = [c \in Callers |-> IF \E e \in es : context[fd][e] = c THEN "ready" ELSE pc[c]]
Trigger(fd, es) ==
    /\ context' = [context EXCEPT ![fd] = [e \in Events |-> IF e \in es THEN None ELSE context[fd][e]]]
    /\ polled' = IF Waited(fd) \subseteq es THEN polled \ {fd} ELSE polled
    /\ pc' = [c \in Callers |-> IF \E e \in es : context[fd][e] = c THEN "ready" ELSE pc[c]]

\* epoll_ctl() fails when the descriptor is not registered (any more).
cancelEvent(fd, e) ==
    IF context[fd][e] = None \/ fd \notin polled
    THEN UNCHANGED <<context, polled, pc>>
    ELSE Trigger(fd, {e})

cancelAll(fd) ==
    IF Waited(fd) = {} \/ fd \notin polled
    THEN UNCHANGED <<context, polled, pc>>
    ELSE Trigger(fd, Waited(fd))

\* idle(): epoll reports what is waited for and ready.
Deliver(fd) ==
    /\ Dispatch
    /\ fd \in polled
    /\ Waited(fd) \cap ready[fd] # {}
    /\ Trigger(fd, Waited(fd) \cap ready[fd])
    /\ UNCHANGED <<single, kernel, fdManager, call, todo, armed, callbacks, closing, changes, failed>>

-----------------------------------------------------------------------------
(***************************************************************************)
(* io() and connect_with_timeout().                                         *)
(***************************************************************************)
\* A call on a socket that the user left blocking; any other goes straight
\* to the kernel and changes nothing here.
Start(c, fd) ==
  LET op == Head(todo[c]) IN
    /\ Dispatch
    /\ pc[c] = "idle" /\ todo[c] # <<>>
    /\ fd \in managed /\ fd \notin user
    /\ \A d \in Callers : call[d] # None /\ call[d].fd = fd /\ call[d].e = op[2] => call[d].stale
    /\ pc' = [pc EXCEPT ![c] = "try"]
    /\ call' = [call EXCEPT ![c] =
         [fd |-> fd, e |-> op[2], kind |-> op[1], timed |-> op[1] = "connect" \/ op[2] \in timeouts[fd],
          cancelled |-> FALSE, stale |-> FALSE, expired |-> FALSE]]
    /\ todo' = [todo EXCEPT ![c] = Tail(@)]
    /\ UNCHANGED <<single, kernel, fdManager, waits, armed, callbacks, closing, changes, failed>>

Return(c) == pc' = [pc EXCEPT ![c] = "idle"] /\ call' = [call EXCEPT ![c] = None]
Goto(c, l) == pc' = [pc EXCEPT ![c] = l] /\ UNCHANGED call

\* The system call: EBADF, success (a read may take all there is, or leave
\* some), or EAGAIN; on a blocking descriptor the thread waits in the kernel.
Try(c) ==
    LET fd == call[c].fd
        e  == call[c].e
    IN  /\ pc[c] \in {"try", "blocked"} /\ ~failed
        /\ \/ /\ fd \notin open
              /\ Return(c)
              /\ UNCHANGED ready
           \/ /\ fd \in open /\ e \in ready[fd]
              /\ Return(c)
              /\ \/ UNCHANGED ready
                 \/ call[c].kind = "io" /\ ready' = [ready EXCEPT ![fd] = @ \ {e}]
           \/ /\ fd \in open /\ e \notin ready[fd]
              /\ pc[c] = "try"
              /\ Goto(c, IF fd \in blocking THEN "blocked" ELSE IF call[c].timed THEN "arm" ELSE "add")
              /\ UNCHANGED ready
        /\ UNCHANGED <<single, open, blocking, fdManager, waits, todo, armed, callbacks, closing, changes, failed>>

\* addConditionTimer()
Arm(c) ==
    /\ pc[c] = "arm" /\ ~failed
    /\ armed' = [armed EXCEPT ![c] = TRUE]
    /\ Goto(c, "add")
    /\ UNCHANGED <<single, kernel, fdManager, waits, todo, callbacks, closing, changes, failed>>

\* epoll_ctl() of addEvent(): MOD when something is waited for, else ADD.
EpollAccepts(fd) == fd \in open /\ (Waited(fd) # {} <=> fd \in polled)

\* addEvent() and YieldToHold(), or its failure: io() gives up, connect() looks at SO_ERROR.
Add(c) ==
    LET fd == call[c].fd
        e  == call[c].e
    IN  /\ pc[c] = "add" /\ ~failed
        /\ \/ /\ context[fd][e] # None
              /\ failed' = TRUE
              /\ UNCHANGED <<waits, pc, call, armed>>
           \/ /\ context[fd][e] = None /\ EpollAccepts(fd)
              /\ context' = [context EXCEPT ![fd][e] = c]
              /\ polled' = polled \cup {fd}
              /\ Goto(c, "hold")
              /\ UNCHANGED <<armed, failed>>
           \/ /\ context[fd][e] = None /\ ~EpollAccepts(fd)
              /\ armed' = [armed EXCEPT ![c] = FALSE]
              /\ IF call[c].kind = "connect" THEN Goto(c, "getsockopt") ELSE Return(c)
              /\ UNCHANGED <<waits, failed>>
        /\ UNCHANGED <<single, kernel, fdManager, todo, callbacks, closing, changes>>

\* Resumed: timer->cancel(), which is too late for a timer that has expired.
\* Mutant: the timer runs on.
KeepTimer(c) == UNCHANGED armed
CancelTimer(c) == armed' = [armed EXCEPT ![c] = FALSE]
Resume(c) ==
    /\ Dispatch
    /\ pc[c] = "ready"
    /\ CancelTimer(c)
    /\ Goto(c, "check")
    /\ UNCHANGED <<single, kernel, fdManager, waits, todo, callbacks, closing, changes, failed>>

\* ETIMEDOUT when cancelled, else retry; connect() goes on to SO_ERROR.
Check(c) ==
    /\ pc[c] = "check" /\ ~failed
    /\ IF call[c].cancelled THEN Return(c)
       ELSE Goto(c, IF call[c].kind = "io" THEN "try" ELSE "getsockopt")
    /\ UNCHANGED <<single, kernel, fdManager, waits, todo, armed, callbacks, closing, changes, failed>>

GetSockOpt(c) ==
    /\ pc[c] = "getsockopt" /\ ~failed
    /\ Return(c)
    /\ UNCHANGED <<single, kernel, fdManager, waits, todo, armed, callbacks, closing, changes, failed>>

-----------------------------------------------------------------------------
(***************************************************************************)
(* The timer of a call and its callback.                                    *)
(***************************************************************************)
\* listExpiredCb() takes the timer out and the callback is scheduled.
Expire(c) ==
    /\ Dispatch
    /\ armed[c]
    /\ armed' = [armed EXCEPT ![c] = FALSE]
    /\ callbacks' = callbacks \cup
         {[c |-> c, n |-> Len(todo[c]), fd |-> call[c].fd, e |-> call[c].e, stage |-> "queued"]}
    /\ call' = [call EXCEPT ![c].expired = TRUE]
    /\ UNCHANGED <<single, kernel, fdManager, waits, pc, todo, closing, changes, failed>>

\* winfo.lock(): the timer_info lives as long as the call.
\* Mutant: the timer_info of whatever call the fiber is in.
LocksAny(cb) == call[cb.c] # None
Locks(cb) == call[cb.c] # None /\ cb.n = Len(todo[cb.c])

\* The callback up to cancelEvent(): nothing if the call is over or already cancelled.
Callback(cb) ==
    /\ Dispatch
    /\ cb.stage = "queued"
    /\ IF Locks(cb) /\ ~call[cb.c].cancelled
       THEN /\ call' = [call EXCEPT ![cb.c].cancelled = TRUE]
            /\ callbacks' = (callbacks \ {cb}) \cup {[cb EXCEPT !.stage = "cancel"]}
       ELSE /\ callbacks' = callbacks \ {cb}
            /\ UNCHANGED call
    /\ UNCHANGED <<single, kernel, fdManager, waits, pc, todo, armed, closing, changes, failed>>

\* Mutant: the callback forgets to cancel the event.
CancelForgotten(fd, e) == UNCHANGED <<context, polled, pc>>
CancelTimedOut(fd, e) == cancelEvent(fd, e)

CallbackCancel(cb) ==
    /\ cb.stage = "cancel" /\ ~failed
    /\ CancelTimedOut(cb.fd, cb.e)
    /\ callbacks' = callbacks \ {cb}
    /\ UNCHANGED <<single, kernel, fdManager, call, todo, armed, closing, changes, failed>>

-----------------------------------------------------------------------------
(***************************************************************************)
(* close()                                                                  *)
(***************************************************************************)
CloseStart(k, fd) ==
    /\ Dispatch
    /\ closing[k][1] = "idle"
    /\ fd \in managed /\ \A j \in Closers : closing[j][2] # fd
    /\ closing' = [closing EXCEPT ![k] = <<"cancelAll", fd>>]
    /\ UNCHANGED <<single, kernel, fdManager, waits, calls, callbacks, changes, failed>>

\* Mutant: the waits are left alone.
CancelNothing(fd) == UNCHANGED <<context, polled, pc>>
CancelWaits(fd) == cancelAll(fd)

CloseCancelAll(k) ==
    /\ closing[k][1] = "cancelAll" /\ ~failed
    /\ CancelWaits(closing[k][2])
    /\ closing' = [closing EXCEPT ![k] = <<"del", closing[k][2]>>]
    /\ UNCHANGED <<single, kernel, fdManager, call, todo, armed, callbacks, changes, failed>>

CloseDel(k) ==
    /\ closing[k][1] = "del" /\ ~failed
    /\ managed' = managed \ {closing[k][2]}
    /\ closing' = [closing EXCEPT ![k] = <<"close", closing[k][2]>>]
    /\ UNCHANGED <<single, kernel, user, timeouts, waits, calls, callbacks, changes, failed>>

\* close_f(): the kernel drops the epoll registration with the file.
CloseF(k) ==
    LET fd == closing[k][2]
    IN  /\ closing[k][1] = "close" /\ ~failed
        /\ open' = open \ {fd}
        /\ blocking' = blocking \ {fd}
        /\ polled' = polled \ {fd}
        /\ call' = [c \in Callers |-> IF call[c] # None /\ call[c].fd = fd
                                      THEN [call[c] EXCEPT !.stale = TRUE] ELSE call[c]]
        /\ closing' = [closing EXCEPT ![k] = <<"idle", None>>]
        /\ UNCHANGED <<single, ready, fdManager, context, pc, todo, armed, callbacks, changes, failed>>

-----------------------------------------------------------------------------
CallStep(c) == Try(c) \/ Arm(c) \/ Add(c) \/ Resume(c) \/ Check(c) \/ GetSockOpt(c)
CloseStep(k) == CloseCancelAll(k) \/ CloseDel(k) \/ CloseF(k)

Next ==
    \/ \E fd \in Fds : \/ Open(fd) \/ Deliver(fd)
                       \/ \E e \in Events : SetTimeout(fd, e) \/ BecomeReady(fd, e)
                       \/ \E nonblock \in BOOLEAN : Fcntl(fd, nonblock) \/ Ioctl(fd, nonblock)
                       \/ \E c \in Callers : Start(c, fd)
                       \/ \E k \in Closers : CloseStart(k, fd)
    \/ \E c \in Callers : CallStep(c) \/ Expire(c)
    \/ \E cb \in callbacks : Callback(cb) \/ CallbackCancel(cb)
    \/ \E k \in Closers : CloseStep(k)

Spec == Init /\ [][Next]_vars

\* A running task goes on; a scheduled fiber or callback is taken from the
\* queue; idle() looks at the timers at least every MAX_TIMEOUT.
FairSpec ==
    /\ Spec
    /\ \A c \in Callers : WF_vars(CallStep(c)) /\ WF_vars(Expire(c))
    /\ WF_vars(\E cb \in callbacks : Callback(cb) \/ CallbackCancel(cb))
    /\ \A k \in Closers : WF_vars(CloseStep(k))

-----------------------------------------------------------------------------
\* The types; a fiber has a call, with a descriptor and an event, unless idle.
TypeOK ==
    /\ single \in BOOLEAN /\ failed \in BOOLEAN
    /\ open \subseteq Fds /\ blocking \subseteq Fds /\ ready \in [Fds -> SUBSET Events]
    /\ managed \subseteq Fds /\ user \subseteq Fds /\ timeouts \in [Fds -> SUBSET Events]
    /\ context \in [Fds -> [Events -> Callers \cup {None}]]
    /\ polled \subseteq Fds
    /\ pc \in [Callers -> {"idle", "try", "blocked", "arm", "add", "hold", "ready", "check", "getsockopt"}]
    /\ call \in [Callers -> CallType \cup {None}]
    /\ \A c \in Callers : pc[c] = "idle" <=> call[c] = None
    /\ todo \in [Callers -> Seq(Op)] /\ changes \in Nat
    /\ armed \in [Callers -> BOOLEAN]
    /\ \A c \in Callers : armed[c] => pc[c] \in {"add", "hold", "ready"}
    /\ callbacks \subseteq [c : Callers, n : Nat, fd : Fds, e : Events, stage : {"queued", "cancel"}]
    /\ closing \in [Closers -> {"idle", "cancelAll", "del", "close"} \X (Fds \cup {None})]
    /\ \A k \in Closers : closing[k][1] # "idle" => closing[k][2] \in Fds

(***************************************************************************)
(* A fiber sleeps in a call exactly while IOManager knows it as the waiter  *)
(* of its descriptor and event: no cancel, event or close loses it, and     *)
(* none resumes a fiber that does not wait.                                 *)
(***************************************************************************)
HoldIffRegistered ==
    /\ \A c \in Callers : pc[c] = "hold" => context[call[c].fd][call[c].e] = c
    /\ \A fd \in Fds, e \in Events : context[fd][e] # None =>
         LET c == context[fd][e] IN pc[c] = "hold" /\ call[c].fd = fd /\ call[c].e = e

(***************************************************************************)
(* A call is cancelled, and so ends with ETIMEDOUT, only when a timer of    *)
(* that call expired: the late callback of an earlier call never times out  *)
(* a later one.                                                             *)
(***************************************************************************)
TimeoutsAreOwn ==
    \A c \in Callers : call[c] # None /\ call[c].cancelled => call[c].expired

(***************************************************************************)
(* A fiber that waits with a timeout has its timer running, or its callback *)
(* on the way.  With several threads there is one exception: the callback   *)
(* has come and gone, before addEvent() or while the descriptor was closed. *)
(***************************************************************************)
TimerGuardsWait ==
    \A c \in Callers : pc[c] = "hold" /\ call[c].timed =>
        \/ armed[c]
        \/ \E cb \in callbacks : cb.c = c /\ cb.n = Len(todo[c])
        \/ call[c].cancelled /\ ~single

(***************************************************************************)
(* With one thread every wait is registered with epoll, so that close() of  *)
(* a descriptor resumes all its waiters.                                    *)
(***************************************************************************)
NoOrphanWait ==
    single => \A fd \in Fds : Waited(fd) # {} => fd \in polled

(***************************************************************************)
(* The assertion of addEvent() fails only when a call that went on after    *)
(* its descriptor was closed meets the next owner of the number, as the one *)
(* that registers or the one that is registered.                            *)
(***************************************************************************)
FailsOnlyStale ==
    failed => \E c, d \in Callers :
        /\ c # d /\ pc[c] = "add" /\ pc[d] = "hold"
        /\ call[c].fd = call[d].fd /\ call[c].e = call[d].e
        /\ call[c].stale \/ call[d].stale

(***************************************************************************)
(* With one thread a wait with a timeout ends, unless a thread is held by a *)
(* blocking descriptor or the assertion has failed.                         *)
(***************************************************************************)
WaitEnds ==
    \A c \in Callers :
        (single /\ pc[c] = "hold" /\ call[c].timed) ~> (pc[c] # "hold" \/ blocking # {} \/ failed)
=============================================================================
