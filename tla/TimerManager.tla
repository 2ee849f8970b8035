---------------------------- MODULE TimerManager ----------------------------
(***************************************************************************)
(* Timers: src/saturn/timer.{h,cc}, with the part of IOManager::idle()     *)
(* that sleeps until the next one (src/saturn/iomanager.cc).               *)
(*                                                                         *)
(* User threads add, cancel, refresh and reset timers.  A scheduler thread *)
(* in idle() asks getNextTimer() how long to sleep, sleeps in epoll_wait() *)
(* and collects with listExpiredCb() the callbacks that are due, which it  *)
(* schedules.  A timer added in front of all others must wake a sleeper    *)
(* early: onTimerInsertedAtFront() is tickle(), a byte in a pipe that the  *)
(* sleepers watch.                                                         *)
(*                                                                         *)
(* One action per critical section of m_mutex; addTimer(), reset() and     *)
(* listExpiredCb() release it and go on, so they take several.             *)
(*                                                                         *)
(* A time is counted from the present, so that the clock can run for ever: *)
(* getCurrentTime() is 0, and a tick brings every time stored 1 nearer.    *)
(***************************************************************************)
EXTENDS Integers, FiniteSets

CONSTANTS
    Timers,         \* the Timer objects; the numbers order their addresses
    Users,          \* threads that call the timer operations
    Idlers,         \* scheduler threads that execute idle()
    Intervals,      \* the values of ms in use
    MAX_TIMEOUT,    \* the cap on the sleep in idle() (3000 ms)
    IntMax,         \* the largest int (2^31 - 1)
    MaxLate,        \* bound: a time further back than this is not told from it
    MaxInterrupts,  \* bound: epoll_wait() calls that a signal interrupts
    MaxFired        \* bound: the ghost fired counts up to here

ASSUME TimerAssumption ==
    /\ Timers \subseteq Nat /\ IsFiniteSet(Timers)
    /\ Idlers # {} /\ Intervals \subseteq Nat
    /\ MAX_TIMEOUT \in Nat /\ IntMax \in Nat /\ MaxLate \in Nat \ {0} /\ MaxInterrupts \in Nat
    /\ MaxFired \in Nat \ {0, 1}

VARIABLES
    m_timers,       \* the set of pending timers
    m_next, m_ms, m_recurring,
    m_cb,           \* whether the timer has a callback
    m_tickled,
    upc,            \* what a user thread has left to do
    ipc,            \* where an idler is in the loop of idle()
    timeout,        \* the next_timeout that the idler gives to epoll_wait()
    deadline,       \* when its epoll_wait() times out
    aim,            \* ghost: the time for which getNextTimer() let it sleep
    expired,        \* listExpiredCb(): the timers taken out of m_timers
    cur,            \* listExpiredCb(): the time it took
    piped,          \* whether the idler's epoll_wait() reported the tickle pipe
    cbs,            \* the timers whose callbacks are to be scheduled
    bytes, edge,    \* kernel: the tickle pipe has bytes; an epoll edge is due for it
    interrupts,
    unused,         \* Timer objects not constructed yet
    fired,          \* ghost: times each one-shot timer's callback was scheduled
    cancelled,      \* ghost: timers whose cancel() returned true
    pulled          \* ghost: timers that refresh() moved forward and no getNextTimer() saw since

timerVars == <<m_timers, m_next, m_ms, m_recurring, m_cb, unused>>
idleVars == <<ipc, timeout, deadline, aim, expired, cur, piped, cbs, interrupts>>
pipeVars == <<bytes, edge>>
ghostVars == <<fired, cancelled, pulled>>
vars == <<timerVars, m_tickled, upc, idleVars, pipeVars, ghostVars>>

Ready == [op |-> "ready"]

Init ==
    /\ m_timers = {}
    /\ m_next = [t \in Timers |-> 0]
    /\ m_ms = [t \in Timers |-> 0]
    /\ m_recurring = [t \in Timers |-> FALSE]
    /\ m_cb = [t \in Timers |-> FALSE]
    /\ m_tickled = FALSE
    /\ upc = [u \in Users |-> Ready]
    /\ ipc = [i \in Idlers |-> "out"]
    /\ timeout = [i \in Idlers |-> 0]
    /\ deadline = [i \in Idlers |-> 0]
    /\ aim = [i \in Idlers |-> 0]
    /\ expired = [i \in Idlers |-> {}]
    /\ cur = [i \in Idlers |-> 0]
    /\ piped = [i \in Idlers |-> FALSE]
    /\ cbs = [i \in Idlers |-> {}]
    /\ bytes = FALSE
    /\ edge = FALSE
    /\ interrupts = 0
    /\ unused = Timers
    /\ fired = [t \in Timers |-> 0]
    /\ cancelled = {}
    /\ pulled = {}

\* The present, in getCurrentTime<milliseconds>().
now == 0

\* A stored time seen one millisecond later.
Nearer(n) == IF n > -MaxLate THEN n - 1 ELSE n
\* An epoll_wait() that never times out.
Never == MAX_TIMEOUT + 1
NearerUnlessNever(n) == IF n = Never THEN n ELSE Nearer(n)

Tick ==
    /\ m_next' = [t \in Timers |-> Nearer(m_next[t])]
    /\ deadline' = [i \in Idlers |-> IF ipc[i] = "sleep" THEN NearerUnlessNever(deadline[i]) ELSE 0]
    /\ aim' = [i \in Idlers |-> IF ipc[i] = "sleep" THEN Nearer(aim[i]) ELSE 0]
    /\ cur' = [i \in Idlers |-> IF ipc[i] = "collect" THEN Nearer(cur[i]) ELSE 0]
    /\ UNCHANGED <<m_timers, m_ms, m_recurring, m_cb, unused, m_tickled, upc, ipc, timeout, expired,
                   piped, cbs, interrupts, pipeVars, ghostVars>>

-----------------------------------------------------------------------------
(* The timer operations, by user thread u.                                 *)

\* Timer::Comparator: where timer t is in the order of m_timers.
Before(s, t) == m_next[s] < m_next[t] \/ (m_next[s] = m_next[t] /\ s < t)
IsFront(t) == \A s \in m_timers \ {t} : Before(t, s)

\* Mutant: a timer is announced only if nobody waits for any other.
FrontIfAlone(t) == m_timers = {}
AtFront(t) == IsFront(t)

\* Somebody has the Timer: the addTimer() that creates it inserted it.
Held(t) == t \notin unused /\ \A v \in Users : upc[v].op = "add" => upc[v].timer # t

\* addTimer(), and addConditionTimer() with a condition that holds: the Timer is
\* constructed, and reads the clock, before the lock is taken.
AddTimer(u, t, ms, recurring) ==
    /\ upc[u] = Ready
    /\ t \in unused
    /\ unused' = unused \ {t}
    /\ m_ms' = [m_ms EXCEPT ![t] = ms]
    /\ m_next' = [m_next EXCEPT ![t] = now + ms]
    /\ m_recurring' = [m_recurring EXCEPT ![t] = recurring]
    /\ m_cb' = [m_cb EXCEPT ![t] = TRUE]
    /\ upc' = [upc EXCEPT ![u] = [op |-> "add", timer |-> t]]
    /\ UNCHANGED <<m_timers, m_tickled, idleVars, pipeVars, ghostVars>>

\* The private addTimer(Timer::ptr), called by addTimer() and at the end of reset(),
\* whatever has become of the timer since.
AddTimerVal(u) ==
    /\ upc[u].op \in {"add", "insert"}
    /\ LET t == upc[u].timer
            is_front == AtFront(t) /\ ~m_tickled
       IN  /\ m_timers' = m_timers \cup {t}
           /\ m_tickled' = (m_tickled \/ is_front)
           /\ upc' = [upc EXCEPT ![u] = IF is_front THEN [op |-> "tickle"] ELSE Ready]
    /\ UNCHANGED <<m_next, m_ms, m_recurring, m_cb, unused, idleVars, pipeVars, ghostVars>>

\* IOManager::tickle(): nothing if no thread is idle.
Tickle(u) ==
    /\ upc[u].op = "tickle"
    /\ IF \E i \in Idlers : ipc[i] # "out"
         THEN bytes' = TRUE /\ edge' = TRUE
         ELSE UNCHANGED pipeVars
    /\ upc' = [upc EXCEPT ![u] = Ready]
    /\ UNCHANGED <<timerVars, m_tickled, idleVars, ghostVars>>

\* Mutant: the timer stays in the set.
SetStillWith(t) == m_timers
SetWithout(t) == m_timers \ {t}

\* cancel(): true only for a timer it finds in the set.
Cancel(u, t) ==
    /\ upc[u] = Ready
    /\ Held(t) /\ m_cb[t]
    /\ m_cb' = [m_cb EXCEPT ![t] = FALSE]
    /\ m_timers' = SetWithout(t)
    /\ cancelled' = IF t \in m_timers THEN cancelled \cup {t} ELSE cancelled
    /\ UNCHANGED <<m_next, m_ms, m_recurring, unused, m_tickled, upc, idleVars, pipeVars, fired,
                   pulled>>

\* refresh(): no tickle.  The timer moves back, unless a reset() from now with a
\* shorter interval came before: that one counted with the old interval.
Refresh(u, t) ==
    /\ upc[u] = Ready
    /\ Held(t) /\ m_cb[t]
    /\ t \in m_timers
    /\ m_next' = [m_next EXCEPT ![t] = now + m_ms[t]]
    /\ pulled' = IF m_next'[t] < m_next[t] THEN pulled \cup {t} ELSE pulled
    /\ UNCHANGED <<m_timers, m_ms, m_recurring, m_cb, unused, m_tickled, upc, idleVars,
                   pipeVars, fired, cancelled>>

\* reset() up to its unlock: the timer is out of the set.  From now on it counts
\* with the old interval.
Reset(u, t, ms, from_now) ==
    /\ upc[u] = Ready
    /\ Held(t) /\ m_cb[t]
    /\ t \in m_timers
    /\ m_timers' = SetWithout(t)
    /\ m_next' = [m_next EXCEPT ![t] = IF from_now THEN now + m_ms[t] ELSE @ - m_ms[t] + ms]
    /\ m_ms' = [m_ms EXCEPT ![t] = ms]
    /\ upc' = [upc EXCEPT ![u] = [op |-> "insert", timer |-> t]]
    /\ UNCHANGED <<m_recurring, m_cb, unused, m_tickled, idleVars, pipeVars, ghostVars>>

-----------------------------------------------------------------------------
(* The loop of idle(), by idler i.                                         *)

\* Scheduler::run() finds no task and switches into the idle fiber.
EnterIdle(i) ==
    /\ ipc[i] = "out"
    /\ ipc' = [ipc EXCEPT ![i] = "next"]
    /\ UNCHANGED <<timerVars, m_tickled, upc, timeout, deadline, aim, expired, cur, piped, cbs,
                   interrupts, pipeVars, ghostVars>>

\* What a conversion of a 64-bit count to int gives.
ToInt(n) == ((n + IntMax + 1) % (2 * (IntMax + 1))) - (IntMax + 1)
Capped(n) == IF ToInt(n) > MAX_TIMEOUT THEN MAX_TIMEOUT ELSE n
\* Mutant: the longest sleep is endless.
LongestIsNever(n) == IF n = MAX_TIMEOUT THEN Never ELSE now + ToInt(n)
\* When an epoll_wait() called now with this timeout returns; never, if it is negative.
WakeAt(n) == IF ToInt(n) < 0 THEN Never ELSE now + ToInt(n)

\* Mutant: the sleeper assumes that its tickle is still to come.
KeepTickled == UNCHANGED m_tickled
ClearTickled == m_tickled' = FALSE

\* getNextTimer(): until the earliest timer, 0 if it is due, MAX_TIMEOUT without one.
GetNextTimer(i) ==
    /\ ipc[i] = "next"
    /\ ClearTickled
    /\ LET wait == IF m_timers = {} THEN MAX_TIMEOUT
                   ELSE LET front == CHOOSE t \in m_timers : IsFront(t)
                        IN  IF now < m_next[front] THEN Capped(m_next[front] - now) ELSE 0
       IN  /\ timeout' = [timeout EXCEPT ![i] = wait]
           /\ deadline' = [deadline EXCEPT ![i] = WakeAt(wait)]
           /\ aim' = [aim EXCEPT ![i] = now + wait]
    /\ ipc' = [ipc EXCEPT ![i] = "sleep"]
    /\ pulled' = {}
    /\ UNCHANGED <<timerVars, upc, expired, cur, piped, cbs, interrupts, pipeVars, fired,
                   cancelled>>

\* A signal interrupts epoll_wait(): it is called again with the whole timeout.
Interrupt(i) ==
    /\ ipc[i] = "sleep"
    /\ interrupts < MaxInterrupts
    /\ interrupts' = interrupts + 1
    /\ deadline' = [deadline EXCEPT ![i] = WakeAt(timeout[i])]
    /\ UNCHANGED <<timerVars, m_tickled, upc, ipc, timeout, aim, expired, cur, piped, cbs,
                   pipeVars, ghostVars>>

\* epoll_wait() has returned.
Awake(i) ==
    /\ ipc' = [ipc EXCEPT ![i] = "list"]
    /\ timeout' = [timeout EXCEPT ![i] = 0]
    /\ deadline' = [deadline EXCEPT ![i] = 0]
    /\ aim' = [aim EXCEPT ![i] = 0]

\* epoll_wait() times out.
TimeOut(i) ==
    /\ ipc[i] = "sleep"
    /\ deadline[i] # Never /\ deadline[i] <= now
    /\ Awake(i)
    /\ UNCHANGED <<timerVars, m_tickled, upc, expired, cur, piped, cbs, interrupts, pipeVars,
                   ghostVars>>

\* epoll_wait() reports the tickle pipe, which is edge-triggered: to one sleeper.
Tickled(i) ==
    /\ ipc[i] = "sleep"
    /\ edge /\ bytes
    /\ edge' = FALSE
    /\ piped' = [piped EXCEPT ![i] = TRUE]
    /\ Awake(i)
    /\ UNCHANGED <<timerVars, m_tickled, upc, expired, cur, cbs, interrupts, bytes, ghostVars>>

\* Mutant: timers are taken one millisecond early.
DueSoon(t, probe) == m_next[t] <= now + 1
\* listExpiredCb() up to its unlock.  Among timers due this very millisecond, the
\* addresses decide which lie before the probe that upper_bound() looks for.
Due(t, probe) == m_next[t] < now \/ (m_next[t] = now /\ t <= probe)

ListExpired(i) ==
    /\ ipc[i] = "list"
    /\ \E probe \in Timers \cup {-1} :
         expired' = [expired EXCEPT ![i] = {t \in m_timers : Due(t, probe)}]
    /\ m_timers' = m_timers \ expired'[i]
    /\ cur' = [cur EXCEPT ![i] = now]
    /\ ipc' = [ipc EXCEPT ![i] = "collect"]
    /\ UNCHANGED <<m_next, m_ms, m_recurring, m_cb, unused, m_tickled, upc, timeout,
                   deadline, aim, piped, cbs, interrupts, pipeVars, ghostVars>>

\* Mutant: every expired timer is inserted again.
ReinsertAll(i) == expired[i]
Reinserted(i) == {t \in expired[i] : m_recurring[t]}

\* listExpiredCb() from its second lock: collect the callbacks, and insert the
\* recurring timers again.
CollectExpired(i) ==
    /\ ipc[i] = "collect"
    /\ cbs' = [cbs EXCEPT ![i] = {t \in expired[i] : m_cb[t]}]
    /\ m_next' = [t \in Timers |-> IF t \in Reinserted(i) THEN cur[i] + m_ms[t] ELSE m_next[t]]
    /\ m_timers' = m_timers \cup Reinserted(i)
    /\ expired' = [expired EXCEPT ![i] = {}]
    /\ cur' = [cur EXCEPT ![i] = 0]
    /\ ipc' = [ipc EXCEPT ![i] = "deliver"]
    /\ UNCHANGED <<m_ms, m_recurring, m_cb, unused, m_tickled, upc, timeout, deadline, aim,
                   piped, interrupts, pipeVars, ghostVars>>

\* schedule(cbs), the loop over the events, which drains the pipe if it is among
\* them, and swapOut().
Deliver(i) ==
    /\ ipc[i] = "deliver"
    /\ fired' = [t \in Timers |-> IF t \in cbs[i] /\ ~m_recurring[t] /\ fired[t] < MaxFired
                             THEN fired[t] + 1 ELSE fired[t]]
    /\ cbs' = [cbs EXCEPT ![i] = {}]
    /\ bytes' = (bytes /\ ~piped[i])
    /\ piped' = [piped EXCEPT ![i] = FALSE]
    /\ ipc' = [ipc EXCEPT ![i] = "out"]
    /\ UNCHANGED <<timerVars, m_tickled, upc, timeout, deadline, aim, expired, cur,
                   interrupts, edge, cancelled, pulled>>

-----------------------------------------------------------------------------
IdleStep(i) ==
    \/ EnterIdle(i) \/ GetNextTimer(i)
    \/ TimeOut(i) \/ Tickled(i)
    \/ ListExpired(i) \/ CollectExpired(i) \/ Deliver(i)

UserRest(u) == Tickle(u) \/ AddTimerVal(u)

UserStep(u) ==
    \E t \in Timers :
        \/ \E ms \in Intervals, recurring \in BOOLEAN : AddTimer(u, t, ms, recurring)
        \/ Cancel(u, t)
        \/ Refresh(u, t)
        \/ \E ms \in Intervals, from_now \in BOOLEAN : Reset(u, t, ms, from_now)

Next ==
    \/ Tick
    \/ \E u \in Users : UserStep(u) \/ UserRest(u)
    \/ \E i \in Idlers : IdleStep(i) \/ Interrupt(i)

Spec == Init /\ [][Next]_vars

\* Time passes, a user thread finishes the operation it is in, and idlers run:
\* Scheduler::run() returns to idle() whenever it has no task.
FairSpec ==
    /\ Spec
    /\ WF_vars(Tick)
    /\ \A u \in Users : WF_vars(UserRest(u))
    /\ \A i \in Idlers : WF_vars(IdleStep(i))

-----------------------------------------------------------------------------
(* Properties.                                                             *)

TypeOK ==
    /\ m_timers \subseteq Timers \ unused
    /\ m_next \in [Timers -> Int]
    /\ m_ms \in [Timers -> Intervals \cup {0}]
    /\ m_recurring \in [Timers -> BOOLEAN]
    /\ m_cb \in [Timers -> BOOLEAN]
    /\ m_tickled \in BOOLEAN
    /\ upc \in [Users -> {Ready, [op |-> "tickle"]} \cup [op : {"add", "insert"}, timer : Timers]]
    /\ ipc \in [Idlers -> {"out", "next", "sleep", "list", "collect", "deliver"}]
    /\ timeout \in [Idlers -> Nat]
    /\ deadline \in [Idlers -> -MaxLate..Never]
    /\ aim \in [Idlers -> Int]
    /\ expired \in [Idlers -> SUBSET Timers]
    /\ cur \in [Idlers -> -MaxLate..0]
    /\ piped \in [Idlers -> BOOLEAN]
    /\ cbs \in [Idlers -> SUBSET Timers]
    /\ bytes \in BOOLEAN /\ edge \in BOOLEAN
    /\ interrupts \in 0..MaxInterrupts
    /\ unused \subseteq Timers
    /\ fired \in [Timers -> 0..MaxFired]
    /\ cancelled \subseteq Timers /\ pulled \subseteq Timers

\* A one-shot timer has at most one outcome, whatever cancel(), refresh(), reset()
\* and expiry do at the same time: either its callback is scheduled, once, or a
\* cancel() returned true and it is never scheduled.
OneOutcome ==
    \A t \in Timers : ~m_recurring[t] =>
        fired[t] + (IF t \in cancelled THEN 1 ELSE 0) <= 1

\* A timer is in one place only: pending, taken out by one idler, or taken out by
\* one reset().
Places(t) == (IF t \in m_timers THEN {"set"} ELSE {})
             \cup {i \in Idlers : t \in expired[i]}
             \cup {u \in Users : upc[u].op \in {"add", "insert"} /\ upc[u].timer = t}
OnePlace == \A t \in Timers : Cardinality(Places(t)) <= 1

\* No timer is slept through: when every idler sleeps, one of them sleeps no
\* longer than until the earliest timer, or a tickle is in the pipe, or the thread
\* that put a timer in front is about to tickle.  (An epoll_wait() interrupted by a
\* signal sleeps longer than getNextTimer() said; aim is what it said.  And
\* refresh() never tickles: when it pulls a timer forward, which it can after a
\* reset() from now, the sleepers miss that timer and those behind it.)
EarliestCovered ==
    (m_timers # {} /\ pulled = {} /\ \A i \in Idlers : ipc[i] = "sleep") =>
        \/ \E i \in Idlers : \A t \in m_timers : aim[i] <= m_next[t] \/ aim[i] <= now
        \/ bytes /\ edge
        \/ \E u \in Users : upc[u].op = "tickle"

\* A timer that is due is taken out of the set: it fires, or somebody changes it.
DueExpires ==
    \A t \in Timers :
        (t \in m_timers /\ m_next[t] <= now) ~> (t \notin m_timers \/ m_next[t] > now)

\* A refresh() or reset() that succeeded holds: no one-shot timer fires before the
\* time it was last set to.
NeverEarly ==
    [][\A t \in Timers : fired'[t] > fired[t] => m_next[t] <= now]_vars
=============================================================================
