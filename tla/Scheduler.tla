------------------------------ MODULE Scheduler ------------------------------
(***************************************************************************)
(* The N:M fiber scheduler: src/saturn/scheduler.{h,cc} with the fibers of *)
(* src/saturn/fiber.{h,cc} it switches between.                            *)
(*                                                                         *)
(* Every scheduler thread executes run(): take a task from the shared      *)
(* queue m_fibers, switch into its fiber, and when the fiber switches back *)
(* decide from its m_state what to do with it.  A thread that finds no     *)
(* task switches into its idle fiber, which ends once stopping() is true.  *)
(* The main thread schedules, starts and stops; with use_caller its own    *)
(* thread also executes run(), as the root fiber, inside stop().           *)
(*                                                                         *)
(* The grain of atomicity: one action per critical section of m_mutex and  *)
(* per write of a shared atomic or of a fiber's m_state.                   *)
(***************************************************************************)
EXTENDS Integers, Sequences, FiniteSets

CONSTANTS
    Workers,      \* the threads that start() creates (m_threadCount of them)
    Root,         \* the thread that constructed the scheduler (m_rootThread)
    UseCaller,    \* constructor argument use_caller
    Callbacks,    \* the callbacks given to schedule(), each at most once
    Pins,         \* thread arguments of schedule() and switchTo(); None is -1
    BodyOps,      \* what callbacks do: "ready", "hold", "switchTo", "throw", "spawn"
    MaxSuspends,  \* bound: suspensions of one callback
    FreshStates,  \* what m_state, which Fiber(cb) leaves unset, may hold
    None

\* Every Fiber object is named after the callback it is constructed for; run()
\* may reset() it later to execute another one.
Fibers == Callbacks
Threads == Workers \cup (IF UseCaller THEN {Root} ELSE {})
States == {"INIT", "HOLD", "EXEC", "TERM", "READY", "EXCEPT", "UNINIT"}

ASSUME ThreadsAssumption ==
    /\ IsFiniteSet(Workers)
    /\ Root \notin Workers
    /\ UseCaller \in BOOLEAN
    /\ None \notin Threads \cup Callbacks
    /\ Pins \subseteq Threads \cup {None}
ASSUME BodyAssumption ==
    /\ MaxSuspends \in Nat
    /\ FreshStates \subseteq States \ {"EXEC", "TERM", "EXCEPT"}

VARIABLES
    m_fibers,            \* the shared task queue
    m_activeThreadCount,
    m_idleThreadCount,
    m_stopping,
    m_autoStop,
    m_state,             \* m_state of each Fiber object
    m_cb,                \* m_cb of each Fiber object, None when empty
    rootState,           \* m_state of m_rootFiber
    pc,                  \* where each thread is in run()
    ft,                  \* run()'s local FiberAndThread
    cb_fiber,            \* run()'s local Fiber::ptr cb_fiber
    idleTerm,            \* whether the thread's idle fiber has ended
    wakers,              \* references to a fiber that a timer or an fd event holds
    mainPc,              \* where the main thread is
    aborted,             \* a SATURN_ASSERT has failed
    unscheduled,         \* callbacks not yet given to schedule()
    ended,               \* callbacks that returned or threw
    suspends             \* suspensions of each callback so far

schedVars == <<m_fibers, m_activeThreadCount, m_idleThreadCount>>
stopVars == <<m_stopping, m_autoStop, rootState, mainPc>>
fiberVars == <<m_state, m_cb>>
threadVars == <<pc, ft, cb_fiber, idleTerm>>
envVars == <<wakers, unscheduled, ended, suspends>>
vars == <<schedVars, stopVars, fiberVars, threadVars, envVars, aborted>>

-----------------------------------------------------------------------------
\* FiberAndThread: a task is a fiber to resume or a callback to start.
Task == [fiber : Fibers \cup {None}, cb : Callbacks \cup {None},
         thread : Threads \cup {None}]
NoTask == [fiber |-> None, cb |-> None, thread |-> None]
FiberTask(f, thread) == [fiber |-> f, cb |-> None, thread |-> thread]
CbTask(c, thread) == [fiber |-> None, cb |-> c, thread |-> thread]

\* schedule(): append under m_mutex.  Scheduler::tickle() only logs.
Schedule(task) == m_fibers' = Append(m_fibers, task)

\* The fiber thread t is switched into, or has just switched out of.
Running(t) == IF ft[t].fiber # None THEN ft[t].fiber ELSE cb_fiber[t]

\* Mutant: the queue is not looked at.
StoppingIgnoresQueue == m_autoStop /\ m_stopping /\ m_activeThreadCount = 0
\* stopping(): evaluated under m_mutex.
Stopping == m_autoStop /\ m_stopping /\ m_fibers = <<>> /\ m_activeThreadCount = 0

\* The states that Fiber::reset() and ~Fiber() accept.
Reusable == {"TERM", "EXCEPT", "INIT"}

\* Where a thread is while m_activeThreadCount counts it.
ActivePcs == {"dispatch", "swapIn", "body", "parked", "yield"}
\* Where a thread is while m_idleThreadCount counts it.
IdlePcs == {"idle", "idleOut"}
Pcs == ActivePcs \cup IdlePcs \cup {"off", "take", "noTask", "settle", "setHold", "exited"}

Init ==
    /\ m_fibers = <<>>
    /\ m_activeThreadCount = 0
    /\ m_idleThreadCount = 0
    /\ m_stopping = TRUE
    /\ m_autoStop = FALSE
    /\ m_state = [f \in Fibers |-> "UNINIT"]
    /\ m_cb = [f \in Fibers |-> None]
    /\ rootState \in FreshStates
    /\ pc = [t \in Threads |-> "off"]
    /\ ft = [t \in Threads |-> NoTask]
    /\ cb_fiber = [t \in Threads |-> None]
    /\ idleTerm = [t \in Threads |-> FALSE]
    /\ wakers = [f \in Fibers |-> 0]
    /\ mainPc = "new"
    /\ aborted = FALSE
    /\ unscheduled = Callbacks
    /\ ended = {}
    /\ suspends = [c \in Callbacks |-> 0]

-----------------------------------------------------------------------------
(* The main thread: schedule(), start(), stop().                           *)

MainSchedule(c, thread) ==
    /\ mainPc \in {"new", "running"}
    /\ c \in unscheduled
    /\ Schedule(CbTask(c, thread))
    /\ unscheduled' = unscheduled \ {c}
    /\ UNCHANGED <<m_activeThreadCount, m_idleThreadCount, stopVars, fiberVars,
                   threadVars, wakers, ended, suspends, aborted>>

Start ==
    /\ mainPc = "new"
    /\ mainPc' = "running"
    /\ m_stopping' = FALSE
    /\ pc' = [t \in Threads |-> IF t \in Workers THEN "take" ELSE "off"]
    /\ UNCHANGED <<schedVars, m_autoStop, rootState, fiberVars, ft, cb_fiber,
                   idleTerm, envVars, aborted>>

\* stop() up to the shortcut of a scheduler without threads of its own whose
\* root fiber is not running.
StopBegin ==
    /\ mainPc = "running"
    /\ m_autoStop' = TRUE
    /\ IF UseCaller /\ Workers = {} /\ rootState \in {"TERM", "INIT"}
         THEN /\ m_stopping' = TRUE
              /\ mainPc' = IF m_fibers = <<>> /\ m_activeThreadCount = 0
                             THEN "stopped" ELSE "stopMark"
         ELSE /\ mainPc' = "stopMark"
              /\ UNCHANGED m_stopping
    /\ UNCHANGED <<schedVars, rootState, fiberVars, threadVars, envVars, aborted>>

\* Mutant: stop() only sets m_autoStop.
StoppingNotMarked == UNCHANGED m_stopping
MarkStopping == m_stopping' = TRUE

StopMark ==
    /\ mainPc = "stopMark"
    /\ MarkStopping
    /\ mainPc' = "stopCall"
    /\ UNCHANGED <<schedVars, m_autoStop, rootState, fiberVars, threadVars, envVars, aborted>>

\* if(!stopping()) m_rootFiber->call()
StopCall ==
    /\ mainPc = "stopCall"
    /\ IF UseCaller /\ ~Stopping
         THEN /\ rootState' = "EXEC"
              /\ pc' = [pc EXCEPT ![Root] = "take"]
              /\ mainPc' = "inRoot"
         ELSE /\ mainPc' = "join"
              /\ UNCHANGED <<rootState, pc>>
    /\ UNCHANGED <<schedVars, m_stopping, m_autoStop, fiberVars, ft, cb_fiber,
                   idleTerm, envVars, aborted>>

\* run() returned in the root fiber: CallerMainFunc() ends it and goes back().
RootReturn ==
    /\ mainPc = "inRoot"
    /\ pc[Root] = "exited"
    /\ rootState' = "TERM"
    /\ mainPc' = "join"
    /\ UNCHANGED <<schedVars, m_stopping, m_autoStop, fiberVars, threadVars, envVars, aborted>>

\* Mutant: stop() does not join the threads.
JoinNobody == TRUE
WorkersExited == \A t \in Workers : pc[t] = "exited"

Join ==
    /\ mainPc = "join"
    /\ WorkersExited
    /\ mainPc' = "stopped"
    /\ UNCHANGED <<schedVars, m_stopping, m_autoStop, rootState, fiberVars,
                   threadVars, envVars, aborted>>

-----------------------------------------------------------------------------
(* run(): the loop of a scheduler thread.                                  *)

\* Positions of the queue whose task thread t may take.
Takeable(t) ==
    {i \in 1..Len(m_fibers) :
        /\ m_fibers[i].thread \in {None, t}
        /\ m_fibers[i].fiber # None => m_state[m_fibers[i].fiber] # "EXEC"}

\* Mutant: the task is copied out of the queue and not erased.
QueueNotErased(i) == m_fibers
\* m_fibers.erase(it)
QueueWithout(i) ==
    [j \in 1..(Len(m_fibers) - 1) |-> IF j < i THEN m_fibers[j] ELSE m_fibers[j + 1]]

\* The critical section of the loop, when it finds a task: the first it may take.
Take(t) ==
    /\ pc[t] = "take"
    /\ \E i \in Takeable(t) :
         /\ \A j \in Takeable(t) : i <= j
         /\ ft' = [ft EXCEPT ![t] = m_fibers[i]]
         /\ m_fibers' = QueueWithout(i)
    /\ m_activeThreadCount' = m_activeThreadCount + 1
    /\ pc' = [pc EXCEPT ![t] = "dispatch"]
    /\ UNCHANGED <<m_idleThreadCount, stopVars, fiberVars, cb_fiber, idleTerm, envVars, aborted>>

\* The critical section of the loop, when there is nothing for t.
TakeNothing(t) ==
    /\ pc[t] = "take"
    /\ Takeable(t) = {}
    /\ pc' = [pc EXCEPT ![t] = "noTask"]
    /\ UNCHANGED <<schedVars, stopVars, fiberVars, ft, cb_fiber, idleTerm, envVars, aborted>>

\* Mutant: the decrement after a task is missing.
StillActive == UNCHANGED m_activeThreadCount
Deactivate == m_activeThreadCount' = m_activeThreadCount - 1

\* The fiber of the task has ended meanwhile: drop the task.
DropTask(t) ==
    /\ pc[t] = "dispatch"
    /\ ft[t].fiber # None
    /\ m_state[ft[t].fiber] \in {"TERM", "EXCEPT"}
    /\ Deactivate
    /\ ft' = [ft EXCEPT ![t] = NoTask]
    /\ pc' = [pc EXCEPT ![t] = "take"]
    /\ UNCHANGED <<m_fibers, m_idleThreadCount, stopVars, fiberVars, cb_fiber,
                   idleTerm, envVars, aborted>>

DispatchFiber(t) ==
    /\ pc[t] = "dispatch"
    /\ ft[t].fiber # None
    /\ m_state[ft[t].fiber] \notin {"TERM", "EXCEPT"}
    /\ pc' = [pc EXCEPT ![t] = "swapIn"]
    /\ UNCHANGED <<schedVars, stopVars, fiberVars, ft, cb_fiber, idleTerm, envVars, aborted>>

\* A callback runs in the thread's cb_fiber, reset() when there is one and a
\* new Fiber otherwise.
DispatchCb(t) ==
    /\ pc[t] = "dispatch"
    /\ ft[t].fiber = None
    /\ LET c == ft[t].cb
           f == IF cb_fiber[t] # None THEN cb_fiber[t] ELSE c
       IN  /\ cb_fiber' = [cb_fiber EXCEPT ![t] = f]
           /\ m_cb' = [m_cb EXCEPT ![f] = c]
           /\ IF cb_fiber[t] # None
                THEN /\ m_state' = [m_state EXCEPT ![f] = "INIT"]
                     /\ aborted' = (m_state[f] \notin Reusable)
                ELSE /\ \E s \in FreshStates : m_state' = [m_state EXCEPT ![f] = s]
                     /\ UNCHANGED aborted
    /\ ft' = [ft EXCEPT ![t] = NoTask]
    /\ pc' = [pc EXCEPT ![t] = "swapIn"]
    /\ UNCHANGED <<schedVars, stopVars, idleTerm, envVars>>

\* Fiber::swapIn() with its assertion.
SwapIn(t) ==
    /\ pc[t] = "swapIn"
    /\ aborted' = (m_state[Running(t)] = "EXEC")
    /\ m_state' = [m_state EXCEPT ![Running(t)] = "EXEC"]
    /\ pc' = [pc EXCEPT ![t] = "body"]
    /\ UNCHANGED <<schedVars, stopVars, m_cb, ft, cb_fiber, idleTerm, envVars>>

\* Fiber::swapOut(): from here on the fiber's context is saved; back in run().
SwapOut(t) ==
    /\ pc[t] = "yield"
    /\ Deactivate
    /\ pc' = [pc EXCEPT ![t] = "settle"]
    /\ UNCHANGED <<m_fibers, m_idleThreadCount, stopVars, fiberVars, ft, cb_fiber,
                   idleTerm, envVars, aborted>>

\* Mutant: cb_fiber.reset() is missing, so the next callback reuses the fiber.
KeepCbFiber(t) == UNCHANGED cb_fiber /\ ft' = [ft EXCEPT ![t] = NoTask]
\* run() lets go of the fiber it switched out of.
Release(t) ==
    IF ft[t].fiber # None
      THEN ft' = [ft EXCEPT ![t] = NoTask] /\ UNCHANGED cb_fiber
      ELSE cb_fiber' = [cb_fiber EXCEPT ![t] = None] /\ UNCHANGED ft

\* Mutant: a fiber that yielded to READY is not scheduled again.
ForgetReady(t) == UNCHANGED m_fibers
Requeue(t) == Schedule(FiberTask(Running(t), None))

\* The fiber yielded to READY: back into the queue, for any thread.
SettleReady(t) ==
    /\ pc[t] = "settle"
    /\ m_state[Running(t)] = "READY"
    /\ Requeue(t)
    /\ Release(t)
    /\ pc' = [pc EXCEPT ![t] = "take"]
    /\ UNCHANGED <<m_activeThreadCount, m_idleThreadCount, stopVars, fiberVars,
                   idleTerm, envVars, aborted>>

\* The fiber ended: a callback's fiber is reset(nullptr) and kept for the next.
SettleEnded(t) ==
    /\ pc[t] = "settle"
    /\ m_state[Running(t)] \in {"TERM", "EXCEPT"}
    /\ IF ft[t].fiber # None
         THEN UNCHANGED fiberVars
         ELSE /\ m_state' = [m_state EXCEPT ![cb_fiber[t]] = "INIT"]
              /\ m_cb' = [m_cb EXCEPT ![cb_fiber[t]] = None]
    /\ ft' = [ft EXCEPT ![t] = NoTask]
    /\ pc' = [pc EXCEPT ![t] = "take"]
    /\ UNCHANGED <<schedVars, stopVars, cb_fiber, idleTerm, envVars, aborted>>

\* Any other state was read: run() is about to overwrite it with HOLD.
SettleOther(t) ==
    /\ pc[t] = "settle"
    /\ m_state[Running(t)] \notin {"READY", "TERM", "EXCEPT"}
    /\ pc' = [pc EXCEPT ![t] = "setHold"]
    /\ UNCHANGED <<schedVars, stopVars, fiberVars, ft, cb_fiber, idleTerm, envVars, aborted>>

SetHold(t) ==
    /\ pc[t] = "setHold"
    /\ m_state' = [m_state EXCEPT ![Running(t)] = "HOLD"]
    /\ Release(t)
    /\ pc' = [pc EXCEPT ![t] = "take"]
    /\ UNCHANGED <<schedVars, stopVars, m_cb, idleTerm, envVars, aborted>>

\* A thread counts as idle from before it switches into its idle fiber.
CountIdle == m_idleThreadCount' = m_idleThreadCount + 1

\* No task: leave the loop if the idle fiber has ended, else switch into it.
EnterIdle(t) ==
    /\ pc[t] = "noTask"
    /\ IF idleTerm[t]
         THEN /\ pc' = [pc EXCEPT ![t] = "exited"]
              /\ UNCHANGED m_idleThreadCount
         ELSE /\ pc' = [pc EXCEPT ![t] = "idle"]
              /\ CountIdle
    /\ UNCHANGED <<m_fibers, m_activeThreadCount, stopVars, fiberVars, ft, cb_fiber,
                   idleTerm, envVars, aborted>>

\* idle(): the fiber ends when stopping(), and yields otherwise.
IdleCheck(t) ==
    /\ pc[t] = "idle"
    /\ idleTerm' = [idleTerm EXCEPT ![t] = Stopping]
    /\ pc' = [pc EXCEPT ![t] = "idleOut"]
    /\ UNCHANGED <<schedVars, stopVars, fiberVars, ft, cb_fiber, envVars, aborted>>

\* IOManager::idle() schedules the fibers whose timer or event came due, in the
\* iteration that found stopping() false.
Wake(t, f) ==
    /\ pc[t] = "idleOut"
    /\ ~idleTerm[t]
    /\ wakers[f] > 0
    /\ wakers' = [wakers EXCEPT ![f] = @ - 1]
    /\ Schedule(FiberTask(f, None))
    /\ UNCHANGED <<m_activeThreadCount, m_idleThreadCount, stopVars, fiberVars,
                   threadVars, unscheduled, ended, suspends, aborted>>

LeaveIdle(t) ==
    /\ pc[t] = "idleOut"
    /\ m_idleThreadCount' = m_idleThreadCount - 1
    /\ pc' = [pc EXCEPT ![t] = "take"]
    /\ UNCHANGED <<m_fibers, m_activeThreadCount, stopVars, fiberVars, ft, cb_fiber,
                   idleTerm, envVars, aborted>>

-----------------------------------------------------------------------------
(* What the callback of the running fiber does.                            *)

\* A fiber that two threads were switched into (see ExecutingIsExec) loses its
\* callback when one of them ends it; what the other does then is undefined and
\* not followed.
Executing(t) == pc[t] = "body" /\ m_cb[Running(t)] # None
InBody(t, op) == Executing(t) /\ op \in BodyOps
CanSuspend(t) == suspends[m_cb[Running(t)]] < MaxSuspends
CountSuspend(t) == suspends' = [suspends EXCEPT ![m_cb[Running(t)]] = @ + 1]

\* schedule() called from a callback.
Spawn(t, c, thread) ==
    /\ InBody(t, "spawn")
    /\ c \in unscheduled
    /\ Schedule(CbTask(c, thread))
    /\ unscheduled' = unscheduled \ {c}
    /\ UNCHANGED <<m_activeThreadCount, m_idleThreadCount, stopVars, fiberVars,
                   threadVars, wakers, ended, suspends, aborted>>

\* Fiber::YieldToReady()
YieldToReady(t) ==
    /\ InBody(t, "ready")
    /\ CanSuspend(t)
    /\ CountSuspend(t)
    /\ m_state' = [m_state EXCEPT ![Running(t)] = "READY"]
    /\ pc' = [pc EXCEPT ![t] = "yield"]
    /\ UNCHANGED <<schedVars, stopVars, m_cb, ft, cb_fiber, idleTerm, wakers,
                   unscheduled, ended, aborted>>

\* Hand the fiber to a timer or an fd event (the hooks of sleep(), read(), ...).
Park(t) ==
    /\ InBody(t, "hold")
    /\ CanSuspend(t)
    /\ CountSuspend(t)
    /\ wakers' = [wakers EXCEPT ![Running(t)] = @ + 1]
    /\ pc' = [pc EXCEPT ![t] = "parked"]
    /\ UNCHANGED <<schedVars, stopVars, fiberVars, ft, cb_fiber, idleTerm,
                   unscheduled, ended, aborted>>

\* switchTo(): the fiber queues itself for another thread.
SwitchTo(t, thread) ==
    /\ InBody(t, "switchTo")
    /\ thread \notin {None, t}
    /\ CanSuspend(t)
    /\ CountSuspend(t)
    /\ Schedule(FiberTask(Running(t), thread))
    /\ pc' = [pc EXCEPT ![t] = "parked"]
    /\ UNCHANGED <<m_activeThreadCount, m_idleThreadCount, stopVars, fiberVars, ft,
                   cb_fiber, idleTerm, wakers, unscheduled, ended, aborted>>

\* Fiber::YieldToHold(), up to its swapOut().
YieldToHold(t) ==
    /\ pc[t] = "parked"
    /\ m_state' = [m_state EXCEPT ![Running(t)] = "HOLD"]
    /\ pc' = [pc EXCEPT ![t] = "yield"]
    /\ UNCHANGED <<schedVars, stopVars, m_cb, ft, cb_fiber, idleTerm, envVars, aborted>>

\* MainFunc(): the callback returned.
Return(t) ==
    /\ Executing(t)
    /\ ended' = ended \cup {m_cb[Running(t)]}
    /\ m_cb' = [m_cb EXCEPT ![Running(t)] = None]
    /\ m_state' = [m_state EXCEPT ![Running(t)] = "TERM"]
    /\ pc' = [pc EXCEPT ![t] = "yield"]
    /\ UNCHANGED <<schedVars, stopVars, ft, cb_fiber, idleTerm, wakers, unscheduled,
                   suspends, aborted>>

\* MainFunc(): the callback threw; m_cb stays set.
Throw(t) ==
    /\ InBody(t, "throw")
    /\ ended' = ended \cup {m_cb[Running(t)]}
    /\ m_state' = [m_state EXCEPT ![Running(t)] = "EXCEPT"]
    /\ pc' = [pc EXCEPT ![t] = "yield"]
    /\ UNCHANGED <<schedVars, stopVars, m_cb, ft, cb_fiber, idleTerm, wakers,
                   unscheduled, suspends, aborted>>

-----------------------------------------------------------------------------
RunStep(t) ==
    \/ Take(t) \/ TakeNothing(t)
    \/ DropTask(t) \/ DispatchFiber(t) \/ DispatchCb(t)
    \/ SwapIn(t) \/ SwapOut(t)
    \/ SettleReady(t) \/ SettleEnded(t) \/ SettleOther(t) \/ SetHold(t)
    \/ EnterIdle(t) \/ IdleCheck(t) \/ LeaveIdle(t)

BodyStep(t) ==
    \/ \E c \in Callbacks, thread \in Pins : Spawn(t, c, thread)
    \/ YieldToReady(t)
    \/ Park(t)
    \/ \E thread \in Pins : SwitchTo(t, thread)
    \/ YieldToHold(t)
    \/ Return(t)
    \/ Throw(t)

ThreadStep(t) == ~aborted /\ (RunStep(t) \/ BodyStep(t))
StopStep == ~aborted /\ (StopMark \/ StopCall \/ RootReturn \/ Join)

\* stop() has returned, or the process has been aborted by an assertion.
Over == (mainPc = "stopped" \/ aborted) /\ UNCHANGED vars

Next ==
    \/ \E t \in Threads : ThreadStep(t)
    \/ ~aborted /\ \E t \in Threads, f \in Fibers : Wake(t, f)
    \/ ~aborted /\ \E c \in Callbacks, thread \in Pins : MainSchedule(c, thread)
    \/ ~aborted /\ (Start \/ StopBegin)
    \/ StopStep
    \/ Over

Spec == Init /\ [][Next]_vars

\* Every started thread keeps running (the kernel schedules it), callbacks
\* return, and stop(), once called, goes on.  Nothing forces main to call
\* start() or stop(), or a timer or an fd to wake a fiber.
Fairness ==
    /\ \A t \in Threads : WF_vars(ThreadStep(t))
    /\ WF_vars(StopStep)
FairSpec == Spec /\ Fairness

-----------------------------------------------------------------------------
(* Properties.                                                             *)

TypeOK ==
    /\ m_fibers \in Seq(Task)
    /\ m_activeThreadCount \in Nat
    /\ m_idleThreadCount \in Nat
    /\ m_stopping \in BOOLEAN
    /\ m_autoStop \in BOOLEAN
    /\ m_state \in [Fibers -> States]
    /\ m_cb \in [Fibers -> Callbacks \cup {None}]
    /\ rootState \in States
    /\ pc \in [Threads -> Pcs]
    /\ ft \in [Threads -> Task]
    /\ cb_fiber \in [Threads -> Fibers \cup {None}]
    /\ idleTerm \in [Threads -> BOOLEAN]
    /\ wakers \in [Fibers -> Nat]
    /\ mainPc \in {"new", "running", "stopMark", "stopCall", "inRoot", "join", "stopped"}
    /\ aborted \in BOOLEAN
    /\ unscheduled \subseteq Callbacks
    /\ ended \subseteq Callbacks
    /\ suspends \in [Callbacks -> Nat]

\* stopping() trusts m_activeThreadCount, and tickle() trusts m_idleThreadCount:
\* each equals the number of threads that really hold a task, or are idle, at
\* every point between the increments and decrements of run().  In particular
\* neither size_t ever wraps below zero.
CountersExact ==
    /\ m_activeThreadCount = Cardinality({t \in Threads : pc[t] \in ActivePcs})
    /\ m_idleThreadCount = Cardinality({t \in Threads : pc[t] \in IdlePcs})

\* While a thread executes a fiber's callback the fiber's m_state is EXEC: what
\* the comment of State::EXEC says, what run()'s queue scan and the assertion of
\* swapIn() use it for, and what IOManager::addEvent() asserts.
ExecutingIsExec == \A t \in Threads : pc[t] = "body" => m_state[Running(t)] = "EXEC"

\* No SATURN_ASSERT of swapIn() or reset() fails.
NoAssertFails == ~aborted

\* The ways in which callback c is still to be run, or is being run.
QueuedCb(c) == {i \in 1..Len(m_fibers) : m_fibers[i].cb = c}
TakenCb(c) == {t \in Threads : ft[t].cb = c}
FibersOf(c) == {f \in Fibers : m_cb[f] = c}

\* A callback given to schedule() is never lost and never duplicated: until it
\* has returned or thrown it is in exactly one place.
EveryCallbackOnce ==
    \A c \in Callbacks :
        IF c \in unscheduled \cup ended
          THEN QueuedCb(c) = {} /\ TakenCb(c) = {} /\ (c \in unscheduled => FibersOf(c) = {})
          ELSE Cardinality(QueuedCb(c)) + Cardinality(TakenCb(c)) + Cardinality(FibersOf(c)) = 1

\* Refinement: to the callers of schedule() the threads, the queue and the
\* fibers are a pool of jobs, each of which is started once and ends once, even
\* when two threads are switched into its fiber.
Waiting == {c \in Callbacks : QueuedCb(c) # {} \/ TakenCb(c) # {}}
Started == {c \in Callbacks \ ended : FibersOf(c) # {}}
Pool == INSTANCE Jobs WITH Job <- Callbacks, waiting <- Waiting, running <- Started, done <- ended
ImplementsJobs == Pool!Spec

\* The ways in which a fiber will be resumed: an entry of the queue, a waker, a
\* thread that is switched into it and has not handed it over.
QueuedFiber(f) == {i \in 1..Len(m_fibers) : m_fibers[i].fiber = f}
HandedOver(t) == \/ pc[t] = "parked"
                 \/ pc[t] \in {"yield", "settle", "setHold"}
                      /\ m_state[Running(t)] \notin {"READY", "TERM", "EXCEPT"}
HoldersOf(f) == {t \in Threads : /\ Running(t) = f
                                 /\ pc[t] \in {"dispatch", "swapIn", "body", "parked", "yield", "settle", "setHold"}
                                 /\ ~HandedOver(t)}

\* A fiber whose callback has not ended is resumed by exactly one party: it is
\* neither stranded (held by nobody although it is unfinished) nor resumed twice.
OneResumer ==
    \A f \in Fibers :
        m_cb[f] # None /\ m_cb[f] \notin ended =>
            Cardinality(QueuedFiber(f)) + wakers[f] + Cardinality(HoldersOf(f)) = 1

\* stop() drains the queue: when it has returned, no task is left in it, although
\* threads leave run() one by one, on a stopping() that was true some time ago,
\* and a fiber that yielded to READY is for a moment neither active nor queued.
\* (Tasks pinned to a thread are excluded: that thread may be gone.)
QueueDrained == mainPc = "stopped" => m_fibers = <<>>

\* And no callback is forgotten elsewhere: each one ever scheduled has ended or
\* waits for a timer or an fd.
StopDrains ==
    mainPc = "stopped" =>
        \A c \in Callbacks \ (unscheduled \cup ended) :
            \E f \in FibersOf(c) : wakers[f] > 0

\* ~Scheduler() destroys m_rootFiber, and ~Fiber() asserts that its state is
\* TERM, EXCEPT or INIT.  On a scheduler without threads of its own that holds
\* after stop(), unless it was never given work: stop() then does not call the
\* root fiber, whose m_state the constructor has not initialised.  (With workers
\* it may fail after any work, if they finished it.)
RootDestroyable ==
    mainPc = "stopped" /\ UseCaller /\ Workers = {} =>
        rootState \in Reusable \/ unscheduled = Callbacks

\* stop() returns, once it has been called.
StopReturns == mainPc = "stopMark" ~> mainPc = "stopped"

\* A scheduled callback is run to its end or to a wait, on a started scheduler.
EveryCallbackRuns ==
    \A c \in Callbacks :
        (mainPc = "running" /\ c \notin unscheduled)
            ~> (c \in ended \/ \E f \in FibersOf(c) : wakers[f] > 0)
=============================================================================
