------------------------ MODULE SchedulerFiberProofs ------------------------
(***************************************************************************)
(* Proofs about who resumes a fiber in Scheduler.                          *)
(*                                                                         *)
(* OneResumer and NoAssertFails are false in general: a fiber that has     *)
(* handed itself to a timer, an fd event or another thread may be resumed  *)
(* before run() has left it, which then overwrites its m_state             *)
(* (sched_hold_race).  They hold where that cannot happen: on one thread,  *)
(* or for callbacks that only yield to READY, return or throw.             *)
(***************************************************************************)
EXTENDS SchedulerTaskProofs

\* At most one thread executes run().
Sequential == \A t, u \in Threads : t = u
\* No fiber hands itself to a party that another thread may serve at once.
NoHandover == Sequential \/ BodyOps \cap {"hold", "switchTo"} = {}

-----------------------------------------------------------------------------
(* The inductive invariant, fiber by fiber.                                *)

\* The fiber has a callback that has not ended.
Live(f) == m_cb[f] # None /\ m_cb[f] \notin ended

Queued(f) == \E i \in 1..Len(m_fibers) : m_fibers[i].fiber = f
FibersQueuedOnce ==
    \A i, j \in 1..Len(m_fibers) :
        m_fibers[i].fiber # None /\ m_fibers[i].fiber = m_fibers[j].fiber => i = j

\* Thread t has taken f, is switched into it, or has not let go of it yet.
Grips(t, f) ==
    \/ (pc[t] = "dispatch" /\ ft[t].fiber = f)
    \/ (pc[t] \in InFiberPcs /\ Running(t) = f)
Free(f) == \A t \in Threads : ~Grips(t, f)

\* One thread grips f, and if it is some thread's cb_fiber, that thread as such.
OneGrip(f) ==
    \A t, u \in Threads : Grips(t, f) =>
        /\ Grips(u, f) => u = t
        /\ cb_fiber[u] = f => u = t /\ ft[t].fiber = None

\* The fiber's state and wakers at each point of run() and of its callback.
GripOK(t, f) ==
    /\ pc[t] = "dispatch" => Live(f) /\ m_state[f] \in {"READY", "HOLD"} /\ wakers[f] = 0
    /\ pc[t] = "swapIn" => Live(f) /\ m_state[f] \notin {"EXEC", "TERM", "EXCEPT"} /\ wakers[f] = 0
    /\ pc[t] = "body" => Live(f) /\ m_state[f] = "EXEC" /\ wakers[f] = 0
    /\ pc[t] = "parked" => Live(f) /\ m_state[f] = "EXEC" /\ wakers[f] = 1
    /\ pc[t] = "setHold" => Live(f) /\ m_state[f] = "HOLD" /\ wakers[f] = 1
    /\ pc[t] \in {"yield", "settle"} =>
         \/ (m_state[f] = "READY" /\ Live(f) /\ wakers[f] = 0)
         \/ (m_state[f] \in {"TERM", "EXCEPT"} /\ ~Live(f) /\ wakers[f] = 0)
         \/ (m_state[f] = "HOLD" /\ Live(f) /\ wakers[f] = 1)

\* What holds of a fiber in the queue, of one that a timer or an fd event holds,
\* of the cb_fiber kept for the next callback, and of an unfinished one.
QueuedOK(f) ==
    Queued(f) => Free(f) /\ wakers[f] = 0 /\ m_state[f] \in {"READY", "HOLD"} /\ Live(f)
WaitingOK(f) ==
    wakers[f] # 0 => wakers[f] = 1 /\ Live(f) /\ Sequential /\ (Free(f) => m_state[f] = "HOLD")
KeptOK(f) ==
    Free(f) /\ (\E t \in Threads : cb_fiber[t] = f) =>
        m_state[f] = "INIT" /\ ~Queued(f) /\ wakers[f] = 0
LiveOK(f) == Live(f) => Queued(f) \/ wakers[f] # 0 \/ ~Free(f)

\* The Fiber named after a callback that has not been taken is not in use.
Unborn(f) == f \in unscheduled \/ InQueue(f) \/ Taken(f)
UnbornOK(f) == Unborn(f) => Free(f) /\ ~Queued(f) /\ wakers[f] = 0

FiberOK(f) ==
    /\ OneGrip(f)
    /\ \A t \in Threads : Grips(t, f) => GripOK(t, f)
    /\ QueuedOK(f) /\ WaitingOK(f) /\ KeptOK(f) /\ LiveOK(f)
    /\ UnbornOK(f)

RInv ==
    /\ ~aborted
    /\ FibersQueuedOnce
    /\ \A f \in Fibers : FiberOK(f)

-----------------------------------------------------------------------------
(* Lemmas.                                                                 *)

\* What appending and erasing do to the fibers in the queue.
LEMMA AppendedFiber ==
  ASSUME TypeOK, FibersQueuedOnce, NEW task \in Task, Schedule(task),
         task.fiber # None => ~Queued(task.fiber)
  PROVE  /\ FibersQueuedOnce'
         /\ \A f \in Fibers : Queued(f)' <=> Queued(f) \/ task.fiber = f
  <1>1. /\ Len(m_fibers) \in Nat
        /\ Len(m_fibers') = Len(m_fibers) + 1
        /\ \A i \in 1..Len(m_fibers) : m_fibers'[i] = m_fibers[i]
        /\ m_fibers'[Len(m_fibers) + 1] = task
    BY Appended
  <1>2. \A i \in 1..Len(m_fibers') :
          i \in 1..Len(m_fibers) \/ i = Len(m_fibers) + 1
    BY <1>1
  <1>3. 1..Len(m_fibers) \subseteq 1..Len(m_fibers') /\ Len(m_fibers) + 1 \in 1..Len(m_fibers')
    BY <1>1
  <1>4. FibersQueuedOnce'
    BY <1>1, <1>2 DEF FibersQueuedOnce, Queued
  <1>5. \A f \in Fibers : Queued(f)' <=> Queued(f) \/ task.fiber = f
    BY <1>1, <1>2, <1>3 DEF Queued
  <1> QED BY <1>4, <1>5

LEMMA ErasedFiber ==
  ASSUME TypeOK, FibersQueuedOnce, NEW i \in 1..Len(m_fibers), m_fibers' = QueueWithout(i)
  PROVE  /\ FibersQueuedOnce'
         /\ \A f \in Fibers : Queued(f)' <=> Queued(f) /\ m_fibers[i].fiber # f
  <1>1. /\ Len(m_fibers) \in Nat
        /\ Len(m_fibers') = Len(m_fibers) - 1
        /\ \A j \in 1..Len(m_fibers') :
             m_fibers'[j] = IF j < i THEN m_fibers[j] ELSE m_fibers[j + 1]
        /\ \A k \in 1..Len(m_fibers) \ {i} :
             \E j \in 1..Len(m_fibers') : m_fibers'[j] = m_fibers[k]
    BY Erased
  <1> DEFINE from(j) == IF j < i THEN j ELSE j + 1
  <1>2. \A j \in 1..Len(m_fibers') :
          from(j) \in 1..Len(m_fibers) /\ from(j) # i /\ m_fibers'[j] = m_fibers[from(j)]
    BY <1>1
  <1>3. \A j, k \in 1..Len(m_fibers') : from(j) = from(k) => j = k
    BY <1>1
  <1> HIDE DEF from
  <1>4. FibersQueuedOnce'
    BY <1>2, <1>3 DEF FibersQueuedOnce
  <1>5. ASSUME NEW f \in Fibers
        PROVE  Queued(f)' <=> Queued(f) /\ m_fibers[i].fiber # f
    <2>1. f # None
      BY ThreadsAssumption DEF Fibers
    <2>2. Queued(f)' => Queued(f) /\ m_fibers[i].fiber # f
      BY <1>2, <2>1 DEF Queued, FibersQueuedOnce
    <2>3. Queued(f) /\ m_fibers[i].fiber # f => Queued(f)'
      BY <1>1 DEF Queued
    <2> QED BY <2>2, <2>3
  <1> QED BY <1>4, <1>5

\* A step that does nothing to f, nor to a thread that grips it.
LEMMA FiberStays ==
  ASSUME NEW f \in Fibers, FiberOK(f),
         m_state'[f] = m_state[f], wakers'[f] = wakers[f],
         Live(f)' <=> Live(f), Queued(f)' <=> Queued(f),
         Unborn(f)' => Unborn(f),
         \A u \in Threads : /\ Grips(u, f)' <=> Grips(u, f)
                            /\ Grips(u, f) => pc'[u] = pc[u] /\ ft'[u] = ft[u]
                            /\ cb_fiber'[u] = f <=> cb_fiber[u] = f
  PROVE  FiberOK(f)'
  <1>1. Free(f)' <=> Free(f)
    BY DEF Free
  <1>2. OneGrip(f)'
    BY DEF FiberOK, OneGrip
  <1>3. ASSUME NEW t \in Threads, Grips(t, f)' PROVE GripOK(t, f)'
    <2>1. GripOK(t, f) /\ pc'[t] = pc[t]
      BY <1>3 DEF FiberOK
    <2> QED BY <2>1 DEF GripOK
  <1>4. QueuedOK(f)' /\ WaitingOK(f)' /\ LiveOK(f)' /\ UnbornOK(f)'
    BY <1>1 DEF FiberOK, QueuedOK, WaitingOK, LiveOK, UnbornOK
  <1>5. KeptOK(f)'
    BY <1>1 DEF FiberOK, KeptOK
  <1> QED BY <1>2, <1>3, <1>4, <1>5 DEF FiberOK

\* What is known of a fiber that thread t grips.
LEMMA Gripped ==
  ASSUME NEW f \in Fibers, FiberOK(f), NEW t \in Threads, Grips(t, f)
  PROVE  /\ GripOK(t, f) /\ ~Queued(f) /\ ~Unborn(f)
         /\ \A u \in Threads \ {t} : ~Grips(u, f) /\ cb_fiber[u] # f
         /\ cb_fiber[t] = f => ft[t].fiber = None
         /\ wakers[f] # 0 => wakers[f] = 1 /\ Sequential
  BY DEF FiberOK, OneGrip, QueuedOK, UnbornOK, WaitingOK, Free

\* A fiber gripped by t alone after the step.
LEMMA FiberGripped ==
  ASSUME NEW f \in Fibers, NEW t \in Threads,
         Grips(t, f)', GripOK(t, f)', ~Queued(f)', ~Unborn(f)',
         \A u \in Threads \ {t} : ~Grips(u, f)' /\ cb_fiber'[u] # f,
         cb_fiber'[t] = f => ft'[t].fiber = None,
         wakers'[f] # 0 => wakers'[f] = 1 /\ Live(f)' /\ Sequential
  PROVE  FiberOK(f)'
  <1>1. ~Free(f)'
    BY DEF Free
  <1>2. OneGrip(f)'
    BY DEF OneGrip
  <1>3. QueuedOK(f)' /\ WaitingOK(f)' /\ LiveOK(f)' /\ UnbornOK(f)' /\ KeptOK(f)'
    BY <1>1 DEF QueuedOK, WaitingOK, LiveOK, UnbornOK, KeptOK
  <1> QED BY <1>2, <1>3 DEF FiberOK

\* A fiber that nobody grips after the step.
LEMMA FiberFreed ==
  ASSUME NEW f \in Fibers, Free(f)',
         QueuedOK(f)', WaitingOK(f)', KeptOK(f)', LiveOK(f)', ~Unborn(f)'
  PROVE  FiberOK(f)'
  BY DEF FiberOK, OneGrip, UnbornOK, Free

\* Callbacks do not become unborn again.
LEMMA StaysBorn ==
  ASSUME OInv, OInv', NEW f \in Fibers, Unborn(f)',
         ended \subseteq ended',
         Made(f) => Made(f)' \/ f \in ended'
  PROVE  Unborn(f)
  <1>1. OnePlaceOf(f) /\ OnePlaceOf(f)'
    BY DEF OInv, Fibers
  <1> QED BY <1>1 DEF OnePlaceOf, Unborn

LEMMA BornThread ==
  ASSUME IInv, OInv, OInv', NEW t \in Threads, RunStep(t) \/ BodyStep(t)
  PROVE  \A f \in Fibers : Unborn(f)' => Unborn(f)
  <1>0. TypeOK
    BY DEF IInv
  <1>1. CASE UNCHANGED <<m_cb, ended>>
    <2>1. \A f \in Fibers : Made(f) => Made(f)'
      BY <1>1 DEF Made
    <2> QED BY <1>1, <2>1, StaysBorn
  <1>2. ASSUME UNCHANGED <<m_fibers, unscheduled>>, ft' = ft \/ ft' = [ft EXCEPT ![t] = NoTask]
        PROVE  \A f \in Fibers : Unborn(f)' => Unborn(f)
    <2>1. \A u \in Threads : ft'[u].cb = ft[u].cb \/ ft'[u].cb = None
      <3>1. NoTask.cb = None
        BY DEF NoTask
      <3> QED BY <1>0, <1>2, <3>1 DEF TypeOK
    <2>2. \A f \in Fibers : (InQueue(f)' => InQueue(f)) /\ (Taken(f)' => Taken(f))
      BY <1>2, <2>1, ThreadsAssumption DEF InQueue, Taken, Fibers
    <2> QED BY <1>2, <2>2 DEF Unborn
  <1>3. CASE DispatchCb(t) \/ SettleEnded(t)
    BY <1>2, <1>3 DEF DispatchCb, SettleEnded, schedVars, envVars
  <1>4. CASE Return(t) \/ Throw(t)
    BY <1>2, <1>4 DEF Return, Throw, schedVars
  <1>5. CASE Take(t) \/ TakeNothing(t) \/ DropTask(t) \/ DispatchFiber(t)
    BY <1>1, <1>5 DEF Take, TakeNothing, DropTask, DispatchFiber, fiberVars, envVars
  <1>6. CASE SwapIn(t) \/ SwapOut(t) \/ SettleReady(t) \/ SettleOther(t) \/ SetHold(t)
    BY <1>1, <1>6 DEF SwapIn, SwapOut, SettleReady, SettleOther, SetHold, fiberVars, envVars
  <1>7. CASE EnterIdle(t) \/ IdleCheck(t) \/ LeaveIdle(t)
    BY <1>1, <1>7 DEF EnterIdle, IdleCheck, LeaveIdle, fiberVars, envVars
  <1>8. CASE YieldToReady(t) \/ Park(t) \/ YieldToHold(t)
    BY <1>1, <1>8 DEF YieldToReady, Park, YieldToHold, fiberVars, envVars
  <1>9. CASE \E c \in Callbacks, thread \in Pins : Spawn(t, c, thread)
    BY <1>1, <1>9 DEF Spawn, fiberVars
  <1>10. CASE \E thread \in Pins : SwitchTo(t, thread)
    BY <1>1, <1>10 DEF SwitchTo, fiberVars
  <1> QED BY <1>3, <1>4, <1>5, <1>6, <1>7, <1>8, <1>9, <1>10 DEF RunStep, BodyStep

\* The fibers of other threads' grips are theirs after a step of t as well.
LEMMA OthersGrips ==
  ASSUME TypeOK, NEW t \in Threads, RunStep(t) \/ BodyStep(t)
  PROVE  \A u \in Threads \ {t} :
           /\ pc'[u] = pc[u] /\ ft'[u] = ft[u] /\ cb_fiber'[u] = cb_fiber[u]
           /\ \A f \in Fibers : Grips(u, f)' <=> Grips(u, f)
  BY OnlyOwnLocals DEF Grips, Running

-----------------------------------------------------------------------------
(* The steps of a thread.                                                  *)

\* A step inside the fiber that t is switched into: it is enough to look at that
\* fiber.
LEMMA InsideFiber ==
  ASSUME TypeOK, RInv, NEW t \in Threads, RunStep(t) \/ BodyStep(t),
         \A f \in Fibers : Unborn(f)' => Unborn(f),
         pc[t] \in InFiberPcs, pc'[t] \in InFiberPcs,
         UNCHANGED <<m_fibers, ft, cb_fiber>>,
         NEW f \in Fibers, f = Running(t),
         \A g \in Fibers \ {f} :
            m_state'[g] = m_state[g] /\ wakers'[g] = wakers[g] /\ (Live(g)' <=> Live(g)),
         GripOK(t, f)',
         wakers'[f] # 0 => wakers'[f] = 1 /\ Live(f)' /\ Sequential
  PROVE  FibersQueuedOnce' /\ \A g \in Fibers : FiberOK(g)'
  <1>1. \A g \in Fibers : (Queued(g)' <=> Queued(g)) /\ FiberOK(g)
    BY DEF Queued, RInv
  <1>2. FibersQueuedOnce'
    BY DEF FibersQueuedOnce, RInv
  <1>3. pc[t] # "dispatch" /\ pc'[t] # "dispatch" /\ Running(t)' = Running(t)
    BY DEF InFiberPcs, Running
  <1>4. \A g \in Fibers : (Grips(t, g) <=> g = f) /\ (Grips(t, g)' <=> g = f)
    BY <1>3 DEF Grips
  <1>5. ASSUME NEW g \in Fibers \ {f} PROVE FiberOK(g)'
    <2>1. \A u \in Threads : /\ Grips(u, g)' <=> Grips(u, g)
                             /\ Grips(u, g) => pc'[u] = pc[u] /\ ft'[u] = ft[u]
                             /\ cb_fiber'[u] = g <=> cb_fiber[u] = g
      BY <1>4, OthersGrips
    <2> QED BY <1>1, <2>1, FiberStays
  <1>6. FiberOK(f)'
    <2>1. /\ ~Queued(f) /\ ~Unborn(f)
          /\ \A u \in Threads \ {t} : ~Grips(u, f) /\ cb_fiber[u] # f
          /\ cb_fiber[t] = f => ft[t].fiber = None
      BY <1>1, <1>4, Gripped
    <2>2. \A u \in Threads \ {t} : ~Grips(u, f)' /\ cb_fiber'[u] # f
      BY <2>1, OthersGrips
    <2> QED BY <1>1, <1>4, <2>1, <2>2, FiberGripped
  <1> QED BY <1>2, <1>5, <1>6

\* A step by which t lets go of its fiber: what is left to show is about it alone.
LEMMA LeavingFiber ==
  ASSUME TypeOK, RInv, NEW t \in Threads, RunStep(t) \/ BodyStep(t),
         \A g \in Fibers : Unborn(g)' => Unborn(g),
         NEW f \in Fibers, Grips(t, f), pc'[t] = "take",
         \A g \in Fibers \ {f} :
            /\ m_state'[g] = m_state[g] /\ wakers'[g] = wakers[g]
            /\ Live(g)' <=> Live(g)
            /\ Queued(g)' <=> Queued(g)
            /\ cb_fiber'[t] = g <=> cb_fiber[t] = g,
         Free(f)' => QueuedOK(f)' /\ WaitingOK(f)' /\ KeptOK(f)' /\ LiveOK(f)'
  PROVE  \A g \in Fibers : FiberOK(g)'
  <1>1. \A g \in Fibers : FiberOK(g)
    BY DEF RInv
  <1>2. \A g \in Fibers \ {f} : ~Grips(t, g)
    BY DEF Grips, InFiberPcs
  <1>3. \A g \in Fibers : ~Grips(t, g)'
    BY DEF Grips, InFiberPcs
  <1>4. ASSUME NEW g \in Fibers \ {f} PROVE FiberOK(g)'
    <2>1. \A u \in Threads : /\ Grips(u, g)' <=> Grips(u, g)
                             /\ Grips(u, g) => pc'[u] = pc[u] /\ ft'[u] = ft[u]
                             /\ cb_fiber'[u] = g <=> cb_fiber[u] = g
      BY <1>2, <1>3, OthersGrips
    <2> QED BY <1>1, <2>1, FiberStays
  <1>5. FiberOK(f)'
    <2>1. ~Unborn(f) /\ \A u \in Threads \ {t} : ~Grips(u, f)
      BY <1>1, Gripped
    <2>2. Free(f)'
      BY <1>3, <2>1, OthersGrips DEF Free
    <2> QED BY <2>1, <2>2, FiberFreed
  <1> QED BY <1>4, <1>5

\* A step that touches no fiber and no grip.
LEMMA NoFiber ==
  ASSUME TypeOK, RInv, NEW t \in Threads, RunStep(t) \/ BodyStep(t),
         \A g \in Fibers : Unborn(g)' => Unborn(g),
         UNCHANGED <<m_state, m_cb, wakers, ended, cb_fiber>>,
         \A g \in Fibers : /\ Queued(g)' <=> Queued(g)
                           /\ Grips(t, g)' <=> Grips(t, g)
                           /\ Grips(t, g) => pc'[t] = pc[t] /\ ft'[t] = ft[t]
  PROVE  \A g \in Fibers : FiberOK(g)'
  <1> SUFFICES ASSUME NEW g \in Fibers PROVE FiberOK(g)'
    OBVIOUS
  <1>1. FiberOK(g) /\ (Live(g)' <=> Live(g))
    BY DEF RInv, Live
  <1>2. \A u \in Threads : /\ Grips(u, g)' <=> Grips(u, g)
                           /\ Grips(u, g) => pc'[u] = pc[u] /\ ft'[u] = ft[u]
                           /\ cb_fiber'[u] = g <=> cb_fiber[u] = g
    BY OthersGrips
  <1> QED BY <1>1, <1>2, FiberStays

\* run() takes a task: the fiber leaves the queue and t grips it.
LEMMA RTake ==
  ASSUME IInv, OInv, RInv, NEW t \in Threads, Take(t),
         \A g \in Fibers : Unborn(g)' => Unborn(g)
  PROVE  RInv'
  <1>0. TypeOK /\ FibersQueuedOnce /\ (\A g \in Fibers : FiberOK(g)) /\ (RunStep(t) \/ BodyStep(t))
    BY DEF IInv, RInv, RunStep
  <1>1. PICK i \in 1..Len(m_fibers) : ft' = [ft EXCEPT ![t] = m_fibers[i]] /\ m_fibers' = QueueWithout(i)
    BY DEF Take, Takeable
  <1>2. PICK f : f = m_fibers[i].fiber
    OBVIOUS
  <1>3. f \in Fibers \cup {None}
    <2>1. m_fibers[i] \in Task
      BY <1>0 DEF TypeOK
    <2> QED BY <1>2, <2>1 DEF Task
  <1>4. /\ pc[t] = "take" /\ pc'[t] = "dispatch" /\ ft'[t].fiber = f
        /\ UNCHANGED <<m_state, m_cb, wakers, ended, cb_fiber, aborted>>
    BY <1>0, <1>1, <1>2 DEF Take, fiberVars, envVars, TypeOK
  <1>5. FibersQueuedOnce' /\ \A g \in Fibers : Queued(g)' <=> Queued(g) /\ f # g
    BY <1>0, <1>1, <1>2, ErasedFiber
  <1>6. \A g \in Fibers : ~Grips(t, g) /\ (Grips(t, g)' <=> g = f) /\ (Live(g)' <=> Live(g))
    BY <1>4 DEF Grips, InFiberPcs, Live
  <1>7. ASSUME NEW g \in Fibers, g # f PROVE FiberOK(g)'
    <2>1. \A u \in Threads : /\ Grips(u, g)' <=> Grips(u, g)
                             /\ Grips(u, g) => pc'[u] = pc[u] /\ ft'[u] = ft[u]
                             /\ cb_fiber'[u] = g <=> cb_fiber[u] = g
      BY <1>0, <1>6, <1>7, <1>4, OthersGrips
    <2> QED BY <1>0, <1>4, <1>5, <1>6, <1>7, <2>1, FiberStays
  <1>8. ASSUME f \in Fibers PROVE FiberOK(f)'
    <2>1. Queued(f) /\ FiberOK(f)
      BY <1>0, <1>2, <1>8 DEF Queued
    <2>2. Free(f) /\ wakers[f] = 0 /\ m_state[f] \in {"READY", "HOLD"} /\ Live(f) /\ ~Unborn(f)
      BY <2>1 DEF FiberOK, QueuedOK, UnbornOK
    <2>3. \A u \in Threads : cb_fiber[u] # f
      BY <2>1, <2>2 DEF FiberOK, KeptOK
    <2>4. \A u \in Threads \ {t} : ~Grips(u, f)' /\ cb_fiber'[u] # f
      BY <1>0, <1>4, <1>8, <2>2, <2>3, OthersGrips DEF Free
    <2>5. GripOK(t, f)'
      BY <1>4, <1>6, <1>8, <2>2 DEF GripOK
    <2> QED BY <1>4, <1>5, <1>6, <1>8, <2>2, <2>3, <2>4, <2>5, FiberGripped
  <1> QED BY <1>0, <1>3, <1>4, <1>5, <1>7, <1>8 DEF RInv

\* run() starts a callback in its cb_fiber, which is at rest, or in a new Fiber.
LEMMA RDispatchCb ==
  ASSUME IInv, OInv, OInv', RInv, NEW t \in Threads, DispatchCb(t),
         \A g \in Fibers : Unborn(g)' => Unborn(g)
  PROVE  RInv'
  <1>0. TypeOK /\ FibersQueuedOnce /\ (\A g \in Fibers : FiberOK(g)) /\ (RunStep(t) \/ BodyStep(t)) /\ HasTask(t)
    BY DEF IInv, RInv, RunStep
  <1>1. PICK c : c = ft[t].cb
    OBVIOUS
  <1>2. PICK f : f = IF cb_fiber[t] # None THEN cb_fiber[t] ELSE c
    OBVIOUS
  <1>3. c \in Callbacks /\ c # None /\ f \in Fibers /\ f # None /\ ft[t].fiber = None /\ pc[t] = "dispatch"
    BY <1>0, <1>1, <1>2, ThreadsAssumption DEF DispatchCb, HasTask, TaskNonEmpty, TypeOK, Task, Fibers
  <1>4. /\ cb_fiber' = [cb_fiber EXCEPT ![t] = f]
        /\ m_cb' = [m_cb EXCEPT ![f] = c]
        /\ ft' = [ft EXCEPT ![t] = NoTask]
        /\ pc' = [pc EXCEPT ![t] = "swapIn"]
        /\ UNCHANGED <<m_fibers, ended, wakers>>
    BY <1>1, <1>2 DEF DispatchCb, schedVars, envVars
  <1>5. /\ ft'[t].fiber = None /\ cb_fiber'[t] = f /\ pc'[t] = "swapIn" /\ Running(t)' = f
        /\ m_cb'[f] = c /\ \A g \in Fibers \ {f} : m_cb'[g] = m_cb[g]
    BY <1>0, <1>3, <1>4 DEF TypeOK, Running, NoTask
  <1>6. \A g \in Fibers : ~Grips(t, g) /\ (Grips(t, g)' <=> g = f)
    BY <1>3, <1>5, ThreadsAssumption DEF Grips, InFiberPcs, Fibers
  <1>7. c \notin ended
    BY <1>1, <1>3 DEF OInv, OnePlaceOf, Taken
  <1>8. /\ Free(f) /\ ~Queued(f) /\ wakers[f] = 0
        /\ \A u \in Threads \ {t} : cb_fiber[u] # f
        /\ cb_fiber[t] # None => m_state[f] = "INIT"
    <2>1. CASE cb_fiber[t] # None
      <3>1. cb_fiber[t] = f /\ FiberOK(f)
        BY <1>0, <1>2, <1>3, <2>1
      <3>2. Free(f)
        BY <1>6, <1>3, <3>1 DEF FiberOK, OneGrip, Free
      <3>3. m_state[f] = "INIT" /\ ~Queued(f) /\ wakers[f] = 0
        BY <3>1, <3>2 DEF FiberOK, KeptOK
      <3>4. \A u \in Threads \ {t} : cb_fiber[u] # f
        BY <2>1, <3>1 DEF OInv, CbFiberOwn
      <3> QED BY <3>2, <3>3, <3>4
    <2>2. CASE cb_fiber[t] = None
      <3>1. f = c /\ Unborn(f) /\ FiberOK(f) /\ Unmade(f)
        BY <1>0, <1>1, <1>2, <1>3, <2>2 DEF Unborn, Taken, OInv
      <3> QED BY <2>2, <3>1 DEF FiberOK, UnbornOK, Unmade, Unborn
    <2> QED BY <2>1, <2>2
  <1>9. /\ m_state'[f] \notin {"EXEC", "TERM", "EXCEPT"} /\ ~aborted'
        /\ \A g \in Fibers \ {f} : m_state'[g] = m_state[g]
    <2>1. CASE cb_fiber[t] # None
      BY <1>0, <1>1, <1>2, <1>3, <1>8, <2>1 DEF DispatchCb, TypeOK, Reusable
    <2>2. CASE cb_fiber[t] = None
      BY <1>0, <1>1, <1>2, <1>3, <2>2, BodyAssumption DEF DispatchCb, TypeOK, RInv
    <2> QED BY <2>1, <2>2
  <1>10. FibersQueuedOnce' /\ \A g \in Fibers : Queued(g)' <=> Queued(g)
    BY <1>0, <1>4 DEF FibersQueuedOnce, Queued
  <1>11. ASSUME NEW g \in Fibers \ {f} PROVE FiberOK(g)'
    <2>1. \A u \in Threads \ {t} : /\ Grips(u, g)' <=> Grips(u, g)
                                   /\ Grips(u, g) => pc'[u] = pc[u] /\ ft'[u] = ft[u]
                                   /\ cb_fiber'[u] = g <=> cb_fiber[u] = g
      BY <1>0, OthersGrips
    <2>2. cb_fiber[t] # g
      BY <1>2, <1>3 , ThreadsAssumption DEF Fibers
    <2>3. \A u \in Threads : /\ Grips(u, g)' <=> Grips(u, g)
                             /\ Grips(u, g) => pc'[u] = pc[u] /\ ft'[u] = ft[u]
                             /\ cb_fiber'[u] = g <=> cb_fiber[u] = g
      BY <1>5, <1>6, <2>1, <2>2
    <2>4. Live(g)' <=> Live(g)
      BY <1>4, <1>5 DEF Live
    <2> QED BY <1>0, <1>4, <1>9, <1>10, <2>3, <2>4, FiberStays
  <1>12. FiberOK(f)'
    <2>1. Live(f)'
      BY <1>3, <1>4, <1>5, <1>7 DEF Live
    <2>2. GripOK(t, f)'
      BY <1>4, <1>5, <1>8, <1>9, <2>1 DEF GripOK
    <2>3. ~Unborn(f)'
      BY <1>3, <1>5 DEF OInv, Unmade, Unborn, Fibers
    <2>4. \A u \in Threads \ {t} : ~Grips(u, f)' /\ cb_fiber'[u] # f
      BY <1>0, <1>3, <1>8, OthersGrips DEF Free
    <2> QED BY <1>3, <1>4, <1>5, <1>6, <1>8, <1>10, <2>1, <2>2, <2>3, <2>4, FiberGripped
  <1> QED BY <1>9, <1>10, <1>11, <1>12 DEF RInv

\* The steps of run() and of a callback inside the fiber.
LEMMA RInside ==
  ASSUME IInv, OInv, RInv, NoHandover, NEW t \in Threads, ~aborted,
         \A g \in Fibers : Unborn(g)' => Unborn(g),
         \/ SwapIn(t) \/ SwapOut(t) \/ SettleOther(t)
         \/ YieldToReady(t) \/ Park(t) \/ YieldToHold(t) \/ Return(t) \/ Throw(t)
  PROVE  RInv'
  <1>0. TypeOK /\ (\A g \in Fibers : FiberOK(g)) /\ (RunStep(t) \/ BodyStep(t)) /\ HasTask(t)
    BY DEF IInv, RInv, RunStep, BodyStep
  <1>1. PICK f : f = Running(t)
    OBVIOUS
  <1>2. pc[t] \in InFiberPcs /\ pc'[t] \in InFiberPcs
    BY <1>0 DEF SwapIn, SwapOut, SettleOther, YieldToReady, Park, YieldToHold, Return, Throw,
       InBody, Executing, InFiberPcs, TypeOK
  <1>3. f \in Fibers /\ Grips(t, f)
    BY <1>0, <1>1, <1>2, RunningFiber DEF Grips
  <1>4. UNCHANGED <<m_fibers, ft, cb_fiber>>
    BY DEF SwapIn, SwapOut, SettleOther, YieldToReady, Park, YieldToHold, Return, Throw,
       schedVars
  <1>5. GripOK(t, f) /\ (wakers[f] # 0 => wakers[f] = 1 /\ Sequential)
    BY <1>0, <1>3, Gripped
  <1>6. ASSUME UNCHANGED <<m_cb, ended>>,
               \E s : m_state' = [m_state EXCEPT ![f] = s],
               \E n : wakers' = [wakers EXCEPT ![f] = n]
        PROVE  \A g \in Fibers \ {f} :
                 m_state'[g] = m_state[g] /\ wakers'[g] = wakers[g] /\ (Live(g)' <=> Live(g))
    BY <1>0, <1>6 DEF TypeOK, Live
  <1>7. ASSUME ~aborted', GripOK(t, f)',
               wakers'[f] # 0 => wakers'[f] = 1 /\ Live(f)' /\ Sequential,
               \A g \in Fibers \ {f} :
                 m_state'[g] = m_state[g] /\ wakers'[g] = wakers[g] /\ (Live(g)' <=> Live(g))
        PROVE  RInv'
    BY <1>0, <1>1, <1>2, <1>3, <1>4, <1>7, InsideFiber DEF RInv
  <1>8. UNCHANGED <<m_cb, ended>> => (Live(f)' <=> Live(f))
    BY DEF Live
  <1>9. m_state = [m_state EXCEPT ![f] = m_state[f]] /\ wakers = [wakers EXCEPT ![f] = wakers[f]]
    BY <1>0 DEF TypeOK
  <1>10. CASE SwapIn(t)
    <2>1. Live(f) /\ m_state[f] # "EXEC" /\ wakers[f] = 0
      BY <1>5, <1>10 DEF SwapIn, GripOK
    <2>2. /\ ~aborted' /\ m_state' = [m_state EXCEPT ![f] = "EXEC"] /\ pc'[t] = "body"
          /\ UNCHANGED <<m_cb, wakers, ended>>
      BY <1>0, <1>1, <1>10, <2>1 DEF SwapIn, envVars, TypeOK
    <2>3. m_state'[f] = "EXEC"
      BY <1>0, <1>3, <2>2 DEF TypeOK
    <2>4. GripOK(t, f)'
      BY <1>8, <2>1, <2>2, <2>3 DEF GripOK
    <2> QED BY <1>6, <1>7, <1>9, <2>1, <2>2, <2>4
  <1>11. CASE SwapOut(t) \/ SettleOther(t)
    <2>1. UNCHANGED <<m_cb, m_state, wakers, ended, aborted>>
      BY <1>11 DEF SwapOut, SettleOther, fiberVars, envVars
    <2>2. GripOK(t, f)'
      <3>1. CASE SwapOut(t)
        <4>1. pc[t] = "yield" /\ pc'[t] = "settle"
          BY <1>0, <3>1 DEF SwapOut, TypeOK
        <4> QED BY <1>5, <1>8, <2>1, <4>1 DEF GripOK
      <3>2. CASE SettleOther(t)
        <4>1. pc[t] = "settle" /\ pc'[t] = "setHold" /\ m_state[f] \notin {"READY", "TERM", "EXCEPT"}
          BY <1>0, <1>1, <3>2 DEF SettleOther, TypeOK
        <4> QED BY <1>5, <1>8, <2>1, <4>1 DEF GripOK
      <3> QED BY <1>11, <3>1, <3>2
    <2>3. wakers[f] # 0 => Live(f)
      BY <1>5, <1>11 DEF GripOK, SwapOut, SettleOther
    <2> QED BY <1>5, <1>6, <1>7, <1>8, <1>9, <2>1, <2>2, <2>3
  <1>12. CASE YieldToReady(t)
    <2>1. Live(f) /\ wakers[f] = 0
      BY <1>5, <1>12 DEF YieldToReady, InBody, Executing, GripOK
    <2>2. /\ m_state' = [m_state EXCEPT ![f] = "READY"] /\ pc'[t] = "yield"
          /\ UNCHANGED <<m_cb, wakers, ended, aborted>>
      BY <1>0, <1>1, <1>12 DEF YieldToReady, TypeOK
    <2>3. m_state'[f] = "READY"
      BY <1>0, <1>3, <2>2 DEF TypeOK
    <2>4. GripOK(t, f)'
      BY <1>8, <2>1, <2>2, <2>3 DEF GripOK
    <2> QED BY <1>6, <1>7, <1>9, <2>1, <2>2, <2>4
  <1>13. CASE Park(t)
    <2>1. Live(f) /\ wakers[f] = 0 /\ m_state[f] = "EXEC"
      BY <1>5, <1>13 DEF Park, InBody, Executing, GripOK
    <2>2. Sequential
      BY <1>13 DEF Park, InBody, NoHandover
    <2>3. /\ wakers' = [wakers EXCEPT ![f] = wakers[f] + 1] /\ pc'[t] = "parked"
          /\ UNCHANGED <<m_cb, m_state, ended, aborted>>
      BY <1>0, <1>1, <1>13 DEF Park, fiberVars, TypeOK
    <2>4. wakers'[f] = 1
      BY <1>0, <1>3, <2>1, <2>3 DEF TypeOK
    <2>5. GripOK(t, f)'
      BY <1>8, <2>1, <2>3, <2>4 DEF GripOK
    <2> QED BY <1>6, <1>7, <1>8, <1>9, <2>1, <2>2, <2>3, <2>4, <2>5
  <1>14. CASE YieldToHold(t)
    <2>1. Live(f) /\ wakers[f] = 1
      BY <1>5, <1>14 DEF YieldToHold, GripOK
    <2>2. /\ m_state' = [m_state EXCEPT ![f] = "HOLD"] /\ pc'[t] = "yield"
          /\ UNCHANGED <<m_cb, wakers, ended, aborted>>
      BY <1>0, <1>1, <1>14 DEF YieldToHold, envVars, TypeOK
    <2>3. m_state'[f] = "HOLD"
      BY <1>0, <1>3, <2>2 DEF TypeOK
    <2>4. GripOK(t, f)'
      BY <1>8, <2>1, <2>2, <2>3 DEF GripOK
    <2> QED BY <1>5, <1>6, <1>7, <1>8, <1>9, <2>1, <2>2, <2>4
  <1>15. CASE Return(t) \/ Throw(t)
    <2>1. Live(f) /\ wakers[f] = 0
      BY <1>5, <1>15 DEF Return, Throw, InBody, Executing, GripOK
    <2>2. /\ ended' = ended \cup {m_cb[f]}
          /\ \E s \in {"TERM", "EXCEPT"} : m_state' = [m_state EXCEPT ![f] = s]
          /\ m_cb' = m_cb \/ m_cb' = [m_cb EXCEPT ![f] = None]
          /\ pc'[t] = "yield"
          /\ UNCHANGED <<wakers, aborted>>
      BY <1>0, <1>1, <1>15 DEF Return, Throw, TypeOK
    <2>3. /\ m_state'[f] \in {"TERM", "EXCEPT"} /\ m_cb'[f] \in {m_cb[f], None}
          /\ \A g \in Fibers \ {f} : m_state'[g] = m_state[g] /\ m_cb'[g] = m_cb[g]
      BY <1>0, <1>3, <2>2 DEF TypeOK
    <2>4. ~Live(f)'
      BY <2>2, <2>3 DEF Live
    <2>5. \A g \in Fibers \ {f} : Live(g)' <=> Live(g)
      BY <1>3, <2>1, <2>2, <2>3 DEF Live, OInv, CbsMadeOnce
    <2>6. GripOK(t, f)'
      BY <2>1, <2>2, <2>3, <2>4 DEF GripOK
    <2> QED BY <1>7, <2>1, <2>2, <2>3, <2>5, <2>6
  <1> QED BY <1>10, <1>11, <1>12, <1>13, <1>14, <1>15

\* run() settles the fiber it switched out of.
LEMMA RSettle ==
  ASSUME IInv, OInv, RInv, NEW t \in Threads,
         \A g \in Fibers : Unborn(g)' => Unborn(g),
         SettleReady(t) \/ SettleEnded(t) \/ SetHold(t)
  PROVE  RInv'
  <1>0. /\ TypeOK /\ FibersQueuedOnce /\ (\A g \in Fibers : FiberOK(g))
        /\ (RunStep(t) \/ BodyStep(t)) /\ HasTask(t)
    BY DEF IInv, RInv, RunStep
  <1>1. PICK f : f = Running(t)
    OBVIOUS
  <1>2. pc[t] \in {"settle", "setHold"} /\ pc'[t] = "take" /\ ~aborted'
    BY <1>0 DEF SettleReady, SettleEnded, SetHold, TypeOK, RInv
  <1>3. f \in Fibers /\ Grips(t, f) /\ (ft[t].fiber = None => cb_fiber[t] = f) /\ f # None
    BY <1>0, <1>1, <1>2, RunningFiber, ThreadsAssumption DEF Grips, InFiberPcs, Fibers
  <1>4. /\ GripOK(t, f) /\ ~Queued(f)
        /\ \A u \in Threads \ {t} : ~Grips(u, f) /\ cb_fiber[u] # f
        /\ cb_fiber[t] = f => ft[t].fiber = None
    BY <1>0, <1>3, Gripped
  <1>5. \A u \in Threads \ {t} : cb_fiber'[u] = cb_fiber[u]
    BY <1>0, OnlyOwnLocals
  <1>6. ASSUME Release(t)
        PROVE  /\ \A u \in Threads : cb_fiber'[u] # f
               /\ \A g \in Fibers \ {f} : cb_fiber'[t] = g <=> cb_fiber[t] = g
    <2>1. CASE ft[t].fiber # None
      <3>1. cb_fiber' = cb_fiber
        BY <1>6, <2>1 DEF Release
      <3> QED BY <1>4, <2>1, <3>1
    <2>2. CASE ft[t].fiber = None
      <3>1. cb_fiber'[t] = None
        BY <1>0, <1>6, <2>2 DEF Release, TypeOK
      <3> QED BY <1>3, <1>4, <1>5, <2>2, <3>1, ThreadsAssumption DEF Fibers
    <2> QED BY <2>1, <2>2
  <1>7. ASSUME FibersQueuedOnce',
               \A g \in Fibers \ {f} :
                  /\ m_state'[g] = m_state[g] /\ wakers'[g] = wakers[g]
                  /\ Live(g)' <=> Live(g)
                  /\ Queued(g)' <=> Queued(g)
                  /\ cb_fiber'[t] = g <=> cb_fiber[t] = g,
               Free(f)' => QueuedOK(f)' /\ WaitingOK(f)' /\ KeptOK(f)' /\ LiveOK(f)'
        PROVE  RInv'
    BY <1>0, <1>2, <1>3, <1>7, LeavingFiber DEF RInv
  <1>8. CASE SettleReady(t)
    <2>1. /\ pc[t] = "settle" /\ m_state[f] = "READY" /\ Release(t)
          /\ UNCHANGED <<m_state, m_cb, wakers, ended>>
          /\ Schedule(FiberTask(f, None))
      BY <1>1, <1>8 DEF SettleReady, Requeue, fiberVars, envVars
    <2>2. Live(f) /\ wakers[f] = 0
      BY <1>4, <2>1 DEF GripOK
    <2>3. PICK task \in Task : task = FiberTask(f, None)
      BY <1>3, TaskTypes
    <2>4. task.fiber = f /\ Schedule(task)
      BY <2>1, <2>3 DEF FiberTask
    <2>5. FibersQueuedOnce' /\ \A g \in Fibers : Queued(g)' <=> Queued(g) \/ f = g
      BY <1>0, <1>4, <2>4, AppendedFiber
    <2>6. \A g \in Fibers : Live(g)' <=> Live(g)
      BY <2>1 DEF Live
    <2>7. Free(f)' => QueuedOK(f)' /\ WaitingOK(f)' /\ KeptOK(f)' /\ LiveOK(f)'
      BY <1>3, <1>6, <2>1, <2>2, <2>5, <2>6 DEF QueuedOK, WaitingOK, KeptOK, LiveOK
    <2> QED BY <1>6, <1>7, <2>1, <2>5, <2>6, <2>7
  <1>9. CASE SetHold(t)
    <2>1. /\ pc[t] = "setHold" /\ m_state' = [m_state EXCEPT ![f] = "HOLD"] /\ Release(t)
          /\ UNCHANGED <<m_fibers, m_cb, wakers, ended>>
      BY <1>1, <1>9 DEF SetHold, schedVars, envVars
    <2>2. Live(f) /\ wakers[f] = 1 /\ Sequential
      BY <1>0, <1>3, <1>4, <2>1, Gripped DEF GripOK
    <2>3. m_state'[f] = "HOLD" /\ \A g \in Fibers \ {f} : m_state'[g] = m_state[g]
      BY <1>0, <1>3, <2>1 DEF TypeOK
    <2>4. FibersQueuedOnce' /\ \A g \in Fibers : (Queued(g)' <=> Queued(g)) /\ (Live(g)' <=> Live(g))
      BY <1>0, <2>1 DEF FibersQueuedOnce, Queued, Live
    <2>5. Free(f)' => QueuedOK(f)' /\ WaitingOK(f)' /\ KeptOK(f)' /\ LiveOK(f)'
      BY <1>3, <1>4, <1>6, <2>1, <2>2, <2>3, <2>4 DEF QueuedOK, WaitingOK, KeptOK, LiveOK
    <2> QED BY <1>6, <1>7, <2>1, <2>3, <2>4, <2>5
  <1>10. CASE SettleEnded(t)
    <2>1. /\ pc[t] = "settle" /\ m_state[f] \in {"TERM", "EXCEPT"}
          /\ UNCHANGED <<m_fibers, wakers, ended, cb_fiber>>
      BY <1>1, <1>10 DEF SettleEnded, schedVars, envVars
    <2>2. ~Live(f) /\ wakers[f] = 0
      BY <1>4, <2>1 DEF GripOK
    <2>3. /\ \A g \in Fibers \ {f} : m_state'[g] = m_state[g] /\ m_cb'[g] = m_cb[g]
          /\ m_cb'[f] \in {m_cb[f], None}
          /\ cb_fiber[t] = f => m_state'[f] = "INIT"
      <3>1. CASE ft[t].fiber # None
        BY <1>4, <1>10, <3>1 DEF SettleEnded, fiberVars
      <3>2. CASE ft[t].fiber = None
        BY <1>0, <1>3, <1>10, <3>2 DEF SettleEnded, TypeOK
      <3> QED BY <3>1, <3>2
    <2>4. FibersQueuedOnce' /\ \A g \in Fibers : Queued(g)' <=> Queued(g)
      BY <1>0, <2>1 DEF FibersQueuedOnce, Queued
    <2>5. ~Live(f)' /\ \A g \in Fibers \ {f} : Live(g)' <=> Live(g)
      BY <2>1, <2>2, <2>3 DEF Live
    <2>6. Free(f)' => QueuedOK(f)' /\ WaitingOK(f)' /\ KeptOK(f)' /\ LiveOK(f)'
      BY <1>3, <1>4, <2>1, <2>2, <2>3, <2>4, <2>5 DEF QueuedOK, WaitingOK, KeptOK, LiveOK
    <2> QED BY <1>7, <2>1, <2>3, <2>4, <2>5, <2>6
  <1> QED BY <1>8, <1>9, <1>10

\* A step of a scheduler thread preserves RInv.
LEMMA RInvThread ==
  ASSUME IInv, OInv, OInv', RInv, NoHandover, NEW t \in Threads, RunStep(t) \/ BodyStep(t)
  PROVE  RInv'
  <1>0. TypeOK /\ FibersQueuedOnce /\ (\A g \in Fibers : FiberOK(g)) /\ ~aborted
    BY DEF IInv, RInv
  <1>b. \A g \in Fibers : Unborn(g)' => Unborn(g)
    BY BornThread
  <1>1. CASE Take(t)
    BY <1>b, <1>1, RTake
  <1>2. CASE DispatchCb(t)
    BY <1>b, <1>2, RDispatchCb
  <1>3. CASE \/ SwapIn(t) \/ SwapOut(t) \/ SettleOther(t)
             \/ YieldToReady(t) \/ Park(t) \/ YieldToHold(t) \/ Return(t) \/ Throw(t)
    BY <1>0, <1>b, <1>3, RInside
  <1>4. CASE SettleReady(t) \/ SettleEnded(t) \/ SetHold(t)
    BY <1>b, <1>4, RSettle
  <1>5. CASE DropTask(t)
    <2>1. PICK f : f = ft[t].fiber
      OBVIOUS
    <2>2. f \in Fibers /\ pc[t] = "dispatch" /\ m_state[f] \in {"TERM", "EXCEPT"}
      BY <1>0, <1>5, <2>1 DEF DropTask, TypeOK, Task
    <2>3. GripOK(t, f)
      BY <1>0, <2>1, <2>2 DEF FiberOK, Grips
    <2> QED BY <2>2, <2>3 DEF GripOK
  <1>6. CASE DispatchFiber(t)
    <2>1. PICK f : f = ft[t].fiber
      OBVIOUS
    <2>2. /\ f \in Fibers /\ f # None /\ pc[t] = "dispatch" /\ pc'[t] = "swapIn"
          /\ UNCHANGED <<m_fibers, m_state, m_cb, ft, cb_fiber, wakers, ended, aborted>>
      BY <1>0, <1>6, <2>1 DEF DispatchFiber, TypeOK, Task, schedVars, fiberVars, envVars
    <2>3. \A g \in Fibers : (Grips(t, g) <=> g = f) /\ (Grips(t, g)' <=> g = f)
      BY <2>1, <2>2 DEF Grips, InFiberPcs, Running
    <2>4. FibersQueuedOnce' /\ \A g \in Fibers : (Queued(g)' <=> Queued(g)) /\ (Live(g)' <=> Live(g))
      BY <1>0, <2>2 DEF FibersQueuedOnce, Queued, Live
    <2>5. ASSUME NEW g \in Fibers \ {f} PROVE FiberOK(g)'
      <3>1. \A u \in Threads : /\ Grips(u, g)' <=> Grips(u, g)
                               /\ Grips(u, g) => pc'[u] = pc[u] /\ ft'[u] = ft[u]
                               /\ cb_fiber'[u] = g <=> cb_fiber[u] = g
        BY <1>0, <2>2, <2>3, OthersGrips
      <3> QED BY <1>0, <1>b, <2>2, <2>4, <3>1, FiberStays
    <2>6. FiberOK(f)'
      <3>1. /\ GripOK(t, f) /\ ~Queued(f) /\ ~Unborn(f)
            /\ \A u \in Threads \ {t} : ~Grips(u, f) /\ cb_fiber[u] # f
            /\ cb_fiber[t] = f => ft[t].fiber = None
        BY <1>0, <2>2, <2>3, Gripped
      <3>2. GripOK(t, f)' /\ wakers[f] = 0
        BY <2>2, <2>4, <3>1 DEF GripOK
      <3>3. \A u \in Threads \ {t} : ~Grips(u, f)' /\ cb_fiber'[u] # f
        BY <1>0, <2>2, <3>1, OthersGrips
      <3> QED BY <1>b, <2>2, <2>3, <2>4, <3>1, <3>2, <3>3, FiberGripped
    <2> QED BY <1>0, <2>2, <2>4, <2>5, <2>6 DEF RInv
  <1>7. CASE TakeNothing(t) \/ EnterIdle(t) \/ IdleCheck(t) \/ LeaveIdle(t)
    <2>1. /\ pc[t] \in {"take", "noTask", "idle", "idleOut"}
          /\ UNCHANGED <<m_fibers, m_state, m_cb, ft, cb_fiber, wakers, ended, aborted>>
      BY <1>7 DEF TakeNothing, EnterIdle, IdleCheck, LeaveIdle, schedVars, fiberVars, envVars
    <2>2. pc'[t] \in {"noTask", "exited", "idle", "idleOut", "take"}
      <3>1. CASE EnterIdle(t)
        <4>1. \E v \in {"exited", "idle"} : pc' = [pc EXCEPT ![t] = v]
          BY <3>1 DEF EnterIdle
        <4> QED BY <1>0, <4>1 DEF TypeOK
      <3>2. CASE TakeNothing(t) \/ IdleCheck(t) \/ LeaveIdle(t)
        BY <1>0, <3>2 DEF TakeNothing, IdleCheck, LeaveIdle, TypeOK
      <3> QED BY <1>7, <3>1, <3>2
    <2>3. \A g \in Fibers : ~Grips(t, g) /\ ~Grips(t, g)' /\ (Queued(g)' <=> Queued(g))
      BY <2>1, <2>2 DEF Grips, InFiberPcs, Queued
    <2>4. \A g \in Fibers : FiberOK(g)'
      BY <1>0, <1>b, <2>1, <2>3, NoFiber
    <2> QED BY <1>0, <2>1, <2>4 DEF RInv, FibersQueuedOnce
  <1>8. CASE \E c \in Callbacks, thread \in Pins : Spawn(t, c, thread)
    <2>1. PICK c \in Callbacks, thread \in Pins : Spawn(t, c, thread)
      BY <1>8
    <2>2. PICK task \in Task : task = CbTask(c, thread)
      BY TaskTypes, ThreadsAssumption
    <2>3. task.fiber = None /\ Schedule(task)
      BY <2>1, <2>2 DEF Spawn, CbTask
    <2>4. FibersQueuedOnce' /\ \A g \in Fibers : Queued(g)' <=> Queued(g)
      BY <1>0, <2>3, AppendedFiber, ThreadsAssumption DEF Fibers
    <2>5. UNCHANGED <<pc, m_state, m_cb, ft, cb_fiber, wakers, ended, aborted>>
      BY <2>1 DEF Spawn, fiberVars, threadVars
    <2>6. \A g \in Fibers : Grips(t, g)' <=> Grips(t, g)
      BY <2>5 DEF Grips, Running
    <2>7. \A g \in Fibers : FiberOK(g)'
      BY <1>0, <1>b, <2>4, <2>5, <2>6, NoFiber
    <2> QED BY <1>0, <2>4, <2>5, <2>7 DEF RInv
  <1>9. CASE \E thread \in Pins : SwitchTo(t, thread)
    BY <1>9, ThreadsAssumption DEF SwitchTo, InBody, NoHandover, Sequential
  <1> QED BY <1>1, <1>2, <1>3, <1>4, <1>5, <1>6, <1>7, <1>8, <1>9 DEF RunStep, BodyStep

\* A timer or an fd event queues the fiber it holds: nobody grips it, since the
\* only thread is in its idle fiber.
LEMMA RWake ==
  ASSUME IInv, OInv, OInv', RInv, NEW t \in Threads, NEW f \in Fibers, Wake(t, f)
  PROVE  RInv'
  <1>0. TypeOK /\ FibersQueuedOnce /\ (\A g \in Fibers : FiberOK(g)) /\ ~aborted
    BY DEF IInv, RInv
  <1>1. /\ pc[t] = "idleOut" /\ wakers[f] # 0
        /\ wakers' = [wakers EXCEPT ![f] = wakers[f] - 1]
        /\ Schedule(FiberTask(f, None))
        /\ UNCHANGED <<m_state, m_cb, pc, ft, cb_fiber, unscheduled, ended, aborted>>
    BY DEF Wake, fiberVars, threadVars
  <1>2. wakers[f] = 1 /\ Live(f) /\ Sequential
    BY <1>0, <1>1 DEF FiberOK, WaitingOK
  <1>3. Free(f)
    BY <1>1, <1>2 DEF Free, Grips, InFiberPcs, Sequential
  <1>4. m_state[f] = "HOLD" /\ ~Queued(f) /\ ~Unborn(f) /\ \A u \in Threads : cb_fiber[u] # f
    BY <1>0, <1>2, <1>3 DEF FiberOK, WaitingOK, QueuedOK, UnbornOK, KeptOK
  <1>5. PICK task \in Task : task = FiberTask(f, None)
    BY TaskTypes
  <1>6. task.fiber = f /\ Schedule(task)
    BY <1>1, <1>5 DEF FiberTask
  <1>7. FibersQueuedOnce' /\ \A g \in Fibers : Queued(g)' <=> Queued(g) \/ f = g
    BY <1>0, <1>4, <1>6, AppendedFiber
  <1>8. \A g \in Fibers : /\ Live(g)' <=> Live(g)
                          /\ \A u \in Threads : Grips(u, g)' <=> Grips(u, g)
    BY <1>1 DEF Live, Grips, Running
  <1>9. \A g \in Fibers : Unborn(g)' => Unborn(g)
    <2>1. \A g \in Fibers : Made(g) => Made(g)'
      BY <1>1 DEF Made
    <2> QED BY <1>1, <2>1, StaysBorn
  <1>10. wakers'[f] = 0 /\ \A g \in Fibers \ {f} : wakers'[g] = wakers[g]
    BY <1>0, <1>1, <1>2 DEF TypeOK
  <1>11. ASSUME NEW g \in Fibers \ {f} PROVE FiberOK(g)'
    BY <1>0, <1>1, <1>7, <1>8, <1>9, <1>10, FiberStays
  <1>12. FiberOK(f)'
    <2>1. Free(f)'
      BY <1>3, <1>8 DEF Free
    <2>2. QueuedOK(f)' /\ WaitingOK(f)' /\ KeptOK(f)' /\ LiveOK(f)'
      BY <1>1, <1>2, <1>4, <1>7, <1>8, <1>10, <2>1 DEF QueuedOK, WaitingOK, KeptOK, LiveOK
    <2> QED BY <1>4, <1>9, <2>1, <2>2, FiberFreed
  <1> QED BY <1>0, <1>1, <1>7, <1>11, <1>12 DEF RInv

LEMMA RInvInit == Init => RInv
  <1> SUFFICES ASSUME Init PROVE RInv
    OBVIOUS
  <1> USE ThreadsAssumption DEF Init
  <1>1. ~aborted /\ FibersQueuedOnce /\ \A g \in Fibers : ~Queued(g)
    BY DEF FibersQueuedOnce, Queued
  <1>2. \A g \in Fibers : Free(g) /\ ~Live(g) /\ wakers[g] = 0 /\ \A t \in Threads : cb_fiber[t] # g
    BY DEF Free, Grips, InFiberPcs, Live, Fibers
  <1>3. ASSUME NEW g \in Fibers PROVE FiberOK(g)
    <2>1. OneGrip(g) /\ (\A t \in Threads : Grips(t, g) => GripOK(t, g))
      BY <1>2 DEF OneGrip, Free
    <2>2. QueuedOK(g) /\ WaitingOK(g) /\ KeptOK(g) /\ LiveOK(g) /\ UnbornOK(g)
      BY <1>1, <1>2 DEF QueuedOK, WaitingOK, KeptOK, LiveOK, UnbornOK
    <2> QED BY <2>1, <2>2 DEF FiberOK
  <1> QED BY <1>1, <1>3 DEF RInv

LEMMA RInvStep ==
  ASSUME NoHandover
  PROVE  IInv /\ OInv /\ RInv /\ [Next]_vars => RInv'
  <1> SUFFICES ASSUME IInv, OInv, RInv, [Next]_vars PROVE RInv'
    OBVIOUS
  <1>0. /\ TypeOK /\ NotStarted /\ OInv'
        /\ FibersQueuedOnce /\ (\A g \in Fibers : FiberOK(g)) /\ ~aborted
    BY OInvStep DEF IInv, RInv
  <1>1. ASSUME NEW t \in Threads, ThreadStep(t)
        PROVE  RInv'
    BY <1>0, <1>1, RInvThread DEF ThreadStep
  <1>2. ASSUME UNCHANGED <<fiberVars, ft, cb_fiber, wakers, ended, aborted>>,
               \A u \in Threads : pc'[u] = pc[u] \/ (pc[u] = "off" /\ pc'[u] = "take"),
               FibersQueuedOnce', \A g \in Fibers : Queued(g)' <=> Queued(g)
        PROVE  RInv'
    <2>1. \A g \in Fibers : Unborn(g)' => Unborn(g)
      <3>1. \A g \in Fibers : Made(g) => Made(g)'
        BY <1>2 DEF Made, fiberVars
      <3> QED BY <1>0, <1>2, <3>1, StaysBorn
    <2>2. \A g \in Fibers : /\ Live(g)' <=> Live(g)
                            /\ \A u \in Threads : /\ Grips(u, g)' <=> Grips(u, g)
                                                  /\ Grips(u, g) => pc'[u] = pc[u]
      BY <1>2 DEF Live, Grips, Running, InFiberPcs, fiberVars
    <2>3. \A g \in Fibers : FiberOK(g)'
      BY <1>0, <1>2, <2>1, <2>2, FiberStays DEF fiberVars
    <2> QED BY <1>0, <1>2, <2>3 DEF RInv
  <1>3. m_fibers' = m_fibers => FibersQueuedOnce' /\ \A g \in Fibers : Queued(g)' <=> Queued(g)
    BY <1>0 DEF FibersQueuedOnce, Queued
  <1>4. CASE \E t \in Threads, f \in Fibers : Wake(t, f)
    BY <1>0, <1>4, RWake
  <1>5. CASE \E c \in Callbacks, thread \in Pins : MainSchedule(c, thread)
    <2>1. PICK c \in Callbacks, thread \in Pins : MainSchedule(c, thread)
      BY <1>5
    <2>2. PICK task \in Task : task = CbTask(c, thread)
      BY TaskTypes, ThreadsAssumption
    <2>3. task.fiber = None /\ Schedule(task)
      BY <2>1, <2>2 DEF MainSchedule, CbTask
    <2>4. FibersQueuedOnce' /\ \A g \in Fibers : Queued(g)' <=> Queued(g)
      BY <1>0, <2>3, AppendedFiber, ThreadsAssumption DEF Fibers
    <2> QED BY <1>2, <2>1, <2>4 DEF MainSchedule, threadVars
  <1>6. CASE Start
    BY <1>0, <1>2, <1>3, <1>6 DEF Start, NotStarted, schedVars, envVars
  <1>7. CASE StopBegin
    BY <1>2, <1>3, <1>7 DEF StopBegin, schedVars, threadVars, envVars
  <1>8. CASE StopMark \/ RootReturn \/ Join
    BY <1>2, <1>3, <1>8 DEF StopMark, RootReturn, Join, schedVars, threadVars, envVars
  <1>9. CASE StopCall
    <2>1. CASE UseCaller /\ ~Stopping
      <3>1. pc[Root] = "off" /\ pc' = [pc EXCEPT ![Root] = "take"]
        BY <1>0, <1>9, <2>1 DEF StopCall, NotStarted
      <3>2. \A u \in Threads : pc'[u] = pc[u] \/ (pc[u] = "off" /\ pc'[u] = "take")
        BY <1>0, <3>1 DEF TypeOK
      <3> QED BY <1>2, <1>3, <1>9, <3>2 DEF StopCall, schedVars, envVars
    <2>2. CASE ~(UseCaller /\ ~Stopping)
      BY <1>2, <1>3, <1>9, <2>2 DEF StopCall, schedVars, envVars
    <2> QED BY <2>1, <2>2
  <1>10. CASE UNCHANGED vars
    BY <1>2, <1>3, <1>10 DEF vars, schedVars, threadVars, envVars
  <1> QED BY <1>1, <1>4, <1>5, <1>6, <1>7, <1>8, <1>9, <1>10 DEF Next, StopStep, Over

-----------------------------------------------------------------------------
(* The theorems.                                                           *)

\* Who resumes a fiber, for a scheduler with one thread whose callbacks do
\* anything, and for one with any number of threads whose callbacks do not hand
\* their fiber over.
THEOREM FiberInvariance ==
  ASSUME NoHandover
  PROVE  Spec => [](IInv /\ OInv /\ RInv)
  BY IInvInit, IInvStep, OInvInit, OInvStep, RInvInit, RInvStep, PTL DEF Spec

\* Then no SATURN_ASSERT of swapIn() or reset() fails.
THEOREM AssertsHold ==
  ASSUME NoHandover
  PROVE  Spec => []NoAssertFails
  <1>1. RInv => NoAssertFails
    BY DEF RInv, NoAssertFails
  <1> QED BY <1>1, FiberInvariance, PTL

\* And a fiber that executes is in state EXEC.  Without the hypothesis this is
\* false: sched_hold_race shows it.
THEOREM ExecutingInExec ==
  ASSUME NoHandover
  PROVE  Spec => []ExecutingIsExec
  <1>1. ASSUME IInv, RInv, NEW t \in Threads, pc[t] = "body"
        PROVE  m_state[Running(t)] = "EXEC"
    <2>1. PICK f : f = Running(t)
      OBVIOUS
    <2>2. f \in Fibers /\ Grips(t, f)
      BY <1>1, <2>1, RunningFiber DEF IInv, InFiberPcs, Grips
    <2>3. GripOK(t, f)
      BY <1>1, <2>2 DEF RInv, FiberOK
    <2> QED BY <1>1, <2>1, <2>3 DEF GripOK
  <1>2. IInv /\ RInv => ExecutingIsExec
    BY <1>1 DEF ExecutingIsExec
  <1> QED BY <1>2, FiberInvariance, PTL

\* An unfinished fiber has exactly one party that will resume it: it is neither
\* stranded nor resumed twice.
THEOREM ResumedByOne ==
  ASSUME NoHandover
  PROVE  Spec => []OneResumer
  <1>1. ASSUME IInv, OInv, RInv PROVE OneResumer
    <2> SUFFICES ASSUME NEW f \in Fibers, Live(f)
                 PROVE  Cardinality(QueuedFiber(f)) + wakers[f] + Cardinality(HoldersOf(f)) = 1
      BY DEF OneResumer, Live
    <2>0. TypeOK /\ FiberOK(f) /\ FibersQueuedOnce /\ f # None /\ CbFiberFree
      BY <1>1, ThreadsAssumption DEF IInv, RInv, OInv, Fibers
    <2>1. \A t \in Threads :
            t \in HoldersOf(f) <=> Grips(t, f) /\ ~HandedOver(t)
      <3> SUFFICES ASSUME NEW t \in Threads
                   PROVE  t \in HoldersOf(f) <=> Grips(t, f) /\ ~HandedOver(t)
        OBVIOUS
      <3>1. pc[t] = "dispatch" => (Running(t) = f <=> ft[t].fiber = f)
        BY <2>0 DEF Running, Live, CbFiberFree, Resting, InFiberPcs
      <3> QED BY <3>1 DEF HoldersOf, Grips, InFiberPcs
    <2>2. ASSUME NEW t \in Threads, Grips(t, f)
          PROVE  HandedOver(t) <=> wakers[f] # 0
      <3>1. GripOK(t, f) /\ pc[t] \in InFiberPcs \cup {"dispatch"}
        BY <2>0, <2>2 DEF FiberOK, Grips
      <3>2. pc[t] # "dispatch" => Running(t) = f
        BY <2>2 DEF Grips
      <3> QED BY <3>1, <3>2 DEF GripOK, HandedOver, InFiberPcs
    <2>3. Cardinality({}) = 0 /\ \A x : Cardinality({x}) = 1
      BY FS_EmptySet, FS_Singleton
    <2>4. CASE Queued(f)
      <3>1. Free(f) /\ wakers[f] = 0
        BY <2>0, <2>4 DEF FiberOK, QueuedOK
      <3>2. HoldersOf(f) = {}
        BY <2>1, <3>1 DEF Free, HoldersOf
      <3>3. \E i \in 1..Len(m_fibers) : QueuedFiber(f) = {i}
        BY <2>0, <2>4 DEF Queued, QueuedFiber, FibersQueuedOnce
      <3>4. Cardinality(QueuedFiber(f)) = 1 /\ Cardinality(HoldersOf(f)) = 0
        BY <2>3, <3>2, <3>3
      <3> QED BY <3>1, <3>4
    <2>5. CASE wakers[f] # 0
      <3>1. wakers[f] = 1 /\ ~Queued(f)
        BY <2>0, <2>5 DEF FiberOK, WaitingOK, QueuedOK
      <3>2. QueuedFiber(f) = {} /\ HoldersOf(f) = {}
        BY <2>1, <2>2, <2>5, <3>1 DEF Queued, QueuedFiber, HoldersOf
      <3>3. Cardinality(QueuedFiber(f)) = 0 /\ Cardinality(HoldersOf(f)) = 0
        BY <2>3, <3>2
      <3> QED BY <3>1, <3>3
    <2>6. CASE ~Queued(f) /\ wakers[f] = 0
      <3>1. PICK t \in Threads : Grips(t, f)
        BY <2>0, <2>6 DEF FiberOK, LiveOK, Free
      <3>2. \A u \in Threads : Grips(u, f) => u = t
        BY <2>0, <3>1 DEF FiberOK, OneGrip
      <3>3. \A u \in Threads : u \in HoldersOf(f) <=> u = t
        BY <2>1, <2>2, <2>6, <3>1, <3>2
      <3>4. QueuedFiber(f) = {} /\ HoldersOf(f) = {t}
        BY <2>6, <3>3 DEF Queued, QueuedFiber, HoldersOf
      <3>5. Cardinality(QueuedFiber(f)) = 0 /\ Cardinality(HoldersOf(f)) = 1
        BY <2>3, <3>4
      <3> QED BY <2>6, <3>5
    <2> QED BY <2>4, <2>5, <2>6
  <1> QED BY <1>1, FiberInvariance, PTL

\* What stopping() tells its callers.  It does not say that nothing is left to
\* do: a thread that has left a fiber which yielded to READY is no longer counted
\* and has not yet queued the fiber again.
Unqueued(f) == \E t \in Threads : pc[t] = "settle" /\ Running(t) = f /\ m_state[f] = "READY"
StoppingMeans ==
    Stopping => \A c \in Callbacks \ (unscheduled \cup ended) :
                    \E f \in FibersOf(c) : wakers[f] > 0 \/ Unqueued(f)

\* When stopping() is true, every callback ever scheduled has ended, or waits for
\* a timer or an fd, or is about to be queued again by the thread that ran it:
\* nothing else falls between the queue and m_activeThreadCount.
THEOREM StoppingMissesOnlyYielded ==
  ASSUME NoHandover
  PROVE  Spec => []StoppingMeans
  <1>1. ASSUME IInv, OInv, RInv PROVE StoppingMeans
    <2> SUFFICES ASSUME Stopping, NEW c \in Callbacks \ (unscheduled \cup ended)
                 PROVE  \E f \in FibersOf(c) : wakers[f] > 0 \/ Unqueued(f)
      BY DEF StoppingMeans
    <2>1. m_fibers = <<>> /\ \A t \in Threads : pc[t] \notin ActivePcs
      BY <1>1, StoppingCounts
    <2>2. ~InQueue(c) /\ \A f \in Fibers : ~Queued(f)
      BY <2>1 DEF InQueue, Queued
    <2>3. ~Taken(c) /\ c # None
      BY <1>1, <2>1, ThreadsAssumption DEF OInv, CbsTakenOnce, Taken, ActivePcs
    <2>4. PICK f \in Fibers : m_cb[f] = c
      BY <1>1, <2>2, <2>3 DEF OInv, OnePlaceOf, Made
    <2>5. FiberOK(f) /\ Live(f) /\ wakers[f] \in Nat
      BY <1>1, <2>3, <2>4 DEF RInv, Live, IInv, TypeOK
    <2>6. ASSUME wakers[f] = 0 PROVE Unqueued(f)
      <3>1. PICK t \in Threads : Grips(t, f)
        BY <2>2, <2>5, <2>6 DEF FiberOK, LiveOK, Free
      <3>2. pc[t] \in {"settle", "setHold"} /\ Running(t) = f
        BY <2>1, <3>1 DEF Grips, InFiberPcs, ActivePcs
      <3>3. pc[t] = "settle" /\ m_state[f] = "READY"
        BY <2>5, <2>6, <3>1, <3>2 DEF FiberOK, GripOK
      <3> QED BY <3>2, <3>3 DEF Unqueued
    <2> QED BY <2>4, <2>5, <2>6 DEF FibersOf
  <1> QED BY <1>1, FiberInvariance, PTL

\* stop() forgets no callback: when it has returned, each one ever scheduled has
\* ended or waits for a timer or an fd.
THEOREM DrainsCallbacks ==
  ASSUME NoHandover, Pins = {None}, Threads # {}
  PROVE  Spec => []StopDrains
  <1>1. ASSUME DInv, OInv, RInv PROVE StopDrains
    <2> SUFFICES ASSUME mainPc = "stopped", NEW c \in Callbacks \ (unscheduled \cup ended)
                 PROVE  \E f \in FibersOf(c) : wakers[f] > 0
      BY DEF StopDrains
    <2>1. \A t \in Threads : pc[t] \in {"off", "exited"}
      BY <1>1 DEF DInv, Joined, WorkersExited, Threads
    <2>2. m_fibers = <<>>
      BY <1>1 DEF DInv, Drained, Joined, WorkersExited, Leaving, Threads
    <2>3. ~InQueue(c) /\ \A f \in Fibers : ~Queued(f)
      BY <2>2 DEF InQueue, Queued
    <2>4. ~Taken(c) /\ c # None
      BY <1>1, <2>1, ThreadsAssumption DEF OInv, CbsTakenOnce, Taken
    <2>5. PICK f \in Fibers : m_cb[f] = c
      BY <1>1, <2>3, <2>4 DEF OInv, OnePlaceOf, Made
    <2>6. FiberOK(f) /\ Live(f) /\ wakers[f] \in Nat
      BY <1>1, <2>4, <2>5 DEF RInv, Live, DInv, IInv, TypeOK
    <2>7. Free(f)
      BY <2>1 DEF Free, Grips, InFiberPcs
    <2>8. wakers[f] > 0
      BY <2>3, <2>6, <2>7 DEF FiberOK, LiveOK
    <2> QED BY <2>5, <2>8 DEF FibersOf
  <1>2. Spec => []DInv
    BY DInvInit, DInvStep, PTL DEF Spec
  <1> QED BY <1>1, <1>2, FiberInvariance, PTL
=============================================================================
