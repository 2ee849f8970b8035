------------------------- MODULE SchedulerTaskProofs -------------------------
(***************************************************************************)
(* Proofs about the tasks and fibers of Scheduler: no callback is lost or  *)
(* run twice, every unfinished fiber has one party that will resume it,    *)
(* and the root fiber may be destroyed after stop().                       *)
(***************************************************************************)
EXTENDS SchedulerProofs

\* Appending a task leaves the others where they are.
LEMMA Appended ==
  ASSUME TypeOK, NEW task \in Task, Schedule(task)
  PROVE  /\ Len(m_fibers) \in Nat
         /\ Len(m_fibers') = Len(m_fibers) + 1
         /\ \A i \in 1..Len(m_fibers) : m_fibers'[i] = m_fibers[i]
         /\ m_fibers'[Len(m_fibers) + 1] = task
  BY DEF TypeOK, Schedule

-----------------------------------------------------------------------------
(* The root fiber of a scheduler without threads of its own.               *)

\* Nothing takes from the queue before stop() calls the root fiber; so an empty
\* queue means that nothing was scheduled, and otherwise the root fiber is
\* called, and ends.
RootCalled ==
    UseCaller /\ Workers = {} =>
        /\ mainPc \in {"new", "running", "stopMark", "stopCall"} /\ m_fibers = <<>>
             => unscheduled = Callbacks
        /\ mainPc \in {"join", "stopped"} => rootState \in Reusable \/ unscheduled = Callbacks
        /\ mainPc \in {"join", "stopped"} => pc[Root] \in {"off", "exited"}

\* ~Scheduler() after stop() finds the root fiber in a state that ~Fiber()
\* accepts, on a scheduler without threads of its own that was given work.
THEOREM RootFiberDestroyable == Spec => []RootDestroyable
  <1>1. Init => RootCalled
    BY DEF Init, RootCalled
  <1>2. IInv /\ RootCalled /\ [Next]_vars => RootCalled'
    <2> SUFFICES ASSUME IInv, RootCalled, [Next]_vars, UseCaller, Workers = {}
                 PROVE  RootCalled'
      BY DEF RootCalled
    <2>0. TypeOK /\ NotStarted /\ Threads = {Root}
      BY DEF IInv, Threads
    <2>1. ASSUME NEW t \in Threads, ThreadStep(t)
          PROVE  RootCalled'
      <3>1. pc[Root] \notin {"off", "exited"} /\ UNCHANGED <<mainPc, rootState>>
        BY <2>0, <2>1, OnlyOwnLocals DEF ThreadStep, stopVars
      <3>2. mainPc = "inRoot"
        BY <2>0, <3>1 DEF NotStarted, RootCalled, TypeOK
      <3> QED BY <3>1, <3>2 DEF RootCalled
    <2>2. CASE \E t \in Threads, f \in Fibers : Wake(t, f)
      <3>1. pc[Root] = "idleOut" /\ UNCHANGED <<mainPc, rootState>>
        BY <2>0, <2>2 DEF Wake, stopVars
      <3>2. mainPc = "inRoot"
        BY <2>0, <3>1 DEF NotStarted, RootCalled, TypeOK
      <3> QED BY <3>1, <3>2 DEF RootCalled
    <2>3. CASE \E c \in Callbacks, thread \in Pins : MainSchedule(c, thread)
      <3>1. PICK task \in Task : Schedule(task)
        BY <2>3, TaskTypes, ThreadsAssumption DEF MainSchedule
      <3>2. m_fibers' # <<>>
        BY <2>0, <3>1, Appended
      <3> QED BY <2>3, <3>2 DEF MainSchedule, stopVars, RootCalled
    <2>4. CASE Start
      BY <2>4 DEF Start, RootCalled, schedVars, envVars
    <2>5. CASE StopBegin
      <3>1. pc[Root] = "off"
        BY <2>0, <2>5 DEF StopBegin, NotStarted
      <3>2. mainPc' = "stopMark" \/ (mainPc' = "stopped" /\ m_fibers = <<>>)
        BY <2>5 DEF StopBegin
      <3> QED BY <2>5, <3>1, <3>2 DEF StopBegin, RootCalled, schedVars, envVars, threadVars
    <2>6. CASE StopMark
      BY <2>6 DEF StopMark, RootCalled, schedVars, envVars, threadVars
    <2>7. CASE StopCall
      <3>1. CASE ~Stopping
        BY <2>7, <3>1 DEF StopCall, RootCalled
      <3>2. CASE Stopping
        <4>1. m_fibers = <<>> /\ pc[Root] = "off"
          BY <2>0, <2>7, <3>2 DEF Stopping, StopCall, NotStarted
        <4> QED BY <2>7, <3>2, <4>1 DEF StopCall, RootCalled, envVars
      <3> QED BY <3>1, <3>2
    <2>8. CASE RootReturn
      BY <2>8 DEF RootReturn, RootCalled, Reusable, threadVars
    <2>9. CASE Join
      BY <2>9 DEF Join, RootCalled, threadVars, envVars
    <2>10. CASE UNCHANGED vars
      BY <2>10 DEF vars, schedVars, stopVars, threadVars, envVars, RootCalled
    <2> QED BY <2>1, <2>2, <2>3, <2>4, <2>5, <2>6, <2>7, <2>8, <2>9, <2>10
            DEF Next, StopStep, Over
  <1>3. RootCalled => RootDestroyable
    BY DEF RootCalled, RootDestroyable
  <1> QED BY <1>1, <1>2, <1>3, Invariance, PTL DEF Spec

-----------------------------------------------------------------------------
(* No callback is lost or run twice.                                       *)
(*                                                                         *)
(* A callback goes from main or its spawner into the queue, from there     *)
(* into a thread's local ft, and from there into the m_cb of a fiber.      *)
(* Each move must find the next place free: a new Fiber has no callback,   *)
(* and the cb_fiber that run() keeps is its own, and its last callback has *)
(* been cleared or has ended.  The last point is the hard one, since two   *)
(* threads may be switched into one fiber (ExecutingIsExec is false).      *)

InQueue(c) == \E i \in 1..Len(m_fibers) : m_fibers[i].cb = c
Taken(c) == \E t \in Threads : ft[t].cb = c
Made(c) == \E f \in Fibers : m_cb[f] = c

\* A task is a fiber or a callback, never both.
Pure(task) == task.fiber = None \/ task.cb = None
TasksPure ==
    /\ \A i \in 1..Len(m_fibers) : Pure(m_fibers[i])
    /\ \A t \in Threads : Pure(ft[t])

CbsQueuedOnce ==
    \A i, j \in 1..Len(m_fibers) :
        m_fibers[i].cb # None /\ m_fibers[i].cb = m_fibers[j].cb => i = j
CbsTakenOnce ==
    \A t, u \in Threads :
        ft[t].cb # None => pc[t] = "dispatch" /\ (ft[t].cb = ft[u].cb => t = u)
CbsMadeOnce ==
    \A f, g \in Fibers :
        m_cb[f] # None /\ m_cb[f] \notin ended /\ m_cb[f] = m_cb[g] => f = g

OnePlaceOf(c) ==
    /\ c \in unscheduled => ~InQueue(c) /\ ~Taken(c) /\ ~Made(c) /\ c \notin ended
    /\ c \in ended => ~InQueue(c) /\ ~Taken(c)
    /\ InQueue(c) => ~Taken(c) /\ ~Made(c)
    /\ Taken(c) => ~Made(c)
    /\ c \in unscheduled \/ c \in ended \/ InQueue(c) \/ Taken(c) \/ Made(c)

\* No two threads keep the same cb_fiber.
CbFiberOwn ==
    \A t, u \in Threads : cb_fiber[t] # None /\ cb_fiber[t] = cb_fiber[u] => t = u

\* The cb_fiber a thread is not switched into has no callback.
Resting(t) == pc[t] \notin InFiberPcs \/ ft[t].fiber # None
CbFiberFree ==
    \A t \in Threads : cb_fiber[t] # None /\ Resting(t) => m_cb[cb_fiber[t]] = None

\* What SettleEnded relies on: the callback of an ended fiber has ended.
EndedStates ==
    \A f \in Fibers :
        m_state[f] \in {"TERM", "EXCEPT"} => m_cb[f] = None \/ m_cb[f] \in ended

\* The Fiber that may be constructed for c does not exist before c is taken.
Unmade(c) ==
    c \in unscheduled \/ InQueue(c) \/ Taken(c) =>
        m_cb[c] = None /\ \A t \in Threads : cb_fiber[t] # c

OInv ==
    /\ TasksPure
    /\ CbsQueuedOnce /\ CbsTakenOnce /\ CbsMadeOnce
    /\ \A c \in Callbacks : OnePlaceOf(c)
    /\ CbFiberOwn /\ CbFiberFree
    /\ EndedStates
    /\ \A c \in Callbacks : Unmade(c)

\* Erasing entry i keeps every other entry, in its order.
LEMMA Erased ==
  ASSUME TypeOK, NEW i \in 1..Len(m_fibers), m_fibers' = QueueWithout(i)
  PROVE  /\ Len(m_fibers) \in Nat
         /\ Len(m_fibers') = Len(m_fibers) - 1
         /\ \A j \in 1..Len(m_fibers') :
              m_fibers'[j] = IF j < i THEN m_fibers[j] ELSE m_fibers[j + 1]
         /\ \A k \in 1..Len(m_fibers) \ {i} :
              \E j \in 1..Len(m_fibers') : m_fibers'[j] = m_fibers[k]
  <1>1. Len(m_fibers) \in Nat /\ Len(m_fibers') = Len(m_fibers) - 1
    BY QueueWithoutType DEF TypeOK
  <1>2. \A j \in 1..Len(m_fibers') :
          m_fibers'[j] = IF j < i THEN m_fibers[j] ELSE m_fibers[j + 1]
    BY <1>1 DEF QueueWithout
  <1>3. ASSUME NEW k \in 1..Len(m_fibers) \ {i}
        PROVE  \E j \in 1..Len(m_fibers') : m_fibers'[j] = m_fibers[k]
    <2>1. CASE k < i
      BY <1>1, <1>2, <2>1
    <2>2. CASE ~(k < i)
      <3>1. k - 1 \in 1..Len(m_fibers') /\ ~(k - 1 < i) /\ (k - 1) + 1 = k
        BY <1>1, <2>2
      <3> QED BY <1>2, <3>1
    <2> QED BY <2>1, <2>2
  <1> QED BY <1>1, <1>2, <1>3

\* What the two do to the callbacks in the queue.
LEMMA AppendedCb ==
  ASSUME TypeOK, CbsQueuedOnce, NEW task \in Task, Schedule(task),
         task.cb # None => ~InQueue(task.cb)
  PROVE  /\ CbsQueuedOnce'
         /\ \A c \in Callbacks : InQueue(c)' <=> InQueue(c) \/ task.cb = c
  <1>1. /\ Len(m_fibers) \in Nat
        /\ Len(m_fibers') = Len(m_fibers) + 1
        /\ \A i \in 1..Len(m_fibers) : m_fibers'[i] = m_fibers[i]
        /\ m_fibers'[Len(m_fibers) + 1] = task
    BY Appended
  <1>2. \A i \in 1..Len(m_fibers') :
          i \in 1..Len(m_fibers) \/ i = Len(m_fibers) + 1
    BY <1>1
  <1>3. 1..Len(m_fibers) \subseteq 1..Len(m_fibers') /\ Len(m_fibers) + 1 \in 1..Len(m_fibers')
    BY <1>1
  <1>4. CbsQueuedOnce'
    BY <1>1, <1>2 DEF CbsQueuedOnce, InQueue
  <1>5. \A c \in Callbacks : InQueue(c)' <=> InQueue(c) \/ task.cb = c
    BY <1>1, <1>2, <1>3 DEF InQueue
  <1> QED BY <1>4, <1>5

LEMMA ErasedCb ==
  ASSUME TypeOK, CbsQueuedOnce, NEW i \in 1..Len(m_fibers), m_fibers' = QueueWithout(i)
  PROVE  /\ CbsQueuedOnce'
         /\ \A c \in Callbacks : InQueue(c)' <=> InQueue(c) /\ m_fibers[i].cb # c
  <1>1. /\ Len(m_fibers) \in Nat
        /\ Len(m_fibers') = Len(m_fibers) - 1
        /\ \A j \in 1..Len(m_fibers') :
             m_fibers'[j] = IF j < i THEN m_fibers[j] ELSE m_fibers[j + 1]
        /\ \A k \in 1..Len(m_fibers) \ {i} :
             \E j \in 1..Len(m_fibers') : m_fibers'[j] = m_fibers[k]
    BY Erased
  <1> DEFINE from(j) == IF j < i THEN j ELSE j + 1
  <1>2. \A j \in 1..Len(m_fibers') :
          from(j) \in 1..Len(m_fibers) /\ from(j) # i /\ m_fibers'[j] = m_fibers[from(j)]
    BY <1>1
  <1>3. \A j, k \in 1..Len(m_fibers') : from(j) = from(k) => j = k
    BY <1>1
  <1> HIDE DEF from
  <1>4. CbsQueuedOnce'
    BY <1>2, <1>3 DEF CbsQueuedOnce
  <1>5. ASSUME NEW c \in Callbacks
        PROVE  InQueue(c)' <=> InQueue(c) /\ m_fibers[i].cb # c
    <2>1. c # None
      BY ThreadsAssumption
    <2>2. InQueue(c)' => InQueue(c) /\ m_fibers[i].cb # c
      BY <1>2, <2>1 DEF InQueue, CbsQueuedOnce
    <2>3. InQueue(c) /\ m_fibers[i].cb # c => InQueue(c)'
      BY <1>1 DEF InQueue
    <2> QED BY <2>2, <2>3
  <1> QED BY <1>4, <1>5

\* A step that moves no callback: it may queue fibers, switch, change states other
\* than to an end, and let go of fibers.
LEMMA CallbacksStay ==
  ASSUME TypeOK, OInv, TypeOK',
         TasksPure', CbsQueuedOnce',
         \A c \in Callbacks : InQueue(c)' <=> InQueue(c),
         UNCHANGED <<m_cb, unscheduled, ended>>,
         \A u \in Threads :
            /\ ft'[u].cb = ft[u].cb
            /\ pc[u] = "dispatch" => pc'[u] = "dispatch" \/ ft[u].cb = None
            /\ cb_fiber'[u] \in {cb_fiber[u], None}
            /\ cb_fiber'[u] # None /\ Resting(u)' => Resting(u),
         \A f \in Fibers :
            m_state'[f] \in {"TERM", "EXCEPT"} => m_state[f] \in {"TERM", "EXCEPT"}
  PROVE  OInv'
  <1>1. \A c \in Callbacks : (Taken(c)' <=> Taken(c)) /\ (Made(c)' <=> Made(c))
    BY DEF Taken, Made
  <1>2. \A c \in Callbacks : OnePlaceOf(c)'
    BY <1>1 DEF OInv, OnePlaceOf
  <1>3. CbsTakenOnce' /\ CbsMadeOnce'
    BY DEF OInv, CbsTakenOnce, CbsMadeOnce
  <1>4. CbFiberOwn'
    BY DEF OInv, CbFiberOwn
  <1>5. CbFiberFree'
    BY DEF OInv, CbFiberFree
  <1>6. EndedStates'
    BY DEF OInv, EndedStates
  <1>7. \A c \in Callbacks : Unmade(c)'
    BY <1>1, ThreadsAssumption DEF OInv, Unmade
  <1> QED BY <1>2, <1>3, <1>4, <1>5, <1>6, <1>7 DEF OInv

\* Giving a callback to schedule(), from main or from a callback.
LEMMA CallbackScheduled ==
  ASSUME TypeOK, OInv, NEW c \in unscheduled, NEW thread \in Pins,
         Schedule(CbTask(c, thread)), unscheduled' = unscheduled \ {c},
         UNCHANGED <<fiberVars, threadVars, ended>>
  PROVE  OInv'
  <1> DEFINE task == CbTask(c, thread)
  <1>1. c \in Callbacks /\ c # None /\ task \in Task /\ task.cb = c /\ task.fiber = None
    BY TaskTypes, ThreadsAssumption DEF TypeOK, CbTask
  <1>2. UNCHANGED <<m_state, m_cb, pc, ft, cb_fiber, ended>>
    BY DEF fiberVars, threadVars
  <1>p. /\ TasksPure /\ CbsQueuedOnce /\ CbsTakenOnce /\ CbsMadeOnce
        /\ CbFiberOwn /\ CbFiberFree /\ EndedStates
        /\ \A d \in Callbacks : OnePlaceOf(d) /\ Unmade(d)
    BY DEF OInv
  <1> HIDE DEF task
  <1>s. Schedule(task)
    BY DEF task
  <1>3. ~InQueue(c)
    BY <1>1, <1>p DEF OnePlaceOf
  <1>4. CbsQueuedOnce' /\ \A d \in Callbacks : InQueue(d)' <=> InQueue(d) \/ c = d
    BY <1>1, <1>3, <1>s, <1>p, AppendedCb
  <1>5. TasksPure'
    <2>1. /\ Len(m_fibers) \in Nat
          /\ Len(m_fibers') = Len(m_fibers) + 1
          /\ \A i \in 1..Len(m_fibers) : m_fibers'[i] = m_fibers[i]
          /\ m_fibers'[Len(m_fibers) + 1] = task
      BY <1>1, <1>s, Appended
    <2>2. \A i \in 1..Len(m_fibers') : i \in 1..Len(m_fibers) \/ i = Len(m_fibers) + 1
      BY <2>1
    <2> QED BY <1>1, <1>2, <1>p, <2>1, <2>2 DEF TasksPure, Pure
  <1>6. \A d \in Callbacks : (Taken(d)' <=> Taken(d)) /\ (Made(d)' <=> Made(d))
    BY <1>2 DEF Taken, Made
  <1>7. \A d \in Callbacks : OnePlaceOf(d)'
    BY <1>1, <1>2, <1>4, <1>6, <1>p DEF OnePlaceOf
  <1>8. \A d \in Callbacks : Unmade(d)'
    BY <1>1, <1>2, <1>4, <1>6, <1>p DEF Unmade
  <1>9. CbsTakenOnce' /\ CbsMadeOnce' /\ CbFiberOwn' /\ EndedStates'
    BY <1>2, <1>p DEF CbsTakenOnce, CbsMadeOnce, CbFiberOwn, EndedStates
  <1>10. CbFiberFree'
    BY <1>2, <1>p DEF CbFiberFree, Resting
  <1> QED BY <1>4, <1>5, <1>7, <1>8, <1>9, <1>10 DEF OInv

\* run() takes a task: a callback moves from the queue into ft.
LEMMA CallbackTaken ==
  ASSUME IInv, OInv, NEW t \in Threads, Take(t)
  PROVE  OInv'
  <1>0. TypeOK
    BY DEF IInv
  <1>p. /\ TasksPure /\ CbsQueuedOnce /\ CbsTakenOnce /\ CbsMadeOnce
        /\ CbFiberOwn /\ CbFiberFree /\ EndedStates
        /\ \A d \in Callbacks : OnePlaceOf(d) /\ Unmade(d)
    BY DEF OInv
  <1>1. PICK i \in 1..Len(m_fibers) : ft' = [ft EXCEPT ![t] = m_fibers[i]] /\ m_fibers' = QueueWithout(i)
    BY DEF Take, Takeable
  <1>2. PICK task : task = m_fibers[i]
    OBVIOUS
  <1>3. task \in Task /\ Pure(task) /\ task.cb \in Callbacks \cup {None}
    <2>1. task \in Task
      BY <1>0, <1>2 DEF TypeOK
    <2>2. Pure(task)
      BY <1>2, <1>p DEF TasksPure
    <2> QED BY <2>1, <2>2 DEF Task
  <1>4. UNCHANGED <<m_state, m_cb, cb_fiber, unscheduled, ended>> /\ pc[t] = "take" /\ pc' = [pc EXCEPT ![t] = "dispatch"]
    BY DEF Take, fiberVars, envVars
  <1>5. ft'[t] = task /\ \A u \in Threads \ {t} : ft'[u] = ft[u] /\ pc'[u] = pc[u]
    BY <1>0, <1>1, <1>2, <1>4 DEF TypeOK
  <1>6. pc'[t] = "dispatch" /\ ft[t].cb = None
    BY <1>0, <1>4, <1>p DEF TypeOK, CbsTakenOnce
  <1>7. CbsQueuedOnce' /\ \A d \in Callbacks : InQueue(d)' <=> InQueue(d) /\ task.cb # d
    BY <1>0, <1>1, <1>2, <1>p, ErasedCb
  <1>8. \A d \in Callbacks : task.cb = d => InQueue(d)
    BY <1>2 DEF InQueue
  <1>9. \A d \in Callbacks : Taken(d)' <=> Taken(d) \/ task.cb = d
    BY <1>5, <1>6, ThreadsAssumption DEF Taken
  <1>10. \A d \in Callbacks : Made(d)' <=> Made(d)
    BY <1>4 DEF Made
  <1>11. TasksPure'
    <2>1. \A j \in 1..Len(m_fibers') : \E k \in 1..Len(m_fibers) : m_fibers'[j] = m_fibers[k]
      BY <1>0, <1>1, QueueWithoutType DEF TypeOK
    <2> QED BY <1>3, <1>5, <1>p, <2>1 DEF TasksPure
  <1>12. \A d \in Callbacks : OnePlaceOf(d)'
    BY <1>4, <1>7, <1>8, <1>9, <1>10, <1>p DEF OnePlaceOf
  <1>13. \A d \in Callbacks : Unmade(d)'
    BY <1>4, <1>7, <1>8, <1>9, <1>p DEF Unmade
  <1>14. CbsTakenOnce'
    <2>1. ASSUME NEW u \in Threads \ {t}, ft[u].cb # None
          PROVE  ft[u].cb # task.cb
      <3>1. ft[u].cb \in Callbacks
        BY <1>0, <2>1 DEF TypeOK, Task
      <3> QED BY <1>8, <1>p, <3>1 DEF OnePlaceOf, Taken
    <2> QED BY <1>5, <1>6, <1>p, <2>1 DEF CbsTakenOnce
  <1>15. CbFiberFree'
    BY <1>4, <1>5, <1>p DEF CbFiberFree, Resting, InFiberPcs
  <1>16. CbsMadeOnce' /\ CbFiberOwn' /\ EndedStates'
    BY <1>4, <1>p DEF CbsMadeOnce, CbFiberOwn, EndedStates
  <1> QED BY <1>7, <1>11, <1>12, <1>13, <1>14, <1>15, <1>16 DEF OInv

\* run() starts a callback: it moves from ft into a fiber that had none.
LEMMA CallbackStarted ==
  ASSUME IInv, OInv, NEW t \in Threads, DispatchCb(t)
  PROVE  OInv'
  <1>0. TypeOK /\ HasTask(t)
    BY DEF IInv
  <1>p. /\ TasksPure /\ CbsQueuedOnce /\ CbsTakenOnce /\ CbsMadeOnce
        /\ CbFiberOwn /\ CbFiberFree /\ EndedStates
        /\ \A d \in Callbacks : OnePlaceOf(d) /\ Unmade(d)
    BY DEF OInv
  <1>1. PICK c : c = ft[t].cb
    OBVIOUS
  <1>2. PICK f : f = IF cb_fiber[t] # None THEN cb_fiber[t] ELSE c
    OBVIOUS
  <1>3. c \in Callbacks /\ c # None /\ f \in Fibers /\ f # None
    BY <1>0, <1>1, <1>2, ThreadsAssumption DEF DispatchCb, HasTask, TaskNonEmpty, TypeOK, Task, Fibers
  <1>4. /\ pc[t] = "dispatch" /\ ft[t].fiber = None
        /\ cb_fiber' = [cb_fiber EXCEPT ![t] = f]
        /\ m_cb' = [m_cb EXCEPT ![f] = c]
        /\ ft' = [ft EXCEPT ![t] = NoTask]
        /\ pc' = [pc EXCEPT ![t] = "swapIn"]
        /\ UNCHANGED <<m_fibers, unscheduled, ended>>
    BY <1>1, <1>2 DEF DispatchCb, schedVars, envVars
  <1>5. m_cb[f] = None
    <2>1. CASE cb_fiber[t] # None
      BY <1>2, <1>4, <1>p, <2>1 DEF CbFiberFree, Resting, InFiberPcs
    <2>2. CASE cb_fiber[t] = None
      BY <1>1, <1>2, <1>3, <1>p, <2>2 DEF Unmade, Taken
    <2> QED BY <2>1, <2>2
  <1>6. \A u \in Threads \ {t} : cb_fiber[u] # f
    <2>1. CASE cb_fiber[t] # None
      BY <1>2, <1>p, <2>1 DEF CbFiberOwn
    <2>2. CASE cb_fiber[t] = None
      BY <1>1, <1>2, <1>3, <1>p, <2>2 DEF Unmade, Taken
    <2> QED BY <2>1, <2>2
  <1>7. /\ ft'[t] = NoTask /\ cb_fiber'[t] = f /\ pc'[t] = "swapIn"
        /\ \A u \in Threads \ {t} : ft'[u] = ft[u] /\ cb_fiber'[u] = cb_fiber[u] /\ pc'[u] = pc[u]
        /\ m_cb'[f] = c
        /\ \A g \in Fibers \ {f} : m_cb'[g] = m_cb[g]
    BY <1>0, <1>3, <1>4 DEF TypeOK
  <1>8. NoTask.cb = None /\ NoTask.fiber = None
    BY DEF NoTask
  <1>9. \A d \in Callbacks : /\ InQueue(d)' <=> InQueue(d)
                             /\ Taken(d)' <=> Taken(d) /\ d # c
                             /\ Made(d)' <=> Made(d) \/ d = c
    <2>1. \A d \in Callbacks : InQueue(d)' <=> InQueue(d)
      BY <1>4 DEF InQueue
    <2>2. \A d \in Callbacks : Taken(d)' <=> Taken(d) /\ d # c
      BY <1>1, <1>3, <1>7, <1>8, <1>p, ThreadsAssumption DEF Taken, CbsTakenOnce
    <2>3. \A d \in Callbacks : Made(d)' <=> Made(d) \/ d = c
      BY <1>3, <1>5, <1>7, ThreadsAssumption DEF Made
    <2> QED BY <2>1, <2>2, <2>3
  <1>10. Taken(c)
    BY <1>1 DEF Taken
  <1>11. c \notin ended /\ c \notin unscheduled /\ ~InQueue(c) /\ ~Made(c)
    BY <1>3, <1>10, <1>p DEF OnePlaceOf
  <1>12. \A d \in Callbacks : OnePlaceOf(d)'
    BY <1>4, <1>9, <1>10, <1>11, <1>p DEF OnePlaceOf
  <1>13. ASSUME NEW d \in Callbacks
         PROVE  Unmade(d)'
    <2>1. SUFFICES ASSUME d \in unscheduled \/ InQueue(d) \/ (Taken(d) /\ d # c)
                   PROVE  m_cb'[d] = None /\ \A u \in Threads : cb_fiber'[u] # d
      BY <1>4, <1>9 DEF Unmade
    <2>2. m_cb[d] = None /\ (\A u \in Threads : cb_fiber[u] # d) /\ d # c
      BY <1>11, <1>p, <2>1 DEF Unmade
    <2>3. f # d
      BY <1>2, <2>2
    <2> QED BY <1>7, <2>2, <2>3 DEF Fibers
  <1>14. TasksPure' /\ CbsQueuedOnce'
    BY <1>4, <1>7, <1>8, <1>p DEF TasksPure, CbsQueuedOnce, Pure
  <1>15. CbsTakenOnce'
    BY <1>7, <1>8, <1>p DEF CbsTakenOnce
  <1>16. CbsMadeOnce'
    BY <1>4, <1>7, <1>11, <1>p DEF CbsMadeOnce, Made
  <1>17. CbFiberOwn'
    BY <1>6, <1>7, <1>p DEF CbFiberOwn
  <1>18. CbFiberFree'
    <2>1. ASSUME NEW u \in Threads \ {t}, cb_fiber[u] # None, Resting(u)
          PROVE  m_cb'[cb_fiber[u]] = None
      <3>1. cb_fiber[u] \in Fibers \ {f}
        BY <1>0, <1>6, <2>1 DEF TypeOK
      <3> QED BY <1>7, <1>p, <2>1, <3>1 DEF CbFiberFree
    <2>2. ~Resting(t)'
      BY <1>7, <1>8 DEF Resting, InFiberPcs
    <2> QED BY <1>7, <2>1, <2>2 DEF CbFiberFree, Resting
  <1>19. EndedStates'
    <2>1. m_state'[f] \notin {"TERM", "EXCEPT"} /\ \A g \in Fibers \ {f} : m_state'[g] = m_state[g]
      <3>1. CASE cb_fiber[t] # None
        BY <1>0, <1>1, <1>2, <1>3, <3>1 DEF DispatchCb, TypeOK
      <3>2. CASE cb_fiber[t] = None
        BY <1>0, <1>1, <1>2, <1>3, <3>2, BodyAssumption DEF DispatchCb, TypeOK
      <3> QED BY <3>1, <3>2
    <2> QED BY <1>4, <1>7, <1>p, <2>1 DEF EndedStates
  <1> QED BY <1>12, <1>13, <1>14, <1>15, <1>16, <1>17, <1>18, <1>19 DEF OInv

\* run() settles an ended fiber: what reset(nullptr) clears has ended.
LEMMA CallbackCleared ==
  ASSUME IInv, OInv, NEW t \in Threads, SettleEnded(t)
  PROVE  OInv'
  <1>0. TypeOK /\ HasTask(t) /\ pc[t] = "settle"
    BY DEF IInv, SettleEnded
  <1>p. /\ TasksPure /\ CbsQueuedOnce /\ CbsTakenOnce /\ CbsMadeOnce
        /\ CbFiberOwn /\ CbFiberFree /\ EndedStates
        /\ \A d \in Callbacks : OnePlaceOf(d) /\ Unmade(d)
    BY DEF OInv
  <1>1. ft[t].cb = None
    BY <1>0, <1>p DEF CbsTakenOnce
  <1>2. /\ ft' = [ft EXCEPT ![t] = NoTask] /\ pc' = [pc EXCEPT ![t] = "take"]
        /\ UNCHANGED <<m_fibers, cb_fiber, unscheduled, ended>>
    BY DEF SettleEnded, schedVars, envVars
  <1>3. /\ ft'[t] = NoTask /\ pc'[t] = "take"
        /\ \A u \in Threads \ {t} : ft'[u] = ft[u] /\ pc'[u] = pc[u]
    BY <1>0, <1>2 DEF TypeOK
  <1>4. NoTask.cb = None /\ NoTask.fiber = None
    BY DEF NoTask
  <1>5. \A g \in Fibers : /\ m_cb'[g] = m_cb[g] \/ (m_cb'[g] = None /\ (m_cb[g] = None \/ m_cb[g] \in ended))
                          /\ m_state'[g] \in {"TERM", "EXCEPT"} => m_state'[g] = m_state[g] /\ m_cb'[g] = m_cb[g]
    <2>1. CASE ft[t].fiber # None
      BY <2>1 DEF SettleEnded, fiberVars
    <2>2. CASE ft[t].fiber = None
      <3>1. Running(t) = cb_fiber[t] /\ cb_fiber[t] \in Fibers
        BY <1>0, <2>2, RunningFiber DEF InFiberPcs
      <3>2. m_cb[cb_fiber[t]] = None \/ m_cb[cb_fiber[t]] \in ended
        BY <1>p, <3>1 DEF SettleEnded, EndedStates
      <3> QED BY <1>0, <2>2, <3>1, <3>2 DEF SettleEnded, TypeOK
    <2> QED BY <2>1, <2>2
  <1>6. cb_fiber[t] # None => m_cb'[cb_fiber[t]] = None
    <2>1. CASE ft[t].fiber # None
      BY <1>p, <2>1 DEF SettleEnded, fiberVars, CbFiberFree, Resting
    <2>2. CASE ft[t].fiber = None
      BY <1>0, <2>2 DEF SettleEnded, TypeOK
    <2> QED BY <2>1, <2>2
  <1>7. \A d \in Callbacks : /\ InQueue(d)' <=> InQueue(d)
                             /\ Taken(d)' <=> Taken(d)
                             /\ Made(d)' => Made(d)
                             /\ d \in ended \/ (Made(d) => Made(d)')
    <2>1. \A d \in Callbacks : InQueue(d)' <=> InQueue(d)
      BY <1>2 DEF InQueue
    <2>2. \A d \in Callbacks : Taken(d)' <=> Taken(d)
      BY <1>1, <1>3, <1>4, ThreadsAssumption DEF Taken
    <2>3. \A d \in Callbacks : (Made(d)' => Made(d)) /\ (d \in ended \/ (Made(d) => Made(d)'))
      BY <1>5, ThreadsAssumption DEF Made
    <2> QED BY <2>1, <2>2, <2>3
  <1>8. \A d \in Callbacks : OnePlaceOf(d)'
    BY <1>2, <1>7, <1>p DEF OnePlaceOf
  <1>9. \A d \in Callbacks : Unmade(d)'
    <2>1. \A d \in Callbacks : m_cb[d] = None => m_cb'[d] = None
      BY <1>5 DEF Fibers
    <2> QED BY <1>2, <1>7, <1>p, <2>1 DEF Unmade
  <1>10. TasksPure' /\ CbsQueuedOnce'
    BY <1>2, <1>3, <1>4, <1>p DEF TasksPure, CbsQueuedOnce, Pure
  <1>11. CbsTakenOnce' /\ CbFiberOwn'
    BY <1>2, <1>3, <1>4, <1>p DEF CbsTakenOnce, CbFiberOwn
  <1>12. CbsMadeOnce'
    BY <1>2, <1>5, <1>p DEF CbsMadeOnce
  <1>13. CbFiberFree'
    <2>1. ASSUME NEW u \in Threads \ {t}, cb_fiber[u] # None, Resting(u)
          PROVE  m_cb'[cb_fiber[u]] = None
      <3>1. cb_fiber[u] \in Fibers /\ m_cb[cb_fiber[u]] = None
        BY <1>0, <1>p, <2>1 DEF TypeOK, CbFiberFree
      <3> QED BY <1>5, <3>1
    <2> QED BY <1>2, <1>3, <1>6, <2>1 DEF CbFiberFree, Resting
  <1>14. EndedStates'
    BY <1>2, <1>5, <1>p DEF EndedStates
  <1> QED BY <1>8, <1>9, <1>10, <1>11, <1>12, <1>13, <1>14 DEF OInv

\* A callback returns or throws: it was made, so it is nowhere else.
LEMMA CallbackEnds ==
  ASSUME IInv, OInv, NEW t \in Threads, Return(t) \/ Throw(t)
  PROVE  OInv'
  <1>0. TypeOK /\ HasTask(t) /\ pc[t] = "body"
    BY DEF IInv, Return, Throw, InBody, Executing
  <1>p. /\ TasksPure /\ CbsQueuedOnce /\ CbsTakenOnce /\ CbsMadeOnce
        /\ CbFiberOwn /\ CbFiberFree /\ EndedStates
        /\ \A d \in Callbacks : OnePlaceOf(d) /\ Unmade(d)
    BY DEF OInv
  <1>1. PICK f : f = Running(t)
    OBVIOUS
  <1>2. PICK c : c = m_cb[f]
    OBVIOUS
  <1>3. f \in Fibers /\ c \in Callbacks /\ c # None
    <2>1. f \in Fibers
      BY <1>0, <1>1, RunningFiber DEF InFiberPcs
    <2> QED BY <1>0, <1>1, <1>2, <2>1 DEF Return, Throw, InBody, Executing, TypeOK
  <1>4. /\ ended' = ended \cup {c}
        /\ \E s \in {"TERM", "EXCEPT"} : m_state' = [m_state EXCEPT ![f] = s]
        /\ m_cb' = m_cb \/ m_cb' = [m_cb EXCEPT ![f] = None]
        /\ pc' = [pc EXCEPT ![t] = "yield"]
        /\ UNCHANGED <<m_fibers, ft, cb_fiber, unscheduled>>
    BY <1>1, <1>2 DEF Return, Throw, schedVars
  <1>5. /\ m_cb'[f] \in {c, None} /\ m_cb[f] = c
        /\ \A g \in Fibers \ {f} : m_cb'[g] = m_cb[g] /\ m_state'[g] = m_state[g]
        /\ pc'[t] = "yield" /\ \A u \in Threads \ {t} : pc'[u] = pc[u]
    BY <1>0, <1>2, <1>3, <1>4 DEF TypeOK
  <1>6. \A d \in Callbacks : /\ InQueue(d)' <=> InQueue(d)
                             /\ Taken(d)' <=> Taken(d)
                             /\ Made(d)' => Made(d)
                             /\ d = c \/ (Made(d) => Made(d)')
    <2>1. \A d \in Callbacks : (InQueue(d)' <=> InQueue(d)) /\ (Taken(d)' <=> Taken(d))
      BY <1>4 DEF InQueue, Taken
    <2>2. \A d \in Callbacks : (Made(d)' => Made(d)) /\ (d = c \/ (Made(d) => Made(d)'))
      BY <1>3, <1>5, ThreadsAssumption DEF Made
    <2> QED BY <2>1, <2>2
  <1>7. Made(c)
    BY <1>2, <1>3 DEF Made
  <1>8. \A d \in Callbacks : OnePlaceOf(d)'
    BY <1>3, <1>4, <1>6, <1>7, <1>p DEF OnePlaceOf
  <1>9. \A d \in Callbacks : Unmade(d)'
    <2>1. \A d \in Callbacks : m_cb[d] = None => m_cb'[d] = None
      BY <1>3, <1>5 DEF Fibers
    <2> QED BY <1>4, <1>6, <1>p, <2>1 DEF Unmade
  <1>10. TasksPure' /\ CbsQueuedOnce' /\ CbFiberOwn'
    BY <1>4, <1>p DEF TasksPure, CbsQueuedOnce, CbFiberOwn
  <1>11. CbsTakenOnce'
    BY <1>0, <1>4, <1>5, <1>p DEF CbsTakenOnce
  <1>12. CbsMadeOnce'
    BY <1>4, <1>5, <1>p DEF CbsMadeOnce
  <1>13. CbFiberFree'
    <2>1. ASSUME NEW u \in Threads, cb_fiber[u] # None, Resting(u)
          PROVE  m_cb'[cb_fiber[u]] = None
      <3>1. cb_fiber[u] \in Fibers /\ m_cb[cb_fiber[u]] = None
        BY <1>0, <1>p, <2>1 DEF TypeOK, CbFiberFree
      <3> QED BY <1>3, <1>5, <3>1
    <2>2. \A u \in Threads : Resting(u)' => Resting(u)
      BY <1>0, <1>4, <1>5 DEF Resting, InFiberPcs
    <2> QED BY <1>4, <2>1, <2>2 DEF CbFiberFree
  <1>14. EndedStates'
    BY <1>4, <1>5, <1>p DEF EndedStates
  <1> QED BY <1>8, <1>9, <1>10, <1>11, <1>12, <1>13, <1>14 DEF OInv

\* Queueing a fiber moves no callback.
LEMMA FiberQueued ==
  ASSUME TypeOK, OInv, NEW f \in Fibers, NEW thread \in Threads \cup {None},
         Schedule(FiberTask(f, thread)), \A t \in Threads : Pure(ft'[t])
  PROVE  /\ TasksPure' /\ CbsQueuedOnce'
         /\ \A c \in Callbacks : InQueue(c)' <=> InQueue(c)
  <1>1. PICK task \in Task : task = FiberTask(f, thread)
    BY TaskTypes
  <1>2. task.cb = None /\ Schedule(task)
    BY <1>1 DEF FiberTask
  <1>3. CbsQueuedOnce' /\ \A c \in Callbacks : InQueue(c)' <=> InQueue(c) \/ None = c
    BY <1>2, AppendedCb DEF OInv
  <1>4. /\ Len(m_fibers) \in Nat
        /\ Len(m_fibers') = Len(m_fibers) + 1
        /\ \A i \in 1..Len(m_fibers) : m_fibers'[i] = m_fibers[i]
        /\ m_fibers'[Len(m_fibers) + 1] = task
    BY <1>2, Appended
  <1>5. \A i \in 1..Len(m_fibers') : i \in 1..Len(m_fibers) \/ i = Len(m_fibers) + 1
    BY <1>4
  <1>6. TasksPure'
    BY <1>2, <1>4, <1>5 DEF OInv, TasksPure, Pure
  <1> QED BY <1>3, <1>6, ThreadsAssumption

\* A step of a scheduler thread preserves OInv.
LEMMA OInvThread ==
  ASSUME IInv, OInv, TypeOK', NEW t \in Threads, RunStep(t) \/ BodyStep(t)
  PROVE  OInv'
  <1>0. TypeOK /\ HasTask(t)
    BY DEF IInv
  <1>p. /\ TasksPure /\ CbsQueuedOnce /\ CbsTakenOnce
    BY DEF OInv
  <1>n. NoTask.cb = None /\ NoTask.fiber = None
    BY DEF NoTask
  <1>r. pc[t] \in InFiberPcs => Running(t) \in Fibers
    BY <1>0, RunningFiber
  <1>c. pc[t] # "dispatch" => ft[t].cb = None
    BY <1>p DEF CbsTakenOnce
  <1>o. \A u \in Threads \ {t} : pc'[u] = pc[u] /\ ft'[u] = ft[u] /\ cb_fiber'[u] = cb_fiber[u]
    BY <1>0, OnlyOwnLocals
  <1>1. ASSUME TasksPure', CbsQueuedOnce', \A c \in Callbacks : InQueue(c)' <=> InQueue(c),
               UNCHANGED <<m_cb, unscheduled, ended>>,
               ft'[t].cb = ft[t].cb,
               pc[t] = "dispatch" => pc'[t] = "dispatch" \/ ft[t].cb = None,
               cb_fiber'[t] \in {cb_fiber[t], None},
               cb_fiber'[t] # None /\ Resting(t)' => Resting(t),
               \A f \in Fibers :
                 m_state'[f] \in {"TERM", "EXCEPT"} => m_state[f] \in {"TERM", "EXCEPT"}
        PROVE  OInv'
    <2>1. \A u \in Threads : /\ ft'[u].cb = ft[u].cb
                             /\ pc[u] = "dispatch" => pc'[u] = "dispatch" \/ ft[u].cb = None
                             /\ cb_fiber'[u] \in {cb_fiber[u], None}
      BY <1>o, <1>1
    <2>2. \A u \in Threads : cb_fiber'[u] # None /\ Resting(u)' => Resting(u)
      BY <1>o, <1>1 DEF Resting
    <2> QED BY <1>0, <1>1, <2>1, <2>2, CallbacksStay
  <1>2. ASSUME UNCHANGED <<m_cb, unscheduled, ended, m_fibers, ft, cb_fiber>>,
               pc[t] = "dispatch" => pc'[t] = "dispatch" \/ ft[t].cb = None,
               Resting(t)' => Resting(t),
               \A f \in Fibers :
                 m_state'[f] \in {"TERM", "EXCEPT"} => m_state[f] \in {"TERM", "EXCEPT"}
        PROVE  OInv'
    <2>1. TasksPure' /\ CbsQueuedOnce' /\ \A c \in Callbacks : InQueue(c)' <=> InQueue(c)
      BY <1>2, <1>p DEF TasksPure, CbsQueuedOnce, InQueue
    <2> QED BY <1>1, <1>2, <2>1
  <1>3. ASSUME NEW s \in States \ {"TERM", "EXCEPT"}, NEW f, m_state' = [m_state EXCEPT ![f] = s]
        PROVE  \A g \in Fibers :
                 m_state'[g] \in {"TERM", "EXCEPT"} => m_state[g] \in {"TERM", "EXCEPT"}
    BY <1>0, <1>3 DEF TypeOK
  <1>4. ASSUME Release(t), pc[t] \in InFiberPcs
        PROVE  /\ ft'[t].cb = ft[t].cb
               /\ \A u \in Threads : Pure(ft'[u])
               /\ cb_fiber'[t] \in {cb_fiber[t], None}
               /\ cb_fiber'[t] # None => Resting(t)
    <2>1. CASE ft[t].fiber # None
      <3>1. ft'[t] = NoTask /\ cb_fiber' = cb_fiber
        BY <1>0, <1>4, <2>1 DEF Release, TypeOK
      <3> QED BY <1>c, <1>n, <1>o, <1>p, <1>4, <2>1, <3>1 DEF TasksPure, Pure, Resting, InFiberPcs
    <2>2. CASE ft[t].fiber = None
      <3>1. ft' = ft /\ cb_fiber'[t] = None
        BY <1>0, <1>4, <2>2 DEF Release, TypeOK
      <3> QED BY <1>p, <3>1 DEF TasksPure
    <2> QED BY <2>1, <2>2
  <1>5. CASE Take(t)
    BY <1>5, CallbackTaken
  <1>6. CASE DispatchCb(t)
    BY <1>6, CallbackStarted
  <1>7. CASE SettleEnded(t)
    BY <1>7, CallbackCleared
  <1>8. CASE Return(t) \/ Throw(t)
    BY <1>8, CallbackEnds
  <1>9. CASE \E c \in Callbacks, thread \in Pins : Spawn(t, c, thread)
    BY <1>0, <1>9, CallbackScheduled DEF Spawn
  <1>10. CASE TakeNothing(t) \/ IdleCheck(t) \/ LeaveIdle(t)
    BY <1>0, <1>2, <1>10 DEF TakeNothing, IdleCheck, LeaveIdle, schedVars, fiberVars, envVars,
       Resting, InFiberPcs, TypeOK
  <1>11. CASE EnterIdle(t)
    <2>1. pc[t] = "noTask"
      BY <1>11 DEF EnterIdle
    <2>2. Resting(t)
      BY <2>1 DEF Resting, InFiberPcs
    <2> QED BY <1>2, <1>11, <2>1, <2>2 DEF EnterIdle, fiberVars, envVars
  <1>12. CASE DropTask(t)
    <2>1. ft[t].cb = None
      BY <1>12, <1>p DEF DropTask, TasksPure, Pure
    <2>2. ft'[t] = NoTask /\ pc[t] = "dispatch" /\ UNCHANGED <<m_fibers, fiberVars, cb_fiber, envVars>>
      BY <1>0, <1>12 DEF DropTask, TypeOK
    <2>3. TasksPure' /\ CbsQueuedOnce' /\ \A c \in Callbacks : InQueue(c)' <=> InQueue(c)
      BY <1>n, <1>o, <1>p, <2>2 DEF TasksPure, Pure, CbsQueuedOnce, InQueue
    <2>4. Resting(t)
      BY <2>2 DEF Resting, InFiberPcs
    <2> QED BY <1>1, <1>n, <2>1, <2>2, <2>3, <2>4 DEF fiberVars, envVars
  <1>13. CASE DispatchFiber(t)
    <2>1. ft[t].cb = None
      BY <1>13, <1>p DEF DispatchFiber, TasksPure, Pure
    <2>2. Resting(t)
      BY <1>13 DEF DispatchFiber, Resting
    <2> QED BY <1>2, <1>13, <2>1, <2>2 DEF DispatchFiber, schedVars, fiberVars, envVars
  <1>14. CASE SwapIn(t) \/ YieldToHold(t) \/ YieldToReady(t)
    <2>1. \A g \in Fibers :
            m_state'[g] \in {"TERM", "EXCEPT"} => m_state[g] \in {"TERM", "EXCEPT"}
      BY <1>3, <1>14 DEF SwapIn, YieldToHold, YieldToReady, States
    <2>2. UNCHANGED <<m_cb, unscheduled, ended, m_fibers, ft, cb_fiber>>
      BY <1>14 DEF SwapIn, YieldToHold, YieldToReady, schedVars, envVars
    <2>3. pc[t] \in InFiberPcs /\ pc'[t] \in InFiberPcs /\ pc[t] # "dispatch"
      BY <1>0, <1>14 DEF SwapIn, YieldToHold, YieldToReady, InBody, Executing, InFiberPcs, TypeOK
    <2> QED BY <1>2, <2>1, <2>2, <2>3 DEF Resting
  <1>15. CASE SwapOut(t) \/ SettleOther(t) \/ Park(t)
    <2>1. UNCHANGED <<m_cb, m_state, unscheduled, ended, m_fibers, ft, cb_fiber>>
      BY <1>15 DEF SwapOut, SettleOther, Park, schedVars, fiberVars, envVars
    <2>2. pc[t] \in InFiberPcs /\ pc'[t] \in InFiberPcs /\ pc[t] # "dispatch"
      BY <1>0, <1>15 DEF SwapOut, SettleOther, Park, InBody, Executing, InFiberPcs, TypeOK
    <2> QED BY <1>2, <2>1, <2>2 DEF Resting
  <1>16. CASE SettleReady(t)
    <2>1. pc[t] \in InFiberPcs /\ pc[t] # "dispatch" /\ Release(t)
      BY <1>16 DEF SettleReady, InFiberPcs
    <2>2. Schedule(FiberTask(Running(t), None)) /\ Running(t) \in Fibers
      BY <1>16, <1>r, <2>1 DEF SettleReady, Requeue
    <2>3. TasksPure' /\ CbsQueuedOnce' /\ \A c \in Callbacks : InQueue(c)' <=> InQueue(c)
      BY <1>0, <1>4, <2>1, <2>2, FiberQueued
    <2> QED BY <1>1, <1>4, <1>16, <2>1, <2>3 DEF SettleReady, fiberVars, envVars
  <1>17. CASE SetHold(t)
    <2>1. pc[t] \in InFiberPcs /\ pc[t] # "dispatch" /\ Release(t) /\ m_fibers' = m_fibers
      BY <1>17 DEF SetHold, InFiberPcs, schedVars
    <2>2. TasksPure' /\ CbsQueuedOnce' /\ \A c \in Callbacks : InQueue(c)' <=> InQueue(c)
      BY <1>4, <1>p, <2>1 DEF TasksPure, CbsQueuedOnce, InQueue
    <2>3. \A g \in Fibers :
            m_state'[g] \in {"TERM", "EXCEPT"} => m_state[g] \in {"TERM", "EXCEPT"}
      BY <1>3, <1>17 DEF SetHold, States
    <2> QED BY <1>1, <1>4, <1>17, <2>1, <2>2, <2>3 DEF SetHold, envVars
  <1>18. CASE \E thread \in Pins : SwitchTo(t, thread)
    <2>1. PICK thread \in Pins : SwitchTo(t, thread)
      BY <1>18
    <2>2. pc[t] \in InFiberPcs /\ pc'[t] \in InFiberPcs /\ pc[t] # "dispatch"
      BY <1>0, <2>1 DEF SwitchTo, InBody, Executing, InFiberPcs, TypeOK
    <2>3. Schedule(FiberTask(Running(t), thread)) /\ Running(t) \in Fibers /\ thread \in Threads \cup {None}
      BY <1>r, <2>1, <2>2, ThreadsAssumption DEF SwitchTo
    <2>4. UNCHANGED <<m_cb, m_state, unscheduled, ended, ft, cb_fiber>>
      BY <2>1 DEF SwitchTo, fiberVars
    <2>5. TasksPure' /\ CbsQueuedOnce' /\ \A c \in Callbacks : InQueue(c)' <=> InQueue(c)
      <3>1. \A u \in Threads : Pure(ft'[u])
        BY <1>p, <2>4 DEF TasksPure
      <3> QED BY <1>0, <2>3, <3>1, FiberQueued
    <2> QED BY <1>1, <2>2, <2>4, <2>5 DEF Resting
  <1> QED BY <1>5, <1>6, <1>7, <1>8, <1>9, <1>10, <1>11, <1>12, <1>13, <1>14, <1>15, <1>16,
             <1>17, <1>18 DEF RunStep, BodyStep

LEMMA OInvInit == Init => OInv
  <1> SUFFICES ASSUME Init PROVE OInv
    OBVIOUS
  <1> USE ThreadsAssumption DEF Init
  <1>1. NoTask.cb = None /\ NoTask.fiber = None
    BY DEF NoTask
  <1>2. \A c \in Callbacks : ~InQueue(c) /\ ~Taken(c) /\ ~Made(c)
    BY <1>1 DEF InQueue, Taken, Made
  <1>3. TasksPure /\ CbsQueuedOnce
    BY <1>1 DEF TasksPure, Pure, CbsQueuedOnce
  <1>4. CbsTakenOnce /\ CbsMadeOnce /\ CbFiberOwn /\ CbFiberFree /\ EndedStates
    BY <1>1 DEF CbsTakenOnce, CbsMadeOnce, CbFiberOwn, CbFiberFree, EndedStates
  <1>5. \A c \in Callbacks : OnePlaceOf(c) /\ Unmade(c)
    BY <1>2 DEF OnePlaceOf, Unmade, Fibers
  <1> QED BY <1>3, <1>4, <1>5 DEF OInv

LEMMA OInvStep == IInv /\ OInv /\ [Next]_vars => OInv'
  <1> SUFFICES ASSUME IInv, OInv, [Next]_vars PROVE OInv'
    OBVIOUS
  <1>0. TypeOK /\ NotStarted /\ TypeOK'
    BY IInvStep DEF IInv
  <1>1. ASSUME NEW t \in Threads, ThreadStep(t)
        PROVE  OInv'
    BY <1>0, <1>1, OInvThread DEF ThreadStep
  <1>2. ASSUME UNCHANGED <<m_fibers, fiberVars, ft, cb_fiber, unscheduled, ended>>,
               \A u \in Threads : pc'[u] = pc[u] \/ pc[u] = "off"
        PROVE  OInv'
    <2>1. TasksPure' /\ CbsQueuedOnce' /\ \A c \in Callbacks : InQueue(c)' <=> InQueue(c)
      BY <1>2 DEF OInv, TasksPure, CbsQueuedOnce, InQueue
    <2>2. \A u \in Threads : Resting(u)' => Resting(u)
      BY <1>2 DEF Resting, InFiberPcs
    <2> QED BY <1>0, <1>2, <2>1, <2>2, CallbacksStay DEF fiberVars
  <1>3. CASE \E t \in Threads, f \in Fibers : Wake(t, f)
    <2>1. PICK t \in Threads, f \in Fibers : Wake(t, f)
      BY <1>3
    <2>2. Schedule(FiberTask(f, None)) /\ UNCHANGED <<fiberVars, pc, ft, cb_fiber, unscheduled, ended>>
      BY <2>1 DEF Wake, threadVars
    <2>3. TasksPure' /\ CbsQueuedOnce' /\ \A c \in Callbacks : InQueue(c)' <=> InQueue(c)
      <3>1. \A u \in Threads : Pure(ft'[u])
        BY <2>2 DEF OInv, TasksPure
      <3> QED BY <1>0, <2>2, <3>1, FiberQueued
    <2>4. \A u \in Threads : Resting(u)' => Resting(u)
      BY <2>2 DEF Resting
    <2> QED BY <1>0, <2>2, <2>3, <2>4, CallbacksStay DEF fiberVars
  <1>4. CASE \E c \in Callbacks, thread \in Pins : MainSchedule(c, thread)
    BY <1>0, <1>4, CallbackScheduled DEF MainSchedule
  <1>5. CASE Start
    BY <1>0, <1>2, <1>5 DEF Start, NotStarted, schedVars, envVars
  <1>6. CASE StopBegin
    BY <1>2, <1>6 DEF StopBegin, schedVars, threadVars, envVars
  <1>7. CASE StopMark \/ RootReturn \/ Join
    BY <1>2, <1>7 DEF StopMark, RootReturn, Join, schedVars, threadVars, envVars
  <1>8. CASE StopCall
    <2>1. CASE UseCaller /\ ~Stopping
      <3>1. pc[Root] = "off" /\ pc' = [pc EXCEPT ![Root] = "take"]
        BY <1>0, <1>8, <2>1 DEF StopCall, NotStarted
      <3>2. \A u \in Threads : pc'[u] = pc[u] \/ pc[u] = "off"
        BY <1>0, <3>1 DEF TypeOK
      <3> QED BY <1>2, <1>8, <3>2 DEF StopCall, schedVars, envVars
    <2>2. CASE ~(UseCaller /\ ~Stopping)
      BY <1>2, <1>8, <2>2 DEF StopCall, schedVars, envVars
    <2> QED BY <2>1, <2>2
  <1>9. CASE UNCHANGED vars
    BY <1>2, <1>9 DEF vars, schedVars, threadVars, envVars
  <1> QED BY <1>1, <1>3, <1>4, <1>5, <1>6, <1>7, <1>8, <1>9 DEF Next, StopStep, Over

\* A callback given to schedule() is in exactly one place until it has returned or
\* thrown: in the queue, taken by one thread, or in one fiber.  Also when two
\* threads are switched into one fiber, on any number of threads.
THEOREM CallbacksOnce == Spec => []EveryCallbackOnce
  <1>1. ASSUME IInv, OInv PROVE EveryCallbackOnce
    <2>0. TypeOK /\ CbsQueuedOnce /\ CbsTakenOnce /\ CbsMadeOnce /\ \A c \in Callbacks : OnePlaceOf(c)
      BY <1>1 DEF IInv, OInv
    <2> SUFFICES ASSUME NEW c \in Callbacks
                 PROVE  IF c \in unscheduled \cup ended
                          THEN QueuedCb(c) = {} /\ TakenCb(c) = {} /\ (c \in unscheduled => FibersOf(c) = {})
                          ELSE Cardinality(QueuedCb(c)) + Cardinality(TakenCb(c)) + Cardinality(FibersOf(c)) = 1
      BY DEF EveryCallbackOnce
    <2>1. c # None
      BY ThreadsAssumption
    <2>2. /\ ~InQueue(c) => QueuedCb(c) = {}
          /\ ~Taken(c) => TakenCb(c) = {}
          /\ ~Made(c) => FibersOf(c) = {}
      BY DEF InQueue, Taken, Made, QueuedCb, TakenCb, FibersOf
    <2>3. /\ InQueue(c) => \E i \in 1..Len(m_fibers) : QueuedCb(c) = {i}
          /\ Taken(c) => \E t \in Threads : TakenCb(c) = {t}
          /\ Made(c) /\ c \notin ended => \E f \in Fibers : FibersOf(c) = {f}
      <3>1. InQueue(c) => \E i \in 1..Len(m_fibers) : QueuedCb(c) = {i}
        BY <2>0, <2>1 DEF InQueue, QueuedCb, CbsQueuedOnce
      <3>2. Taken(c) => \E t \in Threads : TakenCb(c) = {t}
        BY <2>0, <2>1 DEF Taken, TakenCb, CbsTakenOnce
      <3>3. Made(c) /\ c \notin ended => \E f \in Fibers : FibersOf(c) = {f}
        BY <2>0, <2>1 DEF Made, FibersOf, CbsMadeOnce
      <3> QED BY <3>1, <3>2, <3>3
    <2>4. Cardinality({}) = 0 /\ \A x : Cardinality({x}) = 1
      BY FS_EmptySet, FS_Singleton
    <2>5. /\ Cardinality(QueuedCb(c)) = IF InQueue(c) THEN 1 ELSE 0
          /\ Cardinality(TakenCb(c)) = IF Taken(c) THEN 1 ELSE 0
          /\ c \notin ended => Cardinality(FibersOf(c)) = IF Made(c) THEN 1 ELSE 0
      BY <2>2, <2>3, <2>4
    <2> QED BY <2>0, <2>2, <2>5 DEF OnePlaceOf
  <1> QED BY <1>1, OInvInit, OInvStep, Invariance, PTL DEF Spec

-----------------------------------------------------------------------------
(* The scheduler implements a pool of jobs.                                *)

\* Each callback is unscheduled, waiting, started or ended.
StageOf(c) ==
    /\ c \in Waiting <=> InQueue(c) \/ Taken(c)
    /\ c \in Started <=> Made(c) /\ c \notin ended
    /\ c \in Waiting <=> c \notin unscheduled /\ c \notin ended /\ ~Made(c)
    /\ c \in unscheduled => c \notin ended /\ ~Made(c)

LEMMA Stages == OInv => \A c \in Callbacks : StageOf(c)
  <1> SUFFICES ASSUME OInv, NEW c \in Callbacks PROVE StageOf(c)
    OBVIOUS
  <1>1. OnePlaceOf(c)
    BY DEF OInv
  <1>2. c \in Waiting <=> InQueue(c) \/ Taken(c)
    BY DEF Waiting, QueuedCb, TakenCb, InQueue, Taken
  <1>3. c \in Started <=> Made(c) /\ c \notin ended
    BY DEF Started, FibersOf, Made
  <1> QED BY <1>1, <1>2, <1>3 DEF OnePlaceOf, StageOf

LEMMA StagesNext == OInv' => (\A c \in Callbacks : StageOf(c))'
  BY Stages, PTL

\* A step that gives no fiber a callback, takes none from it and ends none is
\* invisible to the pool.
LEMMA PoolStutters ==
  ASSUME OInv, OInv', UNCHANGED <<m_cb, unscheduled, ended>>
  PROVE  UNCHANGED Pool!vars
  <1>1. \A c \in Callbacks : Made(c)' <=> Made(c)
    BY DEF Made
  <1>2. \A c \in Callbacks : (c \in Waiting' <=> c \in Waiting) /\ (c \in Started' <=> c \in Started)
    BY <1>1, Stages, StagesNext DEF StageOf
  <1>3. Waiting' = Waiting /\ Started' = Started
    BY <1>2 DEF Waiting, Started
  <1> QED BY <1>3 DEF Pool!vars

LEMMA PoolSchedules ==
  ASSUME TypeOK, OInv, OInv', NEW c \in unscheduled, unscheduled' = unscheduled \ {c},
         UNCHANGED <<m_cb, ended>>
  PROVE  Pool!Next
  <1>1. c \in Callbacks /\ unscheduled \subseteq Callbacks
    BY DEF TypeOK
  <1>2. \A d \in Callbacks : Made(d)' <=> Made(d)
    BY DEF Made
  <1>3. \A d \in Callbacks : /\ d \in Waiting' <=> d \in Waiting \/ d = c
                             /\ d \in Started' <=> d \in Started
    BY <1>1, <1>2, Stages, StagesNext DEF StageOf
  <1>4. c \notin Waiting /\ c \notin Started /\ c \notin ended
    BY <1>1, Stages, StagesNext DEF StageOf
  <1>5. Waiting' = Waiting \cup {c} /\ Started' = Started
    BY <1>1, <1>3 DEF Waiting, Started
  <1>6. Pool!Schedule(c)
    BY <1>4, <1>5 DEF Pool!Schedule
  <1> QED BY <1>1, <1>6 DEF Pool!Next

LEMMA PoolStarts ==
  ASSUME IInv, OInv, OInv', NEW t \in Threads, DispatchCb(t)
  PROVE  Pool!Next
  <1>0. TypeOK /\ HasTask(t)
    BY DEF IInv
  <1>1. PICK c : c = ft[t].cb
    OBVIOUS
  <1>2. PICK f : f = IF cb_fiber[t] # None THEN cb_fiber[t] ELSE c
    OBVIOUS
  <1>3. c \in Callbacks /\ f \in Fibers
    BY <1>0, <1>1, <1>2 DEF DispatchCb, HasTask, TaskNonEmpty, TypeOK, Task, Fibers
  <1>4. /\ m_cb' = [m_cb EXCEPT ![f] = c]
        /\ ft' = [ft EXCEPT ![t] = NoTask]
        /\ UNCHANGED <<m_fibers, unscheduled, ended>>
    BY <1>1, <1>2 DEF DispatchCb, schedVars, envVars
  <1>5. Taken(c) /\ \A d \in Callbacks : (InQueue(d)' => InQueue(d)) /\ (Taken(d)' => Taken(d))
    <2>1. NoTask.cb = None
      BY DEF NoTask
    <2>2. ft'[t].cb = None /\ \A u \in Threads \ {t} : ft'[u] = ft[u]
      BY <1>0, <1>4, <2>1 DEF TypeOK
    <2> QED BY <1>1, <1>4, <2>2, ThreadsAssumption DEF InQueue, Taken
  <1>6. Made(c)' /\ \A d \in Callbacks \ {c} : Made(d)' => Made(d)
    <2>1. m_cb'[f] = c /\ \A g \in Fibers \ {f} : m_cb'[g] = m_cb[g]
      BY <1>0, <1>3, <1>4 DEF TypeOK
    <2> QED BY <1>3, <2>1 DEF Made
  <1>7. c \in Waiting
    BY <1>3, <1>5, Stages, StagesNext DEF StageOf
  <1>8. \A d \in Callbacks : /\ d \in Waiting' <=> d \in Waiting /\ d # c
                             /\ d \in Started' <=> d \in Started \/ d = c
    <2>1. c \notin Waiting' /\ c \in Started'
      BY <1>3, <1>4, <1>6, <1>7, Stages, StagesNext DEF StageOf
    <2>2. \A d \in Callbacks \ {c} : (d \in Waiting' => d \in Waiting) /\ (d \in Started' => d \in Started)
      BY <1>4, <1>5, <1>6, Stages, StagesNext DEF StageOf
    <2>3. \A d \in Callbacks \ {c} : (d \in Waiting => d \in Waiting') /\ (d \in Started => d \in Started')
      BY <1>4, <1>6, <2>2, Stages, StagesNext DEF StageOf
    <2> QED BY <1>3, <1>7, <2>1, <2>2, <2>3
  <1>9. Waiting' = Waiting \ {c} /\ Started' = Started \cup {c}
    BY <1>3, <1>8 DEF Waiting, Started
  <1>10. Pool!Start(c)
    BY <1>4, <1>7, <1>9 DEF Pool!Start
  <1> QED BY <1>3, <1>10 DEF Pool!Next

LEMMA PoolSettles ==
  ASSUME IInv, OInv, OInv', NEW t \in Threads, SettleEnded(t)
  PROVE  UNCHANGED Pool!vars
  <1>0. TypeOK
    BY DEF IInv
  <1>1. ft' = [ft EXCEPT ![t] = NoTask] /\ UNCHANGED <<m_fibers, unscheduled, ended>>
    BY DEF SettleEnded, schedVars, envVars
  <1>2. \A d \in Callbacks : (InQueue(d)' => InQueue(d)) /\ (Taken(d)' => Taken(d))
    <2>1. NoTask.cb = None
      BY DEF NoTask
    <2>2. ft'[t].cb = None /\ \A u \in Threads \ {t} : ft'[u] = ft[u]
      BY <1>0, <1>1, <2>1 DEF TypeOK
    <2> QED BY <1>1, <2>2, ThreadsAssumption DEF InQueue, Taken
  <1>3. \A d \in Callbacks : Made(d)' => Made(d)
    <2>1. m_cb' = m_cb \/ m_cb' = [m_cb EXCEPT ![cb_fiber[t]] = None]
      BY DEF SettleEnded, fiberVars
    <2>2. \A g \in Fibers : m_cb'[g] \in {m_cb[g], None}
      BY <1>0, <2>1 DEF TypeOK
    <2> QED BY <2>2, ThreadsAssumption DEF Made
  <1>4. \A d \in Callbacks : (d \in Waiting' <=> d \in Waiting) /\ (d \in Started' <=> d \in Started)
    <2>1. \A d \in Callbacks : (d \in Waiting' => d \in Waiting) /\ (d \in Started' => d \in Started)
      BY <1>1, <1>2, <1>3, Stages, StagesNext DEF StageOf
    <2> QED BY <1>1, <1>3, <2>1, Stages, StagesNext DEF StageOf
  <1>5. Waiting' = Waiting /\ Started' = Started
    BY <1>4 DEF Waiting, Started
  <1> QED BY <1>1, <1>5 DEF Pool!vars

LEMMA PoolEnds ==
  ASSUME IInv, OInv, OInv', NEW t \in Threads, Return(t) \/ Throw(t)
  PROVE  Pool!Next \/ UNCHANGED Pool!vars
  <1>0. TypeOK /\ HasTask(t) /\ pc[t] = "body"
    BY DEF IInv, Return, Throw, InBody, Executing
  <1>1. PICK f : f = Running(t)
    OBVIOUS
  <1>2. PICK c : c = m_cb[f]
    OBVIOUS
  <1>3. f \in Fibers /\ c \in Callbacks /\ c # None
    <2>1. f \in Fibers
      BY <1>0, <1>1, RunningFiber DEF InFiberPcs
    <2> QED BY <1>0, <1>1, <1>2, <2>1 DEF Return, Throw, InBody, Executing, TypeOK
  <1>4. /\ ended' = ended \cup {c} /\ UNCHANGED unscheduled
        /\ m_cb' = m_cb \/ m_cb' = [m_cb EXCEPT ![f] = None]
    BY <1>1, <1>2 DEF Return, Throw
  <1>5. \A g \in Fibers : m_cb'[g] = m_cb[g] \/ (m_cb[g] = c /\ m_cb'[g] = None)
    BY <1>0, <1>2, <1>3, <1>4 DEF TypeOK
  <1>6. Made(c) /\ \A d \in Callbacks \ {c} : Made(d)' <=> Made(d)
    BY <1>2, <1>3, <1>5, ThreadsAssumption DEF Made
  <1>7. c \notin Waiting /\ c \notin Waiting' /\ c \notin Started'
    BY <1>3, <1>4, <1>6, Stages, StagesNext DEF StageOf
  <1>8. \A d \in Callbacks \ {c} : (d \in Waiting' <=> d \in Waiting) /\ (d \in Started' <=> d \in Started)
    BY <1>4, <1>6, Stages, StagesNext DEF StageOf
  <1>9. Waiting' = Waiting /\ Started' = Started \ {c}
    BY <1>3, <1>7, <1>8 DEF Waiting, Started
  <1>10. CASE c \in ended
    <2>1. c \notin Started
      BY <1>10 DEF Started
    <2> QED BY <1>4, <1>9, <1>10, <2>1 DEF Pool!vars
  <1>11. CASE c \notin ended
    <2>1. c \in Started
      BY <1>3, <1>6, <1>11, Stages, StagesNext DEF StageOf
    <2>2. Pool!End(c)
      BY <1>4, <1>9, <2>1 DEF Pool!End
    <2> QED BY <1>3, <2>2 DEF Pool!Next
  <1> QED BY <1>10, <1>11

\* The scheduler implements a pool of jobs: to the callers of schedule() each
\* callback waits, is started once and ends once, for any threads, pins and
\* behaviour of the callbacks.
THEOREM SchedulerIsPool == Spec => ImplementsJobs
  <1>1. Init => Pool!Init
    <2> SUFFICES ASSUME Init PROVE Pool!Init
      OBVIOUS
    <2>1. OInv
      BY OInvInit
    <2>2. \A c \in Callbacks : c \in unscheduled /\ c \notin Waiting /\ c \notin Started
      BY <2>1, Stages DEF Init, StageOf
    <2>3. Waiting = {} /\ Started = {} /\ ended = {}
      BY <2>2 DEF Waiting, Started, Init
    <2> QED BY <2>3 DEF Pool!Init
  <1>2. IInv /\ OInv /\ [Next]_vars => [Pool!Next]_(Pool!vars)
    <2> SUFFICES ASSUME IInv, OInv, [Next]_vars PROVE Pool!Next \/ UNCHANGED Pool!vars
      OBVIOUS
    <2>0. TypeOK /\ OInv'
      BY OInvStep DEF IInv
    <2>1. UNCHANGED <<m_cb, unscheduled, ended>> => UNCHANGED Pool!vars
      BY <2>0, PoolStutters
    <2>2. ASSUME NEW t \in Threads, ThreadStep(t)
          PROVE  Pool!Next \/ UNCHANGED Pool!vars
      <3>1. CASE DispatchCb(t)
        BY <2>0, <3>1, PoolStarts
      <3>2. CASE SettleEnded(t)
        BY <2>0, <3>2, PoolSettles
      <3>3. CASE Return(t) \/ Throw(t)
        BY <2>0, <3>3, PoolEnds
      <3>4. CASE \E c \in Callbacks, thread \in Pins : Spawn(t, c, thread)
        BY <2>0, <3>4, PoolSchedules DEF Spawn, fiberVars
      <3>5. CASE Take(t) \/ TakeNothing(t) \/ DropTask(t) \/ DispatchFiber(t)
        BY <2>1, <3>5 DEF Take, TakeNothing, DropTask, DispatchFiber, fiberVars, envVars
      <3>6. CASE SwapIn(t) \/ SwapOut(t) \/ SettleReady(t) \/ SettleOther(t) \/ SetHold(t)
        BY <2>1, <3>6 DEF SwapIn, SwapOut, SettleReady, SettleOther, SetHold, fiberVars, envVars
      <3>7. CASE EnterIdle(t) \/ IdleCheck(t) \/ LeaveIdle(t)
        BY <2>1, <3>7 DEF EnterIdle, IdleCheck, LeaveIdle, fiberVars, envVars
      <3>8. CASE YieldToReady(t) \/ Park(t) \/ YieldToHold(t)
        BY <2>1, <3>8 DEF YieldToReady, Park, YieldToHold, fiberVars, envVars
      <3>9. CASE \E thread \in Pins : SwitchTo(t, thread)
        BY <2>1, <3>9 DEF SwitchTo, fiberVars
      <3> QED BY <2>2, <3>1, <3>2, <3>3, <3>4, <3>5, <3>6, <3>7, <3>8, <3>9
              DEF ThreadStep, RunStep, BodyStep
    <2>3. CASE \E t \in Threads, f \in Fibers : Wake(t, f)
      BY <2>1, <2>3 DEF Wake, fiberVars
    <2>4. CASE \E c \in Callbacks, thread \in Pins : MainSchedule(c, thread)
      BY <2>0, <2>4, PoolSchedules DEF MainSchedule, fiberVars
    <2>5. CASE Start \/ StopBegin \/ StopMark \/ RootReturn \/ Join
      BY <2>1, <2>5 DEF Start, StopBegin, StopMark, RootReturn, Join, fiberVars, envVars
    <2>6. CASE StopCall
      BY <2>1, <2>6 DEF StopCall, fiberVars, envVars
    <2>7. CASE UNCHANGED vars
      BY <2>1, <2>7 DEF vars, fiberVars, envVars
    <2> QED BY <2>2, <2>3, <2>4, <2>5, <2>6, <2>7 DEF Next, StopStep, Over
  <1>3. Spec => [](IInv /\ OInv)
    BY IInvInit, IInvStep, OInvInit, OInvStep, PTL DEF Spec
  <1> QED BY <1>1, <1>2, <1>3, PTL DEF Spec, ImplementsJobs, Pool!Spec
=============================================================================
