--------------------------- MODULE SchedulerProofs ---------------------------
(***************************************************************************)
(* Proofs about Scheduler, for any number of threads and callbacks.        *)
(*                                                                         *)
(* The argument of CountersExact: run() moves a thread into or out of the  *)
(* active (idle) region exactly where it changes m_activeThreadCount       *)
(* (m_idleThreadCount).  This needs to know where start() and stop() find  *)
(* the threads they set going, and that a thread switched into a fiber     *)
(* has one.                                                                *)
(***************************************************************************)
EXTENDS Scheduler, FiniteSetTheorems, TLAPS

-----------------------------------------------------------------------------
(* The inductive invariant.                                                *)

\* scheduleNoLock() never queues an empty FiberAndThread: run()'s assertion on
\* what it takes.
TaskNonEmpty(task) == task.fiber # None \/ task.cb # None

\* A thread that took a task has one, and one switched into a fiber has it.
InFiberPcs == {"swapIn", "body", "parked", "yield", "settle", "setHold"}
HasTask(t) ==
    /\ pc[t] = "dispatch" => TaskNonEmpty(ft[t])
    /\ pc[t] \in InFiberPcs => Running(t) # None

\* No thread runs before start(), and the root thread not before stop() calls
\* the root fiber.
NotStarted ==
    /\ mainPc = "new" => \A t \in Threads : pc[t] = "off"
    /\ UseCaller /\ mainPc \in {"new", "running", "stopMark", "stopCall"} => pc[Root] = "off"

IInv ==
    /\ TypeOK
    /\ CountersExact
    /\ \A i \in 1..Len(m_fibers) : TaskNonEmpty(m_fibers[i])
    /\ \A t \in Threads : HasTask(t)
    /\ NotStarted

-----------------------------------------------------------------------------
(* Lemmas.                                                                 *)

\* There are finitely many threads.
LEMMA ThreadsFinite == IsFiniteSet(Threads)
  <1>1. IsFiniteSet(Workers \cup {Root})
    BY ThreadsAssumption, FS_AddElement
  <1> QED BY <1>1, ThreadsAssumption DEF Threads

\* Moving one thread t to v changes the number of threads at a place in S by
\* what t contributes.
LEMMA CountMove ==
  ASSUME NEW S, NEW p, NEW t \in Threads, NEW v, p \in [Threads -> Pcs]
  PROVE  LET before == Cardinality({u \in Threads : p[u] \in S})
             after == Cardinality({u \in Threads : [p EXCEPT ![t] = v][u] \in S})
         IN  /\ before \in Nat
             /\ after \in Nat
             /\ (v \in S <=> p[t] \in S) => after = before
             /\ v \in S /\ p[t] \notin S => after = before + 1
             /\ v \notin S /\ p[t] \in S => after = before - 1
  <1> DEFINE A == {u \in Threads : p[u] \in S}
             B == {u \in Threads : [p EXCEPT ![t] = v][u] \in S}
  <1>1. IsFiniteSet(A) /\ IsFiniteSet(B)
    BY ThreadsFinite, FS_Subset
  <1>2. Cardinality(A) \in Nat /\ Cardinality(B) \in Nat
    BY <1>1, FS_CardinalityType
  <1>3. (v \in S <=> p[t] \in S) => A = B
    OBVIOUS
  <1>4. v \in S /\ p[t] \notin S => B = A \cup {t} /\ t \notin A
    OBVIOUS
  <1>5. v \notin S /\ p[t] \in S => B = A \ {t} /\ t \in A
    OBVIOUS
  <1> HIDE DEF A, B
  <1>6. v \in S /\ p[t] \notin S => Cardinality(B) = Cardinality(A) + 1
    BY <1>1, <1>4, FS_AddElement
  <1>7. v \notin S /\ p[t] \in S => Cardinality(B) = Cardinality(A) - 1
    BY <1>1, <1>5, FS_RemoveElement
  <1>8. (v \in S <=> p[t] \in S) => Cardinality(B) = Cardinality(A)
    BY <1>3
  <1> QED BY <1>2, <1>6, <1>7, <1>8 DEF A, B

\* Erasing an entry leaves a queue of tasks.
LEMMA QueueWithoutType ==
  ASSUME m_fibers \in Seq(Task), NEW i \in 1..Len(m_fibers)
  PROVE  /\ QueueWithout(i) \in Seq(Task)
         /\ Len(QueueWithout(i)) = Len(m_fibers) - 1
         /\ \A j \in 1..Len(QueueWithout(i)) :
              \E k \in 1..Len(m_fibers) : QueueWithout(i)[j] = m_fibers[k]
  <1> DEFINE n == Len(m_fibers) - 1
  <1>1. n \in Nat
    OBVIOUS
  <1>2. \A j \in 1..n : IF j < i THEN m_fibers[j] \in Task ELSE m_fibers[j + 1] \in Task
    OBVIOUS
  <1>3. QueueWithout(i) \in [1..n -> Task]
    BY <1>2 DEF QueueWithout
  <1>4. QueueWithout(i) \in Seq(Task) /\ Len(QueueWithout(i)) = n
    BY <1>1, <1>3
  <1>5. \A j \in 1..n : QueueWithout(i)[j] = m_fibers[j] \/ QueueWithout(i)[j] = m_fibers[j + 1]
    BY DEF QueueWithout
  <1> QED BY <1>1, <1>4, <1>5

-----------------------------------------------------------------------------
(* CountersExact is preserved.                                             *)

\* The places of one thread that matter to the counters are disjoint.
LEMMA PcRegions ==
  /\ {"dispatch", "swapIn", "body", "parked", "yield"} = ActivePcs
  /\ \A x \in ActivePcs : x \notin IdlePcs
  /\ \A x \in {"off", "take", "noTask", "settle", "setHold", "exited"} :
       x \notin ActivePcs /\ x \notin IdlePcs
  /\ \A x \in {"idle", "idleOut"} : x \in IdlePcs /\ x \notin ActivePcs
  BY DEF ActivePcs, IdlePcs

\* A step of run(), or of the callback it has switched into, keeps the counters exact.
LEMMA CountThread ==
  ASSUME TypeOK, CountersExact, NEW t \in Threads, RunStep(t) \/ BodyStep(t)
  PROVE  CountersExact'
  <1> USE PcRegions
  <1> DEFINE active(p) == Cardinality({u \in Threads : p[u] \in ActivePcs})
             idle(p) == Cardinality({u \in Threads : p[u] \in IdlePcs})
  <1>0. pc \in [Threads -> Pcs]
    BY DEF TypeOK
  <1>1. SUFFICES m_activeThreadCount' = active(pc') /\ m_idleThreadCount' = idle(pc')
    BY DEF CountersExact
  <1>2. m_activeThreadCount = active(pc) /\ m_idleThreadCount = idle(pc)
    BY DEF CountersExact
  <1>3. ASSUME NEW v, pc' = [pc EXCEPT ![t] = v]
        PROVE  /\ active(pc) \in Nat /\ idle(pc) \in Nat
               /\ (v \in ActivePcs <=> pc[t] \in ActivePcs) => active(pc') = active(pc)
               /\ v \in ActivePcs /\ pc[t] \notin ActivePcs => active(pc') = active(pc) + 1
               /\ v \notin ActivePcs /\ pc[t] \in ActivePcs => active(pc') = active(pc) - 1
               /\ (v \in IdlePcs <=> pc[t] \in IdlePcs) => idle(pc') = idle(pc)
               /\ v \in IdlePcs /\ pc[t] \notin IdlePcs => idle(pc') = idle(pc) + 1
               /\ v \notin IdlePcs /\ pc[t] \in IdlePcs => idle(pc') = idle(pc) - 1
    BY <1>0, <1>3, CountMove
  <1> HIDE DEF active, idle
  <1>4. CASE Take(t)
    BY <1>4, <1>2, <1>3 DEF Take
  <1>5. CASE TakeNothing(t)
    BY <1>5, <1>2, <1>3 DEF TakeNothing, schedVars
  <1>6. CASE DropTask(t)
    BY <1>6, <1>2, <1>3 DEF DropTask, Deactivate
  <1>7. CASE DispatchFiber(t)
    BY <1>7, <1>2, <1>3 DEF DispatchFiber, schedVars
  <1>8. CASE DispatchCb(t)
    BY <1>8, <1>2, <1>3 DEF DispatchCb, schedVars
  <1>9. CASE SwapIn(t)
    BY <1>9, <1>2, <1>3 DEF SwapIn, schedVars
  <1>10. CASE SwapOut(t)
    BY <1>10, <1>2, <1>3 DEF SwapOut, Deactivate
  <1>11. CASE SettleReady(t)
    BY <1>11, <1>2, <1>3 DEF SettleReady
  <1>12. CASE SettleEnded(t)
    BY <1>12, <1>2, <1>3 DEF SettleEnded, schedVars
  <1>13. CASE SettleOther(t)
    BY <1>13, <1>2, <1>3 DEF SettleOther, schedVars
  <1>14. CASE SetHold(t)
    BY <1>14, <1>2, <1>3 DEF SetHold, schedVars
  <1>15. CASE EnterIdle(t)
    <2>1. CASE idleTerm[t]
      BY <1>15, <2>1, <1>2, <1>3 DEF EnterIdle
    <2>2. CASE ~idleTerm[t]
      BY <1>15, <2>2, <1>2, <1>3 DEF EnterIdle, CountIdle
    <2> QED BY <2>1, <2>2
  <1>16. CASE IdleCheck(t)
    BY <1>16, <1>2, <1>3 DEF IdleCheck, schedVars
  <1>17. CASE LeaveIdle(t)
    BY <1>17, <1>2, <1>3 DEF LeaveIdle
  <1>18. CASE YieldToReady(t)
    BY <1>18, <1>2, <1>3 DEF YieldToReady, schedVars, InBody, Executing
  <1>19. CASE Park(t)
    BY <1>19, <1>2, <1>3 DEF Park, schedVars, InBody, Executing
  <1>20. CASE YieldToHold(t)
    BY <1>20, <1>2, <1>3 DEF YieldToHold, schedVars
  <1>21. CASE Return(t)
    BY <1>21, <1>2, <1>3 DEF Return, schedVars, Executing
  <1>22. CASE Throw(t)
    BY <1>22, <1>2, <1>3 DEF Throw, schedVars, InBody, Executing
  <1>23. CASE \E c \in Callbacks, thread \in Pins : Spawn(t, c, thread)
    BY <1>23, <1>2 DEF Spawn, threadVars
  <1>24. CASE \E thread \in Pins : SwitchTo(t, thread)
    BY <1>24, <1>2, <1>3 DEF SwitchTo, InBody, Executing
  <1> QED BY <1>4, <1>5, <1>6, <1>7, <1>8, <1>9, <1>10, <1>11, <1>12, <1>13, <1>14, <1>15, <1>16, <1>17, <1>18, <1>19, <1>20, <1>21, <1>22, <1>23, <1>24 DEF RunStep, BodyStep

\* So does every other step: only start() and stop() move a thread, out of "off".
LEMMA CountStep ==
  ASSUME IInv, [Next]_vars
  PROVE  CountersExact'
  <1> USE PcRegions
  <1> USE DEF IInv
  <1>1. ASSUME UNCHANGED <<pc, m_activeThreadCount, m_idleThreadCount>>
        PROVE  CountersExact'
    BY <1>1 DEF CountersExact
  <1>2. ASSUME NEW t \in Threads, ThreadStep(t)
        PROVE  CountersExact'
    BY <1>2, CountThread DEF ThreadStep
  <1>3. CASE \E t \in Threads, f \in Fibers : Wake(t, f)
    BY <1>1, <1>3 DEF Wake, threadVars
  <1>4. CASE \E c \in Callbacks, thread \in Pins : MainSchedule(c, thread)
    BY <1>1, <1>4 DEF MainSchedule, threadVars
  <1>5. CASE Start
    <2>1. {t \in Threads : pc[t] \in ActivePcs} = {t \in Threads : pc'[t] \in ActivePcs}
      BY <1>5 DEF Start, NotStarted
    <2>2. {t \in Threads : pc[t] \in IdlePcs} = {t \in Threads : pc'[t] \in IdlePcs}
      BY <1>5 DEF Start, NotStarted
    <2> QED BY <1>5, <2>1, <2>2 DEF Start, schedVars, CountersExact
  <1>6. CASE StopBegin
    BY <1>1, <1>6 DEF StopBegin, schedVars, threadVars
  <1>7. CASE StopMark \/ RootReturn \/ Join
    BY <1>1, <1>7 DEF StopMark, RootReturn, Join, schedVars, threadVars
  <1>8. CASE StopCall
    <2>1. CASE UseCaller /\ ~Stopping
      <3>1. pc[Root] = "off" /\ Root \in Threads
        BY <1>8, <2>1 DEF StopCall, NotStarted, Threads
      <3>2. {t \in Threads : pc[t] \in ActivePcs} = {t \in Threads : pc'[t] \in ActivePcs}
        BY <1>8, <2>1, <3>1 DEF StopCall, TypeOK
      <3>3. {t \in Threads : pc[t] \in IdlePcs} = {t \in Threads : pc'[t] \in IdlePcs}
        BY <1>8, <2>1, <3>1 DEF StopCall, TypeOK
      <3> QED BY <1>8, <3>2, <3>3 DEF StopCall, schedVars, CountersExact
    <2>2. CASE ~(UseCaller /\ ~Stopping)
      BY <1>1, <1>8, <2>2 DEF StopCall, schedVars
    <2> QED BY <2>1, <2>2
  <1>9. CASE UNCHANGED vars
    BY <1>1, <1>9 DEF vars, schedVars, threadVars
  <1> QED BY <1>2, <1>3, <1>4, <1>5, <1>6, <1>7, <1>8, <1>9 DEF Next, StopStep, Over

-----------------------------------------------------------------------------
(* TypeOK and the facts about tasks are preserved.                         *)

\* What the steps need to know of a thread that is switched into a fiber.
LEMMA RunningFiber ==
  ASSUME TypeOK, NEW t \in Threads, HasTask(t), pc[t] \in InFiberPcs
  PROVE  /\ Running(t) \in Fibers
         /\ ft[t].fiber = None => cb_fiber[t] = Running(t)
  <1>1. ft[t].fiber \in Fibers \cup {None} /\ cb_fiber[t] \in Fibers \cup {None}
    BY DEF TypeOK, Task
  <1> QED BY <1>1 DEF HasTask, Running

\* The tasks run() and its callers build are tasks.
LEMMA TaskTypes ==
  /\ NoTask \in Task
  /\ \A f \in Fibers, thread \in Threads \cup {None} :
       FiberTask(f, thread) \in Task /\ TaskNonEmpty(FiberTask(f, thread))
  /\ \A c \in Callbacks, thread \in Threads \cup {None} :
       CbTask(c, thread) \in Task /\ TaskNonEmpty(CbTask(c, thread))
  BY ThreadsAssumption DEF NoTask, FiberTask, CbTask, Task, TaskNonEmpty, Fibers

LEMMA PcNames ==
  /\ ActivePcs \subseteq Pcs /\ IdlePcs \subseteq Pcs
  /\ \A x \in {"dispatch", "swapIn", "body", "parked", "yield", "idle", "idleOut",
                "off", "take", "noTask", "settle", "setHold", "exited"} : x \in Pcs
  BY DEF Pcs, ActivePcs, IdlePcs

\* Letting go of a fiber keeps run()'s local variables in their types.
LEMMA ReleaseType ==
  ASSUME TypeOK, NEW t \in Threads, Release(t)
  PROVE  ft' \in [Threads -> Task] /\ cb_fiber' \in [Threads -> Fibers \cup {None}]
  <1>1. CASE ft[t].fiber # None
    BY <1>1, TaskTypes DEF Release, TypeOK
  <1>2. CASE ft[t].fiber = None
    BY <1>2 DEF Release, TypeOK
  <1> QED BY <1>1, <1>2

\* A step of a scheduler thread keeps every variable in its type (the counters
\* follow from CountThread).
LEMMA TypeThread ==
  ASSUME IInv, NEW t \in Threads, RunStep(t) \/ BodyStep(t), ~aborted,
         m_activeThreadCount' \in Nat, m_idleThreadCount' \in Nat
  PROVE  TypeOK'
  <1> USE TaskTypes, PcNames, ThreadsAssumption, BodyAssumption
  <1>0. TypeOK /\ HasTask(t)
    BY DEF IInv
  <1> USE <1>0 DEF TypeOK
  <1>r. pc[t] \in InFiberPcs => /\ Running(t) \in Fibers
                                /\ ft[t].fiber = None => cb_fiber[t] = Running(t)
    BY RunningFiber
  <1>1. CASE Take(t)
    <2>1. PICK i \in Takeable(t) : ft' = [ft EXCEPT ![t] = m_fibers[i]] /\ m_fibers' = QueueWithout(i)
      BY <1>1 DEF Take
    <2>2. m_fibers' \in Seq(Task) /\ m_fibers[i] \in Task
      BY <2>1, QueueWithoutType DEF Takeable
    <2> QED BY <1>1, <2>1, <2>2 DEF Take, stopVars, fiberVars, envVars
  <1>2. CASE TakeNothing(t)
    BY <1>2 DEF TakeNothing, schedVars, stopVars, fiberVars, envVars
  <1>3. CASE DropTask(t)
    BY <1>3 DEF DropTask, schedVars, stopVars, fiberVars, envVars
  <1>4. CASE DispatchFiber(t)
    BY <1>4 DEF DispatchFiber, schedVars, stopVars, fiberVars, envVars
  <1>5. CASE DispatchCb(t)
    <2> DEFINE f == IF cb_fiber[t] # None THEN cb_fiber[t] ELSE ft[t].cb
    <2>1. ft[t].cb \in Callbacks /\ f \in Fibers
      BY <1>5 DEF DispatchCb, HasTask, TaskNonEmpty, Task, Fibers
    <2>2. m_state' \in [Fibers -> States] /\ aborted' \in BOOLEAN
      <3>1. CASE cb_fiber[t] # None
        BY <1>5, <2>1, <3>1 DEF DispatchCb, States
      <3>2. CASE cb_fiber[t] = None
        BY <1>5, <2>1, <3>2 DEF DispatchCb
      <3> QED BY <3>1, <3>2
    <2> QED BY <1>5, <2>1, <2>2 DEF DispatchCb, schedVars, stopVars, envVars
  <1>6. CASE SwapIn(t)
    <2>1. Running(t) \in Fibers
      BY <1>6, <1>r DEF SwapIn, InFiberPcs
    <2> QED BY <1>6, <2>1 DEF SwapIn, States, schedVars, stopVars, envVars
  <1>7. CASE SwapOut(t)
    BY <1>7 DEF SwapOut, schedVars, stopVars, fiberVars, envVars
  <1>8. CASE SettleReady(t)
    <2>1. Running(t) \in Fibers
      BY <1>8, <1>r DEF SettleReady, InFiberPcs
    <2>2. ft' \in [Threads -> Task] /\ cb_fiber' \in [Threads -> Fibers \cup {None}]
      BY <1>8, ReleaseType DEF SettleReady
    <2>3. m_fibers' \in Seq(Task)
      BY <1>8, <2>1 DEF SettleReady, Requeue, Schedule
    <2> QED BY <1>8, <2>2, <2>3 DEF SettleReady, stopVars, fiberVars, envVars
  <1>9. CASE SettleEnded(t)
    <2>1. ft[t].fiber = None => cb_fiber[t] \in Fibers
      BY <1>9, <1>r DEF SettleEnded, InFiberPcs
    <2>2. m_state' \in [Fibers -> States] /\ m_cb' \in [Fibers -> Callbacks \cup {None}]
      BY <1>9, <2>1 DEF SettleEnded, States, fiberVars
    <2> QED BY <1>9, <2>2 DEF SettleEnded, schedVars, stopVars, envVars
  <1>10. CASE SettleOther(t)
    BY <1>10 DEF SettleOther, schedVars, stopVars, fiberVars, envVars
  <1>11. CASE SetHold(t)
    <2>1. Running(t) \in Fibers
      BY <1>11, <1>r DEF SetHold, InFiberPcs
    <2>2. ft' \in [Threads -> Task] /\ cb_fiber' \in [Threads -> Fibers \cup {None}]
      BY <1>11, ReleaseType DEF SetHold
    <2> QED BY <1>11, <2>1, <2>2 DEF SetHold, States, schedVars, stopVars, envVars
  <1>12. CASE EnterIdle(t)
    <2>1. pc' \in [Threads -> Pcs]
      BY <1>12 DEF EnterIdle
    <2> QED BY <1>12, <2>1 DEF EnterIdle, stopVars, fiberVars, envVars
  <1>13. CASE IdleCheck(t)
    <2>1. Stopping \in BOOLEAN
      BY DEF Stopping
    <2> QED BY <1>13, <2>1 DEF IdleCheck, schedVars, stopVars, fiberVars, envVars
  <1>14. CASE LeaveIdle(t)
    BY <1>14 DEF LeaveIdle, schedVars, stopVars, fiberVars, envVars
  <1>15. CASE YieldToReady(t)
    <2>1. Running(t) \in Fibers /\ m_cb[Running(t)] \in Callbacks
      BY <1>15, <1>r DEF YieldToReady, InFiberPcs, InBody, Executing
    <2> QED BY <1>15, <2>1 DEF YieldToReady, States, CountSuspend, schedVars, stopVars, fiberVars
  <1>16. CASE Park(t)
    <2>1. Running(t) \in Fibers /\ m_cb[Running(t)] \in Callbacks
      BY <1>16, <1>r DEF Park, InFiberPcs, InBody, Executing
    <2> QED BY <1>16, <2>1 DEF Park, States, CountSuspend, schedVars, stopVars, fiberVars
  <1>17. CASE YieldToHold(t)
    <2>1. Running(t) \in Fibers
      BY <1>17, <1>r DEF YieldToHold, InFiberPcs
    <2> QED BY <1>17, <2>1 DEF YieldToHold, States, schedVars, stopVars, envVars
  <1>18. CASE Return(t)
    <2>1. Running(t) \in Fibers /\ m_cb[Running(t)] \in Callbacks
      BY <1>18, <1>r DEF Return, InFiberPcs, InBody, Executing
    <2> QED BY <1>18, <2>1 DEF Return, States, CountSuspend, schedVars, stopVars, fiberVars
  <1>19. CASE Throw(t)
    <2>1. Running(t) \in Fibers /\ m_cb[Running(t)] \in Callbacks
      BY <1>19, <1>r DEF Throw, InFiberPcs, InBody, Executing
    <2> QED BY <1>19, <2>1 DEF Throw, States, CountSuspend, schedVars, stopVars, fiberVars
  <1>20. CASE \E c \in Callbacks, thread \in Pins : Spawn(t, c, thread)
    BY <1>20 DEF Spawn, Schedule, stopVars, fiberVars, threadVars
  <1>21. CASE \E thread \in Pins : SwitchTo(t, thread)
    <2>1. Running(t) \in Fibers /\ m_cb[Running(t)] \in Callbacks
      BY <1>21, <1>r DEF SwitchTo, InFiberPcs, InBody, Executing
    <2> QED BY <1>21, <2>1 DEF SwitchTo, Schedule, CountSuspend, stopVars, fiberVars
  <1> QED BY <1>1, <1>2, <1>3, <1>4, <1>5, <1>6, <1>7, <1>8, <1>9, <1>10, <1>11, <1>12, <1>13, <1>14, <1>15, <1>16, <1>17, <1>18, <1>19, <1>20, <1>21 DEF RunStep, BodyStep

\* A step of thread t leaves the locals of every other thread alone, and main.
LEMMA OnlyOwnLocals ==
  ASSUME TypeOK, NEW t \in Threads, RunStep(t) \/ BodyStep(t)
  PROVE  /\ \A u \in Threads \ {t} :
              /\ pc'[u] = pc[u]
              /\ ft'[u] = ft[u]
              /\ cb_fiber'[u] = cb_fiber[u]
              /\ idleTerm'[u] = idleTerm[u]
         /\ pc[t] \notin {"off", "exited"} /\ pc'[t] # "off"
         /\ UNCHANGED stopVars
  <1> USE DEF TypeOK
  <1>1. CASE Take(t) \/ TakeNothing(t)
    BY <1>1 DEF Take, TakeNothing
  <1>2. CASE DropTask(t) \/ DispatchFiber(t)
    BY <1>2 DEF DropTask, DispatchFiber
  <1>3. CASE DispatchCb(t)
    BY <1>3 DEF DispatchCb
  <1>4. CASE SwapIn(t) \/ SwapOut(t)
    BY <1>4 DEF SwapIn, SwapOut
  <1>5. ASSUME Release(t)
        PROVE  \A u \in Threads \ {t} : ft'[u] = ft[u] /\ cb_fiber'[u] = cb_fiber[u]
    <2>1. CASE ft[t].fiber # None
      BY <1>5, <2>1 DEF Release
    <2>2. CASE ft[t].fiber = None
      BY <1>5, <2>2 DEF Release
    <2> QED BY <2>1, <2>2
  <1>6. CASE SettleReady(t)
    BY <1>5, <1>6 DEF SettleReady
  <1>7. CASE SettleEnded(t) \/ SettleOther(t)
    BY <1>7 DEF SettleEnded, SettleOther
  <1>8. CASE SetHold(t)
    BY <1>5, <1>8 DEF SetHold
  <1>9. CASE EnterIdle(t)
    <2>1. pc[t] = "noTask" /\ \E v \in {"exited", "idle"} : pc' = [pc EXCEPT ![t] = v]
      BY <1>9 DEF EnterIdle
    <2> QED BY <1>9, <2>1 DEF EnterIdle
  <1>10. CASE IdleCheck(t) \/ LeaveIdle(t)
    BY <1>10 DEF IdleCheck, LeaveIdle
  <1>11. CASE \E c \in Callbacks, thread \in Pins : Spawn(t, c, thread)
    BY <1>11 DEF Spawn, InBody, Executing, threadVars
  <1>12. CASE YieldToReady(t) \/ Park(t) \/ Throw(t)
    BY <1>12 DEF YieldToReady, Park, Throw, InBody, Executing
  <1>13. CASE \E thread \in Pins : SwitchTo(t, thread)
    BY <1>13 DEF SwitchTo, InBody, Executing
  <1>14. CASE YieldToHold(t) \/ Return(t)
    BY <1>14 DEF YieldToHold, Return, Executing
  <1> QED BY <1>1, <1>2, <1>3, <1>4, <1>6, <1>7, <1>8, <1>9, <1>10, <1>11, <1>12, <1>13,
             <1>14 DEF RunStep, BodyStep

\* A step of a scheduler thread appends a task to the queue, takes one out or
\* leaves it alone, so every entry stays non-empty.
LEMMA QueueThread ==
  ASSUME IInv, NEW t \in Threads, RunStep(t) \/ BodyStep(t)
  PROVE  \A i \in 1..Len(m_fibers') : TaskNonEmpty(m_fibers'[i])
  <1>0. /\ TypeOK /\ HasTask(t)
        /\ m_fibers \in Seq(Task)
        /\ \A i \in 1..Len(m_fibers) : TaskNonEmpty(m_fibers[i])
    BY DEF IInv, TypeOK
  <1>1. ASSUME NEW task \in Task, TaskNonEmpty(task), Schedule(task)
        PROVE  \A i \in 1..Len(m_fibers') : TaskNonEmpty(m_fibers'[i])
    BY <1>0, <1>1 DEF Schedule
  <1>2. CASE Take(t)
    <2>1. PICK i \in 1..Len(m_fibers) : m_fibers' = QueueWithout(i)
      BY <1>2 DEF Take, Takeable
    <2> QED BY <1>0, <2>1, QueueWithoutType
  <1>3. CASE SettleReady(t)
    <2>1. Running(t) \in Fibers
      BY <1>0, <1>3, RunningFiber DEF SettleReady, InFiberPcs
    <2> QED BY <1>1, <1>3, <2>1, TaskTypes DEF SettleReady, Requeue
  <1>4. CASE \E c \in Callbacks, thread \in Pins : Spawn(t, c, thread)
    BY <1>1, <1>4, TaskTypes, ThreadsAssumption DEF Spawn
  <1>5. CASE \E thread \in Pins : SwitchTo(t, thread)
    <2>1. Running(t) \in Fibers
      BY <1>0, <1>5, RunningFiber DEF SwitchTo, InBody, Executing, InFiberPcs
    <2> QED BY <1>1, <1>5, <2>1, TaskTypes, ThreadsAssumption DEF SwitchTo
  <1>6. CASE UNCHANGED m_fibers
    BY <1>0, <1>6
  <1> QED BY <1>2, <1>3, <1>4, <1>5, <1>6 DEF RunStep, BodyStep, schedVars, TakeNothing,
          DropTask, DispatchFiber, DispatchCb, SwapIn, SwapOut, SettleEnded, SettleOther,
          SetHold, EnterIdle, IdleCheck, LeaveIdle, YieldToReady, Park, YieldToHold,
          Return, Throw

\* The thread that steps keeps its task, or its fiber, until it lets go of it.
LEMMA HasTaskThread ==
  ASSUME IInv, NEW t \in Threads, RunStep(t) \/ BodyStep(t)
  PROVE  HasTask(t)'
  <1>0. TypeOK /\ HasTask(t) /\ \A i \in 1..Len(m_fibers) : TaskNonEmpty(m_fibers[i])
    BY DEF IInv
  <1> USE <1>0 DEF TypeOK, HasTask, InFiberPcs
  <1>1. CASE Take(t)
    <2>1. PICK i \in 1..Len(m_fibers) : ft' = [ft EXCEPT ![t] = m_fibers[i]]
      BY <1>1 DEF Take, Takeable
    <2> QED BY <1>1, <2>1 DEF Take, TaskNonEmpty
  <1>2. CASE DispatchFiber(t)
    BY <1>2 DEF DispatchFiber, Running
  <1>3. CASE DispatchCb(t)
    BY <1>3, ThreadsAssumption DEF DispatchCb, Running, NoTask, TaskNonEmpty
  <1>4. CASE SwapIn(t) \/ SwapOut(t) \/ SettleOther(t)
    BY <1>4 DEF SwapIn, SwapOut, SettleOther, Running
  <1>5. CASE pc'[t] \in {"take", "noTask", "idle", "idleOut", "exited"}
    BY <1>5
  <1>6. CASE TakeNothing(t) \/ DropTask(t) \/ SettleReady(t) \/ SettleEnded(t) \/ SetHold(t)
    BY <1>5, <1>6 DEF TakeNothing, DropTask, SettleReady, SettleEnded, SetHold
  <1>7. CASE EnterIdle(t) \/ IdleCheck(t) \/ LeaveIdle(t)
    <2>1. CASE EnterIdle(t)
      <3>1. \E v \in {"exited", "idle"} : pc' = [pc EXCEPT ![t] = v]
        BY <2>1 DEF EnterIdle
      <3> QED BY <1>5, <3>1
    <2>2. CASE IdleCheck(t) \/ LeaveIdle(t)
      BY <1>5, <2>2 DEF IdleCheck, LeaveIdle
    <2> QED BY <1>7, <2>1, <2>2
  <1>8. CASE \E c \in Callbacks, thread \in Pins : Spawn(t, c, thread)
    BY <1>8 DEF Spawn, threadVars, Running
  <1>9. CASE \E thread \in Pins : SwitchTo(t, thread)
    BY <1>9 DEF SwitchTo, InBody, Executing, Running
  <1>10. CASE YieldToReady(t) \/ Park(t) \/ Throw(t) \/ YieldToHold(t) \/ Return(t)
    BY <1>10 DEF YieldToReady, Park, Throw, YieldToHold, Return, InBody, Executing, Running
  <1> QED BY <1>1, <1>2, <1>3, <1>4, <1>6, <1>7, <1>8, <1>9, <1>10 DEF RunStep, BodyStep

\* IInv is inductive.
LEMMA IInvInit == Init => IInv
  <1> SUFFICES ASSUME Init PROVE IInv
    OBVIOUS
  <1> USE ThreadsAssumption, BodyAssumption DEF Init
  <1>1. TypeOK
    <2>1. rootState \in States /\ m_state \in [Fibers -> States]
      BY DEF States
    <2>2. ft \in [Threads -> Task] /\ pc \in [Threads -> Pcs]
      BY TaskTypes, PcNames
    <2>3. m_cb \in [Fibers -> Callbacks \cup {None}] /\ wakers \in [Fibers -> Nat]
      OBVIOUS
    <2>4. m_fibers \in Seq(Task)
      OBVIOUS
    <2> QED BY <2>1, <2>2, <2>3, <2>4 DEF TypeOK
  <1>2. CountersExact
    <2>1. {t \in Threads : pc[t] \in ActivePcs} = {} /\ {t \in Threads : pc[t] \in IdlePcs} = {}
      BY PcRegions
    <2> QED BY <2>1, FS_EmptySet DEF CountersExact
  <1>3. (\A t \in Threads : HasTask(t)) /\ NotStarted
    BY DEF HasTask, InFiberPcs, NotStarted, Threads
  <1> QED BY <1>1, <1>2, <1>3 DEF IInv

LEMMA IInvStep == IInv /\ [Next]_vars => IInv'
  <1> SUFFICES ASSUME IInv, [Next]_vars PROVE IInv'
    OBVIOUS
  <1>0. TypeOK /\ NotStarted /\ (\A t \in Threads : HasTask(t))
        /\ (\A i \in 1..Len(m_fibers) : TaskNonEmpty(m_fibers[i]))
    BY DEF IInv
  <1>1. CountersExact'
    BY CountStep
  <1>2. m_activeThreadCount' \in Nat /\ m_idleThreadCount' \in Nat
    <2>1. \A S : IsFiniteSet({t \in Threads : pc'[t] \in S})
      BY ThreadsFinite, FS_Subset
    <2> QED BY <1>1, <2>1, FS_CardinalityType DEF CountersExact
  <1>3. ASSUME NEW t \in Threads, ThreadStep(t)
        PROVE  IInv'
    <2>1. ~aborted /\ (RunStep(t) \/ BodyStep(t))
      BY <1>3 DEF ThreadStep
    <2>2. TypeOK'
      BY <1>2, <2>1, TypeThread
    <2>3. \A i \in 1..Len(m_fibers') : TaskNonEmpty(m_fibers'[i])
      BY <2>1, QueueThread
    <2>4. \A u \in Threads : HasTask(u)'
      BY <1>0, <2>1, OnlyOwnLocals, HasTaskThread DEF HasTask, Running
    <2>5. NotStarted'
      BY <1>0, <2>1, OnlyOwnLocals DEF NotStarted, stopVars, Threads
    <2> QED BY <1>1, <2>2, <2>3, <2>4, <2>5 DEF IInv
  <1>4. CASE \E t \in Threads, f \in Fibers : Wake(t, f)
    <2>1. PICK t \in Threads, f \in Fibers : Wake(t, f)
      BY <1>4
    <2>2. FiberTask(f, None) \in Task /\ TaskNonEmpty(FiberTask(f, None))
      BY TaskTypes
    <2>3. TypeOK'
      BY <1>0, <2>1, <2>2 DEF TypeOK, Wake, Schedule, stopVars, fiberVars, threadVars
    <2>4. \A i \in 1..Len(m_fibers') : TaskNonEmpty(m_fibers'[i])
      BY <1>0, <2>1, <2>2 DEF TypeOK, Wake, Schedule
    <2> QED BY <1>0, <1>1, <2>1, <2>3, <2>4
            DEF IInv, Wake, threadVars, stopVars, HasTask, NotStarted, Running
  <1>5. CASE \E c \in Callbacks, thread \in Pins : MainSchedule(c, thread)
    <2>1. PICK c \in Callbacks, thread \in Pins : MainSchedule(c, thread)
      BY <1>5
    <2>2. CbTask(c, thread) \in Task /\ TaskNonEmpty(CbTask(c, thread))
      BY TaskTypes, ThreadsAssumption
    <2>3. TypeOK'
      BY <1>0, <2>1, <2>2 DEF TypeOK, MainSchedule, Schedule, stopVars, fiberVars, threadVars
    <2>4. \A i \in 1..Len(m_fibers') : TaskNonEmpty(m_fibers'[i])
      BY <1>0, <2>1, <2>2 DEF TypeOK, MainSchedule, Schedule
    <2> QED BY <1>0, <1>1, <2>1, <2>3, <2>4
            DEF IInv, MainSchedule, threadVars, stopVars, HasTask, NotStarted, Running
  <1>6. CASE Start
    <2>1. TypeOK'
      BY <1>0, <1>6, PcNames DEF Start, TypeOK, schedVars, fiberVars, envVars
    <2>2. pc' \in [Threads -> {"take", "off"}] /\ (UseCaller => pc'[Root] = "off")
      BY <1>6, ThreadsAssumption DEF Start, Threads
    <2>3. \A t \in Threads : HasTask(t)'
      BY <2>2 DEF HasTask, InFiberPcs
    <2>4. NotStarted'
      BY <1>6, <2>2 DEF Start, NotStarted
    <2> QED BY <1>0, <1>1, <1>6, <2>1, <2>3, <2>4 DEF Start, schedVars, IInv
  <1>7. CASE StopBegin
    <2>1. mainPc' \in {"stopMark", "stopped"} /\ m_stopping' \in BOOLEAN
      BY <1>0, <1>7 DEF StopBegin, TypeOK
    <2>2. UseCaller => pc[Root] = "off"
      BY <1>0, <1>7 DEF StopBegin, NotStarted
    <2> QED BY <1>0, <1>1, <1>7, <2>1, <2>2 DEF IInv, StopBegin, TypeOK, schedVars, fiberVars,
            threadVars, envVars, HasTask, NotStarted, Running
  <1>8. CASE StopMark
    BY <1>0, <1>1, <1>8 DEF IInv, StopMark, MarkStopping, TypeOK, schedVars, fiberVars,
       threadVars, envVars, HasTask, NotStarted, Running
  <1>9. CASE StopCall
    <2>1. CASE UseCaller /\ ~Stopping
      <3>1. pc' = [pc EXCEPT ![Root] = "take"] /\ mainPc' = "inRoot" /\ rootState' = "EXEC"
        BY <1>9, <2>1 DEF StopCall
      <3>2. TypeOK'
        BY <1>0, <1>9, <3>1, PcNames DEF StopCall, TypeOK, States, schedVars, fiberVars, envVars
      <3>3. \A t \in Threads : HasTask(t)'
        BY <1>0, <1>9, <3>1 DEF StopCall, TypeOK, HasTask, InFiberPcs, Running
      <3> QED BY <1>0, <1>1, <1>9, <3>1, <3>2, <3>3 DEF IInv, StopCall, schedVars, NotStarted
    <2>2. CASE ~(UseCaller /\ ~Stopping)
      BY <1>0, <1>1, <1>9, <2>2 DEF IInv, StopCall, TypeOK, schedVars, fiberVars, envVars,
         HasTask, NotStarted, Running
    <2> QED BY <2>1, <2>2
  <1>10. CASE RootReturn \/ Join
    BY <1>0, <1>1, <1>10 DEF IInv, RootReturn, Join, TypeOK, States, schedVars, fiberVars,
       threadVars, envVars, HasTask, NotStarted, Running
  <1>11. CASE UNCHANGED vars
    BY <1>0, <1>1, <1>11 DEF IInv, vars, TypeOK, schedVars, stopVars, fiberVars,
       threadVars, envVars, HasTask, NotStarted, Running
  <1> QED BY <1>3, <1>4, <1>5, <1>6, <1>7, <1>8, <1>9, <1>10, <1>11 DEF Next, StopStep, Over

-----------------------------------------------------------------------------
(* The theorems.                                                           *)

\* The inductive invariant holds, for any threads, callbacks, pins, behaviour of
\* the callbacks and initial m_state of new fibers that the assumptions admit.
THEOREM Invariance == Spec => []IInv
  BY IInvInit, IInvStep, PTL DEF Spec

\* Every variable keeps its type; in particular the unsigned thread counters of
\* scheduler.h:140-141 never go below zero.
THEOREM TypeCorrect == Spec => []TypeOK
  <1>1. IInv => TypeOK
    BY DEF IInv
  <1> QED BY <1>1, Invariance, PTL

\* m_activeThreadCount and m_idleThreadCount count exactly the threads that hold
\* a task, and those inside their idle fiber.
THEOREM CountersCorrect == Spec => []CountersExact
  <1>1. IInv => CountersExact
    BY DEF IInv
  <1> QED BY <1>1, Invariance, PTL

\* When stopping() is true no thread is counted as active.
LEMMA StoppingCounts ==
  ASSUME IInv, Stopping
  PROVE  m_fibers = <<>> /\ \A t \in Threads : pc[t] \notin ActivePcs
  <1>1. IsFiniteSet({t \in Threads : pc[t] \in ActivePcs})
    BY ThreadsFinite, FS_Subset
  <1>2. {t \in Threads : pc[t] \in ActivePcs} = {}
    BY <1>1, FS_EmptySet DEF Stopping, IInv, CountersExact
  <1> QED BY <1>2 DEF Stopping

-----------------------------------------------------------------------------
(* stop() drains the queue.                                                *)
(*                                                                         *)
(* Threads leave run() one at a time.  Each one has seen stopping() true   *)
(* at some point (idleTerm) and nothing to take at a later one (noTask).   *)
(* A thread that queues a task afterwards has not left, and a task in the  *)
(* queue that cannot be taken is a fiber some thread executes.  So the     *)
(* last thread to find nothing leaves an empty queue.                      *)

\* A fiber in state EXEC is executed by some thread: run()'s scan skips it for a
\* reason.  (The converse, ExecutingIsExec, is false.)
ExecHasRunner ==
    \A f \in Fibers : m_state[f] = "EXEC" =>
        \E t \in Threads : pc[t] \in {"body", "parked"} /\ Running(t) = f

Unpinned == \A i \in 1..Len(m_fibers) : m_fibers[i].thread = None

\* A thread's idle fiber ends only during stop(), and only then may it leave.
StopFlags ==
    /\ mainPc = "new" => ~m_autoStop
    /\ mainPc = "running" => ~m_stopping
    /\ mainPc \in {"new", "running"} => \A t \in Threads : ~idleTerm[t]
    /\ \A t \in Threads : pc[t] = "exited" => idleTerm[t]

\* Nothing will make t look at the queue again.
Leaving(t) ==
    \/ pc[t] = "exited"
    \/ pc[t] = "noTask" /\ idleTerm[t]
    \/ t = Root /\ pc[t] = "off" /\ mainPc \in {"join", "stopped"}
Drained ==
    mainPc \notin {"new", "running"} /\ (\A t \in Threads : Leaving(t)) => m_fibers = <<>>

\* stop() has waited for the threads.
Joined ==
    /\ UseCaller /\ mainPc \in {"join", "stopped"} => pc[Root] \in {"off", "exited"}
    /\ mainPc = "stopped" => WorkersExited

DInv == IInv /\ ExecHasRunner /\ Unpinned /\ StopFlags /\ Joined /\ Drained

\* ExecHasRunner is preserved by the steps of scheduler threads.
LEMMA ExecThread ==
  ASSUME IInv, ExecHasRunner, NEW t \in Threads, RunStep(t) \/ BodyStep(t)
  PROVE  ExecHasRunner'
  <1>0. TypeOK /\ HasTask(t)
    BY DEF IInv
  <1> SUFFICES ASSUME NEW f \in Fibers, m_state'[f] = "EXEC"
               PROVE  \E u \in Threads : pc'[u] \in {"body", "parked"} /\ Running(u)' = f
    BY DEF ExecHasRunner
  <1>1. \A u \in Threads \ {t} : pc'[u] = pc[u] /\ Running(u)' = Running(u)
    BY <1>0, OnlyOwnLocals DEF Running
  <1>2. ASSUME m_state[f] = "EXEC", pc[t] \in {"body", "parked"} => Running(t) # f
        PROVE  \E u \in Threads : pc'[u] \in {"body", "parked"} /\ Running(u)' = f
    BY <1>1, <1>2 DEF ExecHasRunner
  <1>3. CASE pc'[t] \in {"body", "parked"} /\ Running(t)' = f
    BY <1>3
  <1>4. pc[t] \in InFiberPcs => Running(t) \in Fibers /\ (ft[t].fiber = None => cb_fiber[t] = Running(t))
    BY <1>0, RunningFiber
  <1> USE <1>0 DEF TypeOK
  <1>5. CASE Take(t) \/ TakeNothing(t) \/ DropTask(t) \/ DispatchFiber(t) \/ SwapOut(t)
             \/ SettleReady(t) \/ SettleOther(t)
    BY <1>2, <1>5 DEF Take, TakeNothing, DropTask, DispatchFiber, SwapOut, SettleReady,
       SettleOther, fiberVars
  <1>6. CASE EnterIdle(t) \/ IdleCheck(t) \/ LeaveIdle(t)
    BY <1>2, <1>6 DEF EnterIdle, IdleCheck, LeaveIdle, fiberVars
  <1>7. CASE DispatchCb(t)
    <2>1. m_state[f] = "EXEC"
      <3> DEFINE g == IF cb_fiber[t] # None THEN cb_fiber[t] ELSE ft[t].cb
      <3>1. CASE cb_fiber[t] # None
        BY <1>7, <3>1 DEF DispatchCb
      <3>2. CASE cb_fiber[t] = None
        BY <1>7, <3>2, BodyAssumption DEF DispatchCb
      <3> QED BY <3>1, <3>2
    <2> QED BY <1>2, <1>7, <2>1 DEF DispatchCb
  <1>8. CASE SwapIn(t)
    <2>1. CASE f = Running(t)
      BY <1>3, <1>8, <2>1 DEF SwapIn, Running
    <2>2. CASE f # Running(t)
      BY <1>2, <1>8, <2>2 DEF SwapIn
    <2> QED BY <2>1, <2>2
  <1>9. CASE SettleEnded(t)
    <2>1. m_state[f] = "EXEC"
      <3>1. CASE ft[t].fiber # None
        BY <1>9, <3>1 DEF SettleEnded, fiberVars
      <3>2. CASE ft[t].fiber = None
        BY <1>9, <3>2 DEF SettleEnded
      <3> QED BY <3>1, <3>2
    <2> QED BY <1>2, <1>9, <2>1 DEF SettleEnded
  <1>10. CASE SetHold(t)
    BY <1>2, <1>10 DEF SetHold
  <1>11. CASE YieldToReady(t) \/ Return(t) \/ Throw(t) \/ YieldToHold(t)
    <2>1. Running(t) \in Fibers
      BY <1>4, <1>11 DEF YieldToReady, Return, Throw, YieldToHold, InBody, Executing, InFiberPcs
    <2>2. \E s \in States \ {"EXEC"} : m_state' = [m_state EXCEPT ![Running(t)] = s]
      BY <1>11 DEF YieldToReady, Return, Throw, YieldToHold, States
    <2>3. f # Running(t) /\ m_state[f] = "EXEC"
      BY <2>1, <2>2
    <2> QED BY <1>2, <2>3
  <1>12. CASE Park(t)
    BY <1>2, <1>3, <1>12 DEF Park, fiberVars, InBody, Executing, Running
  <1>13. CASE \E thread \in Pins : SwitchTo(t, thread)
    BY <1>2, <1>3, <1>13 DEF SwitchTo, fiberVars, InBody, Executing, Running
  <1>14. CASE \E c \in Callbacks, thread \in Pins : Spawn(t, c, thread)
    BY <1>2, <1>3, <1>14 DEF Spawn, fiberVars, threadVars, InBody, Executing, Running
  <1> QED BY <1>5, <1>6, <1>7, <1>8, <1>9, <1>10, <1>11, <1>12, <1>13, <1>14
          DEF RunStep, BodyStep

\* Without pins every task in the queue is for any thread.
LEMMA UnpinnedThread ==
  ASSUME IInv, Unpinned, Pins = {None}, NEW t \in Threads, RunStep(t) \/ BodyStep(t)
  PROVE  Unpinned'
  <1>0. m_fibers \in Seq(Task)
    BY DEF IInv, TypeOK
  <1>1. ASSUME NEW task, task.thread = None, Schedule(task)
        PROVE  Unpinned'
    BY <1>0, <1>1 DEF Schedule, Unpinned
  <1>2. CASE Take(t)
    <2>1. PICK i \in 1..Len(m_fibers) : m_fibers' = QueueWithout(i)
      BY <1>2 DEF Take, Takeable
    <2> QED BY <1>0, <2>1, QueueWithoutType DEF Unpinned
  <1>3. CASE SettleReady(t)
    BY <1>1, <1>3 DEF SettleReady, Requeue, FiberTask
  <1>4. CASE \E c \in Callbacks, thread \in Pins : Spawn(t, c, thread)
    BY <1>1, <1>4 DEF Spawn, CbTask
  <1>5. CASE \E thread \in Pins : SwitchTo(t, thread)
    BY <1>5 DEF SwitchTo
  <1>6. CASE UNCHANGED m_fibers
    BY <1>6 DEF Unpinned
  <1> QED BY <1>2, <1>3, <1>4, <1>5, <1>6 DEF RunStep, BodyStep, schedVars, TakeNothing,
          DropTask, DispatchFiber, DispatchCb, SwapIn, SwapOut, SettleEnded, SettleOther,
          SetHold, EnterIdle, IdleCheck, LeaveIdle, YieldToReady, Park, YieldToHold,
          Return, Throw

\* What a step of a thread does to its own idle flag and to its leaving.
LEMMA LeavingThread ==
  ASSUME TypeOK, NEW t \in Threads, RunStep(t) \/ BodyStep(t)
  PROVE  /\ idleTerm'[t] => idleTerm[t] \/ Stopping
         /\ pc'[t] = "exited" => pc[t] = "noTask" /\ idleTerm[t] /\ idleTerm'[t] /\ m_fibers' = m_fibers
         /\ pc'[t] = "noTask" => TakeNothing(t)
  <1> USE DEF TypeOK
  <1>1. CASE TakeNothing(t)
    BY <1>1 DEF TakeNothing
  <1>2. CASE EnterIdle(t)
    <2>1. CASE idleTerm[t]
      BY <1>2, <2>1 DEF EnterIdle
    <2>2. CASE ~idleTerm[t]
      BY <1>2, <2>2 DEF EnterIdle
    <2> QED BY <2>1, <2>2
  <1>3. CASE IdleCheck(t)
    BY <1>3 DEF IdleCheck
  <1>4. CASE UNCHANGED idleTerm /\ pc'[t] \notin {"exited", "noTask"}
    BY <1>4
  <1>5. CASE Take(t) \/ DropTask(t) \/ DispatchFiber(t) \/ DispatchCb(t) \/ SwapIn(t) \/ SwapOut(t)
    BY <1>4, <1>5 DEF Take, DropTask, DispatchFiber, DispatchCb, SwapIn, SwapOut
  <1>6. CASE SettleReady(t) \/ SettleEnded(t) \/ SettleOther(t) \/ SetHold(t) \/ LeaveIdle(t)
    BY <1>4, <1>6 DEF SettleReady, SettleEnded, SettleOther, SetHold, LeaveIdle
  <1>7. CASE \E c \in Callbacks, thread \in Pins : Spawn(t, c, thread)
    BY <1>4, <1>7 DEF Spawn, threadVars, InBody, Executing
  <1>8. CASE \E thread \in Pins : SwitchTo(t, thread)
    BY <1>4, <1>8 DEF SwitchTo
  <1>9. CASE YieldToReady(t) \/ Park(t) \/ Throw(t) \/ YieldToHold(t) \/ Return(t)
    BY <1>4, <1>9 DEF YieldToReady, Park, Throw, YieldToHold, Return
  <1> QED BY <1>1, <1>2, <1>3, <1>5, <1>6, <1>7, <1>8, <1>9 DEF RunStep, BodyStep

\* A step of a scheduler thread keeps Drained: the last thread that finds nothing
\* to take finds the queue empty.
LEMMA DrainedThread ==
  ASSUME DInv, Pins = {None}, NEW t \in Threads, RunStep(t) \/ BodyStep(t)
  PROVE  Drained'
  <1>0. TypeOK /\ ExecHasRunner /\ Unpinned /\ Drained
    BY DEF DInv, IInv
  <1> SUFFICES ASSUME mainPc' \notin {"new", "running"}, \A u \in Threads : Leaving(u)'
               PROVE  m_fibers' = <<>>
    BY DEF Drained
  <1>1. /\ mainPc' = mainPc
        /\ \A u \in Threads \ {t} : pc'[u] = pc[u] /\ idleTerm'[u] = idleTerm[u]
        /\ pc'[t] # "off"
    BY <1>0, OnlyOwnLocals DEF stopVars
  <1>2. \A u \in Threads \ {t} : Leaving(u)
    BY <1>1 DEF Leaving
  <1>3. CASE pc'[t] = "exited"
    <2>1. Leaving(t) /\ m_fibers' = m_fibers
      BY <1>0, <1>3, LeavingThread DEF Leaving
    <2> QED BY <1>0, <1>1, <1>2, <2>1 DEF Drained
  <1>4. CASE pc'[t] = "noTask"
    <2>1. TakeNothing(t)
      BY <1>0, <1>4, LeavingThread
    <2>2. \A u \in Threads : pc[u] \notin {"body", "parked"}
      BY <1>2, <2>1 DEF Leaving, TakeNothing
    <2>3. \A f \in Fibers : m_state[f] # "EXEC"
      BY <1>0, <2>2 DEF ExecHasRunner
    <2>4. \A i \in 1..Len(m_fibers) : i \in Takeable(t)
      <3>1. \A i \in 1..Len(m_fibers) : m_fibers[i].fiber \in Fibers \cup {None}
        <4>1. \A i \in 1..Len(m_fibers) : m_fibers[i] \in Task
          BY <1>0 DEF TypeOK
        <4>2. \A task \in Task : task.fiber \in Fibers \cup {None}
          BY DEF Task
        <4> QED BY <4>1, <4>2
      <3> QED BY <1>0, <2>3, <3>1 DEF Unpinned, Takeable
    <2>5. m_fibers \in Seq(Task) /\ Len(m_fibers) = 0
      BY <1>0, <2>1, <2>4 DEF TakeNothing, TypeOK
    <2>6. m_fibers = <<>>
      BY <2>5
    <2> QED BY <2>1, <2>6 DEF TakeNothing, schedVars
  <1> QED BY <1>1, <1>3, <1>4 DEF Leaving

\* DInv is inductive, for a scheduler that has a thread and whose tasks are not pinned.
LEMMA DInvInit == Init => DInv
  <1> SUFFICES ASSUME Init PROVE DInv
    OBVIOUS
  <1>1. IInv
    BY IInvInit
  <1>2. ExecHasRunner /\ Unpinned
    BY DEF Init, ExecHasRunner, Unpinned
  <1>3. StopFlags /\ Joined /\ Drained
    BY DEF Init, StopFlags, Joined, Drained
  <1> QED BY <1>1, <1>2, <1>3 DEF DInv

LEMMA DInvStep ==
  ASSUME Pins = {None}, Threads # {}
  PROVE  DInv /\ [Next]_vars => DInv'
  <1> SUFFICES ASSUME DInv, [Next]_vars PROVE DInv'
    OBVIOUS
  <1>0. /\ IInv /\ TypeOK /\ NotStarted /\ IInv'
        /\ ExecHasRunner /\ Unpinned /\ StopFlags /\ Joined /\ Drained
    BY IInvStep DEF DInv, IInv
  <1>1. ASSUME NEW t \in Threads, ThreadStep(t)
        PROVE  DInv'
    <2>1. RunStep(t) \/ BodyStep(t)
      BY <1>1 DEF ThreadStep
    <2>2. ExecHasRunner' /\ Unpinned' /\ Drained'
      BY <1>0, <2>1, ExecThread, UnpinnedThread, DrainedThread
    <2>3. /\ \A u \in Threads \ {t} : pc'[u] = pc[u] /\ idleTerm'[u] = idleTerm[u]
          /\ pc[t] \notin {"off", "exited"}
          /\ UNCHANGED <<m_stopping, m_autoStop, mainPc>>
      BY <1>0, <2>1, OnlyOwnLocals DEF stopVars
    <2>4. /\ idleTerm'[t] => idleTerm[t] \/ Stopping
          /\ pc'[t] = "exited" => idleTerm'[t]
      BY <1>0, <2>1, LeavingThread
    <2>5. StopFlags'
      BY <1>0, <2>3, <2>4 DEF StopFlags, Stopping
    <2>6. Joined'
      BY <1>0, <2>3 DEF Joined, WorkersExited, Threads
    <2> QED BY <1>0, <2>2, <2>5, <2>6 DEF DInv
  <1>2. ASSUME UNCHANGED <<fiberVars, pc, ft, cb_fiber>>
        PROVE  ExecHasRunner'
    BY <1>0, <1>2 DEF ExecHasRunner, fiberVars, Running
  <1>3. ASSUME NEW task, task.thread = None, Schedule(task)
        PROVE  Unpinned'
    BY <1>0, <1>3 DEF Schedule, Unpinned, TypeOK
  <1>4. CASE \E t \in Threads, f \in Fibers : Wake(t, f)
    <2>1. PICK t \in Threads, f \in Fibers : Wake(t, f)
      BY <1>4
    <2>2. ~Leaving(t)'
      BY <2>1 DEF Wake, Leaving, threadVars
    <2> QED BY <1>0, <1>2, <1>3, <2>1, <2>2 DEF DInv, Wake, threadVars, stopVars, FiberTask,
            StopFlags, Joined, WorkersExited, Drained
  <1>5. CASE \E c \in Callbacks, thread \in Pins : MainSchedule(c, thread)
    BY <1>0, <1>2, <1>3, <1>5 DEF DInv, MainSchedule, threadVars, stopVars, CbTask, StopFlags,
       Joined, WorkersExited, Drained
  <1>6. CASE Start
    <2>1. ExecHasRunner'
      BY <1>0, <1>6 DEF Start, NotStarted, ExecHasRunner, fiberVars
    <2>2. StopFlags' /\ Joined' /\ Drained'
      BY <1>0, <1>6 DEF Start, StopFlags, Joined, Drained
    <2> QED BY <1>0, <1>6, <2>1, <2>2 DEF DInv, Start, schedVars, Unpinned
  <1>7. CASE StopBegin
    <2>1. \A t \in Threads : ~idleTerm[t] /\ pc[t] # "exited"
      BY <1>0, <1>7 DEF StopBegin, StopFlags
    <2>2. mainPc' = "stopMark" \/ (mainPc' = "stopped" /\ m_fibers = <<>> /\ Workers = {})
      BY <1>7 DEF StopBegin
    <2>3. UseCaller => pc[Root] = "off"
      BY <1>0, <1>7 DEF StopBegin, NotStarted
    <2>4. Drained'
      BY <1>7, <2>1, <2>2 DEF StopBegin, Drained, Leaving, schedVars, threadVars
    <2>5. StopFlags' /\ Joined'
      BY <1>0, <1>7, <2>2, <2>3 DEF StopBegin, StopFlags, Joined, WorkersExited, threadVars
    <2> QED BY <1>0, <1>2, <1>7, <2>4, <2>5 DEF DInv, StopBegin, schedVars, threadVars, Unpinned
  <1>8. CASE StopMark
    BY <1>0, <1>2, <1>8 DEF DInv, StopMark, MarkStopping, schedVars, threadVars, Unpinned, StopFlags, Joined,
       Drained, Leaving
  <1>9. CASE StopCall
    <2>1. CASE UseCaller /\ ~Stopping
      <3>1. /\ Root \in Threads
            /\ pc[Root] = "off"
            /\ pc' = [pc EXCEPT ![Root] = "take"]
            /\ mainPc' = "inRoot"
        BY <1>0, <1>9, <2>1 DEF StopCall, NotStarted, Threads
      <3>2. ExecHasRunner'
        BY <1>0, <1>9, <3>1 DEF ExecHasRunner, StopCall, fiberVars, Running, TypeOK
      <3>3. ~Leaving(Root)'
        BY <1>0, <3>1 DEF Leaving, TypeOK
      <3>4. StopFlags' /\ Joined' /\ Drained'
        BY <1>0, <1>9, <3>1, <3>3 DEF StopCall, StopFlags, Joined, Drained, TypeOK
      <3> QED BY <1>0, <1>9, <3>2, <3>4 DEF DInv, StopCall, schedVars, Unpinned
    <2>2. CASE ~UseCaller
      <3>1. mainPc' = "join" /\ Root \notin Threads
        BY <1>9, <2>2, ThreadsAssumption DEF StopCall, Threads
      <3>2. Drained'
        BY <1>0, <1>9, <2>2, <3>1 DEF StopCall, schedVars, Drained, Leaving
      <3> QED BY <1>0, <1>2, <1>9, <2>2, <3>1, <3>2 DEF DInv, StopCall, schedVars, Unpinned,
              StopFlags, Joined
    <2>3. CASE UseCaller /\ Stopping
      <3>1. mainPc = "stopCall" /\ mainPc' = "join" /\ m_fibers = <<>> /\ UNCHANGED <<m_fibers, pc>>
        BY <1>9, <2>3 DEF StopCall, schedVars, Stopping
      <3>2. Drained' /\ Unpinned'
        BY <1>0, <3>1 DEF Drained, Unpinned
      <3>3. StopFlags' /\ Joined'
        BY <1>0, <1>9, <3>1 DEF StopCall, StopFlags, Joined, NotStarted
      <3>4. ExecHasRunner'
        BY <1>2, <1>9, <3>1 DEF StopCall
      <3> QED BY <1>0, <3>2, <3>3, <3>4 DEF DInv
    <2> QED BY <2>1, <2>2, <2>3
  <1>10. CASE RootReturn
    BY <1>0, <1>2, <1>10 DEF DInv, RootReturn, schedVars, threadVars, Unpinned, StopFlags,
       Joined, Drained, Leaving
  <1>11. CASE Join
    BY <1>0, <1>2, <1>11 DEF DInv, Join, schedVars, threadVars, Unpinned, StopFlags, Joined,
       WorkersExited, Drained, Leaving
  <1>12. CASE UNCHANGED vars
    BY <1>0, <1>2, <1>12 DEF DInv, vars, schedVars, stopVars, threadVars, Unpinned, StopFlags,
       Joined, WorkersExited, Drained, Leaving
  <1> QED BY <1>1, <1>4, <1>5, <1>6, <1>7, <1>8, <1>9, <1>10, <1>11, <1>12
          DEF Next, StopStep, Over

\* When stop() has returned the queue is empty, for every scheduler that has a
\* thread and whose tasks are not pinned to one: also when callbacks yield, wait
\* for timers and events, spawn others or throw, on any number of threads.
THEOREM DrainsOnStop ==
  ASSUME Pins = {None}, Threads # {}
  PROVE  Spec => []QueueDrained
  <1>1. DInv => QueueDrained
    BY DEF DInv, QueueDrained, Drained, Joined, WorkersExited, Leaving, Threads
  <1> QED BY <1>1, DInvInit, DInvStep, PTL DEF Spec
=============================================================================
