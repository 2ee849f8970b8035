---------------------------- MODULE HookIOProofs ----------------------------
(***************************************************************************)
(* Proofs about HookIO, for any number of fibers, closers, descriptors and  *)
(* calls.                                                                   *)
(***************************************************************************)
EXTENDS HookIO, TLAPS

Pcs == {"idle", "try", "blocked", "arm", "add", "hold", "ready", "check", "getsockopt"}
WaitTypes ==
    /\ context \in [Fds -> [Events -> Callers \cup {None}]]
    /\ polled \subseteq Fds
    /\ pc \in [Callers -> Pcs]

\* What IOManager does to fibers: it only moves some from "hold" to "ready".
Waking ==
    /\ WaitTypes' /\ HoldIffRegistered'
    /\ \A c \in Callers : pc'[c] = pc[c] \/ (pc[c] = "hold" /\ pc'[c] = "ready")

-----------------------------------------------------------------------------
(* Lemmas.                                                                  *)

\* Head, Tail and Len of the calls that a fiber has not made.
LEMMA TodoHead ==
  ASSUME NEW s \in Seq(Op), s # <<>>
  PROVE  /\ Head(s)[1] \in {"io", "connect"} /\ Head(s)[2] \in Events
         /\ Tail(s) \in Seq(Op) /\ Len(s) \in Nat /\ Len(Tail(s)) = Len(s) - 1
  <1>1. Head(s) \in Op /\ Tail(s) \in Seq(Op) /\ Len(s) \in Nat /\ Len(Tail(s)) = Len(s) - 1
    OBVIOUS
  <1>2. \A op \in Op : op[1] \in {"io", "connect"} /\ op[2] \in Events
    BY DEF Op, Events
  <1> QED BY <1>1, <1>2

\* A fiber that is not idle has a call.
LEMMA CallOf ==
  ASSUME TypeOK, NEW c \in Callers, pc[c] # "idle"
  PROVE  call[c] \in CallType /\ call[c] # None
  BY DEF TypeOK

\* triggerEvent() of some of the events of a descriptor.
LEMMA TriggerWakes ==
  ASSUME TypeOK, HoldIffRegistered, NEW fd \in Fds, NEW es \in SUBSET Events,
         Trigger(fd, es), UNCHANGED call
  PROVE  Waking
  <1>1. WaitTypes'
    BY DEF TypeOK, WaitTypes, Trigger, Pcs
  <1>2. \A c \in Callers : pc'[c] = pc[c] \/ (pc[c] = "hold" /\ pc'[c] = "ready")
    BY HookAssumption DEF TypeOK, Trigger, HoldIffRegistered
  <1>3. HoldIffRegistered'
    <2>1. \A c \in Callers : pc'[c] = "hold" => context'[call'[c].fd][call'[c].e] = c
      BY CallOf DEF TypeOK, Trigger, HoldIffRegistered, CallType
    <2>2. ASSUME NEW g \in Fds, NEW e \in Events, context'[g][e] # None
          PROVE  LET c == context'[g][e] IN pc'[c] = "hold" /\ call'[c].fd = g /\ call'[c].e = e
      BY <2>2, HookAssumption DEF TypeOK, Trigger, HoldIffRegistered
    <2> QED BY <2>1, <2>2 DEF HoldIffRegistered
  <1> QED BY <1>1, <1>2, <1>3 DEF Waking

\* Nothing changes for the fibers.
LEMMA NobodyWakes ==
  ASSUME TypeOK, HoldIffRegistered, UNCHANGED <<context, polled, pc, call>>
  PROVE  Waking
  BY DEF TypeOK, HoldIffRegistered, Waking, WaitTypes, Pcs

\* cancelEvent() and cancelAll().
LEMMA CancelWakes ==
  ASSUME TypeOK, HoldIffRegistered, NEW fd \in Fds, NEW e \in Events,
         cancelEvent(fd, e) \/ cancelAll(fd), UNCHANGED call
  PROVE  Waking
  <1>1. Waited(fd) \in SUBSET Events /\ {e} \in SUBSET Events
    BY DEF Waited
  <1>2. CASE UNCHANGED <<context, polled, pc>>
    BY <1>2, NobodyWakes
  <1>3. CASE Trigger(fd, {e})
    BY <1>1, <1>3, TriggerWakes
  <1>4. CASE Trigger(fd, Waited(fd))
    BY <1>1, <1>4, TriggerWakes
  <1> QED BY <1>2, <1>3, <1>4 DEF cancelEvent, cancelAll

-----------------------------------------------------------------------------
(* Types, and fibers and their registrations.  Neither is inductive without *)
(* the other: what wakes a registered fiber must find it asleep.            *)

Core == TypeOK /\ HoldIffRegistered

\* The actions on descriptors and options leave the fibers alone.
LEMMA DescriptorCore ==
  ASSUME Core, NEW fd \in Fds, NEW e \in Events, NEW nonblock \in BOOLEAN,
         Open(fd) \/ SetTimeout(fd, e) \/ BecomeReady(fd, e) \/ Fcntl(fd, nonblock) \/ Ioctl(fd, nonblock)
  PROVE  Core'
  <1> USE DEF Core, TypeOK, HoldIffRegistered, calls, waits, kernel, fdManager
  <1>1. CASE Open(fd) BY <1>1 DEF Open
  <1>2. CASE SetTimeout(fd, e) BY <1>2 DEF SetTimeout
  <1>3. CASE BecomeReady(fd, e) BY <1>3 DEF BecomeReady
  <1>4. CASE Fcntl(fd, nonblock) BY <1>4 DEF Fcntl, SetUser, SetKernel
  <1>5. CASE Ioctl(fd, nonblock) BY <1>5 DEF Ioctl, SetUser, SetKernel
  <1> QED BY <1>1, <1>2, <1>3, <1>4, <1>5

\* Waking keeps the types of what it leaves alone.
LEMMA WakingCore ==
  ASSUME Core, Waking, UNCHANGED <<single, kernel, fdManager, call, todo, armed, changes, failed>>,
         callbacks' \subseteq callbacks,
         closing' \in [Closers -> {"idle", "cancelAll", "del", "close"} \X (Fds \cup {None})],
         \A k \in Closers : closing'[k][1] # "idle" => closing'[k][2] \in Fds
  PROVE  Core'
  BY DEF Core, TypeOK, Waking, WaitTypes, Pcs, kernel, fdManager

LEMMA DeliverCore ==
  ASSUME Core, NEW fd \in Fds, Deliver(fd)
  PROVE  Core'
  <1>1. Waking
    BY TriggerWakes DEF Core, Deliver, Waited
  <1> QED BY <1>1, WakingCore DEF Core, TypeOK, Deliver

LEMMA StartCore ==
  ASSUME Core, NEW c \in Callers, NEW fd \in Fds, Start(c, fd)
  PROVE  Core'
  <1> DEFINE op == Head(todo[c])
             new == [fd |-> fd, e |-> op[2], kind |-> op[1],
                     timed |-> op[1] = "connect" \/ op[2] \in timeouts[fd],
                     cancelled |-> FALSE, stale |-> FALSE, expired |-> FALSE]
  <1>1. pc[c] = "idle" /\ todo[c] \in Seq(Op) /\ todo[c] # <<>>
    BY DEF Core, TypeOK, Start
  <1>2. new \in CallType /\ new # None
    <2>1. op[1] \in {"io", "connect"} /\ op[2] \in Events
      BY <1>1, TodoHead
    <2> HIDE DEF op
    <2>2. new \in CallType
      BY <2>1 DEF CallType
    <2> QED BY <2>2, HookAssumption
  <1>3. call' = [call EXCEPT ![c] = new] /\ pc' = [pc EXCEPT ![c] = "try"]
        /\ todo' = [todo EXCEPT ![c] = Tail(@)]
        /\ UNCHANGED <<single, kernel, fdManager, waits, armed, callbacks, closing, changes, failed>>
    BY DEF Start
  <1>4. Tail(todo[c]) \in Seq(Op)
    BY <1>1, TodoHead
  <1> HIDE DEF new, op
  <1>5. TypeOK'
    BY <1>1, <1>2, <1>3, <1>4 DEF Core, TypeOK, kernel, fdManager, waits
  <1>6. HoldIffRegistered'
    BY <1>1, <1>3 DEF Core, TypeOK, HoldIffRegistered, waits
  <1> QED BY <1>5, <1>6 DEF Core

\* The steps of a call that stay with it, or end it: Try, Arm, Check, GetSockOpt.
LEMMA MovesCore ==
  ASSUME Core, NEW c \in Callers, NEW l \in Pcs \ {"idle", "hold"},
         pc[c] \notin {"idle", "hold"},
         Return(c) \/ Goto(c, l),
         UNCHANGED <<single, open, blocking, fdManager, waits, todo, callbacks, closing, changes, failed>>,
         ready' \in [Fds -> SUBSET Events],
         armed' \in [Callers -> BOOLEAN],
         \A d \in Callers : armed'[d] => IF d = c THEN pc'[c] \in {"add", "ready"} ELSE armed[d]
  PROVE  Core'
  <1> USE DEF Core, TypeOK, fdManager, waits
  <1>1. TypeOK'
    <2>1. CASE Return(c)
      <3>1. pc' = [pc EXCEPT ![c] = "idle"] /\ call' = [call EXCEPT ![c] = None]
        BY <2>1 DEF Return
      <3>2. \A d \in Callers : pc'[d] = "idle" <=> call'[d] = None
        BY <3>1
      <3>3. \A d \in Callers : armed'[d] => pc'[d] \in {"add", "hold", "ready"}
        BY <3>1
      <3> QED BY <3>1, <3>2, <3>3
    <2>2. CASE Goto(c, l)
      <3>1. pc' = [pc EXCEPT ![c] = l] /\ call' = call
        BY <2>2 DEF Goto
      <3>2. pc' \in [Callers -> Pcs] /\ \A d \in Callers : pc'[d] = "idle" <=> call'[d] = None
        BY <3>1 DEF Pcs
      <3>3. \A d \in Callers : armed'[d] => pc'[d] \in {"add", "hold", "ready"}
        BY <3>1
      <3> QED BY <3>1, <3>2, <3>3 DEF Pcs
    <2> QED BY <2>1, <2>2
  <1>2. context' = context /\ pc'[c] # "hold"
        /\ \A d \in Callers \ {c} : pc'[d] = pc[d] /\ call'[d] = call[d]
    BY DEF Return, Goto
  <1>3. HoldIffRegistered'
    <2>1. ASSUME NEW d \in Callers, pc'[d] = "hold"
          PROVE  context'[call'[d].fd][call'[d].e] = d
      BY <1>2, <2>1 DEF HoldIffRegistered
    <2>2. ASSUME NEW fd \in Fds, NEW e \in Events, context'[fd][e] # None
          PROVE  LET d == context'[fd][e] IN pc'[d] = "hold" /\ call'[d].fd = fd /\ call'[d].e = e
      <3>1. context[fd][e] \in Callers \ {c}
        BY <1>2, <2>2 DEF HoldIffRegistered
      <3> QED BY <1>2, <2>2, <3>1 DEF HoldIffRegistered
    <2> QED BY <2>1, <2>2 DEF HoldIffRegistered
  <1> QED BY <1>1, <1>3

LEMMA TryCore ==
  ASSUME Core, NEW c \in Callers, Try(c)
  PROVE  Core'
  <1>1. pc[c] \in {"try", "blocked"} /\ armed' = armed /\ armed[c] = FALSE /\ ready \in [Fds -> SUBSET Events]
    BY DEF Core, TypeOK, Try
  <1>2. call[c].fd \in Fds /\ call[c].e \in Events
    BY <1>1, CallOf DEF Core, CallType
  <1>3. ready' \in [Fds -> SUBSET Events]
    BY <1>1, <1>2 DEF Try
  <1>4. PICK l \in {"blocked", "arm", "add"} : Return(c) \/ Goto(c, l)
    BY DEF Try
  <1>5. UNCHANGED <<single, open, blocking, fdManager, waits, todo, callbacks, closing, changes, failed>>
    BY DEF Try
  <1> QED BY <1>1, <1>3, <1>4, <1>5, MovesCore DEF Core, TypeOK, Pcs

LEMMA MoreMovesCore ==
  ASSUME Core, NEW c \in Callers, Arm(c) \/ Resume(c) \/ Check(c) \/ GetSockOpt(c)
  PROVE  Core'
  <1>1. pc[c] \in {"arm", "ready", "check", "getsockopt"}
    BY DEF Arm, Resume, Check, GetSockOpt
  <1>2. ready' = ready /\ ready \in [Fds -> SUBSET Events] /\ armed \in [Callers -> BOOLEAN] /\ pc \in [Callers -> Pcs]
    BY DEF Core, TypeOK, Arm, Resume, Check, GetSockOpt, kernel, Pcs
  <1>3. UNCHANGED <<single, open, blocking, fdManager, waits, todo, callbacks, closing, changes, failed>>
    BY DEF Arm, Resume, Check, GetSockOpt, kernel
  <1>4. CASE Arm(c)
    <2>1. Goto(c, "add") /\ armed' = [armed EXCEPT ![c] = TRUE] BY <1>4 DEF Arm
    <2> QED BY <1>1, <1>2, <1>3, <2>1, MovesCore DEF Pcs, Goto
  <1>5. CASE Resume(c)
    <2>1. Goto(c, "check") /\ armed' = [armed EXCEPT ![c] = FALSE] BY <1>5 DEF Resume, CancelTimer
    <2> QED BY <1>1, <1>2, <1>3, <2>1, MovesCore DEF Pcs, Goto
  <1>6. CASE Check(c) \/ GetSockOpt(c)
    <2>1. PICK l \in {"try", "getsockopt"} : Return(c) \/ Goto(c, l)
      BY <1>6 DEF Check, GetSockOpt
    <2>2. armed' = armed /\ armed[c] = FALSE
      BY <1>6 DEF Core, TypeOK, Check, GetSockOpt
    <2> QED BY <1>1, <1>2, <1>3, <2>1, <2>2, MovesCore DEF Pcs
  <1> QED BY <1>4, <1>5, <1>6

LEMMA AddCore ==
  ASSUME Core, NEW c \in Callers, Add(c)
  PROVE  Core'
  <1> DEFINE fd == call[c].fd
             e  == call[c].e
  <1>1. pc[c] = "add" /\ call[c] \in CallType /\ call[c] # None /\ fd \in Fds /\ e \in Events
    BY CallOf DEF Core, Add, CallType
  <1>2. UNCHANGED <<single, kernel, fdManager, todo, callbacks, closing, changes>>
    BY DEF Add
  <1>3. CASE failed' = TRUE /\ UNCHANGED <<waits, pc, call, armed>>
    BY <1>2, <1>3 DEF Core, TypeOK, HoldIffRegistered, kernel, fdManager, waits
  <1>4. CASE /\ context[fd][e] = None
             /\ context' = [context EXCEPT ![fd][e] = c] /\ polled' = polled \cup {fd}
             /\ Goto(c, "hold") /\ UNCHANGED <<armed, failed>>
    <2>1. TypeOK'
      BY <1>1, <1>2, <1>4 DEF Core, TypeOK, Goto, kernel, fdManager
    <2>2. HoldIffRegistered'
      BY <1>1, <1>4, HookAssumption DEF Core, TypeOK, HoldIffRegistered, Goto
    <2> QED BY <2>1, <2>2 DEF Core
  <1>5. CASE /\ armed' = [armed EXCEPT ![c] = FALSE] /\ UNCHANGED <<waits, failed>>
             /\ Goto(c, "getsockopt") \/ Return(c)
    <2>1. ready' \in [Fds -> SUBSET Events] /\ armed' \in [Callers -> BOOLEAN]
      BY <1>2, <1>5 DEF Core, TypeOK, kernel
    <2>2. \A d \in Callers : armed'[d] => IF d = c THEN pc'[c] \in {"add", "ready"} ELSE armed[d]
      BY <1>5 DEF Core, TypeOK
    <2>3. UNCHANGED <<single, open, blocking, fdManager, waits, todo, callbacks, closing, changes, failed>>
      BY <1>2, <1>5 DEF kernel
    <2> QED BY <1>1, <1>5, <2>1, <2>2, <2>3, MovesCore DEF Pcs
  <1> QED BY <1>3, <1>4, <1>5 DEF Add

LEMMA TimerCore ==
  ASSUME Core, NEW c \in Callers, Expire(c)
  PROVE  Core'
  <1>1. armed[c] /\ call[c] \in CallType /\ call[c] # None /\ Len(todo[c]) \in Nat
    <2>1. armed[c] /\ pc[c] # "idle" /\ todo[c] \in Seq(Op)
      BY DEF Core, TypeOK, Expire
    <2> QED BY <2>1, CallOf DEF Core
  <1> DEFINE new == [call[c] EXCEPT !.expired = TRUE]
             cb  == [c |-> c, n |-> Len(todo[c]), fd |-> call[c].fd, e |-> call[c].e, stage |-> "queued"]
  <1>2. new \in CallType /\ new # None /\ new.fd = call[c].fd /\ new.e = call[c].e
    <2>1. new \in CallType /\ new.fd = call[c].fd /\ new.e = call[c].e
      BY <1>1 DEF CallType
    <2> QED BY <2>1, HookAssumption
  <1>3. cb \in [c : Callers, n : Nat, fd : Fds, e : Events, stage : {"queued", "cancel"}]
    BY <1>1 DEF CallType
  <1>4. /\ call' = [call EXCEPT ![c] = new] /\ armed' = [armed EXCEPT ![c] = FALSE]
        /\ callbacks' = callbacks \cup {cb}
        /\ UNCHANGED <<single, kernel, fdManager, waits, pc, todo, closing, changes, failed>>
    BY DEF Expire
  <1> HIDE DEF new, cb
  <1>5. TypeOK'
    BY <1>1, <1>2, <1>3, <1>4 DEF Core, TypeOK, kernel, fdManager, waits
  <1>6. HoldIffRegistered'
    BY <1>2, <1>4 DEF Core, TypeOK, HoldIffRegistered, waits
  <1> QED BY <1>5, <1>6 DEF Core

LEMMA CallbackCore ==
  ASSUME Core, NEW cb \in callbacks, Callback(cb)
  PROVE  Core'
  <1> DEFINE new == [call[cb.c] EXCEPT !.cancelled = TRUE]
             cb2 == [cb EXCEPT !.stage = "cancel"]
  <1>0. cb \in [c : Callers, n : Nat, fd : Fds, e : Events, stage : {"queued", "cancel"}]
    BY DEF Core, TypeOK
  <1>1. cb.c \in Callers /\ cb2 \in [c : Callers, n : Nat, fd : Fds, e : Events, stage : {"queued", "cancel"}]
    BY <1>0
  <1>2. UNCHANGED <<single, kernel, fdManager, waits, pc, todo, armed, closing, changes, failed>>
    BY DEF Callback
  <1>3. CASE callbacks' = callbacks \ {cb} /\ UNCHANGED call
    BY <1>2, <1>3 DEF Core, TypeOK, HoldIffRegistered, kernel, fdManager, waits
  <1>4. CASE /\ Locks(cb) /\ call' = [call EXCEPT ![cb.c] = new]
             /\ callbacks' = (callbacks \ {cb}) \cup {cb2}
    <2>1. call[cb.c] # None /\ call[cb.c] \in CallType
      BY <1>1, <1>4 DEF Locks, Core, TypeOK
    <2>2. new \in CallType /\ new # None /\ new.fd = call[cb.c].fd /\ new.e = call[cb.c].e
      BY <2>1, HookAssumption DEF CallType
    <2> HIDE DEF new, cb2
    <2>3. TypeOK'
      BY <1>1, <1>2, <1>4, <2>1, <2>2 DEF Core, TypeOK, kernel, fdManager, waits
    <2>4. HoldIffRegistered'
      BY <1>1, <1>2, <1>4, <2>2 DEF Core, TypeOK, HoldIffRegistered, waits
    <2> QED BY <2>3, <2>4 DEF Core
  <1> QED BY <1>3, <1>4 DEF Callback

LEMMA CallbackCancelCore ==
  ASSUME Core, NEW cb \in callbacks, CallbackCancel(cb)
  PROVE  Core'
  <1>1. cb.fd \in Fds /\ cb.e \in Events
    BY DEF Core, TypeOK
  <1>2. Waking
    BY <1>1, CancelWakes DEF Core, CallbackCancel, CancelTimedOut
  <1> QED BY <1>2, WakingCore DEF Core, TypeOK, CallbackCancel

LEMMA CloseCore ==
  ASSUME Core, NEW k \in Closers, NEW fd \in Fds, CloseStart(k, fd) \/ CloseStep(k)
  PROVE  Core'
  <1>1. CASE CloseStart(k, fd)
    BY <1>1 DEF Core, TypeOK, HoldIffRegistered, CloseStart, kernel, fdManager, waits, calls
  <1>2. CASE CloseCancelAll(k)
    <2>1. closing[k][2] \in Fds
      BY <1>2 DEF Core, TypeOK, CloseCancelAll
    <2>2. PICK e : e \in Events
      BY DEF Events
    <2>3. Waking
      BY <1>2, <2>1, <2>2, CancelWakes DEF Core, CloseCancelAll, CancelWaits
    <2>4. closing' = [closing EXCEPT ![k] = <<"del", closing[k][2]>>] /\ callbacks' = callbacks
          /\ UNCHANGED <<single, kernel, fdManager, call, todo, armed, changes, failed>>
      BY <1>2 DEF CloseCancelAll
    <2>5. /\ closing' \in [Closers -> {"idle", "cancelAll", "del", "close"} \X (Fds \cup {None})]
          /\ \A j \in Closers : closing'[j][1] # "idle" => closing'[j][2] \in Fds
      BY <2>1, <2>4 DEF Core, TypeOK
    <2> QED BY <2>3, <2>4, <2>5, WakingCore
  <1>3. CASE CloseDel(k)
    BY <1>3 DEF Core, TypeOK, HoldIffRegistered, CloseDel, kernel, waits, calls
  <1>4. CASE CloseF(k)
    <2>1. /\ \A c \in Callers : call[c] # None /\ call[c] \in CallType =>
               LET new == [call[c] EXCEPT !.stale = TRUE]
               IN  new \in CallType /\ new # None /\ new.fd = call[c].fd /\ new.e = call[c].e
      BY HookAssumption DEF CallType
    <2>2. /\ call' \in [Callers -> CallType \cup {None}]
          /\ \A c \in Callers : call'[c] = None <=> call[c] = None
          /\ \A c \in Callers : call[c] # None => call'[c].fd = call[c].fd /\ call'[c].e = call[c].e
      BY <1>4, <2>1 DEF Core, TypeOK, CloseF
    <2>3. TypeOK'
      BY <1>4, <2>2 DEF Core, TypeOK, CloseF, fdManager
    <2>4. HoldIffRegistered'
      BY <1>4, <2>2 DEF Core, TypeOK, HoldIffRegistered, CloseF
    <2> QED BY <2>3, <2>4 DEF Core
  <1> QED BY <1>1, <1>2, <1>3, <1>4 DEF CloseStep

LEMMA CoreInit == Init => Core
  <1> SUFFICES ASSUME Init PROVE Core OBVIOUS
  <1>1. PICK p \in Plans : todo = p.calls /\ changes = p.changes
    BY DEF Init
  <1>2. todo \in [Callers -> Seq(Op)] /\ changes \in Nat
    BY <1>1, HookAssumption DEF Plan
  <1> QED BY <1>2 DEF Init, Core, TypeOK, HoldIffRegistered, Events

LEMMA CoreStep == Core /\ [Next]_vars => Core'
  <1> SUFFICES ASSUME Core, [Next]_vars PROVE Core' OBVIOUS
  <1>1. CASE UNCHANGED vars
    BY <1>1 DEF vars, Core, TypeOK, HoldIffRegistered, kernel, fdManager, waits, calls
  <1>2. CASE \E fd \in Fds, e \in Events, nonblock \in BOOLEAN :
               Open(fd) \/ SetTimeout(fd, e) \/ BecomeReady(fd, e) \/ Fcntl(fd, nonblock) \/ Ioctl(fd, nonblock)
    BY <1>2, DescriptorCore
  <1>3. CASE \E fd \in Fds : Deliver(fd)
    BY <1>3, DeliverCore
  <1>4. CASE \E c \in Callers, fd \in Fds : Start(c, fd)
    BY <1>4, StartCore
  <1>5. CASE \E c \in Callers : CallStep(c)
    BY <1>5, TryCore, MoreMovesCore, AddCore DEF CallStep
  <1>6. CASE \E c \in Callers : Expire(c)
    BY <1>6, TimerCore
  <1>7. CASE \E cb \in callbacks : Callback(cb) \/ CallbackCancel(cb)
    BY <1>7, CallbackCore, CallbackCancelCore
  <1>8. CASE \E k \in Closers, fd \in Fds : CloseStart(k, fd)
    BY <1>8, CloseCore
  <1>9. CASE \E k \in Closers : CloseStep(k)
    <2>1. PICK k \in Closers : CloseStep(k)
      BY <1>9
    <2>2. closing[k][2] \in Fds
      BY <2>1 DEF CloseStep, CloseCancelAll, CloseDel, CloseF, Core, TypeOK
    <2> QED BY <2>1, <2>2, CloseCore
  <1>10. Events # {} /\ BOOLEAN # {}
    BY DEF Events
  <1> QED BY <1>1, <1>2, <1>3, <1>4, <1>5, <1>6, <1>7, <1>8, <1>9, <1>10 DEF Next

\* The variables of the hooks and of IOManager keep their types, a fiber has a
\* call exactly while it is not idle, and a timer only while it waits.
THEOREM TypeCorrect == Spec => []TypeOK
  BY CoreInit, CoreStep, PTL DEF Spec, Core

\* A fiber sleeps in a hooked call exactly while IOManager has it as the waiter
\* of its descriptor and event, whatever addEvent(), cancelEvent(), cancelAll(),
\* the event loop and close() do to it in any order.
THEOREM RegisteredIffHeld == Spec => []HoldIffRegistered
  BY CoreInit, CoreStep, PTL DEF Spec, Core

-----------------------------------------------------------------------------
(* Calls, their timers and their descriptors.                               *)

\* A callback belongs to a call of its fiber, by the number of calls left: to
\* one that is over, or to the current one, whose timer has then expired.
CallbacksOwn ==
    \A cb \in callbacks :
        /\ cb.n >= Len(todo[cb.c])
        /\ call[cb.c] # None /\ cb.n = Len(todo[cb.c]) =>
             call[cb.c].expired /\ cb.fd = call[cb.c].fd /\ cb.e = call[cb.c].e

\* Of two calls for the same event of a number one has outlived its descriptor.
OneLiveCall ==
    \A c, d \in Callers :
        c # d /\ call[c] # None /\ call[d] # None /\ call[c].fd = call[d].fd /\ call[c].e = call[d].e
            => call[c].stale \/ call[d].stale

Owned == Core /\ CallbacksOwn /\ TimeoutsAreOwn /\ OneLiveCall /\ FailsOnlyStale

\* A step that begins no call, expires no timer and runs no callback.
Quiet ==
    /\ todo' = todo /\ callbacks' \subseteq callbacks
    /\ \A c \in Callers : call'[c] # None =>
         /\ call[c] # None
         /\ \A f \in {"fd", "e", "cancelled", "expired"} : call'[c][f] = call[c][f]
         /\ call[c].stale => call'[c].stale

LEMMA QuietStep ==
  ASSUME Core, [Next]_vars
  PROVE  \/ Quiet
         \/ \E c \in Callers, fd \in Fds : Start(c, fd)
         \/ \E c \in Callers : Expire(c)
         \/ \E cb \in callbacks : Callback(cb)
  <1> USE DEF Quiet
  <1>1. CASE UNCHANGED vars
    BY <1>1 DEF vars, calls
  <1>2. ASSUME NEW fd \in Fds, Open(fd) \/ Deliver(fd) PROVE Quiet
    BY <1>2 DEF Open, Deliver, calls
  <1>3. ASSUME NEW fd \in Fds, NEW e \in Events, SetTimeout(fd, e) \/ BecomeReady(fd, e) PROVE Quiet
    BY <1>3 DEF SetTimeout, BecomeReady, calls
  <1>4. ASSUME NEW fd \in Fds, NEW nonblock \in BOOLEAN, Fcntl(fd, nonblock) \/ Ioctl(fd, nonblock) PROVE Quiet
    BY <1>4 DEF Fcntl, Ioctl, calls
  <1>5. ASSUME NEW fd \in Fds, NEW k \in Closers, CloseStart(k, fd) PROVE Quiet
    BY <1>5 DEF CloseStart, calls
  <1>6. ASSUME NEW c \in Callers, CallStep(c) PROVE Quiet
    <2>1. todo' = todo /\ callbacks' = callbacks
      BY <1>6 DEF CallStep, Try, Arm, Add, Resume, Check, GetSockOpt
    <2>2. call' = call \/ call' = [call EXCEPT ![c] = None]
      BY <1>6 DEF CallStep, Try, Arm, Add, Resume, Check, GetSockOpt, Return, Goto
    <2> QED BY <2>1, <2>2 DEF Core, TypeOK
  <1>7. ASSUME NEW cb \in callbacks, CallbackCancel(cb) PROVE Quiet
    BY <1>7 DEF CallbackCancel
  <1>8. ASSUME NEW k \in Closers, CloseStep(k) PROVE Quiet
    <2>1. CASE CloseCancelAll(k) \/ CloseDel(k)
      BY <2>1 DEF CloseCancelAll, CloseDel, calls
    <2>2. CASE CloseF(k)
      BY <2>2 DEF CloseF, Core, TypeOK, CallType
    <2> QED BY <1>8, <2>1, <2>2 DEF CloseStep
  <1> HIDE DEF Quiet
  <1> QED BY <1>1, <1>2, <1>3, <1>4, <1>5, <1>6, <1>7, <1>8 DEF Next

\* The part that does not depend on the assertion.
LEMMA OwnStep ==
  ASSUME Core, CallbacksOwn, TimeoutsAreOwn, OneLiveCall, [Next]_vars
  PROVE  CallbacksOwn' /\ TimeoutsAreOwn' /\ OneLiveCall'
  <1>0. \A cb \in callbacks : cb.c \in Callers /\ cb.n \in Nat /\ cb.fd \in Fds /\ cb.e \in Events
    BY DEF Core, TypeOK
  <1>1. CASE Quiet
    <2>1. CallbacksOwn'
      BY <1>0, <1>1 DEF CallbacksOwn, Quiet
    <2>2. TimeoutsAreOwn'
      BY <1>1 DEF TimeoutsAreOwn, Quiet
    <2>3. OneLiveCall'
      BY <1>1 DEF OneLiveCall, Quiet
    <2> QED BY <2>1, <2>2, <2>3
  <1>2. ASSUME NEW c \in Callers, NEW fd \in Fds, Start(c, fd)
        PROVE  CallbacksOwn' /\ TimeoutsAreOwn' /\ OneLiveCall'
    <2>1. todo[c] \in Seq(Op) /\ todo[c] # <<>> /\ call[c] = None
      BY <1>2 DEF Start, Core, TypeOK
    <2>2. /\ todo' = [todo EXCEPT ![c] = Tail(@)] /\ callbacks' = callbacks
          /\ \A d \in Callers \ {c} : call'[d] = call[d]
          /\ call'[c].fd = fd /\ call'[c].e = Head(todo[c])[2]
          /\ call'[c].cancelled = FALSE
      BY <1>2 DEF Start, Core, TypeOK
    <2>3. Len(todo[c]) \in Nat /\ Len(Tail(todo[c])) = Len(todo[c]) - 1
      BY <2>1, TodoHead
    <2>4. CallbacksOwn'
      <3> SUFFICES ASSUME NEW cb \in callbacks
                   PROVE  /\ cb.n >= Len(todo'[cb.c])
                          /\ call'[cb.c] # None /\ cb.n = Len(todo'[cb.c]) =>
                               call'[cb.c].expired /\ cb.fd = call'[cb.c].fd /\ cb.e = call'[cb.c].e
        BY <2>2 DEF CallbacksOwn
      <3>1. CASE cb.c = c
        BY <1>0, <2>2, <2>3, <3>1 DEF CallbacksOwn, Core, TypeOK
      <3>2. CASE cb.c # c
        BY <1>0, <2>2, <3>2 DEF CallbacksOwn, Core, TypeOK
      <3> QED BY <3>1, <3>2
    <2>5. TimeoutsAreOwn'
      BY <2>2 DEF TimeoutsAreOwn
    <2>6. OneLiveCall'
      <3>1. \A d \in Callers : call[d] # None /\ call[d].fd = fd /\ call[d].e = Head(todo[c])[2] => call[d].stale
        BY <1>2 DEF Start
      <3> QED BY <2>2, <3>1 DEF OneLiveCall
    <2> QED BY <2>4, <2>5, <2>6
  <1>3. ASSUME NEW c \in Callers, Expire(c)
        PROVE  CallbacksOwn' /\ TimeoutsAreOwn' /\ OneLiveCall'
    <2>1. call[c] \in CallType /\ Len(todo[c]) \in Nat
      <3>1. pc[c] # "idle" /\ todo[c] \in Seq(Op)
        BY <1>3 DEF Core, TypeOK, Expire
      <3> QED BY <3>1, CallOf DEF Core
    <2>2. /\ todo' = todo
          /\ callbacks' = callbacks \cup
               {[c |-> c, n |-> Len(todo[c]), fd |-> call[c].fd, e |-> call[c].e, stage |-> "queued"]}
          /\ call' = [call EXCEPT ![c].expired = TRUE]
      BY <1>3 DEF Expire
    <2>3. /\ \A d \in Callers \ {c} : call'[d] = call[d]
          /\ \A f \in {"fd", "e", "cancelled", "stale"} : call'[c][f] = call[c][f]
          /\ call'[c].expired = TRUE
      BY <2>1, <2>2 DEF Core, TypeOK, CallType
    <2>4. CallbacksOwn'
      <3> SUFFICES ASSUME NEW cb \in callbacks'
                   PROVE  /\ cb.n >= Len(todo[cb.c])
                          /\ call'[cb.c] # None /\ cb.n = Len(todo[cb.c]) =>
                               call'[cb.c].expired /\ cb.fd = call'[cb.c].fd /\ cb.e = call'[cb.c].e
        BY <2>2 DEF CallbacksOwn
      <3>1. CASE cb \in callbacks /\ cb.c # c
        BY <1>0, <2>3, <3>1 DEF CallbacksOwn
      <3>2. CASE cb \in callbacks /\ cb.c = c
        BY <1>0, <2>1, <2>3, <3>2, HookAssumption DEF CallbacksOwn
      <3>3. CASE cb \notin callbacks
        <4>1. cb.c = c /\ cb.n = Len(todo[c]) /\ cb.fd = call[c].fd /\ cb.e = call[c].e
          BY <2>2, <3>3
        <4> QED BY <2>1, <2>3, <4>1
      <3> QED BY <3>1, <3>2, <3>3
    <2>5. TimeoutsAreOwn'
      BY <2>3 DEF TimeoutsAreOwn
    <2>6. call[c] # None
      BY <2>1, HookAssumption
    <2>7. OneLiveCall'
      BY <2>3, <2>6 DEF OneLiveCall
    <2> QED BY <2>4, <2>5, <2>7
  <1>4. ASSUME NEW cb \in callbacks, Callback(cb)
        PROVE  CallbacksOwn' /\ TimeoutsAreOwn' /\ OneLiveCall'
    <2>1. todo' = todo BY <1>4 DEF Callback
    <2>2. CASE callbacks' = callbacks \ {cb} /\ UNCHANGED call
      BY <2>1, <2>2 DEF CallbacksOwn, TimeoutsAreOwn, OneLiveCall
    <2>3. CASE /\ Locks(cb) /\ call' = [call EXCEPT ![cb.c].cancelled = TRUE]
               /\ callbacks' = (callbacks \ {cb}) \cup {[cb EXCEPT !.stage = "cancel"]}
      <3>1. call[cb.c] # None /\ cb.n = Len(todo[cb.c]) /\ call[cb.c] \in CallType
        BY <1>0, <2>3 DEF Locks, Core, TypeOK
      <3>2. /\ \A d \in Callers \ {cb.c} : call'[d] = call[d]
            /\ \A f \in {"fd", "e", "expired", "stale"} : call'[cb.c][f] = call[cb.c][f]
        BY <1>0, <2>3, <3>1 DEF Core, TypeOK, CallType
      <3>3. call[cb.c].expired
        BY <3>1 DEF CallbacksOwn
      <3>4. LET x == [cb EXCEPT !.stage = "cancel"] IN x.c = cb.c /\ x.n = cb.n /\ x.fd = cb.fd /\ x.e = cb.e
        BY DEF Core, TypeOK
      <3>5. CallbacksOwn'
        <4> SUFFICES ASSUME NEW x \in callbacks'
                     PROVE  /\ x.n >= Len(todo[x.c])
                            /\ call'[x.c] # None /\ x.n = Len(todo[x.c]) =>
                                 call'[x.c].expired /\ x.fd = call'[x.c].fd /\ x.e = call'[x.c].e
          BY <2>1 DEF CallbacksOwn
        <4>1. PICK y \in callbacks : y.c = x.c /\ y.n = x.n /\ y.fd = x.fd /\ y.e = x.e
          BY <2>3, <3>4
        <4>2. CASE y.c = cb.c
          BY <1>0, <3>1, <3>2, <4>1, <4>2 DEF CallbacksOwn
        <4>3. CASE y.c # cb.c
          BY <1>0, <3>2, <4>1, <4>3 DEF CallbacksOwn
        <4> QED BY <4>2, <4>3
      <3>6. TimeoutsAreOwn'
        BY <1>0, <3>2, <3>3 DEF TimeoutsAreOwn
      <3>7. OneLiveCall'
        BY <1>0, <3>1, <3>2 DEF OneLiveCall
      <3> QED BY <3>5, <3>6, <3>7
    <2> QED BY <1>4, <2>2, <2>3 DEF Callback
  <1> QED BY <1>1, <1>2, <1>3, <1>4, QuietStep

\* The assertion of addEvent(): a step that leaves it failed either found it
\* failed, and changed no fiber, or is the addEvent() that fails.
LEMMA FailStep ==
  ASSUME Core, [Next]_vars, failed'
  PROVE  \/ failed /\ UNCHANGED <<pc, call>>
         \/ \E c \in Callers : /\ pc[c] = "add" /\ context[call[c].fd][call[c].e] # None
                               /\ UNCHANGED <<pc, call>>
  <1> DEFINE Still == failed /\ UNCHANGED <<pc, call>>
  <1>1. CASE UNCHANGED vars
    BY <1>1 DEF vars, calls
  <1>2. ASSUME NEW fd \in Fds, Open(fd) \/ Deliver(fd) PROVE Still
    BY <1>2 DEF Open, Deliver, Dispatch
  <1>3. ASSUME NEW fd \in Fds, NEW e \in Events, SetTimeout(fd, e) \/ BecomeReady(fd, e) PROVE Still
    BY <1>3 DEF SetTimeout, BecomeReady, Dispatch, calls
  <1>4. ASSUME NEW fd \in Fds, NEW nonblock \in BOOLEAN, Fcntl(fd, nonblock) \/ Ioctl(fd, nonblock) PROVE Still
    BY <1>4 DEF Fcntl, Ioctl, Dispatch
  <1>5. ASSUME NEW fd \in Fds, NEW c \in Callers, Start(c, fd) PROVE Still
    BY <1>5 DEF Start, Dispatch
  <1>6. ASSUME NEW fd \in Fds, NEW k \in Closers, CloseStart(k, fd) PROVE Still
    BY <1>6 DEF CloseStart, Dispatch
  <1>7. ASSUME NEW c \in Callers, CallStep(c)
        PROVE  pc[c] = "add" /\ context[call[c].fd][call[c].e] # None /\ UNCHANGED <<pc, call>>
    <2>1. CASE Add(c)
      BY <2>1 DEF Add
    <2>2. CASE Try(c) \/ Arm(c) \/ Resume(c) \/ Check(c) \/ GetSockOpt(c)
      BY <2>2 DEF Try, Arm, Resume, Check, GetSockOpt, Dispatch
    <2> QED BY <1>7, <2>1, <2>2 DEF CallStep
  <1>8. ASSUME NEW c \in Callers, Expire(c) PROVE Still
    BY <1>8 DEF Expire, Dispatch
  <1>9. ASSUME NEW cb \in callbacks, Callback(cb) \/ CallbackCancel(cb) PROVE Still
    BY <1>9 DEF Callback, CallbackCancel, Dispatch
  <1>10. ASSUME NEW k \in Closers, CloseStep(k) PROVE Still
    BY <1>10 DEF CloseStep, CloseCancelAll, CloseDel, CloseF
  <1> HIDE DEF Still
  <1>11. Still \/ UNCHANGED vars \/ \E c \in Callers : CallStep(c)
    BY <1>2, <1>3, <1>4, <1>5, <1>6, <1>8, <1>9, <1>10 DEF Next
  <1> QED BY <1>1, <1>7, <1>11 DEF Still

LEMMA OwnedInit == Init => Owned
  BY CoreInit DEF Init, Owned, CallbacksOwn, TimeoutsAreOwn, OneLiveCall, FailsOnlyStale

LEMMA OwnedStep == Owned /\ [Next]_vars => Owned'
  <1> SUFFICES ASSUME Owned, [Next]_vars PROVE Owned' OBVIOUS
  <1>1. Core' /\ CallbacksOwn' /\ TimeoutsAreOwn' /\ OneLiveCall'
    BY CoreStep, OwnStep DEF Owned
  <1>2. FailsOnlyStale'
    <2> SUFFICES ASSUME failed'
                 PROVE  \E c, d \in Callers :
                          /\ c # d /\ pc'[c] = "add" /\ pc'[d] = "hold"
                          /\ call'[c].fd = call'[d].fd /\ call'[c].e = call'[d].e
                          /\ call'[c].stale \/ call'[d].stale
      BY DEF FailsOnlyStale
    <2>1. CASE failed /\ UNCHANGED <<pc, call>>
      BY <2>1 DEF Owned, FailsOnlyStale
    <2>2. ASSUME NEW c \in Callers, pc[c] = "add", context[call[c].fd][call[c].e] # None, UNCHANGED <<pc, call>>
          PROVE  \E d \in Callers :
                          /\ c # d /\ pc'[c] = "add" /\ pc'[d] = "hold"
                          /\ call'[c].fd = call'[d].fd /\ call'[c].e = call'[d].e
                          /\ call'[c].stale \/ call'[d].stale
      <3>1. call[c] # None /\ call[c].fd \in Fds /\ call[c].e \in Events
        BY <2>2, CallOf DEF Owned, Core, CallType
      <3> DEFINE d == context[call[c].fd][call[c].e]
      <3>2. d \in Callers /\ pc[d] = "hold" /\ call[d].fd = call[c].fd /\ call[d].e = call[c].e
        BY <2>2, <3>1 DEF Owned, Core, TypeOK, HoldIffRegistered
      <3>3. call[d] # None
        BY <3>2, CallOf DEF Owned, Core
      <3> HIDE DEF d
      <3>4. c # d /\ (call[c].stale \/ call[d].stale)
        BY <2>2, <3>1, <3>2, <3>3 DEF Owned, OneLiveCall
      <3> QED BY <2>2, <3>2, <3>4
    <2> QED BY <2>1, <2>2, FailStep DEF Owned
  <1> QED BY <1>1, <1>2 DEF Owned

\* No call ends with ETIMEDOUT unless a timer of that very call has expired: a
\* late callback of an earlier call of the fiber finds its timer_info gone.
THEOREM TimeoutsOwn == Spec => []TimeoutsAreOwn
  BY OwnedInit, OwnedStep, PTL DEF Spec, Owned

\* The assertion of addEvent() that an event is registered once fails only if
\* one of the two calls went on after its descriptor had been closed.
THEOREM AssertFailsOnlyStale == Spec => []FailsOnlyStale
  BY OwnedInit, OwnedStep, PTL DEF Spec, Owned

-----------------------------------------------------------------------------
(* One thread: a task keeps it until it yields or ends.                     *)

\* A task keeps the thread: at most one call, close or callback is under way.
Closes(k) == closing[k][1] # "idle"
Exclusive ==
    single =>
        /\ \A c, d \in Callers : Active(c) /\ Active(d) => c = d
        /\ \A j, k \in Closers : Closes(j) /\ Closes(k) => j = k
        /\ \A x, y \in Cancelling : x = y
        /\ \A c \in Callers, k \in Closers : ~(Active(c) /\ Closes(k))
        /\ \A c \in Callers, x \in Cancelling : ~Active(c)
        /\ \A k \in Closers, x \in Cancelling : ~Closes(k)

\* Nobody waits for a descriptor whose waits close() has cancelled.
ClosedWaits ==
    single => \A k \in Closers, fd \in Fds : closing[k][1] \in {"del", "close"} /\ closing[k][2] = fd => Waited(fd) = {}

Orderly == Core /\ Exclusive /\ ClosedWaits /\ NoOrphanWait

\* The kinds of steps: one that does not concern the fibers, ...
Elsewhere == UNCHANGED <<single, waits, calls, callbacks, closing>>
\* ... one that resumes fibers (an event, a timeout or close()), or another.
Wakes ==
    \/ \E fd \in Fds : Deliver(fd)
    \/ \E cb \in callbacks : CallbackCancel(cb)
    \/ \E k \in Closers : CloseCancelAll(k)

LEMMA Kinds ==
  ASSUME [Next]_vars
  PROVE  \/ Elsewhere
         \/ Wakes
         \/ \E c \in Callers, fd \in Fds : Start(c, fd)
         \/ \E c \in Callers : CallStep(c) \/ Expire(c)
         \/ \E cb \in callbacks : Callback(cb)
         \/ \E k \in Closers, fd \in Fds : CloseStart(k, fd)
         \/ \E k \in Closers : CloseDel(k) \/ CloseF(k)
  <1>1. ASSUME NEW fd \in Fds, Open(fd) PROVE Elsewhere
    BY <1>1 DEF Open, Elsewhere
  <1>2. ASSUME NEW fd \in Fds, NEW e \in Events, SetTimeout(fd, e) \/ BecomeReady(fd, e) PROVE Elsewhere
    BY <1>2 DEF SetTimeout, BecomeReady, Elsewhere
  <1>3. ASSUME NEW fd \in Fds, NEW nonblock \in BOOLEAN, Fcntl(fd, nonblock) \/ Ioctl(fd, nonblock)
        PROVE  Elsewhere
    BY <1>3 DEF Fcntl, Ioctl, Elsewhere
  <1>4. ASSUME UNCHANGED vars PROVE Elsewhere
    BY <1>4 DEF vars, Elsewhere
  <1> QED BY <1>1, <1>2, <1>3, <1>4 DEF Next, CloseStep, Wakes

LEMMA ActionWakes ==
  ASSUME Core, Wakes
  PROVE  /\ Waking /\ UNCHANGED <<single, call, todo, armed>> /\ callbacks' \subseteq callbacks
         /\ \/ UNCHANGED <<context, polled, pc>>
            \/ \E fd \in Fds, es \in SUBSET Events : Trigger(fd, es)
  <1>1. ASSUME NEW fd \in Fds, NEW es \in SUBSET Events, Trigger(fd, es), UNCHANGED call
        PROVE  Waking
    BY <1>1, TriggerWakes DEF Core
  <1>2. ASSUME NEW fd \in Fds, Deliver(fd)
        PROVE  Waking /\ \E es \in SUBSET Events : Trigger(fd, es)
    <2> DEFINE es == Waited(fd) \cap ready[fd]
    <2>1. es \in SUBSET Events BY DEF Waited
    <2>2. Trigger(fd, es) /\ UNCHANGED call BY <1>2 DEF Deliver
    <2> HIDE DEF es
    <2> QED BY <1>1, <2>1, <2>2
  <1>3. ASSUME NEW cb \in callbacks, CallbackCancel(cb)
        PROVE  /\ Waking
               /\ UNCHANGED <<context, polled, pc>> \/ \E fd \in Fds, es \in SUBSET Events : Trigger(fd, es)
    <2>1. cb.fd \in Fds /\ {cb.e} \in SUBSET Events BY DEF Core, TypeOK
    <2>2. UNCHANGED call /\ (Trigger(cb.fd, {cb.e}) \/ UNCHANGED <<context, polled, pc>>)
      BY <1>3 DEF CallbackCancel, CancelTimedOut, cancelEvent
    <2> QED BY <1>1, <2>1, <2>2, NobodyWakes DEF Core
  <1>4. ASSUME NEW k \in Closers, CloseCancelAll(k)
        PROVE  /\ Waking
               /\ UNCHANGED <<context, polled, pc>> \/ \E fd \in Fds, es \in SUBSET Events : Trigger(fd, es)
    <2>1. closing[k][2] \in Fds /\ Waited(closing[k][2]) \in SUBSET Events
      BY <1>4 DEF Core, TypeOK, CloseCancelAll, Waited
    <2>2. UNCHANGED call /\ (Trigger(closing[k][2], Waited(closing[k][2])) \/ UNCHANGED <<context, polled, pc>>)
      BY <1>4 DEF CloseCancelAll, CancelWaits, cancelAll
    <2> QED BY <1>1, <2>1, <2>2, NobodyWakes DEF Core
  <1>5. UNCHANGED <<single, call, todo, armed>> /\ callbacks' \subseteq callbacks
    BY DEF Wakes, Deliver, CallbackCancel, CloseCancelAll
  <1> QED BY <1>2, <1>3, <1>4, <1>5 DEF Wakes

\* single never changes.
LEMMA SingleConstant ==
  ASSUME [Next]_vars
  PROVE  single' = single
  <1>1. ASSUME NEW c \in Callers, CallStep(c) \/ Expire(c) PROVE single' = single
    BY <1>1 DEF CallStep, Expire, Try, Arm, Add, Resume, Check, GetSockOpt
  <1>2. ASSUME Elsewhere \/ Wakes PROVE single' = single
    BY <1>2 DEF Elsewhere, Wakes, Deliver, CallbackCancel, CloseCancelAll
  <1> QED BY <1>1, <1>2, Kinds DEF Start, Callback, CloseStart, CloseDel, CloseF

\* A step by which nothing takes the thread.
Calm ==
    /\ \A c \in Callers : Active(c)' => Active(c)
    /\ \A k \in Closers : Closes(k)' => Closes(k)
    /\ Cancelling' \subseteq Cancelling

LEMMA ExclusiveStep ==
  ASSUME Core, Exclusive, single, [Next]_vars
  PROVE  Exclusive'
  <1>0. single' = single
    BY SingleConstant
  <1>1. ASSUME Calm PROVE Exclusive'
    BY <1>0, <1>1 DEF Exclusive, Calm
  <1>2. ASSUME NEW c \in Callers, Dispatch, closing' = closing, callbacks' = callbacks,
               \A d \in Callers \ {c} : pc'[d] = pc[d]
        PROVE  Exclusive'
    BY <1>2 DEF Dispatch, Exclusive, Active, Closes, Cancelling
  <1>3. ASSUME NEW c \in Callers, NEW fd \in Fds, Start(c, fd)
        PROVE  Exclusive'
    BY <1>2, <1>3 DEF Start, Core, TypeOK
  <1>4. ASSUME NEW k \in Closers, NEW fd \in Fds, CloseStart(k, fd)
        PROVE  Exclusive'
    <2>1. Dispatch /\ pc' = pc /\ callbacks' = callbacks
          /\ \A j \in Closers \ {k} : closing'[j] = closing[j]
      BY <1>4 DEF CloseStart, Core, TypeOK, calls
    <2> QED BY <2>1 DEF Dispatch, Exclusive, Active, Closes, Cancelling
  <1>5. ASSUME NEW cb \in callbacks, Callback(cb)
        PROVE  Exclusive'
    <2>1. Dispatch /\ pc' = pc /\ closing' = closing
          /\ callbacks' \subseteq callbacks \cup {[cb EXCEPT !.stage = "cancel"]}
      BY <1>5 DEF Callback
    <2>2. \A x \in Cancelling' : x = [cb EXCEPT !.stage = "cancel"]
      BY <2>1 DEF Dispatch, Cancelling
    <2> QED BY <2>1, <2>2 DEF Dispatch, Exclusive, Active, Closes
  <1>6. ASSUME Wakes PROVE Exclusive'
    <2>1. callbacks' \subseteq callbacks
          /\ \A c \in Callers : pc'[c] = pc[c] \/ (pc[c] = "hold" /\ pc'[c] = "ready")
      BY <1>6, ActionWakes DEF Waking
    <2>2. \A k \in Closers : closing'[k][1] # "idle" => closing[k][1] # "idle"
      BY <1>6 DEF Wakes, Deliver, CallbackCancel, CloseCancelAll, Core, TypeOK
    <2> QED BY <1>1, <2>1, <2>2 DEF Calm, Active, Closes, Cancelling
  <1>7. ASSUME NEW c \in Callers, CallStep(c) PROVE Exclusive'
    <2>1. closing' = closing /\ callbacks' = callbacks /\ \A d \in Callers \ {c} : pc'[d] = pc[d]
      BY <1>7 DEF CallStep, Try, Arm, Add, Resume, Check, GetSockOpt, Return, Goto, Core, TypeOK
    <2>2. Active(c) \/ Dispatch
      BY <1>7 DEF CallStep, Try, Arm, Add, Resume, Check, GetSockOpt, Active
    <2>3. CASE Active(c)
      BY <1>1, <2>1, <2>3 DEF Calm, Active, Closes, Cancelling
    <2> QED BY <1>2, <2>1, <2>2, <2>3
  <1>8. ASSUME NEW c \in Callers, Expire(c)
        PROVE  Exclusive'
    <2>1. pc' = pc /\ closing' = closing
          /\ callbacks' = callbacks \cup
               {[c |-> c, n |-> Len(todo[c]), fd |-> call[c].fd, e |-> call[c].e, stage |-> "queued"]}
      BY <1>8 DEF Expire
    <2> QED BY <1>1, <2>1 DEF Calm, Active, Closes, Cancelling
  <1>9. ASSUME NEW k \in Closers, CloseDel(k) \/ CloseF(k)
        PROVE  Exclusive'
    <2>1. pc' = pc /\ callbacks' = callbacks
          /\ \A j \in Closers : closing'[j][1] # "idle" => closing[j][1] # "idle"
      BY <1>9 DEF CloseDel, CloseF, Core, TypeOK, calls
    <2> QED BY <1>1, <2>1 DEF Calm, Active, Closes, Cancelling
  <1>10. ASSUME Elsewhere PROVE Exclusive'
    BY <1>1, <1>10 DEF Elsewhere, calls, Calm, Active, Closes, Cancelling
  <1> QED BY <1>3, <1>4, <1>5, <1>6, <1>7, <1>8, <1>9, <1>10, Kinds

\* triggerEvent() of some events: nobody begins to wait, and a descriptor that
\* is still waited for is still registered.
LEMMA TriggerWaits ==
  ASSUME Core, NEW fd \in Fds, NEW es \in SUBSET Events, Trigger(fd, es)
  PROVE  /\ \A g \in Fds : Waited(g)' \subseteq Waited(g)
         /\ \A g \in Fds : g \in polled /\ Waited(g)' # {} => g \in polled'
         /\ Waited(fd)' \cap es = {}
  <1>1. \A g \in Fds, e \in Events :
          context'[g][e] = IF g = fd /\ e \in es THEN None ELSE context[g][e]
    BY DEF Trigger, Core, TypeOK
  <1>2. polled' = IF Waited(fd) \subseteq es THEN polled \ {fd} ELSE polled
    BY DEF Trigger
  <1> QED BY <1>1, <1>2 DEF Waited

LEMMA WaitsStep ==
  ASSUME Core, Exclusive, ClosedWaits, NoOrphanWait, single, [Next]_vars
  PROVE  ClosedWaits' /\ NoOrphanWait'
  <1>0. single' = single
    BY SingleConstant
  <1>1. ASSUME UNCHANGED waits,
               \A k \in Closers : closing'[k][1] \in {"del", "close"} =>
                   closing[k][1] \in {"del", "close"} /\ closing'[k][2] = closing[k][2]
        PROVE  ClosedWaits' /\ NoOrphanWait'
    BY <1>0, <1>1 DEF ClosedWaits, NoOrphanWait, Waited, waits
  <1>2. ASSUME NEW fd \in Fds, NEW es \in SUBSET Events, Trigger(fd, es), UNCHANGED closing
        PROVE  ClosedWaits' /\ NoOrphanWait'
    <2>1. ClosedWaits'
      BY <1>0, <1>2, TriggerWaits DEF ClosedWaits, Core, TypeOK
    <2>2. NoOrphanWait'
      BY <1>0, <1>2, TriggerWaits DEF NoOrphanWait
    <2> QED BY <2>1, <2>2
  <1>3. ASSUME NEW fd \in Fds, Deliver(fd) PROVE ClosedWaits' /\ NoOrphanWait'
    <2>1. Waited(fd) \cap ready[fd] \in SUBSET Events BY DEF Waited
    <2> QED BY <1>2, <1>3, <2>1 DEF Deliver
  <1>4. ASSUME NEW cb \in callbacks, CallbackCancel(cb) PROVE ClosedWaits' /\ NoOrphanWait'
    <2>1. cb.fd \in Fds /\ {cb.e} \in SUBSET Events BY DEF Core, TypeOK
    <2>2. UNCHANGED closing /\ (Trigger(cb.fd, {cb.e}) \/ UNCHANGED waits)
      BY <1>4 DEF CallbackCancel, CancelTimedOut, cancelEvent, waits
    <2> QED BY <1>1, <1>2, <2>1, <2>2
  <1>5. ASSUME NEW k \in Closers, CloseCancelAll(k) PROVE ClosedWaits' /\ NoOrphanWait'
    <2>0. PICK fd \in Fds : fd = closing[k][2]
      BY <1>5 DEF Core, TypeOK, CloseCancelAll
    <2>1. Waited(fd) \in SUBSET Events
      BY DEF Waited
    <2>2. \A j \in Closers \ {k} : closing'[j] = closing[j]
      BY <1>5 DEF CloseCancelAll, Core, TypeOK
    <2>3. closing'[k][2] = fd
      BY <1>5, <2>0 DEF CloseCancelAll, Core, TypeOK
    <2>4. Trigger(fd, Waited(fd)) \/ (UNCHANGED waits /\ Waited(fd) = {})
      BY <1>5, <2>0 DEF CloseCancelAll, CancelWaits, cancelAll, NoOrphanWait, waits
    <2>5. \A g \in Fds : Waited(g)' \subseteq Waited(g)
      BY <2>1, <2>4, TriggerWaits DEF waits, Waited
    <2>6. Waited(fd)' = {}
      <3>1. CASE Trigger(fd, Waited(fd))
        BY <2>1, <2>5, <3>1, TriggerWaits
      <3> QED BY <2>4, <2>5, <3>1
    <2>7. \A g \in Fds : g \in polled /\ Waited(g)' # {} => g \in polled'
      BY <2>1, <2>4, TriggerWaits DEF waits, Waited
    <2>8. NoOrphanWait'
      BY <1>0, <2>5, <2>7 DEF NoOrphanWait
    <2>9. ASSUME NEW j \in Closers, NEW g \in Fds, closing'[j][1] \in {"del", "close"}, closing'[j][2] = g
          PROVE  Waited(g)' = {}
      <3>1. CASE j = k BY <2>3, <2>6, <2>9, <3>1
      <3>2. CASE j # k BY <2>2, <2>5, <2>9, <3>2 DEF ClosedWaits
      <3> QED BY <3>1, <3>2
    <2> QED BY <2>8, <2>9 DEF ClosedWaits
  <1>6. ASSUME NEW c \in Callers, CallStep(c) PROVE ClosedWaits' /\ NoOrphanWait'
    <2>1. CASE UNCHANGED waits
      <3>1. closing' = closing
        BY <1>6 DEF CallStep, Try, Arm, Add, Resume, Check, GetSockOpt
      <3> QED BY <1>1, <2>1, <3>1
    <2>2. CASE pc[c] = "add" /\ closing' = closing /\ polled' = polled \cup {call[c].fd}
               /\ context' = [context EXCEPT ![call[c].fd][call[c].e] = c]
      <3>1. \A k \in Closers : ~Closes(k)
        BY <2>2 DEF Exclusive, Active
      <3>2. ClosedWaits'
        BY <2>2, <3>1 DEF ClosedWaits, Closes
      <3>3. \A g \in Fds : g # call[c].fd => Waited(g)' = Waited(g)
        BY <2>2 DEF Waited, Core, TypeOK
      <3> QED BY <1>0, <2>2, <3>2, <3>3 DEF NoOrphanWait
    <2> QED BY <1>6, <2>1, <2>2 DEF CallStep, Try, Arm, Add, Resume, Check, GetSockOpt
  <1>7. ASSUME NEW k \in Closers, NEW fd \in Fds, CloseStart(k, fd) PROVE ClosedWaits' /\ NoOrphanWait'
    BY <1>1, <1>7 DEF CloseStart, Core, TypeOK
  <1>8. ASSUME NEW k \in Closers, CloseDel(k) PROVE ClosedWaits' /\ NoOrphanWait'
    BY <1>1, <1>8 DEF CloseDel, Core, TypeOK
  <1>9. ASSUME NEW k \in Closers, CloseF(k) PROVE ClosedWaits' /\ NoOrphanWait'
    <2>1. polled' = polled \ {closing[k][2]} /\ context' = context
          /\ \A fd \in Fds : fd = closing[k][2] => Waited(fd) = {}
      BY <1>9 DEF CloseF, ClosedWaits
    <2>2. \A fd \in Fds : Waited(fd)' = Waited(fd)
      BY <2>1 DEF Waited
    <2>3. NoOrphanWait'
      BY <1>0, <2>1, <2>2 DEF NoOrphanWait
    <2>4. \A j \in Closers : closing'[j][1] \in {"del", "close"} => closing'[j] = closing[j]
      BY <1>9 DEF CloseF, Core, TypeOK
    <2>5. ClosedWaits'
      BY <2>2, <2>4 DEF ClosedWaits
    <2> QED BY <2>3, <2>5
  <1>10. ASSUME NEW cb \in callbacks, Callback(cb) PROVE ClosedWaits' /\ NoOrphanWait'
    BY <1>1, <1>10 DEF Callback
  <1>11. ASSUME NEW c \in Callers, Expire(c) PROVE ClosedWaits' /\ NoOrphanWait'
    BY <1>1, <1>11 DEF Expire
  <1>12. ASSUME NEW c \in Callers, NEW fd \in Fds, Start(c, fd) PROVE ClosedWaits' /\ NoOrphanWait'
    BY <1>1, <1>12 DEF Start
  <1>13. ASSUME Elsewhere PROVE ClosedWaits' /\ NoOrphanWait'
    BY <1>1, <1>13 DEF Elsewhere
  <1> QED BY <1>3, <1>4, <1>5, <1>6, <1>7, <1>8, <1>9, <1>10, <1>11, <1>12, <1>13, Kinds DEF Wakes

LEMMA OrderlyInit == Init => Orderly
  <1> SUFFICES ASSUME Init PROVE Orderly OBVIOUS
  <1>1. Exclusive /\ ClosedWaits
    BY DEF Init, Exclusive, ClosedWaits, Active, Closes, Cancelling
  <1>2. \A fd \in Fds : Waited(fd) = {}
    BY DEF Init, Waited
  <1> QED BY <1>1, <1>2, CoreInit DEF Orderly, NoOrphanWait

LEMMA OrderlyStep == Orderly /\ [Next]_vars => Orderly'
  <1> SUFFICES ASSUME Orderly, [Next]_vars PROVE Orderly' OBVIOUS
  <1>1. Core' /\ single' = single
    BY CoreStep, SingleConstant DEF Orderly
  <1>2. CASE single
    BY <1>1, <1>2, ExclusiveStep, WaitsStep DEF Orderly
  <1>3. CASE ~single
    BY <1>1, <1>3 DEF Orderly, Exclusive, ClosedWaits, NoOrphanWait
  <1> QED BY <1>2, <1>3

\* With one scheduler thread close() never leaves a wait without its epoll
\* registration: between its cancelAll() and its close_f() no other task runs,
\* so nobody registers again.
THEOREM NoOrphan == Spec => []NoOrphanWait
  BY OrderlyInit, OrderlyStep, PTL DEF Spec, Orderly

-----------------------------------------------------------------------------
(* What stands between a wait and its timer.                                *)

\* A callback that is to cancel the event of its call has marked the call.
MarksFirst ==
    \A cb \in Cancelling : call[cb.c] # None /\ cb.n = Len(todo[cb.c]) => call[cb.c].cancelled

\* With one thread a marked call sleeps only until that callback, which has the
\* thread, goes on.
MarkedWakes ==
    single => \A c \in Callers : call[c] # None /\ call[c].cancelled =>
        \/ pc[c] \in {"ready", "check"}
        \/ pc[c] = "hold" /\ \E cb \in Cancelling : cb.c = c /\ cb.n = Len(todo[c])

\* TimerGuardsWait, from the moment the timer is armed.
Guard(c) ==
    \/ armed[c]
    \/ \E cb \in callbacks : cb.c = c /\ cb.n = Len(todo[c])
    \/ call[c].cancelled /\ ~single
Guarded == \A c \in Callers : pc[c] \in {"add", "hold"} /\ call[c].timed => Guard(c)

Timed == Orderly /\ CallbacksOwn /\ TimeoutsAreOwn /\ OneLiveCall /\ MarksFirst /\ MarkedWakes /\ Guarded

LEMMA MarksFirstStep ==
  ASSUME Core, CallbacksOwn, MarksFirst, [Next]_vars
  PROVE  MarksFirst'
  <1>0. \A cb \in callbacks : cb.c \in Callers /\ cb.n \in Nat
    BY DEF Core, TypeOK
  <1>1. CASE Quiet
    BY <1>0, <1>1 DEF Quiet, MarksFirst, Cancelling
  <1>2. ASSUME NEW c \in Callers, NEW fd \in Fds, Start(c, fd) PROVE MarksFirst'
    <2>1. todo[c] \in Seq(Op) /\ todo[c] # <<>>
      BY <1>2 DEF Start, Core, TypeOK
    <2>2. Len(todo[c]) \in Nat /\ Len(Tail(todo[c])) = Len(todo[c]) - 1
      BY <2>1, TodoHead
    <2>3. /\ todo' = [todo EXCEPT ![c] = Tail(@)] /\ callbacks' = callbacks
          /\ \A d \in Callers \ {c} : call'[d] = call[d]
      BY <1>2 DEF Start, Core, TypeOK
    <2> SUFFICES ASSUME NEW cb \in callbacks, cb.stage = "cancel", call'[cb.c] # None, cb.n = Len(todo'[cb.c])
                 PROVE  call'[cb.c].cancelled
      BY <2>3 DEF MarksFirst, Cancelling
    <2>4. cb.c # c
      <3>1. todo'[c] = Tail(todo[c])
        BY <2>3 DEF Core, TypeOK
      <3>2. cb.n >= Len(todo[cb.c])
        BY DEF CallbacksOwn
      <3>3. ASSUME cb.c = c PROVE FALSE
        <4>1. cb.n = Len(Tail(todo[c])) /\ cb.n >= Len(todo[c])
          BY <3>1, <3>2, <3>3
        <4>2. cb.n = Len(todo[c]) - 1
          BY <2>2, <4>1
        <4> QED BY <2>2, <4>1, <4>2
      <3> QED BY <3>3
    <2> QED BY <1>0, <2>3, <2>4 DEF MarksFirst, Cancelling, Core, TypeOK
  <1>3. ASSUME NEW c \in Callers, Expire(c) PROVE MarksFirst'
    <2>1. call[c] # None /\ call[c] \in CallType
      <3>1. pc[c] # "idle"
        BY <1>3 DEF Expire, Core, TypeOK
      <3> QED BY <3>1, CallOf DEF Core
    <2>2. todo' = todo /\ Cancelling' = Cancelling /\ call' = [call EXCEPT ![c].expired = TRUE]
      BY <1>3 DEF Expire, Cancelling
    <2>3. \A d \in Callers : call'[d] # None => call[d] # None /\ call'[d].cancelled = call[d].cancelled
      BY <2>1, <2>2 DEF Core, TypeOK, CallType
    <2> QED BY <1>0, <2>2, <2>3 DEF MarksFirst, Cancelling
  <1>4. ASSUME NEW cb \in callbacks, Callback(cb) PROVE MarksFirst'
    <2>1. CASE callbacks' = callbacks \ {cb} /\ UNCHANGED <<call, todo>>
      BY <2>1 DEF MarksFirst, Cancelling
    <2>2. CASE /\ Locks(cb) /\ call' = [call EXCEPT ![cb.c].cancelled = TRUE] /\ todo' = todo
               /\ callbacks' = (callbacks \ {cb}) \cup {[cb EXCEPT !.stage = "cancel"]}
      <3>1. call[cb.c] \in CallType
        BY <1>0, <2>2 DEF Locks, Core, TypeOK
      <3>2. call'[cb.c].cancelled /\ \A d \in Callers \ {cb.c} : call'[d] = call[d]
        BY <1>0, <2>2, <3>1 DEF Core, TypeOK, CallType
      <3>3. [cb EXCEPT !.stage = "cancel"].c = cb.c
        BY DEF Core, TypeOK
      <3> SUFFICES ASSUME NEW x \in callbacks', x.stage = "cancel", call'[x.c] # None, x.n = Len(todo[x.c])
                   PROVE  call'[x.c].cancelled
        BY <2>2 DEF MarksFirst, Cancelling
      <3>4. x.c = cb.c \/ x \in callbacks
        BY <2>2, <3>3
      <3> QED BY <1>0, <3>2, <3>4 DEF MarksFirst, Cancelling
    <2> QED BY <1>4, <2>1, <2>2 DEF Callback
  <1> QED BY <1>1, <1>2, <1>3, <1>4, QuietStep

\* With one thread the callback of a call that sleeps finds its event and
\* resumes it.
LEMMA CancelReadies ==
  ASSUME Orderly, CallbacksOwn, single, NEW cb \in callbacks, CallbackCancel(cb),
         pc[cb.c] = "hold", cb.n = Len(todo[cb.c])
  PROVE  pc'[cb.c] = "ready"
  <1>1. cb.c \in Callers /\ cb.fd \in Fds /\ cb.e \in Events
    BY DEF Orderly, Core, TypeOK
  <1>2. call[cb.c] # None
    BY <1>1, CallOf DEF Orderly, Core
  <1>3. context[cb.fd][cb.e] = cb.c
    BY <1>1, <1>2 DEF CallbacksOwn, Orderly, Core, HoldIffRegistered
  <1>4. cb.c # None /\ cb.fd \in polled
    BY <1>1, <1>3, HookAssumption DEF Orderly, NoOrphanWait, Waited
  <1>5. Trigger(cb.fd, {cb.e})
    BY <1>3, <1>4 DEF CallbackCancel, CancelTimedOut, cancelEvent
  <1> QED BY <1>1, <1>3, <1>5 DEF Trigger

\* A step of a call changes nothing for the other fibers.
LEMMA CallStepLocal ==
  ASSUME Core, NEW c \in Callers, CallStep(c)
  PROVE  /\ UNCHANGED <<single, todo, callbacks>>
         /\ \A d \in Callers \ {c} : pc'[d] = pc[d] /\ call'[d] = call[d] /\ armed'[d] = armed[d]
         /\ call' = call \/ call'[c] = None
         /\ pc[c] \notin {"idle", "hold"} /\ (pc[c] = "ready" => pc'[c] = "check")
         /\ pc[c] = "check" /\ call[c].cancelled => call'[c] = None
         /\ pc'[c] \in {"add", "hold"} => armed'[c] \/ ~call[c].timed \/ (pc[c] = "add" /\ armed'[c] = armed[c])
  <1> USE DEF Core, TypeOK, Goto, Return
  <1>1. CASE Try(c) BY <1>1 DEF Try
  <1>2. CASE Arm(c) BY <1>2 DEF Arm
  <1>3. CASE Add(c) BY <1>3 DEF Add
  <1>4. CASE Resume(c) BY <1>4 DEF Resume, CancelTimer
  <1>5. CASE Check(c) BY <1>5 DEF Check
  <1>6. CASE GetSockOpt(c) BY <1>6 DEF GetSockOpt
  <1> QED BY <1>1, <1>2, <1>3, <1>4, <1>5, <1>6 DEF CallStep

\* What close() does to the calls: none changes but for stale.
LEMMA CloseLocal ==
  ASSUME Core, NEW k \in Closers, CloseDel(k) \/ CloseF(k)
  PROVE  /\ UNCHANGED <<single, pc, todo, armed, callbacks>>
         /\ \A c \in Callers : (call'[c] = None <=> call[c] = None)
                               /\ (call[c] # None => call'[c].cancelled = call[c].cancelled /\ call'[c].timed = call[c].timed)
  <1>1. CASE CloseDel(k)
    BY <1>1 DEF CloseDel, calls
  <1>2. CASE CloseF(k)
    <2>1. \A x \in CallType : LET new == [x EXCEPT !.stale = TRUE]
                              IN  new \in CallType /\ new.cancelled = x.cancelled /\ new.timed = x.timed
      BY DEF CallType
    <2>2. \A c \in Callers : call[c] # None => call[c] \in CallType
      BY DEF Core, TypeOK
    <2> QED BY <1>2, <2>1, <2>2, HookAssumption DEF CloseF
  <1> QED BY <1>1, <1>2

LEMMA MarkedWakesStep ==
  ASSUME Orderly, CallbacksOwn, MarkedWakes, single, [Next]_vars
  PROVE  MarkedWakes'
  <1>0. single' = single /\ Core
    BY SingleConstant DEF Orderly
  <1>1. ASSUME \A c \in Callers : call'[c] # None /\ call'[c].cancelled =>
                 call[c] # None /\ call[c].cancelled /\ pc'[c] = pc[c] /\ todo'[c] = todo[c],
               Cancelling \subseteq Cancelling'
        PROVE  MarkedWakes'
    BY <1>0, <1>1 DEF MarkedWakes
  <1>2. ASSUME NEW c \in Callers, NEW fd \in Fds, Start(c, fd) PROVE MarkedWakes'
    <2>1. call'[c].cancelled = FALSE /\ callbacks' = callbacks
          /\ \A d \in Callers \ {c} : pc'[d] = pc[d] /\ call'[d] = call[d] /\ todo'[d] = todo[d]
      BY <1>0, <1>2 DEF Start, Core, TypeOK
    <2> QED BY <1>1, <2>1 DEF Cancelling
  <1>3. ASSUME NEW c \in Callers, CallStep(c) PROVE MarkedWakes'
    <2> SUFFICES ASSUME NEW d \in Callers, call'[d] # None, call'[d].cancelled
                 PROVE  \/ pc'[d] \in {"ready", "check"}
                        \/ pc'[d] = "hold" /\ \E cb \in Cancelling' : cb.c = d /\ cb.n = Len(todo'[d])
      BY <1>0 DEF MarkedWakes
    <2>1. call'[d] = call[d] /\ Cancelling' = Cancelling /\ todo' = todo
      BY <1>0, <1>3, CallStepLocal DEF Cancelling
    <2>2. CASE d # c
      BY <1>0, <1>3, <2>1, <2>2, CallStepLocal DEF MarkedWakes
    <2>3. CASE d = c
      BY <1>0, <1>3, <2>1, <2>3, CallStepLocal DEF MarkedWakes
    <2> QED BY <2>2, <2>3
  <1>4. ASSUME NEW c \in Callers, Expire(c) PROVE MarkedWakes'
    <2>1. pc[c] # "idle"
      BY <1>0, <1>4 DEF Expire, Core, TypeOK
    <2>2. call[c] # None /\ call[c] \in CallType
      BY <1>0, <2>1, CallOf DEF Core
    <2>3. pc' = pc /\ todo' = todo /\ callbacks \subseteq callbacks' /\ call' = [call EXCEPT ![c].expired = TRUE]
      BY <1>4 DEF Expire
    <2>4. \A d \in Callers : call'[d] # None => call[d] # None /\ call'[d].cancelled = call[d].cancelled
      BY <1>0, <2>2, <2>3 DEF Core, TypeOK, CallType
    <2> QED BY <1>1, <2>3, <2>4 DEF Cancelling
  <1>5. ASSUME NEW cb \in callbacks, Callback(cb) PROVE MarkedWakes'
    <2>0. cb.c \in Callers /\ cb.n \in Nat
      BY <1>0 DEF Core, TypeOK
    <2>1. pc' = pc /\ todo' = todo /\ Cancelling = {} /\ \A d \in Callers : ~Active(d)
      BY <1>5 DEF Callback, Dispatch
    <2>2. \A d \in Callers : call[d] # None /\ call[d].cancelled => pc[d] \in {"ready", "check"}
      BY <2>1 DEF MarkedWakes
    <2>3. CASE UNCHANGED call
      BY <2>1, <2>2, <2>3 DEF MarkedWakes
    <2>4. CASE /\ Locks(cb) /\ call' = [call EXCEPT ![cb.c].cancelled = TRUE]
               /\ callbacks' = (callbacks \ {cb}) \cup {[cb EXCEPT !.stage = "cancel"]}
      <3>1. \A d \in Callers \ {cb.c} : call'[d] = call[d]
        BY <1>0, <2>4 DEF Core, TypeOK
      <3>2. pc[cb.c] \in {"hold", "ready"}
        BY <1>0, <2>0, <2>1, <2>4 DEF Locks, Active, Core, TypeOK
      <3> DEFINE x == [cb EXCEPT !.stage = "cancel"]
      <3>3. x \in Cancelling' /\ x.c = cb.c /\ x.n = Len(todo[cb.c])
        BY <1>0, <2>4 DEF Locks, Cancelling, Core, TypeOK
      <3> HIDE DEF x
      <3>4. pc[cb.c] = "ready" \/ (pc[cb.c] = "hold" /\ \E y \in Cancelling' : y.c = cb.c /\ y.n = Len(todo[cb.c]))
        BY <3>2, <3>3
      <3> QED BY <2>1, <2>2, <3>1, <3>4 DEF MarkedWakes
    <2> QED BY <1>5, <2>3, <2>4 DEF Callback
  <1>6. ASSUME Wakes PROVE MarkedWakes'
    <2>1. UNCHANGED <<call, todo>>
          /\ \A c \in Callers : pc'[c] = pc[c] \/ (pc[c] = "hold" /\ pc'[c] = "ready")
      BY <1>0, <1>6, ActionWakes DEF Waking
    <2> SUFFICES ASSUME NEW c \in Callers, call[c] # None, call[c].cancelled, pc'[c] = pc[c], pc[c] = "hold"
                 PROVE  \E cb \in Cancelling' : cb.c = c /\ cb.n = Len(todo[c])
      BY <2>1 DEF MarkedWakes
    <2>2. PICK cb \in Cancelling : cb.c = c /\ cb.n = Len(todo[c])
      BY DEF MarkedWakes
    <2>3. cb \in Cancelling'
      <3>1. CASE callbacks' = callbacks
        BY <3>1 DEF Cancelling
      <3>2. ASSUME NEW x \in callbacks, CallbackCancel(x) PROVE FALSE
        <4>1. x = cb
          BY <3>2 DEF CallbackCancel, Cancelling, Orderly, Exclusive
        <4> QED BY <2>2, <3>2, <4>1, CancelReadies
      <3> QED BY <1>6, <3>1, <3>2 DEF Wakes, Deliver, CloseCancelAll
    <2> QED BY <2>2, <2>3
  <1>7. ASSUME NEW k \in Closers, NEW fd \in Fds, CloseStart(k, fd) PROVE MarkedWakes'
    BY <1>1, <1>7 DEF CloseStart, calls, Cancelling
  <1>8. ASSUME NEW k \in Closers, CloseDel(k) \/ CloseF(k) PROVE MarkedWakes'
    BY <1>0, <1>1, <1>8, CloseLocal DEF Cancelling
  <1>9. ASSUME Elsewhere PROVE MarkedWakes'
    BY <1>1, <1>9 DEF Elsewhere, calls, Cancelling
  <1> QED BY <1>2, <1>3, <1>4, <1>5, <1>6, <1>7, <1>8, <1>9, Kinds

LEMMA GuardedStep ==
  ASSUME Orderly, CallbacksOwn, MarksFirst, MarkedWakes, Guarded, [Next]_vars
  PROVE  Guarded'
  <1>0. single' = single /\ Core
    BY SingleConstant DEF Orderly
  <1> SUFFICES ASSUME NEW c \in Callers, pc'[c] \in {"add", "hold"}, call'[c].timed
               PROVE  Guard(c)'
    BY DEF Guarded
  <1>1. ASSUME pc'[c] = pc[c], armed'[c] = armed[c], todo'[c] = todo[c], callbacks \subseteq callbacks',
               call'[c].timed = call[c].timed, call'[c].cancelled = call[c].cancelled
        PROVE  Guard(c)'
    BY <1>0, <1>1 DEF Guarded, Guard
  <1>2. ASSUME NEW d \in Callers, NEW fd \in Fds, Start(d, fd) PROVE Guard(c)'
    <2>1. pc' = [pc EXCEPT ![d] = "try"] /\ armed' = armed /\ callbacks' = callbacks
          /\ \A b \in Callers \ {d} : call'[b] = call[b] /\ todo'[b] = todo[b]
      BY <1>0, <1>2 DEF Start, Core, TypeOK
    <2>2. c # d /\ pc'[c] = pc[c]
      BY <1>0, <2>1 DEF Core, TypeOK
    <2> QED BY <1>1, <2>1, <2>2
  <1>3. ASSUME NEW d \in Callers, CallStep(d) PROVE Guard(c)'
    <2>1. CASE c # d
      BY <1>0, <1>1, <1>3, <2>1, CallStepLocal
    <2>2. CASE c = d
      <3>1. call'[c] = call[c] /\ todo' = todo /\ callbacks' = callbacks
        <4>1. Core'
          BY <1>0, CoreStep
        <4>2. call'[c] # None
          BY <4>1 DEF Core, TypeOK
        <4> QED BY <1>0, <1>3, <2>2, <4>2, CallStepLocal
      <3>2. armed'[c] \/ (pc[c] = "add" /\ armed'[c] = armed[c])
        BY <1>0, <1>3, <2>2, <3>1, CallStepLocal
      <3> QED BY <1>0, <3>1, <3>2 DEF Guarded, Guard
    <2> QED BY <2>1, <2>2
  <1>4. ASSUME NEW d \in Callers, Expire(d) PROVE Guard(c)'
    <2>1. pc' = pc /\ todo' = todo /\ call' = [call EXCEPT ![d].expired = TRUE] /\ armed' = [armed EXCEPT ![d] = FALSE]
          /\ callbacks' = callbacks \cup
               {[c |-> d, n |-> Len(todo[d]), fd |-> call[d].fd, e |-> call[d].e, stage |-> "queued"]}
      BY <1>4 DEF Expire
    <2>2. CASE c = d
      <3> DEFINE new == [c |-> d, n |-> Len(todo[d]), fd |-> call[d].fd, e |-> call[d].e, stage |-> "queued"]
      <3>1. new \in callbacks' /\ new.c = c /\ new.n = Len(todo'[c])
        BY <2>1, <2>2
      <3> HIDE DEF new
      <3> QED BY <3>1 DEF Guard
    <2>3. CASE c # d
      BY <1>0, <1>1, <2>1, <2>3 DEF Core, TypeOK
    <2> QED BY <2>2, <2>3
  <1>5. ASSUME NEW cb \in callbacks, Callback(cb) PROVE Guard(c)'
    <2>0. cb.c \in Callers /\ call[c] # None /\ call[c] \in CallType
      <3>1. pc'[c] = pc[c] BY <1>5 DEF Callback
      <3>2. pc[c] # "idle" BY <3>1
      <3> QED BY <1>0, <3>2, CallOf DEF Core, TypeOK
    <2>1. pc' = pc /\ todo' = todo /\ armed' = armed /\ Dispatch
      BY <1>5 DEF Callback
    <2>2. CASE /\ ~(Locks(cb) /\ ~call[cb.c].cancelled) /\ callbacks' = callbacks \ {cb} /\ UNCHANGED call
      <3>1. CASE cb.c = c /\ cb.n = Len(todo[c])
        <4>1. call[c].cancelled
          BY <2>0, <2>2, <3>1 DEF Locks
        <4>2. ~single
          BY <2>0, <2>1, <4>1 DEF MarkedWakes, Dispatch, Active
        <4> QED BY <1>0, <2>2, <4>1, <4>2 DEF Guard
      <3>2. CASE ~(cb.c = c /\ cb.n = Len(todo[c]))
        BY <1>0, <2>1, <2>2, <3>2 DEF Guarded, Guard
      <3> QED BY <3>1, <3>2
    <2>3. CASE /\ Locks(cb) /\ call' = [call EXCEPT ![cb.c].cancelled = TRUE]
               /\ callbacks' = (callbacks \ {cb}) \cup {[cb EXCEPT !.stage = "cancel"]}
      <3>1. call'[c].timed = call[c].timed /\ (call[c].cancelled => call'[c].cancelled)
        BY <1>0, <2>0, <2>3 DEF Core, TypeOK, CallType
      <3>2. Guard(c)
        BY <2>1, <3>1 DEF Guarded
      <3>3. \A x \in callbacks : \E y \in callbacks' : y.c = x.c /\ y.n = x.n
        <4> DEFINE new == [cb EXCEPT !.stage = "cancel"]
        <4>1. new \in callbacks' /\ new.c = cb.c /\ new.n = cb.n
          BY <1>0, <2>3 DEF Core, TypeOK
        <4>2. \A x \in callbacks : x # cb => x \in callbacks'
          BY <2>3
        <4> HIDE DEF new
        <4> QED BY <4>1, <4>2
      <3> QED BY <1>0, <2>1, <3>1, <3>2, <3>3 DEF Guard
    <2> QED BY <1>5, <2>2, <2>3 DEF Callback
  <1>6. ASSUME Wakes PROVE Guard(c)'
    <2>1. UNCHANGED <<call, todo, armed>> /\ pc'[c] = pc[c]
      BY <1>0, <1>6, ActionWakes DEF Waking
    <2>2. CASE callbacks' = callbacks
      BY <1>1, <2>1, <2>2
    <2>3. ASSUME NEW x \in callbacks, CallbackCancel(x) PROVE Guard(c)'
      <3>1. x \in Cancelling /\ callbacks' = callbacks \ {x}
        BY <2>3 DEF CallbackCancel, Cancelling
      <3>2. CASE x.c = c /\ x.n = Len(todo[c])
        <4>1. call[c] # None
          BY <1>0, <2>1, CallOf DEF Core
        <4>2. call[c].cancelled
          BY <3>1, <3>2, <4>1 DEF MarksFirst
        <4>3. ASSUME single PROVE FALSE
          <5>1. ~Active(c)
            BY <3>1, <4>3 DEF Orderly, Exclusive
          <5>2. pc[c] = "hold"
            BY <2>1, <5>1 DEF Active
          <5>3. pc'[c] = "ready"
            BY <2>3, <3>2, <4>3, <5>2, CancelReadies
          <5> QED BY <5>3
        <4> QED BY <1>0, <2>1, <4>2, <4>3 DEF Guard
      <3>3. CASE ~(x.c = c /\ x.n = Len(todo[c]))
        BY <1>0, <2>1, <3>1, <3>3 DEF Guarded, Guard
      <3> QED BY <3>2, <3>3
    <2> QED BY <1>6, <2>2, <2>3 DEF Wakes, Deliver, CloseCancelAll
  <1>7. ASSUME NEW k \in Closers, NEW fd \in Fds, CloseStart(k, fd) PROVE Guard(c)'
    BY <1>1, <1>7 DEF CloseStart, calls
  <1>8. ASSUME NEW k \in Closers, CloseDel(k) \/ CloseF(k) PROVE Guard(c)'
    <2>1. UNCHANGED <<pc, todo, armed, callbacks>>
      BY <1>0, <1>8, CloseLocal
    <2>2. call[c] # None
      BY <1>0, <2>1, CallOf DEF Core
    <2> QED BY <1>0, <1>1, <1>8, <2>1, <2>2, CloseLocal
  <1>9. ASSUME Elsewhere PROVE Guard(c)'
    BY <1>1, <1>9 DEF Elsewhere, calls
  <1> QED BY <1>2, <1>3, <1>4, <1>5, <1>6, <1>7, <1>8, <1>9, Kinds

LEMMA TimedInit == Init => Timed
  <1> SUFFICES ASSUME Init PROVE Timed OBVIOUS
  <1>1. Orderly /\ CallbacksOwn /\ TimeoutsAreOwn /\ OneLiveCall
    BY OrderlyInit, OwnedInit DEF Owned
  <1>2. MarksFirst /\ MarkedWakes /\ Guarded
    BY DEF Init, MarksFirst, MarkedWakes, Guarded, Cancelling
  <1> QED BY <1>1, <1>2 DEF Timed

LEMMA TimedStep == Timed /\ [Next]_vars => Timed'
  <1> SUFFICES ASSUME Timed, [Next]_vars PROVE Timed' OBVIOUS
  <1>1. Orderly' /\ Core
    BY OrderlyStep DEF Timed, Orderly
  <1>2. CallbacksOwn' /\ TimeoutsAreOwn' /\ OneLiveCall'
    BY <1>1, OwnStep DEF Timed
  <1>3. MarksFirst' /\ Guarded'
    BY <1>1, MarksFirstStep, GuardedStep DEF Timed
  <1>4. MarkedWakes'
    <2>1. CASE single BY <2>1, MarkedWakesStep DEF Timed
    <2>2. CASE ~single BY <2>2, SingleConstant DEF MarkedWakes
    <2> QED BY <2>1, <2>2
  <1> QED BY <1>1, <1>2, <1>3, <1>4 DEF Timed

\* A fiber that waits in a hooked call with a timeout has its timer in
\* TimerManager or its callback on the way; with several threads the callback
\* may also have come and gone, with one it never does so before the wait.
THEOREM TimerGuards == Spec => []TimerGuardsWait
  <1>1. Timed => TimerGuardsWait
    BY DEF Timed, Guarded, Guard, TimerGuardsWait
  <1> QED BY <1>1, TimedInit, TimedStep, PTL DEF Spec
=============================================================================
