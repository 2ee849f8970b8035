------------------------------ MODULE IOManager ------------------------------
(***************************************************************************)
(* The event side of IOManager: src/saturn/iomanager.{h,cc}.               *)
(*                                                                         *)
(* A fiber that would block registers itself in the FdContext of its file  *)
(* descriptor with addEvent(), and with the kernel's epoll instance, and   *)
(* is scheduled again by triggerEvent(): from idle(), when epoll reports   *)
(* the fd, or from cancelEvent() and cancelAll(), for a timeout or a       *)
(* close().  Any number of scheduler threads are in idle() at once.        *)
(*                                                                         *)
(* Every operation on an FdContext runs under its mutex and is one action. *)
(* What is not under it is the gap in idle() between epoll_wait(), which   *)
(* copies events out, and the loop that handles them one by one.           *)
(*                                                                         *)
(* epoll is the kernel's and is modelled from how it is used here: level-  *)
(* and edge-triggered interest, a ready list, and EPOLLHUP (for EPOLLERR   *)
(* too), which is reported whatever the interest.  Descriptors are below   *)
(* 32, the initial size of m_fdContexts, so that it is never resized.      *)
(***************************************************************************)
EXTENDS Integers, FiniteSets

CONSTANTS
    Fds,       \* the file descriptors in use
    Waits,     \* the waits that fibers (or callbacks) begin, each at most once
    Idlers,    \* the threads that execute idle()
    None

ASSUME IOAssumption ==
    IsFiniteSet(Fds) /\ IsFiniteSet(Waits) /\ IsFiniteSet(Idlers) /\ None \notin Waits

\* READ is EPOLLIN and WRITE is EPOLLOUT, by value.
Events == {"READ", "WRITE"}
Conditions == Events \cup {"HUP"}

VARIABLES
    events,                \* FdContext::events
    context,               \* who waits in FdContext::read and FdContext::write
    m_pendingEventCount,
    batch,                 \* what epoll_wait() returned to an idler, per fd, and is not handled yet
    status,                \* ghost: where each wait has got to
    failed,                \* which SATURN_ASSERT has failed
    ready,                 \* kernel: what is true of the fd
    interest,              \* kernel: the epoll registration of the fd
    readyList              \* kernel: the fds on epoll's ready list

fdVars == <<events, context, m_pendingEventCount>>
kernelVars == <<ready, interest, readyList>>
vars == <<fdVars, batch, status, failed, kernelVars>>

-----------------------------------------------------------------------------
(* The kernel's epoll.                                                     *)

\* EPOLLET or not, and the events asked for; "on" when the fd is registered.
Unregistered == [on |-> FALSE, mask |-> {}, et |-> FALSE]
Registration(mask, et) == [on |-> TRUE, mask |-> mask, et |-> et]
Reports(fd) == IF interest[fd].on THEN ready[fd] \cap (interest[fd].mask \cup {"HUP"}) ELSE {}

\* epoll_ctl() with EPOLL_CTL_ADD or MOD: an fd that is ready goes on the list.
EpollSet(fd, mask, et) ==
    /\ interest' = [interest EXCEPT ![fd] = Registration(mask, et)]
    /\ readyList' = IF ready[fd] \cap (mask \cup {"HUP"}) # {}
                      THEN readyList \cup {fd} ELSE readyList
    /\ UNCHANGED ready

\* epoll_ctl() with EPOLL_CTL_DEL
EpollDel(fd) ==
    /\ interest' = [interest EXCEPT ![fd] = Unregistered]
    /\ readyList' = readyList \ {fd}
    /\ UNCHANGED ready

\* MOD while the fd has events left, DEL otherwise.
EpollUpdate(fd, left, mask, et) == IF left # {} THEN EpollSet(fd, mask, et) ELSE EpollDel(fd)

\* Data, room to write or a hangup arrives; a hangup is for ever.
BecomeReady(fd, e) ==
    /\ e \notin ready[fd]
    /\ ready' = [ready EXCEPT ![fd] = @ \cup {e}]
    /\ readyList' = IF interest[fd].on /\ e \in interest[fd].mask \cup {"HUP"}
                      THEN readyList \cup {fd} ELSE readyList
    /\ UNCHANGED <<fdVars, batch, status, failed, interest>>

\* Somebody reads the data, or fills the send buffer.
BecomeUnready(fd, e) ==
    /\ e \in ready[fd] \ {"HUP"}
    /\ ready' = [ready EXCEPT ![fd] = @ \ {e}]
    /\ UNCHANGED <<fdVars, batch, status, failed, interest, readyList>>

-----------------------------------------------------------------------------
Init ==
    /\ events = [fd \in Fds |-> {}]
    /\ context = [fd \in Fds |-> [e \in Events |-> None]]
    /\ m_pendingEventCount = 0
    /\ batch = [i \in Idlers |-> [fd \in Fds |-> {}]]
    /\ status = [w \in Waits |-> "new"]
    /\ failed = "none"
    /\ ready = [fd \in Fds |-> {}]
    /\ interest = [fd \in Fds |-> Unregistered]
    /\ readyList = {}

\* Mutant: EPOLL_CTL_MOD forgets the events already registered.
AddMaskForgets(fd, e) == {e}
AddMask(fd, e) == events[fd] \cup {e}

\* Mutant: the wait is not counted.
WaitUncounted == UNCHANGED m_pendingEventCount
CountWait == m_pendingEventCount' = m_pendingEventCount + 1

\* addEvent(); an event that already has a waiter fails an assertion.
AddEvent(fd, e, w) ==
    /\ status[w] = "new"
    /\ IF e \in events[fd]
         THEN failed' = "addEvent" /\ UNCHANGED <<fdVars, status, kernelVars>>
         ELSE /\ EpollSet(fd, AddMask(fd, e), TRUE)
              /\ CountWait
              /\ events' = [events EXCEPT ![fd] = @ \cup {e}]
              /\ context' = [context EXCEPT ![fd][e] = w]
              /\ status' = [status EXCEPT ![w] = "waiting"]
              /\ UNCHANGED failed
    /\ UNCHANGED batch

\* addEvent() when epoll_ctl() fails (no memory, or an fd epoll cannot watch).
AddEventRefused(fd, e, w) ==
    /\ status[w] = "new"
    /\ e \notin events[fd]
    /\ status' = [status EXCEPT ![w] = "refused"]
    /\ UNCHANGED <<fdVars, batch, failed, kernelVars>>

\* delEvent(): the waiter is forgotten.  The new interest has EPOLLIN, whatever
\* is left, and is level-triggered.
DelEvent(fd, e) ==
    /\ e \in events[fd]
    /\ interest[fd].on
    /\ EpollUpdate(fd, events[fd] \ {e}, {"READ"} \cup (events[fd] \ {e}), FALSE)
    /\ m_pendingEventCount' = m_pendingEventCount - 1
    /\ events' = [events EXCEPT ![fd] = @ \ {e}]
    /\ context' = [context EXCEPT ![fd][e] = None]
    /\ status' = [status EXCEPT ![context[fd][e]] = "removed"]
    /\ UNCHANGED <<batch, failed>>

\* Mutant: the count is decremented once for all the triggered events.
UncountOne(es) == m_pendingEventCount' = m_pendingEventCount - 1
Uncount(es) == m_pendingEventCount' = m_pendingEventCount - Cardinality(es)

\* triggerEvent() of each event of es: its assertion, and the waiter scheduled.
TriggerEvents(fd, es) ==
    IF es \subseteq events[fd]
      THEN /\ events' = [events EXCEPT ![fd] = @ \ es]
           /\ context' = [context EXCEPT ![fd] = [e \in Events |-> IF e \in es THEN None ELSE @[e]]]
           /\ status' = [w \in Waits |-> IF \E e \in es : context[fd][e] = w
                                           THEN "resumed" ELSE status[w]]
           /\ Uncount(es)
           /\ UNCHANGED failed
      ELSE failed' = "triggerEvent" /\ UNCHANGED <<fdVars, status>>

\* cancelEvent(): as delEvent(), but the waiter is resumed.
CancelEvent(fd, e) ==
    /\ e \in events[fd]
    /\ interest[fd].on
    /\ EpollUpdate(fd, events[fd] \ {e}, {"READ"} \cup (events[fd] \ {e}), FALSE)
    /\ TriggerEvents(fd, {e})
    /\ UNCHANGED batch

CancelAll(fd) ==
    /\ events[fd] # {}
    /\ interest[fd].on
    /\ EpollDel(fd)
    /\ TriggerEvents(fd, events[fd])
    /\ UNCHANGED batch

-----------------------------------------------------------------------------
(* idle()                                                                  *)

\* epoll_wait() returns every fd of the ready list that has something to report.
\* An edge-triggered fd leaves the list, a level-triggered one stays.
EpollWait(i) ==
    LET reported == {fd \in readyList : Reports(fd) # {}} IN
    /\ \A fd \in Fds : batch[i][fd] = {}
    /\ reported # {}
    /\ batch' = [batch EXCEPT ![i] = [fd \in Fds |-> IF fd \in reported THEN Reports(fd) ELSE {}]]
    /\ readyList' = readyList \ {fd \in reported : interest[fd].et}
    /\ UNCHANGED <<fdVars, status, failed, ready, interest>>

\* The events that a report stands for: a hangup stands for all that are waited for.
\* Mutant: a hangup wakes nobody.
RealEventsNoHup(fd, report) == report \cap Events
RealEvents(fd, report) ==
    (report \cap Events) \cup (IF "HUP" \in report THEN events[fd] ELSE {})

\* Mutant: the report is handled only when it covers all that is waited for.
CoversAll(fd, real) == events[fd] # {} /\ events[fd] \subseteq real
Concerns(fd, real) == events[fd] \cap real # {}

\* The body of the loop over the events that epoll_wait() returned.
HandleEvent(i, fd) ==
    LET real == RealEvents(fd, batch[i][fd])
        left == events[fd] \ real
    IN  /\ batch[i][fd] # {}
        /\ batch' = [batch EXCEPT ![i][fd] = {}]
        /\ IF Concerns(fd, real) /\ interest[fd].on
             THEN EpollUpdate(fd, left, left, TRUE) /\ TriggerEvents(fd, real)
             ELSE UNCHANGED <<fdVars, status, failed, kernelVars>>

-----------------------------------------------------------------------------
Idle(i) == failed = "none" /\ (EpollWait(i) \/ \E fd \in Fds : HandleEvent(i, fd))

Next ==
    \/ \E i \in Idlers : Idle(i)
    \/ /\ failed = "none"
       /\ \E fd \in Fds, e \in Events :
            \/ \E w \in Waits : AddEvent(fd, e, w) \/ AddEventRefused(fd, e, w)
            \/ DelEvent(fd, e)
            \/ CancelEvent(fd, e)
    \/ failed = "none" /\ \E fd \in Fds : CancelAll(fd)
    \/ \E fd \in Fds, e \in Conditions : BecomeReady(fd, e) \/ BecomeUnready(fd, e)

Spec == Init /\ [][Next]_vars

\* The threads in idle() keep calling epoll_wait() and handle what it returns:
\* Scheduler::run() comes back to idle() whenever the queue is empty.
FairSpec == Spec /\ \A i \in Idlers : WF_vars(Idle(i))

-----------------------------------------------------------------------------
(* Properties.                                                             *)

TypeOK ==
    /\ events \in [Fds -> SUBSET Events]
    /\ context \in [Fds -> [Events -> Waits \cup {None}]]
    /\ m_pendingEventCount \in Nat
    /\ batch \in [Idlers -> [Fds -> SUBSET Conditions]]
    /\ status \in [Waits -> {"new", "waiting", "resumed", "removed", "refused"}]
    /\ failed \in {"none", "addEvent", "triggerEvent"}
    /\ ready \in [Fds -> SUBSET Conditions]
    /\ interest \in [Fds -> [on : BOOLEAN, mask : SUBSET Events, et : BOOLEAN]]
    /\ readyList \subseteq Fds

\* stopping() lets the IOManager end when m_pendingEventCount is zero: it is the
\* number of waits that are registered and neither resumed nor removed.
PendingExact ==
    failed = "none" =>
        m_pendingEventCount = Cardinality({w \in Waits : status[w] = "waiting"})

\* The waits that are not over are those in the FdContexts, each in one place, and
\* events holds what is waited for.
Recorded ==
    /\ \A w \in Waits :
         status[w] = "waiting" <=> \E fd \in Fds, e \in Events : context[fd][e] = w
    /\ \A fd, gd \in Fds, e, d \in Events :
         context[fd][e] # None /\ context[fd][e] = context[gd][d] => fd = gd /\ e = d
    /\ \A fd \in Fds : events[fd] = {e \in Events : context[fd][e] # None}

\* epoll watches what is waited for, and an fd only while something is.
Watched ==
    \A fd \in Fds :
        /\ events[fd] \subseteq interest[fd].mask
        /\ interest[fd].on <=> events[fd] # {}

\* Every wait that is not over is in exactly one FdContext, under an event that
\* is set in events and that epoll watches; and nothing else is registered.
WaitersRegistered == failed = "none" => Recorded /\ Watched

\* What is true of fd and waited for under e is still to be reported, or to be handled.
EdgeKept(fd, e) ==
    ready[fd] \cap {e, "HUP"} # {} =>
        \/ fd \in readyList
        \/ \E i \in Idlers : batch[i][fd] \cap {e, "HUP"} # {}

\* No edge is lost: while somebody waits for something that is already true, the
\* fd is on the ready list or in the batch of a thread that has yet to handle it.
NoLostEdge ==
    failed = "none" => \A fd \in Fds : \A e \in events[fd] : EdgeKept(fd, e)

\* The assertion of triggerEvent(): only events that are registered are triggered.
TriggersRegistered == failed # "triggerEvent"

\* A wait for something that stays true is over some day.
ReadyResumes ==
    \A fd \in Fds : \A e \in Events :
        (e \in events[fd] /\ ready[fd] \cap {e, "HUP"} # {})
            ~> (e \notin events[fd] \/ ready[fd] \cap {e, "HUP"} = {} \/ failed # "none")
=============================================================================
