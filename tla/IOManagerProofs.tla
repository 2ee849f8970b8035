--------------------------- MODULE IOManagerProofs ---------------------------
(***************************************************************************)
(* Proofs about IOManager, for any number of fds, waits and idle threads.  *)
(*                                                                         *)
(* The conjunction of the safety properties is inductive: the FdContexts   *)
(* and epoll agree (WaitersRegistered), so that an operation that finds an *)
(* event set also finds its waiter and its registration; the waiters are   *)
(* distinct, so that the count falls by as much as is triggered; and epoll *)
(* watches what is waited for, so that re-arming with the rest puts a      *)
(* ready fd back on the list.                                              *)
(***************************************************************************)
EXTENDS IOManager, FiniteSetTheorems, TLAPS

IInv == TypeOK /\ WaitersRegistered /\ PendingExact /\ NoLostEdge

Waiting == {w \in Waits : status[w] = "waiting"}

-----------------------------------------------------------------------------
(* Counting.                                                               *)

LEMMA WaitingFinite == IsFiniteSet(Waiting)
  BY IOAssumption, FS_Subset DEF Waiting

\* Taking out the waiters of the events es, which are distinct, takes out as many
\* as there are events.
LEMMA RemoveWaiters ==
  ASSUME NEW W, IsFiniteSet(W), NEW es \in SUBSET Events, NEW f,
         \A e \in es : f[e] \in W,
         \A e, d \in es : f[e] = f[d] => e = d
  PROVE  /\ Cardinality(W \ {f[e] : e \in es}) = Cardinality(W) - Cardinality(es)
         /\ Cardinality(es) \in Nat
         /\ Cardinality(W) - Cardinality(es) \in Nat
  <1>0. Cardinality({}) = 0 /\ IsFiniteSet({}) /\ Cardinality(W) \in Nat
    BY FS_EmptySet, FS_CardinalityType
  <1>1. CASE es = {}
    <2>1. W \ {f[e] : e \in es} = W
      BY <1>1
    <2> QED BY <1>0, <1>1, <2>1
  <1>2. ASSUME NEW a \in Events, es = {a}
        PROVE  /\ Cardinality(W \ {f[e] : e \in es}) = Cardinality(W) - 1
               /\ Cardinality(es) = 1
               /\ Cardinality(W) - 1 \in Nat
    <2>1. W \ {f[e] : e \in es} = W \ {f[a]}
      BY <1>2
    <2>2. Cardinality(es) = 1
      BY <1>2, FS_Singleton
    <2>3. /\ Cardinality(W \ {f[a]}) = Cardinality(W) - 1
          /\ IsFiniteSet(W \ {f[a]})
      BY <1>2, FS_RemoveElement
    <2>4. Cardinality(W \ {f[a]}) \in Nat
      BY <2>3, FS_CardinalityType
    <2> QED BY <2>1, <2>2, <2>3, <2>4
  <1>3. CASE es = Events
    <2> DEFINE V == W \ {f["READ"]}
    <2>1. W \ {f[e] : e \in es} = V \ {f["WRITE"]}
      BY <1>3 DEF Events
    <2>2. f["WRITE"] \in V
      BY <1>3 DEF Events
    <2>3. Cardinality(V) = Cardinality(W) - 1 /\ IsFiniteSet(V)
      BY <1>3, FS_RemoveElement DEF Events
    <2>4. Cardinality(V \ {f["WRITE"]}) = Cardinality(V) - 1 /\ IsFiniteSet(V \ {f["WRITE"]})
      BY <2>2, <2>3, FS_RemoveElement
    <2>5. Cardinality(V \ {f["WRITE"]}) \in Nat
      BY <2>4, FS_CardinalityType
    <2>6. Cardinality({"READ"}) = 1 /\ IsFiniteSet({"READ"})
      BY FS_Singleton
    <2>7. Cardinality({"READ"} \cup {"WRITE"}) = 2
      BY <2>6, FS_AddElement, "READ" # "WRITE"
    <2>8. es = {"READ"} \cup {"WRITE"}
      BY <1>3 DEF Events
    <2>9. Cardinality(es) = 2
      BY <2>7, <2>8
    <2>10. Cardinality(W \ {f[e] : e \in es}) = Cardinality(V \ {f["WRITE"]})
      BY <2>1
    <2>11. Cardinality(V \ {f["WRITE"]}) = Cardinality(W) - 2
      BY <1>0, <2>3, <2>4
    <2> HIDE DEF V
    <2> QED BY <1>0, <2>5, <2>9, <2>10, <2>11
  <1>4. es = {} \/ es = {"READ"} \/ es = {"WRITE"} \/ es = Events
    BY DEF Events
  <1> QED BY <1>0, <1>1, <1>2, <1>3, <1>4 DEF Events

-----------------------------------------------------------------------------
(* The operations on an FdContext.                                         *)

\* addEvent() on an event that is free: the new wait is recorded and counted.
LEMMA AddRecorded ==
  ASSUME IInv, failed = "none", NEW fd \in Fds, NEW e \in Events, NEW w \in Waits,
         status[w] = "new", e \notin events[fd],
         CountWait,
         events' = [events EXCEPT ![fd] = @ \cup {e}],
         context' = [context EXCEPT ![fd][e] = w],
         status' = [status EXCEPT ![w] = "waiting"]
  PROVE  /\ Recorded'
         /\ PendingExact'
         /\ m_pendingEventCount' \in Nat
         /\ events' \in [Fds -> SUBSET Events]
         /\ context' \in [Fds -> [Events -> Waits \cup {None}]]
         /\ status' \in [Waits -> {"new", "waiting", "resumed", "removed", "refused"}]
  <1> USE DEF IInv
  <1>1. Recorded
    BY DEF WaitersRegistered
  <1>2. context[fd][e] = None
    BY <1>1 DEF Recorded, TypeOK
  <1>3. \A gd \in Fds, d \in Events : context[gd][d] # w
    BY <1>1 DEF Recorded
  <1>4. \A gd \in Fds, d \in Events :
          context'[gd][d] = IF gd = fd /\ d = e THEN w ELSE context[gd][d]
    BY DEF TypeOK
  <1>5. /\ events' \in [Fds -> SUBSET Events]
        /\ context' \in [Fds -> [Events -> Waits \cup {None}]]
        /\ status' \in [Waits -> {"new", "waiting", "resumed", "removed", "refused"}]
    BY DEF TypeOK
  <1>6. Recorded'
    <2>1. \A v \in Waits :
            status'[v] = "waiting" <=> \E gd \in Fds, d \in Events : context'[gd][d] = v
      <3> TAKE v \in Waits
      <3>1. CASE v = w
        BY <3>1, <1>4 DEF TypeOK
      <3>2. CASE v # w
        <4>1. status'[v] = status[v]
          BY <3>2 DEF TypeOK
        <4>2. \A gd \in Fds, d \in Events : context'[gd][d] = v <=> context[gd][d] = v
          BY <3>2, <1>2, <1>4, IOAssumption
        <4> QED BY <4>1, <4>2, <1>1 DEF Recorded
      <3> QED BY <3>1, <3>2
    <2>2. \A gd, hd \in Fds, c, d \in Events :
            context'[gd][c] # None /\ context'[gd][c] = context'[hd][d] => gd = hd /\ c = d
      BY <1>1, <1>3, <1>4 DEF Recorded
    <2>3. \A gd \in Fds : events'[gd] = {d \in Events : context'[gd][d] # None}
      BY <1>1, <1>4, IOAssumption DEF Recorded, TypeOK
    <2> QED BY <2>1, <2>2, <2>3 DEF Recorded
  <1>7. Waiting' = Waiting \cup {w} /\ w \notin Waiting
    BY DEF Waiting, TypeOK
  <1>8. Cardinality(Waiting') = Cardinality(Waiting) + 1
    BY <1>7, WaitingFinite, FS_AddElement
  <1>9. m_pendingEventCount = Cardinality(Waiting) /\ m_pendingEventCount \in Nat
    BY DEF PendingExact, Waiting, TypeOK
  <1>10. m_pendingEventCount' = m_pendingEventCount + 1
    BY DEF CountWait
  <1>11. m_pendingEventCount' = Cardinality(Waiting') /\ m_pendingEventCount' \in Nat
    BY <1>8, <1>9, <1>10
  <1> QED BY <1>5, <1>6, <1>11 DEF PendingExact, Waiting

\* The waits for the events es of an fd are over, in a new state over: what
\* delEvent() and triggerEvent() do.
EndWaits(fd, es, over) ==
    /\ events' = [events EXCEPT ![fd] = @ \ es]
    /\ context' = [context EXCEPT ![fd] = [e \in Events |-> IF e \in es THEN None ELSE @[e]]]
    /\ status' = [w \in Waits |-> IF \E e \in es : context[fd][e] = w THEN over ELSE status[w]]
    /\ m_pendingEventCount' = m_pendingEventCount - Cardinality(es)

LEMMA EndRecorded ==
  ASSUME IInv, failed = "none", NEW fd \in Fds, NEW es \in SUBSET events[fd],
         NEW over \in {"resumed", "removed"}, EndWaits(fd, es, over)
  PROVE  /\ Recorded'
         /\ PendingExact'
         /\ m_pendingEventCount' \in Nat
         /\ events' \in [Fds -> SUBSET Events]
         /\ context' \in [Fds -> [Events -> Waits \cup {None}]]
         /\ status' \in [Waits -> {"new", "waiting", "resumed", "removed", "refused"}]
  <1> USE DEF IInv, EndWaits
  <1>1. Recorded /\ es \subseteq Events
    BY DEF WaitersRegistered, TypeOK
  <1>2. \A e \in es : context[fd][e] \in Waiting
    BY <1>1 DEF Recorded, Waiting, TypeOK
  <1>3. \A e, d \in es : context[fd][e] = context[fd][d] => e = d
    BY <1>1, <1>2, IOAssumption DEF Recorded, Waiting
  <1>4. \A gd \in Fds, d \in Events :
          context'[gd][d] = IF gd = fd /\ d \in es THEN None ELSE context[gd][d]
    BY DEF TypeOK
  <1>5. /\ events' \in [Fds -> SUBSET Events]
        /\ context' \in [Fds -> [Events -> Waits \cup {None}]]
        /\ status' \in [Waits -> {"new", "waiting", "resumed", "removed", "refused"}]
    BY DEF TypeOK
  <1>6. \A v \in Waits : status'[v] = "waiting" <=>
                           status[v] = "waiting" /\ \A e \in es : context[fd][e] # v
    OBVIOUS
  <1>7. Recorded'
    <2>1. \A v \in Waits :
            status'[v] = "waiting" <=> \E gd \in Fds, d \in Events : context'[gd][d] = v
      <3> TAKE v \in Waits
      <3>1. ASSUME status'[v] = "waiting"
            PROVE  \E gd \in Fds, d \in Events : context'[gd][d] = v
        <4>1. PICK gd \in Fds, d \in Events : context[gd][d] = v
          BY <1>1, <1>6, <3>1 DEF Recorded
        <4>2. ~(gd = fd /\ d \in es)
          BY <1>6, <3>1, <4>1
        <4> QED BY <1>4, <4>1, <4>2
      <3>2. ASSUME NEW gd \in Fds, NEW d \in Events, context'[gd][d] = v
            PROVE  status'[v] = "waiting"
        <4>1. context[gd][d] = v /\ ~(gd = fd /\ d \in es)
          BY <1>4, <3>2, IOAssumption
        <4>2. \A e \in es : context[fd][e] # v
          BY <4>1, <1>1, IOAssumption DEF Recorded
        <4> QED BY <1>1, <1>6, <4>1, <4>2 DEF Recorded
      <3> QED BY <3>1, <3>2
    <2>2. \A gd, hd \in Fds, c, d \in Events :
            context'[gd][c] # None /\ context'[gd][c] = context'[hd][d] => gd = hd /\ c = d
      BY <1>1, <1>4 DEF Recorded
    <2>3. \A gd \in Fds : events'[gd] = {d \in Events : context'[gd][d] # None}
      <3> TAKE gd \in Fds
      <3>1. events'[gd] = IF gd = fd THEN events[gd] \ es ELSE events[gd]
        BY DEF TypeOK
      <3> QED BY <1>1, <1>4, <3>1 DEF Recorded
    <2> QED BY <2>1, <2>2, <2>3 DEF Recorded
  <1>8. Waiting' = Waiting \ {context[fd][e] : e \in es}
    BY <1>6 DEF Waiting
  <1>9. /\ Cardinality(Waiting') = Cardinality(Waiting) - Cardinality(es)
        /\ Cardinality(es) \in Nat
        /\ Cardinality(Waiting) - Cardinality(es) \in Nat
    <2> HIDE DEF IInv, EndWaits
    <2> DEFINE f == context[fd]
    <2>1. es \in SUBSET Events
      BY <1>1
    <2>2. /\ \A e \in es : f[e] \in Waiting
          /\ \A e, d \in es : f[e] = f[d] => e = d
      BY <1>2, <1>3
    <2>3. Waiting' = Waiting \ {f[e] : e \in es}
      BY <1>8
    <2> HIDE DEF f
    <2>4. /\ Cardinality(Waiting \ {f[e] : e \in es}) = Cardinality(Waiting) - Cardinality(es)
          /\ Cardinality(es) \in Nat
          /\ Cardinality(Waiting) - Cardinality(es) \in Nat
      BY <2>1, <2>2, WaitingFinite, RemoveWaiters
    <2> QED BY <2>3, <2>4
  <1>10. m_pendingEventCount = Cardinality(Waiting)
    BY DEF PendingExact, Waiting
  <1>11. m_pendingEventCount' = Cardinality(Waiting') /\ m_pendingEventCount' \in Nat
    BY <1>9, <1>10
  <1> QED BY <1>5, <1>7, <1>11 DEF PendingExact, Waiting
-----------------------------------------------------------------------------
(* epoll_ctl()                                                             *)

\* What an update of the interest of fd leaves: the other fds as they are, and fd
\* on the ready list if it reports something.
Updated(fd, left, mask) ==
    /\ ready' = ready
    /\ \A gd \in Fds \ {fd} : interest'[gd] = interest[gd] /\ (gd \in readyList => gd \in readyList')
    /\ left # {} => interest'[fd].on /\ interest'[fd].mask = mask
    /\ left # {} /\ ready[fd] \cap (mask \cup {"HUP"}) # {} => fd \in readyList'
    /\ left = {} => ~interest'[fd].on

KernelTypes ==
    /\ interest' \in [Fds -> [on : BOOLEAN, mask : SUBSET Events, et : BOOLEAN]]
    /\ readyList' \subseteq Fds
    /\ ready' = ready

LEMMA EpollFacts ==
  ASSUME TypeOK, NEW fd \in Fds, NEW left, NEW mask \in SUBSET Events, NEW et \in BOOLEAN,
         EpollUpdate(fd, left, mask, et)
  PROVE  Updated(fd, left, mask) /\ KernelTypes
  <1> USE DEF TypeOK, Updated, KernelTypes
  <1>1. CASE left # {}
    <2>1. EpollSet(fd, mask, et)
      BY <1>1 DEF EpollUpdate
    <2> QED BY <1>1, <2>1 DEF EpollSet, Registration
  <1>2. CASE left = {}
    <2>1. EpollDel(fd)
      BY <1>2 DEF EpollUpdate
    <2> QED BY <1>2, <2>1 DEF EpollDel, Unregistered
  <1> QED BY <1>1, <1>2

\* An update of the interest that covers what is waited for afterwards keeps epoll
\* in agreement with events, and every edge, whatever was in the batches for fd.
LEMMA UpdateKeeps ==
  ASSUME TypeOK, Watched, NoLostEdge, failed = "none",
         NEW fd \in Fds, NEW left \in SUBSET Events, NEW mask \in SUBSET Events, left \subseteq mask,
         NEW et \in BOOLEAN, EpollUpdate(fd, left, mask, et),
         events'[fd] = left, \A gd \in Fds \ {fd} : events'[gd] = events[gd],
         \A i \in Idlers : \A gd \in Fds \ {fd} : batch'[i][gd] = batch[i][gd]
  PROVE  Watched' /\ NoLostEdge'
  <1>1. Updated(fd, left, mask)
    BY EpollFacts
  <1>2. ASSUME NEW gd \in Fds
        PROVE  /\ events'[gd] \subseteq interest'[gd].mask
               /\ interest'[gd].on <=> events'[gd] # {}
    <2>1. CASE gd = fd /\ left # {}
      <3>1. interest'[gd].on /\ interest'[gd].mask = mask
        BY <1>1, <2>1 DEF Updated
      <3>2. events'[gd] = left
        BY <2>1
      <3> QED BY <2>1, <3>1, <3>2
    <2>2. CASE gd = fd /\ left = {}
      <3>1. events'[gd] = {} /\ ~interest'[gd].on
        BY <1>1, <2>2 DEF Updated
      <3> QED BY <3>1
    <2>3. CASE gd # fd
      BY <1>1, <2>3 DEF Watched, Updated
    <2> QED BY <2>1, <2>2, <2>3
  <1>3. ASSUME NEW gd \in Fds, NEW e \in events'[gd], ready'[gd] \cap {e, "HUP"} # {}
        PROVE  \/ gd \in readyList'
               \/ \E i \in Idlers : batch'[i][gd] \cap {e, "HUP"} # {}
    <2>1. CASE gd = fd
      <3>1. e \in left /\ e \in mask /\ ready[fd] \cap {e, "HUP"} # {}
        BY <1>1, <1>3, <2>1 DEF Updated
      <3>2. ready[fd] \cap (mask \cup {"HUP"}) # {}
        BY <3>1
      <3>3. left # {}
        BY <3>1
      <3>4. fd \in readyList'
        BY <1>1, <3>2, <3>3 DEF Updated
      <3> QED BY <2>1, <3>4
    <2>2. CASE gd # fd
      <3>1. gd \in Fds \ {fd}
        BY <2>2
      <3>2. e \in events[gd] /\ ready[gd] \cap {e, "HUP"} # {}
        BY <1>1, <1>3, <3>1 DEF Updated
      <3>3. gd \in readyList \/ \E i \in Idlers : batch[i][gd] \cap {e, "HUP"} # {}
        BY <3>2 DEF NoLostEdge, EdgeKept
      <3>4. CASE gd \in readyList
        BY <1>1, <3>1, <3>4 DEF Updated
      <3>5. ASSUME NEW i \in Idlers, batch[i][gd] \cap {e, "HUP"} # {}
            PROVE  batch'[i][gd] \cap {e, "HUP"} # {}
        BY <3>1, <3>5
      <3> QED BY <3>3, <3>4, <3>5
    <2> QED BY <2>1, <2>2
  <1>4. Watched'
    BY <1>2 DEF Watched
  <1>5. NoLostEdge'
    BY <1>3 DEF NoLostEdge, EdgeKept
  <1> QED BY <1>4, <1>5

\* Ending waits and updating the interest to cover the rest keeps the invariant.
LEMMA EndStep ==
  ASSUME IInv, failed = "none", failed' = "none",
         NEW fd \in Fds, NEW es \in SUBSET events[fd], NEW over \in {"resumed", "removed"},
         NEW mask \in SUBSET Events, NEW et \in BOOLEAN, events[fd] \ es \subseteq mask,
         EndWaits(fd, es, over),
         EpollUpdate(fd, events[fd] \ es, mask, et),
         batch' \in [Idlers -> [Fds -> SUBSET Conditions]],
         \A i \in Idlers : \A gd \in Fds \ {fd} : batch'[i][gd] = batch[i][gd]
  PROVE  IInv'
  <1> DEFINE left == events[fd] \ es
  <1>1. /\ Recorded' /\ PendingExact' /\ m_pendingEventCount' \in Nat
        /\ events' \in [Fds -> SUBSET Events]
        /\ context' \in [Fds -> [Events -> Waits \cup {None}]]
        /\ status' \in [Waits -> {"new", "waiting", "resumed", "removed", "refused"}]
    BY EndRecorded
  <1>2. TypeOK /\ Watched /\ NoLostEdge
    BY DEF IInv, WaitersRegistered
  <1>3. events'[fd] = left /\ \A gd \in Fds \ {fd} : events'[gd] = events[gd]
    BY <1>2 DEF EndWaits, TypeOK
  <1>4. left \in SUBSET Events /\ left \subseteq mask /\ EpollUpdate(fd, left, mask, et)
    BY <1>2 DEF TypeOK
  <1> HIDE DEF left
  <1>5. KernelTypes
    BY <1>2, <1>4, EpollFacts
  <1>6. TypeOK'
    BY <1>1, <1>2, <1>5 DEF TypeOK, KernelTypes
  <1>7. Watched' /\ NoLostEdge'
    BY <1>2, <1>3, <1>4, UpdateKeeps
  <1> QED BY <1>1, <1>6, <1>7 DEF IInv, WaitersRegistered

\* triggerEvent(), when its assertion holds.
LEMMA TriggerEnds ==
  ASSUME NEW fd \in Fds, NEW es, es \subseteq events[fd], TriggerEvents(fd, es)
  PROVE  EndWaits(fd, es, "resumed") /\ failed' = failed
  BY DEF TriggerEvents, EndWaits, Uncount

\* An assertion failed: only the types are left to keep.
LEMMA FailedStep ==
  ASSUME IInv, failed' \in {"addEvent", "triggerEvent"},
         UNCHANGED <<fdVars, status>>, KernelTypes,
         batch' \in [Idlers -> [Fds -> SUBSET Conditions]]
  PROVE  IInv'
  <1>1. TypeOK'
    BY DEF IInv, TypeOK, fdVars, KernelTypes
  <1> QED BY <1>1 DEF IInv, WaitersRegistered, PendingExact, NoLostEdge

-----------------------------------------------------------------------------
(* The actions.                                                            *)

LEMMA AddEventStep ==
  ASSUME IInv, failed = "none", NEW fd \in Fds, NEW e \in Events, NEW w \in Waits,
         AddEvent(fd, e, w)
  PROVE  IInv'
  <1>0. TypeOK /\ Recorded /\ Watched /\ NoLostEdge
    BY DEF IInv, WaitersRegistered
  <1>1. CASE e \in events[fd]
    <2>1. failed' = "addEvent" /\ UNCHANGED <<fdVars, status, kernelVars, batch>>
      BY <1>1 DEF AddEvent
    <2>2. KernelTypes /\ batch' \in [Idlers -> [Fds -> SUBSET Conditions]]
      BY <1>0, <2>1 DEF kernelVars, TypeOK, KernelTypes
    <2> QED BY <2>1, <2>2, FailedStep
  <1>2. CASE e \notin events[fd]
    <2> DEFINE mask == events[fd] \cup {e}
    <2>1. /\ EpollSet(fd, mask, TRUE) /\ CountWait
          /\ events' = [events EXCEPT ![fd] = @ \cup {e}]
          /\ context' = [context EXCEPT ![fd][e] = w]
          /\ status' = [status EXCEPT ![w] = "waiting"]
          /\ failed' = failed /\ batch' = batch /\ status[w] = "new"
      BY <1>2 DEF AddEvent, AddMask
    <2>2. /\ Recorded' /\ PendingExact' /\ m_pendingEventCount' \in Nat
          /\ events' \in [Fds -> SUBSET Events]
          /\ context' \in [Fds -> [Events -> Waits \cup {None}]]
          /\ status' \in [Waits -> {"new", "waiting", "resumed", "removed", "refused"}]
      BY <1>2, <2>1, AddRecorded
    <2>3. mask \in SUBSET Events /\ mask # {}
      BY <1>0 DEF TypeOK
    <2>4. EpollUpdate(fd, mask, mask, TRUE)
      BY <2>1, <2>3 DEF EpollUpdate
    <2>5. events'[fd] = mask /\ \A gd \in Fds \ {fd} : events'[gd] = events[gd]
      BY <1>0, <2>1 DEF TypeOK
    <2> HIDE DEF mask
    <2>6. KernelTypes
      BY <1>0, <2>3, <2>4, EpollFacts
    <2>7. TypeOK'
      BY <1>0, <2>1, <2>2, <2>6 DEF TypeOK, KernelTypes
    <2>8. \A i \in Idlers : \A gd \in Fds \ {fd} : batch'[i][gd] = batch[i][gd]
      BY <2>1
    <2>9. Watched' /\ NoLostEdge'
      BY <1>0, <2>3, <2>4, <2>5, <2>8, UpdateKeeps
    <2> QED BY <2>2, <2>7, <2>9 DEF IInv, WaitersRegistered
  <1> QED BY <1>1, <1>2

LEMMA DelEventStep ==
  ASSUME IInv, failed = "none", NEW fd \in Fds, NEW e \in Events, DelEvent(fd, e)
  PROVE  IInv'
  <1> DEFINE es == {e}
             mask == {"READ"} \cup (events[fd] \ es)
  <1>1. TypeOK /\ Recorded
    BY DEF IInv, WaitersRegistered
  <1>2. es \in SUBSET events[fd] /\ mask \in SUBSET Events /\ events[fd] \ es \subseteq mask
    BY <1>1 DEF DelEvent, TypeOK, Events
  <1>3. context[fd][e] \in Waits
    BY <1>1 DEF DelEvent, Recorded, TypeOK
  <1>4. EndWaits(fd, es, "removed")
    <2>1. events' = [events EXCEPT ![fd] = @ \ es]
      BY DEF DelEvent
    <2>2. context' = [context EXCEPT ![fd] = [d \in Events |-> IF d \in es THEN None ELSE @[d]]]
      BY <1>1 DEF DelEvent, TypeOK
    <2>3. status' = [w \in Waits |-> IF \E d \in es : context[fd][d] = w THEN "removed" ELSE status[w]]
      BY <1>1, <1>3 DEF DelEvent, TypeOK
    <2>4. Cardinality(es) = 1
      BY FS_Singleton
    <2>5. m_pendingEventCount' = m_pendingEventCount - Cardinality(es)
      BY <2>4 DEF DelEvent
    <2> QED BY <2>1, <2>2, <2>3, <2>5 DEF EndWaits
  <1>5. EpollUpdate(fd, events[fd] \ es, mask, FALSE) /\ batch' = batch /\ failed' = failed
    BY DEF DelEvent
  <1>6. /\ batch' \in [Idlers -> [Fds -> SUBSET Conditions]]
        /\ \A i \in Idlers : \A gd \in Fds \ {fd} : batch'[i][gd] = batch[i][gd]
    BY <1>1, <1>5 DEF TypeOK
  <1> HIDE DEF es, mask
  <1> QED BY <1>2, <1>4, <1>5, <1>6, EndStep

LEMMA CancelEventStep ==
  ASSUME IInv, failed = "none", NEW fd \in Fds, NEW e \in Events, CancelEvent(fd, e)
  PROVE  IInv'
  <1> DEFINE es == {e}
             mask == {"READ"} \cup (events[fd] \ es)
  <1>1. TypeOK
    BY DEF IInv
  <1>2. es \in SUBSET events[fd] /\ mask \in SUBSET Events /\ events[fd] \ es \subseteq mask
    BY <1>1 DEF CancelEvent, TypeOK, Events
  <1>3. /\ EpollUpdate(fd, events[fd] \ es, mask, FALSE) /\ batch' = batch
        /\ TriggerEvents(fd, es)
    BY DEF CancelEvent
  <1>4. /\ batch' \in [Idlers -> [Fds -> SUBSET Conditions]]
        /\ \A i \in Idlers : \A gd \in Fds \ {fd} : batch'[i][gd] = batch[i][gd]
    BY <1>1, <1>3 DEF TypeOK
  <1> HIDE DEF es, mask
  <1>5. EndWaits(fd, es, "resumed") /\ failed' = failed
    BY <1>2, <1>3, TriggerEnds
  <1> QED BY <1>2, <1>3, <1>4, <1>5, EndStep

LEMMA CancelAllStep ==
  ASSUME IInv, failed = "none", NEW fd \in Fds, CancelAll(fd)
  PROVE  IInv'
  <1>1. TypeOK
    BY DEF IInv
  <1>2. PICK es : es = events[fd]
    OBVIOUS
  <1>3. /\ es \in SUBSET events[fd] /\ {} \in SUBSET Events /\ events[fd] \ es \subseteq {}
        /\ events[fd] \ es = {}
    BY <1>2
  <1>4. EpollDel(fd) /\ TriggerEvents(fd, es) /\ batch' = batch
    BY <1>2 DEF CancelAll
  <1>5. EpollUpdate(fd, events[fd] \ es, {}, FALSE)
    BY <1>3, <1>4 DEF EpollUpdate
  <1>6. /\ batch' \in [Idlers -> [Fds -> SUBSET Conditions]]
        /\ \A i \in Idlers : \A gd \in Fds \ {fd} : batch'[i][gd] = batch[i][gd]
    BY <1>1, <1>4 DEF TypeOK
  <1>7. EndWaits(fd, es, "resumed") /\ failed' = failed
    BY <1>3, <1>4, TriggerEnds
  <1> QED BY <1>3, <1>5, <1>6, <1>7, EndStep

\* idle() triggers what a report stands for.  What it finds waited for and in the
\* report is triggered; what is left is registered anew, and with it any edge that
\* came in the meantime.  A report that concerns nothing waited for covered no edge.
LEMMA HandleEventStep ==
  ASSUME IInv, failed = "none", NEW i \in Idlers, NEW fd \in Fds, HandleEvent(i, fd)
  PROVE  IInv'
  <1>1. TypeOK /\ Recorded /\ Watched /\ NoLostEdge
    BY DEF IInv, WaitersRegistered
  <1>2. PICK es : es = RealEvents(fd, batch[i][fd])
    OBVIOUS
  <1>3. PICK left : left = events[fd] \ es
    OBVIOUS
  <1>4. es \in SUBSET Events /\ left \in SUBSET Events
    BY <1>1, <1>2, <1>3 DEF RealEvents, TypeOK
  <1>5. batch' = [batch EXCEPT ![i][fd] = {}]
    BY DEF HandleEvent
  <1>6. /\ batch' \in [Idlers -> [Fds -> SUBSET Conditions]]
        /\ \A j \in Idlers : \A gd \in Fds \ {fd} : batch'[j][gd] = batch[j][gd]
        /\ \A j \in Idlers \ {i} : batch'[j] = batch[j]
    BY <1>1, <1>5 DEF TypeOK
  <1>7. CASE Concerns(fd, es) /\ interest[fd].on
    <2>1. EpollUpdate(fd, left, left, TRUE) /\ TriggerEvents(fd, es)
      BY <1>2, <1>3, <1>7 DEF HandleEvent
    <2>2. CASE es \subseteq events[fd]
      <3>1. EndWaits(fd, es, "resumed") /\ failed' = failed
        BY <2>1, <2>2, TriggerEnds
      <3>2. EpollUpdate(fd, events[fd] \ es, left, TRUE) /\ events[fd] \ es \subseteq left
        BY <1>3, <2>1
      <3>3. es \in SUBSET events[fd] /\ failed' = "none"
        BY <2>2, <3>1
      <3> QED BY <1>4, <1>6, <3>1, <3>2, <3>3, EndStep
    <2>3. CASE ~(es \subseteq events[fd])
      <3>1. failed' = "triggerEvent" /\ UNCHANGED <<fdVars, status>>
        BY <2>1, <2>3 DEF TriggerEvents
      <3>2. KernelTypes
        BY <1>1, <1>4, <2>1, EpollFacts
      <3> QED BY <1>6, <3>1, <3>2, FailedStep
    <2> QED BY <2>2, <2>3
  <1>8. CASE ~(Concerns(fd, es) /\ interest[fd].on)
    <2>1. UNCHANGED <<fdVars, status, failed, kernelVars>>
      BY <1>2, <1>8 DEF HandleEvent
    <2>2. TypeOK'
      BY <1>1, <1>6, <2>1 DEF TypeOK, fdVars, kernelVars
    <2>3. WaitersRegistered' /\ PendingExact'
      BY <2>1 DEF IInv, WaitersRegistered, PendingExact, Recorded, Watched, fdVars, kernelVars
    <2>4. ASSUME NEW gd \in Fds, NEW e \in events[gd], ready[gd] \cap {e, "HUP"} # {}
          PROVE  \/ gd \in readyList
                 \/ \E j \in Idlers : batch'[j][gd] \cap {e, "HUP"} # {}
      <3>1. CASE gd \in readyList
        BY <3>1
      <3>2. ASSUME NEW j \in Idlers, batch[j][gd] \cap {e, "HUP"} # {}
            PROVE  batch'[j][gd] \cap {e, "HUP"} # {}
        <4>1. CASE gd # fd
          BY <1>6, <3>2, <4>1
        <4>2. CASE j # i
          BY <1>6, <3>2, <4>2
        <4>3. CASE gd = fd /\ j = i
          <5>1. e \in events[fd] /\ e \in Events /\ batch[i][fd] \cap {e, "HUP"} # {}
            BY <1>1, <2>4, <3>2, <4>3 DEF TypeOK
          <5>2. e \in es
            BY <1>2, <5>1 DEF RealEvents
          <5>3. Concerns(fd, es) /\ interest[fd].on
            BY <1>1, <5>1, <5>2 DEF Concerns, Watched
          <5> QED BY <5>3, <1>8
        <4> QED BY <4>1, <4>2, <4>3
      <3>3. gd \in readyList \/ \E j \in Idlers : batch[j][gd] \cap {e, "HUP"} # {}
        BY <1>1, <2>4 DEF NoLostEdge, EdgeKept
      <3> QED BY <3>1, <3>2, <3>3
    <2>5. NoLostEdge'
      BY <2>1, <2>4 DEF NoLostEdge, EdgeKept, fdVars, kernelVars
    <2> QED BY <2>2, <2>3, <2>5 DEF IInv
  <1> QED BY <1>7, <1>8

\* epoll_wait() takes an edge off the ready list into the batch of its thread, with
\* everything that is waited for and true of the fd.
LEMMA EpollWaitStep ==
  ASSUME IInv, failed = "none", NEW i \in Idlers, EpollWait(i)
  PROVE  IInv'
  <1>1. TypeOK /\ Watched /\ NoLostEdge
    BY DEF IInv, WaitersRegistered
  <1>2. PICK reported : reported = {fd \in readyList : Reports(fd) # {}}
    OBVIOUS
  <1>3. /\ \A fd \in Fds : batch[i][fd] = {}
        /\ batch' = [batch EXCEPT ![i] = [fd \in Fds |-> IF fd \in reported THEN Reports(fd) ELSE {}]]
        /\ readyList' = readyList \ {fd \in reported : interest[fd].et}
        /\ UNCHANGED <<fdVars, status, failed, ready, interest>>
    BY <1>2 DEF EpollWait
  <1>4. \A fd \in Fds : Reports(fd) \in SUBSET Conditions
    BY <1>1 DEF Reports, TypeOK
  <1>5. /\ batch' \in [Idlers -> [Fds -> SUBSET Conditions]]
        /\ \A fd \in reported \cap Fds : batch'[i][fd] = Reports(fd)
        /\ \A j \in Idlers \ {i} : batch'[j] = batch[j]
    BY <1>1, <1>3, <1>4 DEF TypeOK
  <1>6. TypeOK'
    BY <1>1, <1>3, <1>5 DEF TypeOK, fdVars
  <1>7. WaitersRegistered' /\ PendingExact'
    BY <1>3 DEF IInv, WaitersRegistered, PendingExact, Recorded, Watched, fdVars
  <1>8. ASSUME NEW fd \in Fds, NEW e \in events[fd], ready[fd] \cap {e, "HUP"} # {}
        PROVE  \/ fd \in readyList'
               \/ \E j \in Idlers : batch'[j][fd] \cap {e, "HUP"} # {}
    <2>1. CASE fd \in readyList
      <3>1. Reports(fd) \cap {e, "HUP"} # {}
        <4>1. interest[fd].on /\ e \in interest[fd].mask
          BY <1>1, <1>8 DEF Watched
        <4> QED BY <1>8, <4>1 DEF Reports
      <3>2. fd \in reported
        BY <1>2, <2>1, <3>1
      <3> QED BY <1>5, <3>1, <3>2
    <2>2. ASSUME NEW j \in Idlers, batch[j][fd] \cap {e, "HUP"} # {}
          PROVE  batch'[j][fd] \cap {e, "HUP"} # {}
      <3>1. j # i
        BY <1>3, <2>2
      <3> QED BY <1>5, <2>2, <3>1
    <2>3. fd \in readyList \/ \E j \in Idlers : batch[j][fd] \cap {e, "HUP"} # {}
      BY <1>1, <1>8 DEF NoLostEdge, EdgeKept
    <2> QED BY <2>1, <2>2, <2>3
  <1>9. NoLostEdge'
    BY <1>3, <1>8 DEF NoLostEdge, EdgeKept, fdVars
  <1> QED BY <1>6, <1>7, <1>9 DEF IInv

\* A wait that epoll_ctl() refused was never counted or recorded.
LEMMA AddEventRefusedStep ==
  ASSUME IInv, NEW fd \in Fds, NEW e \in Events, NEW w \in Waits, AddEventRefused(fd, e, w)
  PROVE  IInv'
  <1>1. /\ TypeOK /\ status[w] = "new" /\ status' = [status EXCEPT ![w] = "refused"]
        /\ UNCHANGED <<fdVars, batch, failed, kernelVars>>
    BY DEF IInv, AddEventRefused
  <1>2. TypeOK'
    BY <1>1 DEF TypeOK, fdVars, kernelVars
  <1>3. \A v \in Waits : status'[v] = "waiting" <=> status[v] = "waiting"
    BY <1>1 DEF TypeOK
  <1>4. Waiting' = Waiting
    BY <1>3 DEF Waiting
  <1>5. PendingExact'
    BY <1>1, <1>4 DEF IInv, PendingExact, Waiting, fdVars
  <1>6. WaitersRegistered'
    BY <1>1, <1>3 DEF IInv, WaitersRegistered, Recorded, Watched, fdVars, kernelVars
  <1>7. NoLostEdge'
    BY <1>1 DEF IInv, NoLostEdge, EdgeKept, fdVars, kernelVars
  <1> QED BY <1>2, <1>5, <1>6, <1>7 DEF IInv

\* What is waited for is watched, so that an fd that becomes ready is listed.
LEMMA BecomeReadyStep ==
  ASSUME IInv, NEW fd \in Fds, NEW e \in Conditions, BecomeReady(fd, e)
  PROVE  IInv'
  <1>1. /\ TypeOK
        /\ ready' = [ready EXCEPT ![fd] = @ \cup {e}]
        /\ readyList' = IF interest[fd].on /\ e \in interest[fd].mask \cup {"HUP"}
                          THEN readyList \cup {fd} ELSE readyList
        /\ UNCHANGED <<fdVars, batch, status, failed, interest>>
    BY DEF IInv, BecomeReady
  <1>2. TypeOK'
    BY <1>1 DEF TypeOK, fdVars
  <1>3. WaitersRegistered' /\ PendingExact'
    BY <1>1 DEF IInv, WaitersRegistered, PendingExact, Recorded, Watched, fdVars
  <1>4. ASSUME failed = "none", NEW gd \in Fds, NEW d \in events[gd], ready'[gd] \cap {d, "HUP"} # {}
        PROVE  \/ gd \in readyList'
               \/ \E i \in Idlers : batch[i][gd] \cap {d, "HUP"} # {}
    <2>1. CASE ready[gd] \cap {d, "HUP"} # {}
      <3>1. gd \in readyList \/ \E i \in Idlers : batch[i][gd] \cap {d, "HUP"} # {}
        BY <1>4, <2>1 DEF IInv, NoLostEdge, EdgeKept
      <3> QED BY <1>1, <3>1
    <2>2. CASE ready[gd] \cap {d, "HUP"} = {}
      <3>1. gd = fd /\ e \in {d, "HUP"}
        BY <1>1, <1>4, <2>2 DEF TypeOK
      <3>2. interest[fd].on /\ d \in interest[fd].mask
        BY <1>4, <3>1 DEF IInv, WaitersRegistered, Watched
      <3> QED BY <1>1, <3>1, <3>2
    <2> QED BY <2>1, <2>2
  <1>5. NoLostEdge'
    BY <1>1, <1>4 DEF NoLostEdge, EdgeKept, fdVars
  <1> QED BY <1>2, <1>3, <1>5 DEF IInv

LEMMA BecomeUnreadyStep ==
  ASSUME IInv, NEW fd \in Fds, NEW e \in Conditions, BecomeUnready(fd, e)
  PROVE  IInv'
  <1>1. /\ TypeOK
        /\ ready' = [ready EXCEPT ![fd] = @ \ {e}]
        /\ UNCHANGED <<fdVars, batch, status, failed, interest, readyList>>
    BY DEF IInv, BecomeUnready
  <1>2. TypeOK' /\ \A gd \in Fds : ready'[gd] \subseteq ready[gd]
    BY <1>1 DEF TypeOK, fdVars
  <1>3. WaitersRegistered' /\ PendingExact'
    BY <1>1 DEF IInv, WaitersRegistered, PendingExact, Recorded, Watched, fdVars
  <1>4. \A gd \in Fds, d \in Events : ready'[gd] \cap {d, "HUP"} # {} => ready[gd] \cap {d, "HUP"} # {}
    BY <1>2
  <1>5. ASSUME failed = "none", NEW gd \in Fds, NEW d \in events[gd]
        PROVE  EdgeKept(gd, d)'
    <2>1. EdgeKept(gd, d) /\ d \in Events
      BY <1>1, <1>5 DEF IInv, NoLostEdge, TypeOK
    <2> QED BY <1>1, <1>4, <2>1 DEF EdgeKept
  <1>6. NoLostEdge'
    BY <1>1, <1>5 DEF NoLostEdge, fdVars
  <1> QED BY <1>2, <1>3, <1>6 DEF IInv

-----------------------------------------------------------------------------
(* The invariant.                                                          *)

LEMMA IInvInit == Init => IInv
  <1> SUFFICES ASSUME Init PROVE IInv
    OBVIOUS
  <1>1. TypeOK
    BY DEF Init, TypeOK, Unregistered
  <1>2. Recorded
    BY IOAssumption DEF Init, Recorded
  <1>3. Watched
    BY DEF Init, Watched, Unregistered
  <1>4. PendingExact
    <2>1. {w \in Waits : status[w] = "waiting"} = {}
      BY DEF Init
    <2> QED BY <2>1, FS_EmptySet DEF Init, PendingExact
  <1>5. NoLostEdge
    BY DEF Init, NoLostEdge
  <1> QED BY <1>1, <1>2, <1>3, <1>4, <1>5 DEF IInv, WaitersRegistered

LEMMA IInvStep == IInv /\ [Next]_vars => IInv'
  <1> SUFFICES ASSUME IInv, [Next]_vars PROVE IInv'
    OBVIOUS
  <1>1. ASSUME NEW i \in Idlers, Idle(i) PROVE IInv'
    BY <1>1, EpollWaitStep, HandleEventStep DEF Idle
  <1>2. ASSUME failed = "none", NEW fd \in Fds, NEW e \in Events, NEW w \in Waits,
               AddEvent(fd, e, w) \/ AddEventRefused(fd, e, w)
        PROVE  IInv'
    BY <1>2, AddEventStep, AddEventRefusedStep
  <1>3. ASSUME failed = "none", NEW fd \in Fds, NEW e \in Events, DelEvent(fd, e) PROVE IInv'
    BY <1>3, DelEventStep
  <1>4. ASSUME failed = "none", NEW fd \in Fds, NEW e \in Events, CancelEvent(fd, e) PROVE IInv'
    BY <1>4, CancelEventStep
  <1>5. ASSUME failed = "none", NEW fd \in Fds, CancelAll(fd) PROVE IInv'
    BY <1>5, CancelAllStep
  <1>6. ASSUME NEW fd \in Fds, NEW e \in Conditions, BecomeReady(fd, e) PROVE IInv'
    BY <1>6, BecomeReadyStep
  <1>7. ASSUME NEW fd \in Fds, NEW e \in Conditions, BecomeUnready(fd, e) PROVE IInv'
    BY <1>7, BecomeUnreadyStep
  <1>8. CASE UNCHANGED vars
    BY <1>8 DEF IInv, TypeOK, WaitersRegistered, Recorded, Watched, PendingExact, NoLostEdge,
                EdgeKept, vars, fdVars, kernelVars
  <1> QED BY <1>1, <1>2, <1>3, <1>4, <1>5, <1>6, <1>7, <1>8 DEF Next

\* The invariant holds in every behaviour of addEvent(), delEvent(), cancelEvent(),
\* cancelAll() and the loops of idle(), whatever epoll reports and when.
THEOREM Invariance == Spec => []IInv
  BY IInvInit, IInvStep, PTL DEF Spec

\* Every field of the FdContexts, of epoll's registrations and of the batches keeps
\* its type, and m_pendingEventCount never goes below zero.
THEOREM TypeCorrect == Spec => []TypeOK
  <1>1. IInv => TypeOK
    BY DEF IInv
  <1> QED BY <1>1, Invariance, PTL

\* m_pendingEventCount is the number of waits that are registered and not over, so
\* that stopping() cannot end the IOManager under a fiber that still waits.
THEOREM PendingCorrect == Spec => []PendingExact
  <1>1. IInv => PendingExact
    BY DEF IInv
  <1> QED BY <1>1, Invariance, PTL

\* The FdContexts, epoll and the waits agree: each wait that is not over is in one
\* FdContext and watched by epoll, and nothing else is.
THEOREM Registered == Spec => []WaitersRegistered
  <1>1. IInv => WaitersRegistered
    BY DEF IInv
  <1> QED BY <1>1, Invariance, PTL

\* No edge is lost between epoll_wait() and the loop that handles its events, with
\* any number of threads in idle() and whatever is registered or cancelled meanwhile.
THEOREM EdgesKept == Spec => []NoLostEdge
  <1>1. IInv => NoLostEdge
    BY DEF IInv
  <1> QED BY <1>1, Invariance, PTL
=============================================================================
