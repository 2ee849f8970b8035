-------------------------------- MODULE Jobs --------------------------------
(***************************************************************************)
(* What a scheduler promises the callers of schedule(): each job given to  *)
(* it waits, is started once, and ends.  There are no threads, no queue    *)
(* and no fibers; a job that is suspended and resumed is running.          *)
(***************************************************************************)
CONSTANT Job

VARIABLES
    waiting,    \* jobs given to schedule() and not started
    running,    \* jobs started and not ended
    done        \* jobs that have ended
vars == <<waiting, running, done>>

Init == waiting = {} /\ running = {} /\ done = {}

Schedule(j) ==
    /\ j \notin waiting \cup running \cup done
    /\ waiting' = waiting \cup {j}
    /\ UNCHANGED <<running, done>>

Start(j) ==
    /\ j \in waiting
    /\ waiting' = waiting \ {j}
    /\ running' = running \cup {j}
    /\ UNCHANGED done

End(j) ==
    /\ j \in running
    /\ running' = running \ {j}
    /\ done' = done \cup {j}
    /\ UNCHANGED waiting

Next == \E j \in Job : Schedule(j) \/ Start(j) \/ End(j)

Spec == Init /\ [][Next]_vars
=============================================================================
