------------------------------ MODULE TcpServer ------------------------------
(***************************************************************************)
(* TcpServer (tcpserver.cc): bind, start, stop and the accept loops.        *)
(*                                                                          *)
(* start() schedules one accept loop per listening socket; stop() only      *)
(* raises m_isStop and schedules a task that cancels the waits on the       *)
(* sockets and closes them.  The loops and the tasks run in any order; what *)
(* happens between the cancelling and the closing depends on how many       *)
(* threads the accept worker has.  A Socket lives while the server or a     *)
(* loop has it.  What an accepted client does is the business of the module *)
(* that extends this one.                                                   *)
(***************************************************************************)
EXTENDS Integers, FiniteSets

CONSTANTS
    Listeners,   \* Socket objects that bind() makes; one that is gone may be made again
    MaxStarts,   \* bound on the calls of start()
    MaxCalls     \* bound on all calls: of the server, and those its clients make

ASSUME ServerAssumption == IsFiniteSet(Listeners) /\ MaxStarts \in Nat /\ MaxCalls \in Nat

VARIABLES
    m_isStop,
    m_socks,     \* the listening sockets of the server
    listening,   \* kernel: the listening sockets that are open
    acceptor,    \* the accept loop of each start() and socket
    starts,      \* how often start() has scheduled loops
    stopTasks,   \* tasks of stop() that are scheduled or under way
    closing,     \* one of them has cancelled the waits and not yet closed the sockets
    single,      \* the accept worker has one thread
    aborted,     \* the assertion of addEvent() has failed
    restarted,   \* ghost: start() came before the last stop() was over
    calls        \* the number of calls, for their bound

loops == <<acceptor, closing, single, aborted>>
server == <<m_isStop, m_socks, listening, starts, stopTasks, restarted, calls, loops>>

ServerInit ==
    /\ m_isStop = TRUE
    /\ m_socks = {} /\ listening = {}
    /\ acceptor = [n \in 1 .. MaxStarts |-> [l \in Listeners |-> "none"]]
    /\ starts = 0 /\ stopTasks = 0 /\ closing = FALSE
    /\ single \in BOOLEAN
    /\ aborted = FALSE /\ restarted = FALSE /\ calls = 0

Alive(n, l) == acceptor[n][l] \in {"loop", "accept", "wait"}
HasLoop(l) == \E n \in 1 .. MaxStarts : Alive(n, l)
LoopsOver == \A l \in Listeners : ~HasLoop(l)

Call == calls < MaxCalls /\ calls' = calls + 1

\* bind(): the sockets are added to those the server has.
Bind(new) ==
    /\ Call
    /\ new # {} /\ \A l \in new : l \notin listening /\ ~HasLoop(l)
    /\ m_socks' = m_socks \cup new
    /\ listening' = listening \cup new
    /\ UNCHANGED <<m_isStop, starts, stopTasks, restarted, loops>>

\* If an address fails, or "fails" still holds one of an earlier call, the
\* server drops all its sockets, also those it had: ~Socket() closes the ones
\* that no loop has.
BindFails ==
    /\ Call
    /\ m_socks' = {}
    /\ listening' = {l \in listening : HasLoop(l)}
    /\ UNCHANGED <<m_isStop, starts, stopTasks, restarted, loops>>

start ==
    /\ Call /\ m_isStop /\ starts < MaxStarts
    /\ m_isStop' = FALSE
    /\ starts' = starts + 1
    /\ acceptor' = [acceptor EXCEPT ![starts + 1] = [l \in Listeners |-> IF l \in m_socks THEN "loop" ELSE "none"]]
    /\ restarted' = (restarted \/ stopTasks > 0 \/ ~LoopsOver)
    /\ UNCHANGED <<m_socks, listening, stopTasks, closing, single, aborted>>

\* Mutant: stop() closes the sockets but does not tell the loops.
StopSilently == UNCHANGED m_isStop
RaiseStop == m_isStop' = TRUE

stop ==
    /\ Call
    /\ RaiseStop
    /\ stopTasks' = stopTasks + 1
    /\ UNCHANGED <<m_socks, listening, starts, restarted, loops>>

\* The task of stop(): cancelAll(), and again in close(), wakes the loops that
\* wait, which try accept() again.
\* Mutant: the waits are not cancelled.
WakeNobody == UNCHANGED acceptor
WakeAcceptors ==
    acceptor' = [n \in 1 .. MaxStarts |-> [l \in Listeners |->
        IF l \in m_socks /\ acceptor[n][l] = "wait" THEN "accept" ELSE acceptor[n][l]]]

StopCancel ==
    /\ stopTasks > 0 /\ ~closing
    /\ WakeAcceptors
    /\ closing' = TRUE
    /\ UNCHANGED <<m_isStop, m_socks, listening, starts, stopTasks, single, aborted, restarted, calls>>

StopClose ==
    /\ closing
    /\ listening' = listening \ m_socks
    /\ m_socks' = {}
    /\ closing' = FALSE
    /\ stopTasks' = stopTasks - 1
    /\ UNCHANGED <<m_isStop, acceptor, starts, single, aborted, restarted, calls>>

-----------------------------------------------------------------------------
(***************************************************************************)
(* startAccept().  On a worker with one thread no loop runs while the task  *)
(* of stop() does.                                                          *)
(***************************************************************************)
Dispatch == single => ~closing

AcceptorGoes(n, l, from, to) ==
    /\ Dispatch
    /\ acceptor[n][l] = from
    /\ acceptor' = [acceptor EXCEPT ![n][l] = to]
    /\ UNCHANGED <<m_isStop, m_socks, starts, stopTasks, closing, single, restarted, calls>>

\* while (!m_isStop)
AcceptLoop(n, l) ==
    ~m_isStop /\ AcceptorGoes(n, l, "loop", "accept") /\ UNCHANGED <<listening, aborted>>
\* The loop ends; ~Socket() closes a socket that nobody has any more.
AcceptEnds(n, l) ==
    /\ m_isStop
    /\ AcceptorGoes(n, l, "loop", "done")
    /\ listening' = {k \in listening : k \in m_socks \/ HasLoop(k)'}
    /\ UNCHANGED aborted

\* accept() returns a client, or fails at once on a closed socket.
AcceptClient(n, l) == l \in listening /\ AcceptorGoes(n, l, "accept", "loop") /\ UNCHANGED <<listening, aborted>>
AcceptFails(n, l) == l \notin listening /\ AcceptorGoes(n, l, "accept", "loop") /\ UNCHANGED <<listening, aborted>>

\* No client: addEvent(), which asserts that nobody waits on the socket yet.
AcceptWaits(n, l) ==
    /\ l \in listening
    /\ AcceptorGoes(n, l, "accept", "wait")
    /\ aborted' = \E m \in 1 .. MaxStarts : acceptor[m][l] = "wait"
    /\ UNCHANGED listening
\* A client has come.
AcceptWakes(n, l) == l \in listening /\ AcceptorGoes(n, l, "wait", "accept") /\ UNCHANGED <<listening, aborted>>

(***************************************************************************)
(* An accept loop whose socket is closed, and which will not end because    *)
(* the server is not stopping, spins without ever leaving its thread; and   *)
(* two loops that wait on one socket fail the assertion of addEvent().      *)
(* Either takes a start() that came before the stop() was over: before its  *)
(* task had closed the sockets, or before every loop had seen m_isStop.     *)
(***************************************************************************)
SpinsOnlyAfterRestart ==
    ~restarted =>
        /\ ~aborted
        /\ \A n \in 1 .. MaxStarts, l \in Listeners : Alive(n, l) /\ l \notin listening => m_isStop

(***************************************************************************)
(* After stop() every accept loop ends, unless the server is started again. *)
(* It takes an accept worker with one thread: with several a loop that was  *)
(* woken may wait again before its socket is closed, and then sleeps for    *)
(* ever.  And a bind() that fails makes the server forget the sockets of    *)
(* its loops, which stop() then leaves open.                                *)
(***************************************************************************)
Forgotten == \E l \in listening \ m_socks : HasLoop(l)
StopEndsLoops ==
    (single /\ m_isStop) ~> (~m_isStop \/ LoopsOver \/ Forgotten \/ aborted)
=============================================================================
