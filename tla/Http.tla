-------------------------------- MODULE Http --------------------------------
(***************************************************************************)
(* HttpConnectionPool and HttpConnection on the one side, HttpServer and    *)
(* HttpSession on the other, over TCP connections accepted by TcpServer.    *)
(*                                                                          *)
(* A fiber's doRequest() takes a connection from the pool or makes one,     *)
(* sends its request, reads the response and releases the connection, which *)
(* goes back to the pool, or is deleted.  The server reads a request from a *)
(* connection, answers it, and goes on with the next one, or closes.        *)
(*                                                                          *)
(* A message is a head, which says whether a body follows, and the body; it *)
(* carries the number of its request.  A read() returns any prefix of what  *)
(* has arrived, and a message that ends within what was read leaves the     *)
(* rest unread for ever, because the buffer is the call's own.  A chunked   *)
(* body is not modelled.  The peer's close is seen only by a read: the flag *)
(* of Socket::isConnected() is the client's own.                            *)
(***************************************************************************)
EXTENDS TcpServer, Sequences

CONSTANTS
    Users,          \* fibers that call doRequest()
    MaxRequests,    \* bound on the requests of all fibers
    MaxConns,       \* bound on the connections that are made
    m_maxRequest,   \* the pool's bound on the requests of one connection
    None

ASSUME HttpAssumption ==
    /\ MaxRequests \in Nat /\ MaxConns \in Nat /\ m_maxRequest \in Nat
    /\ None \notin Users /\ None \notin Nat

Conns == 1 .. MaxConns

VARIABLES
    m_conns,     \* the pool: connections in order
    conn,        \* per connection, the client's end: [state, connected, m_request]
    up, down,    \* per connection, what is on its way to the server and to the client
    session,     \* per connection, the server's end: "none" | "backlog" | "head" | "body" | "handle" | "closed"
    asked,       \* per connection, the request the session has read
    pc,          \* per fiber
    using,       \* the connection it has, or None
    number,      \* the number of its request: requests are numbered as they start
    reading      \* the response it reads: None, or the number in its head

http == <<m_conns, conn, up, down, session, asked, pc, using, number, reading>>
vars == <<server, http>>

HttpInit ==
    /\ m_conns = <<>>
    /\ conn = [k \in Conns |-> [state |-> "none", connected |-> FALSE, m_request |-> 0]]
    /\ up = [k \in Conns |-> <<>>] /\ down = [k \in Conns |-> <<>>]
    /\ session = [k \in Conns |-> "none"] /\ asked = [k \in Conns |-> None]
    /\ pc = [u \in Users |-> "idle"]
    /\ using = [u \in Users |-> None]
    /\ number = [u \in Users |-> 0]
    /\ reading = [u \in Users |-> None]

Init == ServerInit /\ HttpInit

Message(r) == <<[part |-> "head", of |-> r], [part |-> "body", of |-> r]>>

\* What read() may return of a stream s: any number of pieces for a head, as
\* the buffer is large; readFixSize() reads no more than the body.
Reads(s, head) == {SubSeq(s, 1, n) : n \in {m \in 1 .. Len(s) : m = 1 \/ head}}
After(s, read) == SubSeq(s, Len(read) + 1, Len(s))

-----------------------------------------------------------------------------
(***************************************************************************)
(* HttpConnectionPool                                                       *)
(***************************************************************************)
Last == CHOOSE n \in 0 .. MaxRequests : (\A u \in Users : number[u] <= n) /\ \E u \in Users : number[u] = n

\* doRequest() and the first half of getConnection(): the first connection whose
\* flag says connected; those before it are deleted, outside the mutex, but
\* nobody else can reach them any more.  The test of the age never drops one:
\* m_createTime is 0.
\* Mutant: the connection that is taken stays in the pool.
TakenStays(first) == SubSeq(m_conns, first, Len(m_conns))
PoolAfter(first) == SubSeq(m_conns, first + 1, Len(m_conns))

doRequest(u) ==
    LET good  == {i \in DOMAIN m_conns : conn[m_conns[i]].connected}
        first == IF good = {} THEN Len(m_conns) + 1 ELSE CHOOSE i \in good : \A j \in good : i <= j
    IN  /\ Call
        /\ pc[u] = "idle" /\ Last < MaxRequests
        /\ number' = [number EXCEPT ![u] = Last + 1]
        /\ using' = [using EXCEPT ![u] = IF good = {} THEN None ELSE m_conns[first]]
        /\ m_conns' = PoolAfter(first)
        /\ conn' = [k \in Conns |-> IF \E i \in 1 .. first - 1 : m_conns[i] = k
                                    THEN [conn[k] EXCEPT !.state = "deleted"] ELSE conn[k]]
        /\ pc' = [pc EXCEPT ![u] = IF good = {} THEN "connect" ELSE "send"]
        /\ UNCHANGED <<m_isStop, m_socks, listening, starts, stopTasks, restarted, loops, up, down, session, asked, reading>>

\* connect(): refused when nobody listens, else the kernel takes it.
Connect(u) ==
    /\ pc[u] = "connect"
    /\ \/ /\ listening = {}
          /\ pc' = [pc EXCEPT ![u] = "idle"]
          /\ UNCHANGED <<conn, session, using>>
       \/ /\ listening # {}
          /\ \E k \in Conns :
               /\ conn[k].state = "none" /\ \A j \in 1 .. k - 1 : conn[j].state # "none"
               /\ conn' = [conn EXCEPT ![k] = [state |-> "open", connected |-> TRUE, m_request |-> 0]]
               /\ session' = [session EXCEPT ![k] = "backlog"]
               /\ using' = [using EXCEPT ![u] = k]
          /\ pc' = [pc EXCEPT ![u] = "send"]
    /\ UNCHANGED <<server, m_conns, up, down, asked, number, reading>>

\* sendRequest(): to a peer that has closed it may still succeed, or fail,
\* and then the connection is released with its flag as it was.
Send(u) ==
    LET k == using[u]
    IN  /\ pc[u] = "send"
        /\ \/ /\ up' = [up EXCEPT ![k] = IF session[k] = "closed" THEN @ ELSE @ \o Message(number[u])]
              /\ pc' = [pc EXCEPT ![u] = "recv"]
           \/ /\ session[k] = "closed"
              /\ pc' = [pc EXCEPT ![u] = "release"]
              /\ UNCHANGED up
        /\ reading' = [reading EXCEPT ![u] = None]
        /\ UNCHANGED <<server, m_conns, conn, down, session, asked, using, number>>

\* recvResponse(): the head, and then the body of the length it gives.
Receive(u) ==
    LET k == using[u]
    IN  /\ pc[u] = "recv"
        /\ \E read \in Reads(down[k], reading[u] = None) :
             LET head == IF reading[u] = None THEN read[1].of ELSE reading[u]
                 done == Len(read) >= 2 \/ reading[u] # None
             IN  /\ down' = [down EXCEPT ![k] = After(@, read)]
                 /\ reading' = [reading EXCEPT ![u] = head]
                 /\ pc' = IF done THEN [pc EXCEPT ![u] = "release"] ELSE pc
        /\ UNCHANGED <<server, m_conns, conn, up, session, asked, using, number>>

\* Mutant: recvResponse() returns without close().
LeaveOpen(k) == UNCHANGED conn
CloseConnection(k) == conn' = [conn EXCEPT ![k].connected = FALSE]

\* A read() that fails: the timeout, or the end of the stream.
ReceiveFails(u) ==
    LET k == using[u]
    IN  /\ pc[u] = "recv"
        /\ CloseConnection(k)
        /\ pc' = [pc EXCEPT ![u] = "release"]
        /\ UNCHANGED <<server, m_conns, up, down, session, asked, using, number, reading>>

\* ReleasePtr()
Worn(k) == ~conn[k].connected \/ conn[k].m_request + 1 >= m_maxRequest

ReleasePtr(u) ==
    LET k == using[u]
    IN  /\ pc[u] = "release"
        /\ IF Worn(k)
           THEN /\ conn' = [conn EXCEPT ![k] = [state |-> "deleted", connected |-> FALSE, m_request |-> @.m_request + 1]]
                /\ UNCHANGED m_conns
           ELSE /\ conn' = [conn EXCEPT ![k].m_request = @ + 1]
                /\ m_conns' = Append(m_conns, k)
        /\ using' = [using EXCEPT ![u] = None]
        /\ reading' = [reading EXCEPT ![u] = None]
        /\ pc' = [pc EXCEPT ![u] = "idle"]
        /\ UNCHANGED <<server, up, down, session, asked, number>>

-----------------------------------------------------------------------------
(***************************************************************************)
(* The server's end: accept, then HttpServer::handleClient().               *)
(***************************************************************************)
Backlog == {k \in Conns : session[k] = "backlog"}

Accept(n, l) ==
    /\ AcceptClient(n, l)
    /\ \E k \in Backlog : session' = [session EXCEPT ![k] = "head"]
    /\ UNCHANGED <<m_conns, conn, up, down, asked, pc, using, number, reading>>

\* Closing a listening socket resets the connections nobody has accepted.
CloseListeners ==
    /\ StopClose \/ BindFails \/ \E n \in 1 .. MaxStarts, l \in Listeners : AcceptEnds(n, l)
    /\ session' = [k \in Conns |-> IF k \in Backlog /\ listening' = {} THEN "closed" ELSE session[k]]
    /\ UNCHANGED <<m_conns, conn, up, down, asked, pc, using, number, reading>>

\* recvRequest()
recvRequest(k) ==
    /\ session[k] \in {"head", "body"}
    /\ \E read \in Reads(up[k], session[k] = "head") :
         LET head == IF session[k] = "head" THEN read[1].of ELSE asked[k]
             done == Len(read) >= 2 \/ session[k] = "body"
         IN  /\ up' = [up EXCEPT ![k] = After(@, read)]
             /\ asked' = [asked EXCEPT ![k] = head]
             /\ session' = [session EXCEPT ![k] = IF done THEN "handle" ELSE "body"]
    /\ UNCHANGED <<server, m_conns, conn, down, pc, using, number, reading>>

\* A read() that fails: the client has closed and all it sent was read, or
\* the timeout of the server's read.
recvRequestFails(k) ==
    /\ session[k] \in {"head", "body"}
    /\ up[k] = <<>>
    /\ session' = [session EXCEPT ![k] = "closed"]
    /\ UNCHANGED <<server, m_conns, conn, up, down, asked, pc, using, number, reading>>

\* The servlet, sendResponse(), and the next request, unless the server is not
\* m_isKeepalive or the request says close.
Handle(k) ==
    /\ session[k] = "handle"
    /\ down' = [down EXCEPT ![k] = IF conn[k].connected THEN @ \o Message(asked[k]) ELSE @]
    /\ asked' = [asked EXCEPT ![k] = None]
    /\ \E keepalive \in BOOLEAN :
         session' = [session EXCEPT ![k] = IF keepalive THEN "head" ELSE "closed"]
    /\ UNCHANGED <<server, m_conns, conn, up, pc, using, number, reading>>

AcceptorStep(n, l) ==
    \/ AcceptLoop(n, l) \/ AcceptFails(n, l)
    \/ Backlog = {} /\ AcceptWaits(n, l)
    \/ Backlog # {} /\ AcceptWakes(n, l)
ServerStep ==
    \/ \E new \in SUBSET Listeners : Bind(new)
    \/ start
    \/ stop
    \/ StopCancel
    \/ \E n \in 1 .. MaxStarts, l \in Listeners : AcceptorStep(n, l)

UserStep(u) ==
    Connect(u) \/ Send(u) \/ Receive(u) \/ ReceiveFails(u) \/ ReleasePtr(u)
SessionStep(k) == recvRequest(k) \/ recvRequestFails(k) \/ Handle(k)

Next ==
    /\ ~aborted
    /\ \/ ServerStep /\ UNCHANGED http
       \/ CloseListeners
       \/ \E n \in 1 .. MaxStarts, l \in Listeners : Accept(n, l)
       \/ \E u \in Users : doRequest(u) \/ UserStep(u)
       \/ \E k \in Conns : SessionStep(k)

Spec == Init /\ [][Next]_vars

\* The task of stop() and the loops are in the queue of their scheduler and run.
FairSpec ==
    /\ Spec
    /\ WF_vars(~aborted /\ StopCancel /\ UNCHANGED http)
    /\ WF_vars(~aborted /\ StopClose /\ CloseListeners)
    /\ \A n \in 1 .. MaxStarts, l \in Listeners :
         /\ WF_vars(~aborted /\ AcceptFails(n, l) /\ UNCHANGED http)
         /\ WF_vars(~aborted /\ AcceptEnds(n, l) /\ CloseListeners)

-----------------------------------------------------------------------------
(***************************************************************************)
(* A doRequest() that returns a response returns the one to its own         *)
(* request, also when the connection was used before by a request that      *)
(* timed out and whose response came late.                                  *)
(***************************************************************************)
OwnResponse ==
    \A u \in Users : pc[u] = "release" /\ reading[u] # None /\ conn[using[u]].connected => reading[u] = number[u]

(***************************************************************************)
(* A connection belongs to the pool, once, or to one fiber, and what they   *)
(* have is not deleted: no two requests share a connection, and nothing is  *)
(* freed twice or used after it was freed.                                  *)
(***************************************************************************)
Owners(k) ==
    Cardinality({i \in DOMAIN m_conns : m_conns[i] = k})
      + Cardinality({u \in Users : using[u] = k})
OneOwner ==
    \A k \in Conns : Owners(k) = IF conn[k].state = "open" THEN 1 ELSE 0
=============================================================================
