----------------------------- MODULE HttpProofs -----------------------------
(***************************************************************************)
(* Proofs about Http and TcpServer, for any number of fibers, connections,  *)
(* requests and listening sockets.                                          *)
(***************************************************************************)
EXTENDS Http, FiniteSetTheorems, SequenceTheorems, WellFoundedInduction, TLAPS

-----------------------------------------------------------------------------
(* The accept loops.                                                        *)

Loops == {"none", "loop", "accept", "wait", "done"}

\* The types of TcpServer; a socket of the server is open; the sockets are closed
\* by a task of stop().
ServerOK ==
    /\ m_isStop \in BOOLEAN /\ restarted \in BOOLEAN
    /\ m_socks \subseteq listening /\ listening \subseteq Listeners
    /\ acceptor \in [1 .. MaxStarts -> [Listeners -> Loops]]
    /\ starts \in 0 .. MaxStarts /\ stopTasks \in Nat
    /\ closing => stopTasks # 0

\* Without a hasty start() a running server has no stop() under way,
NoStopUnderWay == ~restarted /\ ~m_isStop => stopTasks = 0

\* and the loops of one start() are over when those of the next begin.
LastLoops == ~restarted => \A n \in 1 .. MaxStarts, l \in Listeners : Alive(n, l) => n = starts

AInv == ServerOK /\ NoStopUnderWay /\ LastLoops /\ SpinsOnlyAfterRestart

\* A loop that moves on stays alive or ends, and the others stay where they are.
LEMMA LoopMoves ==
  ASSUME AInv, NEW n \in 1 .. MaxStarts, NEW l \in Listeners, NEW v \in Loops,
         Alive(n, l), acceptor' = [acceptor EXCEPT ![n][l] = v],
         UNCHANGED <<m_isStop, m_socks, starts, stopTasks, closing, restarted>>,
         ~restarted => ~aborted',
         m_socks \subseteq listening', listening' \subseteq listening,
         m_isStop \/ listening' = listening
  PROVE  AInv'
  <1>1. acceptor' \in [1 .. MaxStarts -> [Listeners -> Loops]]
    BY DEF AInv, ServerOK
  <1>2. \A m \in 1 .. MaxStarts, k \in Listeners : Alive(m, k)' => Alive(m, k)
    BY DEF AInv, ServerOK, Alive
  <1> QED BY <1>1, <1>2 DEF AInv, ServerOK, NoStopUnderWay, LastLoops, SpinsOnlyAfterRestart

LEMMA StartLoops ==
  ASSUME AInv, start
  PROVE  AInv'
  <1>1. starts + 1 \in 1 .. MaxStarts
    BY ServerAssumption DEF start, AInv, ServerOK
  <1>2. acceptor' \in [1 .. MaxStarts -> [Listeners -> Loops]]
    BY <1>1 DEF start, AInv, ServerOK, Loops
  <1>b. restarted' \in BOOLEAN /\ (~restarted' => ~restarted /\ ~(stopTasks > 0) /\ LoopsOver)
    <2>1. restarted' = (restarted \/ stopTasks > 0 \/ ~LoopsOver)
      BY DEF start
    <2> QED BY <2>1, Zenon
  <1>3. ServerOK'
    <2>1. starts' \in 0 .. MaxStarts
      BY <1>1 DEF start, AInv, ServerOK
    <2> QED BY <1>b, <1>2, <2>1 DEF start, AInv, ServerOK
  <1>4. ~restarted' => ~restarted /\ stopTasks = 0 /\ LoopsOver
    BY <1>b DEF AInv, ServerOK
  <1>5. ASSUME ~restarted', NEW n \in 1 .. MaxStarts, NEW l \in Listeners, Alive(n, l)'
        PROVE  l \in listening' /\ n = starts'
    <2>1. n = starts + 1 /\ acceptor'[n][l] = IF l \in m_socks THEN "loop" ELSE "none"
      <3>1. n # starts + 1 => acceptor'[n] = acceptor[n]
        BY <1>1 DEF start, AInv, ServerOK
      <3>2. n = starts + 1
        BY <1>4, <1>5, <3>1 DEF LoopsOver, HasLoop, Alive
      <3> QED BY <1>1, <3>2 DEF start, AInv, ServerOK
    <2> QED BY <1>5, <2>1 DEF start, AInv, ServerOK, Alive
  <1>6. ~restarted' => ~aborted'
    BY <1>4 DEF start, AInv, SpinsOnlyAfterRestart
  <1> QED BY <1>3, <1>4, <1>5, <1>6 DEF AInv, NoStopUnderWay, LastLoops, SpinsOnlyAfterRestart, start

\* Without a hasty start() nobody but this loop waits on its socket.
LEMMA Waits ==
  ASSUME AInv, NEW n \in 1 .. MaxStarts, NEW l \in Listeners, AcceptWaits(n, l)
  PROVE  AInv'
  <1>1. Alive(n, l) /\ acceptor[n][l] = "accept"
    BY DEF AcceptWaits, AcceptorGoes, Alive
  <1>2. ~restarted => ~aborted'
    <2>1. ~restarted => \A m \in 1 .. MaxStarts : acceptor[m][l] # "wait"
      BY <1>1 DEF AInv, LastLoops, Alive
    <2>2. aborted' = \E m \in 1 .. MaxStarts : acceptor[m][l] = "wait"
      BY DEF AcceptWaits
    <2> QED BY <2>1, <2>2, Zenon
  <1>3. UNCHANGED <<m_isStop, m_socks, starts, stopTasks, closing, restarted, listening>>
    BY DEF AcceptWaits, AcceptorGoes
  <1>4. acceptor' = [acceptor EXCEPT ![n][l] = "wait"]
    BY DEF AcceptWaits, AcceptorGoes
  <1>5. "wait" \in Loops /\ m_socks \subseteq listening
    BY DEF Loops, AInv, ServerOK
  <1> QED BY <1>1, <1>2, <1>3, <1>4, <1>5, LoopMoves

\* The socket that a loop leaves may be closed; the server is stopping.
LEMMA Ends ==
  ASSUME AInv, NEW n \in 1 .. MaxStarts, NEW l \in Listeners, AcceptEnds(n, l)
  PROVE  AInv'
  <1>1. Alive(n, l) /\ acceptor' = [acceptor EXCEPT ![n][l] = "done"] /\ "done" \in Loops
    BY DEF AcceptEnds, AcceptorGoes, Alive, Loops
  <1>2. m_isStop /\ UNCHANGED <<m_isStop, m_socks, starts, stopTasks, closing, restarted, aborted>>
    BY DEF AcceptEnds, AcceptorGoes
  <1>3. m_socks \subseteq listening' /\ listening' \subseteq listening
    BY DEF AcceptEnds, AInv, ServerOK
  <1>4. ~restarted => ~aborted'
    BY <1>2 DEF AInv, SpinsOnlyAfterRestart
  <1> QED BY <1>1, <1>2, <1>3, <1>4, LoopMoves

LEMMA Accepts ==
  ASSUME AInv, NEW n \in 1 .. MaxStarts, NEW l \in Listeners,
         AcceptLoop(n, l) \/ AcceptClient(n, l) \/ AcceptFails(n, l) \/ AcceptWakes(n, l)
  PROVE  AInv'
  <1>1. PICK v \in {"loop", "accept"} : acceptor' = [acceptor EXCEPT ![n][l] = v]
    BY DEF AcceptLoop, AcceptClient, AcceptFails, AcceptWakes, AcceptorGoes
  <1>2. Alive(n, l) /\ v \in Loops
    BY DEF AcceptLoop, AcceptClient, AcceptFails, AcceptWakes, AcceptorGoes, Alive, Loops
  <1>3. UNCHANGED <<m_isStop, m_socks, starts, stopTasks, closing, restarted, listening, aborted>>
    BY DEF AcceptLoop, AcceptClient, AcceptFails, AcceptWakes, AcceptorGoes
  <1>4. m_socks \subseteq listening /\ (~restarted => ~aborted)
    BY DEF AInv, ServerOK, SpinsOnlyAfterRestart
  <1> QED BY <1>1, <1>2, <1>3, <1>4, LoopMoves

\* The loops stay where they are, and the sockets they need stay open.
LEMMA LoopsStay ==
  ASSUME AInv, UNCHANGED <<acceptor, starts, restarted, aborted>>, ServerOK', NoStopUnderWay',
         \A n \in 1 .. MaxStarts, l \in Listeners :
           Alive(n, l) /\ l \in listening /\ l \notin listening' => restarted \/ m_isStop',
         m_isStop => m_isStop'
  PROVE  AInv'
  BY DEF AInv, LastLoops, SpinsOnlyAfterRestart, Alive

LEMMA Binds ==
  ASSUME AInv, NEW new \in SUBSET Listeners, Bind(new) \/ BindFails
  PROVE  AInv'
  <1>1. UNCHANGED <<m_isStop, acceptor, starts, stopTasks, closing, restarted, aborted>>
    BY DEF Bind, BindFails, loops
  <1>2. ServerOK' /\ NoStopUnderWay'
    BY <1>1 DEF Bind, BindFails, AInv, ServerOK, NoStopUnderWay
  <1>3. \A n \in 1 .. MaxStarts, l \in Listeners : Alive(n, l) /\ l \in listening => l \in listening'
    BY DEF Bind, BindFails, HasLoop
  <1> QED BY <1>1, <1>2, <1>3, LoopsStay

LEMMA Stops ==
  ASSUME AInv, stop \/ StopClose
  PROVE  AInv'
  <1>1. CASE stop
    <2>1. UNCHANGED <<acceptor, starts, restarted, aborted, listening>> /\ m_isStop'
      BY <1>1 DEF stop, RaiseStop, loops
    <2>2. ServerOK' /\ NoStopUnderWay'
      BY <1>1 DEF stop, RaiseStop, loops, AInv, ServerOK, NoStopUnderWay
    <2> QED BY <2>1, <2>2, LoopsStay
  <1>2. CASE StopClose
    <2>1. UNCHANGED <<m_isStop, acceptor, starts, restarted, aborted>> /\ (restarted \/ m_isStop)
      BY <1>2 DEF StopClose, AInv, ServerOK, NoStopUnderWay
    <2>2. ServerOK' /\ NoStopUnderWay'
      BY <1>2 DEF StopClose, AInv, ServerOK, NoStopUnderWay
    <2> QED BY <2>1, <2>2, LoopsStay
  <1> QED BY <1>1, <1>2

\* The waits are cancelled: the loops that wait try again.
LEMMA Cancels ==
  ASSUME AInv, StopCancel
  PROVE  AInv'
  <1>1. acceptor' \in [1 .. MaxStarts -> [Listeners -> Loops]]
    BY DEF StopCancel, WakeAcceptors, AInv, ServerOK, Loops
  <1>2. \A m \in 1 .. MaxStarts, k \in Listeners : Alive(m, k)' => Alive(m, k)
    BY DEF StopCancel, WakeAcceptors, AInv, ServerOK, Alive
  <1>3. ServerOK'
    BY <1>1 DEF StopCancel, AInv, ServerOK
  <1> QED BY <1>2, <1>3 DEF StopCancel, AInv, NoStopUnderWay, LastLoops, SpinsOnlyAfterRestart

LEMMA AInvInit == Init => AInv
  <1> SUFFICES ASSUME Init PROVE AInv OBVIOUS
  <1>1. /\ acceptor = [n \in 1 .. MaxStarts |-> [l \in Listeners |-> "none"]]
        /\ m_isStop = TRUE /\ restarted = FALSE /\ aborted = FALSE /\ closing = FALSE
        /\ m_socks = {} /\ listening = {} /\ starts = 0 /\ stopTasks = 0
    BY DEF Init, ServerInit
  <1>2. LastLoops
    BY <1>1 DEF LastLoops, Alive
  <1>3. acceptor \in [1 .. MaxStarts -> [Listeners -> Loops]] /\ starts \in 0 .. MaxStarts /\ stopTasks \in Nat
    BY <1>1, ServerAssumption DEF Loops
  <1>4. SpinsOnlyAfterRestart /\ NoStopUnderWay
    BY <1>1 DEF NoStopUnderWay, SpinsOnlyAfterRestart
  <1> QED BY <1>1, <1>2, <1>3, <1>4 DEF AInv, ServerOK

LEMMA AInvStep == AInv /\ [Next]_vars => AInv'
  <1> SUFFICES ASSUME AInv, [Next]_vars PROVE AInv' OBVIOUS
  <1>1. CASE UNCHANGED <<m_isStop, m_socks, listening, starts, stopTasks, restarted, loops>>
    BY <1>1 DEF loops, AInv, ServerOK, NoStopUnderWay, LastLoops, SpinsOnlyAfterRestart, Alive
  <1>2. ASSUME NEW u \in Users, doRequest(u) \/ UserStep(u) PROVE AInv'
    BY <1>1, <1>2 DEF doRequest, UserStep, Connect, Send, Receive, ReceiveFails, ReleasePtr, server
  <1>3. ASSUME NEW k \in Conns, SessionStep(k) PROVE AInv'
    BY <1>1, <1>3 DEF SessionStep, recvRequest, recvRequestFails, Handle, server
  <1>4. CASE UNCHANGED vars
    BY <1>1, <1>4 DEF vars, server
  <1>5. CASE ServerStep
    BY <1>5, Binds, StartLoops, Stops, Cancels, Accepts, Waits DEF ServerStep, AcceptorStep
  <1>6. CASE CloseListeners
    BY <1>6, Stops, Binds, Ends DEF CloseListeners
  <1>7. ASSUME NEW n \in 1 .. MaxStarts, NEW l \in Listeners, Accept(n, l) PROVE AInv'
    BY <1>7, Accepts DEF Accept
  <1> QED BY <1>2, <1>3, <1>4, <1>5, <1>6, <1>7 DEF Next

\* Only if start() was called before the last stop() was over does an accept loop
\* spin on a closed socket or wait on the socket of another loop, for any number
\* of sockets and of calls of bind(), start() and stop().
THEOREM SpinsLate == Spec => []SpinsOnlyAfterRestart
  BY AInvInit, AInvStep, PTL DEF Spec, AInv

-----------------------------------------------------------------------------
(* What read() returns of the short streams of one request.                 *)

LEMMA ReadNone ==
  ASSUME NEW h \in BOOLEAN
  PROVE  Reads(<<>>, h) = {}
  BY DEF Reads

LEMMA ReadOne ==
  ASSUME NEW a, NEW h \in BOOLEAN, NEW read \in Reads(<<a>>, h)
  PROVE  read[1] = a /\ Len(read) = 1 /\ After(<<a>>, read) = <<>>
  <1>1. Len(<<a>>) = 1 /\ <<a>>[1] = a
    OBVIOUS
  <1>2. read = SubSeq(<<a>>, 1, 1)
    BY <1>1 DEF Reads
  <1>3. SubSeq(<<a>>, 1, 1) = <<a>>
    BY <1>1, SubSeqFull, <<a>> \in Seq({a})
  <1>4. SubSeq(<<a>>, 2, 1) = <<>>
    BY SubSeqEmpty
  <1> QED BY <1>1, <1>2, <1>3, <1>4 DEF After

LEMMA ReadTwo ==
  ASSUME NEW a, NEW b, NEW s, s = <<a, b>>, NEW read \in Reads(s, TRUE)
  PROVE  /\ read[1] = a
         /\ \/ Len(read) = 1 /\ After(s, read) = <<b>>
            \/ Len(read) = 2 /\ After(s, read) = <<>>
  <1>1. Len(<<a, b>>) = 2
    OBVIOUS
  <1>2. PICK n \in {1, 2} : read = SubSeq(<<a, b>>, 1, n)
    BY <1>1 DEF Reads
  <1>3. SubSeq(<<a, b>>, 1, 1) = <<a>> /\ SubSeq(<<a, b>>, 2, 2) = <<b>>
    <2>1. <<a, b>>[1] = a /\ <<a, b>>[2] = b /\ Len(<<a>>) = 1 /\ Len(<<b>>) = 1 /\ <<a>>[1] = a /\ <<b>>[1] = b
      OBVIOUS
    <2>2. <<a>> \in Seq({a, b}) /\ <<b>> \in Seq({a, b})
      OBVIOUS
    <2>3. /\ SubSeq(<<a, b>>, 1, 1) \in Seq({a, b}) /\ Len(SubSeq(<<a, b>>, 1, 1)) = 1
          /\ SubSeq(<<a, b>>, 1, 1)[1] = a
      BY <2>1, SubSeqProperties, \A i \in 1 .. 1 : <<a, b>>[i] \in {a, b}
    <2>4. /\ SubSeq(<<a, b>>, 2, 2) \in Seq({a, b}) /\ Len(SubSeq(<<a, b>>, 2, 2)) = 1
          /\ SubSeq(<<a, b>>, 2, 2)[1] = b
      BY <2>1, SubSeqProperties, \A i \in 2 .. 2 : <<a, b>>[i] \in {a, b}
    <2>5. \A i \in 1 .. 1 : SubSeq(<<a, b>>, 1, 1)[i] = <<a>>[i] /\ SubSeq(<<a, b>>, 2, 2)[i] = <<b>>[i]
      BY <2>1, <2>3, <2>4
    <2> QED BY <2>1, <2>2, <2>3, <2>4, <2>5, SeqEqual
  <1>4. SubSeq(<<a, b>>, 1, 2) = <<a, b>> /\ SubSeq(<<a, b>>, 3, 2) = <<>>
    <2>1. <<a, b>> \in Seq({a, b})
      OBVIOUS
    <2>2. SubSeq(<<a, b>>, 1, Len(<<a, b>>)) = <<a, b>>
      BY <2>1, SubSeqFull
    <2>3. SubSeq(<<a, b>>, 3, 2) = <<>>
      BY SubSeqEmpty
    <2> QED BY <1>1, <2>2, <2>3
  <1>5. CASE n = 1
    <2>1. read = <<a>> BY <1>2, <1>3, <1>5
    <2> QED BY <1>1, <1>3, <2>1 DEF After
  <1>6. CASE n = 2
    <2>1. read = <<a, b>> BY <1>2, <1>4, <1>6
    <2> QED BY <1>1, <1>4, <2>1 DEF After
  <1> QED BY <1>5, <1>6

LEMMA ReadMessage ==
  ASSUME NEW r, NEW read \in Reads(Message(r), TRUE)
  PROVE  /\ read[1].of = r
         /\ \/ Len(read) = 1 /\ After(Message(r), read) = <<[part |-> "body", of |-> r]>>
            \/ Len(read) = 2 /\ After(Message(r), read) = <<>>
  <1> DEFINE h == [part |-> "head", of |-> r]
             b == [part |-> "body", of |-> r]
  <1>1. Message(r) = <<h, b>> /\ h.of = r
    BY DEF Message
  <1> HIDE DEF h, b
  <1>2. read \in Reads(<<h, b>>, TRUE)
    BY <1>1
  <1>3. /\ read[1] = h
        /\ \/ Len(read) = 1 /\ After(<<h, b>>, read) = <<b>>
           \/ Len(read) = 2 /\ After(<<h, b>>, read) = <<>>
    BY <1>2, ReadTwo, Zenon
  <1> QED BY <1>1, <1>3 DEF b

\* The requests made so far have a last one.
LEMMA LastExists ==
  ASSUME number \in [Users -> 0 .. MaxRequests], Users # {}
  PROVE  Last \in 0 .. MaxRequests
  <1> DEFINE R == OpToRel(<, Nat)
             T == {MaxRequests - number[u] : u \in Users}
  <1>1. T \subseteq Nat /\ T # {}
    BY HttpAssumption
  <1>2. IsWellFoundedOn(R, Nat)
    BY NatLessThanWellFounded
  <1>3. PICK x \in T : \A y \in T : ~(<<y, x>> \in R)
    <2> HIDE DEF R, T
    <2> QED BY <1>1, <1>2, WFMin
  <1>4. \A y \in T : ~(y < x)
    BY <1>1, <1>3 DEF OpToRel
  <1>5. PICK u \in Users : x = MaxRequests - number[u]
    OBVIOUS
  <1>6. \A v \in Users : number[v] <= number[u]
    <2> TAKE v \in Users
    <2>1. ~(MaxRequests - number[v] < MaxRequests - number[u])
      BY <1>4, <1>5
    <2> QED BY <2>1, HttpAssumption
  <1>7. number[u] \in 0 .. MaxRequests
    OBVIOUS
  <1> QED BY <1>6, <1>7 DEF Last

-----------------------------------------------------------------------------
(* The connections of the client, and what is on its way on them.           *)

Holding == {"send", "recv", "release"}

HttpTypes ==
    /\ m_conns \in Seq(Conns)
    /\ conn \in [Conns -> [state : {"none", "open", "deleted"}, connected : BOOLEAN, m_request : Nat]]
    /\ up = [k \in Conns |-> up[k]] /\ down = [k \in Conns |-> down[k]]
    /\ session \in [Conns -> {"none", "backlog", "head", "body", "handle", "closed"}]
    /\ asked = [k \in Conns |-> asked[k]]
    /\ pc \in [Users -> {"idle", "connect"} \cup Holding]
    /\ using \in [Users -> Conns \cup {None}]
    /\ number \in [Users -> 0 .. MaxRequests]
    /\ reading = [u \in Users |-> reading[u]]

Pooled(k) == \E i \in 1 .. Len(m_conns) : m_conns[i] = k
Used(k) == \E u \in Users : using[u] = k

\* A connection is once in the pool or with one fiber, which is in the middle of
\* doRequest(); it is open exactly then.
Ownership ==
    /\ \A i, j \in 1 .. Len(m_conns) : m_conns[i] = m_conns[j] => i = j
    /\ \A u, v \in Users : using[u] = using[v] /\ using[u] # None => u = v
    /\ \A i \in 1 .. Len(m_conns), u \in Users : m_conns[i] # using[u]
    /\ \A u \in Users : using[u] # None <=> pc[u] \in Holding
    /\ \A k \in Conns : conn[k].state = "open" <=> Pooled(k) \/ Used(k)

Quiet(k) == up[k] = <<>> /\ down[k] = <<>>
Body(r) == [part |-> "body", of |-> r]

\* Nothing of an earlier request is left on a connection that can be used again.
Clean(k) == conn[k].connected /\ Quiet(k) /\ session[k] \in {"head", "closed"}

\* Where request r is while its fiber waits for the response, and the fiber has
\* read nothing or, rd = r, the head of the response.
Exchange(k, r, rd) ==
    \/ /\ rd = None /\ down[k] = <<>>
       /\ \/ up[k] = Message(r) /\ session[k] \in {"backlog", "head", "closed"}
          \/ up[k] = <<Body(r)>> /\ session[k] = "body" /\ asked[k] = r
          \/ up[k] = <<>> /\ session[k] = "handle" /\ asked[k] = r
          \/ up[k] = <<>> /\ session[k] = "closed"
    \/ rd = None /\ up[k] = <<>> /\ down[k] = Message(r) /\ session[k] \in {"head", "closed"}
    \/ rd = r /\ up[k] = <<>> /\ down[k] = <<Body(r)>> /\ session[k] \in {"head", "closed"}

Request(u) ==
    /\ pc[u] = "send" => /\ conn[using[u]].connected /\ Quiet(using[u])
                         /\ session[using[u]] \in {"backlog", "head", "closed"}
    /\ pc[u] = "recv" => conn[using[u]].connected /\ Exchange(using[u], number[u], reading[u])
    /\ pc[u] = "release" /\ conn[using[u]].connected => Clean(using[u]) /\ reading[u] \in {None, number[u]}

Unmade(k) == conn[k].state = "none" => Quiet(k) /\ session[k] = "none"

Streams ==
    /\ \A i \in 1 .. Len(m_conns) : Clean(m_conns[i])
    /\ \A u \in Users : Request(u)
    /\ \A k \in Conns : Unmade(k)

HInv == HttpTypes /\ Ownership /\ Streams

LEMMA HInvInit == Init => HInv
  <1> SUFFICES ASSUME Init PROVE HInv OBVIOUS
  <1> USE DEF Init, HttpInit
  <1>1. HttpTypes
    <2>1. m_conns \in Seq(Conns)
      OBVIOUS
    <2>2. conn \in [Conns -> [state : {"none", "open", "deleted"}, connected : BOOLEAN, m_request : Nat]]
      OBVIOUS
    <2>3. number \in [Users -> 0 .. MaxRequests]
      BY HttpAssumption
    <2> QED BY <2>1, <2>2, <2>3 DEF HttpTypes
  <1>2. Len(m_conns) = 0
    OBVIOUS
  <1>3. None \notin Conns
    BY HttpAssumption DEF Conns
  <1>4. Ownership
    BY <1>2, <1>3 DEF Ownership, Pooled, Used, Holding
  <1>5. Streams
    BY <1>2 DEF Streams, Request, Unmade, Quiet
  <1> QED BY <1>1, <1>4, <1>5 DEF HInv

\* A step of a session on connection k disturbs only k and the fiber that has it.
LEMMA SessionMoves ==
  ASSUME HInv, NEW k \in Conns, HttpTypes',
         UNCHANGED <<m_conns, conn, pc, using, number, reading>>,
         \A j \in Conns \ {k} : up'[j] = up[j] /\ down'[j] = down[j] /\ session'[j] = session[j] /\ asked'[j] = asked[j],
         Clean(k) => Clean(k)',
         \A u \in Users : using[u] = k => Request(u)',
         Unmade(k)'
  PROVE  HInv'
  <1>1. Ownership'
    BY DEF HInv, Ownership, Pooled, Used
  <1>2. \A j \in Conns : Clean(j) => Clean(j)'
    BY DEF Clean, Quiet
  <1>3. \A i \in 1 .. Len(m_conns) : m_conns[i] \in Conns
    BY DEF HInv, HttpTypes
  <1>4. ASSUME NEW u \in Users PROVE Request(u)'
    <2>1. CASE using[u] \in Conns \ {k}
      BY <2>1 DEF HInv, Streams, Request, Clean, Quiet, Exchange
    <2>2. CASE using[u] = None
      BY <2>2 DEF HInv, Ownership, Request, Holding
    <2> QED BY <2>1, <2>2 DEF HInv, HttpTypes
  <1>5. ASSUME NEW j \in Conns PROVE Unmade(j)'
    BY DEF HInv, Streams, Unmade, Quiet
  <1>6. Streams'
    BY <1>2, <1>3, <1>4, <1>5 DEF HInv, Streams
  <1> QED BY <1>1, <1>6 DEF HInv

\* A connection that is clean or not yet made has no session at work.
LEMMA AtWork ==
  ASSUME HInv, NEW k \in Conns, session[k] \in {"body", "handle"}
  PROVE  ~Clean(k) /\ conn[k].state # "none"
  BY DEF HInv, Streams, Clean, Unmade

\* What the session on connection k of fiber u has before it.
LEMMA Served ==
  ASSUME HInv, NEW k \in Conns, NEW u \in Users, using[u] = k, conn[k].connected
  PROVE  /\ session[k] \in {"body", "handle"} => pc[u] = "recv" /\ reading[u] = None /\ down[k] = <<>> /\ asked[k] = number[u]
         /\ session[k] = "body" => up[k] = <<Body(number[u])>>
         /\ session[k] = "handle" => up[k] = <<>>
         /\ session[k] = "head" /\ up[k] # <<>> =>
              pc[u] = "recv" /\ reading[u] = None /\ down[k] = <<>> /\ up[k] = Message(number[u])
  <1>1. k # None
    BY HttpAssumption DEF Conns
  <1>2. pc[u] \in Holding
    BY <1>1 DEF HInv, Ownership
  <1> QED BY <1>2 DEF HInv, Streams, Request, Exchange, Clean, Quiet, Holding

LEMMA Handles ==
  ASSUME HInv, NEW k \in Conns, Handle(k)
  PROVE  HInv'
  <1>1. HttpTypes'
    BY DEF HInv, HttpTypes, Handle
  <1>2. session'[k] \in {"head", "closed"}
    BY DEF Handle, HInv, HttpTypes
  <1>3. ASSUME NEW u \in Users, using[u] = k PROVE Request(u)'
    <2>1. CASE conn[k].connected
      <3>1. pc[u] = "recv" /\ reading[u] = None /\ down[k] = <<>> /\ asked[k] = number[u] /\ up[k] = <<>>
        BY <1>3, <2>1, Served DEF Handle
      <3>2. <<>> \o Message(number[u]) = Message(number[u])
        BY DEF Message
      <3>3. down'[k] = Message(number[u])
        BY <2>1, <3>1, <3>2 DEF Handle, HInv, HttpTypes
      <3> QED BY <1>2, <1>3, <2>1, <3>1, <3>3 DEF Handle, Request, Exchange
    <2>2. CASE ~conn[k].connected
      BY <1>3, <2>2 DEF Handle, HInv, Streams, Request
    <2> QED BY <2>1, <2>2
  <1>4. ~Clean(k) /\ Unmade(k)'
    BY AtWork DEF Handle, Unmade
  <1>5. \A j \in Conns \ {k} : up'[j] = up[j] /\ down'[j] = down[j] /\ session'[j] = session[j] /\ asked'[j] = asked[j]
    BY DEF Handle, HInv, HttpTypes
  <1> QED BY <1>1, <1>3, <1>4, <1>5, SessionMoves DEF Handle

LEMMA ReadsRequest ==
  ASSUME HInv, NEW k \in Conns, recvRequest(k)
  PROVE  HInv'
  <1>1. HttpTypes'
    BY DEF HInv, HttpTypes, recvRequest
  <1>2. up[k] # <<>>
    BY ReadNone DEF recvRequest
  <1>3. ~Clean(k) /\ conn[k].state # "none"
    BY <1>2 DEF HInv, Streams, Clean, Unmade, Quiet
  <1>4. PICK read \in Reads(up[k], session[k] = "head") :
          /\ up' = [up EXCEPT ![k] = After(@, read)]
          /\ asked' = [asked EXCEPT ![k] = IF session[k] = "head" THEN read[1].of ELSE asked[k]]
          /\ session' = [session EXCEPT ![k] = IF Len(read) >= 2 \/ session[k] = "body" THEN "handle" ELSE "body"]
    BY DEF recvRequest
  <1>5. /\ up'[k] = After(up[k], read)
        /\ asked'[k] = IF session[k] = "head" THEN read[1].of ELSE asked[k]
        /\ session'[k] = IF Len(read) >= 2 \/ session[k] = "body" THEN "handle" ELSE "body"
    BY <1>4 DEF HInv, HttpTypes
  <1>6. ASSUME NEW u \in Users, using[u] = k PROVE Request(u)'
    <2>1. CASE conn[k].connected /\ session[k] = "body"
      <3>1. pc[u] = "recv" /\ reading[u] = None /\ down[k] = <<>> /\ asked[k] = number[u] /\ up[k] = <<Body(number[u])>>
        BY <1>6, <2>1, Served
      <3>2. After(up[k], read) = <<>>
        <4> DEFINE b == Body(number[u])
        <4>1. read \in Reads(<<b>>, FALSE) /\ up[k] = <<b>>
          BY <2>1, <3>1
        <4> HIDE DEF b
        <4> QED BY <4>1, ReadOne
      <3> QED BY <1>5, <1>6, <2>1, <3>1, <3>2 DEF recvRequest, Request, Exchange
    <2>2. CASE conn[k].connected /\ session[k] = "head"
      <3>1. pc[u] = "recv" /\ reading[u] = None /\ down[k] = <<>> /\ up[k] = Message(number[u])
        BY <1>2, <1>6, <2>2, Served
      <3>2. read \in Reads(Message(number[u]), TRUE)
        BY <2>2, <3>1
      <3>3. up[k] = Message(number[u]) /\ Body(number[u]) = [part |-> "body", of |-> number[u]]
        BY <3>1 DEF Body
      <3>4. /\ read[1].of = number[u]
            /\ \/ Len(read) = 1 /\ After(up[k], read) = <<Body(number[u])>>
               \/ Len(read) = 2 /\ After(up[k], read) = <<>>
        BY <3>2, <3>3, ReadMessage
      <3>5. asked'[k] = number[u]
        BY <1>5, <2>2, <3>4
      <3>6. \/ session'[k] = "body" /\ up'[k] = <<Body(number[u])>>
            \/ session'[k] = "handle" /\ up'[k] = <<>>
        <4>1. CASE Len(read) = 1 /\ After(up[k], read) = <<Body(number[u])>>
          <5>1. ~(Len(read) >= 2 \/ session[k] = "body")
            BY <2>2, <4>1
          <5> QED BY <1>5, <4>1, <5>1, Zenon
        <4>2. CASE Len(read) = 2 /\ After(up[k], read) = <<>>
          <5>1. Len(read) >= 2
            BY <4>2
          <5> QED BY <1>5, <4>2, <5>1, Zenon
        <4> QED BY <3>4, <4>1, <4>2
      <3>7. Exchange(k, number[u], None)'
        <4>1. down' = down /\ number' = number
          BY DEF recvRequest
        <4> QED BY <3>1, <3>5, <3>6, <4>1 DEF Exchange, Body
      <3>8. UNCHANGED <<conn, pc, using, number, reading>>
        BY DEF recvRequest
      <3> QED BY <1>6, <2>2, <3>1, <3>7, <3>8 DEF Request, Exchange
    <2>3. CASE ~conn[k].connected
      BY <1>6, <2>3 DEF recvRequest, HInv, Streams, Request
    <2> QED BY <2>1, <2>2, <2>3 DEF recvRequest
  <1>7. \A j \in Conns \ {k} : up'[j] = up[j] /\ down'[j] = down[j] /\ session'[j] = session[j] /\ asked'[j] = asked[j]
    BY DEF recvRequest, HInv, HttpTypes
  <1>8. Unmade(k)'
    BY <1>3 DEF recvRequest, Unmade
  <1> QED BY <1>1, <1>3, <1>6, <1>7, <1>8, SessionMoves DEF recvRequest

LEMMA ReadFails ==
  ASSUME HInv, NEW k \in Conns, recvRequestFails(k)
  PROVE  HInv'
  <1>1. HttpTypes'
    BY DEF HInv, HttpTypes, recvRequestFails
  <1>2. session'[k] = "closed" /\ conn[k].state # "none" /\ up[k] = <<>>
    BY DEF HInv, HttpTypes, Streams, Unmade, recvRequestFails
  <1>3. ASSUME NEW u \in Users, using[u] = k PROVE Request(u)'
    <2>1. CASE conn[k].connected
      <3>1. session[k] = "head"
        BY <1>2, <1>3, <2>1, Served DEF recvRequestFails
      <3> QED BY <1>2, <1>3, <2>1, <3>1 DEF recvRequestFails, HInv, Streams, Request, Exchange, Clean, Quiet, Message
    <2>2. CASE ~conn[k].connected
      BY <1>3, <2>2 DEF recvRequestFails, HInv, Streams, Request
    <2> QED BY <2>1, <2>2
  <1>4. Clean(k) => Clean(k)'
    BY <1>2 DEF recvRequestFails, Clean, Quiet
  <1>5. \A j \in Conns \ {k} : up'[j] = up[j] /\ down'[j] = down[j] /\ session'[j] = session[j] /\ asked'[j] = asked[j]
    BY DEF recvRequestFails, HInv, HttpTypes
  <1>6. Unmade(k)'
    BY <1>2 DEF recvRequestFails, Unmade
  <1> QED BY <1>1, <1>3, <1>4, <1>5, <1>6, SessionMoves DEF recvRequestFails

\* Connections that leave the backlog: accepted, or reset.
LEMMA BacklogMoves ==
  ASSUME HInv, UNCHANGED <<m_conns, conn, up, down, asked, pc, using, number, reading>>,
         session' \in [Conns -> {"none", "backlog", "head", "body", "handle", "closed"}],
         \A k \in Conns : \/ session'[k] = session[k]
                          \/ session[k] = "backlog" /\ session'[k] \in {"head", "closed"}
  PROVE  HInv'
  <1>1. HttpTypes'
    BY DEF HInv, HttpTypes
  <1>2. Ownership'
    BY DEF HInv, Ownership, Pooled, Used
  <1>3. \A i \in 1 .. Len(m_conns) : m_conns[i] \in Conns
    BY DEF HInv, HttpTypes
  <1>4. \A k \in Conns : Clean(k) => Clean(k)'
    BY DEF Clean, Quiet
  <1>5. \A k \in Conns : Unmade(k)'
    BY DEF HInv, Streams, Unmade, Quiet
  <1>6. ASSUME NEW u \in Users PROVE Request(u)'
    <2>1. CASE using[u] = None
      BY <2>1 DEF HInv, Ownership, Request, Holding
    <2>2. CASE using[u] \in Conns
      <3>1. Exchange(using[u], number[u], reading[u]) => Exchange(using[u], number[u], reading[u])'
        BY <2>2 DEF Exchange
      <3> QED BY <1>4, <2>2, <3>1 DEF HInv, Streams, Request, Quiet, Clean
    <2> QED BY <2>1, <2>2 DEF HInv, HttpTypes
  <1> QED BY <1>1, <1>2, <1>3, <1>4, <1>5, <1>6 DEF HInv, Streams

\* A step of fiber u disturbs only u and one connection, which nobody else has.
LEMMA UserMoves ==
  ASSUME HInv, NEW u \in Users, NEW k, HttpTypes', Ownership', Request(u)',
         \A v \in Users \ {u} : /\ pc'[v] = pc[v] /\ using'[v] = using[v] /\ using[v] # k
                                /\ number'[v] = number[v] /\ reading'[v] = reading[v],
         \A j \in Conns \ {k} : /\ conn'[j] = conn[j] /\ up'[j] = up[j] /\ down'[j] = down[j]
                                /\ session'[j] = session[j] /\ asked'[j] = asked[j],
         \A j \in Conns : Pooled(j)' => (j # k /\ Pooled(j)) \/ Clean(j)',
         k \in Conns => Unmade(k)'
  PROVE  HInv'
  <1>1. \A j \in Conns \ {k} : (Clean(j) => Clean(j)') /\ (Unmade(j) => Unmade(j)')
    BY DEF Clean, Unmade, Quiet
  <1>2. \A j \in Conns : Pooled(j) => Clean(j)
    BY DEF HInv, Streams, Pooled
  <1>3. ASSUME NEW i \in 1 .. Len(m_conns') PROVE Clean(m_conns[i])'
    <2>1. m_conns'[i] \in Conns
      BY DEF HttpTypes
    <2>2. \A j \in Conns : Pooled(j)' => Clean(j)'
      BY <1>1, <1>2
    <2>3. PICK j \in Conns : j = m_conns'[i]
      BY <2>1
    <2>4. Pooled(j)'
      BY <2>3 DEF Pooled
    <2> QED BY <2>2, <2>3, <2>4 DEF Clean, Quiet
  <1>4. ASSUME NEW v \in Users PROVE Request(v)'
    <2>1. CASE v # u /\ using[v] = None
      BY <2>1 DEF HInv, Ownership, Request, Holding
    <2>2. CASE v # u /\ using[v] \in Conns
      <3>1. Exchange(using[v], number[v], reading[v]) => Exchange(using[v], number[v], reading[v])'
        BY <2>2 DEF Exchange
      <3> QED BY <1>1, <2>2, <3>1 DEF HInv, Streams, Request, Quiet, Clean
    <2> QED BY <2>1, <2>2 DEF HInv, HttpTypes
  <1>5. \A j \in Conns : Unmade(j)'
    BY <1>1 DEF HInv, Streams
  <1> QED BY <1>3, <1>4, <1>5 DEF HInv, Streams

\* The fiber in the middle of a request and its connection.
LEMMA Holds ==
  ASSUME HInv, NEW u \in Users, pc[u] \in Holding
  PROVE  /\ using[u] \in Conns /\ ~Pooled(using[u]) /\ conn[using[u]].state = "open"
         /\ \A v \in Users \ {u} : using[v] # using[u]
  BY DEF HInv, HttpTypes, Ownership, Pooled, Used

\* A step in the middle of a request leaves the connections with their owners.
LEMMA KeepsOwners ==
  ASSUME HInv, NEW u \in Users, pc[u] \in Holding, pc'[u] \in Holding, UNCHANGED <<m_conns, using>>,
         \A v \in Users \ {u} : pc'[v] = pc[v],
         \A k \in Conns : conn'[k].state = conn[k].state
  PROVE  Ownership'
  BY DEF HInv, Ownership, Pooled, Used

LEMMA Sends ==
  ASSUME HInv, NEW u \in Users, Send(u)
  PROVE  HInv'
  <1>1. pc[u] = "send" /\ pc[u] \in Holding
    BY DEF Send, Holding
  <1>k. PICK k \in Conns : k = using[u]
    BY <1>1, Holds
  <1>2. k \in Conns /\ ~Pooled(k) /\ conn[k].state = "open" /\ \A v \in Users \ {u} : using[v] # k
    BY <1>1, <1>k, Holds
  <1>3. pc' = [pc EXCEPT ![u] = "recv"] \/ pc' = [pc EXCEPT ![u] = "release"]
    BY DEF Send
  <1>4. up' = [j \in Conns |-> up'[j]]
    BY DEF Send, HInv, HttpTypes
  <1>5. HttpTypes'
    BY <1>3, <1>4 DEF Send, HInv, HttpTypes, Holding
  <1>6. Ownership'
    BY <1>1, <1>3, KeepsOwners DEF Send, HInv, HttpTypes, Holding
  <1>7. conn[k].connected /\ Quiet(k) /\ session[k] \in {"backlog", "head", "closed"}
    BY <1>1, <1>k DEF HInv, Streams, Request
  <1>8. Request(u)'
    <2>1. reading'[u] = None /\ UNCHANGED <<conn, down, session, asked, using, number>>
      BY DEF Send, HInv, HttpTypes
    <2>2. CASE pc'[u] = "release" /\ session[k] = "closed" /\ up' = up
      BY <1>k, <1>7, <2>1, <2>2 DEF Request, Clean, Quiet
    <2>3. CASE pc'[u] = "recv" /\ up'[k] = IF session[k] = "closed" THEN up[k] ELSE up[k] \o Message(number[u])
      <3>1. <<>> \o Message(number[u]) = Message(number[u])
        BY DEF Message
      <3>2. IF session[k] = "closed" THEN up'[k] = <<>> ELSE up'[k] = Message(number[u])
        BY <1>7, <2>3, <3>1 DEF Quiet
      <3>3. Exchange(using[u], number[u], reading[u])'
        BY <1>k, <1>7, <2>1, <3>2 DEF Exchange, Quiet
      <3> QED BY <1>k, <1>7, <2>1, <2>3, <3>3 DEF Request
    <2>4. \/ pc'[u] = "release" /\ session[k] = "closed" /\ up' = up
          \/ pc'[u] = "recv" /\ up'[k] = IF session[k] = "closed" THEN up[k] ELSE up[k] \o Message(number[u])
      BY <1>k, <1>2 DEF Send, HInv, HttpTypes
    <2> QED BY <2>2, <2>3, <2>4
  <1>9. /\ \A v \in Users \ {u} : pc'[v] = pc[v] /\ reading'[v] = reading[v]
        /\ \A j \in Conns \ {k} : up'[j] = up[j]
    BY <1>k, <1>2, <1>3 DEF Send, HInv, HttpTypes
  <1>10. Unmade(k)' /\ \A j \in Conns : Pooled(j)' => j # k /\ Pooled(j)
    BY <1>2 DEF Send, Unmade, Pooled
  <1> QED BY <1>2, <1>5, <1>6, <1>8, <1>9, <1>10, UserMoves DEF Send

LEMMA Receives ==
  ASSUME HInv, NEW u \in Users, Receive(u)
  PROVE  HInv'
  <1>1. pc[u] = "recv" /\ pc[u] \in Holding
    BY DEF Receive, Holding
  <1>k. PICK k \in Conns : k = using[u]
    BY <1>1, Holds
  <1>2. ~Pooled(k) /\ conn[k].state = "open" /\ \A v \in Users \ {u} : using[v] # k
    BY <1>1, <1>k, Holds
  <1>3. PICK read \in Reads(down[k], reading[u] = None) :
          /\ down' = [down EXCEPT ![k] = After(@, read)]
          /\ reading' = [reading EXCEPT ![u] = IF reading[u] = None THEN read[1].of ELSE reading[u]]
          /\ pc' = IF Len(read) >= 2 \/ reading[u] # None THEN [pc EXCEPT ![u] = "release"] ELSE pc
    BY <1>k DEF Receive
  <1>4. HttpTypes'
    <2>1. pc' \in [Users -> {"idle", "connect"} \cup Holding]
      BY <1>3 DEF HInv, HttpTypes, Holding
    <2> QED BY <1>3, <2>1 DEF Receive, HInv, HttpTypes
  <1>5. pc'[u] \in Holding /\ \A v \in Users \ {u} : pc'[v] = pc[v] /\ reading'[v] = reading[v]
    BY <1>1, <1>3 DEF HInv, HttpTypes, Holding
  <1>6. Ownership'
    BY <1>1, <1>5, KeepsOwners DEF Receive
  <1>7. /\ down'[k] = After(down[k], read)
        /\ reading'[u] = IF reading[u] = None THEN read[1].of ELSE reading[u]
        /\ pc'[u] = IF Len(read) >= 2 \/ reading[u] # None THEN "release" ELSE "recv"
    BY <1>1, <1>3 DEF HInv, HttpTypes
  <1>8. conn[k].connected /\ Exchange(k, number[u], reading[u])
    BY <1>1, <1>k DEF HInv, Streams, Request
  <1>9. UNCHANGED <<conn, up, session, asked, using, number>>
    BY DEF Receive
  <1>10. number[u] # None
    BY HttpAssumption DEF HInv, HttpTypes
  <1>11. down[k] # <<>>
    BY ReadNone
  <1>12. Request(u)'
    <2>1. CASE reading[u] = None /\ up[k] = <<>> /\ down[k] = Message(number[u]) /\ session[k] \in {"head", "closed"}
      <3>1. read \in Reads(Message(number[u]), TRUE)
        BY <2>1
      <3>2. /\ read[1].of = number[u]
            /\ \/ Len(read) = 1 /\ After(down[k], read) = <<Body(number[u])>>
               \/ Len(read) = 2 /\ After(down[k], read) = <<>>
        <4>1. Body(number[u]) = [part |-> "body", of |-> number[u]]
          BY DEF Body
        <4>2. down[k] = Message(number[u])
          BY <2>1
        <4> QED BY <3>1, <4>1, <4>2, ReadMessage
      <3>3. reading'[u] = number[u]
        BY <1>7, <2>1, <3>2
      <3>4. CASE Len(read) = 1 /\ After(down[k], read) = <<Body(number[u])>>
        <4>1. ~(Len(read) >= 2)
          BY <3>4
        <4>2. pc'[u] = "recv" /\ down'[k] = <<Body(number[u])>>
          BY <1>7, <2>1, <3>4, <4>1, Zenon
        <4>3. Exchange(using[u], number[u], reading[u])'
          BY <1>k, <1>9, <2>1, <3>3, <4>2 DEF Exchange, Body
        <4> QED BY <1>k, <1>8, <1>9, <4>2, <4>3 DEF Request
      <3>5. CASE Len(read) = 2 /\ After(down[k], read) = <<>>
        <4>1. Len(read) >= 2
          BY <3>5
        <4>2. pc'[u] = "release" /\ down'[k] = <<>>
          BY <1>7, <3>5, <4>1, Zenon
        <4> QED BY <1>k, <1>8, <1>9, <2>1, <3>3, <4>2 DEF Request, Clean, Quiet
      <3> QED BY <3>2, <3>4, <3>5
    <2>2. CASE reading[u] = number[u] /\ up[k] = <<>> /\ down[k] = <<Body(number[u])>> /\ session[k] \in {"head", "closed"}
      <3>1. After(down[k], read) = <<>>
        <4> DEFINE b == Body(number[u])
        <4>1. read \in Reads(<<b>>, FALSE) /\ down[k] = <<b>>
          BY <1>10, <2>2
        <4> HIDE DEF b
        <4> QED BY <4>1, ReadOne
      <3>2. pc'[u] = "release" /\ down'[k] = <<>> /\ reading'[u] = number[u]
        BY <1>7, <1>10, <2>2, <3>1
      <3> QED BY <1>k, <1>8, <1>9, <2>2, <3>2 DEF Request, Clean, Quiet
    <2> QED BY <1>8, <1>11, <2>1, <2>2 DEF Exchange
  <1>13. Unmade(k)' /\ \A j \in Conns : Pooled(j)' => j # k /\ Pooled(j)
    BY <1>2, <1>9 DEF Receive, Unmade, Pooled
  <1>14. \A j \in Conns \ {k} : down'[j] = down[j]
    BY <1>3 DEF HInv, HttpTypes
  <1> QED BY <1>2, <1>4, <1>5, <1>6, <1>9, <1>12, <1>13, <1>14, UserMoves

LEMMA ReceivesNot ==
  ASSUME HInv, NEW u \in Users, ReceiveFails(u)
  PROVE  HInv'
  <1>1. pc[u] = "recv" /\ pc[u] \in Holding
    BY DEF ReceiveFails, Holding
  <1>k. PICK k \in Conns : k = using[u]
    BY <1>1, Holds
  <1>2. ~Pooled(k) /\ conn[k].state = "open" /\ \A v \in Users \ {u} : using[v] # k
    BY <1>1, <1>k, Holds
  <1>3. conn' = [conn EXCEPT ![k].connected = FALSE] /\ pc' = [pc EXCEPT ![u] = "release"]
    BY <1>k DEF ReceiveFails, CloseConnection
  <1>4. HttpTypes'
    <2>1. conn' \in [Conns -> [state : {"none", "open", "deleted"}, connected : BOOLEAN, m_request : Nat]]
      BY <1>3 DEF HInv, HttpTypes
    <2> QED BY <1>3, <2>1 DEF ReceiveFails, HInv, HttpTypes, Holding
  <1>5. /\ pc'[u] = "release" /\ ~conn'[k].connected
        /\ \A v \in Users \ {u} : pc'[v] = pc[v]
        /\ \A j \in Conns \ {k} : conn'[j] = conn[j]
        /\ \A j \in Conns : conn'[j].state = conn[j].state
    BY <1>3 DEF HInv, HttpTypes
  <1>6. UNCHANGED <<m_conns, up, down, session, asked, using, number, reading>>
    BY DEF ReceiveFails
  <1>7. Ownership'
    BY <1>1, <1>5, <1>6, KeepsOwners DEF Holding
  <1>8. Request(u)'
    BY <1>k, <1>5, <1>6 DEF Request
  <1>9. Unmade(k)' /\ \A j \in Conns : Pooled(j)' => j # k /\ Pooled(j)
    BY <1>2, <1>5, <1>6 DEF Unmade, Pooled
  <1> QED BY <1>2, <1>4, <1>5, <1>6, <1>7, <1>8, <1>9, UserMoves

LEMMA Releases ==
  ASSUME HInv, NEW u \in Users, ReleasePtr(u)
  PROVE  HInv'
  <1>1. pc[u] = "release" /\ pc[u] \in Holding
    BY DEF ReleasePtr, Holding
  <1>k. PICK k \in Conns : k = using[u]
    BY <1>1, Holds
  <1>2. ~Pooled(k) /\ conn[k].state = "open" /\ \A v \in Users \ {u} : using[v] # k
    BY <1>1, <1>k, Holds
  <1>3. /\ using' = [using EXCEPT ![u] = None] /\ reading' = [reading EXCEPT ![u] = None]
        /\ pc' = [pc EXCEPT ![u] = "idle"] /\ UNCHANGED <<up, down, session, asked, number>>
    BY DEF ReleasePtr
  <1>4. /\ pc'[u] = "idle" /\ using'[u] = None
        /\ \A v \in Users \ {u} : pc'[v] = pc[v] /\ using'[v] = using[v] /\ reading'[v] = reading[v]
    BY <1>3 DEF HInv, HttpTypes
  <1>n. None \notin Conns
    BY HttpAssumption DEF Conns
  <1>5. \A j \in Conns : Used(j)' <=> Used(j) /\ j # k
    BY <1>k, <1>2, <1>4, <1>n DEF Used
  <1>6. Request(u)'
    BY <1>4 DEF Request
  <1>7. CASE Worn(k)
    <2>1. conn' = [conn EXCEPT ![k] = [state |-> "deleted", connected |-> FALSE, m_request |-> @.m_request + 1]] /\ m_conns' = m_conns
      BY <1>k, <1>7 DEF ReleasePtr
    <2>2. conn' \in [Conns -> [state : {"none", "open", "deleted"}, connected : BOOLEAN, m_request : Nat]]
      BY <2>1 DEF HInv, HttpTypes
    <2>3. HttpTypes'
      BY <1>3, <2>1, <2>2 DEF HInv, HttpTypes, Holding
    <2>4. conn'[k].state = "deleted" /\ \A j \in Conns \ {k} : conn'[j] = conn[j]
      BY <2>1 DEF HInv, HttpTypes
    <2>5. Ownership'
      <3>1. \A i \in 1 .. Len(m_conns), v \in Users : m_conns[i] # using'[v]
        <4>1. \A i \in 1 .. Len(m_conns) : m_conns[i] \in Conns
          BY DEF HInv, HttpTypes
        <4> QED BY <1>4, <1>n, <4>1 DEF HInv, Ownership
      <3>2. \A j \in Conns : Pooled(j)' <=> Pooled(j)
        BY <2>1 DEF Pooled
      <3>3. \A j \in Conns : conn'[j].state = "open" <=> Pooled(j)' \/ Used(j)'
        BY <1>2, <1>5, <2>4, <3>2 DEF HInv, Ownership
      <3> QED BY <1>4, <2>1, <3>1, <3>3 DEF HInv, Ownership, Holding
    <2>6. Unmade(k)' /\ \A j \in Conns : Pooled(j)' => j # k /\ Pooled(j)
      BY <1>2, <2>1, <2>4 DEF Unmade, Pooled
    <2> QED BY <1>2, <1>3, <1>4, <1>6, <2>3, <2>4, <2>5, <2>6, UserMoves
  <1>8. CASE ~Worn(k)
    <2>1. conn' = [conn EXCEPT ![k].m_request = @ + 1] /\ m_conns' = Append(m_conns, k)
      BY <1>k, <1>8 DEF ReleasePtr
    <2>2. conn' \in [Conns -> [state : {"none", "open", "deleted"}, connected : BOOLEAN, m_request : Nat]]
      <3>1. conn[k].m_request + 1 \in Nat
        BY DEF HInv, HttpTypes
      <3>2. [conn[k] EXCEPT !.m_request = @ + 1] \in [state : {"none", "open", "deleted"}, connected : BOOLEAN, m_request : Nat]
        BY <3>1 DEF HInv, HttpTypes
      <3>3. conn' = [conn EXCEPT ![k] = [conn[k] EXCEPT !.m_request = @ + 1]]
        BY <2>1 DEF HInv, HttpTypes
      <3> QED BY <3>2, <3>3 DEF HInv, HttpTypes
    <2>3. /\ m_conns' \in Seq(Conns) /\ Len(m_conns') = Len(m_conns) + 1 /\ m_conns'[Len(m_conns) + 1] = k
          /\ \A i \in 1 .. Len(m_conns) : m_conns'[i] = m_conns[i]
      BY <2>1, AppendProperties DEF HInv, HttpTypes
    <2>l. Len(m_conns) \in Nat
      BY DEF HInv, HttpTypes
    <2>4. HttpTypes'
      BY <1>3, <2>2, <2>3 DEF HInv, HttpTypes, Holding
    <2>5. /\ conn'[k].state = "open" /\ conn'[k].connected = conn[k].connected
          /\ \A j \in Conns \ {k} : conn'[j] = conn[j]
      BY <1>2, <2>1 DEF HInv, HttpTypes
    <2>6. \A j \in Conns : Pooled(j)' <=> Pooled(j) \/ j = k
      BY <2>3, <2>l DEF Pooled
    <2>7. Ownership'
      <3>1. \A i, j \in 1 .. Len(m_conns') : m_conns'[i] = m_conns'[j] => i = j
        BY <1>2, <2>3, <2>l DEF HInv, Ownership, Pooled
      <3>2. \A i \in 1 .. Len(m_conns'), v \in Users : m_conns'[i] # using'[v]
        <4> TAKE i \in 1 .. Len(m_conns'), v \in Users
        <4>1. m_conns'[i] \in Conns
          BY <2>3
        <4>2. CASE i = Len(m_conns) + 1
          BY <1>2, <1>4, <1>n, <2>3, <4>1, <4>2
        <4>3. CASE i \in 1 .. Len(m_conns)
          BY <1>4, <1>n, <2>3, <4>1, <4>3 DEF HInv, Ownership
        <4> QED BY <2>3, <2>l, <4>2, <4>3
      <3>3. \A j \in Conns : conn'[j].state = "open" <=> Pooled(j)' \/ Used(j)'
        BY <1>5, <2>5, <2>6 DEF HInv, Ownership
      <3> QED BY <1>4, <3>1, <3>2, <3>3 DEF HInv, Ownership, Holding
    <2>8. Clean(k)'
      <3>1. conn[k].connected /\ Clean(k)
        BY <1>1, <1>k, <1>8 DEF Worn, HInv, HttpTypes, Streams, Request
      <3> QED BY <1>3, <2>5, <3>1 DEF Clean, Quiet
    <2>9. Unmade(k)' /\ \A j \in Conns : Pooled(j)' => (j # k /\ Pooled(j)) \/ Clean(j)'
      BY <2>5, <2>6, <2>8 DEF Unmade
    <2> QED BY <1>2, <1>3, <1>4, <1>6, <2>4, <2>5, <2>7, <2>9, UserMoves
  <1> QED BY <1>7, <1>8

LEMMA Connects ==
  ASSUME HInv, NEW u \in Users, Connect(u)
  PROVE  HInv'
  <1>n. None \notin Conns
    BY HttpAssumption DEF Conns
  <1>1. pc[u] = "connect" /\ using[u] = None
    BY DEF Connect, HInv, Ownership, Holding
  <1>2. UNCHANGED <<m_conns, up, down, asked, number, reading>>
    BY DEF Connect
  <1>3. CASE pc' = [pc EXCEPT ![u] = "idle"] /\ UNCHANGED <<conn, session, using>>
    <2>1. pc'[u] = "idle" /\ \A v \in Users \ {u} : pc'[v] = pc[v]
      BY <1>3 DEF HInv, HttpTypes
    <2>2. HttpTypes'
      BY <1>2, <1>3 DEF HInv, HttpTypes
    <2>3. Ownership'
      BY <1>1, <1>2, <1>3, <2>1 DEF HInv, Ownership, Pooled, Used, Holding
    <2>4. Request(u)'
      BY <2>1 DEF Request
    <2>6. \A j \in Conns : Pooled(j)' => Pooled(j)
      BY <1>2 DEF Pooled
    <2>7. \A v \in Users : using[v] # 0
      BY HttpAssumption DEF HInv, HttpTypes, Conns
    <2>8. 0 \notin Conns
      BY HttpAssumption DEF Conns
    <2> QED BY <1>2, <1>3, <2>1, <2>2, <2>3, <2>4, <2>6, <2>7, <2>8, UserMoves
  <1>4. CASE \E k \in Conns :
               /\ conn[k].state = "none"
               /\ conn' = [conn EXCEPT ![k] = [state |-> "open", connected |-> TRUE, m_request |-> 0]]
               /\ session' = [session EXCEPT ![k] = "backlog"]
               /\ using' = [using EXCEPT ![u] = k]
               /\ pc' = [pc EXCEPT ![u] = "send"]
    <2>1. PICK k \in Conns :
               /\ conn[k].state = "none"
               /\ conn' = [conn EXCEPT ![k] = [state |-> "open", connected |-> TRUE, m_request |-> 0]]
               /\ session' = [session EXCEPT ![k] = "backlog"]
               /\ using' = [using EXCEPT ![u] = k]
               /\ pc' = [pc EXCEPT ![u] = "send"]
      BY <1>4
    <2>2. ~Pooled(k) /\ ~Used(k) /\ Quiet(k)
      BY <2>1 DEF HInv, Ownership, Streams, Unmade
    <2>3. HttpTypes'
      <3>1. conn' \in [Conns -> [state : {"none", "open", "deleted"}, connected : BOOLEAN, m_request : Nat]]
        BY <2>1 DEF HInv, HttpTypes
      <3> QED BY <1>2, <2>1, <3>1 DEF HInv, HttpTypes, Holding
    <2>4. /\ pc'[u] = "send" /\ using'[u] = k
          /\ \A v \in Users \ {u} : pc'[v] = pc[v] /\ using'[v] = using[v]
      BY <2>1 DEF HInv, HttpTypes
    <2>5. /\ conn'[k].state = "open" /\ conn'[k].connected /\ session'[k] = "backlog"
          /\ \A j \in Conns \ {k} : conn'[j] = conn[j] /\ session'[j] = session[j]
      BY <2>1 DEF HInv, HttpTypes
    <2>6. Ownership'
      <3>1. \A v, w \in Users : using'[v] = using'[w] /\ using'[v] # None => v = w
        BY <2>2, <2>4 DEF HInv, Ownership, Used
      <3>2. \A i \in 1 .. Len(m_conns), v \in Users : m_conns[i] # using'[v]
        BY <2>2, <2>4 DEF HInv, Ownership, Pooled
      <3>3. \A j \in Conns : (Pooled(j)' <=> Pooled(j)) /\ (Used(j)' <=> Used(j) \/ j = k)
        BY <1>n, <1>1, <1>2, <2>4 DEF Pooled, Used
      <3>4. \A j \in Conns : conn'[j].state = "open" <=> Pooled(j)' \/ Used(j)'
        BY <2>5, <3>3 DEF HInv, Ownership
      <3>5. \A v \in Users : using'[v] # None <=> pc'[v] \in Holding
        BY <1>n, <2>4 DEF HInv, Ownership, Holding
      <3> QED BY <1>2, <3>1, <3>2, <3>4, <3>5 DEF HInv, Ownership
    <2>7. Request(u)'
      BY <1>2, <2>2, <2>4, <2>5 DEF Request, Quiet
    <2>8. Unmade(k)' /\ \A j \in Conns : Pooled(j)' => j # k /\ Pooled(j)
      BY <1>2, <2>2, <2>5 DEF Unmade, Pooled
    <2>9. \A v \in Users \ {u} : using[v] # k
      BY <2>2 DEF Used
    <2> QED BY <1>2, <2>3, <2>4, <2>5, <2>6, <2>7, <2>8, <2>9, UserMoves
  <1> QED BY <1>3, <1>4 DEF Connect

\* Every pool connection is connected, so that doRequest() takes the first.
LEMMA TakesFirst ==
  ASSUME HInv, NEW u \in Users, doRequest(u)
  PROVE  /\ conn' = conn
         /\ \/ m_conns = <<>> /\ m_conns' = <<>>
               /\ using' = [using EXCEPT ![u] = None] /\ pc' = [pc EXCEPT ![u] = "connect"]
            \/ m_conns # <<>> /\ m_conns' = SubSeq(m_conns, 2, Len(m_conns))
               /\ using' = [using EXCEPT ![u] = m_conns[1]] /\ pc' = [pc EXCEPT ![u] = "send"]
  <1> DEFINE good == {i \in DOMAIN m_conns : conn[m_conns[i]].connected}
             first == IF good = {} THEN Len(m_conns) + 1 ELSE CHOOSE i \in good : \A j \in good : i <= j
  <1>1. DOMAIN m_conns = 1 .. Len(m_conns) /\ Len(m_conns) \in Nat
    BY DEF HInv, HttpTypes
  <1>2. good = 1 .. Len(m_conns)
    BY <1>1 DEF HInv, Streams, Clean
  <1>3. first = 1
    <2>1. CASE Len(m_conns) = 0
      BY <1>2, <2>1
    <2>2. CASE Len(m_conns) # 0
      <3>1. 1 \in good /\ \A j \in good : 1 <= j /\ j \in Int
        BY <1>1, <1>2, <2>2
      <3>2. \A i \in good : (\A j \in good : i <= j) => i = 1
        BY <3>1
      <3> HIDE DEF good
      <3> QED BY <3>1, <3>2
    <2> QED BY <2>1, <2>2
  <1>4. /\ using' = [using EXCEPT ![u] = IF good = {} THEN None ELSE m_conns[first]]
        /\ m_conns' = PoolAfter(first)
        /\ conn' = [k \in Conns |-> IF \E i \in 1 .. first - 1 : m_conns[i] = k
                                    THEN [conn[k] EXCEPT !.state = "deleted"] ELSE conn[k]]
        /\ pc' = [pc EXCEPT ![u] = IF good = {} THEN "connect" ELSE "send"]
    BY DEF doRequest
  <1>5. good = {} <=> m_conns = <<>>
    <2>1. Len(m_conns) = 0 <=> m_conns = <<>>
      BY DEF HInv, HttpTypes
    <2>2. 1 .. Len(m_conns) = {} <=> Len(m_conns) = 0
      BY <1>1
    <2> QED BY <1>2, <2>1, <2>2
  <1> HIDE DEF good, first
  <1>6. conn' = conn
    <2>1. conn' = [k \in Conns |-> conn[k]]
      BY <1>3, <1>4
    <2> QED BY <2>1 DEF HInv, HttpTypes
  <1>7. m_conns' = SubSeq(m_conns, 2, Len(m_conns))
    BY <1>3, <1>4 DEF PoolAfter
  <1>8. m_conns = <<>> => m_conns' = <<>>
    BY <1>7, SubSeqEmpty
  <1> QED BY <1>3, <1>4, <1>5, <1>6, <1>7, <1>8

LEMMA TakesConnection ==
  ASSUME HInv, NEW u \in Users, doRequest(u)
  PROVE  HInv'
  <1>n. None \notin Conns
    BY HttpAssumption DEF Conns
  <1>1. pc[u] = "idle" /\ using[u] = None
    BY DEF doRequest, HInv, Ownership, Holding
  <1>2. UNCHANGED <<up, down, session, asked, reading>> /\ conn' = conn
    BY TakesFirst DEF doRequest
  <1>3. number' = [number EXCEPT ![u] = Last + 1] /\ Last + 1 \in 0 .. MaxRequests
    <2>1. Last \in 0 .. MaxRequests
      BY LastExists DEF HInv, HttpTypes
    <2>2. Last < MaxRequests /\ number' = [number EXCEPT ![u] = Last + 1]
      BY DEF doRequest
    <2> QED BY <2>1, <2>2, HttpAssumption
  <1>4. \A v \in Users \ {u} : number'[v] = number[v]
    BY <1>3 DEF HInv, HttpTypes
  <1>5. CASE m_conns = <<>> /\ m_conns' = <<>>
             /\ using' = [using EXCEPT ![u] = None] /\ pc' = [pc EXCEPT ![u] = "connect"]
    <2>1. HttpTypes'
      BY <1>2, <1>3, <1>5 DEF HInv, HttpTypes
    <2>2. using' = using /\ m_conns' = m_conns
      BY <1>1, <1>5 DEF HInv, HttpTypes
    <2>3. pc'[u] = "connect" /\ \A v \in Users \ {u} : pc'[v] = pc[v]
      BY <1>5 DEF HInv, HttpTypes
    <2>4. Ownership'
      BY <1>1, <1>2, <2>2, <2>3 DEF HInv, Ownership, Pooled, Used, Holding
    <2>5. Request(u)'
      BY <2>3 DEF Request
    <2>6. \A j \in Conns : Pooled(j)' => Pooled(j)
      BY <2>2 DEF Pooled
    <2>7. (\A v \in Users : using[v] # 0) /\ 0 \notin Conns
      BY HttpAssumption DEF HInv, HttpTypes, Conns
    <2> QED BY <1>2, <1>4, <2>1, <2>2, <2>3, <2>4, <2>5, <2>6, <2>7, UserMoves
  <1>6. CASE m_conns # <<>> /\ m_conns' = SubSeq(m_conns, 2, Len(m_conns))
             /\ using' = [using EXCEPT ![u] = m_conns[1]] /\ pc' = [pc EXCEPT ![u] = "send"]
    <2>1. Len(m_conns) \in Nat \ {0}
      BY <1>6 DEF HInv, HttpTypes
    <2>2. \A i \in 1 .. Len(m_conns) : m_conns[i] \in Conns
      BY DEF HInv, HttpTypes
    <2>3. /\ m_conns' \in Seq(Conns) /\ Len(m_conns') = Len(m_conns) - 1
          /\ \A i \in 1 .. Len(m_conns') : m_conns'[i] = m_conns[i + 1]
      <3>1. /\ m_conns' \in Seq(Conns) /\ Len(m_conns') = IF 2 <= Len(m_conns) THEN Len(m_conns) - 2 + 1 ELSE 0
            /\ \A i \in 1 .. Len(m_conns) - 2 + 1 : m_conns'[i] = m_conns[2 + i - 1]
        <4>1. \A i \in 2 .. Len(m_conns) : m_conns[i] \in Conns
          BY <2>1, <2>2
        <4> QED BY <1>6, <2>1, <4>1, SubSeqProperties
      <3>2. Len(m_conns') = Len(m_conns) - 1
        <4>1. Len(m_conns') = IF 2 <= Len(m_conns) THEN Len(m_conns) - 2 + 1 ELSE 0
          BY <3>1
        <4>2. CASE 2 <= Len(m_conns)
          BY <2>1, <4>1, <4>2
        <4>3. CASE Len(m_conns) = 1
          BY <4>1, <4>3
        <4>4. \A x \in Nat \ {0} : 2 <= x \/ x = 1
          OBVIOUS
        <4> QED BY <2>1, <4>2, <4>3, <4>4
      <3> QED BY <2>1, <3>1, <3>2
    <2>4. PICK k \in Conns : k = m_conns[1]
      BY <2>1, <2>2
    <2>5. /\ pc'[u] = "send" /\ using'[u] = k
          /\ \A v \in Users \ {u} : pc'[v] = pc[v] /\ using'[v] = using[v]
      BY <1>6, <2>4 DEF HInv, HttpTypes
    <2>6. HttpTypes'
      BY <1>2, <1>3, <1>6, <2>3, <2>4 DEF HInv, HttpTypes, Holding
    <2>7. ~Used(k) /\ Clean(k)
      BY <2>1, <2>4 DEF HInv, Ownership, Streams, Used
    <2>8. \A j \in Conns : (Pooled(j)' <=> Pooled(j) /\ j # k) /\ (Used(j)' <=> Used(j) \/ j = k)
      <3> TAKE j \in Conns
      <3>1. Pooled(j)' => Pooled(j) /\ j # k
        BY <2>1, <2>3, <2>4 DEF Pooled, HInv, Ownership
      <3>2. ASSUME Pooled(j), j # k PROVE Pooled(j)'
        <4>1. PICK i \in 1 .. Len(m_conns) : m_conns[i] = j
          BY <3>2 DEF Pooled
        <4>2. i - 1 \in 1 .. Len(m_conns') /\ (i - 1) + 1 = i
          BY <2>1, <2>3, <2>4, <3>2, <4>1
        <4>3. m_conns'[i - 1] = j
          BY <2>3, <4>1, <4>2
        <4> QED BY <4>2, <4>3 DEF Pooled
      <3>3. Used(j)' <=> Used(j) \/ j = k
        BY <1>n, <1>1, <2>5 DEF Used
      <3> QED BY <3>1, <3>2, <3>3
    <2>9. Ownership'
      <3>1. \A v, w \in Users : using'[v] = using'[w] /\ using'[v] # None => v = w
        BY <2>5, <2>7 DEF HInv, Ownership, Used
      <3>2. \A i \in 1 .. Len(m_conns'), v \in Users : m_conns'[i] # using'[v]
        <4> TAKE i \in 1 .. Len(m_conns'), v \in Users
        <4>1. i + 1 \in 1 .. Len(m_conns) /\ i + 1 # 1 /\ 1 \in 1 .. Len(m_conns) /\ m_conns'[i] = m_conns[i + 1]
          BY <2>1, <2>3
        <4>2. m_conns[i + 1] # k
          BY <2>4, <4>1 DEF HInv, Ownership
        <4> QED BY <2>5, <4>1, <4>2 DEF HInv, Ownership
      <3>3. \A i, j \in 1 .. Len(m_conns') : m_conns'[i] = m_conns'[j] => i = j
        <4> TAKE i, j \in 1 .. Len(m_conns')
        <4>1. i + 1 \in 1 .. Len(m_conns) /\ j + 1 \in 1 .. Len(m_conns) /\ i \in Int /\ j \in Int
          BY <2>1, <2>3
        <4>2. m_conns'[i] = m_conns'[j] => i + 1 = j + 1
          BY <2>3, <4>1 DEF HInv, Ownership
        <4> QED BY <4>1, <4>2
      <3>4. Pooled(k)
        BY <2>1, <2>4 DEF Pooled
      <3>5. \A j \in Conns : conn'[j].state = "open" <=> Pooled(j)' \/ Used(j)'
        BY <1>2, <2>8, <3>4 DEF HInv, Ownership
      <3>6. \A v \in Users : using'[v] # None <=> pc'[v] \in Holding
        BY <1>n, <2>5 DEF HInv, Ownership, Holding
      <3> QED BY <3>1, <3>2, <3>3, <3>5, <3>6 DEF Ownership
    <2>10. Request(u)'
      BY <1>2, <2>5, <2>7 DEF Request, Clean, Quiet
    <2>11. Unmade(k)' /\ \A v \in Users \ {u} : using[v] # k
      BY <1>2, <2>7 DEF HInv, Streams, Unmade, Quiet, Used
    <2> QED BY <1>2, <1>4, <2>5, <2>6, <2>8, <2>9, <2>10, <2>11, UserMoves
  <1> QED BY <1>5, <1>6, TakesFirst

LEMMA HInvStep == HInv /\ [Next]_vars => HInv'
  <1> SUFFICES ASSUME HInv, [Next]_vars PROVE HInv' OBVIOUS
  <1>1. CASE UNCHANGED http
    <2>1. session' \in [Conns -> {"none", "backlog", "head", "body", "handle", "closed"}]
      BY <1>1 DEF http, HInv, HttpTypes
    <2> QED BY <1>1, <2>1, BacklogMoves DEF http
  <1>2. CASE CloseListeners
    <2>1. session' \in [Conns -> {"none", "backlog", "head", "body", "handle", "closed"}]
      BY <1>2 DEF CloseListeners, Backlog, HInv, HttpTypes
    <2>2. ASSUME NEW k \in Conns
          PROVE  session'[k] = session[k] \/ (session[k] = "backlog" /\ session'[k] = "closed")
      <3>1. session'[k] = IF session[k] = "backlog" /\ listening' = {} THEN "closed" ELSE session[k]
        BY <1>2 DEF CloseListeners, Backlog
      <3>2. CASE session[k] = "backlog" /\ listening' = {}
        BY <3>1, <3>2
      <3>3. CASE ~(session[k] = "backlog" /\ listening' = {})
        BY <3>1, <3>3
      <3> QED BY <3>2, <3>3
    <2> QED BY <1>2, <2>1, <2>2, BacklogMoves DEF CloseListeners
  <1>3. ASSUME NEW n \in 1 .. MaxStarts, NEW l \in Listeners, Accept(n, l) PROVE HInv'
    <2>1. PICK k \in Conns : session[k] = "backlog" /\ session' = [session EXCEPT ![k] = "head"]
      BY <1>3 DEF Accept, Backlog
    <2>2. session' \in [Conns -> {"none", "backlog", "head", "body", "handle", "closed"}]
      BY <2>1 DEF HInv, HttpTypes
    <2>3. ASSUME NEW j \in Conns
          PROVE  session'[j] = session[j] \/ (session[j] = "backlog" /\ session'[j] = "head")
      <3>1. session'[j] = IF j = k THEN "head" ELSE session[j]
        BY <2>1 DEF HInv, HttpTypes
      <3>2. CASE j = k
        BY <2>1, <3>1, <3>2
      <3>3. CASE j # k
        BY <3>1, <3>3
      <3> QED BY <3>2, <3>3
    <2> QED BY <1>3, <2>2, <2>3, BacklogMoves DEF Accept
  <1>4. ASSUME NEW u \in Users, doRequest(u) \/ UserStep(u) PROVE HInv'
    BY <1>4, TakesConnection, Connects, Sends, Receives, ReceivesNot, Releases DEF UserStep
  <1>5. ASSUME NEW k \in Conns, SessionStep(k) PROVE HInv'
    BY <1>5, ReadsRequest, ReadFails, Handles DEF SessionStep
  <1> QED BY <1>1, <1>2, <1>3, <1>4, <1>5 DEF Next, vars

LEMMA HInvAlways == Spec => []HInv
  BY HInvInit, HInvStep, PTL DEF Spec

\* doRequest() returns the response to its own request: a connection whose
\* response did not come in time is closed, and nothing of an earlier request is
\* left on one that goes back to the pool.
THEOREM Matches == Spec => []OwnResponse
  <1>1. HInv => OwnResponse
    BY DEF HInv, Streams, Request, OwnResponse
  <1> QED BY <1>1, HInvAlways, PTL

\* A connection is in the pool once, or with one fiber, and open exactly then.
THEOREM Owned == Spec => []OneOwner
  <1>1. ASSUME HInv, NEW k \in Conns
        PROVE  Owners(k) = IF conn[k].state = "open" THEN 1 ELSE 0
    <2> DEFINE P == {i \in DOMAIN m_conns : m_conns[i] = k}
               U == {u \in Users : using[u] = k}
    <2>n. None \notin Conns
      BY HttpAssumption DEF Conns
    <2>d. DOMAIN m_conns = 1 .. Len(m_conns)
      BY <1>1 DEF HInv, HttpTypes
    <2>1. P = {} \/ \E i : P = {i}
      BY <1>1, <2>d DEF HInv, Ownership
    <2>2. U = {} \/ \E u : U = {u}
      <3>1. \A u, v \in U : u = v
        BY <1>1, <2>n DEF HInv, Ownership
      <3> HIDE DEF U
      <3> QED BY <3>1
    <2>3. P = {} \/ U = {}
      BY <1>1, <2>d DEF HInv, Ownership
    <2>4. (P # {} \/ U # {}) <=> conn[k].state = "open"
      BY <1>1, <2>d DEF HInv, Ownership, Pooled, Used
    <2>5. Cardinality({}) = 0 /\ \A x : Cardinality({x}) = 1
      BY FS_EmptySet, FS_Singleton
    <2>6. Owners(k) = Cardinality(P) + Cardinality(U)
      BY DEF Owners
    <2> HIDE DEF P, U
    <2>7. Cardinality(P) = (IF P = {} THEN 0 ELSE 1) /\ Cardinality(U) = (IF U = {} THEN 0 ELSE 1)
      BY <2>1, <2>2, <2>5
    <2> QED BY <2>3, <2>4, <2>6, <2>7
  <1>2. HInv => OneOwner
    BY <1>1 DEF OneOwner
  <1> QED BY <1>2, HInvAlways, PTL
=============================================================================
