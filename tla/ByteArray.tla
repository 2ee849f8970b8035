----------------------------- MODULE ByteArray -----------------------------
(***************************************************************************)
(* ByteArray (saturn/bytearray.cc): bytes in a list of chunks of m_baseSize *)
(* bytes, with a position, a size, a capacity and a pointer to the chunk of *)
(* the position, which is NULL when the position is at the capacity.        *)
(*                                                                          *)
(* A caller makes one call after the other; inside a call each iteration of *)
(* a loop over the chunks is a step.  A NULL chunk that is dereferenced     *)
(* stops the program.  The calls are write, read, toString, setPosition,    *)
(* clear, the file calls, and those of SocketStream: "recv" is              *)
(* getWriteBuffers, readv and setPosition, "send" is getReadBuffers, writev *)
(* and setPosition.                                                         *)
(***************************************************************************)
EXTENDS Integers, Sequences

CONSTANTS
    Byte,
    Junk,       \* the bytes that new char[] may contain
    Bases,      \* the base sizes
    MaxSize,    \* bound on the position
    MaxBuf      \* bound on the bytes a call writes

ASSUME ByteArrayAssumption ==
    /\ Junk \subseteq Byte
    /\ Bases \subseteq Nat \ {0}
    /\ MaxSize \in Nat /\ MaxBuf \in Nat

VARIABLES
    m_baseSize,
    m_nodes,    \* the list from m_root on; a chunk maps 0 .. m_baseSize-1 to bytes
    m_position, m_capacity, m_size,
    m_cur,      \* the number of the chunk m_cur points to, or NULL
    pc,         \* where the program is
    call,       \* the call with its arguments
    npos,       \* local: offset in the chunk; in writeToFile() the position
    left,       \* local: size or len, what the loop has left to do
    cur,        \* local: the chunk, in the loops that leave m_cur alone
    buf,        \* what is left to write, or what has been read
    iovs,       \* local: <<chunk, offset, length>> of each buffer
    file,       \* readFromFile(): what the file has left
    out,        \* the bytes the last call returned
    over,       \* bytes the last read() wrote behind the caller's buffer
    failed,     \* whether the last call threw, or returned false
    was         \* history: the contents and the position when the call began

arrayVars == <<m_baseSize, m_nodes, m_position, m_capacity, m_size, m_cur>>
localVars == <<npos, left, cur, buf, iovs, file>>
resultVars == <<out, over, failed>>
vars == <<arrayVars, pc, call, localVars, resultVars, was>>

NULL == 0
NoCall == [op |-> "none", n |-> 0, bytes |-> <<>>]
NotCalled == [data |-> <<>>, pos |-> 0]

ReadSize == m_size - m_position
Capacity == m_capacity - m_position

-----------------------------------------------------------------------------
(***************************************************************************)
(* The chunks.                                                              *)
(***************************************************************************)
NextNode(n) == IF n < Len(m_nodes) THEN n + 1 ELSE NULL
Node == [0 .. m_baseSize - 1 -> Junk]

\* n bytes of a chunk from an offset on.
Part(node, off, n) == [i \in 1 .. n |-> m_nodes[node][off + i - 1]]
\* The chunks after a memcpy of the first n bytes of s.
Copied(node, off, s, n) ==
    [m_nodes EXCEPT ![node] = [j \in 0 .. m_baseSize - 1 |->
        IF j \in off .. off + n - 1 THEN s[j - off + 1] ELSE @[j]]]

\* The contents as one sequence.
At(q) == m_nodes[(q \div m_baseSize) + 1][q % m_baseSize]
Data == [i \in 1 .. m_size |-> At(i - 1)]

Ceil(m, n) == (m + n - 1) \div n
\* Mutant: the pointer stays NULL.
CurNotSet == m_cur
\* The first new chunk, if the position was at the capacity.
CurAfterGrowth == IF Capacity = 0 THEN Len(m_nodes) + 1 ELSE m_cur

addCapacity(n) ==
    IF n = 0 \/ Capacity >= n THEN UNCHANGED <<m_nodes, m_capacity, m_cur>>
    ELSE LET count == Ceil(n - Capacity, m_baseSize)
         IN  /\ \E new \in [1 .. count -> Node] : m_nodes' = m_nodes \o new
             /\ m_capacity' = m_capacity + count * m_baseSize
             /\ m_cur' = CurAfterGrowth

-----------------------------------------------------------------------------
(***************************************************************************)
(* A call begins and ends.                                                  *)
(***************************************************************************)
Init ==
    /\ m_baseSize \in Bases
    /\ \E node \in Node : m_nodes = <<node>>
    /\ m_position = 0 /\ m_capacity = m_baseSize /\ m_size = 0 /\ m_cur = 1
    /\ pc = "idle" /\ call = NoCall
    /\ npos = 0 /\ left = 0 /\ cur = NULL /\ buf = <<>> /\ iovs = <<>> /\ file = <<>>
    /\ out = <<>> /\ over = 0 /\ failed = FALSE
    /\ was = NotCalled

Texts == UNION {[1 .. k -> Byte] : k \in 0 .. MaxBuf}
Request(op, n, bytes) == [op |-> op, n |-> n, bytes |-> bytes]
Requests ==
    {Request(op, 0, s) : op \in {"write", "readFromFile"}, s \in Texts} \cup
    {Request("recv", Len(s) + k, s) : s \in Texts, k \in {0, 1}} \cup
    {Request(op, n, <<>>) : op \in {"read", "send", "setPosition"}, n \in 0 .. MaxSize} \cup
    {Request(op, 0, <<>>) : op \in {"toString", "clear", "writeToFile"}}

Begin(r) ==
    /\ pc = "idle"
    /\ m_position + (IF r.op = "recv" THEN r.n ELSE Len(r.bytes)) <= MaxSize
    /\ r.op \in {"recv", "send"} => r.n > 0
    /\ pc' = r.op /\ call' = r
    /\ was' = [data |-> Data, pos |-> m_position]
    /\ out' = <<>> /\ over' = 0 /\ failed' = FALSE
    /\ UNCHANGED <<arrayVars, localVars>>

Leave ==
    /\ pc' = "idle" /\ call' = NoCall /\ was' = NotCalled
    /\ npos' = 0 /\ left' = 0 /\ cur' = NULL /\ buf' = <<>> /\ iovs' = <<>> /\ file' = <<>>
Return(bytes) == Leave /\ out' = bytes /\ UNCHANGED <<over, failed>>
Fail == Leave /\ failed' = TRUE /\ UNCHANGED <<arrayVars, out, over>>

-----------------------------------------------------------------------------
(***************************************************************************)
(* write() and readFromFile().                                              *)
(***************************************************************************)
\* What the loops over the chunks start with.
Ncap == m_baseSize - npos
FirstNpos == m_position % m_baseSize

\* Mutant: the pointer stays in the chunk that is full.
StaysInNode(node, n) == node
\* The pointer after the last n bytes of a loop.
MovedOn(node, n) == IF npos + n = m_baseSize THEN NextNode(node) ELSE node

\* Mutant: m_size follows the position down as well as up.
SizeIsPosition(p) == p
GrownSize(p) == IF p > m_size THEN p ELSE m_size

StartWrite(s) ==
    /\ addCapacity(Len(s))
    /\ pc' = "writeLoop" /\ npos' = FirstNpos /\ buf' = s
    /\ UNCHANGED <<m_baseSize, m_position, m_size, call, left, cur, iovs, resultVars, was>>

Write ==
    /\ pc = "write" /\ call.bytes # <<>>
    /\ StartWrite(call.bytes)
    /\ UNCHANGED file
WriteNothing == pc = "write" /\ call.bytes = <<>> /\ Return(<<>>) /\ UNCHANGED arrayVars

WriteChunk ==
    /\ pc = "writeLoop" /\ m_cur # NULL /\ Ncap < Len(buf)
    /\ m_nodes' = Copied(m_cur, npos, buf, Ncap)
    /\ m_position' = m_position + Ncap
    /\ buf' = SubSeq(buf, Ncap + 1, Len(buf))
    /\ m_cur' = NextNode(m_cur) /\ npos' = 0
    /\ UNCHANGED <<m_baseSize, m_capacity, m_size, pc, call, left, cur, iovs, file, resultVars, was>>

WriteLast ==
    /\ pc = "writeLoop" /\ m_cur # NULL /\ Ncap >= Len(buf)
    /\ m_nodes' = Copied(m_cur, npos, buf, Len(buf))
    /\ m_cur' = MovedOn(m_cur, Len(buf))
    /\ m_position' = m_position + Len(buf)
    /\ m_size' = GrownSize(m_position + Len(buf))
    /\ UNCHANGED <<m_baseSize, m_capacity>>
    /\ \/ call.op = "write" /\ Return(<<>>)
       \/ /\ call.op = "readFromFile"
          /\ pc' = "loadLoop" /\ npos' = 0 /\ buf' = <<>>
          /\ UNCHANGED <<call, left, cur, iovs, file, resultVars, was>>

\* Mutant: the buffer keeps a byte for a terminating NUL.
RoomForNul == IF Len(file) < m_baseSize - 1 THEN Len(file) ELSE m_baseSize - 1
\* readFromFile(): m_baseSize bytes at a time.
FileRead == IF Len(file) < m_baseSize THEN Len(file) ELSE m_baseSize
OpenFile ==
    /\ pc = "readFromFile"
    /\ pc' = "loadLoop" /\ file' = call.bytes
    /\ UNCHANGED <<arrayVars, call, npos, left, cur, buf, iovs, resultVars, was>>
LoadChunk ==
    /\ pc = "loadLoop" /\ file # <<>>
    /\ StartWrite(SubSeq(file, 1, FileRead))
    /\ file' = SubSeq(file, FileRead + 1, Len(file))
LoadEnd == pc = "loadLoop" /\ file = <<>> /\ Return(<<>>) /\ UNCHANGED arrayVars
\* A read that fails sets the badbit and never eof(): from here on the loop reads
\* and writes nothing and does not end.
LoadFails ==
    /\ pc = "loadLoop" /\ pc' = "spin"
    /\ UNCHANGED <<arrayVars, call, localVars, resultVars, was>>

OpenFails == pc \in {"readFromFile", "writeToFile"} /\ Fail

-----------------------------------------------------------------------------
(***************************************************************************)
(* read(), and read() at a position as toString() calls it.                 *)
(***************************************************************************)
\* Mutant: the last memcpy takes a whole chunk.
WholeChunk == [i \in 1 .. m_baseSize |-> IF npos + i <= m_baseSize THEN m_nodes[m_cur][npos + i - 1] ELSE 0]
\* The last memcpy of read() takes all that is left of the chunk: ncap, not size.
ChunkRest == Part(m_cur, npos, Ncap)

Read ==
    /\ pc = "read" /\ call.n <= ReadSize
    /\ pc' = "readLoop" /\ npos' = FirstNpos /\ left' = call.n
    /\ UNCHANGED <<arrayVars, call, cur, buf, iovs, file, resultVars, was>>
ReadThrows == pc = "read" /\ call.n > ReadSize /\ Fail

ReadChunk ==
    /\ pc = "readLoop" /\ m_cur # NULL /\ Ncap < left
    /\ buf' = buf \o ChunkRest
    /\ m_position' = m_position + Ncap /\ left' = left - Ncap
    /\ m_cur' = NextNode(m_cur) /\ npos' = 0
    /\ UNCHANGED <<m_baseSize, m_nodes, m_capacity, m_size, pc, call, cur, iovs, file, resultVars, was>>
ReadLast ==
    /\ pc = "readLoop" /\ m_cur # NULL /\ 0 < left /\ left <= Ncap
    /\ m_position' = m_position + left
    /\ m_cur' = MovedOn(m_cur, left)
    /\ UNCHANGED <<m_baseSize, m_nodes, m_capacity, m_size>>
    /\ Leave
    /\ out' = SubSeq(buf \o ChunkRest, 1, call.n)
    /\ over' = Len(buf \o ChunkRest) - call.n
    /\ UNCHANGED failed
ReadNothing == pc = "readLoop" /\ m_cur # NULL /\ left = 0 /\ Return(<<>>) /\ UNCHANGED arrayVars

toString ==
    /\ pc = "toString" /\ ReadSize > 0
    /\ pc' = "peekLoop" /\ npos' = FirstNpos /\ left' = ReadSize /\ cur' = m_cur
    /\ UNCHANGED <<arrayVars, call, buf, iovs, file, resultVars, was>>
toStringEmpty == pc = "toString" /\ ReadSize = 0 /\ Return(<<>>) /\ UNCHANGED arrayVars

PeekChunk ==
    /\ pc = "peekLoop" /\ cur # NULL /\ Ncap < left
    /\ buf' = buf \o Part(cur, npos, Ncap)
    /\ left' = left - Ncap /\ cur' = NextNode(cur) /\ npos' = 0
    /\ UNCHANGED <<arrayVars, pc, call, iovs, file, resultVars, was>>
PeekLast ==
    /\ pc = "peekLoop" /\ cur # NULL /\ left <= Ncap
    /\ Return(buf \o Part(cur, npos, left))
    /\ UNCHANGED arrayVars

-----------------------------------------------------------------------------
(***************************************************************************)
(* writeToFile().                                                           *)
(***************************************************************************)
FileLen == (IF left > m_baseSize THEN m_baseSize ELSE left) - (npos % m_baseSize)

WriteToFile ==
    /\ pc = "writeToFile"
    /\ pc' = "fileLoop" /\ npos' = m_position /\ left' = ReadSize /\ cur' = m_cur
    /\ UNCHANGED <<arrayVars, call, buf, iovs, file, resultVars, was>>
\* ofstream::write() with a negative length writes nothing.
FileChunk ==
    /\ pc = "fileLoop" /\ left > 0 /\ cur # NULL
    /\ buf' = buf \o Part(cur, npos % m_baseSize, FileLen)
    /\ cur' = NextNode(cur) /\ npos' = npos + FileLen /\ left' = left - FileLen
    /\ UNCHANGED <<arrayVars, pc, call, iovs, file, resultVars, was>>
FileEnd == pc = "fileLoop" /\ left <= 0 /\ Return(buf) /\ UNCHANGED arrayVars

-----------------------------------------------------------------------------
(***************************************************************************)
(* setPosition() and clear().                                               *)
(***************************************************************************)
StartSeek(v) ==
    /\ m_position' = v /\ m_size' = GrownSize(v) /\ m_cur' = 1
    /\ pc' = "seekLoop" /\ left' = v
    /\ UNCHANGED <<m_baseSize, m_nodes, m_capacity, call, npos, cur, iovs, file, resultVars, was>>

SetPosition == pc = "setPosition" /\ call.n <= m_capacity /\ StartSeek(call.n) /\ UNCHANGED buf
SetPositionThrows == pc = "setPosition" /\ call.n > m_capacity /\ Fail

SeekNext ==
    /\ pc = "seekLoop" /\ m_cur # NULL /\ left > m_baseSize
    /\ left' = left - m_baseSize /\ m_cur' = NextNode(m_cur)
    /\ UNCHANGED <<m_baseSize, m_nodes, m_position, m_capacity, m_size, pc, call,
                   npos, cur, buf, iovs, file, resultVars, was>>
\* buf holds what send() has sent.
SeekLast ==
    /\ pc = "seekLoop" /\ m_cur # NULL /\ left <= m_baseSize
    /\ m_cur' = IF left = m_baseSize THEN NextNode(m_cur) ELSE m_cur
    /\ UNCHANGED <<m_baseSize, m_nodes, m_position, m_capacity, m_size>>
    /\ Return(buf)

Clear ==
    /\ pc = "clear"
    /\ m_position' = 0 /\ m_size' = 0 /\ m_capacity' = m_baseSize /\ m_cur' = 1
    /\ m_nodes' = <<m_nodes[1]>>
    /\ UNCHANGED m_baseSize
    /\ Return(<<>>)

-----------------------------------------------------------------------------
(***************************************************************************)
(* getReadBuffers() and getWriteBuffers() as SocketStream uses them, and    *)
(* what the kernel does with the buffers, one after the other.              *)
(***************************************************************************)
Smaller(m, n) == IF m > n THEN n ELSE m

Receive ==
    /\ pc = "recv"
    /\ addCapacity(call.n)
    /\ pc' = "iovLoop" /\ npos' = FirstNpos /\ left' = call.n /\ cur' = m_cur'
    /\ UNCHANGED <<m_baseSize, m_position, m_size, call, buf, iovs, file, resultVars, was>>
Send ==
    /\ pc = "send" /\ ReadSize > 0
    /\ pc' = "iovLoop" /\ npos' = FirstNpos /\ left' = Smaller(call.n, ReadSize) /\ cur' = m_cur
    /\ UNCHANGED <<arrayVars, call, buf, iovs, file, resultVars, was>>
SendNothing == pc = "send" /\ ReadSize = 0 /\ Return(<<>>) /\ UNCHANGED arrayVars

IovChunk ==
    /\ pc = "iovLoop" /\ cur # NULL /\ Ncap < left
    /\ iovs' = Append(iovs, <<cur, npos, Ncap>>)
    /\ left' = left - Ncap /\ cur' = NextNode(cur) /\ npos' = 0
    /\ UNCHANGED <<arrayVars, pc, call, buf, file, resultVars, was>>
\* The socket has call.bytes to give, or takes some of the bytes offered.
IovLast ==
    /\ pc = "iovLoop" /\ cur # NULL /\ left <= Ncap
    /\ iovs' = Append(iovs, <<cur, npos, left>>)
    /\ cur' = NULL /\ npos' = 0
    /\ \/ call.op = "recv" /\ pc' = "readv" /\ left' = 0 /\ buf' = call.bytes
       \/ call.op = "send" /\ pc' = "writev" /\ left' \in 0 .. Smaller(call.n, ReadSize) /\ UNCHANGED buf
    /\ UNCHANGED <<arrayVars, call, file, resultVars, was>>

Readv ==
    /\ pc = "readv" /\ buf # <<>> /\ iovs # <<>>
    /\ LET v == Head(iovs)
           n == Smaller(Len(buf), v[3])
       IN  /\ m_nodes' = Copied(v[1], v[2], buf, n)
           /\ buf' = SubSeq(buf, n + 1, Len(buf))
    /\ iovs' = Tail(iovs)
    /\ UNCHANGED <<m_baseSize, m_position, m_capacity, m_size, m_cur, pc, call,
                   npos, left, cur, file, resultVars, was>>
ReadvEnd ==
    /\ pc = "readv" /\ buf = <<>>
    /\ \/ call.bytes = <<>> /\ Return(<<>>) /\ UNCHANGED arrayVars
       \/ call.bytes # <<>> /\ StartSeek(m_position + Len(call.bytes)) /\ UNCHANGED buf

Writev ==
    /\ pc = "writev" /\ left > 0 /\ iovs # <<>>
    /\ LET v == Head(iovs)
           n == Smaller(left, v[3])
       IN  buf' = buf \o Part(v[1], v[2], n) /\ left' = left - n
    /\ iovs' = Tail(iovs)
    /\ UNCHANGED <<arrayVars, pc, call, npos, cur, file, resultVars, was>>
WritevEnd ==
    /\ pc = "writev" /\ left = 0
    /\ \/ buf = <<>> /\ Return(<<>>) /\ UNCHANGED arrayVars
       \/ buf # <<>> /\ StartSeek(m_position + Len(buf)) /\ UNCHANGED buf

-----------------------------------------------------------------------------
NullDeref ==
    /\ \/ pc \in {"writeLoop", "readLoop", "seekLoop"} /\ m_cur = NULL
       \/ pc \in {"peekLoop", "iovLoop"} /\ cur = NULL
       \/ pc = "fileLoop" /\ left > 0 /\ cur = NULL
    /\ pc' = "crashed"
    /\ UNCHANGED <<arrayVars, call, localVars, resultVars, was>>

Step ==
    \/ Write \/ WriteNothing \/ WriteChunk \/ WriteLast
    \/ OpenFile \/ LoadChunk \/ LoadEnd \/ LoadFails \/ OpenFails
    \/ Read \/ ReadThrows \/ ReadChunk \/ ReadLast \/ ReadNothing
    \/ toString \/ toStringEmpty \/ PeekChunk \/ PeekLast
    \/ WriteToFile \/ FileChunk \/ FileEnd
    \/ SetPosition \/ SetPositionThrows \/ SeekNext \/ SeekLast \/ Clear
    \/ Receive \/ Send \/ SendNothing \/ IovChunk \/ IovLast
    \/ Readv \/ ReadvEnd \/ Writev \/ WritevEnd
    \/ NullDeref

Next == Step \/ \E r \in Requests : Begin(r)

Spec == Init /\ [][Next]_vars

-----------------------------------------------------------------------------
(***************************************************************************)
(* Between calls the counters and the chunk pointer fit the list: capacity  *)
(* is that of the list, the pointer is the chunk of the position, NULL      *)
(* exactly at the capacity, and no loop has left it elsewhere.              *)
(***************************************************************************)
ChunksConsistent ==
    pc = "idle" =>
        /\ m_position <= m_size /\ m_size <= m_capacity
        /\ m_capacity = m_baseSize * Len(m_nodes)
        /\ m_cur = IF m_position = m_capacity THEN NULL ELSE (m_position \div m_baseSize) + 1

(***************************************************************************)
(* read() writes behind the caller's buffer the rest of the chunk in which  *)
(* it stops: nothing when it stops at the end of one, and so never with the *)
(* chunk size 1 that the tests use.                                         *)
(***************************************************************************)
OverrunIsRestOfChunk ==
    over > 0 => over = m_baseSize - (m_position % m_baseSize) /\ m_baseSize > 1

(***************************************************************************)
(* The calls that go through NULL: reading nothing with the position at the *)
(* capacity, and writeToFile() from the middle of a chunk with less than    *)
(* the size of a chunk to write.                                            *)
(***************************************************************************)
CrashesOnlyAtEnds ==
    pc = "crashed" =>
        \/ call.op = "read" /\ call.n = 0 /\ was.pos = m_capacity
        \/ /\ call.op = "writeToFile"
           /\ was.pos % m_baseSize # 0 /\ Len(was.data) - was.pos < m_baseSize

(***************************************************************************)
(* Every loop ends and no call runs for ever, but for one: readFromFile()   *)
(* of a file that opens and cannot be read, such as a directory, where the  *)
(* loop waits for an eof() that never comes (bytearray.cc:493).             *)
(***************************************************************************)
EveryCallEnds == (pc # "idle") ~> (pc \in {"idle", "crashed", "spin"})

(***************************************************************************)
(* Refinement: to its callers the chunked array is a byte sequence with a   *)
(* position, which a call changes when it returns.                          *)
(***************************************************************************)
Abstract ==
    INSTANCE ByteSeq WITH
        Call <- Requests,
        data <- IF pc = "idle" THEN Data ELSE was.data,
        pos  <- IF pc = "idle" THEN m_position ELSE was.pos
ImplementsByteSeq == Abstract!Spec
=============================================================================
