-------------------------- MODULE ByteArrayProofs --------------------------
(***************************************************************************)
(* For every chunk size and every sequence of calls: the chunk pointer fits *)
(* the position between calls, read() overruns its buffer by the rest of a  *)
(* chunk and by nothing else, the program goes through NULL only in the two *)
(* cases known, and the chunked array implements the byte sequence.         *)
(***************************************************************************)
EXTENDS ByteArray, SequenceTheorems, TLAPS

(***************************************************************************)
(* The inductive invariant, with one part for each place in the program.    *)
(***************************************************************************)
Ops == {"write", "readFromFile", "recv", "read", "send", "setPosition", "toString", "clear", "writeToFile"}
Calls == [op : Ops \cup {"none"}, n : Nat, bytes : Seq(Byte)]
Loops == {"writeLoop", "loadLoop", "readLoop", "peekLoop", "fileLoop", "seekLoop", "iovLoop", "readv", "writev"}

\* The list of chunks has the capacity and holds the contents.
Shape ==
    /\ m_baseSize \in Bases
    /\ m_nodes \in Seq([0 .. m_baseSize - 1 -> Byte]) /\ Len(m_nodes) > 0
    /\ m_capacity \in Nat /\ m_capacity = m_baseSize * Len(m_nodes)
    /\ m_position \in Nat /\ m_size \in Nat /\ m_size <= m_capacity
    /\ m_cur \in Nat

LocalTypes ==
    /\ pc \in {"idle", "crashed", "spin"} \cup Ops \cup Loops
    /\ call \in Calls
    /\ npos \in Int /\ left \in Int /\ cur \in Nat
    /\ buf \in Seq(Byte) /\ file \in Seq(Byte)
    /\ iovs \in Seq(Nat \X Nat \X Nat)
    /\ was \in [data : Seq(Byte), pos : Nat]

\* A call that has not returned: nothing is returned, the old contents fit.
Called ==
    /\ was.pos <= Len(was.data) /\ Len(was.data) <= m_capacity
    /\ out = <<>> /\ over = 0 /\ failed = FALSE

\* The chunk that a pointer for position p points to.
Points(node, p) == node = IF p = m_capacity THEN NULL ELSE (p \div m_baseSize) + 1
\* A loop is in that chunk, before its end.
Inside(node, off, p) ==
    p \in Nat /\ p < m_capacity /\ node = (p \div m_baseSize) + 1 /\ off = p % m_baseSize

\* The contents are what they were, except that what the call writes is there
\* from the old position up to position hi.
Contents(hi) ==
    \A q \in Nat : q < m_capacity =>
        /\ was.pos <= q /\ q < hi => At(q) = call.bytes[q - was.pos + 1]
        /\ (q < was.pos \/ hi <= q) /\ q < Len(was.data) => At(q) = was.data[q + 1]

\* s is what the call has to write from position p on.
ToWrite(s, p) ==
    /\ was.pos <= p /\ p - was.pos + Len(s) <= Len(call.bytes)
    /\ \A i \in 1 .. Len(s) : s[i] = call.bytes[p - was.pos + i]

\* s is what was there from the old position on.
Reads(s) ==
    /\ was.pos + Len(s) <= Len(was.data)
    /\ \A i \in 1 .. Len(s) : s[i] = was.data[was.pos + i]

Same == m_position = was.pos /\ m_size = Len(was.data)

\* Between calls, and where a call begins.
AtRest == Points(m_cur, m_position) /\ m_position <= m_size
Idle == AtRest /\ call = NoCall /\ buf = <<>> /\ iovs = <<>> /\ file = <<>>
Entry ==
    /\ call.op = pc /\ Same /\ AtRest /\ Contents(was.pos) /\ buf = <<>> /\ iovs = <<>> /\ file = <<>>
    /\ pc \in {"recv", "send"} => call.n > 0
    /\ pc = "recv" => Len(call.bytes) <= call.n

\* m_size is the old one, or follows the position.
Sized == Len(was.data) <= m_size /\ (m_size = Len(was.data) \/ m_size <= m_position)
Writing ==
    /\ call.op \in {"write", "readFromFile"}
    /\ Inside(m_cur, npos, m_position) /\ m_position + Len(buf) <= m_capacity
    /\ buf # <<>> /\ ToWrite(buf, m_position)
    /\ ToWrite(file, m_position + Len(buf))
    /\ m_position - was.pos + Len(buf) + Len(file) = Len(call.bytes)
    /\ call.op = "write" => file = <<>>
    /\ Sized /\ Contents(m_position)
Loading ==
    /\ call.op = "readFromFile" /\ buf = <<>>
    /\ AtRest /\ ToWrite(file, m_position) /\ m_position - was.pos + Len(file) = Len(call.bytes)
    /\ Sized /\ Contents(m_position)

Reading ==
    /\ call.op = "read" /\ call.n + was.pos = m_position + left /\ left >= 0
    /\ m_position + left <= m_size /\ m_size = Len(was.data)
    /\ Points(m_cur, m_position) /\ npos = m_position % m_baseSize
    /\ m_position = was.pos + Len(buf) /\ Reads(buf)
    /\ Contents(was.pos)
    /\ m_cur = NULL => call.n = 0 /\ was.pos = m_capacity
    /\ left = 0 => call.n = 0
Peeking ==
    /\ call.op = "toString" /\ Same /\ AtRest /\ Contents(was.pos)
    /\ left > 0 /\ left = m_size - (was.pos + Len(buf))
    /\ Inside(cur, npos, was.pos + Len(buf)) /\ Reads(buf)

\* What writeToFile() can do.
Whole == was.pos % m_baseSize = 0 \/ Len(was.data) - was.pos >= m_baseSize
\* Otherwise, with something to write, it goes to and fro until the list ends.
Astray ==
    /\ npos >= 0 /\ 0 <= left /\ left < m_baseSize
    /\ left > 0 => npos % m_baseSize # 0
    /\ left = 0 => buf = <<>> /\ was.pos = Len(was.data)
Filing ==
    /\ call.op = "writeToFile" /\ Same /\ AtRest /\ Contents(was.pos)
    /\ cur <= Len(m_nodes)
    /\ Whole =>
        /\ npos = was.pos + Len(buf) /\ left = m_size - npos /\ Reads(buf)
        /\ left > 0 => /\ npos < m_capacity /\ cur = (npos \div m_baseSize) + 1
                       /\ npos % m_baseSize = 0 \/ left >= m_baseSize
    /\ ~ Whole => Astray

\* The chunks skipped so far and what is left make up the new position.
Seeking ==
    /\ m_cur > 0 /\ left >= 0 /\ m_baseSize * (m_cur - 1) + left = m_position
    /\ left > 0 \/ m_cur = 1
    /\ m_position <= m_capacity
    /\ m_size = IF m_position > Len(was.data) THEN m_position ELSE Len(was.data)
    /\ \/ call.op = "setPosition" /\ m_position = call.n /\ Contents(was.pos) /\ buf = <<>>
       \/ /\ call.op = "send" /\ m_position = was.pos + Len(buf) /\ Len(buf) <= call.n
          /\ Contents(was.pos) /\ Reads(buf)
       \/ /\ call.op = "recv" /\ m_position = was.pos + Len(call.bytes)
          /\ Contents(m_position) /\ buf = <<>>

\* The buffers vs lie one after the other between positions lo and hi.
Start(v) == m_baseSize * (v[1] - 1) + v[2]
End(v) == Start(v) + v[3]
Buffers(vs, lo, hi) ==
    /\ vs = <<>> => lo = hi
    /\ vs # <<>> => Start(vs[1]) = lo /\ End(vs[Len(vs)]) = hi
    /\ \A k \in 1 .. Len(vs) : vs[k][1] \in 1 .. Len(m_nodes) /\ vs[k][3] > 0 /\ vs[k][2] + vs[k][3] <= m_baseSize
    /\ \A k \in 1 .. Len(vs) - 1 : End(vs[k]) = Start(vs[k + 1])
Total == IF call.op = "recv" THEN call.n ELSE Smaller(call.n, m_size - m_position)
Socket ==
    /\ Same /\ AtRest /\ was.pos + Total <= m_capacity
    /\ call.op \in {"recv", "send"}
    /\ call.op = "recv" => Len(call.bytes) <= call.n
Gathering ==
    /\ Socket
    /\ left > 0 /\ left <= Total /\ buf = <<>> /\ Contents(was.pos)
    /\ Inside(cur, npos, was.pos + (Total - left))
    /\ Buffers(iovs, was.pos, was.pos + (Total - left))
Filling ==
    /\ Socket
    /\ call.op = "recv" /\ Len(buf) <= Len(call.bytes)
    /\ ToWrite(buf, was.pos + (Len(call.bytes) - Len(buf)))
    /\ Contents(was.pos + (Len(call.bytes) - Len(buf)))
    /\ buf # <<>> => Buffers(iovs, was.pos + (Len(call.bytes) - Len(buf)), was.pos + Total)
Sending ==
    /\ Socket
    /\ call.op = "send" /\ left >= 0 /\ Len(buf) + left <= Total
    /\ Contents(was.pos) /\ Reads(buf)
    /\ left > 0 => Buffers(iovs, was.pos + Len(buf), was.pos + Total)

Body ==
    /\ pc = "idle" => Idle
    /\ pc \in Ops => Entry
    /\ pc = "writeLoop" => Writing
    /\ pc = "loadLoop" => Loading
    /\ pc = "readLoop" => Reading
    /\ pc = "peekLoop" => Peeking
    /\ pc = "fileLoop" => Filing
    /\ pc = "seekLoop" => Seeking
    /\ pc = "iovLoop" => Gathering
    /\ pc = "readv" => Filling
    /\ pc = "writev" => Sending
IInv ==
    /\ Shape /\ LocalTypes
    /\ pc # "idle" => Called
    /\ Body /\ CrashesOnlyAtEnds /\ OverrunIsRestOfChunk

-----------------------------------------------------------------------------
(***************************************************************************)
(* Positions and chunks.                                                    *)
(***************************************************************************)
\* Division with remainder by a chunk size.
LEMMA Division ==
  ASSUME NEW d \in Nat \ {0}, NEW p \in Int
  PROVE  /\ p \div d \in Int /\ (p % d) \in 0 .. d - 1 /\ p = d * (p \div d) + (p % d)
         /\ p >= 0 => p \div d >= 0
  BY Z3

\* Quotient and remainder are determined.
LEMMA DivisionUnique ==
  ASSUME NEW d \in Nat \ {0}, NEW k \in Int, NEW r \in 0 .. d - 1
  PROVE  (d * k + r) \div d = k /\ (d * k + r) % d = r
  BY Z3

\* Multiples of the chunk size.
LEMMA Multiples ==
  ASSUME NEW d \in Nat \ {0}, NEW k \in Int, NEW n \in Int
  PROVE  /\ d * k \in Int /\ d * (k + 1) = d * k + d
         /\ k < n => d * k + d <= d * n
         /\ d * k < d * n => k < n
  BY Z3

\* The base size is positive.
LEMMA BaseType ==
  ASSUME Shape
  PROVE  m_baseSize \in Nat \ {0}
  BY ByteArrayAssumption DEF Shape

\* A position below the capacity lies in a chunk of the list.
LEMMA ChunkOf ==
  ASSUME Shape, NEW p \in Nat, p < m_capacity
  PROVE  /\ (p \div m_baseSize) + 1 \in 1 .. Len(m_nodes)
         /\ (p % m_baseSize) \in 0 .. m_baseSize - 1
         /\ m_baseSize * (p \div m_baseSize) + (p % m_baseSize) = p
  <1> DEFINE d == m_baseSize
             k == p \div d
             r == p % d
             n == Len(m_nodes)
  <1>1. d \in Nat \ {0} /\ n \in Nat /\ m_capacity = d * n
    BY BaseType DEF Shape
  <1>2. k \in Int /\ k >= 0 /\ r \in 0 .. d - 1 /\ p = d * k + r
    BY <1>1, Division, p \in Int, p >= 0 DEF d
  <1>3. d * k \in Int /\ d * n \in Int /\ d * k < d * n
    <2>1. d * k \in Int /\ d * n \in Int BY <1>1, <1>2
    <2> QED BY <2>1, <1>1, <1>2
  <1>4. k < n BY <1>1, <1>2, <1>3, Multiples
  <1> QED BY <1>1, <1>2, <1>4

\* A pointer for a position below the capacity is in the chunk of the position.
LEMMA PointsInside ==
  ASSUME Shape, NEW k, NEW p \in Nat, p < m_capacity
  PROVE  Points(k, p) <=> Inside(k, p % m_baseSize, p)
  BY DEF Points, Inside, Shape

\* Where a loop is in the list.
LEMMA InsideFacts ==
  ASSUME Shape, NEW k, NEW off, NEW p, Inside(k, off, p)
  PROVE  /\ p \in Nat /\ p < m_capacity
         /\ k \in 1 .. Len(m_nodes) /\ off \in 0 .. m_baseSize - 1
         /\ m_baseSize * (k - 1) \in Nat
         /\ m_baseSize * (k - 1) + off = p
         /\ m_capacity \in Nat /\ m_baseSize \in Nat \ {0} /\ Len(m_nodes) \in Nat
         /\ Points(k, p)
  <1>1. m_capacity \in Nat /\ m_baseSize \in Nat \ {0} /\ Len(m_nodes) \in Nat
    BY BaseType DEF Shape
  <1>2. p \in Nat /\ p < m_capacity /\ k = (p \div m_baseSize) + 1 /\ off = p % m_baseSize
    BY <1>1 DEF Inside
  <1>3. k \in 1 .. Len(m_nodes) /\ off \in 0 .. m_baseSize - 1 /\ m_baseSize * (k - 1) + off = p
    <2>1. p \div m_baseSize \in Int BY <1>1, <1>2, Division
    <2>2. k - 1 = p \div m_baseSize BY <1>2, <2>1
    <2> QED BY <1>2, <2>2, ChunkOf
  <1>4. m_baseSize * (k - 1) \in Nat
    BY <1>1, <1>3
  <1> QED BY <1>1, <1>2, <1>3, <1>4 DEF Points

\* A chunk number and an offset are inside the chunk of their position.
LEMMA InsideAt ==
  ASSUME Shape, NEW k \in 1 .. Len(m_nodes), NEW off \in 0 .. m_baseSize - 1
  PROVE  Inside(k, off, m_baseSize * (k - 1) + off)
  <1> DEFINE d == m_baseSize
  <1>1. d \in Nat \ {0} /\ Len(m_nodes) \in Nat /\ m_capacity = d * Len(m_nodes)
    BY BaseType DEF Shape
  <1>2. d * (k - 1) \in Nat /\ d * (k - 1) + d <= d * Len(m_nodes) /\ d * Len(m_nodes) \in Nat
    BY <1>1, Multiples, k - 1 < Len(m_nodes)
  <1>3. (d * (k - 1) + off) \div d = k - 1 /\ (d * (k - 1) + off) % d = off
    BY <1>1, DivisionUnique, k - 1 \in Int
  <1> QED BY <1>1, <1>2, <1>3 DEF Inside

\* What a loop reaches from inside a chunk: further in it, or the next one.
LEMMA NextChunk ==
  ASSUME Shape, NEW k, NEW off, NEW p, Inside(k, off, p)
  PROVE  /\ p + (m_baseSize - off) <= m_capacity
         /\ Points(NextNode(k), p + (m_baseSize - off))
         /\ (p + (m_baseSize - off)) % m_baseSize = 0
         /\ p + (m_baseSize - off) < m_capacity => Inside(NextNode(k), 0, p + (m_baseSize - off))
         /\ \A n \in 0 .. m_baseSize - off - 1 : Inside(k, off + n, p + n)
  <1> DEFINE d == m_baseSize
             e == p + (d - off)
  <1>1. /\ p \in Nat /\ p < m_capacity /\ k \in 1 .. Len(m_nodes) /\ off \in 0 .. d - 1
        /\ d * (k - 1) \in Nat /\ d * (k - 1) + off = p
        /\ m_capacity \in Nat /\ d \in Nat \ {0} /\ Len(m_nodes) \in Nat
    BY InsideFacts
  <1>2. e = d * (k - 1) + d /\ d * k = d * (k - 1) + d /\ d * k + 0 = e
    <2>1. d * ((k - 1) + 1) = d * (k - 1) + d BY <1>1, Multiples
    <2>2. (k - 1) + 1 = k BY <1>1
    <2> QED BY <1>1, <2>1, <2>2
  <1>3. e \in Nat BY <1>1
  <1>4. e % d = 0 /\ e \div d = k
    BY <1>1, <1>2, DivisionUnique, k \in Int, 0 \in 0 .. d - 1
  <1>5. m_capacity = d * Len(m_nodes) BY DEF Shape
  <1>8. ASSUME NEW n \in 0 .. d - off - 1 PROVE Inside(k, off + n, p + n)
    <2>1. off + n \in 0 .. d - 1 /\ d * (k - 1) + (off + n) = p + n BY <1>1
    <2> QED BY <1>1, <2>1, InsideAt
  <1>6. CASE k < Len(m_nodes)
    <2>1. d * k + d <= d * Len(m_nodes) BY <1>1, <1>6, Multiples
    <2>2. e < m_capacity BY <1>1, <1>2, <1>3, <1>5, <2>1
    <2>3. NextNode(k) = k + 1 BY <1>6 DEF NextNode
    <2>4. Inside(k + 1, 0, e) BY <1>3, <1>4, <2>2, <1>1 DEF Inside
    <2>5. Points(k + 1, e) BY <1>4, <2>2, <1>3 DEF Points

    <2> QED BY <1>1, <1>3, <1>4, <1>8, <2>2, <2>3, <2>4, <2>5
  <1>7. CASE k = Len(m_nodes)
    <2>2. e = m_capacity BY <1>2, <1>3, <1>5, <1>7
    <2>3. NextNode(k) = NULL BY <1>1, <1>7 DEF NextNode
    <2>5. Points(NULL, e) BY <2>2 DEF Points

    <2> QED BY <1>1, <1>3, <1>4, <1>8, <2>2, <2>3, <2>5
  <1> QED BY <1>1, <1>6, <1>7

\* The pointer that a loop leaves behind after its last n bytes.
LEMMA MovedOnPoints ==
  ASSUME Shape, NEW k, NEW p, Inside(k, npos, p), NEW n \in 0 .. m_baseSize - npos
  PROVE  Points(MovedOn(k, n), p + n) /\ p + n <= m_capacity /\ MovedOn(k, n) \in Nat
  <1>1. /\ p \in Nat /\ npos \in 0 .. m_baseSize - 1 /\ m_baseSize \in Nat /\ m_capacity \in Nat
        /\ k \in 1 .. Len(m_nodes) /\ Len(m_nodes) \in Nat
    BY InsideFacts
  <1>2. MovedOn(k, n) \in Nat BY <1>1 DEF MovedOn, NextNode, NULL
  <1>3. CASE npos + n = m_baseSize
    <2>1. MovedOn(k, n) = NextNode(k) /\ p + n = p + (m_baseSize - npos)
      BY <1>1, <1>3 DEF MovedOn
    <2> QED BY <1>2, <2>1, NextChunk
  <1>4. CASE npos + n # m_baseSize
    <2>1. MovedOn(k, n) = k /\ n \in 0 .. m_baseSize - npos - 1
      BY <1>1, <1>4 DEF MovedOn
    <2>2. Inside(k, npos + n, p + n) BY <2>1, NextChunk
    <2>3. Points(k, p + n) /\ p + n < m_capacity BY <2>2, InsideFacts
    <2> QED BY <1>1, <1>2, <2>1, <2>3
  <1> QED BY <1>3, <1>4

-----------------------------------------------------------------------------
(***************************************************************************)
(* The bytes in the chunks.                                                 *)
(***************************************************************************)
\* The byte at a position is the byte of the chunk a loop is in.
LEMMA AtInside ==
  ASSUME Shape, NEW k, NEW off, NEW p, Inside(k, off, p)
  PROVE  At(p) = m_nodes[k][off] /\ At(p) \in Byte
  <1>1. k \in 1 .. Len(m_nodes) /\ off \in 0 .. m_baseSize - 1
    BY InsideFacts
  <1>2. m_nodes[k] \in [0 .. m_baseSize - 1 -> Byte] BY <1>1 DEF Shape
  <1>4. m_nodes[k][off] \in Byte BY <1>1, <1>2
  <1>3. At(p) = m_nodes[k][off] BY DEF At, Inside
  <1> QED BY <1>3, <1>4

\* Below the capacity there is a byte at every position.
LEMMA AtType ==
  ASSUME Shape, NEW p \in Nat, p < m_capacity
  PROVE  At(p) \in Byte
  <1>1. Inside((p \div m_baseSize) + 1, p % m_baseSize, p) BY DEF Inside, Shape
  <1> QED BY <1>1, AtInside

\* A step that leaves the list alone leaves the bytes alone.
LEMMA AtKept ==
  ASSUME m_nodes' = m_nodes, m_baseSize' = m_baseSize
  PROVE  \A q \in Nat : At(q)' = At(q)
  BY DEF At

\* What a memcpy out of a chunk takes.
LEMMA PartAt ==
  ASSUME Shape, NEW k, NEW off, NEW p, Inside(k, off, p), NEW n \in 0 .. m_baseSize - off
  PROVE  /\ Part(k, off, n) \in Seq(Byte) /\ Len(Part(k, off, n)) = n
         /\ \A i \in 1 .. n : Part(k, off, n)[i] = At(p + i - 1)
  <1>1. p \in Nat /\ k \in 1 .. Len(m_nodes) /\ off \in 0 .. m_baseSize - 1 /\ m_baseSize \in Nat \ {0}
    BY InsideFacts
  <1>2. n \in Nat BY <1>1
  <1>3. ASSUME NEW i \in 1 .. n
        PROVE  m_nodes[k][off + i - 1] = At(p + i - 1) /\ m_nodes[k][off + i - 1] \in Byte
    <2>1. i - 1 \in 0 .. m_baseSize - off - 1 BY <1>1, <1>2
    <2>2. Inside(k, off + (i - 1), p + (i - 1)) BY <2>1, NextChunk
    <2>3. off + (i - 1) = off + i - 1 /\ p + (i - 1) = p + i - 1 BY <1>1, <1>2
    <2> QED BY <2>2, <2>3, AtInside
  <1>4. Part(k, off, n) \in [1 .. n -> Byte] BY <1>3 DEF Part
  <1>5. Part(k, off, n) \in Seq(Byte) /\ Len(Part(k, off, n)) = n BY <1>2, <1>4
  <1> QED BY <1>3, <1>5 DEF Part

\* What a memcpy into a chunk changes.
LEMMA CopiedAt ==
  ASSUME Shape, NEW k \in 1 .. Len(m_nodes), NEW off \in Nat, NEW n \in Nat, off + n <= m_baseSize,
         NEW s \in Seq(Byte), n <= Len(s),
         m_nodes' = Copied(k, off, s, n), m_baseSize' = m_baseSize
  PROVE  /\ m_nodes' \in Seq([0 .. m_baseSize - 1 -> Byte]) /\ Len(m_nodes') = Len(m_nodes)
         /\ m_baseSize * (k - 1) \in Nat
         /\ \A q \in Nat : q < m_capacity =>
              LET b == m_baseSize * (k - 1) + off
              IN  At(q)' = IF b <= q /\ q < b + n THEN s[q - b + 1] ELSE At(q)
  <1> DEFINE d == m_baseSize
             node == [j \in 0 .. d - 1 |-> IF j \in off .. off + n - 1 THEN s[j - off + 1] ELSE m_nodes[k][j]]
  <1>1. d \in Nat \ {0} /\ Len(m_nodes) \in Nat /\ m_nodes \in Seq([0 .. d - 1 -> Byte])
    BY BaseType DEF Shape
  <1>2. m_nodes' = [m_nodes EXCEPT ![k] = node]
    BY DEF Copied
  <1>3. node \in [0 .. d - 1 -> Byte]
    <2>1. ASSUME NEW j \in 0 .. d - 1, j \in off .. off + n - 1 PROVE s[j - off + 1] \in Byte
      <3>1. j - off + 1 \in 1 .. Len(s) BY <1>1, <2>1
      <3> QED BY <3>1
    <2>2. m_nodes[k] \in [0 .. d - 1 -> Byte] BY <1>1
    <2> QED BY <2>1, <2>2
  <1>4. m_nodes' \in Seq([0 .. d - 1 -> Byte]) /\ Len(m_nodes') = Len(m_nodes)
    <2> HIDE DEF node
    <2> QED BY <1>1, <1>2, <1>3
  <1>5. d * (k - 1) \in Nat BY <1>1
  <1>6. ASSUME NEW q \in Nat, q < m_capacity
        PROVE  LET b == d * (k - 1) + off
               IN  At(q)' = IF b <= q /\ q < b + n THEN s[q - b + 1] ELSE At(q)
    <2> DEFINE c == (q \div d) + 1
               r == q % d
               b == d * (k - 1) + off
    <2>1. Inside(c, r, q) BY <1>6 DEF Inside, Shape
    <2>2. c \in 1 .. Len(m_nodes) /\ r \in 0 .. d - 1 /\ d * (c - 1) + r = q /\ d * (c - 1) \in Nat
      <3> HIDE DEF c, r
      <3> QED BY <2>1, InsideFacts
    <2>3. At(q) = m_nodes[c][r] /\ At(q)' = m_nodes'[c][r]
      BY DEF At
    <2> HIDE DEF c, r, node
    <2>4. CASE c = k
      <3>1. m_nodes'[c] = node BY <1>1, <1>2, <2>4
      <3>2. node[r] = IF r \in off .. off + n - 1 THEN s[r - off + 1] ELSE m_nodes[k][r]
        BY <2>2 DEF node
      <3>3. (r \in off .. off + n - 1) <=> (b <= q /\ q < b + n)
        BY <1>1, <1>5, <2>2, <2>4
      <3>4. r - off + 1 = q - b + 1 BY <1>1, <1>5, <2>2, <2>4
      <3> QED BY <2>3, <2>4, <3>1, <3>2, <3>3, <3>4
    <2>5. CASE c # k
      <3>1. m_nodes'[c] = m_nodes[c] BY <1>1, <1>2, <2>2, <2>5
      <3>2. ~ (b <= q /\ q < b + n)
        <4> DEFINE x == d * (c - 1)
                   y == d * (k - 1)
        <4>3. x \in Nat /\ y \in Nat /\ x + r = q /\ b = y + off /\ d \in Nat /\ r \in 0 .. d - 1
          BY <1>1, <1>5, <2>2
        <4>1. CASE c < k
          <5>1. d * (c - 1) + d <= d * (k - 1) BY <1>1, <2>2, <4>1, Multiples, c - 1 \in Int, k - 1 \in Int, c - 1 < k - 1
          <5>2. x + d <= y BY <5>1
          <5> HIDE DEF x, y, b
          <5> QED BY <4>3, <5>2
        <4>2. CASE k < c
          <5>1. d * (k - 1) + d <= d * (c - 1) BY <1>1, <2>2, <4>2, Multiples, c - 1 \in Int, k - 1 \in Int, k - 1 < c - 1
          <5>2. y + d <= x BY <5>1
          <5> HIDE DEF x, y, b
          <5> QED BY <4>3, <5>2
        <4> QED BY <2>2, <2>5, <4>1, <4>2
      <3> QED BY <2>3, <3>1, <3>2
    <2> QED BY <2>4, <2>5
  <1> QED BY <1>4, <1>5, <1>6

\* Enough new chunks for what is missing.
LEMMA CeilEnough ==
  ASSUME NEW d \in Nat \ {0}, NEW m \in Nat \ {0}
  PROVE  Ceil(m, d) \in Nat \ {0} /\ m <= Ceil(m, d) * d /\ Ceil(m, d) * d \in Nat
  <1> DEFINE k == (m + d - 1) \div d
             r == (m + d - 1) % d
  <1>1. k \in Int /\ r \in 0 .. d - 1 /\ m + d - 1 = d * k + r /\ k >= 0
    BY Division, m + d - 1 \in Int, m + d - 1 >= 0
  <1> HIDE DEF k, r
  <1>2. d * k \in Int /\ m <= d * k BY <1>1
  <1>3. k * d = d * k BY <1>1
  <1>4. k # 0 BY <1>1, <1>2
  <1> QED BY <1>1, <1>2, <1>3, <1>4 DEF Ceil, k

\* addCapacity() makes room for n bytes, keeps the bytes there are, and leaves
\* the pointer at the position.
LEMMA Grown ==
  ASSUME Shape, NEW n \in Nat, addCapacity(n), m_position <= m_size, Points(m_cur, m_position),
         UNCHANGED <<m_baseSize, m_position, m_size>>
  PROVE  /\ Shape' /\ m_capacity <= m_capacity' /\ m_position + n <= m_capacity'
         /\ Points(m_cur, m_position)'
         /\ \A q \in Nat : q < m_capacity => At(q)' = At(q)
  <1> DEFINE d == m_baseSize
             l == Len(m_nodes)
  <1>1. /\ d \in Nat \ {0} /\ l \in Nat /\ l > 0 /\ m_nodes \in Seq([0 .. d - 1 -> Byte])
        /\ m_capacity = d * l /\ m_capacity \in Nat
        /\ m_position \in Nat /\ m_size \in Nat /\ m_size <= m_capacity /\ m_cur \in Nat
    BY BaseType DEF Shape
  <1>2. Capacity = m_capacity - m_position /\ Capacity \in Nat BY <1>1 DEF Capacity
  <1>3. CASE n = 0 \/ Capacity >= n
    <2>1. UNCHANGED <<m_nodes, m_capacity, m_cur>> BY <1>3 DEF addCapacity
    <2>2. Shape' BY <2>1 DEF Shape
    <2>3. Points(m_cur, m_position)' BY <2>1 DEF Points
    <2>4. \A q \in Nat : At(q)' = At(q) BY <2>1, AtKept
    <2> QED BY <1>1, <1>2, <1>3, <2>1, <2>2, <2>3, <2>4
  <1>4. CASE ~ (n = 0 \/ Capacity >= n)
    <2> DEFINE c == Ceil(n - Capacity, d)
    <2>1. PICK new \in [1 .. c -> Node] : m_nodes' = m_nodes \o new
      BY <1>4 DEF addCapacity
    <2>2. m_capacity' = m_capacity + c * d /\ m_cur' = CurAfterGrowth
      BY <1>4 DEF addCapacity
    <2>3. c \in Nat \ {0} /\ n - Capacity <= c * d /\ c * d \in Nat
      BY <1>1, <1>2, <1>4, CeilEnough
    <2> HIDE DEF c
    <2>4. Node \subseteq [0 .. d - 1 -> Byte]
      BY ByteArrayAssumption DEF Node
    <2>5. new \in Seq([0 .. d - 1 -> Byte]) /\ Len(new) = c
      BY <2>3, <2>4
    <2>6. m_nodes' \in Seq([0 .. d - 1 -> Byte]) /\ Len(m_nodes') = l + c
      <3>1. m_nodes \in Seq([0 .. d - 1 -> Byte]) BY DEF Shape
      <3>2. m_nodes \o new \in Seq([0 .. d - 1 -> Byte]) /\ Len(m_nodes \o new) = Len(m_nodes) + Len(new)
        BY <2>5, <3>1, ConcatProperties, ZenonT(30)
      <3> QED BY <2>1, <2>5, <3>2, Zenon
    <2>7. m_capacity' = d * (l + c) /\ m_capacity' \in Nat
      <3>1. d * (l + c) = d * l + c * d BY <1>1, <2>3, Z3
      <3> QED BY <1>1, <2>2, <2>3, <3>1
    <2>8. m_capacity < m_capacity' /\ m_position + n <= m_capacity'
      <3>1. c * d > 0 BY <1>1, <1>2, <1>4, <2>3
      <3> QED BY <1>1, <1>2, <2>2, <2>3, <3>1
    <2>9. Points(m_cur, m_position)' /\ m_cur' \in Nat
      <3>1. m_position < m_capacity' BY <1>1, <2>7, <2>8
      <3>2. CASE Capacity = 0
        <4>1. m_position = d * l + 0 BY <1>1, <1>2, <3>2
        <4>2. m_position \div d = l BY <1>1, <4>1, DivisionUnique, 0 \in 0 .. d - 1, l \in Int
        <4>3. m_cur' = l + 1 BY <2>2, <3>2 DEF CurAfterGrowth
        <4> QED BY <1>1, <3>1, <4>2, <4>3, <2>7 DEF Points
      <3>3. CASE Capacity # 0
        <4>1. m_position # m_capacity BY <1>1, <1>2, <3>3
        <4>2. m_cur' = m_cur BY <2>2, <3>3 DEF CurAfterGrowth
        <4> QED BY <1>1, <3>1, <4>1, <4>2, <2>7 DEF Points
      <3> QED BY <3>2, <3>3
    <2>10. Shape'
      <3>1. m_baseSize' \in Bases /\ m_position' \in Nat /\ m_size' \in Nat BY <1>1 DEF Shape
      <3>2. m_nodes' \in Seq([0 .. m_baseSize' - 1 -> Byte]) BY <1>1, <2>6
      <3>3. Len(m_nodes') > 0 /\ m_capacity' = m_baseSize' * Len(m_nodes') BY <1>1, <2>3, <2>6, <2>7
      <3>4. m_size' <= m_capacity' BY <1>1, <2>7, <2>8 DEF Shape
      <3> QED BY <2>7, <2>9, <3>1, <3>2, <3>3, <3>4 DEF Shape
    <2>11. ASSUME NEW q \in Nat, q < m_capacity PROVE At(q)' = At(q)
      <3>1. (q \div d) + 1 \in 1 .. l BY <2>11, ChunkOf
      <3>2. m_nodes'[(q \div d) + 1] = m_nodes[(q \div d) + 1]
        <4> DEFINE k == (q \div d) + 1
        <4> HIDE DEF k
        <4>1. k \in 1 .. l BY <3>1 DEF k
        <4>2. m_nodes'[k] = m_nodes[k] BY <1>1, <2>1, <2>5, <4>1
        <4> QED BY <4>2 DEF k
      <3> QED BY <3>2 DEF At
    <2> QED BY <1>1, <2>7, <2>8, <2>9, <2>10, <2>11
  <1> QED BY <1>3, <1>4

\* The contents as a sequence.
LEMMA DataType ==
  ASSUME Shape
  PROVE  Data \in Seq(Byte) /\ Len(Data) = m_size /\ \A i \in 1 .. m_size : Data[i] = At(i - 1)
  <1>1. m_size \in Nat /\ m_size <= m_capacity /\ m_capacity \in Nat BY BaseType DEF Shape
  <1>2. ASSUME NEW i \in 1 .. m_size PROVE At(i - 1) \in Byte
    BY <1>1, <1>2, AtType, i - 1 \in Nat, i - 1 < m_capacity
  <1>3. Data \in [1 .. m_size -> Byte] BY <1>2 DEF Data
  <1> QED BY <1>1, <1>3 DEF Data

\* A call that has written nothing finds the contents it began with.
LEMMA DataIsWas ==
  ASSUME Shape, LocalTypes, Called, Contents(was.pos), m_size = Len(was.data)
  PROVE  Data = was.data
  <1>1. was.data \in Seq(Byte) /\ was.pos \in Nat BY DEF LocalTypes
  <1>2. Data \in Seq(Byte) /\ Len(Data) = Len(was.data) /\ \A i \in 1 .. m_size : Data[i] = At(i - 1)
    BY DataType
  <1>3. ASSUME NEW i \in 1 .. m_size PROVE Data[i] = was.data[i]
    <2>1. i - 1 < m_capacity /\ i - 1 < Len(was.data) /\ (i - 1) + 1 = i /\ i - 1 \in Nat
      BY <1>1, BaseType DEF Shape
    <2>2. At(i - 1) = was.data[(i - 1) + 1]
      <3>1. i - 1 < was.pos \/ was.pos <= i - 1 BY <1>1, <2>1
      <3> QED BY <2>1, <3>1 DEF Contents
    <2> QED BY <1>2, <2>1, <2>2
  <1> QED BY <1>1, <1>2, <1>3, SeqEqual

\* Contents after a step, in terms of the call of before.
ContentsAfter(hi) ==
    \A q \in Nat : q < m_capacity' =>
        /\ was.pos <= q /\ q < hi => At(q)' = call.bytes[q - was.pos + 1]
        /\ (q < was.pos \/ hi <= q) /\ q < Len(was.data) => At(q)' = was.data[q + 1]

\* A step that keeps the bytes keeps the contents, also when the list grows.
LEMMA KeepsContents ==
  ASSUME Shape, LocalTypes, Called, NEW hi \in Nat, hi <= m_capacity, Contents(hi), m_capacity' \in Nat,
         \A q \in Nat : q < m_capacity => At(q)' = At(q)
  PROVE  ContentsAfter(hi)
  <1>1. m_capacity \in Nat /\ was.pos \in Nat /\ Len(was.data) \in Nat /\ Len(was.data) <= m_capacity
    BY BaseType DEF Shape, LocalTypes, Called
  <1> QED BY <1>1 DEF ContentsAfter, Contents

\* A memcpy of what the call has to write there.
LEMMA WritesContents ==
  ASSUME Shape, LocalTypes, Called, NEW k, NEW off, NEW p, Inside(k, off, p), Contents(p),
         NEW s \in Seq(Byte), ToWrite(s, p), NEW n \in 0 .. Len(s), off + n <= m_baseSize,
         m_nodes' = Copied(k, off, s, n), UNCHANGED <<m_baseSize, m_capacity>>
  PROVE  /\ m_nodes' \in Seq([0 .. m_baseSize - 1 -> Byte]) /\ Len(m_nodes') = Len(m_nodes)
         /\ ContentsAfter(p + n)
  <1>1. /\ p \in Nat /\ p < m_capacity /\ k \in 1 .. Len(m_nodes) /\ off \in Nat
        /\ m_baseSize * (k - 1) + off = p /\ m_capacity \in Nat
    BY InsideFacts
  <1>2. was.pos \in Nat /\ Len(was.data) \in Nat /\ Len(call.bytes) \in Nat /\ n \in Nat /\ n <= Len(s) /\ Len(s) \in Nat
    BY DEF LocalTypes, Calls
  <1>3. /\ m_nodes' \in Seq([0 .. m_baseSize - 1 -> Byte]) /\ Len(m_nodes') = Len(m_nodes)
        /\ \A q \in Nat : q < m_capacity => At(q)' = IF p <= q /\ q < p + n THEN s[q - p + 1] ELSE At(q)
    <2>1. m_baseSize' = m_baseSize /\ n <= Len(s) /\ n \in Nat /\ off \in Nat BY <1>1, <1>2
    <2>2. /\ m_nodes' \in Seq([0 .. m_baseSize - 1 -> Byte]) /\ Len(m_nodes') = Len(m_nodes)
          /\ \A q \in Nat : q < m_capacity =>
                LET b == m_baseSize * (k - 1) + off
                IN  At(q)' = IF b <= q /\ q < b + n THEN s[q - b + 1] ELSE At(q)
      BY <1>1, <2>1, CopiedAt, ZenonT(30)
    <2>3. m_baseSize * (k - 1) + off = p BY <1>1
    <2> QED BY <2>2, <2>3, Zenon
  <1>4. was.pos <= p /\ \A i \in 1 .. Len(s) : s[i] = call.bytes[p - was.pos + i]
    BY DEF ToWrite
  <1>5. ASSUME NEW q \in Nat, q < m_capacity, p <= q, q < p + n
        PROVE  At(q)' = call.bytes[q - was.pos + 1]
    <2>1. At(q)' = s[q - p + 1] BY <1>1, <1>3, <1>5
    <2>2. q - p + 1 \in 1 .. Len(s) /\ p - was.pos + (q - p + 1) = q - was.pos + 1
      BY <1>1, <1>2, <1>5
    <2>3. s[q - p + 1] = call.bytes[p - was.pos + (q - p + 1)] BY <1>4, <2>2
    <2> QED BY <2>1, <2>2, <2>3
  <1>6. ASSUME NEW q \in Nat, q < m_capacity, ~ (p <= q /\ q < p + n)
        PROVE  At(q)' = At(q)
    BY <1>1, <1>3, <1>6
  <1>7. ASSUME NEW q \in Nat, q < m_capacity
        PROVE  /\ was.pos <= q /\ q < p + n => At(q)' = call.bytes[q - was.pos + 1]
               /\ (q < was.pos \/ p + n <= q) /\ q < Len(was.data) => At(q)' = was.data[q + 1]
    <2>1. /\ was.pos <= q /\ q < p => At(q) = call.bytes[q - was.pos + 1]
          /\ (q < was.pos \/ p <= q) /\ q < Len(was.data) => At(q) = was.data[q + 1]
      BY <1>7 DEF Contents
    <2>2. CASE p <= q /\ q < p + n
      BY <1>1, <1>2, <1>4, <1>5, <1>7, <2>2, SMTT(30)
    <2>3. CASE ~ (p <= q /\ q < p + n)
      <3>1. At(q)' = At(q) BY <1>6, <1>7, <2>3
      <3>2. q < p \/ p + n <= q BY <1>1, <1>2, <2>3
      <3> QED BY <1>1, <1>2, <1>4, <2>1, <3>1, <3>2
    <2> QED BY <2>2, <2>3
  <1> QED BY <1>3, <1>7 DEF ContentsAfter

\* What a caller may ask for.
LEMMA RequestType ==
  ASSUME NEW r \in Requests
  PROVE  /\ r \in Calls /\ r.op \in Ops
         /\ r.op = "recv" => Len(r.bytes) <= r.n
  <1>1. ASSUME NEW s \in Texts PROVE s \in Seq(Byte) /\ Len(s) \in Nat
    BY ByteArrayAssumption DEF Texts
  <1>2. <<>> \in Seq(Byte) OBVIOUS
  <1>3. CASE r \in {Request(op, 0, s) : op \in {"write", "readFromFile"}, s \in Texts}
    <2>1. PICK op \in {"write", "readFromFile"}, s \in Texts : r = Request(op, 0, s) BY <1>3
    <2> QED BY <1>1, <2>1 DEF Request, Calls, Ops
  <1>4. CASE r \in {Request("recv", Len(s) + k, s) : s \in Texts, k \in {0, 1}}
    <2>1. PICK s \in Texts, k \in {0, 1} : r = Request("recv", Len(s) + k, s) BY <1>4
    <2> QED BY <1>1, <2>1 DEF Request, Calls, Ops
  <1>5. CASE r \in {Request(op, n, <<>>) : op \in {"read", "send", "setPosition"}, n \in 0 .. MaxSize}
    <2>1. PICK op \in {"read", "send", "setPosition"}, n \in 0 .. MaxSize : r = Request(op, n, <<>>) BY <1>5
    <2>2. n \in Nat BY ByteArrayAssumption
    <2> QED BY <1>2, <2>1, <2>2 DEF Request, Calls, Ops
  <1>6. CASE r \in {Request(op, 0, <<>>) : op \in {"toString", "clear", "writeToFile"}}
    <2>1. PICK op \in {"toString", "clear", "writeToFile"} : r = Request(op, 0, <<>>) BY <1>6
    <2> QED BY <1>2, <2>1 DEF Request, Calls, Ops
  <1> QED BY <1>3, <1>4, <1>5, <1>6 DEF Requests

-----------------------------------------------------------------------------
(***************************************************************************)
(* Every step keeps the invariant.                                          *)
(***************************************************************************)
\* What is left to show of a step to a place that is neither idle nor crashed.
LEMMA StepInv ==
  ASSUME IInv, pc # "idle", Shape', LocalTypes', Body', pc' \notin {"idle", "crashed"},
         UNCHANGED <<was, out, over, failed>>, m_capacity <= m_capacity'
  PROVE  IInv'
  <1>1. Called' BY DEF IInv, Called, Shape, LocalTypes
  <1>2. CrashesOnlyAtEnds' BY DEF CrashesOnlyAtEnds
  <1>3. OverrunIsRestOfChunk' BY DEF OverrunIsRestOfChunk, IInv, Called
  <1> QED BY <1>1, <1>2, <1>3 DEF IInv

\* What is left to show of a return.
LEMMA LeaveInv ==
  ASSUME IInv, pc # "idle", Shape', AtRest', Leave, UNCHANGED over
  PROVE  IInv'
  <1>1. LocalTypes'
    <2>1. <<>> \in Seq(Byte) /\ <<>> \in Seq(Nat \X Nat \X Nat) OBVIOUS
    <2>2. NoCall \in Calls BY <2>1 DEF NoCall, Calls, Ops
    <2>3. NotCalled \in [data : Seq(Byte), pos : Nat] BY <2>1 DEF NotCalled
    <2> QED BY <2>1, <2>2, <2>3 DEF Leave, LocalTypes, NULL
  <1>2. Idle' BY DEF Idle, Leave
  <1>3. pc' = "idle" BY DEF Leave
  <1>4. Body' BY <1>2, <1>3 DEF Body, Ops
  <1>5. CrashesOnlyAtEnds' BY <1>3 DEF CrashesOnlyAtEnds
  <1>6. OverrunIsRestOfChunk' BY DEF OverrunIsRestOfChunk, IInv, Called
  <1> QED BY <1>1, <1>3, <1>4, <1>5, <1>6 DEF IInv

\* The parts of the invariant that a step uses.
Numbers ==
    /\ m_baseSize \in Nat /\ m_baseSize > 0 /\ m_capacity \in Nat /\ m_position \in Nat /\ m_size \in Nat
    /\ m_size <= m_capacity /\ m_cur \in Nat /\ Len(m_nodes) \in Nat
    /\ npos \in Int /\ left \in Int /\ cur \in Nat
    /\ Len(buf) \in Nat /\ Len(file) \in Nat /\ call.n \in Nat /\ Len(call.bytes) \in Nat
    /\ was.pos \in Nat /\ Len(was.data) \in Nat
    /\ was.pos <= Len(was.data) /\ Len(was.data) <= m_capacity
Strings ==
    /\ buf \in Seq(Byte) /\ file \in Seq(Byte) /\ call.bytes \in Seq(Byte) /\ was.data \in Seq(Byte)
    /\ call \in Calls
LEMMA InvParts ==
  ASSUME IInv, pc # "idle"
  PROVE  Shape /\ LocalTypes /\ Called /\ Body /\ Numbers /\ Strings
  <1>1. Shape /\ LocalTypes /\ Called /\ Body BY DEF IInv
  <1>2. m_baseSize \in Nat \ {0} BY <1>1, BaseType
  <1>3. /\ m_capacity \in Nat /\ m_position \in Nat /\ m_size \in Nat
        /\ m_size <= m_capacity /\ m_cur \in Nat /\ Len(m_nodes) \in Nat
    BY <1>1, <1>2 DEF Shape
  <1>4. /\ npos \in Int /\ left \in Int /\ cur \in Nat
        /\ buf \in Seq(Byte) /\ Len(buf) \in Nat /\ file \in Seq(Byte) /\ Len(file) \in Nat
        /\ call \in Calls /\ was \in [data : Seq(Byte), pos : Nat]
    BY <1>1 DEF LocalTypes
  <1>5. call.n \in Nat /\ call.bytes \in Seq(Byte) /\ Len(call.bytes) \in Nat
    BY <1>4 DEF Calls
  <1>6. was.pos \in Nat /\ was.data \in Seq(Byte) /\ Len(was.data) \in Nat
    BY <1>4
  <1>7. was.pos <= Len(was.data) /\ Len(was.data) <= m_capacity BY <1>1 DEF Called
  <1> QED BY <1>1, <1>2, <1>3, <1>4, <1>5, <1>6, <1>7 DEF Numbers, Strings

\* The start of write(), of s.
LEMMA StartWriteInv ==
  ASSUME IInv, pc \in {"write", "loadLoop"}, NEW s \in Seq(Byte), s # <<>>, StartWrite(s),
         call.op \in {"write", "readFromFile"}, AtRest, Sized, Contents(m_position),
         ToWrite(s, m_position), file' \in Seq(Byte), ToWrite(file', m_position + Len(s)),
         m_position - was.pos + Len(s) + Len(file') = Len(call.bytes),
         call.op = "write" => file' = <<>>
  PROVE  IInv'
  <1>1. pc # "idle" OBVIOUS
  <1>0. Shape /\ LocalTypes /\ Called /\ Body /\ Numbers /\ Strings BY <1>1, InvParts
  <1> USE <1>0, <1>1 DEF Numbers
  <1>2. /\ UNCHANGED <<m_baseSize, m_position, m_size, call, left, cur, iovs, out, over, failed, was>>
        /\ addCapacity(Len(s)) /\ pc' = "writeLoop" /\ npos' = FirstNpos /\ buf' = s
    BY DEF StartWrite, resultVars
  <1>3. Len(s) \in Nat /\ Len(s) > 0 BY EmptySeq, LenProperties
  <1>4. Points(m_cur, m_position) /\ m_position <= m_size BY DEF AtRest
  <1>5. /\ Shape' /\ m_capacity <= m_capacity' /\ m_position + Len(s) <= m_capacity'
        /\ Points(m_cur, m_position)'
        /\ \A q \in Nat : q < m_capacity => At(q)' = At(q)
    BY <1>2, <1>3, <1>4, Grown
  <1>6. m_capacity' \in Nat /\ m_cur' \in Nat BY <1>5, BaseType DEF Shape
  <1>7. ContentsAfter(m_position) BY <1>4, <1>5, <1>6, KeepsContents
  <1>8. FirstNpos \in Int BY Division, m_position \in Int DEF FirstNpos
  <1>9. LocalTypes' BY <1>2, <1>6, <1>8 DEF LocalTypes, Loops
  <1>10. Writing'
    <2>1. Inside(m_cur, npos, m_position)'
      <3>4. m_position + Len(s) <= m_capacity' BY <1>5
      <3>5. m_position' = m_position BY <1>2
      <3>6. m_position < m_capacity' BY <1>3, <1>6, <3>4
      <3>1. m_position' \in Nat /\ m_position' < m_capacity' /\ m_position' # m_capacity' BY <1>6, <3>5, <3>6
      <3>2. m_cur' = (m_position' \div m_baseSize') + 1 BY <1>5, <3>1 DEF Points
      <3>3. npos' = m_position' % m_baseSize' BY <1>2 DEF FirstNpos
      <3> QED BY <3>1, <3>2, <3>3 DEF Inside
    <2>2. Contents(m_position)' BY <1>2, <1>7 DEF Contents, ContentsAfter
    <2>3. ToWrite(buf, m_position)' /\ ToWrite(file, m_position + Len(buf))' BY <1>2 DEF ToWrite
    <2>4. Sized' BY <1>2 DEF Sized
    <2> QED BY <1>2, <1>5, <2>1, <2>2, <2>3, <2>4 DEF Writing
  <1>11. Body' BY <1>2, <1>10 DEF Body, Ops
  <1> QED BY <1>2, <1>5, <1>9, <1>11, StepInv

LEMMA WriteInv ==
  ASSUME IInv, Write
  PROVE  IInv'
  <1>1. pc # "idle" /\ pc = "write" BY DEF Write
  <1>0. Shape /\ LocalTypes /\ Called /\ Body /\ Numbers /\ Strings BY <1>1, InvParts
  <1> USE <1>0, <1>1 DEF Numbers
  <1>2. Entry BY DEF Body, Ops
  <1>3. call.bytes # <<>> /\ StartWrite(call.bytes) /\ file' = file BY DEF Write
  <1>4. AtRest /\ Sized /\ Contents(m_position) /\ call.op = "write" /\ file = <<>> /\ m_position = was.pos
    BY <1>2 DEF Entry, Same, Sized
  <1>5. ToWrite(call.bytes, m_position) /\ ToWrite(file', m_position + Len(call.bytes))
    <2>1. \A i \in 1 .. Len(call.bytes) : m_position - was.pos + i = i BY <1>4
    <2>2. Len(file') = 0 BY <1>3, <1>4
    <2> QED BY <1>3, <1>4, <2>1, <2>2, SMTT(30) DEF ToWrite
  <1>6. file' \in Seq(Byte) /\ call.bytes \in Seq(Byte) BY <1>3 DEF Strings
  <1>7. m_position - was.pos + Len(call.bytes) + Len(file') = Len(call.bytes) BY <1>3, <1>4
  <1> QED BY <1>3, <1>4, <1>5, <1>6, <1>7, StartWriteInv

LEMMA LoadChunkInv ==
  ASSUME IInv, LoadChunk
  PROVE  IInv'
  <1>1. pc # "idle" /\ pc = "loadLoop" BY DEF LoadChunk
  <1>0. Shape /\ LocalTypes /\ Called /\ Body /\ Numbers /\ Strings BY <1>1, InvParts
  <1> USE <1>0, <1>1 DEF Numbers
  <1>2. Loading BY DEF Body
  <1> DEFINE n == FileRead
             s == SubSeq(file, 1, n)
             t == SubSeq(file, n + 1, Len(file))
  <1>3. file # <<>> /\ StartWrite(s) /\ file' = t BY DEF LoadChunk
  <1>4. /\ AtRest /\ Sized /\ Contents(m_position) /\ call.op = "readFromFile"
        /\ ToWrite(file, m_position) /\ m_position - was.pos + Len(file) = Len(call.bytes)
    BY <1>2 DEF Loading
  <1>5. n \in 1 .. Len(file) BY <1>3 DEF FileRead
  <1>6. s \in Seq(Byte) /\ Len(s) = n /\ \A i \in 1 .. n : s[i] = file[i]
    <2>1. \A i \in 1 .. n : file[i] \in Byte BY <1>5 DEF Strings
    <2> HIDE DEF n
    <2> QED BY <1>5, <2>1, SubSeqProperties
  <1>7. t \in Seq(Byte) /\ Len(t) = Len(file) - n /\ \A i \in 1 .. Len(t) : t[i] = file[n + i]
    <2>1. \A i \in n + 1 .. Len(file) : file[i] \in Byte BY <1>5 DEF Strings
    <2> HIDE DEF n
    <2> QED BY <1>5, <2>1, SubSeqProperties
  <1> HIDE DEF n, s, t
  <1>8. was.pos <= m_position /\ \A i \in 1 .. Len(file) : file[i] = call.bytes[m_position - was.pos + i]
    BY <1>4 DEF ToWrite
  <1>13. Len(s) = n /\ Len(file') = Len(file) - n /\ n <= Len(file) /\ n \in Nat
    BY <1>3, <1>5, <1>6, <1>7
  <1>14. m_position - was.pos + Len(file) = Len(call.bytes) BY <1>4
  <1>9. ToWrite(s, m_position)
    <2>1. m_position - was.pos + Len(s) <= Len(call.bytes) BY <1>13, <1>14
    <2>2. \A i \in 1 .. Len(s) : i \in 1 .. n /\ i \in 1 .. Len(file) BY <1>13
    <2> QED BY <1>6, <1>8, <2>1, <2>2 DEF ToWrite
  <1>10. ToWrite(file', m_position + Len(s))
    <2>1. ASSUME NEW i \in 1 .. Len(t) PROVE t[i] = call.bytes[(m_position + n) - was.pos + i]
      <3>3. n \in Nat /\ i \in Nat /\ 1 <= i /\ i <= Len(t) /\ Len(t) \in Nat BY <1>5, <1>7
      <3>4. Len(t) = Len(file) - n BY <1>7
      <3>5. n + i \in 1 .. Len(file) BY <3>3, <3>4
      <3>1. n + i \in 1 .. Len(file) /\ m_position - was.pos + (n + i) = (m_position + n) - was.pos + i
        BY <3>3, <3>5
      <3>2. file[n + i] = call.bytes[m_position - was.pos + (n + i)] BY <1>8, <3>1
      <3> QED BY <1>7, <3>1, <3>2
    <2>2. was.pos <= m_position + Len(s) /\ (m_position + Len(s)) - was.pos + Len(file') <= Len(call.bytes)
      <3>1. was.pos <= m_position BY <1>8
      <3> QED BY <1>13, <1>14, <3>1, SMTT(30)
    <2>3. \A i \in 1 .. Len(file') : file'[i] = call.bytes[(m_position + Len(s)) - was.pos + i]
      BY <1>3, <1>13, <2>1
    <2> QED BY <2>2, <2>3 DEF ToWrite
  <1>11. s # <<>> BY <1>5, <1>6
  <1>12. m_position - was.pos + Len(s) + Len(file') = Len(call.bytes)
    BY <1>13, <1>14
  <1> QED BY <1>3, <1>4, <1>6, <1>7, <1>9, <1>10, <1>11, <1>12, StartWriteInv

\* A return that leaves the array as it is.
LEMMA ReturnInv ==
  ASSUME IInv, pc # "idle", Leave, UNCHANGED <<arrayVars, over>>, AtRest
  PROVE  IInv'
  <1>1. Shape' BY DEF IInv, Shape, arrayVars
  <1>2. AtRest' BY DEF AtRest, Points, arrayVars
  <1> QED BY <1>1, <1>2, LeaveInv

LEMMA WriteNothingInv ==
  ASSUME IInv, WriteNothing \/ LoadEnd
  PROVE  IInv'
  <1>1. pc # "idle" /\ pc \in {"write", "loadLoop"} /\ Leave /\ UNCHANGED <<arrayVars, over>>
    BY DEF WriteNothing, LoadEnd, Return
  <1>2. AtRest BY <1>1 DEF IInv, Body, Entry, Loading, Ops
  <1> QED BY <1>1, <1>2, ReturnInv

LEMMA FailInv ==
  ASSUME IInv, OpenFails \/ ReadThrows \/ SetPositionThrows
  PROVE  IInv'
  <1>1. pc # "idle" /\ pc \in Ops /\ Leave /\ UNCHANGED <<arrayVars, over>>
    BY DEF OpenFails, ReadThrows, SetPositionThrows, Fail, Ops
  <1>2. AtRest BY <1>1 DEF IInv, Body, Entry
  <1> QED BY <1>1, <1>2, ReturnInv

LEMMA OpenFileInv ==
  ASSUME IInv, OpenFile
  PROVE  IInv'
  <1>1. pc # "idle" /\ pc = "readFromFile" BY DEF OpenFile
  <1>0. Shape /\ LocalTypes /\ Called /\ Body /\ Numbers /\ Strings BY <1>1, InvParts
  <1> USE <1>0, <1>1 DEF Numbers
  <1>2. Entry BY DEF Body, Ops
  <1>3. /\ UNCHANGED <<m_baseSize, m_nodes, m_position, m_capacity, m_size, m_cur>>
        /\ UNCHANGED <<call, npos, left, cur, buf, iovs, out, over, failed, was>>
        /\ pc' = "loadLoop" /\ file' = call.bytes
    BY DEF OpenFile, arrayVars, resultVars
  <1>4. Shape' BY <1>3 DEF Shape
  <1>5. LocalTypes' BY <1>3 DEF LocalTypes, Loops, Strings
  <1>6. Loading'
    <2>1. \A i \in 1 .. Len(call.bytes) : was.pos - was.pos + i = i OBVIOUS
    <2>6. m_position = was.pos BY <1>2 DEF Entry, Same
    <2>7. ToWrite(call.bytes, m_position) BY <2>1, <2>6 DEF ToWrite
    <2>2. ToWrite(file, m_position)' BY <1>3, <2>7 DEF ToWrite
    <2>3. \A q \in Nat : At(q)' = At(q) BY <1>3, AtKept
    <2>4. Contents(m_position)' BY <1>2, <1>3, <2>3 DEF Contents, Entry, Same
    <2>5. AtRest' /\ Sized' BY <1>2, <1>3 DEF Entry, AtRest, Points, Sized, Same
    <2> QED BY <1>2, <1>3, <2>2, <2>4, <2>5 DEF Loading, Entry, Same
  <1>7. Body' BY <1>3, <1>6 DEF Body, Ops
  <1> QED BY <1>3, <1>4, <1>5, <1>7, StepInv

\* One memcpy of write() into the chunk of the position, of n bytes.
LEMMA WriteCopy ==
  ASSUME IInv, pc = "writeLoop", NEW n \in 0 .. Len(buf), n <= Ncap,
         m_nodes' = Copied(m_cur, npos, buf, n), UNCHANGED <<m_baseSize, m_capacity>>
  PROVE  /\ Inside(m_cur, npos, m_position) /\ npos \in 0 .. m_baseSize - 1
         /\ m_nodes' \in Seq([0 .. m_baseSize - 1 -> Byte]) /\ Len(m_nodes') = Len(m_nodes)
         /\ ContentsAfter(m_position + n)
  <1>1. pc # "idle" OBVIOUS
  <1>0. Shape /\ LocalTypes /\ Called /\ Body /\ Numbers /\ Strings BY <1>1, InvParts
  <1> USE <1>0, <1>1 DEF Numbers
  <1>2. Writing BY DEF Body
  <1>3. Inside(m_cur, npos, m_position) /\ Contents(m_position) /\ ToWrite(buf, m_position) BY <1>2 DEF Writing
  <1>4. npos \in 0 .. m_baseSize - 1 BY <1>3, InsideFacts
  <1>5. npos + n <= m_baseSize BY <1>4 DEF Ncap
  <1>6. buf \in Seq(Byte) BY DEF Strings
  <1> QED BY <1>3, <1>4, <1>5, <1>6, WritesContents

LEMMA WriteChunkInv ==
  ASSUME IInv, WriteChunk
  PROVE  IInv'
  <1>1. pc # "idle" /\ pc = "writeLoop" BY DEF WriteChunk
  <1>0. Shape /\ LocalTypes /\ Called /\ Body /\ Numbers /\ Strings BY <1>1, InvParts
  <1> USE <1>0, <1>1 DEF Numbers
  <1>2. Writing BY DEF Body
  <1> DEFINE n == Ncap
             t == SubSeq(buf, n + 1, Len(buf))
  <1>3. /\ n < Len(buf) /\ m_nodes' = Copied(m_cur, npos, buf, n) /\ m_position' = m_position + n
        /\ buf' = t /\ m_cur' = NextNode(m_cur) /\ npos' = 0
        /\ UNCHANGED <<m_baseSize, m_capacity, m_size, pc, call, left, cur, iovs, file, out, over, failed, was>>
    BY DEF WriteChunk, resultVars
  <1>4. /\ Inside(m_cur, npos, m_position) /\ npos \in 0 .. m_baseSize - 1
    BY <1>2, InsideFacts DEF Writing
  <1>5. n \in 1 .. Len(buf) - 1 /\ n \in 0 .. Len(buf) BY <1>3, <1>4 DEF Ncap
  <1>6. /\ m_nodes' \in Seq([0 .. m_baseSize - 1 -> Byte]) /\ Len(m_nodes') = Len(m_nodes)
        /\ ContentsAfter(m_position + n)
    BY <1>3, <1>5, WriteCopy
  <1>7. t \in Seq(Byte) /\ Len(t) = Len(buf) - n /\ \A i \in 1 .. Len(t) : t[i] = buf[n + i]
    <2>1. \A i \in n + 1 .. Len(buf) : buf[i] \in Byte BY <1>5 DEF Strings
    <2> HIDE DEF n
    <2> QED BY <1>5, <2>1, SubSeqProperties
  <1>8. m_position + n < m_capacity /\ m_position + n \in Nat
    BY <1>2, <1>3, <1>5 DEF Writing
  <1>9. Inside(NextNode(m_cur), 0, m_position + n)
    BY <1>4, <1>8, NextChunk DEF Ncap
  <1>10. NextNode(m_cur) \in Nat BY DEF NextNode, NULL
  <1> HIDE DEF n, t
  <1>11. Shape' BY <1>3, <1>6, <1>8, <1>10 DEF Shape
  <1>12. LocalTypes' BY <1>3, <1>7 DEF LocalTypes
  <1>13. Writing'
    <2>1. Inside(m_cur, npos, m_position)' BY <1>3, <1>9 DEF Inside
    <2>2. Contents(m_position)' BY <1>3, <1>6 DEF Contents, ContentsAfter
    <2>3. ToWrite(buf, m_position) BY <1>2 DEF Writing
    <2>4. ToWrite(t, m_position + n)
      <3>1. ASSUME NEW i \in 1 .. Len(t) PROVE t[i] = call.bytes[(m_position + n) - was.pos + i]
        <4>1. Len(t) = Len(buf) - n /\ Len(t) \in Nat /\ n \in Nat BY <1>5, <1>7
        <4>2. n + i \in 1 .. Len(buf) BY <4>1
        <4>3. m_position - was.pos + (n + i) = (m_position + n) - was.pos + i BY <4>1
        <4>4. buf[n + i] = call.bytes[m_position - was.pos + (n + i)] BY <2>3, <4>2 DEF ToWrite
        <4> QED BY <1>7, <4>3, <4>4
      <3>2. was.pos <= m_position + n /\ (m_position + n) - was.pos + Len(t) <= Len(call.bytes)
        <4>1. Len(t) = Len(buf) - n /\ Len(t) \in Nat /\ n \in Nat BY <1>5, <1>7
        <4> QED BY <2>3, <4>1, SMTT(30) DEF ToWrite
      <3> QED BY <3>1, <3>2 DEF ToWrite
    <2>5. (m_position + n) + Len(t) = m_position + Len(buf) BY <1>5, <1>7
    <2>6. ToWrite(buf, m_position)' BY <1>3, <2>4 DEF ToWrite
    <2>7. ToWrite(file, m_position + Len(buf))' BY <1>2, <1>3, <2>5 DEF ToWrite, Writing
    <2>8. (m_position + Len(buf) <= m_capacity)' BY <1>2, <1>3, <2>5 DEF Writing
    <2>9. (m_position - was.pos + Len(buf) + Len(file) = Len(call.bytes))'
      <3>1. m_position - was.pos + Len(buf) + Len(file) = Len(call.bytes) BY <1>2 DEF Writing
      <3>2. Len(t) = Len(buf) - n /\ n \in Nat BY <1>5, <1>7
      <3>3. (m_position + n) - was.pos + Len(t) + Len(file) = Len(call.bytes) BY <3>1, <3>2
      <3> QED BY <1>3, <3>3
    <2>10. (buf # <<>>)'
      <3>1. Len(t) > 0 BY <1>5, <1>7
      <3> QED BY <1>3, <3>1
    <2>11. Sized'
      <3>1. m_size <= m_position => m_size <= m_position + n BY <1>5
      <3> QED BY <1>2, <1>3, <3>1 DEF Sized, Writing
    <2> QED BY <1>2, <1>3, <2>1, <2>2, <2>6, <2>7, <2>8, <2>9, <2>10, <2>11 DEF Writing
  <1>14. Body' BY <1>3, <1>13 DEF Body, Ops
  <1> QED BY <1>3, <1>11, <1>12, <1>14, StepInv

LEMMA WriteLastInv ==
  ASSUME IInv, WriteLast
  PROVE  IInv'
  <1>1. pc # "idle" /\ pc = "writeLoop" BY DEF WriteLast
  <1>0. Shape /\ LocalTypes /\ Called /\ Body /\ Numbers /\ Strings BY <1>1, InvParts
  <1> USE <1>0, <1>1 DEF Numbers
  <1>2. Writing BY DEF Body
  <1> DEFINE n == Len(buf)
  <1>3. /\ n <= Ncap /\ m_nodes' = Copied(m_cur, npos, buf, n) /\ m_position' = m_position + n
        /\ m_cur' = MovedOn(m_cur, n) /\ m_size' = GrownSize(m_position + n)
        /\ UNCHANGED <<m_baseSize, m_capacity>>
    BY DEF WriteLast
  <1>4. Inside(m_cur, npos, m_position) /\ npos \in 0 .. m_baseSize - 1
    BY <1>2, InsideFacts DEF Writing
  <1>5. n \in 0 .. m_baseSize - npos /\ n \in Nat BY <1>3, <1>4 DEF Ncap
  <1>6. /\ m_nodes' \in Seq([0 .. m_baseSize - 1 -> Byte]) /\ Len(m_nodes') = Len(m_nodes)
        /\ ContentsAfter(m_position + n)
    BY <1>3, WriteCopy, n \in 0 .. Len(buf)
  <1>7. Points(MovedOn(m_cur, n), m_position + n) /\ m_position + n <= m_capacity /\ MovedOn(m_cur, n) \in Nat
    BY <1>4, <1>5, MovedOnPoints
  <1>8. /\ m_size' \in Nat /\ m_size' <= m_capacity /\ m_position' <= m_size'
        /\ m_size' = IF m_position + n > m_size THEN m_position + n ELSE m_size
    <2>1. PICK e \in Nat : e = m_position + n BY <1>5
    <2>2. m_size' = IF e > m_size THEN e ELSE m_size BY <1>3, <2>1 DEF GrownSize
    <2>3. e <= m_capacity /\ m_position' = e BY <1>3, <1>7, <2>1
    <2>4. m_size' \in Nat /\ m_size' <= m_capacity /\ e <= m_size' BY <2>2, <2>3
    <2> QED BY <2>1, <2>2, <2>3, <2>4
  <1>9. Shape' BY <1>3, <1>5, <1>6, <1>7, <1>8, SMTT(30) DEF Shape
  <1>10. AtRest' BY <1>3, <1>7, <1>8 DEF AtRest, Points
  <1>11. CASE call.op = "write" /\ Return(<<>>)
    BY <1>9, <1>10, <1>11, LeaveInv DEF Return
  <1>12. CASE /\ call.op = "readFromFile"
              /\ pc' = "loadLoop" /\ npos' = 0 /\ buf' = <<>>
              /\ UNCHANGED <<call, left, cur, iovs, file, resultVars, was>>
    <2>1. UNCHANGED <<call, left, cur, iovs, file, out, over, failed, was>> BY <1>12 DEF resultVars
    <2>2. LocalTypes' BY <1>12, <2>1 DEF LocalTypes, Loops
    <2>3. Loading'
      <3>1. Contents(m_position)' BY <1>3, <1>6, <2>1 DEF Contents, ContentsAfter
      <3>2. ToWrite(file, m_position)' BY <1>2, <1>3, <2>1 DEF ToWrite, Writing
      <3>3. m_position - was.pos + n + Len(file) = Len(call.bytes) BY <1>2 DEF Writing
      <3>4. (m_position + n) - was.pos + Len(file) = Len(call.bytes) BY <1>5, <3>3
      <3>5. (m_position - was.pos + Len(file) = Len(call.bytes))' BY <1>3, <2>1, <3>4
      <3>7. Len(was.data) <= m_size /\ (m_size = Len(was.data) \/ m_size <= m_position)
        BY <1>2 DEF Sized, Writing
      <3>8. \/ m_size' = m_size /\ m_position + n <= m_size
            \/ m_size' = m_position + n /\ m_size <= m_position + n
        BY <1>5, <1>8
      <3>9. Len(was.data) <= m_size' /\ (m_size' = Len(was.data) \/ m_size' <= m_position + n)
        BY <1>5, <3>7, <3>8
      <3>6. Sized' BY <1>3, <2>1, <3>9 DEF Sized
      <3> QED BY <1>10, <1>12, <2>1, <3>1, <3>2, <3>5, <3>6 DEF Loading
    <2>4. Body' BY <1>12, <2>3 DEF Body, Ops
    <2> QED BY <1>3, <1>9, <1>12, <2>1, <2>2, <2>4, StepInv
  <1> QED BY <1>11, <1>12 DEF WriteLast

-----------------------------------------------------------------------------
\* read() and toString().
LEMMA ReadInv ==
  ASSUME IInv, Read
  PROVE  IInv'
  <1>1. pc # "idle" /\ pc = "read" BY DEF Read
  <1>0. Shape /\ LocalTypes /\ Called /\ Body /\ Numbers /\ Strings BY <1>1, InvParts
  <1> USE <1>0, <1>1 DEF Numbers
  <1>2. Entry BY DEF Body, Ops
  <1>3. /\ UNCHANGED <<m_baseSize, m_nodes, m_position, m_capacity, m_size, m_cur>>
        /\ UNCHANGED <<call, cur, buf, iovs, file, out, over, failed, was>>
        /\ pc' = "readLoop" /\ npos' = FirstNpos /\ left' = call.n /\ call.n <= ReadSize
    BY DEF Read, arrayVars, resultVars
  <1>4. Shape' BY <1>3 DEF Shape
  <1>5. FirstNpos \in Int BY Division, m_position \in Int DEF FirstNpos
  <1>6. LocalTypes' BY <1>3, <1>5 DEF LocalTypes, Loops
  <1>7. Reading'
    <2>1. call.op = "read" /\ m_position = was.pos /\ m_size = Len(was.data) /\ Contents(was.pos) /\ buf = <<>>
      BY <1>2 DEF Entry, Same
    <2>2. Points(m_cur, m_position) /\ m_position <= m_size BY <1>2 DEF Entry, AtRest
    <2>3. m_position + call.n <= m_size BY <1>3 DEF ReadSize
    <2>4. m_cur = NULL => call.n = 0 /\ was.pos = m_capacity
      <3>3. m_position \div m_baseSize \in Int /\ m_position \div m_baseSize >= 0
        BY Division, m_position \in Int, m_position >= 0, m_baseSize \in Nat \ {0}
      <3>1. (m_position \div m_baseSize) + 1 > 0 BY <3>3
      <3>2. m_cur = NULL => m_position = m_capacity BY <2>2, <3>1 DEF Points, NULL
      <3> QED BY <2>1, <2>3, <3>2
    <2>5. \A q \in Nat : At(q)' = At(q) BY <1>3, AtKept
    <2>6. Contents(was.pos)' BY <1>3, <2>1, <2>5 DEF Contents
    <2>7. Points(m_cur, m_position)' BY <1>3, <2>2 DEF Points
    <2>8. npos' = m_position' % m_baseSize' BY <1>3 DEF FirstNpos
    <2>9. Reads(buf)' BY <1>3, <2>1 DEF Reads
    <2>10. (m_position = was.pos + Len(buf))' BY <1>3, <2>1
    <2>11. (call.n + was.pos = m_position + left /\ left >= 0 /\ m_position + left <= m_size)' BY <1>3, <2>1, <2>3
    <2>12. (left = 0 => call.n = 0)' BY <1>3
    <2> QED BY <1>3, <2>1, <2>4, <2>6, <2>7, <2>8, <2>9, <2>10, <2>11, <2>12 DEF Reading
  <1>8. Body' BY <1>3, <1>7 DEF Body, Ops
  <1> QED BY <1>3, <1>4, <1>6, <1>8, StepInv

\* A sequence and its continuation, both taken from what was there.
LEMMA ConcatReads ==
  ASSUME NEW s \in Seq(Byte), NEW t \in Seq(Byte), was.pos \in Nat,
         \A i \in 1 .. Len(s) : s[i] = was.data[was.pos + i],
         \A i \in 1 .. Len(t) : t[i] = was.data[(was.pos + Len(s)) + i]
  PROVE  /\ s \o t \in Seq(Byte) /\ Len(s \o t) = Len(s) + Len(t)
         /\ \A i \in 1 .. Len(s) + Len(t) : (s \o t)[i] = was.data[was.pos + i]
  <1> DEFINE c == s \o t
  <1>1. /\ c \in Seq(Byte) /\ Len(c) = Len(s) + Len(t)
        /\ \A i \in 1 .. Len(s) + Len(t) : c[i] = IF i <= Len(s) THEN s[i] ELSE t[i - Len(s)]
    BY ConcatProperties
  <1>2. Len(s) \in Nat /\ Len(t) \in Nat OBVIOUS
  <1> HIDE DEF c
  <1>3. ASSUME NEW i \in 1 .. Len(s) + Len(t) PROVE c[i] = was.data[was.pos + i]
    <2>1. CASE i <= Len(s) BY <1>1, <1>2, <2>1, SMTT(30)
    <2>2. CASE i > Len(s)
      <3>1. i - Len(s) \in 1 .. Len(t) /\ (was.pos + Len(s)) + (i - Len(s)) = was.pos + i BY <1>2, <2>2
      <3>2. c[i] = t[i - Len(s)] BY <1>1, <1>2, <2>2
      <3> QED BY <3>1, <3>2
    <2> QED BY <1>2, <2>1, <2>2
  <1> QED BY <1>1, <1>3 DEF c

\* What a loop reads next belongs to what was there.
LEMMA ReadsMore ==
  ASSUME Shape, Contents(was.pos), was.pos \in Nat, Len(was.data) \in Nat, Len(was.data) <= m_capacity,
         NEW k \in Nat, NEW off \in Nat, NEW s \in Seq(Byte), Reads(s), Inside(k, off, was.pos + Len(s)),
         NEW n \in Nat, off + n <= m_baseSize, was.pos + Len(s) + n <= Len(was.data)
  PROVE  /\ s \o Part(k, off, n) \in Seq(Byte) /\ Len(s \o Part(k, off, n)) = Len(s) + n
         /\ Reads(s \o Part(k, off, n))
  <1>1. m_baseSize \in Nat /\ m_capacity \in Nat BY BaseType DEF Shape
  <1>2. PICK p \in Nat : p = was.pos + Len(s) OBVIOUS
  <1> DEFINE t == Part(k, off, n)
  <1>3. t \in Seq(Byte) /\ Len(t) = n /\ \A i \in 1 .. n : t[i] = At(p + i - 1)
    BY <1>1, <1>2, PartAt, n \in 0 .. m_baseSize - off, SMTT(30)
  <1> HIDE DEF t
  <1>4. ASSUME NEW i \in 1 .. Len(t) PROVE t[i] = was.data[(was.pos + Len(s)) + i]
    <2>1. i \in Nat /\ 1 <= i /\ i <= n BY <1>3
    <2>2. PICK q \in Nat : q = p + i - 1 BY <2>1
    <2>6. p + n <= Len(was.data) /\ was.pos <= p BY <1>2, SMTT(30)
    <2>7. q + 1 = p + i BY <2>1, <2>2
    <2>8. q < Len(was.data) BY <2>1, <2>6, <2>7, SMTT(30)
    <2>9. was.pos <= q BY <2>1, <2>6, <2>7
    <2>11. q + 1 = (was.pos + Len(s)) + i BY <1>2, <2>7
    <2>3. q < Len(was.data) /\ was.pos <= q /\ q + 1 = (was.pos + Len(s)) + i BY <2>8, <2>9, <2>11
    <2>5. q < m_capacity BY <1>1, <2>3
    <2>4. At(q) = was.data[q + 1] BY <2>3, <2>5 DEF Contents
    <2> QED BY <1>3, <2>1, <2>2, <2>3, <2>4
  <1>5. \A i \in 1 .. Len(s) : s[i] = was.data[was.pos + i] BY DEF Reads
  <1>10. t \in Seq(Byte) BY <1>3
  <1>7. /\ s \o t \in Seq(Byte) /\ Len(s \o t) = Len(s) + Len(t)
        /\ \A i \in 1 .. Len(s) + Len(t) : (s \o t)[i] = was.data[was.pos + i]
    BY <1>10, <1>5, <1>4, ConcatReads
  <1>8. was.pos + (Len(s) + Len(t)) <= Len(was.data) BY <1>3
  <1>9. Reads(s \o t) BY <1>7, <1>8 DEF Reads
  <1> QED BY <1>3, <1>7, <1>9 DEF t

\* Where the loop of read() is.
LEMMA ReadingInside ==
  ASSUME IInv, pc = "readLoop", m_cur # NULL
  PROVE  Inside(m_cur, npos, m_position) /\ npos \in Nat /\ npos < m_baseSize /\ m_position < m_capacity
  <1>1. pc # "idle" OBVIOUS
  <1>0. Shape /\ LocalTypes /\ Called /\ Body /\ Numbers /\ Strings BY <1>1, InvParts
  <1>2. Reading BY <1>0 DEF Body
  <1>3. Points(m_cur, m_position) /\ npos = m_position % m_baseSize /\ m_position + left <= m_size /\ left >= 0
    BY <1>2 DEF Reading
  <1>4. m_position # m_capacity BY <1>3 DEF Points
  <1>5. m_position <= m_capacity BY <1>0, <1>3 DEF Numbers
  <1>6. m_position < m_capacity BY <1>0, <1>4, <1>5 DEF Numbers
  <1>7. Inside(m_cur, npos, m_position) BY <1>0, <1>3, <1>6, PointsInside DEF Numbers
  <1>8. npos \in 0 .. m_baseSize - 1 /\ m_baseSize \in Nat BY <1>0, <1>7, InsideFacts
  <1>9. npos \in Nat /\ npos < m_baseSize BY <1>8
  <1> QED BY <1>6, <1>7, <1>9

LEMMA ReadChunkInv ==
  ASSUME IInv, ReadChunk
  PROVE  IInv'
  <1>1. pc # "idle" /\ pc = "readLoop" BY DEF ReadChunk
  <1>0. Shape /\ LocalTypes /\ Called /\ Body /\ Numbers /\ Strings BY <1>1, InvParts
  <1> USE <1>0, <1>1 DEF Numbers
  <1>2. Reading BY DEF Body
  <1> DEFINE n == Ncap
             t == buf \o ChunkRest
  <1>3. /\ m_cur # NULL /\ n < left /\ m_position' = m_position + n /\ left' = left - n
        /\ buf' = t /\ m_cur' = NextNode(m_cur) /\ npos' = 0
        /\ UNCHANGED <<m_baseSize, m_nodes, m_capacity, m_size, pc, call, cur, iovs, file, out, over, failed, was>>
    BY DEF ReadChunk, resultVars
  <1>4. /\ call.op = "read" /\ call.n + was.pos = m_position + left /\ left >= 0
        /\ m_position + left <= m_size /\ m_size = Len(was.data)
        /\ m_position = was.pos + Len(buf) /\ Reads(buf) /\ Contents(was.pos)
    BY <1>2 DEF Reading
  <1>5. Inside(m_cur, npos, m_position) /\ npos \in Nat /\ npos < m_baseSize BY <1>3, ReadingInside
  <1>6. n \in Nat /\ npos + n = m_baseSize /\ n > 0 BY <1>5 DEF Ncap
  <1>7. t = buf \o Part(m_cur, npos, n) BY DEF ChunkRest
  <1> HIDE DEF n, t
  <1>16. n < left BY <1>3
  <1>17. m_position + left <= m_size BY <1>4
  <1>18. m_position + n < m_size BY <1>6, <1>16, <1>17
  <1>8. m_position + n < m_size /\ m_position + n < m_capacity /\ m_position + n \in Nat BY <1>6, <1>18
  <1>9. t \in Seq(Byte) /\ Len(t) = Len(buf) + n /\ Reads(t)
    <2>1. buf \in Seq(Byte) BY DEF Strings
    <2>2. Inside(m_cur, npos, was.pos + Len(buf)) BY <1>4, <1>5
    <2>3. was.pos + Len(buf) + n <= Len(was.data) BY <1>4, <1>8, SMTT(30)
    <2>4. npos + n <= m_baseSize BY <1>6
    <2> QED BY <1>4, <1>5, <1>6, <1>7, <2>1, <2>2, <2>3, <2>4, ReadsMore
  <1>10. Points(NextNode(m_cur), m_position + n) /\ (m_position + n) % m_baseSize = 0
    BY <1>5, NextChunk DEF Ncap, n
  <1>11. NextNode(m_cur) \in Nat /\ NextNode(m_cur) # NULL
    <2>1. Inside(NextNode(m_cur), 0, m_position + n) BY <1>5, <1>8, NextChunk DEF Ncap, n
    <2>2. NextNode(m_cur) \in 1 .. Len(m_nodes) BY <2>1, InsideFacts
    <2> QED BY <2>2 DEF NULL
  <1>12. Shape' BY <1>3, <1>8, <1>11 DEF Shape
  <1>13. LocalTypes' BY <1>3, <1>6, <1>9 DEF LocalTypes
  <1>14. Reading'
    <2>1. Points(m_cur, m_position)' BY <1>3, <1>10 DEF Points
    <2>2. (npos = m_position % m_baseSize)' BY <1>3, <1>10
    <2>3. \A q \in Nat : At(q)' = At(q) BY <1>3, AtKept
    <2>4. Contents(was.pos)' BY <1>3, <1>4, <2>3 DEF Contents
    <2>5. Reads(buf)' BY <1>3, <1>9 DEF Reads
    <2>6. (m_position + n) + (left - n) = m_position + left /\ left - n >= 0 BY <1>3, <1>6
    <2>7. (call.n + was.pos = m_position + left /\ left >= 0 /\ m_position + left <= m_size)'
      BY <1>3, <1>4, <2>6
    <2>8. m_position + n = was.pos + Len(t) BY <1>4, <1>6, <1>9, SMTT(30)
    <2>9. (m_position = was.pos + Len(buf))' BY <1>3, <2>8
    <2>10. left' # 0 BY <1>3, <1>6
    <2> QED BY <1>3, <1>4, <1>11, <2>1, <2>2, <2>4, <2>5, <2>7, <2>9, <2>10 DEF Reading
  <1>15. Body' BY <1>3, <1>14 DEF Body, Ops
  <1> QED BY <1>3, <1>12, <1>13, <1>15, StepInv

\* The end of read(), with what it returns and what it writes behind the buffer.
LEMMA ReadLastResult ==
  ASSUME IInv, ReadLast
  PROVE  /\ Reads(out') /\ out' \in Seq(Byte) /\ Len(out') = call.n
         /\ over' = Ncap - left /\ Ncap - left \in Nat
         /\ Inside(m_cur, npos, m_position) /\ left \in 1 .. m_baseSize - npos /\ npos \in Nat
         /\ m_position + left = was.pos + call.n
  <1>1. pc # "idle" /\ pc = "readLoop" BY DEF ReadLast
  <1>0. Shape /\ LocalTypes /\ Called /\ Body /\ Numbers /\ Strings BY <1>1, InvParts
  <1> USE <1>0, <1>1 DEF Numbers
  <1>2. Reading BY DEF Body
  <1> DEFINE n == Ncap
             t == buf \o ChunkRest
             u == buf \o Part(m_cur, npos, left)
  <1>3. /\ m_cur # NULL /\ 0 < left /\ left <= n /\ out' = SubSeq(t, 1, call.n) /\ over' = Len(t) - call.n
    BY DEF ReadLast
  <1>4. /\ call.op = "read" /\ call.n + was.pos = m_position + left
        /\ m_position + left <= m_size /\ m_size = Len(was.data)
        /\ m_position = was.pos + Len(buf) /\ Reads(buf) /\ Contents(was.pos)
    BY <1>2 DEF Reading
  <1>5. Inside(m_cur, npos, m_position) /\ npos \in Nat /\ npos < m_baseSize BY <1>3, ReadingInside
  <1>6. n \in Nat /\ npos + n = m_baseSize /\ n > 0 /\ left \in Nat /\ left \in 1 .. m_baseSize - npos
    BY <1>3, <1>5 DEF Ncap
  <1>7. /\ ChunkRest \in Seq(Byte) /\ Len(ChunkRest) = n
        /\ \A i \in 1 .. n : ChunkRest[i] = m_nodes[m_cur][npos + i - 1]
    <2>1. n \in 0 .. m_baseSize - npos BY <1>5, <1>6
    <2>2. Part(m_cur, npos, n) \in Seq(Byte) /\ Len(Part(m_cur, npos, n)) = n BY <1>5, <2>1, PartAt
    <2>3. \A i \in 1 .. n : Part(m_cur, npos, n)[i] = m_nodes[m_cur][npos + i - 1] BY DEF Part
    <2> QED BY <2>2, <2>3 DEF ChunkRest
  <1>8. buf \in Seq(Byte) BY DEF Strings
  <1>9. Len(buf) + left = call.n
    <2>1. PICK a \in Nat, b \in Nat, c \in Nat, p \in Nat, q \in Nat :
              a = Len(buf) /\ b = left /\ c = call.n /\ p = was.pos /\ q = m_position
      BY <1>6
    <2>2. c + p = q + b /\ q = p + a BY <1>4, <2>1
    <2>3. a + b = c BY <2>2
    <2> QED BY <2>1, <2>3
  <1> HIDE DEF n
  <1>10. /\ u \in Seq(Byte) /\ Len(u) = call.n /\ Reads(u)
    <2>2. Inside(m_cur, npos, was.pos + Len(buf)) BY <1>4, <1>5
    <2>3. was.pos + Len(buf) + left <= Len(was.data) BY <1>4, <1>6
    <2>4. npos + left <= m_baseSize BY <1>3, <1>6
    <2> QED BY <1>4, <1>5, <1>6, <1>8, <1>9, <2>2, <2>3, <2>4, ReadsMore
  <1>11. /\ t \in Seq(Byte) /\ Len(t) = Len(buf) + n
         /\ \A i \in 1 .. Len(buf) + n : t[i] = IF i <= Len(buf) THEN buf[i] ELSE ChunkRest[i - Len(buf)]
    <2>1. /\ t \in Seq(Byte) /\ Len(t) = Len(buf) + Len(ChunkRest)
          /\ \A i \in 1 .. Len(buf) + Len(ChunkRest) :
                t[i] = IF i <= Len(buf) THEN buf[i] ELSE ChunkRest[i - Len(buf)]
      BY <1>7, <1>8, ConcatProperties, ZenonT(30)
    <2> QED BY <1>7, <2>1, Zenon
  <1>12. Len(t) - call.n = n - left
    <2>1. Len(t) = Len(buf) + n BY <1>11
    <2> QED BY <1>6, <1>9, <2>1
  <1>13. SubSeq(t, 1, call.n) = u
    <2>1. Part(m_cur, npos, left) \in Seq(Byte) /\ Len(Part(m_cur, npos, left)) = left
          /\ \A i \in 1 .. left : Part(m_cur, npos, left)[i] = m_nodes[m_cur][npos + i - 1]
      <3>1. left \in 0 .. m_baseSize - npos BY <1>3, <1>6
      <3>2. Part(m_cur, npos, left) \in Seq(Byte) /\ Len(Part(m_cur, npos, left)) = left BY <1>5, <3>1, PartAt
      <3>3. \A i \in 1 .. left : Part(m_cur, npos, left)[i] = m_nodes[m_cur][npos + i - 1] BY DEF Part
      <3> QED BY <3>2, <3>3
    <2>2. \A i \in 1 .. Len(buf) + left : u[i] = IF i <= Len(buf) THEN buf[i] ELSE Part(m_cur, npos, left)[i - Len(buf)]
      BY <1>8, <2>1, ConcatProperties
    <2> HIDE DEF t, u
    <2>3. ASSUME NEW i \in 1 .. call.n PROVE t[i] = u[i]
      <3>1. i \in 1 .. Len(buf) + n /\ i \in 1 .. Len(buf) + left BY <1>3, <1>6, <1>9
      <3>2. CASE i <= Len(buf) BY <1>11, <2>2, <3>1, <3>2
      <3>3. CASE i > Len(buf)
        <4>1. i - Len(buf) \in 1 .. left /\ i - Len(buf) \in 1 .. n BY <1>3, <1>6, <3>1, <3>3
        <4>2. t[i] = ChunkRest[i - Len(buf)] /\ u[i] = Part(m_cur, npos, left)[i - Len(buf)]
          BY <1>11, <2>2, <3>1, <3>3
        <4> QED BY <1>7, <2>1, <4>1, <4>2
      <3> QED BY <3>2, <3>3
    <2>4. call.n <= Len(t) BY <1>3, <1>6, <1>9, <1>11
    <2>5. /\ SubSeq(t, 1, call.n) \in Seq(Byte) /\ Len(SubSeq(t, 1, call.n)) = call.n
          /\ \A i \in 1 .. call.n : SubSeq(t, 1, call.n)[i] = t[i]
      <3>1. \A i \in 1 .. call.n : t[i] \in Byte BY <1>11, <2>4
      <3> QED BY <1>11, <2>4, <3>1, SubSeqProperties
    <2> QED BY <1>10, <2>3, <2>5, SeqEqual
  <1> HIDE DEF t, u
  <1>14. n - left \in Nat BY <1>3, <1>6
  <1>15. m_position + left = was.pos + call.n BY <1>4, <1>6
  <1> QED BY <1>3, <1>5, <1>6, <1>10, <1>12, <1>13, <1>14, <1>15 DEF n

LEMMA ReadLastInv ==
  ASSUME IInv, ReadLast
  PROVE  IInv'
  <1>1. pc # "idle" /\ pc = "readLoop" BY DEF ReadLast
  <1>0. Shape /\ LocalTypes /\ Called /\ Body /\ Numbers /\ Strings BY <1>1, InvParts
  <1> USE <1>0, <1>1 DEF Numbers
  <1>2. /\ m_position' = m_position + left /\ m_cur' = MovedOn(m_cur, left) /\ Leave
        /\ UNCHANGED <<m_baseSize, m_nodes, m_capacity, m_size, failed>>
    BY DEF ReadLast
  <1>3. /\ over' = Ncap - left /\ Ncap - left \in Nat /\ Inside(m_cur, npos, m_position)
        /\ left \in 1 .. m_baseSize - npos /\ npos \in Nat
    BY ReadLastResult
  <1>4. left \in Nat /\ left > 0 /\ left \in 0 .. m_baseSize - npos BY <1>3
  <1>5. Points(MovedOn(m_cur, left), m_position + left) /\ MovedOn(m_cur, left) \in Nat
    BY <1>3, <1>4, MovedOnPoints
  <1>6. m_position + left <= m_size BY DEF Body, Reading
  <1>7. Shape' BY <1>2, <1>4, <1>5 DEF Shape
  <1>8. AtRest' BY <1>2, <1>5, <1>6 DEF AtRest, Points
  <1>9. LocalTypes' /\ Idle' /\ pc' = "idle"
    <2>1. <<>> \in Seq(Byte) /\ <<>> \in Seq(Nat \X Nat \X Nat) OBVIOUS
    <2>2. NoCall \in Calls BY <2>1 DEF NoCall, Calls
    <2>3. NotCalled \in [data : Seq(Byte), pos : Nat] BY <2>1 DEF NotCalled
    <2> QED BY <1>2, <1>8, <2>1, <2>2, <2>3 DEF Leave, LocalTypes, NULL, Idle
  <1>10. Body' BY <1>9 DEF Body, Ops
  <1>11. OverrunIsRestOfChunk'
    <2>1. SUFFICES ASSUME over' > 0
                   PROVE  over' = m_baseSize' - (m_position' % m_baseSize') /\ m_baseSize' > 1
      BY DEF OverrunIsRestOfChunk
    <2>2. Ncap - left > 0 BY <1>3, <2>1
    <2>3. m_baseSize - npos > left BY <1>4, <2>2 DEF Ncap
    <2>4. left \in 0 .. m_baseSize - npos - 1 BY <1>3, <1>4, <2>3
    <2>5. Inside(m_cur, npos + left, m_position + left) BY <1>3, <2>4, NextChunk
    <2>6. (m_position + left) % m_baseSize = npos + left BY <2>5 DEF Inside
    <2>7. Ncap - left = m_baseSize - (npos + left) BY <1>3, <1>4 DEF Ncap
    <2>8. m_baseSize > 1 BY <1>3, <1>4, <2>3
    <2> QED BY <1>2, <1>3, <2>6, <2>7, <2>8
  <1>12. CrashesOnlyAtEnds' BY <1>9 DEF CrashesOnlyAtEnds
  <1> QED BY <1>7, <1>9, <1>10, <1>11, <1>12 DEF IInv

LEMMA ReadNothingInv ==
  ASSUME IInv, ReadNothing
  PROVE  IInv'
  <1>1. pc # "idle" /\ pc = "readLoop" /\ left = 0 /\ Leave /\ UNCHANGED <<arrayVars, over>>
    BY DEF ReadNothing, Return
  <1>0. Shape /\ LocalTypes /\ Called /\ Body /\ Numbers /\ Strings BY <1>1, InvParts
  <1>2. Reading BY <1>0, <1>1 DEF Body
  <1>3. m_position <= m_size BY <1>0, <1>1, <1>2 DEF Reading, Numbers
  <1>4. AtRest BY <1>2, <1>3 DEF Reading, AtRest
  <1> QED BY <1>1, <1>4, ReturnInv

LEMMA toStringInv ==
  ASSUME IInv, toString
  PROVE  IInv'
  <1>1. pc # "idle" /\ pc = "toString" BY DEF toString
  <1>0. Shape /\ LocalTypes /\ Called /\ Body /\ Numbers /\ Strings BY <1>1, InvParts
  <1> USE <1>0, <1>1 DEF Numbers
  <1>2. Entry BY DEF Body, Ops
  <1>3. /\ UNCHANGED <<m_baseSize, m_nodes, m_position, m_capacity, m_size, m_cur>>
        /\ UNCHANGED <<call, buf, iovs, file, out, over, failed, was>>
        /\ pc' = "peekLoop" /\ npos' = FirstNpos /\ left' = ReadSize /\ cur' = m_cur /\ ReadSize > 0
    BY DEF toString, arrayVars, resultVars
  <1>4. Shape' BY <1>3 DEF Shape
  <1>5. FirstNpos \in Int BY Division, m_position \in Int DEF FirstNpos
  <1>6. ReadSize \in Int BY DEF ReadSize
  <1>7. LocalTypes' BY <1>3, <1>5, <1>6 DEF LocalTypes, Loops
  <1>8. Peeking'
    <2>1. call.op = "toString" /\ m_position = was.pos /\ m_size = Len(was.data) /\ Contents(was.pos) /\ buf = <<>>
      BY <1>2 DEF Entry, Same
    <2>2. AtRest BY <1>2 DEF Entry
    <2>3. m_position < m_capacity BY <1>3 DEF ReadSize
    <2>4. Inside(m_cur, FirstNpos, m_position) BY <2>2, <2>3, PointsInside DEF AtRest, FirstNpos
    <2>5. \A q \in Nat : At(q)' = At(q) BY <1>3, AtKept
    <2>6. Contents(was.pos)' BY <1>3, <2>1, <2>5 DEF Contents
    <2>7. Same' /\ AtRest' BY <1>3, <2>1, <2>2 DEF Same, AtRest, Points
    <2>8. Reads(buf)' BY <1>3, <2>1 DEF Reads
    <2>9. was.pos + Len(buf) = m_position BY <2>1
    <2>10. Inside(cur, npos, was.pos + Len(buf))' BY <1>3, <2>4, <2>9 DEF Inside
    <2>11. (left > 0 /\ left = m_size - (was.pos + Len(buf)))' BY <1>3, <2>9 DEF ReadSize
    <2> QED BY <1>3, <2>1, <2>6, <2>7, <2>8, <2>10, <2>11 DEF Peeking
  <1>9. Body' BY <1>3, <1>8 DEF Body, Ops
  <1> QED BY <1>3, <1>4, <1>7, <1>9, StepInv

LEMMA toStringEmptyInv ==
  ASSUME IInv, toStringEmpty \/ SendNothing
  PROVE  IInv'
  <1>1. pc # "idle" /\ pc \in Ops /\ Leave /\ UNCHANGED <<arrayVars, over>>
    BY DEF toStringEmpty, SendNothing, Return, Ops
  <1>2. AtRest BY <1>1 DEF IInv, Body, Entry
  <1> QED BY <1>1, <1>2, ReturnInv

LEMMA PeekChunkInv ==
  ASSUME IInv, PeekChunk
  PROVE  IInv'
  <1>1. pc # "idle" /\ pc = "peekLoop" BY DEF PeekChunk
  <1>0. Shape /\ LocalTypes /\ Called /\ Body /\ Numbers /\ Strings BY <1>1, InvParts
  <1> USE <1>0, <1>1 DEF Numbers
  <1>2. Peeking BY DEF Body
  <1> DEFINE n == Ncap
             t == buf \o Part(cur, npos, n)
             p == was.pos + Len(buf)
  <1>3. /\ n < left /\ left' = left - n /\ buf' = t /\ cur' = NextNode(cur) /\ npos' = 0
        /\ UNCHANGED <<m_baseSize, m_nodes, m_position, m_capacity, m_size, m_cur>>
        /\ UNCHANGED <<pc, call, iovs, file, out, over, failed, was>>
    BY DEF PeekChunk, arrayVars, resultVars
  <1>4. /\ call.op = "toString" /\ Same /\ AtRest /\ Contents(was.pos)
        /\ left > 0 /\ left = m_size - p /\ Inside(cur, npos, p) /\ Reads(buf) /\ m_size = Len(was.data)
    BY <1>2 DEF Peeking, Same
  <1>5. npos \in Nat /\ npos < m_baseSize
    <2>1. npos \in 0 .. m_baseSize - 1 BY <1>4, InsideFacts
    <2> QED BY <2>1
  <1>6. n \in Nat /\ npos + n = m_baseSize /\ n > 0 BY <1>5 DEF Ncap
  <1> HIDE DEF n, t
  <1>7. p \in Nat OBVIOUS
  <1>16. left = m_size - p /\ n < left BY <1>3, <1>4
  <1>17. p + left = m_size
    <2> HIDE DEF p
    <2> QED BY <1>7, <1>16
  <1>8. p + n < m_size
    <2> HIDE DEF p
    <2> QED BY <1>6, <1>7, <1>16, <1>17
  <1>9. t \in Seq(Byte) /\ Len(t) = Len(buf) + n /\ Reads(t)
    <2>1. buf \in Seq(Byte) BY DEF Strings
    <2>3. was.pos + Len(buf) + n <= Len(was.data) BY <1>4, <1>6, <1>8, SMTT(30)
    <2>4. npos + n <= m_baseSize BY <1>6
    <2> QED BY <1>4, <1>5, <1>6, <2>1, <2>3, <2>4, ReadsMore DEF t
  <1>10. Inside(NextNode(cur), 0, p + n)
    <2>1. p + n < m_capacity BY <1>6, <1>7, <1>8
    <2>2. p + (m_baseSize - npos) < m_capacity BY <2>1 DEF n, Ncap
    <2> QED BY <1>4, <2>2, NextChunk DEF n, Ncap
  <1>11. NextNode(cur) \in Nat BY DEF NextNode, NULL
  <1>12. Shape' BY <1>3 DEF Shape
  <1>13. LocalTypes' BY <1>3, <1>6, <1>9, <1>11 DEF LocalTypes
  <1>14. Peeking'
    <2>1. \A q \in Nat : At(q)' = At(q) BY <1>3, AtKept
    <2>2. Contents(was.pos)' BY <1>3, <1>4, <2>1 DEF Contents
    <2>3. Same' /\ AtRest' BY <1>3, <1>4 DEF Same, AtRest, Points
    <2>4. Reads(buf)' BY <1>3, <1>9 DEF Reads
    <2>5. was.pos + Len(t) = p + n BY <1>6, <1>9
    <2>6. Inside(cur, npos, was.pos + Len(buf))' BY <1>3, <1>10, <2>5 DEF Inside
    <2>7. left - n > 0 BY <1>3, <1>6
    <2>8. left - n = m_size - (p + n)
      <3> HIDE DEF p
      <3> QED BY <1>6, <1>7, <1>17
    <2>9. (left > 0 /\ left = m_size - (was.pos + Len(buf)))' BY <1>3, <2>5, <2>7, <2>8
    <2> QED BY <1>3, <1>4, <2>2, <2>3, <2>4, <2>6, <2>9 DEF Peeking
  <1>15. Body' BY <1>3, <1>14 DEF Body, Ops
  <1> QED BY <1>3, <1>12, <1>13, <1>15, StepInv

LEMMA PeekLastInv ==
  ASSUME IInv, PeekLast
  PROVE  IInv'
  <1>1. pc # "idle" /\ pc = "peekLoop" /\ Leave /\ UNCHANGED <<arrayVars, over>>
    BY DEF PeekLast, Return
  <1>2. AtRest BY <1>1 DEF IInv, Body, Peeking
  <1> QED BY <1>1, <1>2, ReturnInv

-----------------------------------------------------------------------------
\* writeToFile().
LEMMA WriteToFileInv ==
  ASSUME IInv, WriteToFile
  PROVE  IInv'
  <1>1. pc # "idle" /\ pc = "writeToFile" BY DEF WriteToFile
  <1>0. Shape /\ LocalTypes /\ Called /\ Body /\ Numbers /\ Strings BY <1>1, InvParts
  <1> USE <1>0, <1>1 DEF Numbers
  <1>2. Entry BY DEF Body, Ops
  <1>3. /\ UNCHANGED <<m_baseSize, m_nodes, m_position, m_capacity, m_size, m_cur>>
        /\ UNCHANGED <<call, buf, iovs, file, out, over, failed, was>>
        /\ pc' = "fileLoop" /\ npos' = m_position /\ left' = ReadSize /\ cur' = m_cur
    BY DEF WriteToFile, arrayVars, resultVars
  <1>4. Shape' BY <1>3 DEF Shape
  <1>5. ReadSize \in Int /\ ReadSize = m_size - m_position BY DEF ReadSize
  <1>6. LocalTypes' BY <1>3, <1>5 DEF LocalTypes, Loops
  <1>7. call.op = "writeToFile" /\ m_position = was.pos /\ m_size = Len(was.data) /\ Contents(was.pos) /\ buf = <<>>
    BY <1>2 DEF Entry, Same
  <1>8. AtRest BY <1>2 DEF Entry
  <1>9. m_cur <= Len(m_nodes) /\ (ReadSize > 0 => m_position < m_capacity /\ m_cur = (m_position \div m_baseSize) + 1)
    <2>1. CASE m_position = m_capacity BY <1>5, <1>8, <2>1 DEF AtRest, Points, NULL
    <2>2. CASE m_position # m_capacity
      <3>1. m_position < m_capacity BY <1>8, <2>2 DEF AtRest
      <3>2. m_cur = (m_position \div m_baseSize) + 1 BY <1>8, <2>2 DEF AtRest, Points
      <3>3. m_cur \in 1 .. Len(m_nodes) BY <3>1, <3>2, ChunkOf
      <3> QED BY <3>1, <3>2, <3>3
    <2> QED BY <2>1, <2>2
  <1>10. Filing'
    <2>1. \A q \in Nat : At(q)' = At(q) BY <1>3, AtKept
    <2>2. Contents(was.pos)' BY <1>3, <1>7, <2>1 DEF Contents
    <2>3. Same' /\ AtRest' BY <1>3, <1>7, <1>8 DEF Same, AtRest, Points
    <2>4. Reads(buf)' BY <1>3, <1>7 DEF Reads
    <2>5. (npos = was.pos + Len(buf) /\ left = m_size - npos)' BY <1>3, <1>5, <1>7
    <2>6. (cur <= Len(m_nodes))' BY <1>3, <1>9
    <2>7. (left > 0 => npos < m_capacity /\ cur = (npos \div m_baseSize) + 1)' BY <1>3, <1>9
    <2>8. Whole' => (npos % m_baseSize = 0 \/ left >= m_baseSize)' BY <1>3, <1>5, <1>7 DEF Whole
    <2>9. ASSUME ~ Whole PROVE Astray'
      <3>1. was.pos % m_baseSize # 0 /\ ~ (Len(was.data) - was.pos >= m_baseSize) BY <2>9 DEF Whole
      <3>2. ReadSize = Len(was.data) - was.pos BY <1>5, <1>7
      <3>3. 0 <= ReadSize /\ ReadSize < m_baseSize BY <3>1, <3>2
      <3>4. ReadSize = 0 => was.pos = Len(was.data) BY <3>2
      <3> QED BY <1>3, <1>7, <3>1, <3>3, <3>4 DEF Astray
    <2>10. Whole' <=> Whole BY <1>3 DEF Whole
    <2> QED BY <1>3, <1>7, <2>2, <2>3, <2>4, <2>5, <2>6, <2>7, <2>8, <2>9, <2>10 DEF Filing
  <1>11. Body' BY <1>3, <1>10 DEF Body, Ops
  <1> QED BY <1>3, <1>4, <1>6, <1>11, StepInv

LEMMA FileEndInv ==
  ASSUME IInv, FileEnd
  PROVE  IInv'
  <1>1. pc # "idle" /\ pc = "fileLoop" /\ Leave /\ UNCHANGED <<arrayVars, over>>
    BY DEF FileEnd, Return
  <1>2. AtRest BY <1>1 DEF IInv, Body, Filing
  <1> QED BY <1>1, <1>2, ReturnInv

\* A piece of a chunk, of any length that fits, also a negative one.
LEMMA PartType ==
  ASSUME Shape, NEW k \in Nat, k # 0, k <= Len(m_nodes), NEW off \in Nat, NEW n \in Int, off + n <= m_baseSize
  PROVE  Part(k, off, n) \in Seq(Byte)
  <1>1. m_baseSize \in Nat /\ Len(m_nodes) \in Nat BY BaseType DEF Shape
  <1>2. m_nodes[k] \in [0 .. m_baseSize - 1 -> Byte] BY <1>1 DEF Shape
  <1>3. ASSUME NEW i \in 1 .. n PROVE m_nodes[k][off + i - 1] \in Byte
    <2>1. off + i - 1 \in 0 .. m_baseSize - 1 BY <1>1
    <2> QED BY <1>2, <2>1
  <1>4. Part(k, off, n) \in [1 .. n -> Byte] BY <1>3 DEF Part
  <1>5. CASE n \in Nat BY <1>4, <1>5
  <1>6. CASE n < 0
    <2>1. 1 .. n = {} /\ 1 .. 0 = {} BY <1>6
    <2>2. Part(k, off, n) \in [1 .. 0 -> Byte] BY <1>4, <2>1
    <2> QED BY <2>2
  <1> QED BY <1>5, <1>6

LEMMA FileChunkInv ==
  ASSUME IInv, FileChunk
  PROVE  IInv'
  <1>1. pc # "idle" /\ pc = "fileLoop" BY DEF FileChunk
  <1>0. Shape /\ LocalTypes /\ Called /\ Body /\ Numbers /\ Strings BY <1>1, InvParts
  <1> USE <1>0, <1>1 DEF Numbers
  <1>2. Filing BY DEF Body
  <1> DEFINE r == npos % m_baseSize
             n == FileLen
             t == buf \o Part(cur, r, n)
  <1>3. /\ left > 0 /\ cur # NULL
        /\ left' = left - n /\ buf' = t /\ cur' = NextNode(cur) /\ npos' = npos + n
        /\ UNCHANGED <<m_baseSize, m_nodes, m_position, m_capacity, m_size, m_cur>>
        /\ UNCHANGED <<pc, call, iovs, file, out, over, failed, was>>
    BY DEF FileChunk, arrayVars, resultVars
  <1>4. /\ call.op = "writeToFile" /\ Same /\ AtRest /\ Contents(was.pos) /\ m_size = Len(was.data)
        /\ cur <= Len(m_nodes)
    BY <1>2 DEF Filing, Same
  <1>5. r \in 0 .. m_baseSize - 1 BY Division, m_baseSize \in Nat \ {0}
  <1>6. r \in Nat /\ r < m_baseSize BY <1>5
  <1> HIDE DEF r
  <1>7. n = (IF left > m_baseSize THEN m_baseSize ELSE left) - r BY DEF FileLen, r
  <1>8. n \in Int /\ r + n <= m_baseSize /\ r + n <= left /\ (r + n = m_baseSize \/ r + n = left) BY <1>6, <1>7
  <1> HIDE DEF n, t
  <1>9. t \in Seq(Byte)
    <2>1. Part(cur, r, n) \in Seq(Byte) BY <1>3, <1>4, <1>6, <1>8, PartType DEF NULL
    <2> QED BY <2>1, ConcatProperties DEF t, Strings
  <1>10. NextNode(cur) \in Nat /\ NextNode(cur) <= Len(m_nodes) BY DEF NextNode, NULL
  <1>11. Shape' BY <1>3 DEF Shape
  <1>12. LocalTypes' BY <1>3, <1>8, <1>9, <1>10 DEF LocalTypes
  <1>13. Filing'
    <2>1. \A q \in Nat : At(q)' = At(q) BY <1>3, AtKept
    <2>2. Contents(was.pos)' BY <1>3, <1>4, <2>1 DEF Contents
    <2>3. Same' /\ AtRest' BY <1>3, <1>4 DEF Same, AtRest, Points
    <2>4. (cur <= Len(m_nodes))' BY <1>3, <1>10
    <2>5. ASSUME Whole
          PROVE  /\ Reads(t) /\ npos + n = was.pos + Len(t) /\ left - n = m_size - (npos + n)
                 /\ left - n > 0 => /\ npos + n < m_capacity
                                    /\ NextNode(cur) = ((npos + n) \div m_baseSize) + 1
                                    /\ (npos + n) % m_baseSize = 0
      <3>1. /\ npos = was.pos + Len(buf) /\ left = m_size - npos /\ Reads(buf)
            /\ npos < m_capacity /\ cur = (npos \div m_baseSize) + 1
            /\ r = 0 \/ left >= m_baseSize
        BY <1>2, <1>3, <2>5 DEF Filing, r
      <3>19. PICK a \in Nat : a = was.pos + Len(buf) OBVIOUS
      <3>2. npos \in Nat BY <3>1, <3>19, Zenon
      <3>3. Inside(cur, r, npos) BY <3>1, <3>2 DEF Inside, r
      <3>15. left > 0 /\ (r = 0 \/ left >= m_baseSize) BY <1>3, <3>1
      <3>16. r <= (IF left > m_baseSize THEN m_baseSize ELSE left) BY <1>6, <3>15
      <3>17. n >= 0 BY <1>6, <1>7, <3>16
      <3>4. n \in Nat BY <1>8, <3>17
      <3>5. n <= left BY <1>6, <1>8, <3>4
      <3>6. npos + left = m_size BY <3>1, <3>2
      <3>7. npos + n <= m_size BY <3>2, <3>4, <3>5, <3>6
      <3>8. was.pos + Len(buf) + n <= Len(was.data) BY <1>4, <3>1, <3>2, <3>4, <3>7
      <3>9. Inside(cur, r, was.pos + Len(buf)) BY <3>1, <3>3
      <3>10. r + n <= m_baseSize BY <1>8
      <3>11. Reads(t) /\ Len(t) = Len(buf) + n
        BY <1>4, <1>6, <3>1, <3>4, <3>8, <3>9, <3>10, ReadsMore DEF t, Strings
      <3>18. Len(t) = Len(buf) + n /\ npos = was.pos + Len(buf) BY <3>1, <3>11
      <3>12. npos + n = was.pos + Len(t) BY <3>4, <3>18
      <3>13. left - n = m_size - (npos + n) BY <3>2, <3>4, <3>6
      <3>14. ASSUME left - n > 0
             PROVE  /\ npos + n < m_capacity
                    /\ NextNode(cur) = ((npos + n) \div m_baseSize) + 1
                    /\ (npos + n) % m_baseSize = 0
        <4>1. r + n = m_baseSize
          <5>1. r + n # left \/ r > 0 BY <1>6, <3>4, <3>14
          <5>2. left >= m_baseSize \/ r = 0 BY <3>1
          <5> QED BY <1>6, <1>8, <3>4, <5>1, <5>2
        <4>2. n = m_baseSize - r BY <1>6, <3>4, <4>1
        <4>3. npos + n < m_capacity BY <3>2, <3>4, <3>6, <3>14
        <4>4. Inside(NextNode(cur), 0, npos + n) BY <3>3, <4>2, <4>3, NextChunk
        <4> QED BY <4>3, <4>4 DEF Inside
      <3> QED BY <3>11, <3>12, <3>13, <3>14
    <2>6. Whole' => Whole BY <1>3 DEF Whole
    <2>7. Whole => Reads(buf)' /\ (npos = was.pos + Len(buf) /\ left = m_size - npos)'
      BY <1>3, <2>5 DEF Reads
    <2>8. Whole => (left > 0 => npos < m_capacity /\ cur = (npos \div m_baseSize) + 1 /\ npos % m_baseSize = 0)'
      BY <1>3, <2>5
    <2>9. ASSUME ~ Whole PROVE Astray'
      <3>1. npos >= 0 /\ 0 <= left /\ left < m_baseSize /\ npos % m_baseSize # 0
        BY <1>2, <1>3, <2>9 DEF Filing, Astray
      <3>2. n = left - r /\ r # 0 BY <1>7, <3>1 DEF r
      <3>3. left - n = r BY <1>6, <3>2
      <3>4. PICK k \in Int : k >= 0 /\ npos = m_baseSize * k + r
        BY <3>1, Division, npos \in Int, m_baseSize \in Nat \ {0} DEF r
      <3>5. m_baseSize * k \in Nat BY <3>4
      <3>6. npos + n = m_baseSize * k + left
        <4>1. PICK b \in Nat : b = m_baseSize * k BY <3>5
        <4>2. npos = b + r BY <3>4, <4>1
        <4>3. npos + n = b + left BY <1>6, <3>2, <4>2
        <4> QED BY <4>1, <4>3
      <3>7. left \in 0 .. m_baseSize - 1 BY <3>1
      <3>8. (npos + n) % m_baseSize = left BY <3>4, <3>6, <3>7, DivisionUnique, m_baseSize \in Nat \ {0}
      <3>9. npos + n >= 0 BY <3>1, <3>5, <3>6
      <3>10. left' = r /\ npos' = npos + n /\ m_baseSize' = m_baseSize BY <1>3, <3>3
      <3>11. left' > 0 /\ left' < m_baseSize BY <1>6, <3>2, <3>10
      <3>12. npos' >= 0 /\ npos' % m_baseSize # 0 BY <1>3, <3>8, <3>9, <3>10
      <3>13. left' # 0 /\ 0 <= left' /\ left' < m_baseSize' BY <1>6, <3>2, <3>10
      <3>14. (npos % m_baseSize # 0)' BY <3>10, <3>12
      <3> QED BY <3>12, <3>13, <3>14 DEF Astray
    <2>10. Whole' <=> Whole BY <1>3 DEF Whole
    <2> QED BY <1>3, <1>4, <2>2, <2>3, <2>4, <2>6, <2>7, <2>8, <2>9, <2>10 DEF Filing
  <1>14. Body' BY <1>3, <1>13 DEF Body, Ops
  <1> QED BY <1>3, <1>11, <1>12, <1>14, StepInv

-----------------------------------------------------------------------------
\* setPosition() and clear().

\* The start of setPosition(), at v, with the contents up to hi written.
LEMMA StartSeekInv ==
  ASSUME IInv, pc \in {"setPosition", "readv", "writev"}, NEW v \in Nat, v <= m_capacity, StartSeek(v),
         UNCHANGED buf, m_size = Len(was.data),
         \/ call.op = "setPosition" /\ v = call.n /\ Contents(was.pos) /\ buf = <<>>
         \/ /\ call.op = "send" /\ v = was.pos + Len(buf) /\ Len(buf) <= call.n
            /\ Contents(was.pos) /\ Reads(buf)
         \/ call.op = "recv" /\ v = was.pos + Len(call.bytes) /\ Contents(v) /\ buf = <<>>
  PROVE  IInv'
  <1>1. pc # "idle" OBVIOUS
  <1>0. Shape /\ LocalTypes /\ Called /\ Body /\ Numbers /\ Strings BY <1>1, InvParts
  <1> USE <1>0, <1>1 DEF Numbers
  <1>2. /\ m_position' = v /\ m_size' = GrownSize(v) /\ m_cur' = 1 /\ pc' = "seekLoop" /\ left' = v
        /\ UNCHANGED <<m_baseSize, m_nodes, m_capacity, call, npos, cur, iovs, file, out, over, failed, was, buf>>
    BY DEF StartSeek, resultVars
  <1>3. m_size' = (IF v > Len(was.data) THEN v ELSE Len(was.data)) BY <1>2 DEF GrownSize
  <1>4. m_size' \in Nat /\ m_size' <= m_capacity BY <1>3
  <1>5. Shape' BY <1>2, <1>4 DEF Shape
  <1>6. LocalTypes' BY <1>2 DEF LocalTypes, Loops
  <1>7. Seeking'
    <2>1. \A q \in Nat : At(q)' = At(q) BY <1>2, AtKept
    <2>2. m_baseSize * (1 - 1) + v = v OBVIOUS
    <2>3. (m_cur > 0 /\ left >= 0 /\ m_baseSize * (m_cur - 1) + left = m_position)' BY <1>2, <2>2
    <2>4. (left > 0 \/ m_cur = 1)' /\ (m_position <= m_capacity)' BY <1>2
    <2>5. (m_size = IF m_position > Len(was.data) THEN m_position ELSE Len(was.data))' BY <1>2, <1>3
    <2>6. Contents(was.pos) => Contents(was.pos)' BY <1>2, <2>1 DEF Contents
    <2>7. Contents(v) => Contents(m_position)' BY <1>2, <2>1 DEF Contents
    <2>8. Reads(buf) => Reads(buf)' BY <1>2 DEF Reads
    <2> QED BY <1>2, <2>3, <2>4, <2>5, <2>6, <2>7, <2>8 DEF Seeking
  <1>8. Body' BY <1>2, <1>7 DEF Body, Ops
  <1> QED BY <1>2, <1>5, <1>6, <1>8, StepInv

LEMMA SetPositionInv ==
  ASSUME IInv, SetPosition
  PROVE  IInv'
  <1>1. pc # "idle" /\ pc = "setPosition" BY DEF SetPosition
  <1>0. Shape /\ LocalTypes /\ Called /\ Body /\ Numbers /\ Strings BY <1>1, InvParts
  <1>2. Entry BY <1>0, <1>1 DEF Body, Ops
  <1>3. call.op = "setPosition" /\ m_size = Len(was.data) /\ Contents(was.pos) /\ buf = <<>>
    BY <1>1, <1>2 DEF Entry, Same
  <1>4. call.n \in Nat /\ call.n <= m_capacity /\ StartSeek(call.n) /\ UNCHANGED buf
    BY <1>0 DEF SetPosition, Numbers
  <1> QED BY <1>1, <1>3, <1>4, StartSeekInv

\* The chunk that setPosition() has come to, with part of the way left.
LEMMA SeekingAt ==
  ASSUME IInv, pc = "seekLoop"
  PROVE  /\ m_cur \in 1 .. Len(m_nodes) /\ left \in Nat
         /\ m_baseSize * (m_cur - 1) \in Nat /\ m_baseSize * (m_cur - 1) + left = m_position
         /\ left > m_baseSize => /\ m_cur < Len(m_nodes)
                                 /\ m_baseSize * ((m_cur + 1) - 1) + (left - m_baseSize) = m_position
         /\ left = m_baseSize => Points(NextNode(m_cur), m_position)
         /\ left < m_baseSize => Points(m_cur, m_position)
  <1>1. pc # "idle" OBVIOUS
  <1>0. Shape /\ LocalTypes /\ Called /\ Body /\ Numbers /\ Strings BY <1>1, InvParts
  <1>2. Seeking BY <1>0 DEF Body
  <1>3. /\ m_cur > 0 /\ left >= 0 /\ m_baseSize * (m_cur - 1) + left = m_position
        /\ left > 0 \/ m_cur = 1
        /\ m_position <= m_capacity
    BY <1>2 DEF Seeking
  <1>4. PICK d \in Nat \ {0}, k \in Nat, l \in Nat, x \in Nat, p \in Nat, c \in Nat :
            d = m_baseSize /\ k = m_cur - 1 /\ l = Len(m_nodes) /\ x = left /\ p = m_position /\ c = m_capacity
    <2>1. m_baseSize \in Nat \ {0} /\ m_cur - 1 \in Nat /\ left \in Nat BY <1>0, <1>3 DEF Numbers
    <2> QED BY <1>0, <2>1 DEF Numbers
  <1>5. d * k \in Nat /\ d * k + x = p /\ p <= c /\ c = d * l /\ (x > 0 \/ k = 0) /\ l > 0 /\ m_cur = k + 1
    <2>1. m_capacity = m_baseSize * Len(m_nodes) /\ Len(m_nodes) > 0 BY <1>0 DEF Shape
    <2>2. d * k \in Nat OBVIOUS
    <2> QED BY <1>0, <1>3, <1>4, <2>1, <2>2 DEF Numbers
  <1>6. k < l
    <2>1. CASE k = 0 BY <1>5, <2>1
    <2>2. CASE x > 0
      <3>1. d * k < d * l BY <1>5, <2>2
      <3> QED BY <3>1, Multiples
    <2> QED BY <1>5, <2>1, <2>2
  <1>7. d * (k + 1) = d * k + d BY Multiples
  <1>8. ASSUME x > d PROVE k + 1 < l /\ d * (k + 1) + (x - d) = p
    <2>1. d * (k + 1) < d * l BY <1>5, <1>7, <1>8
    <2>2. k + 1 < l BY <2>1, Multiples, k + 1 \in Int
    <2>3. d * (k + 1) + (x - d) = p BY <1>5, <1>7, <1>8
    <2> QED BY <2>2, <2>3
  <1>9. ASSUME x < d PROVE Points(m_cur, m_position)
    <2>1. x \in 0 .. m_baseSize - 1 /\ m_cur \in 1 .. Len(m_nodes) BY <1>4, <1>5, <1>6, <1>9
    <2>2. Inside(m_cur, x, m_baseSize * (m_cur - 1) + x) BY <1>0, <2>1, InsideAt
    <2>3. m_baseSize * (m_cur - 1) + x = m_position BY <1>3, <1>4
    <2> QED BY <1>0, <2>2, <2>3, InsideFacts
  <1>10. ASSUME x = d PROVE Points(NextNode(m_cur), m_position)
    <2>1. m_cur \in 1 .. Len(m_nodes) /\ 0 \in 0 .. m_baseSize - 1 BY <1>4, <1>5, <1>6
    <2>2. Inside(m_cur, 0, m_baseSize * (m_cur - 1) + 0) BY <1>0, <2>1, InsideAt
    <2>3. Points(NextNode(m_cur), (m_baseSize * (m_cur - 1) + 0) + (m_baseSize - 0)) BY <1>0, <2>2, NextChunk
    <2>4. (m_baseSize * (m_cur - 1) + 0) + (m_baseSize - 0) = m_position
      <3>1. (d * k + 0) + (d - 0) = p BY <1>5, <1>10
      <3> QED BY <1>4, <3>1
    <2> QED BY <2>3, <2>4
  <1>11. (m_cur + 1) - 1 = k + 1 BY <1>5
  <1> QED BY <1>3, <1>4, <1>5, <1>6, <1>8, <1>9, <1>10, <1>11

LEMMA SeekNextInv ==
  ASSUME IInv, SeekNext
  PROVE  IInv'
  <1>1. pc # "idle" /\ pc = "seekLoop" BY DEF SeekNext
  <1>0. Shape /\ LocalTypes /\ Called /\ Body /\ Numbers /\ Strings BY <1>1, InvParts
  <1> USE <1>0, <1>1 DEF Numbers
  <1>2. Seeking BY DEF Body
  <1>3. /\ left > m_baseSize /\ left' = left - m_baseSize /\ m_cur' = NextNode(m_cur)
        /\ UNCHANGED <<m_baseSize, m_nodes, m_position, m_capacity, m_size, pc, call,
                       npos, cur, buf, iovs, file, out, over, failed, was>>
    BY DEF SeekNext, resultVars
  <1>4. /\ m_cur \in 1 .. Len(m_nodes) /\ m_cur < Len(m_nodes)
        /\ m_baseSize * ((m_cur + 1) - 1) + (left - m_baseSize) = m_position
    BY <1>3, SeekingAt
  <1>5. NextNode(m_cur) = m_cur + 1 BY <1>4 DEF NextNode
  <1>6. Shape' BY <1>3, <1>4, <1>5 DEF Shape
  <1>7. LocalTypes' BY <1>3 DEF LocalTypes
  <1>8. Seeking'
    <2>1. \A q \in Nat : At(q)' = At(q) BY <1>3, AtKept
    <2>2. (m_baseSize * (m_cur - 1) + left = m_position)' BY <1>3, <1>4, <1>5
    <2>3. left > m_baseSize BY <1>3
    <2>4. left - m_baseSize > 0 BY <2>3
    <2>5. (m_cur > 0 /\ left > 0)' BY <1>3, <1>5, <2>4
    <2>6. left' \in Int BY <1>3
    <2>7. left' >= 0 BY <2>5, <2>6
    <2>8. Contents(was.pos) => Contents(was.pos)' BY <1>3, <2>1 DEF Contents
    <2>9. Contents(m_position) => Contents(m_position)' BY <1>3, <2>1 DEF Contents
    <2>10. Reads(buf) => Reads(buf)' BY <1>3 DEF Reads
    <2> QED BY <1>2, <1>3, <2>2, <2>5, <2>7, <2>8, <2>9, <2>10 DEF Seeking
  <1>9. Body' BY <1>3, <1>8 DEF Body, Ops
  <1> QED BY <1>3, <1>6, <1>7, <1>9, StepInv

LEMMA SeekLastInv ==
  ASSUME IInv, SeekLast
  PROVE  IInv'
  <1>1. pc # "idle" /\ pc = "seekLoop" BY DEF SeekLast
  <1>0. Shape /\ LocalTypes /\ Called /\ Body /\ Numbers /\ Strings BY <1>1, InvParts
  <1>2. Seeking BY <1>0, <1>1 DEF Body
  <1>3. /\ left <= m_baseSize /\ m_cur' = (IF left = m_baseSize THEN NextNode(m_cur) ELSE m_cur)
        /\ UNCHANGED <<m_baseSize, m_nodes, m_position, m_capacity, m_size>> /\ Leave /\ UNCHANGED over
    BY DEF SeekLast, Return
  <1>4. NextNode(m_cur) \in Nat BY <1>0 DEF NextNode, NULL, Numbers
  <1>5. Shape' BY <1>0, <1>3, <1>4 DEF Shape
  <1>6. m_position <= m_size BY <1>0, <1>2 DEF Seeking, Numbers
  <1>7. CASE left = m_baseSize
    <2>1. Points(NextNode(m_cur), m_position) BY <1>1, <1>7, SeekingAt
    <2>2. AtRest' BY <1>3, <1>6, <1>7, <2>1 DEF AtRest, Points
    <2> QED BY <1>1, <1>3, <1>5, <2>2, LeaveInv
  <1>8. CASE left < m_baseSize
    <2>1. Points(m_cur, m_position) BY <1>1, <1>8, SeekingAt
    <2>3. left # m_baseSize BY <1>0, <1>8 DEF Numbers
    <2>2. AtRest' BY <1>3, <1>6, <2>1, <2>3 DEF AtRest, Points
    <2> QED BY <1>1, <1>3, <1>5, <2>2, LeaveInv
  <1> QED BY <1>0, <1>3, <1>7, <1>8 DEF Numbers

LEMMA ClearInv ==
  ASSUME IInv, Clear
  PROVE  IInv'
  <1>1. pc # "idle" /\ pc = "clear" BY DEF Clear
  <1>0. Shape /\ LocalTypes /\ Called /\ Body /\ Numbers /\ Strings BY <1>1, InvParts
  <1>2. /\ m_position' = 0 /\ m_size' = 0 /\ m_capacity' = m_baseSize /\ m_cur' = 1
        /\ m_nodes' = <<m_nodes[1]>> /\ m_baseSize' = m_baseSize /\ Leave /\ UNCHANGED over
    BY DEF Clear, Return
  <1>3. m_baseSize \in Nat \ {0} BY <1>0, BaseType
  <1>4. m_nodes[1] \in [0 .. m_baseSize - 1 -> Byte] BY <1>0 DEF Shape
  <1>5. <<m_nodes[1]>> \in Seq([0 .. m_baseSize - 1 -> Byte]) /\ Len(<<m_nodes[1]>>) = 1 BY <1>4
  <1>6. m_baseSize * 1 = m_baseSize BY <1>3
  <1>7. Shape' BY <1>0, <1>2, <1>3, <1>5, <1>6 DEF Shape
  <1>8. 0 \div m_baseSize = 0 BY <1>3
  <1>9. Points(1, 0)' BY <1>2, <1>3, <1>8 DEF Points
  <1>10. AtRest' BY <1>2, <1>9 DEF AtRest, Points
  <1> QED BY <1>1, <1>2, <1>7, <1>10, LeaveInv

-----------------------------------------------------------------------------
\* getReadBuffers(), getWriteBuffers(), readv and writev.

\* A buffer more at the end.
LEMMA BuffersAppend ==
  ASSUME Shape, NEW vs \in Seq(Nat \X Nat \X Nat), NEW lo \in Nat, NEW p \in Nat, Buffers(vs, lo, p),
         NEW k \in Nat, NEW off \in Nat, Inside(k, off, p), NEW n \in Nat, n > 0, off + n <= m_baseSize
  PROVE  /\ Append(vs, <<k, off, n>>) \in Seq(Nat \X Nat \X Nat)
         /\ Buffers(Append(vs, <<k, off, n>>), lo, p + n)
  <1> DEFINE v == <<k, off, n>>
             ws == Append(vs, v)
  <1>1. v \in Nat \X Nat \X Nat /\ v[1] = k /\ v[2] = off /\ v[3] = n OBVIOUS
  <1>2. /\ ws \in Seq(Nat \X Nat \X Nat) /\ Len(ws) = Len(vs) + 1 /\ ws[Len(vs) + 1] = v
        /\ \A i \in 1 .. Len(vs) : ws[i] = vs[i]
    <2> HIDE DEF v
    <2> QED BY <1>1, AppendProperties
  <1>3. Len(vs) \in Nat OBVIOUS
  <1>4. k \in 1 .. Len(m_nodes) /\ m_baseSize * (k - 1) + off = p BY InsideFacts
  <1>5. Start(v) = p /\ End(v) = p + n BY <1>1, <1>4 DEF Start, End
  <1> HIDE DEF v, ws
  <1>6. vs = <<>> => lo = p BY DEF Buffers
  <1>7. vs # <<>> => Start(vs[1]) = lo /\ End(vs[Len(vs)]) = p BY DEF Buffers
  <1>8. ws # <<>> /\ Start(ws[1]) = lo /\ End(ws[Len(ws)]) = p + n
    <2>1. ws # <<>> BY <1>2, <1>3
    <2>2. CASE vs = <<>>
      <3>1. Len(vs) = 0 BY <2>2
      <3>2. ws[1] = v BY <1>2, <3>1
      <3> QED BY <1>2, <1>5, <1>6, <2>1, <2>2, <3>2
    <2>3. CASE vs # <<>>
      <3>1. 1 \in 1 .. Len(vs) BY <1>3, <2>3, EmptySeq
      <3>2. ws[1] = vs[1] BY <1>2, <3>1
      <3> QED BY <1>2, <1>5, <1>7, <2>1, <2>3, <3>2
    <2> QED BY <2>2, <2>3
  <1>9. ASSUME NEW i \in 1 .. Len(ws)
        PROVE  ws[i][1] \in 1 .. Len(m_nodes) /\ ws[i][3] > 0 /\ ws[i][2] + ws[i][3] <= m_baseSize
    <2>1. CASE i = Len(vs) + 1 BY <1>1, <1>2, <1>4, <2>1
    <2>2. CASE i # Len(vs) + 1
      <3>1. i \in 1 .. Len(vs) BY <1>2, <1>3, <2>2
      <3>2. ws[i] = vs[i] BY <1>2, <3>1
      <3>3. vs[i][1] \in 1 .. Len(m_nodes) /\ vs[i][3] > 0 /\ vs[i][2] + vs[i][3] <= m_baseSize
        BY <3>1 DEF Buffers
      <3> QED BY <3>2, <3>3
    <2> QED BY <2>1, <2>2
  <1>10. ASSUME NEW i \in 1 .. Len(ws) - 1
         PROVE  End(ws[i]) = Start(ws[i + 1])
    <2>1. i \in 1 .. Len(vs) BY <1>2, <1>3
    <2>2. CASE i = Len(vs)
      <3>1. vs # <<>> BY <1>3, <2>1
      <3> QED BY <1>2, <1>5, <1>7, <2>1, <2>2, <3>1
    <2>3. CASE i # Len(vs)
      <3>1. i \in 1 .. Len(vs) - 1 /\ i + 1 \in 1 .. Len(vs) BY <1>3, <2>1, <2>3
      <3>2. End(vs[i]) = Start(vs[i + 1]) BY <3>1 DEF Buffers
      <3> QED BY <1>2, <2>1, <3>1, <3>2
    <2> QED BY <2>2, <2>3
  <1>11. Buffers(ws, lo, p + n) BY <1>8, <1>9, <1>10 DEF Buffers
  <1> QED BY <1>2, <1>11 DEF ws, v

\* The first buffer, and the ones behind it.
LEMMA BuffersTail ==
  ASSUME Shape, NEW vs \in Seq(Nat \X Nat \X Nat), vs # <<>>, NEW lo \in Nat, NEW hi \in Nat, Buffers(vs, lo, hi)
  PROVE  /\ Head(vs) \in Nat \X Nat \X Nat /\ Inside(Head(vs)[1], Head(vs)[2], lo)
         /\ Head(vs)[3] > 0 /\ Head(vs)[2] + Head(vs)[3] <= m_baseSize
         /\ Tail(vs) \in Seq(Nat \X Nat \X Nat) /\ Buffers(Tail(vs), lo + Head(vs)[3], hi)
  <1> DEFINE v == Head(vs)
             ws == Tail(vs)
  <1>1. Len(vs) \in Nat /\ Len(vs) > 0 BY EmptySeq
  <1>2. v = vs[1] /\ v \in Nat \X Nat \X Nat BY <1>1
  <1>3. ws \in Seq(Nat \X Nat \X Nat) /\ Len(ws) = Len(vs) - 1 /\ \A i \in 1 .. Len(ws) : ws[i] = vs[i + 1]
    BY <1>1, HeadTailProperties
  <1> HIDE DEF v, ws
  <1>4. v[1] \in Nat /\ v[2] \in Nat /\ v[3] \in Nat BY <1>2
  <1>5. v[1] \in 1 .. Len(m_nodes) /\ v[3] > 0 /\ v[2] + v[3] <= m_baseSize BY <1>1, <1>2 DEF Buffers
  <1>6. Start(v) = lo /\ End(vs[Len(vs)]) = hi BY <1>2 DEF Buffers
  <1>7. Inside(v[1], v[2], lo)
    <2>1. m_baseSize \in Nat BY BaseType
    <2>3. PICK a \in Nat, b \in Nat, d \in Nat : a = v[2] /\ b = v[3] /\ d = m_baseSize BY <1>4, <2>1
    <2>4. b > 0 /\ a + b <= d BY <1>5, <2>3
    <2>5. a \in 0 .. d - 1 BY <2>4
    <2>2. v[2] \in 0 .. m_baseSize - 1 BY <2>3, <2>5
    <2> QED BY <1>5, <1>6, <2>2, InsideAt DEF Start
  <1>8. End(v) = lo + v[3] BY <1>6 DEF End
  <1>9. ws = <<>> => lo + v[3] = hi
    <2>1. ASSUME ws = <<>> PROVE Len(vs) = 1
      <3>1. Len(ws) = 0 BY <2>1
      <3> QED BY <1>1, <1>3, <3>1
    <2> QED BY <1>2, <1>6, <1>8, <2>1
  <1>10. ws # <<>> => Start(ws[1]) = lo + v[3] /\ End(ws[Len(ws)]) = hi
    <2> SUFFICES ASSUME ws # <<>> PROVE Start(ws[1]) = lo + v[3] /\ End(ws[Len(ws)]) = hi
      OBVIOUS
    <2>5. ws \in Seq(Nat \X Nat \X Nat) BY <1>3
    <2>6. Len(ws) \in Nat /\ Len(ws) # 0 BY <2>5, EmptySeq
    <2>1. Len(ws) \in Nat /\ Len(ws) > 0 BY <2>6
    <2>2. 1 \in 1 .. Len(vs) - 1 /\ 1 \in 1 .. Len(ws) /\ Len(ws) \in 1 .. Len(ws) /\ Len(ws) + 1 = Len(vs)
      BY <1>1, <1>3, <2>1
    <2>3. ws[1] = vs[1 + 1] /\ ws[Len(ws)] = vs[Len(vs)] BY <1>3, <2>2
    <2>4. End(vs[1]) = Start(vs[1 + 1]) BY <2>2 DEF Buffers
    <2> QED BY <1>2, <1>6, <1>8, <2>3, <2>4
  <1>11. ASSUME NEW i \in 1 .. Len(ws)
         PROVE  ws[i][1] \in 1 .. Len(m_nodes) /\ ws[i][3] > 0 /\ ws[i][2] + ws[i][3] <= m_baseSize
    <2>1. i + 1 \in 1 .. Len(vs) /\ ws[i] = vs[i + 1] BY <1>1, <1>3
    <2> QED BY <2>1 DEF Buffers
  <1>12. ASSUME NEW i \in 1 .. Len(ws) - 1
         PROVE  End(ws[i]) = Start(ws[i + 1])
    <2>1. i + 1 \in 1 .. Len(vs) - 1 /\ i \in 1 .. Len(ws) /\ i + 1 \in 1 .. Len(ws) BY <1>1, <1>3
    <2>2. End(vs[i + 1]) = Start(vs[(i + 1) + 1]) BY <2>1 DEF Buffers
    <2> QED BY <1>3, <2>1, <2>2
  <1>13. Buffers(ws, lo + v[3], hi) BY <1>9, <1>10, <1>11, <1>12 DEF Buffers
  <1> QED BY <1>2, <1>3, <1>5, <1>7, <1>13 DEF v, ws

\* How much the buffers are to hold.
LEMMA TotalType ==
  ASSUME IInv, pc # "idle", m_position <= m_size
  PROVE  /\ Total \in Nat
         /\ call.op = "send" => Total <= call.n /\ m_position + Total <= m_size
  <1>0. Numbers BY InvParts
  <1>1. m_size - m_position \in Nat BY <1>0 DEF Numbers
  <1>2. Total \in Nat BY <1>0, <1>1 DEF Total, Smaller, Numbers
  <1>3. ASSUME call.op = "send" PROVE Total <= call.n /\ m_position + Total <= m_size
    <2>1. Total = IF call.n > m_size - m_position THEN m_size - m_position ELSE call.n
      BY <1>3 DEF Total, Smaller
    <2>2. Total <= m_size - m_position /\ Total <= call.n BY <1>0, <1>1, <2>1 DEF Numbers
    <2>3. m_position + Total <= m_size BY <1>0, <1>1, <1>2, <2>2 DEF Numbers
    <2> QED BY <2>2, <2>3
  <1> QED BY <1>2, <1>3

\* The start of getWriteBuffers() and getReadBuffers().
LEMMA StartGatherInv ==
  ASSUME IInv, pc \in {"recv", "send"}, pc' = "iovLoop", npos' = FirstNpos, cur' = m_cur',
         UNCHANGED <<m_baseSize, m_position, m_size, call, buf, iovs, file, out, over, failed, was>>,
         Shape', m_capacity <= m_capacity', Points(m_cur, m_position)',
         \A q \in Nat : q < m_capacity => At(q)' = At(q),
         left' = Total, Total > 0, m_position + Total <= m_capacity'
  PROVE  IInv'
  <1>1. pc # "idle" OBVIOUS
  <1>0. Shape /\ LocalTypes /\ Called /\ Body /\ Numbers /\ Strings BY <1>1, InvParts
  <1>2. Entry BY <1>0 DEF Body, Ops
  <1>3. /\ call.op = pc /\ m_position = was.pos /\ m_size = Len(was.data) /\ Contents(was.pos)
        /\ buf = <<>> /\ iovs = <<>> /\ AtRest /\ (pc = "recv" => Len(call.bytes) <= call.n)
    BY <1>2 DEF Entry, Same
  <1>4. m_capacity' \in Nat /\ m_cur' \in Nat BY DEF Shape
  <1>5. Total \in Nat BY <1>1, <1>3, TotalType DEF AtRest
  <1>6. FirstNpos \in Int BY <1>0, Division, m_position \in Int, m_baseSize \in Nat \ {0} DEF FirstNpos, Numbers
  <1>7. LocalTypes' BY <1>0, <1>4, <1>5, <1>6 DEF LocalTypes, Loops
  <1>8. ContentsAfter(was.pos)
    <2>1. was.pos \in Nat /\ was.pos <= m_capacity BY <1>0 DEF Numbers
    <2> QED BY <1>0, <1>3, <1>4, <2>1, KeepsContents
  <1>9. Gathering'
    <2>1. Total' = Total BY DEF Total, Smaller
    <2>2. Same' /\ AtRest' BY <1>3 DEF Same, AtRest
    <2>3. Socket'
      <3>1. (was.pos + Total <= m_capacity)' BY <1>3, <2>1
      <3>2. (call.op \in {"recv", "send"})' BY <1>3
      <3>3. (call.op = "recv" => Len(call.bytes) <= call.n)' BY <1>3
      <3> QED BY <2>2, <3>1, <3>2, <3>3 DEF Socket
    <2>4. Contents(was.pos)' BY <1>8 DEF Contents, ContentsAfter
    <2>5. was.pos + (Total - Total) = m_position BY <1>0, <1>3, <1>5 DEF Numbers
    <2>6. Inside(cur, npos, m_position)'
      <3>1. m_position < m_capacity' BY <1>0, <1>4, <1>5 DEF Numbers
      <3>2. m_position' \in Nat /\ m_position' < m_capacity' /\ m_position' # m_capacity' BY <1>0, <1>4, <3>1 DEF Numbers
      <3>3. m_cur' = (m_position' \div m_baseSize') + 1 BY <3>2 DEF Points
      <3>4. npos' = m_position' % m_baseSize' BY DEF FirstNpos
      <3> QED BY <3>2, <3>3, <3>4 DEF Inside
    <2>7. Inside(cur, npos, was.pos + (Total - left))' BY <2>1, <2>5, <2>6 DEF Inside
    <2>8. Buffers(iovs, was.pos, was.pos + (Total - left))'
      <3>1. iovs' = <<>> /\ Len(iovs') = 0 BY <1>3
      <3>2. (was.pos = was.pos + (Total - left))' BY <1>3, <2>1, <2>5
      <3> QED BY <3>1, <3>2 DEF Buffers
    <2>9. (left > 0 /\ left <= Total /\ buf = <<>>)' BY <1>3, <1>5, <2>1
    <2> QED BY <2>3, <2>4, <2>7, <2>8, <2>9 DEF Gathering
  <1>10. Body' BY <1>9 DEF Body, Ops
  <1> QED BY <1>1, <1>7, <1>10, StepInv

LEMMA ReceiveInv ==
  ASSUME IInv, Receive
  PROVE  IInv'
  <1>1. pc # "idle" /\ pc = "recv" BY DEF Receive
  <1>0. Shape /\ LocalTypes /\ Called /\ Body /\ Numbers /\ Strings BY <1>1, InvParts
  <1>2. Entry BY <1>0, <1>1 DEF Body, Ops
  <1>3. /\ addCapacity(call.n) /\ pc' = "iovLoop" /\ npos' = FirstNpos /\ left' = call.n /\ cur' = m_cur'
        /\ UNCHANGED <<m_baseSize, m_position, m_size, call, buf, iovs, file, out, over, failed, was>>
    BY DEF Receive, resultVars
  <1>4. call.op = "recv" /\ call.n > 0 /\ call.n \in Nat /\ m_position <= m_size /\ Points(m_cur, m_position)
    BY <1>0, <1>1, <1>2 DEF Entry, AtRest, Numbers
  <1>5. /\ Shape' /\ m_capacity <= m_capacity' /\ m_position + call.n <= m_capacity'
        /\ Points(m_cur, m_position)' /\ \A q \in Nat : q < m_capacity => At(q)' = At(q)
    BY <1>0, <1>3, <1>4, Grown
  <1>6. Total = call.n BY <1>4 DEF Total
  <1> QED BY <1>1, <1>3, <1>4, <1>5, <1>6, StartGatherInv

LEMMA SendInv ==
  ASSUME IInv, Send
  PROVE  IInv'
  <1>1. pc # "idle" /\ pc = "send" BY DEF Send
  <1>0. Shape /\ LocalTypes /\ Called /\ Body /\ Numbers /\ Strings BY <1>1, InvParts
  <1>2. Entry BY <1>0, <1>1 DEF Body, Ops
  <1>3. /\ ReadSize > 0 /\ pc' = "iovLoop" /\ npos' = FirstNpos /\ left' = Smaller(call.n, ReadSize) /\ cur' = m_cur
        /\ UNCHANGED <<m_baseSize, m_nodes, m_position, m_capacity, m_size, m_cur>>
        /\ UNCHANGED <<call, buf, iovs, file, out, over, failed, was>>
    BY DEF Send, arrayVars, resultVars
  <1>4. call.op = "send" /\ m_position <= m_size /\ Points(m_cur, m_position)
    BY <1>0, <1>1, <1>2 DEF Entry, AtRest
  <1>5. Shape' BY <1>0, <1>3 DEF Shape
  <1>6. Points(m_cur, m_position)' BY <1>3, <1>4 DEF Points
  <1>7. \A q \in Nat : At(q)' = At(q) BY <1>3, AtKept
  <1>8. Total = Smaller(call.n, ReadSize) BY <1>4 DEF Total, ReadSize
  <1>11. call.n > 0 BY <1>1, <1>2 DEF Entry
  <1>12. Total \in Nat /\ m_position + Total <= m_size BY <1>1, <1>4, TotalType
  <1>13. ReadSize \in Int BY <1>0 DEF ReadSize, Numbers
  <1>14. Total > 0 BY <1>0, <1>3, <1>8, <1>11, <1>13 DEF Smaller, Numbers
  <1>9. Total > 0 /\ m_position + Total <= m_capacity
    BY <1>0, <1>12, <1>14 DEF Numbers
  <1>10. m_capacity <= m_capacity' BY <1>0, <1>3 DEF Numbers
  <1> QED BY <1>1, <1>3, <1>5, <1>6, <1>7, <1>8, <1>9, <1>10, StartGatherInv

\* The loop over the chunks that collects the buffers.
LEMMA GatheringFacts ==
  ASSUME IInv, pc = "iovLoop"
  PROVE  /\ Total \in Nat /\ left \in Nat /\ left > 0 /\ left <= Total
         /\ Inside(cur, npos, was.pos + (Total - left)) /\ Buffers(iovs, was.pos, was.pos + (Total - left))
         /\ iovs \in Seq(Nat \X Nat \X Nat)
         /\ npos \in Nat /\ npos < m_baseSize /\ Ncap \in Nat /\ Ncap > 0 /\ npos + Ncap = m_baseSize
         /\ was.pos + Total <= m_capacity /\ Total - left \in Nat
  <1>1. pc # "idle" OBVIOUS
  <1>0. Shape /\ LocalTypes /\ Called /\ Body /\ Numbers /\ Strings BY <1>1, InvParts
  <1>2. Gathering BY <1>0 DEF Body
  <1>3. /\ left > 0 /\ left <= Total /\ Inside(cur, npos, was.pos + (Total - left))
        /\ Buffers(iovs, was.pos, was.pos + (Total - left)) /\ Socket
    BY <1>2 DEF Gathering
  <1>4. m_position <= m_size /\ was.pos + Total <= m_capacity BY <1>3 DEF Socket, AtRest
  <1>5. Total \in Nat BY <1>1, <1>4, TotalType
  <1>6. npos \in 0 .. m_baseSize - 1 /\ m_baseSize \in Nat BY <1>0, <1>3, InsideFacts
  <1>7. npos \in Nat /\ npos < m_baseSize /\ Ncap \in Nat /\ Ncap > 0 /\ npos + Ncap = m_baseSize
    BY <1>6 DEF Ncap
  <1>8. left \in Nat /\ Total - left \in Nat BY <1>0, <1>3, <1>5 DEF Numbers
  <1>9. iovs \in Seq(Nat \X Nat \X Nat) BY <1>0 DEF LocalTypes
  <1> QED BY <1>3, <1>4, <1>5, <1>7, <1>8, <1>9

LEMMA IovChunkInv ==
  ASSUME IInv, IovChunk
  PROVE  IInv'
  <1>1. pc # "idle" /\ pc = "iovLoop" BY DEF IovChunk
  <1>0. Shape /\ LocalTypes /\ Called /\ Body /\ Numbers /\ Strings BY <1>1, InvParts
  <1>2. Gathering BY <1>0, <1>1 DEF Body
  <1> DEFINE n == Ncap
             ws == Append(iovs, <<cur, npos, n>>)
  <1>3. /\ n < left /\ left' = left - n /\ iovs' = ws /\ cur' = NextNode(cur) /\ npos' = 0
        /\ UNCHANGED <<m_baseSize, m_nodes, m_position, m_capacity, m_size, m_cur>>
        /\ UNCHANGED <<pc, call, buf, file, out, over, failed, was>>
    BY DEF IovChunk, arrayVars, resultVars
  <1>4. PICK p \in Nat : p = was.pos + (Total - left)
    BY <1>0, <1>1, GatheringFacts, SMTT(30) DEF Numbers
  <1>5. /\ Total \in Nat /\ left \in Nat /\ left <= Total /\ Inside(cur, npos, p) /\ Buffers(iovs, was.pos, p)
        /\ iovs \in Seq(Nat \X Nat \X Nat) /\ npos \in Nat
        /\ n \in Nat /\ n > 0 /\ npos + n = m_baseSize /\ was.pos + Total <= m_capacity
    BY <1>1, <1>4, GatheringFacts
  <1>6. /\ was.pos \in Nat /\ cur \in Nat /\ m_baseSize \in Nat /\ m_capacity \in Nat /\ Len(m_nodes) \in Nat
    BY <1>0 DEF Numbers
  <1>7. n < left BY <1>3
  <1>8. npos + n <= m_baseSize BY <1>5, <1>6
  <1>9. ws \in Seq(Nat \X Nat \X Nat) /\ Buffers(ws, was.pos, p + n)
    BY <1>0, <1>5, <1>6, <1>8, BuffersAppend
  <1>10. n = m_baseSize - npos BY DEF Ncap
  <1> HIDE DEF n, ws
  <1>11. p + n = was.pos + (Total - (left - n)) BY <1>4, <1>5, <1>6
  <1>12. p + n < m_capacity
    <2>1. p + left = was.pos + Total BY <1>4, <1>5, <1>6
    <2> QED BY <1>5, <1>6, <1>7, <2>1
  <1>13. Inside(NextNode(cur), 0, p + n) BY <1>0, <1>5, <1>10, <1>12, NextChunk
  <1>14. NextNode(cur) \in Nat BY <1>6 DEF NextNode, NULL
  <1>15. Shape' BY <1>0, <1>3 DEF Shape
  <1>16. LocalTypes' BY <1>0, <1>3, <1>5, <1>9, <1>14 DEF LocalTypes
  <1>17. Gathering'
    <2>1. Total' = Total BY <1>3 DEF Total, Smaller
    <2>2. Socket' BY <1>2, <1>3, <2>1 DEF Gathering, Socket, Same, AtRest, Points
    <2>3. \A q \in Nat : At(q)' = At(q) BY <1>3, AtKept
    <2>4. Contents(was.pos)' BY <1>2, <1>3, <2>3 DEF Contents, Gathering
    <2>5. Inside(cur, npos, was.pos + (Total - left))' BY <1>3, <1>11, <1>13, <2>1 DEF Inside
    <2>6. Buffers(iovs, was.pos, was.pos + (Total - left))'
      BY <1>3, <1>9, <1>11, <2>1 DEF Buffers, Start, End
    <2>7. left - n > 0 /\ left - n <= Total BY <1>5, <1>7
    <2>8. (left > 0 /\ left <= Total /\ buf = <<>>)' BY <1>2, <1>3, <2>1, <2>7 DEF Gathering
    <2> QED BY <2>2, <2>4, <2>5, <2>6, <2>8 DEF Gathering
  <1>18. Body' BY <1>1, <1>3, <1>17 DEF Body, Ops
  <1>19. m_capacity <= m_capacity' BY <1>3, <1>6
  <1> QED BY <1>1, <1>3, <1>15, <1>16, <1>18, <1>19, StepInv

LEMMA IovLastInv ==
  ASSUME IInv, IovLast
  PROVE  IInv'
  <1>1. pc # "idle" /\ pc = "iovLoop" BY DEF IovLast
  <1>0. Shape /\ LocalTypes /\ Called /\ Body /\ Numbers /\ Strings BY <1>1, InvParts
  <1>2. Gathering BY <1>0, <1>1 DEF Body
  <1> DEFINE ws == Append(iovs, <<cur, npos, left>>)
  <1>3. /\ left <= Ncap /\ iovs' = ws /\ cur' = NULL /\ npos' = 0
        /\ UNCHANGED <<m_baseSize, m_nodes, m_position, m_capacity, m_size, m_cur>>
        /\ UNCHANGED <<call, file, out, over, failed, was>>
    BY DEF IovLast, arrayVars, resultVars
  <1>4. PICK p \in Nat : p = was.pos + (Total - left)
    BY <1>0, <1>1, GatheringFacts, SMTT(30) DEF Numbers
  <1>5. /\ Total \in Nat /\ left \in Nat /\ left > 0 /\ left <= Total /\ Inside(cur, npos, p) /\ Buffers(iovs, was.pos, p)
        /\ iovs \in Seq(Nat \X Nat \X Nat) /\ npos \in Nat
        /\ Ncap \in Nat /\ npos + Ncap = m_baseSize /\ was.pos + Total <= m_capacity
    BY <1>1, <1>4, GatheringFacts
  <1>6. /\ was.pos \in Nat /\ cur \in Nat /\ m_baseSize \in Nat /\ m_capacity \in Nat /\ Len(m_nodes) \in Nat
        /\ Len(call.bytes) \in Nat
    BY <1>0 DEF Numbers
  <1>7. left <= Ncap BY <1>3
  <1>8. npos + left <= m_baseSize BY <1>5, <1>6, <1>7
  <1>9. ws \in Seq(Nat \X Nat \X Nat) /\ Buffers(ws, was.pos, p + left)
    BY <1>0, <1>5, <1>6, <1>8, BuffersAppend
  <1> HIDE DEF ws
  <1>10. p + left = was.pos + Total BY <1>4, <1>5, <1>6, SMTT(30)
  <1>11. Shape' BY <1>0, <1>3 DEF Shape
  <1>12. Total' = Total BY <1>3 DEF Total, Smaller
  <1>13. Socket' /\ Socket BY <1>2, <1>3, <1>12 DEF Gathering, Socket, Same, AtRest, Points
  <1>14. \A q \in Nat : At(q)' = At(q) BY <1>3, AtKept
  <1>15. Contents(was.pos)' BY <1>2, <1>3, <1>14 DEF Contents, Gathering
  <1>16. Buffers(iovs, was.pos, was.pos + Total)'
    BY <1>3, <1>9, <1>10, <1>12 DEF Buffers, Start, End
  <1>17. m_capacity <= m_capacity' BY <1>3, <1>6
  <1>18. buf = <<>> BY <1>2 DEF Gathering
  <1>19. CASE call.op = "recv" /\ pc' = "readv" /\ left' = 0 /\ buf' = call.bytes
    <2>1. LocalTypes' BY <1>0, <1>3, <1>9, <1>19 DEF LocalTypes, Loops, Strings, NULL
    <2>2. Filling'
      <3>1. Len(call.bytes) - Len(call.bytes) = 0 /\ was.pos + 0 = was.pos BY <1>6
      <3>2. (was.pos + (Len(call.bytes) - Len(buf)) = was.pos)' BY <1>3, <1>19, <3>1
      <3>3. \A i \in 1 .. Len(call.bytes) : was.pos - was.pos + i = i BY <1>6
      <3>4. ToWrite(call.bytes, was.pos) BY <1>6, <3>3 DEF ToWrite
      <3>5. ToWrite(buf, was.pos + (Len(call.bytes) - Len(buf)))' BY <1>3, <1>19, <3>2, <3>4 DEF ToWrite
      <3>6. Contents(was.pos + (Len(call.bytes) - Len(buf)))' BY <1>15, <3>2 DEF Contents
      <3>7. Buffers(iovs, was.pos + (Len(call.bytes) - Len(buf)), was.pos + Total)' BY <1>16, <3>2 DEF Buffers
      <3>8. (call.op = "recv" /\ Len(buf) <= Len(call.bytes))' BY <1>3, <1>6, <1>19
      <3> QED BY <1>13, <3>5, <3>6, <3>7, <3>8 DEF Filling
    <2>3. Body' BY <1>19, <2>2 DEF Body, Ops
    <2> QED BY <1>1, <1>3, <1>11, <1>17, <1>19, <2>1, <2>3, StepInv
  <1>20. CASE call.op = "send" /\ pc' = "writev" /\ left' \in 0 .. Smaller(call.n, ReadSize) /\ UNCHANGED buf
    <2>1. Smaller(call.n, ReadSize) = Total BY <1>20 DEF Total, ReadSize
    <2>2. left' \in Nat /\ left' <= Total BY <1>5, <1>20, <2>1
    <2>3. LocalTypes' BY <1>0, <1>3, <1>9, <1>20, <2>2 DEF LocalTypes, Loops, NULL
    <2>4. Sending'
      <3>1. Len(buf') = 0 BY <1>18, <1>20
      <3>2. (was.pos + Len(buf) = was.pos)' BY <1>3, <1>6, <3>1
      <3>3. Buffers(iovs, was.pos + Len(buf), was.pos + Total)' BY <1>16, <3>2 DEF Buffers
      <3>4. Reads(buf)' BY <1>0, <1>3, <3>1 DEF Reads, Numbers
      <3>5. (call.op = "send" /\ left >= 0 /\ Len(buf) + left <= Total)' BY <1>3, <1>12, <1>20, <2>2, <3>1
      <3> QED BY <1>13, <1>15, <3>3, <3>4, <3>5 DEF Sending
    <2>5. Body' BY <1>20, <2>4 DEF Body, Ops
    <2> QED BY <1>1, <1>3, <1>11, <1>17, <1>20, <2>3, <2>5, StepInv
  <1> QED BY <1>19, <1>20 DEF IovLast

LEMMA ReadvInv ==
  ASSUME IInv, Readv
  PROVE  IInv'
  <1>1. pc # "idle" /\ pc = "readv" BY DEF Readv
  <1>0. Shape /\ LocalTypes /\ Called /\ Body /\ Numbers /\ Strings BY <1>1, InvParts
  <1>2. Filling BY <1>0, <1>1 DEF Body
  <1>3. PICK v, n : v = Head(iovs) /\ n = Smaller(Len(buf), v[3]) OBVIOUS
  <1> DEFINE t == SubSeq(buf, n + 1, Len(buf))
  <1>4. /\ buf # <<>> /\ iovs # <<>> /\ m_nodes' = Copied(v[1], v[2], buf, n) /\ buf' = t /\ iovs' = Tail(iovs)
        /\ UNCHANGED <<m_baseSize, m_position, m_capacity, m_size, m_cur, pc, call,
                       npos, left, cur, file, out, over, failed, was>>
    BY <1>3 DEF Readv, resultVars
  <1>5. /\ Socket /\ call.op = "recv" /\ Len(buf) <= Len(call.bytes)
        /\ ToWrite(buf, was.pos + (Len(call.bytes) - Len(buf)))
        /\ Contents(was.pos + (Len(call.bytes) - Len(buf)))
        /\ Buffers(iovs, was.pos + (Len(call.bytes) - Len(buf)), was.pos + Total)
    BY <1>2, <1>4 DEF Filling
  <1>6. /\ was.pos \in Nat /\ m_baseSize \in Nat /\ m_capacity \in Nat /\ Len(m_nodes) \in Nat
        /\ Len(call.bytes) \in Nat /\ Len(buf) \in Nat
    BY <1>0 DEF Numbers
  <1>7. PICK p \in Nat : p = was.pos + (Len(call.bytes) - Len(buf)) BY <1>5, <1>6
  <1>8. PICK hi \in Nat : hi = was.pos + Total
    <2>1. m_position <= m_size BY <1>5 DEF Socket, AtRest
    <2>2. Total \in Nat BY <1>1, <2>1, TotalType
    <2> QED BY <1>6, <2>2
  <1>9. /\ v \in Nat \X Nat \X Nat /\ Inside(v[1], v[2], p) /\ v[3] > 0 /\ v[2] + v[3] <= m_baseSize
        /\ Tail(iovs) \in Seq(Nat \X Nat \X Nat) /\ Buffers(Tail(iovs), p + v[3], hi)
    <2>1. iovs \in Seq(Nat \X Nat \X Nat) BY <1>0 DEF LocalTypes
    <2>2. Buffers(iovs, p, hi) BY <1>5, <1>7, <1>8
    <2> QED BY <1>0, <1>3, <1>4, <2>1, <2>2, BuffersTail
  <1>10. v[1] \in Nat /\ v[2] \in Nat /\ v[3] \in Nat BY <1>9
  <1>11. n \in Nat /\ n <= Len(buf) /\ n <= v[3] /\ (n = Len(buf) \/ n = v[3])
    BY <1>3, <1>6, <1>10 DEF Smaller
  <1>12. v[2] + n <= m_baseSize BY <1>6, <1>9, <1>10, <1>11, SMTT(30)
  <1>13. buf \in Seq(Byte) BY <1>0 DEF Strings
  <1>14. ToWrite(buf, p) /\ Contents(p) BY <1>5, <1>7
  <1>15. /\ m_nodes' \in Seq([0 .. m_baseSize - 1 -> Byte]) /\ Len(m_nodes') = Len(m_nodes)
         /\ ContentsAfter(p + n)
    <2>1. n \in 0 .. Len(buf) BY <1>6, <1>11
    <2> QED BY <1>0, <1>4, <1>9, <1>12, <1>13, <1>14, <2>1, WritesContents
  <1>16. t \in Seq(Byte) /\ Len(t) = Len(buf) - n /\ \A i \in 1 .. Len(t) : t[i] = buf[n + i]
    <2>1. \A i \in n + 1 .. Len(buf) : buf[i] \in Byte BY <1>11, <1>13
    <2>2. n + 1 \in Int /\ Len(buf) \in Int /\ n \in Nat /\ Len(buf) \in Nat /\ n <= Len(buf) BY <1>6, <1>11
    <2> QED BY <1>13, <2>1, <2>2, SubSeqProperties, SMTT(30)
  <1> HIDE DEF t
  <1>17. Shape' BY <1>0, <1>4, <1>15 DEF Shape
  <1>18. LocalTypes' BY <1>0, <1>4, <1>9, <1>16 DEF LocalTypes
  <1>19. Filling'
    <2>1. Total' = Total BY <1>4 DEF Total, Smaller
    <2>2. Socket' BY <1>4, <1>5, <2>1 DEF Socket, Same, AtRest, Points
    <2>3. Len(t) = Len(buf) - n /\ Len(t) \in Nat BY <1>6, <1>11, <1>16
    <2>4. was.pos + (Len(call.bytes) - Len(t)) = p + n BY <1>6, <1>7, <1>11, <2>3, SMTT(30)
    <2>5. Len(t) <= Len(call.bytes) BY <1>5, <1>6, <1>11, <2>3
    <2>6. (call.op = "recv" /\ Len(buf) <= Len(call.bytes))' BY <1>4, <1>5, <2>5
    <2>7. ToWrite(t, p + n)
      <3>1. ASSUME NEW i \in 1 .. Len(t) PROVE t[i] = call.bytes[(p + n) - was.pos + i]
        <4>1. n + i \in 1 .. Len(buf) BY <1>11, <2>3
        <4>2. p - was.pos + (n + i) = (p + n) - was.pos + i BY <1>6, <1>11
        <4>3. buf[n + i] = call.bytes[p - was.pos + (n + i)] BY <1>14, <4>1 DEF ToWrite
        <4> QED BY <1>16, <4>2, <4>3
      <3>2. was.pos <= p + n /\ (p + n) - was.pos + Len(t) <= Len(call.bytes)
        <4>1. was.pos <= p /\ p - was.pos + Len(buf) <= Len(call.bytes) BY <1>14 DEF ToWrite
        <4> QED BY <1>6, <1>11, <2>3, <4>1
      <3> QED BY <3>1, <3>2 DEF ToWrite
    <2>8. ToWrite(buf, was.pos + (Len(call.bytes) - Len(buf)))' BY <1>4, <2>4, <2>7 DEF ToWrite
    <2>9. Contents(was.pos + (Len(call.bytes) - Len(buf)))' BY <1>4, <1>15, <2>4 DEF Contents, ContentsAfter
    <2>10. ASSUME buf' # <<>> PROVE Buffers(iovs, was.pos + (Len(call.bytes) - Len(buf)), was.pos + Total)'
      <3>1. n # Len(buf)
        <4>1. t # <<>> BY <1>4, <2>10
        <4>2. Len(t) # 0 BY <1>16, <4>1, EmptySeq
        <4> QED BY <1>6, <2>3, <4>2
      <3>2. n = v[3] BY <1>11, <3>1
      <3> QED BY <1>4, <1>8, <1>9, <1>15, <2>1, <2>4, <3>2 DEF Buffers, Start, End
    <2> QED BY <2>2, <2>6, <2>8, <2>9, <2>10 DEF Filling
  <1>20. Body' BY <1>1, <1>4, <1>19 DEF Body, Ops
  <1>21. m_capacity <= m_capacity' BY <1>4, <1>6
  <1> QED BY <1>1, <1>4, <1>17, <1>18, <1>20, <1>21, StepInv

LEMMA ReadvEndInv ==
  ASSUME IInv, ReadvEnd
  PROVE  IInv'
  <1>1. pc # "idle" /\ pc = "readv" /\ buf = <<>> BY DEF ReadvEnd
  <1>0. Shape /\ LocalTypes /\ Called /\ Body /\ Numbers /\ Strings BY <1>1, InvParts
  <1>2. Filling BY <1>0, <1>1 DEF Body
  <1>3. /\ Socket /\ call.op = "recv" /\ Contents(was.pos + (Len(call.bytes) - Len(buf)))
    BY <1>2 DEF Filling
  <1>4. AtRest /\ m_position = was.pos /\ m_size = Len(was.data) /\ was.pos + Total <= m_capacity
        /\ Len(call.bytes) <= call.n /\ Total = call.n
    BY <1>3 DEF Socket, Same, Total
  <1>5. CASE call.bytes = <<>> /\ Return(<<>>) /\ UNCHANGED arrayVars
    BY <1>1, <1>4, <1>5, ReturnInv DEF Return
  <1>6. CASE call.bytes # <<>> /\ StartSeek(m_position + Len(call.bytes)) /\ UNCHANGED buf
    <2>1. PICK v \in Nat : v = m_position + Len(call.bytes) BY <1>0 DEF Numbers
    <2>2. v <= m_capacity BY <1>0, <1>4, <2>1, SMTT(30) DEF Numbers
    <2>3. v = was.pos + Len(call.bytes) BY <1>4, <2>1
    <2>4. Len(buf) = 0 BY <1>1
    <2>5. v = was.pos + (Len(call.bytes) - Len(buf)) BY <1>0, <2>3, <2>4 DEF Numbers
    <2>6. Contents(v) BY <1>3, <2>5
    <2> QED BY <1>1, <1>3, <1>4, <1>6, <2>1, <2>2, <2>3, <2>6, StartSeekInv
  <1> QED BY <1>5, <1>6 DEF ReadvEnd

LEMMA WritevInv ==
  ASSUME IInv, Writev
  PROVE  IInv'
  <1>1. pc # "idle" /\ pc = "writev" BY DEF Writev
  <1>0. Shape /\ LocalTypes /\ Called /\ Body /\ Numbers /\ Strings BY <1>1, InvParts
  <1>2. Sending BY <1>0, <1>1 DEF Body
  <1>3. PICK v, n : v = Head(iovs) /\ n = Smaller(left, v[3]) OBVIOUS
  <1> DEFINE t == buf \o Part(v[1], v[2], n)
  <1>4. /\ left > 0 /\ iovs # <<>> /\ buf' = t /\ left' = left - n /\ iovs' = Tail(iovs)
        /\ UNCHANGED <<m_baseSize, m_nodes, m_position, m_capacity, m_size, m_cur>>
        /\ UNCHANGED <<pc, call, npos, cur, file, out, over, failed, was>>
    BY <1>3 DEF Writev, arrayVars, resultVars
  <1>22. left > 0 BY <1>4
  <1>5. /\ Socket /\ call.op = "send" /\ Len(buf) + left <= Total /\ Contents(was.pos) /\ Reads(buf)
        /\ Buffers(iovs, was.pos + Len(buf), was.pos + Total)
    BY <1>2, <1>22 DEF Sending
  <1>6. /\ was.pos \in Nat /\ m_baseSize \in Nat /\ m_capacity \in Nat /\ Len(m_nodes) \in Nat
        /\ left \in Int /\ Len(buf) \in Nat /\ Len(was.data) \in Nat /\ Len(was.data) <= m_capacity /\ m_size \in Nat
    BY <1>0 DEF Numbers
  <1>7. m_position <= m_size /\ m_position = was.pos /\ m_size = Len(was.data) BY <1>5 DEF Socket, AtRest, Same
  <1>8. Total \in Nat /\ m_position + Total <= m_size BY <1>1, <1>5, <1>7, TotalType
  <1>9. /\ v \in Nat \X Nat \X Nat /\ Inside(v[1], v[2], was.pos + Len(buf)) /\ v[3] > 0 /\ v[2] + v[3] <= m_baseSize
        /\ Tail(iovs) \in Seq(Nat \X Nat \X Nat) /\ Buffers(Tail(iovs), was.pos + Len(buf) + v[3], was.pos + Total)
    <2>1. iovs \in Seq(Nat \X Nat \X Nat) BY <1>0 DEF LocalTypes
    <2>2. was.pos + Len(buf) \in Nat /\ was.pos + Total \in Nat BY <1>6, <1>8
    <2> QED BY <1>0, <1>3, <1>4, <1>5, <2>1, <2>2, BuffersTail
  <1>10. v[1] \in Nat /\ v[2] \in Nat /\ v[3] \in Nat BY <1>9
  <1>11. n \in Nat /\ n <= left /\ n <= v[3] /\ (n = left \/ n = v[3])
    BY <1>3, <1>6, <1>10, <1>22 DEF Smaller
  <1>12. v[2] + n <= m_baseSize BY <1>6, <1>9, <1>10, <1>11, SMTT(30)
  <1>13. buf \in Seq(Byte) BY <1>0 DEF Strings
  <1>14. was.pos + Len(buf) + n <= Len(was.data)
    <2>1. was.pos + Total <= Len(was.data) BY <1>7, <1>8
    <2>2. Len(buf) + n <= Total BY <1>5, <1>6, <1>8, <1>11
    <2> QED BY <1>6, <1>8, <1>11, <2>1, <2>2, SMTT(30)
  <1>15. t \in Seq(Byte) /\ Len(t) = Len(buf) + n /\ Reads(t)
    BY <1>0, <1>5, <1>6, <1>9, <1>10, <1>11, <1>12, <1>13, <1>14, ReadsMore
  <1> HIDE DEF t
  <1>16. Shape' BY <1>0, <1>4 DEF Shape
  <1>17. LocalTypes' BY <1>0, <1>4, <1>6, <1>9, <1>11, <1>15 DEF LocalTypes
  <1>18. Sending'
    <2>1. Total' = Total BY <1>4 DEF Total, Smaller
    <2>2. Socket' BY <1>4, <1>5, <2>1 DEF Socket, Same, AtRest, Points
    <2>3. \A q \in Nat : At(q)' = At(q) BY <1>4, AtKept
    <2>4. Contents(was.pos)' BY <1>4, <1>5, <2>3 DEF Contents
    <2>5. Reads(buf)' BY <1>4, <1>15 DEF Reads
    <2>6. left - n >= 0 BY <1>6, <1>11
    <2>7. Len(t) + (left - n) <= Total
      <3>1. Len(t) = Len(buf) + n /\ Len(buf) + left <= Total BY <1>5, <1>15
      <3> QED BY <1>6, <1>8, <1>11, <3>1
    <2>8. (call.op = "send" /\ left >= 0 /\ Len(buf) + left <= Total)' BY <1>4, <1>5, <2>1, <2>6, <2>7
    <2>9. ASSUME left' > 0 PROVE Buffers(iovs, was.pos + Len(buf), was.pos + Total)'
      <3>1. left - n > 0 BY <1>4, <2>9
      <3>2. n = v[3] BY <1>6, <1>11, <3>1
      <3>3. was.pos + Len(t) = was.pos + Len(buf) + v[3] BY <1>6, <1>10, <1>15, <3>2
      <3> QED BY <1>4, <1>9, <2>1, <3>3 DEF Buffers, Start, End
    <2> QED BY <2>2, <2>4, <2>5, <2>8, <2>9 DEF Sending
  <1>19. Body' BY <1>1, <1>4, <1>18 DEF Body, Ops
  <1>20. m_capacity <= m_capacity' BY <1>4, <1>6
  <1> QED BY <1>1, <1>4, <1>16, <1>17, <1>19, <1>20, StepInv

LEMMA WritevEndInv ==
  ASSUME IInv, WritevEnd
  PROVE  IInv'
  <1>1. pc # "idle" /\ pc = "writev" /\ left = 0 BY DEF WritevEnd
  <1>0. Shape /\ LocalTypes /\ Called /\ Body /\ Numbers /\ Strings BY <1>1, InvParts
  <1>2. Sending BY <1>0, <1>1 DEF Body
  <1>3. /\ Socket /\ call.op = "send" /\ Len(buf) + left <= Total /\ Contents(was.pos) /\ Reads(buf)
    BY <1>2 DEF Sending
  <1>4. AtRest /\ m_position <= m_size /\ m_position = was.pos /\ m_size = Len(was.data)
    BY <1>3 DEF Socket, Same, AtRest
  <1>5. CASE buf = <<>> /\ Return(<<>>) /\ UNCHANGED arrayVars
    BY <1>1, <1>4, <1>5, ReturnInv DEF Return
  <1>6. CASE buf # <<>> /\ StartSeek(m_position + Len(buf)) /\ UNCHANGED buf
    <2>1. PICK v \in Nat : v = m_position + Len(buf) BY <1>0 DEF Numbers
    <2>2. Total \in Nat /\ Total <= call.n /\ m_position + Total <= m_size BY <1>1, <1>3, <1>4, TotalType
    <2>3. Len(buf) <= Total BY <1>0, <1>1, <1>3 DEF Numbers
    <2>4. Len(buf) <= call.n /\ v <= m_capacity BY <1>0, <2>1, <2>2, <2>3 DEF Numbers
    <2>5. v = was.pos + Len(buf) BY <1>4, <2>1
    <2> QED BY <1>1, <1>3, <1>4, <1>6, <2>1, <2>4, <2>5, StartSeekInv
  <1> QED BY <1>5, <1>6 DEF WritevEnd

-----------------------------------------------------------------------------
(***************************************************************************)
(* The invariant.                                                           *)
(***************************************************************************)
\* The program stops at a NULL chunk only in the cases known.
LEMMA NullDerefInv ==
  ASSUME IInv, NullDeref
  PROVE  IInv'
  <1>1. /\ pc # "idle" /\ pc' = "crashed"
        /\ UNCHANGED <<m_baseSize, m_nodes, m_position, m_capacity, m_size, m_cur>>
        /\ UNCHANGED <<call, npos, left, cur, buf, iovs, file, out, over, failed, was>>
    BY DEF NullDeref, arrayVars, localVars, resultVars
  <1>0. Shape /\ LocalTypes /\ Called /\ Body /\ Numbers /\ Strings BY <1>1, InvParts
  <1>2. Shape' BY <1>0, <1>1 DEF Shape
  <1>3. LocalTypes' BY <1>0, <1>1 DEF LocalTypes
  <1>4. Called' BY <1>0, <1>1 DEF Called
  <1>5. Body' BY <1>1 DEF Body, Ops
  <1>6. OverrunIsRestOfChunk' BY <1>0, <1>1 DEF OverrunIsRestOfChunk, Called
  <1>7. \/ call.op = "read" /\ call.n = 0 /\ was.pos = m_capacity
        \/ call.op = "writeToFile" /\ was.pos % m_baseSize # 0 /\ Len(was.data) - was.pos < m_baseSize
    <2>1. CASE pc = "writeLoop" /\ m_cur = NULL
      <3>1. Inside(m_cur, npos, m_position) BY <1>0, <2>1 DEF Body, Writing
      <3> QED BY <1>0, <2>1, <3>1, InsideFacts DEF NULL
    <2>2. CASE pc = "readLoop" /\ m_cur = NULL
      BY <1>0, <2>2 DEF Body, Reading
    <2>3. CASE pc = "seekLoop" /\ m_cur = NULL
      BY <1>0, <2>3 DEF Body, Seeking, NULL
    <2>4. CASE pc = "peekLoop" /\ cur = NULL
      <3>1. Inside(cur, npos, was.pos + Len(buf)) BY <1>0, <2>4 DEF Body, Peeking
      <3> QED BY <1>0, <2>4, <3>1, InsideFacts DEF NULL
    <2>5. CASE pc = "iovLoop" /\ cur = NULL
      <3>1. Inside(cur, npos, was.pos + (Total - left)) BY <1>0, <2>5 DEF Body, Gathering
      <3> QED BY <1>0, <2>5, <3>1, InsideFacts DEF NULL
    <2>6. CASE pc = "fileLoop" /\ left > 0 /\ cur = NULL
      <3>1. Filing BY <1>0, <2>6 DEF Body
      <3>2. ASSUME Whole PROVE FALSE
        <4>1. npos = was.pos + Len(buf) /\ cur = (npos \div m_baseSize) + 1 /\ npos < m_capacity
          BY <2>6, <3>1, <3>2 DEF Filing
        <4>2. npos \in Nat BY <1>0, <4>1 DEF Numbers
        <4>3. cur \in 1 .. Len(m_nodes) BY <1>0, <4>1, <4>2, ChunkOf
        <4> QED BY <2>6, <4>3 DEF NULL
      <3>3. was.pos % m_baseSize # 0 /\ ~ (Len(was.data) - was.pos >= m_baseSize) BY <3>2 DEF Whole
      <3>4. Len(was.data) - was.pos < m_baseSize BY <1>0, <3>3 DEF Numbers
      <3> QED BY <3>1, <3>3, <3>4 DEF Filing
    <2> QED BY <2>1, <2>2, <2>3, <2>4, <2>5, <2>6 DEF NullDeref
  <1>8. CrashesOnlyAtEnds' BY <1>1, <1>7 DEF CrashesOnlyAtEnds
  <1> QED BY <1>2, <1>3, <1>4, <1>5, <1>6, <1>8 DEF IInv

LEMMA BeginInv ==
  ASSUME IInv, NEW r \in Requests, Begin(r)
  PROVE  IInv'
  <1>1. /\ pc = "idle" /\ pc' = r.op /\ call' = r /\ was' = [data |-> Data, pos |-> m_position]
        /\ out' = <<>> /\ over' = 0 /\ failed' = FALSE
        /\ UNCHANGED <<m_baseSize, m_nodes, m_position, m_capacity, m_size, m_cur>>
        /\ UNCHANGED <<npos, left, cur, buf, iovs, file>>
        /\ (r.op \in {"recv", "send"} => r.n > 0)
    BY DEF Begin, arrayVars, localVars
  <1>2. Shape /\ LocalTypes /\ Idle BY <1>1 DEF IInv, Body
  <1>3. r \in Calls /\ r.op \in Ops /\ (r.op = "recv" => Len(r.bytes) <= r.n) BY RequestType
  <1>4. Data \in Seq(Byte) /\ Len(Data) = m_size /\ \A i \in 1 .. m_size : Data[i] = At(i - 1)
    BY <1>2, DataType
  <1>5. AtRest /\ m_position <= m_size /\ m_size <= m_capacity /\ m_size \in Nat /\ m_position \in Nat
    BY <1>2 DEF Idle, AtRest, Shape
  <1>6. was'.data = Data /\ was'.pos = m_position BY <1>1
  <1>7. Shape' BY <1>1, <1>2 DEF Shape
  <1>8. LocalTypes' BY <1>1, <1>2, <1>3, <1>4, <1>5 DEF LocalTypes
  <1>9. Called' BY <1>1, <1>4, <1>5, <1>6 DEF Called
  <1>10. Entry'
    <2>1. (call.op = pc)' BY <1>1
    <2>2. Same' BY <1>1, <1>4, <1>6 DEF Same
    <2>3. AtRest' BY <1>1, <1>5 DEF AtRest, Points
    <2>4. \A q \in Nat : At(q)' = At(q) BY <1>1, AtKept
    <2>5. Contents(was.pos)'
      <3>1. ASSUME NEW q \in Nat, q < m_size PROVE At(q) = Data[q + 1]
        <4>1. q + 1 \in 1 .. m_size /\ (q + 1) - 1 = q BY <1>5, <3>1
        <4> QED BY <1>4, <4>1
      <3>2. \A q \in Nat : m_position <= q /\ q < m_position => FALSE BY <1>5
      <3>3. \A q \in Nat : q < Len(was'.data) => At(q)' = was'.data[q + 1] BY <1>4, <1>6, <2>4, <3>1
      <3> QED BY <1>6, <3>2, <3>3 DEF Contents
    <2>6. (buf = <<>> /\ iovs = <<>> /\ file = <<>>)' BY <1>1, <1>2 DEF Idle
    <2>7. (pc \in {"recv", "send"} => call.n > 0)' /\ (pc = "recv" => Len(call.bytes) <= call.n)' BY <1>1, <1>3
    <2> QED BY <2>1, <2>2, <2>3, <2>5, <2>6, <2>7 DEF Entry
  <1>11. Body' BY <1>1, <1>3, <1>10 DEF Body, Ops
  <1>12. CrashesOnlyAtEnds' BY <1>1, <1>3 DEF CrashesOnlyAtEnds, Ops
  <1>13. OverrunIsRestOfChunk' BY <1>1 DEF OverrunIsRestOfChunk
  <1> QED BY <1>7, <1>8, <1>9, <1>11, <1>12, <1>13 DEF IInv

LEMMA InitInv ==
  ASSUME Init
  PROVE  IInv
  <1>1. m_baseSize \in Nat \ {0} BY ByteArrayAssumption DEF Init
  <1>2. PICK node \in Node : m_nodes = <<node>> BY DEF Init
  <1>3. node \in [0 .. m_baseSize - 1 -> Byte] BY <1>2, ByteArrayAssumption DEF Node
  <1>4. m_nodes \in Seq([0 .. m_baseSize - 1 -> Byte]) /\ Len(m_nodes) = 1 BY <1>2, <1>3
  <1>5. m_baseSize * 1 = m_baseSize /\ 0 \div m_baseSize = 0 BY <1>1
  <1>6. Shape BY <1>1, <1>4, <1>5 DEF Init, Shape
  <1>7. LocalTypes
    <2>1. <<>> \in Seq(Byte) /\ <<>> \in Seq(Nat \X Nat \X Nat) OBVIOUS
    <2>2. NoCall \in Calls BY <2>1 DEF NoCall, Calls, Ops
    <2>3. NotCalled \in [data : Seq(Byte), pos : Nat] BY <2>1 DEF NotCalled
    <2> QED BY <2>1, <2>2, <2>3 DEF Init, LocalTypes, NULL
  <1>8. AtRest BY <1>1, <1>5 DEF Init, AtRest, Points
  <1>9. Idle BY <1>8 DEF Init, Idle
  <1>10. pc = "idle" /\ over = 0 BY DEF Init
  <1>11. Body BY <1>9, <1>10 DEF Body, Ops
  <1>12. CrashesOnlyAtEnds /\ OverrunIsRestOfChunk BY <1>10 DEF CrashesOnlyAtEnds, OverrunIsRestOfChunk
  <1> QED BY <1>6, <1>7, <1>10, <1>11, <1>12 DEF IInv

\* A stuttering step changes nothing the invariant speaks of.
LEMMA StutterInv ==
  ASSUME IInv, UNCHANGED vars
  PROVE  IInv'
  <1>1. /\ UNCHANGED <<m_baseSize, m_nodes, m_position, m_capacity, m_size, m_cur>>
        /\ UNCHANGED <<pc, call, npos, left, cur, buf, iovs, file, out, over, failed, was>>
    BY DEF vars, arrayVars, localVars, resultVars
  <1>2. \A q \in Nat : At(q)' = At(q) BY <1>1, AtKept
  <1>3. Shape' /\ LocalTypes' BY <1>1 DEF IInv, Shape, LocalTypes
  <1>4. (pc # "idle" => Called)' /\ CrashesOnlyAtEnds' /\ OverrunIsRestOfChunk'
    BY <1>1 DEF IInv, Called, CrashesOnlyAtEnds, OverrunIsRestOfChunk
  <1>5. Body BY DEF IInv
  <1>6. AtRest => AtRest' BY <1>1 DEF AtRest, Points
  <1>7. Contents(was.pos) => Contents(was.pos)' BY <1>1, <1>2 DEF Contents
  <1>8. Contents(m_position) => Contents(m_position)' BY <1>1, <1>2 DEF Contents
  <1>9. Reads(buf) => Reads(buf)' BY <1>1 DEF Reads
  <1>10. Same => Same' BY <1>1 DEF Same
  <1>11. Socket => Socket' BY <1>1, <1>6, <1>10 DEF Socket, Total, Smaller
  <1>12. (pc = "idle" => Idle)' BY <1>1, <1>5, <1>6 DEF Body, Idle
  <1>13. (pc \in Ops => Entry)' BY <1>1, <1>5, <1>6, <1>7, <1>10 DEF Body, Entry
  <1>14. (pc = "writeLoop" => Writing)' BY <1>1, <1>5, <1>8 DEF Body, Writing, Inside, ToWrite, Sized
  <1>15. (pc = "loadLoop" => Loading)' BY <1>1, <1>5, <1>6, <1>8 DEF Body, Loading, ToWrite, Sized
  <1>16. (pc = "readLoop" => Reading)' BY <1>1, <1>5, <1>7, <1>9 DEF Body, Reading, Points
  <1>17. (pc = "peekLoop" => Peeking)' BY <1>1, <1>5, <1>6, <1>7, <1>9, <1>10 DEF Body, Peeking, Inside
  <1>18. (pc = "fileLoop" => Filing)' BY <1>1, <1>5, <1>6, <1>7, <1>9, <1>10 DEF Body, Filing, Whole, Astray
  <1>19. (pc = "seekLoop" => Seeking)' BY <1>1, <1>5, <1>7, <1>8, <1>9 DEF Body, Seeking
  <1>20. (pc = "iovLoop" => Gathering)'
    BY <1>1, <1>5, <1>7, <1>11 DEF Body, Gathering, Inside, Buffers, Start, End, Total, Smaller
  <1>21. (pc = "readv" => Filling)'
    <2>1. Contents(was.pos + (Len(call.bytes) - Len(buf))) => Contents(was.pos + (Len(call.bytes) - Len(buf)))'
      BY <1>1, <1>2 DEF Contents
    <2> QED BY <1>1, <1>5, <1>11, <2>1 DEF Body, Filling, ToWrite, Buffers, Start, End, Total, Smaller
  <1>22. (pc = "writev" => Sending)'
    BY <1>1, <1>5, <1>7, <1>9, <1>11 DEF Body, Sending, Buffers, Start, End, Total, Smaller
  <1>23. Body'
    BY <1>12, <1>13, <1>14, <1>15, <1>16, <1>17, <1>18, <1>19, <1>20, <1>21, <1>22 DEF Body
  <1> QED BY <1>3, <1>4, <1>23 DEF IInv

\* The loop that a failed read keeps from ending.
LEMMA LoadFailsInv ==
  ASSUME IInv, LoadFails
  PROVE  IInv'
  <1>1. /\ pc # "idle" /\ pc' = "spin"
        /\ UNCHANGED <<m_baseSize, m_nodes, m_position, m_capacity, m_size, m_cur>>
        /\ UNCHANGED <<call, npos, left, cur, buf, iovs, file, out, over, failed, was>>
    BY DEF LoadFails, arrayVars, localVars, resultVars
  <1>0. Shape /\ LocalTypes /\ Body /\ Numbers BY <1>1, InvParts
  <1>2. Shape' BY <1>0, <1>1 DEF Shape
  <1>3. LocalTypes' BY <1>0, <1>1 DEF LocalTypes
  <1>4. Body' BY <1>1 DEF Body, Ops
  <1>5. m_capacity <= m_capacity' BY <1>0, <1>1 DEF Numbers
  <1> QED BY <1>1, <1>2, <1>3, <1>4, <1>5, StepInv

LEMMA NextInv ==
  ASSUME IInv, [Next]_vars
  PROVE  IInv'
  <1>1. CASE UNCHANGED vars BY <1>1, StutterInv
  <1>2. CASE \E r \in Requests : Begin(r) BY <1>2, BeginInv
  <1>3. CASE Write \/ WriteNothing \/ WriteChunk \/ WriteLast
    BY <1>3, WriteInv, WriteNothingInv, WriteChunkInv, WriteLastInv
  <1>4. CASE OpenFile \/ LoadChunk \/ LoadEnd \/ LoadFails \/ OpenFails
    BY <1>4, OpenFileInv, LoadChunkInv, WriteNothingInv, LoadFailsInv, FailInv
  <1>5. CASE Read \/ ReadThrows \/ ReadChunk \/ ReadLast \/ ReadNothing
    BY <1>5, ReadInv, FailInv, ReadChunkInv, ReadLastInv, ReadNothingInv
  <1>6. CASE toString \/ toStringEmpty \/ PeekChunk \/ PeekLast
    BY <1>6, toStringInv, toStringEmptyInv, PeekChunkInv, PeekLastInv
  <1>7. CASE WriteToFile \/ FileChunk \/ FileEnd
    BY <1>7, WriteToFileInv, FileChunkInv, FileEndInv
  <1>8. CASE SetPosition \/ SetPositionThrows \/ SeekNext \/ SeekLast \/ Clear
    BY <1>8, SetPositionInv, FailInv, SeekNextInv, SeekLastInv, ClearInv
  <1>9. CASE Receive \/ Send \/ SendNothing \/ IovChunk \/ IovLast
    BY <1>9, ReceiveInv, SendInv, toStringEmptyInv, IovChunkInv, IovLastInv
  <1>10. CASE Readv \/ ReadvEnd \/ Writev \/ WritevEnd \/ NullDeref
    BY <1>10, ReadvInv, ReadvEndInv, WritevInv, WritevEndInv, NullDerefInv
  <1> QED BY <1>1, <1>2, <1>3, <1>4, <1>5, <1>6, <1>7, <1>8, <1>9, <1>10 DEF Next, Step

\* The invariant holds in every reachable state.
LEMMA Invariance ==
  Spec => []IInv
  <1>1. Init => IInv BY InitInv
  <1>2. IInv /\ [Next]_vars => IInv' BY NextInv
  <1> QED BY <1>1, <1>2, PTL DEF Spec

-----------------------------------------------------------------------------
(***************************************************************************)
(* Refinement: a step inside a call is invisible, a return has the whole    *)
(* effect of the call on the byte sequence.                                 *)
(***************************************************************************)
\* Inside a call nothing of the byte sequence changes.
LEMMA CallStutters ==
  ASSUME pc # "idle", pc' # "idle", UNCHANGED <<call, out, failed, was>>
  PROVE  UNCHANGED Abstract!vars
  BY DEF Abstract!vars

\* A call that has not returned is one of the calls.
LEMMA CallIsMade ==
  ASSUME call.op \in Ops
  PROVE  call # NoCall
  BY DEF NoCall, Ops

\* A step that leaves the chunks and the size alone leaves the contents alone.
LEMMA DataKept ==
  ASSUME UNCHANGED <<m_baseSize, m_nodes, m_size>>
  PROVE  Data' = Data
  BY DEF Data, At

\* The contents after a step.
LEMMA DataTypeNext ==
  Shape' => (Data \in Seq(Byte) /\ Len(Data) = m_size /\ \A i \in 1 .. m_size : Data[i] = At(i - 1))'
  <1>1. Shape => Data \in Seq(Byte) /\ Len(Data) = m_size /\ \A i \in 1 .. m_size : Data[i] = At(i - 1)
    BY DataType
  <1> QED BY <1>1, PTL

\* What was read is a slice of the sequence.
LEMMA ReadsSlice ==
  ASSUME pc # "idle", NEW s \in Seq(Byte), Reads(s)
  PROVE  Abstract!Slice(Len(s)) = s
  <1>1. Abstract!Slice(Len(s)) = [i \in 1 .. Len(s) |-> was.data[was.pos + i]]
    BY DEF Abstract!Slice
  <1>2. \A i \in 1 .. Len(s) : s[i] = was.data[was.pos + i] BY DEF Reads
  <1>3. s = [i \in 1 .. Len(s) |-> s[i]] OBVIOUS
  <1> QED BY <1>1, <1>2, <1>3

\* What a call leaves behind that has written all its bytes.
LEMMA WrittenSequence ==
  ASSUME IInv, pc # "idle", Shape', ContentsAfter(was.pos + Len(call.bytes)),
         m_size' = IF was.pos + Len(call.bytes) > Len(was.data)
                   THEN was.pos + Len(call.bytes) ELSE Len(was.data)
  PROVE  Data' = Abstract!Overwritten(call.bytes)
  <1>0. Shape /\ LocalTypes /\ Called /\ Body /\ Numbers /\ Strings BY InvParts
  <1>1. PICK p \in Nat, n \in Nat, l \in Nat, z \in Nat :
            p = was.pos /\ n = Len(call.bytes) /\ l = Len(was.data) /\ z = m_size'
    <2>1. m_size' \in Nat BY <1>0 DEF Numbers
    <2> QED BY <1>0, <2>1 DEF Numbers
  <1>2. Data' = [i \in 1 .. z |-> At(i - 1)'] BY <1>1 DEF Data
  <1>3. z = IF p + n > l THEN p + n ELSE l BY <1>1
  <1>4. (IF n > l - p THEN p + n ELSE l) = z BY <1>3
  <1>5. Abstract!Overwritten(call.bytes) =
            [i \in 1 .. z |-> IF i \in p + 1 .. p + n THEN call.bytes[i - p] ELSE was.data[i]]
    BY <1>1, <1>4 DEF Abstract!Overwritten, Abstract!Left
  <1>6. z <= m_capacity' /\ m_capacity' \in Nat BY <1>1, BaseType DEF Shape
  <1>7. ASSUME NEW i \in 1 .. z
        PROVE  At(i - 1)' = IF i \in p + 1 .. p + n THEN call.bytes[i - p] ELSE was.data[i]
    <2>1. PICK q \in Nat : q = i - 1 BY <1>7
    <2>2. i = q + 1 /\ q < z BY <2>1
    <2>3. q < m_capacity' BY <1>6, <2>2
    <2>4. /\ p <= q /\ q < p + n => At(q)' = call.bytes[q - p + 1]
          /\ (q < p \/ p + n <= q) /\ q < l => At(q)' = was.data[q + 1]
      BY <1>1, <2>3 DEF ContentsAfter
    <2>5. CASE i \in p + 1 .. p + n
      <3>1. p <= q /\ q < p + n /\ q - p + 1 = i - p BY <2>2, <2>5
      <3> QED BY <2>1, <2>4, <2>5, <3>1
    <2>6. CASE i \notin p + 1 .. p + n
      <3>1. q < p \/ p + n <= q BY <2>2, <2>6
      <3>4. p <= l BY <1>0, <1>1 DEF Numbers
      <3>2. q < l BY <1>3, <2>2, <3>1, <3>4
      <3>3. At(q)' = was.data[q + 1] BY <2>4, <3>1, <3>2
      <3> QED BY <2>1, <2>2, <2>6, <3>3
    <2> QED BY <2>5, <2>6
  <1> QED BY <1>2, <1>5, <1>7

\* A return of a call that wrote.
LEMMA ReturnsWrite ==
  ASSUME IInv, pc # "idle", Shape', ContentsAfter(was.pos + Len(call.bytes)),
         m_size' = (IF was.pos + Len(call.bytes) > Len(was.data)
                    THEN was.pos + Len(call.bytes) ELSE Len(was.data)),
         m_position' = was.pos + Len(call.bytes),
         call.op \in {"write", "recv", "readFromFile"}, Return(<<>>)
  PROVE  Abstract!Next
  <1>1. Data' = Abstract!Overwritten(call.bytes) BY WrittenSequence
  <1>2. pc' = "idle" /\ call' = NoCall /\ out' = <<>> /\ failed' = failed BY DEF Return, Leave
  <1>3. failed = FALSE BY DEF IInv, Called
  <1>4. call # NoCall BY CallIsMade DEF Ops
  <1>5. Abstract!Return({"write", "recv", "readFromFile"}, <<>>) BY <1>2, <1>3, <1>4 DEF Abstract!Return
  <1>6. Abstract!Write BY <1>1, <1>2, <1>5 DEF Abstract!Write
  <1> QED BY <1>6 DEF Abstract!Next

\* A return of a call that left the contents as they were.
LEMMA ReturnsUnwritten ==
  ASSUME IInv, pc # "idle", Contents(was.pos), m_size = Len(was.data), UNCHANGED <<m_baseSize, m_nodes, m_size>>
  PROVE  Data' = was.data
  <1>1. Data = was.data BY DataIsWas DEF IInv
  <1> QED BY <1>1, DataKept

\* A return of a call that looked at what is left.
LEMMA ReturnsLook ==
  ASSUME IInv, pc # "idle", Same, Contents(was.pos), call.op \in {"toString", "writeToFile"},
         NEW s \in Seq(Byte), Reads(s), was.pos + Len(s) = Len(was.data),
         Return(s), UNCHANGED arrayVars
  PROVE  Abstract!Next
  <1>0. Numbers BY InvParts
  <1>1. UNCHANGED <<m_baseSize, m_nodes, m_size, m_position>> BY DEF arrayVars
  <1>2. Data' = was.data BY <1>1, ReturnsUnwritten DEF Same
  <1>3. pc' = "idle" /\ call' = NoCall /\ out' = s /\ failed' = failed BY DEF Return, Leave
  <1>4. failed = FALSE BY DEF IInv, Called
  <1>5. call # NoCall BY CallIsMade DEF Ops
  <1>6. Abstract!Left = Len(s)
    <2>1. Len(was.data) - was.pos = Len(s) BY <1>0 DEF Numbers
    <2> QED BY <2>1 DEF Abstract!Left
  <1>7. Abstract!Slice(Abstract!Left) = s BY <1>6, ReadsSlice
  <1>8. Abstract!Return({"toString", "writeToFile"}, Abstract!Slice(Abstract!Left))
    BY <1>3, <1>4, <1>5, <1>7 DEF Abstract!Return
  <1>9. m_position' = was.pos BY <1>1 DEF Same
  <1>10. Abstract!Look BY <1>2, <1>3, <1>8, <1>9 DEF Abstract!Look
  <1> QED BY <1>10 DEF Abstract!Next

\* A return of read() or of send, which moved the position over what it took.
LEMMA ReturnsTaken ==
  ASSUME IInv, pc # "idle", Contents(was.pos), m_size = Len(was.data),
         UNCHANGED <<m_baseSize, m_nodes, m_size, failed>>, Leave,
         NEW s \in Seq(Byte), Reads(s), out' = s, m_position' = was.pos + Len(s),
         \/ call.op = "read" /\ Len(s) = call.n
         \/ call.op = "send" /\ Len(s) <= call.n
  PROVE  Abstract!Next
  <1>0. Numbers BY InvParts
  <1>2. Data' = was.data BY ReturnsUnwritten
  <1>3. pc' = "idle" /\ call' = NoCall /\ out' = s /\ failed' = failed BY DEF Leave
  <1>4. failed = FALSE BY DEF IInv, Called
  <1>5. call # NoCall BY CallIsMade DEF Ops
  <1>6. Len(s) <= Abstract!Left
    <2>1. was.pos + Len(s) <= Len(was.data) BY DEF Reads
    <2>2. Len(s) <= Len(was.data) - was.pos BY <1>0, <2>1 DEF Numbers
    <2> QED BY <2>2 DEF Abstract!Left
  <1>7. Abstract!Slice(Len(s)) = s BY ReadsSlice
  <1>8. CASE call.op = "read" /\ Len(s) = call.n
    <2>1. Abstract!Return({"read"}, Abstract!Slice(call.n)) BY <1>3, <1>4, <1>5, <1>7, <1>8 DEF Abstract!Return
    <2>2. Abstract!Read BY <1>2, <1>3, <1>6, <1>8, <2>1 DEF Abstract!Read
    <2> QED BY <2>2 DEF Abstract!Next
  <1>9. CASE call.op = "send" /\ Len(s) <= call.n
    <2>1. Abstract!Return({"send"}, Abstract!Slice(Len(s))) BY <1>3, <1>4, <1>5, <1>7, <1>9 DEF Abstract!Return
    <2>2. Len(s) \in 0 .. call.n BY <1>0, <1>9 DEF Numbers
    <2>3. Abstract!Send BY <1>2, <1>3, <1>6, <2>1, <2>2 DEF Abstract!Send
    <2> QED BY <2>3 DEF Abstract!Next
  <1> QED BY <1>8, <1>9

\* A call that throws.
LEMMA FailsAbstract ==
  ASSUME IInv, OpenFails \/ ReadThrows \/ SetPositionThrows
  PROVE  Abstract!Next
  <1>1. pc # "idle" /\ pc \in Ops /\ Fail BY DEF OpenFails, ReadThrows, SetPositionThrows, Ops
  <1>0. Shape /\ LocalTypes /\ Called /\ Body /\ Numbers /\ Strings BY <1>1, InvParts
  <1>2. Entry BY <1>0, <1>1 DEF Body
  <1>3. call.op = pc /\ Same /\ Contents(was.pos) BY <1>2 DEF Entry
  <1>4. /\ pc' = "idle" /\ call' = NoCall /\ failed' = TRUE /\ out' = out
        /\ UNCHANGED <<m_baseSize, m_nodes, m_size, m_position>>
    BY <1>1 DEF Fail, Leave, arrayVars
  <1>5. m_position' = was.pos /\ m_size = Len(was.data) BY <1>3, <1>4 DEF Same
  <1>6. Data' = was.data BY <1>1, <1>3, <1>4, <1>5, ReturnsUnwritten
  <1>7. out = <<>> BY <1>0 DEF Called
  <1>8. call # NoCall BY <1>1, <1>3, CallIsMade
  <1>9. ASSUME NEW ops, call.op \in ops PROVE Abstract!Fail(ops)
    BY <1>1, <1>4, <1>5, <1>6, <1>7, <1>8, <1>9 DEF Abstract!Fail
  <1>10. CASE OpenFails
    <2>1. call.op \in {"writeToFile", "readFromFile"} BY <1>3, <1>10 DEF OpenFails
    <2> QED BY <1>9, <2>1 DEF Abstract!Next
  <1>11. CASE ReadThrows
    <2>1. call.op \in {"read"} /\ call.n > m_size - m_position BY <1>3, <1>11 DEF ReadThrows, ReadSize
    <2>2. call.n > Abstract!Left BY <1>1, <1>3, <2>1 DEF Abstract!Left, Same
    <2> QED BY <1>9, <2>1, <2>2 DEF Abstract!Next
  <1>12. CASE SetPositionThrows
    <2>1. call.op \in {"setPosition"} /\ call.n > m_capacity BY <1>3, <1>12 DEF SetPositionThrows
    <2>2. call.n > Len(was.data) BY <1>0, <2>1 DEF Numbers
    <2>3. call.n > Len(IF pc = "idle" THEN Data ELSE was.data) BY <1>1, <2>2
    <2> QED BY <1>9, <2>1, <2>3 DEF Abstract!Next
  <1> QED BY <1>10, <1>11, <1>12

\* Returns that find what the call wrote in place.
LEMMA ReturnsInPlace ==
  ASSUME IInv, pc # "idle", Contents(was.pos + Len(call.bytes)), was.pos + Len(call.bytes) <= m_capacity,
         m_size = (IF was.pos + Len(call.bytes) > Len(was.data)
                   THEN was.pos + Len(call.bytes) ELSE Len(was.data)),
         m_position = was.pos + Len(call.bytes), call.op \in {"write", "recv", "readFromFile"},
         Return(<<>>), UNCHANGED <<m_baseSize, m_nodes, m_position, m_capacity, m_size>>, m_cur' \in Nat
  PROVE  Abstract!Next
  <1>0. Shape /\ LocalTypes /\ Called /\ Body /\ Numbers /\ Strings BY InvParts
  <1>1. \A q \in Nat : At(q)' = At(q) BY AtKept
  <1>2. ContentsAfter(was.pos + Len(call.bytes))
    <2>1. was.pos + Len(call.bytes) \in Nat /\ m_capacity' \in Nat BY <1>0 DEF Numbers
    <2> QED BY <1>0, <1>1, <2>1, KeepsContents
  <1>3. Shape' BY <1>0 DEF Shape
  <1> QED BY <1>2, <1>3, ReturnsWrite

LEMMA WriteNothingAbstract ==
  ASSUME IInv, WriteNothing
  PROVE  Abstract!Next
  <1>1. /\ pc # "idle" /\ pc = "write" /\ call.bytes = <<>> /\ Return(<<>>)
        /\ UNCHANGED <<m_baseSize, m_nodes, m_position, m_capacity, m_size, m_cur>>
    BY DEF WriteNothing, arrayVars
  <1>0. Shape /\ LocalTypes /\ Called /\ Body /\ Numbers /\ Strings BY <1>1, InvParts
  <1>2. Entry BY <1>0, <1>1 DEF Body, Ops
  <1>3. call.op = "write" /\ m_position = was.pos /\ m_size = Len(was.data) /\ Contents(was.pos)
    BY <1>1, <1>2 DEF Entry, Same
  <1>4. was.pos + Len(call.bytes) = was.pos BY <1>0, <1>1 DEF Numbers
  <1>5. was.pos <= Len(was.data) /\ was.pos <= m_capacity /\ ~ (was.pos > Len(was.data)) BY <1>0 DEF Numbers
  <1>6. m_cur' \in Nat BY <1>0, <1>1 DEF Numbers
  <1> QED BY <1>1, <1>3, <1>4, <1>5, <1>6, ReturnsInPlace

LEMMA LoadEndAbstract ==
  ASSUME IInv, LoadEnd
  PROVE  Abstract!Next
  <1>1. /\ pc # "idle" /\ pc = "loadLoop" /\ file = <<>> /\ Return(<<>>)
        /\ UNCHANGED <<m_baseSize, m_nodes, m_position, m_capacity, m_size, m_cur>>
    BY DEF LoadEnd, arrayVars
  <1>0. Shape /\ LocalTypes /\ Called /\ Body /\ Numbers /\ Strings BY <1>1, InvParts
  <1>2. Loading BY <1>0, <1>1 DEF Body
  <1>3. /\ call.op = "readFromFile" /\ m_position - was.pos + Len(file) = Len(call.bytes)
        /\ Contents(m_position) /\ Sized /\ m_position <= m_size
    BY <1>2 DEF Loading, AtRest
  <1>4. m_position = was.pos + Len(call.bytes)
    <2>1. Len(file) = 0 BY <1>1
    <2> QED BY <1>0, <1>3, <2>1 DEF Numbers
  <1>5. m_size = IF m_position > Len(was.data) THEN m_position ELSE Len(was.data)
    <2>1. Len(was.data) <= m_size /\ (m_size = Len(was.data) \/ m_size <= m_position) BY <1>3 DEF Sized
    <2> QED BY <1>0, <1>3, <2>1 DEF Numbers
  <1>6. m_cur' \in Nat /\ m_position <= m_capacity BY <1>0, <1>1, <1>3 DEF Numbers
  <1> QED BY <1>1, <1>3, <1>4, <1>5, <1>6, ReturnsInPlace

LEMMA ReadvEndAbstract ==
  ASSUME IInv, ReadvEnd
  PROVE  Abstract!Next \/ UNCHANGED Abstract!vars
  <1>1. pc # "idle" /\ pc = "readv" /\ buf = <<>> BY DEF ReadvEnd
  <1>0. Shape /\ LocalTypes /\ Called /\ Body /\ Numbers /\ Strings BY <1>1, InvParts
  <1>2. Filling BY <1>0, <1>1 DEF Body
  <1>3. CASE call.bytes = <<>> /\ Return(<<>>) /\ UNCHANGED arrayVars
    <2>1. UNCHANGED <<m_baseSize, m_nodes, m_position, m_capacity, m_size, m_cur>> BY <1>3 DEF arrayVars
    <2>2. /\ call.op = "recv" /\ m_position = was.pos /\ m_size = Len(was.data)
          /\ Contents(was.pos + (Len(call.bytes) - Len(buf)))
      BY <1>2 DEF Filling, Socket, Same
    <2>3. was.pos + Len(call.bytes) = was.pos /\ was.pos + (Len(call.bytes) - Len(buf)) = was.pos
      <3>1. Len(call.bytes) = 0 /\ Len(buf) = 0 BY <1>1, <1>3
      <3> QED BY <1>0, <3>1 DEF Numbers
    <2>4. was.pos <= Len(was.data) /\ was.pos <= m_capacity /\ ~ (was.pos > Len(was.data)) BY <1>0 DEF Numbers
    <2>5. m_cur' \in Nat BY <1>0, <2>1 DEF Numbers
    <2>6. Contents(was.pos) BY <2>2, <2>3
    <2> QED BY <1>1, <1>3, <2>1, <2>2, <2>3, <2>4, <2>5, <2>6, ReturnsInPlace
  <1>4. CASE StartSeek(m_position + Len(call.bytes))
    BY <1>1, <1>4, CallStutters DEF StartSeek, resultVars
  <1> QED BY <1>3, <1>4 DEF ReadvEnd

LEMMA WriteLastAbstract ==
  ASSUME IInv, WriteLast, IInv'
  PROVE  Abstract!Next \/ UNCHANGED Abstract!vars
  <1>1. pc # "idle" /\ pc = "writeLoop" BY DEF WriteLast
  <1>0. Shape /\ LocalTypes /\ Called /\ Body /\ Numbers /\ Strings BY <1>1, InvParts
  <1>2. Writing BY <1>0, <1>1 DEF Body
  <1> DEFINE n == Len(buf)
  <1>3. /\ n <= Ncap /\ m_nodes' = Copied(m_cur, npos, buf, n) /\ m_position' = m_position + n
        /\ m_size' = GrownSize(m_position + n)
        /\ UNCHANGED <<m_baseSize, m_capacity>>
    BY DEF WriteLast
  <1>4. ContentsAfter(m_position + n)
    <2>1. n \in 0 .. Len(buf) BY <1>0 DEF Numbers
    <2> QED BY <1>1, <1>3, <2>1, WriteCopy
  <1>5. CASE call.op = "write" /\ Return(<<>>)
    <2>1. /\ m_position - was.pos + Len(buf) + Len(file) = Len(call.bytes)
          /\ file = <<>> /\ Sized
      BY <1>2, <1>5 DEF Writing
    <2>2. m_position + n = was.pos + Len(call.bytes)
      <3>1. Len(file) = 0 BY <2>1
      <3> QED BY <1>0, <2>1, <3>1 DEF Numbers
    <2>3. m_size' = IF m_position + n > Len(was.data) THEN m_position + n ELSE Len(was.data)
      <3>1. Len(was.data) <= m_size /\ (m_size = Len(was.data) \/ m_size <= m_position) BY <2>1 DEF Sized
      <3>2. m_size' = IF m_position + n > m_size THEN m_position + n ELSE m_size BY <1>3 DEF GrownSize
      <3>3. n > 0
        <4>1. buf # <<>> BY <1>2 DEF Writing
        <4> QED BY <1>0, <4>1, EmptySeq DEF Strings, Numbers
      <3> QED BY <1>0, <3>1, <3>2, <3>3 DEF Numbers
    <2>4. Shape' BY DEF IInv
    <2> QED BY <1>1, <1>3, <1>4, <1>5, <2>2, <2>3, <2>4, ReturnsWrite
  <1>6. CASE pc' = "loadLoop" /\ UNCHANGED <<call, resultVars, was>>
    BY <1>1, <1>6, CallStutters DEF resultVars
  <1> QED BY <1>5, <1>6 DEF WriteLast

LEMMA ReadLastAbstract ==
  ASSUME IInv, ReadLast
  PROVE  Abstract!Next
  <1>1. /\ pc # "idle" /\ pc = "readLoop" /\ Leave /\ m_position' = m_position + left
        /\ UNCHANGED <<m_baseSize, m_nodes, m_size, failed>>
    BY DEF ReadLast
  <1>2. Reading BY <1>1 DEF IInv, Body
  <1>3. call.op = "read" /\ m_size = Len(was.data) /\ Contents(was.pos) BY <1>2 DEF Reading
  <1>4. Reads(out') /\ out' \in Seq(Byte) /\ Len(out') = call.n /\ m_position + left = was.pos + call.n
    BY ReadLastResult
  <1>5. PICK s \in Seq(Byte) : s = out' BY <1>4
  <1>6. Reads(s) /\ Len(s) = call.n /\ m_position' = was.pos + Len(s) BY <1>1, <1>4, <1>5
  <1> QED BY <1>1, <1>3, <1>5, <1>6, ReturnsTaken

\* Nothing was read.
LEMMA ReadsNothing ==
  ASSUME IInv, pc # "idle"
  PROVE  Reads(<<>>) /\ <<>> \in Seq(Byte) /\ Len(<<>>) = 0 /\ was.pos + 0 = was.pos
  <1>0. Numbers BY InvParts
  <1> QED BY <1>0 DEF Reads, Numbers

LEMMA ReadNothingAbstract ==
  ASSUME IInv, ReadNothing
  PROVE  Abstract!Next
  <1>1. /\ pc # "idle" /\ pc = "readLoop" /\ left = 0 /\ Leave /\ out' = <<>>
        /\ UNCHANGED <<m_baseSize, m_nodes, m_position, m_size, failed>>
    BY DEF ReadNothing, Return, arrayVars
  <1>0. Shape /\ LocalTypes /\ Called /\ Body /\ Numbers /\ Strings BY <1>1, InvParts
  <1>2. Reading BY <1>0, <1>1 DEF Body
  <1>3. /\ call.op = "read" /\ m_size = Len(was.data) /\ Contents(was.pos) /\ call.n + was.pos = m_position + left
        /\ call.n = 0
    BY <1>1, <1>2 DEF Reading
  <1>4. m_position = was.pos BY <1>0, <1>1, <1>3 DEF Numbers
  <1>5. Reads(<<>>) /\ <<>> \in Seq(Byte) /\ Len(<<>>) = 0 /\ was.pos + 0 = was.pos BY <1>1, ReadsNothing
  <1>6. Len(<<>>) = call.n /\ m_position' = was.pos + Len(<<>>) BY <1>1, <1>3, <1>4, <1>5
  <1> QED BY <1>1, <1>3, <1>5, <1>6, ReturnsTaken

LEMMA SendNothingAbstract ==
  ASSUME IInv, SendNothing
  PROVE  Abstract!Next
  <1>1. /\ pc # "idle" /\ pc = "send" /\ Leave /\ out' = <<>>
        /\ UNCHANGED <<m_baseSize, m_nodes, m_position, m_size, failed>>
    BY DEF SendNothing, Return, arrayVars
  <1>0. Shape /\ LocalTypes /\ Called /\ Body /\ Numbers /\ Strings BY <1>1, InvParts
  <1>2. Entry BY <1>0, <1>1 DEF Body, Ops
  <1>3. call.op = "send" /\ m_position = was.pos /\ m_size = Len(was.data) /\ Contents(was.pos)
    BY <1>1, <1>2 DEF Entry, Same
  <1>4. Reads(<<>>) /\ <<>> \in Seq(Byte) /\ Len(<<>>) = 0 /\ was.pos + 0 = was.pos BY <1>1, ReadsNothing
  <1>5. Len(<<>>) <= call.n /\ m_position' = was.pos + Len(<<>>) BY <1>0, <1>1, <1>3, <1>4 DEF Numbers
  <1> QED BY <1>1, <1>3, <1>4, <1>5, ReturnsTaken

LEMMA WritevEndAbstract ==
  ASSUME IInv, WritevEnd
  PROVE  Abstract!Next \/ UNCHANGED Abstract!vars
  <1>1. pc # "idle" /\ pc = "writev" BY DEF WritevEnd
  <1>0. Shape /\ LocalTypes /\ Called /\ Body /\ Numbers /\ Strings BY <1>1, InvParts
  <1>2. Sending BY <1>0, <1>1 DEF Body
  <1>3. CASE buf = <<>> /\ Return(<<>>) /\ UNCHANGED arrayVars
    <2>1. Leave /\ out' = <<>> /\ UNCHANGED <<m_baseSize, m_nodes, m_position, m_size, failed>>
      BY <1>3 DEF Return, arrayVars
    <2>2. call.op = "send" /\ m_position = was.pos /\ m_size = Len(was.data) /\ Contents(was.pos)
      BY <1>2 DEF Sending, Socket, Same
    <2>4. Reads(<<>>) /\ <<>> \in Seq(Byte) /\ Len(<<>>) = 0 /\ was.pos + 0 = was.pos BY <1>1, ReadsNothing
    <2>5. Len(<<>>) <= call.n /\ m_position' = was.pos + Len(<<>>) BY <1>0, <2>1, <2>2, <2>4 DEF Numbers
    <2> QED BY <1>1, <2>1, <2>2, <2>4, <2>5, ReturnsTaken
  <1>4. CASE StartSeek(m_position + Len(buf))
    BY <1>1, <1>4, CallStutters DEF StartSeek, resultVars
  <1> QED BY <1>3, <1>4 DEF WritevEnd

LEMMA toStringEmptyAbstract ==
  ASSUME IInv, toStringEmpty
  PROVE  Abstract!Next
  <1>1. pc # "idle" /\ pc = "toString" /\ ReadSize = 0 /\ Return(<<>>) /\ UNCHANGED arrayVars
    BY DEF toStringEmpty
  <1>0. Shape /\ LocalTypes /\ Called /\ Body /\ Numbers /\ Strings BY <1>1, InvParts
  <1>2. Entry BY <1>0, <1>1 DEF Body, Ops
  <1>3. call.op = "toString" /\ Same /\ m_position = was.pos /\ m_size = Len(was.data) /\ Contents(was.pos)
    BY <1>1, <1>2 DEF Entry, Same
  <1>4. Reads(<<>>) /\ <<>> \in Seq(Byte) /\ Len(<<>>) = 0 /\ was.pos + 0 = was.pos BY <1>1, ReadsNothing
  <1>5. was.pos = Len(was.data) BY <1>0, <1>1, <1>3 DEF ReadSize, Numbers
  <1> QED BY <1>1, <1>3, <1>4, <1>5, ReturnsLook

LEMMA PeekLastAbstract ==
  ASSUME IInv, PeekLast
  PROVE  Abstract!Next
  <1> DEFINE s == buf \o Part(cur, npos, left)
  <1>1. pc # "idle" /\ pc = "peekLoop" /\ left <= Ncap /\ Return(s) /\ UNCHANGED arrayVars
    BY DEF PeekLast
  <1>0. Shape /\ LocalTypes /\ Called /\ Body /\ Numbers /\ Strings BY <1>1, InvParts
  <1>2. Peeking BY <1>0, <1>1 DEF Body
  <1>3. /\ call.op = "toString" /\ Same /\ m_size = Len(was.data) /\ Contents(was.pos)
        /\ left > 0 /\ left = m_size - (was.pos + Len(buf))
        /\ Inside(cur, npos, was.pos + Len(buf)) /\ Reads(buf)
    BY <1>2 DEF Peeking, Same
  <1>4. npos \in Nat /\ left \in Nat /\ npos + left <= m_baseSize
    <2>1. npos \in 0 .. m_baseSize - 1 BY <1>0, <1>3, InsideFacts
    <2> QED BY <1>0, <1>1, <1>3, <2>1, SMTT(30) DEF Ncap, Numbers
  <1>5. was.pos + Len(buf) + left = Len(was.data) BY <1>0, <1>3 DEF Numbers
  <1>8. was.pos + Len(buf) + left <= Len(was.data) BY <1>0, <1>5 DEF Numbers
  <1>6. s \in Seq(Byte) /\ Len(s) = Len(buf) + left /\ Reads(s)
    <2>1. buf \in Seq(Byte) /\ was.pos \in Nat /\ Len(was.data) \in Nat /\ Len(was.data) <= m_capacity /\ cur \in Nat
      BY <1>0 DEF Numbers, Strings
    <2> QED BY <1>0, <1>3, <1>4, <1>8, <2>1, ReadsMore
  <1> HIDE DEF s
  <1>7. was.pos + Len(s) = Len(was.data) BY <1>0, <1>5, <1>6 DEF Numbers
  <1> QED BY <1>1, <1>3, <1>6, <1>7, ReturnsLook

LEMMA FileEndAbstract ==
  ASSUME IInv, FileEnd
  PROVE  Abstract!Next
  <1>1. pc # "idle" /\ pc = "fileLoop" /\ left <= 0 /\ Return(buf) /\ UNCHANGED arrayVars
    BY DEF FileEnd
  <1>0. Shape /\ LocalTypes /\ Called /\ Body /\ Numbers /\ Strings BY <1>1, InvParts
  <1>2. Filing BY <1>0, <1>1 DEF Body
  <1>3. call.op = "writeToFile" /\ Same /\ m_size = Len(was.data) /\ Contents(was.pos)
    BY <1>2 DEF Filing, Same
  <1>4. Reads(buf) /\ was.pos + Len(buf) = Len(was.data)
    <2>1. CASE Whole
      <3>1. npos = was.pos + Len(buf) /\ left = m_size - npos /\ Reads(buf) BY <1>2, <2>1 DEF Filing
      <3>2. was.pos + Len(buf) <= Len(was.data) BY <3>1 DEF Reads
      <3> QED BY <1>0, <1>1, <1>3, <3>1, <3>2, SMTT(30) DEF Numbers
    <2>2. CASE ~ Whole
      <3>1. Astray BY <1>2, <2>2 DEF Filing
      <3>2. left = 0 BY <1>0, <1>1, <3>1 DEF Astray, Numbers
      <3>3. buf = <<>> /\ was.pos = Len(was.data) BY <3>1, <3>2 DEF Astray
      <3>4. Reads(<<>>) /\ Len(<<>>) = 0 /\ was.pos + 0 = was.pos BY <1>1, ReadsNothing
      <3> QED BY <3>3, <3>4
    <2> QED BY <2>1, <2>2
  <1> QED BY <1>0, <1>1, <1>3, <1>4, ReturnsLook DEF Strings

LEMMA SeekLastAbstract ==
  ASSUME IInv, SeekLast
  PROVE  Abstract!Next
  <1>1. /\ pc # "idle" /\ pc = "seekLoop" /\ Return(buf) /\ Leave /\ out' = buf
        /\ UNCHANGED <<m_baseSize, m_nodes, m_position, m_capacity, m_size, failed>>
        /\ m_cur' = IF left = m_baseSize THEN NextNode(m_cur) ELSE m_cur
    BY DEF SeekLast, Return
  <1>0. Shape /\ LocalTypes /\ Called /\ Body /\ Numbers /\ Strings BY <1>1, InvParts
  <1>2. Seeking BY <1>0, <1>1 DEF Body
  <1>3. /\ m_size = (IF m_position > Len(was.data) THEN m_position ELSE Len(was.data))
        /\ m_position <= m_capacity
    BY <1>2 DEF Seeking
  <1>4. CASE call.op = "setPosition" /\ m_position = call.n /\ Contents(was.pos) /\ buf = <<>>
    <2>1. pc' = "idle" /\ call' = NoCall /\ out' = <<>> /\ failed' = FALSE
      BY <1>0, <1>1, <1>4 DEF Leave, Called
    <2>2. call # NoCall BY <1>4, CallIsMade DEF Ops
    <2>3. Abstract!Return({"setPosition"}, <<>>) BY <1>4, <2>1, <2>2 DEF Abstract!Return
    <2>4. Data' = Data BY <1>1, DataKept
    <2>5. Data \in Seq(Byte) /\ Len(Data) = m_size /\ \A i \in 1 .. m_size : Data[i] = At(i - 1)
      BY <1>0, DataType
    <2>6. CASE call.n <= Len(was.data)
      <3>1. m_size = Len(was.data) BY <1>0, <1>3, <1>4, <2>6 DEF Numbers
      <3>2. Data' = was.data BY <1>1, <1>4, <3>1, ReturnsUnwritten
      <3>3. Abstract!SetPosition BY <1>1, <1>4, <2>1, <2>3, <2>6, <3>2 DEF Abstract!SetPosition
      <3> QED BY <3>3 DEF Abstract!Next
    <2>7. CASE ~ (call.n <= Len(was.data))
      <3>1. m_size = call.n BY <1>0, <1>3, <1>4, <2>7 DEF Numbers
      <3>2. ASSUME NEW i \in 1 .. Len(was.data) PROVE Data[i] = was.data[i]
        <4>1. PICK q \in Nat : q = i - 1 BY <1>0 DEF Numbers
        <4>2. i = q + 1 /\ q < Len(was.data) BY <1>0, <4>1 DEF Numbers
        <4>3. q < m_capacity BY <1>0, <4>2 DEF Numbers
        <4>4. q < was.pos \/ was.pos <= q BY <1>0 DEF Numbers
        <4>5. At(q) = was.data[q + 1] BY <1>4, <4>2, <4>3, <4>4 DEF Contents
        <4>6. Len(was.data) <= m_size BY <1>0, <2>7, <3>1 DEF Numbers
        <4>7. i \in 1 .. m_size BY <1>0, <4>6 DEF Numbers
        <4> QED BY <2>5, <4>1, <4>2, <4>5, <4>7
      <3>3. /\ Data' \in Seq(Byte) /\ Len(Data') = call.n
            /\ \A i \in 1 .. Len(was.data) : Data'[i] = was.data[i]
        BY <2>4, <2>5, <3>1, <3>2
      <3>4. Abstract!SetPosition BY <1>1, <1>4, <2>1, <2>3, <2>7, <3>3 DEF Abstract!SetPosition
      <3> QED BY <3>4 DEF Abstract!Next
    <2> QED BY <2>6, <2>7
  <1>5. CASE /\ call.op = "send" /\ m_position = was.pos + Len(buf) /\ Len(buf) <= call.n
             /\ Contents(was.pos) /\ Reads(buf)
    <2>1. was.pos + Len(buf) <= Len(was.data) BY <1>5 DEF Reads
    <2>2. m_size = Len(was.data) BY <1>0, <1>3, <1>5, <2>1 DEF Numbers
    <2>3. m_position' = was.pos + Len(buf) BY <1>1, <1>5
    <2> QED BY <1>0, <1>1, <1>5, <2>2, <2>3, ReturnsTaken DEF Strings
  <1>6. CASE /\ call.op = "recv" /\ m_position = was.pos + Len(call.bytes)
             /\ Contents(m_position) /\ buf = <<>>
    <2>1. m_cur' \in Nat BY <1>0, <1>1 DEF Numbers, NextNode, NULL
    <2> QED BY <1>1, <1>3, <1>6, <2>1, ReturnsInPlace
  <1> QED BY <1>2, <1>4, <1>5, <1>6 DEF Seeking

LEMMA ClearAbstract ==
  ASSUME IInv, Clear, IInv'
  PROVE  Abstract!Next
  <1>1. pc # "idle" /\ pc = "clear" /\ Return(<<>>) /\ m_position' = 0 /\ m_size' = 0 BY DEF Clear
  <1>0. Shape /\ LocalTypes /\ Called /\ Body /\ Numbers /\ Strings BY <1>1, InvParts
  <1>2. call.op = "clear" BY <1>0, <1>1 DEF Body, Entry, Ops
  <1>3. pc' = "idle" /\ call' = NoCall /\ out' = <<>> /\ failed' = FALSE
    BY <1>0, <1>1 DEF Return, Leave, Called
  <1>4. call # NoCall BY <1>2, CallIsMade DEF Ops
  <1>5. Abstract!Return({"clear"}, <<>>) BY <1>2, <1>3, <1>4 DEF Abstract!Return
  <1>6. Data' = <<>>
    <2>1. Data' \in Seq(Byte) /\ Len(Data') = 0 BY <1>1, DataTypeNext DEF IInv
    <2> QED BY <2>1, EmptySeq
  <1>7. Abstract!Clear BY <1>1, <1>3, <1>5, <1>6 DEF Abstract!Clear
  <1> QED BY <1>7 DEF Abstract!Next

LEMMA BeginAbstract ==
  ASSUME IInv, NEW r \in Requests, Begin(r)
  PROVE  Abstract!Next
  <1>1. /\ pc = "idle" /\ pc' = r.op /\ call' = r /\ was' = [data |-> Data, pos |-> m_position]
        /\ out' = <<>> /\ failed' = FALSE
    BY DEF Begin
  <1>2. pc' # "idle" BY <1>1, RequestType DEF Ops
  <1>3. call = NoCall BY <1>1 DEF IInv, Body, Idle
  <1>4. was'.data = Data /\ was'.pos = m_position BY <1>1
  <1>5. Abstract!Request BY <1>1, <1>2, <1>3, <1>4 DEF Abstract!Request
  <1> QED BY <1>5 DEF Abstract!Next

-----------------------------------------------------------------------------
(***************************************************************************)
(* Between calls, for every base size and after every sequence of calls,    *)
(* m_position <= m_size <= m_capacity, the capacity is that of the list and *)
(* m_cur is the chunk of the position, NULL exactly at the capacity.        *)
(***************************************************************************)
THEOREM ChunksStayConsistent ==
  Spec => []ChunksConsistent
  <1>1. IInv => ChunksConsistent
    BY DEF IInv, Shape, Body, Idle, AtRest, Points, ChunksConsistent
  <1> QED BY <1>1, Invariance, PTL

(***************************************************************************)
(* What read() writes behind the caller's buffer is the rest of the chunk   *)
(* in which it stops, and nothing at the end of a chunk.                    *)
(***************************************************************************)
THEOREM OverrunBounded ==
  Spec => []OverrunIsRestOfChunk
  <1>1. IInv => OverrunIsRestOfChunk BY DEF IInv
  <1> QED BY <1>1, Invariance, PTL

(***************************************************************************)
(* No call other than a read() of nothing at the capacity and writeToFile() *)
(* from the middle of a chunk with less than a chunk left dereferences a    *)
(* NULL chunk: write(), toString(), setPosition(), the buffers of           *)
(* SocketStream and every other read() never do.                            *)
(***************************************************************************)
THEOREM NoOtherCrash ==
  Spec => []CrashesOnlyAtEnds
  <1>1. IInv => CrashesOnlyAtEnds BY DEF IInv
  <1> QED BY <1>1, Invariance, PTL

(***************************************************************************)
(* The chunked array implements the byte sequence: what every call that     *)
(* returns gives back, and what it leaves for the calls after it, does not  *)
(* depend on the chunks.                                                    *)
(***************************************************************************)
THEOREM ByteArrayIsByteSeq ==
  Spec => ImplementsByteSeq
  <1>1. Init => Abstract!Init
    <2> SUFFICES ASSUME Init PROVE Abstract!Init
      OBVIOUS
    <2>1. Shape /\ m_size = 0 BY InitInv DEF IInv, Init
    <2>2. Data \in Seq(Byte) /\ Len(Data) = 0 BY <2>1, DataType
    <2>3. Data = <<>> BY <2>2, EmptySeq
    <2> QED BY <2>3 DEF Init, Abstract!Init
  <1>2. IInv /\ [Next]_vars => [Abstract!Next]_(Abstract!vars)
    <2> SUFFICES ASSUME IInv, [Next]_vars
                 PROVE  Abstract!Next \/ UNCHANGED Abstract!vars
      OBVIOUS
    <2>0. IInv' BY NextInv
    <2>1. CASE Write \/ WriteChunk \/ OpenFile \/ LoadChunk \/ LoadFails
      BY <2>1, CallStutters DEF Write, WriteChunk, OpenFile, LoadChunk, LoadFails, StartWrite, resultVars
    <2>2. CASE Read \/ ReadChunk \/ toString \/ PeekChunk
      BY <2>2, CallStutters DEF Read, ReadChunk, toString, PeekChunk, resultVars
    <2>3. CASE WriteToFile \/ FileChunk \/ SetPosition \/ SeekNext
      BY <2>3, CallStutters DEF WriteToFile, FileChunk, SetPosition, StartSeek, SeekNext, resultVars
    <2>4. CASE Receive \/ Send \/ IovChunk \/ IovLast
      BY <2>4, CallStutters DEF Receive, Send, IovChunk, IovLast, resultVars
    <2>5. CASE Readv \/ Writev \/ NullDeref
      BY <2>5, CallStutters DEF Readv, Writev, NullDeref, resultVars
    <2>6. CASE WriteNothing \/ WriteLast \/ LoadEnd
      BY <2>0, <2>6, WriteNothingAbstract, WriteLastAbstract, LoadEndAbstract
    <2>7. CASE OpenFails \/ ReadThrows \/ SetPositionThrows
      BY <2>7, FailsAbstract
    <2>8. CASE ReadLast \/ ReadNothing \/ toStringEmpty \/ PeekLast \/ FileEnd
      BY <2>8, ReadLastAbstract, ReadNothingAbstract, toStringEmptyAbstract, PeekLastAbstract, FileEndAbstract
    <2>9. CASE SeekLast \/ Clear
      BY <2>0, <2>9, SeekLastAbstract, ClearAbstract
    <2>10. CASE SendNothing \/ ReadvEnd \/ WritevEnd
      BY <2>10, SendNothingAbstract, ReadvEndAbstract, WritevEndAbstract
    <2>11. CASE \E r \in Requests : Begin(r)
      BY <2>11, BeginAbstract
    <2>12. CASE UNCHANGED vars
      <3>1. UNCHANGED <<m_baseSize, m_nodes, m_position, m_size, pc, call, out, failed, was>>
        BY <2>12 DEF vars, arrayVars, resultVars
      <3>2. Data' = Data BY <3>1, DataKept
      <3> QED BY <3>1, <3>2 DEF Abstract!vars
    <2> QED BY <2>1, <2>2, <2>3, <2>4, <2>5, <2>6, <2>7, <2>8, <2>9, <2>10, <2>11, <2>12 DEF Next, Step
  <1> QED BY <1>1, <1>2, Invariance, PTL DEF Spec, ImplementsByteSeq, Abstract!Spec
=============================================================================
