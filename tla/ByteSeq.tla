------------------------------ MODULE ByteSeq ------------------------------
(***************************************************************************)
(* What a ByteArray promises: a sequence of bytes and a position in it.     *)
(* Writing overwrites from the position and extends the sequence, reading   *)
(* returns the bytes at the position; both move it.  There are no chunks.   *)
(* A call is requested and then returns, with its whole effect at once.     *)
(***************************************************************************)
EXTENDS Integers, Sequences

CONSTANTS Byte, Call, NoCall    \* a Call is a record [op, n, bytes]

VARIABLES
    data, pos,
    call,       \* the call that has not returned yet, or NoCall
    out,        \* the bytes the last call returned
    failed      \* whether it threw, or returned false
vars == <<data, pos, call, out, failed>>

Left == Len(data) - pos
\* The n bytes from the position on.
Slice(n) == [i \in 1 .. n |-> data[pos + i]]

Overwritten(bytes) ==
    [i \in 1 .. (IF Len(bytes) > Left THEN pos + Len(bytes) ELSE Len(data)) |->
        IF i \in pos + 1 .. pos + Len(bytes) THEN bytes[i - pos] ELSE data[i]]

Init == data = <<>> /\ pos = 0 /\ call = NoCall /\ out = <<>> /\ failed = FALSE

Request ==
    /\ call = NoCall
    /\ call' \in Call
    /\ out' = <<>> /\ failed' = FALSE
    /\ UNCHANGED <<data, pos>>

\* A call of one of the kinds ops ends with the result bytes.
Return(ops, bytes) == call # NoCall /\ call.op \in ops /\ call' = NoCall /\ out' = bytes /\ failed' = FALSE

Fail(ops) ==
    /\ call # NoCall /\ call.op \in ops
    /\ call' = NoCall /\ out' = <<>> /\ failed' = TRUE
    /\ UNCHANGED <<data, pos>>

Write ==
    /\ Return({"write", "recv", "readFromFile"}, <<>>)
    /\ data' = Overwritten(call.bytes)
    /\ pos' = pos + Len(call.bytes)

Read ==
    /\ call.n <= Left
    /\ Return({"read"}, Slice(call.n))
    /\ pos' = pos + call.n
    /\ UNCHANGED data

\* The socket takes some of the bytes.
Send ==
    \E k \in 0 .. call.n :
        /\ k <= Left
        /\ Return({"send"}, Slice(k))
        /\ pos' = pos + k
        /\ UNCHANGED data

\* All that is left, without moving the position.
Look ==
    /\ Return({"toString", "writeToFile"}, Slice(Left))
    /\ UNCHANGED <<data, pos>>

\* Past the end the sequence is filled with bytes nobody wrote.
SetPosition ==
    /\ Return({"setPosition"}, <<>>)
    /\ pos' = call.n
    /\ IF call.n <= Len(data) THEN UNCHANGED data
       ELSE /\ data' \in Seq(Byte) /\ Len(data') = call.n
            /\ \A i \in 1 .. Len(data) : data'[i] = data[i]

Clear == Return({"clear"}, <<>>) /\ data' = <<>> /\ pos' = 0

Next ==
    \/ Request \/ Write \/ Read \/ Send \/ Look \/ SetPosition \/ Clear
    \/ call.n > Left /\ Fail({"read"})
    \/ call.n > Len(data) /\ Fail({"setPosition"})
    \/ Fail({"writeToFile", "readFromFile"})

Spec == Init /\ [][Next]_vars
=============================================================================
