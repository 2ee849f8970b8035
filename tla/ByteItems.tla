----------------------------- MODULE ByteItems -----------------------------
(***************************************************************************)
(* The integers and strings of ByteArray (saturn/bytearray.cc): a caller    *)
(* writes some, sets the position to 0 and reads them back, as              *)
(* tests/test_bytearray.cc does.  An item is encoded into the buffers that  *)
(* its function passes to write(); it is decoded from the results of the    *)
(* calls of read(), one byte at a time for variable-length integers.        *)
(*                                                                          *)
(* Widths are scaled down: a byte has Payload + 1 bits, the 32-bit types    *)
(* W32 bits and the 64-bit types W64 bits, with the same number of          *)
(* iterations relative to the width in the loops over a variable-length     *)
(* integer (more than one byte; the last one not full).                     *)
(*                                                                          *)
(* A caller may instead make calls of ByteArray as it likes, with smaller   *)
(* arguments than items need: the same array, used in the other way.        *)
(***************************************************************************)
EXTENDS ByteArray, SequencesExt

CONSTANTS
    Payload,    \* bits of a byte that a variable-length integer uses
    W32, W64,   \* widths of the integer types
    MaxItems,   \* bound on the items
    BareBytes,  \* the bytes, and the bound on the position, of a caller that
    BareSize    \* does not use items

ASSUME ItemsAssumption ==
    /\ MaxItems \in Nat /\ BareBytes \subseteq Byte /\ BareSize <= MaxSize
    /\ Payload \in Nat \ {0} /\ W32 > Payload /\ W64 > W32
    /\ Byte = 0 .. 2 ^ (Payload + 1) - 1

VARIABLES
    bare,       \* whether the caller makes calls of ByteArray as it likes
    little,     \* m_endian
    items,      \* the items written
    todo,       \* buffers that the current item has still to write
    reading,    \* the position has been set back
    dec,        \* what has been decoded of the current item
    got         \* the items read back

itemVars == <<bare, little, items, todo, reading, dec, got>>
allVars == <<vars, itemVars>>

-----------------------------------------------------------------------------
(***************************************************************************)
(* The encodings.                                                           *)
(***************************************************************************)
Half == 2 ^ Payload

\* Mutant: the host's order, whatever the array's is.
FixedHostOrder(v, n) == [i \in 1 .. n |-> (v \div (2 * Half) ^ (i - 1)) % (2 * Half)]
\* The n bytes of a fixed-width integer in memory order: the host is little
\* endian, and any other order is swapped.
Fixed(v, n) ==
    [i \in 1 .. n |-> (v \div (2 * Half) ^ ((IF little THEN i ELSE n + 1 - i) - 1)) % (2 * Half)]
FromFixed(s) ==
    LET n == Len(s)
    IN  FoldLeft(LAMBDA acc, i : acc + s[i] * (2 * Half) ^ ((IF little THEN i ELSE n + 1 - i) - 1),
                 0, [i \in 1 .. n |-> i])

RECURSIVE Varint(_)
Varint(v) == IF v >= Half THEN <<(v % Half) + Half>> \o Varint(v \div Half) ELSE <<v>>

EncodeZigzag(v, w) == (IF v < 0 THEN (-v) * 2 - 1 ELSE v * 2) % (2 ^ w)
\* (v >> 1) ^ -(v & 1)
DecodeZigzag(v) == IF v % 2 = 1 THEN -(v \div 2) - 1 ELSE v \div 2

\* An item is <<type, value>>; what its write function passes to write().
Written(item) ==
    LET v == item[2] IN
    CASE item[1] = "Fuint8"  -> <<Fixed(v, 1)>>
      [] item[1] = "Fuint16" -> <<Fixed(v, 2)>>
      [] item[1] \in {"Uint32", "Uint64"} -> <<Varint(v)>>
      [] item[1] = "Int32"   -> <<Varint(EncodeZigzag(v, W32))>>
      [] item[1] = "Int64"   -> <<Varint(EncodeZigzag(v, W64))>>
      [] item[1] = "StringF16"  -> <<Fixed(Len(v) % ((2 * Half) ^ 2), 2), v>>
      [] item[1] = "StringVint" -> <<Varint(Len(v)), v>>

Items ==
    {<<"Fuint8", v>> : v \in {0, 2 * Half - 1}} \cup
    {<<"Fuint16", v>> : v \in {1, 2 * Half, (2 * Half) ^ 2 - 2}} \cup
    {<<"Uint32", v>> : v \in 0 .. 2 ^ W32 - 1} \cup
    {<<"Int32", v>> : v \in -(2 ^ (W32 - 1)) .. 2 ^ (W32 - 1) - 1} \cup
    {<<"Uint64", v>> : v \in {0, 2 ^ W32 - 1, 2 ^ W32, 2 ^ W64 - 1}} \cup
    {<<"Int64", v>> : v \in {-(2 ^ (W64 - 1)), -(2 ^ W32), -2, 0, 1, 2 ^ (W32 - 1) - 1, 2 ^ (W64 - 1) - 1}} \cup
    {<<t, s>> : t \in {"StringF16", "StringVint"}, s \in {<<>>, <<1>>, <<1, 2, 3>>}}

-----------------------------------------------------------------------------
(***************************************************************************)
(* Decoding.  dec.part is the part of the item that read() is asked for:    *)
(* "fixed", "varint" or "text"; i and acc are the locals of the varint loop.*)
(***************************************************************************)
NoItem == [part |-> "none", i |-> 0, acc |-> 0]

IsVarint(type) == type \in {"Uint32", "Int32", "Uint64", "Int64", "StringVint"}
\* readInt64() calls readUint32().
VarintWidth(type) == IF type \in {"Uint32", "Int32", "Int64"} THEN W32 ELSE W64
FixedSize(type) == IF type = "Fuint8" THEN 1 ELSE 2

Ask(n, d) == Begin(Request("read", n, <<>>)) /\ dec' = d /\ UNCHANGED <<bare, little, items, todo, reading, got>>
Finish(item) ==
    /\ got' = Append(got, item) /\ dec' = NoItem
    /\ UNCHANGED <<vars, bare, little, items, todo, reading>>

Type == items[Len(got) + 1][1]

\* The number v has been read: the value, or the length of the text that follows.
Number(v) ==
    \/ /\ Type \in {"StringF16", "StringVint"}
       /\ Ask(v, [NoItem EXCEPT !.part = "text"])
    \/ /\ Type \in {"Int32", "Int64"}
       /\ Finish(<<Type, DecodeZigzag(v)>>)
    \/ /\ Type \in {"Fuint8", "Fuint16", "Uint32", "Uint64"}
       /\ Finish(<<Type, v>>)

Decoding(part) == pc = "idle" /\ dec.part = part /\ ~failed

ReadItem ==
    /\ pc = "idle" /\ reading /\ dec = NoItem /\ Len(got) < Len(items)
    /\ IF IsVarint(Type) THEN Ask(1, [NoItem EXCEPT !.part = "varint"])
       ELSE Ask(FixedSize(Type), [NoItem EXCEPT !.part = "fixed"])

ReadFixed == Decoding("fixed") /\ Number(FromFixed(out))

VarintSum == dec.acc + (((out[1] % Half) * (2 ^ dec.i)) % (2 ^ VarintWidth(Type)))
ReadVarint ==
    /\ Decoding("varint")
    /\ IF out[1] < Half \/ dec.i + Payload >= VarintWidth(Type) THEN Number(VarintSum)
       ELSE Ask(1, [dec EXCEPT !.i = @ + Payload, !.acc = VarintSum])

ReadText == Decoding("text") /\ Finish(<<Type, out>>)

\* read() threw out_of_range, which the read function passes on.
ReadItemThrows == pc = "idle" /\ dec # NoItem /\ failed /\ Finish(<<"throws", Type>>)

-----------------------------------------------------------------------------
ItemsInit ==
    /\ Init
    /\ bare \in BOOLEAN /\ little \in BOOLEAN /\ (bare => little)
    /\ items = <<>> /\ todo = <<>> /\ reading = FALSE /\ dec = NoItem /\ got = <<>>

Bare == {r \in Requests : r.n <= BareSize /\ \A i \in DOMAIN r.bytes : r.bytes[i] \in BareBytes}
BareCall ==
    /\ bare
    /\ \E r \in Bare :
        /\ m_position + (IF r.op = "recv" THEN r.n ELSE Len(r.bytes)) <= BareSize
        /\ Begin(r)
    /\ UNCHANGED itemVars

WriteItem ==
    /\ pc = "idle" /\ ~bare /\ ~reading /\ todo = <<>> /\ Len(items) < MaxItems
    /\ \E item \in Items : items' = Append(items, item) /\ todo' = Written(item)
    /\ UNCHANGED <<vars, bare, little, reading, dec, got>>
WriteNext ==
    /\ todo # <<>>
    /\ Begin(Request("write", 0, Head(todo)))
    /\ todo' = Tail(todo)
    /\ UNCHANGED <<bare, little, items, reading, dec, got>>

Rewind ==
    /\ ~bare /\ ~reading /\ todo = <<>>
    /\ Begin(Request("setPosition", 0, <<>>))
    /\ reading' = TRUE
    /\ UNCHANGED <<bare, little, items, todo, dec, got>>

ItemsNext ==
    \/ Step /\ UNCHANGED itemVars
    \/ BareCall
    \/ WriteItem \/ WriteNext \/ Rewind
    \/ ReadItem \/ ReadFixed \/ ReadVarint \/ ReadText \/ ReadItemThrows

ItemsSpec == ItemsInit /\ [][ItemsNext]_allVars /\ WF_allVars(Step /\ UNCHANGED itemVars)

(***************************************************************************)
(* An item is read back as it was written, in either byte order and         *)
(* wherever the chunks end; the exception is an Int64 that does not fit     *)
(* the 32-bit encoding, which readInt64() takes for one.  When all items    *)
(* are read nothing is left.                                                *)
(***************************************************************************)
Wide(item) == item[1] = "Int64" /\ EncodeZigzag(item[2], W64) >= 2 ^ W32
ItemsReadBack ==
    reading /\ pc # "crashed" /\ (\A i \in DOMAIN items : ~Wide(items[i])) =>
        /\ \A i \in DOMAIN got : got[i] = items[i]
        /\ Len(got) = Len(items) /\ pc = "idle" => ReadSize = 0
=============================================================================
