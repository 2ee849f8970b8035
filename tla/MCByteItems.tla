---------------------------- MODULE MCByteItems ----------------------------
(* ByteItems for TLC: chunks of 1 to 3 bytes, new char[] gives zeros, a byte *)
(* has 3 bits, two of them for a variable-length integer, the wide types     *)
(* have 3 and 5 bits.                                                        *)
EXTENDS ByteItems

MCByte == 0 .. 7
MCBases == 1 .. 3
=============================================================================
