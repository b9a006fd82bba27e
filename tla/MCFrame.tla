------------------------------ MODULE MCFrame ------------------------------
(* The instance of Frame for TLC: bytes of Base values, prefixes of two.   *)
EXTENDS Frame

CONSTANT Base

Bytes == 0..(Base - 1)
Longest == Base^PREFIX_BYTES - 1

BigEndian(n) == [i \in 1..PREFIX_BYTES |-> (n \div Base^(PREFIX_BYTES - i)) % Base]

BigEndianValue(bytes) == FoldLeft(LAMBDA n, byte : n * Base + byte, 0, bytes)
=============================================================================
