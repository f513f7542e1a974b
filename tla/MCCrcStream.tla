----------------------------- MODULE MCCrcStream -----------------------------
(***************************************************************************)
(* Instances of CfdpCrcStream for TLC.                                     *)
(***************************************************************************)
EXTENDS CfdpCrcStream

\* CRC-16: 0x1021 is x^12 + x^5 + 1 below its leading term
Poly1021 == {12, 5, 0}
\* 00, 01, A5
Crc16Data == {{}, {0}, {7, 5, 2, 0}}
\* none, lowest bit, highest bit, 6E
Crc16Errors == {{}, {0}, {7}, {6, 5, 3, 2, 1}}
\* none, one bit of each octet, the whole of the first octet, both octets
Crc16CrcErrors == {{}, {0}, {15}, 8 .. 15, {12, 5, 0}, {13, 11, 3}}
=============================================================================
