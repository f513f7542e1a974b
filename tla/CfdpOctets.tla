------------------------------ MODULE CfdpOctets ------------------------------
(***************************************************************************)
(* Octets, buffers and the big-endian fields of include/cfdp_endian.h.     *)
(*                                                                         *)
(* A buffer is a sequence of octets whose length is the buf_len the C      *)
(* functions are given, so that reading past the end is an error TLC       *)
(* reports.  A uint64_t is its eight octets, most significant first: TLC's *)
(* own integers have 32 bits.                                              *)
(***************************************************************************)
EXTENDS Integers, Sequences

Octet == 0 .. 255
UINT16_MAX == 65535
UInt16 == 0 .. UINT16_MAX
UInt64 == [1 .. 8 -> Octet]

Zeros(n) == [i \in 1 .. n |-> 0]

(* The octets buf[from] .. buf[to - 1] of a C buffer.                      *)
Slice(buf, from, to) == SubSeq(buf, from + 1, to)

(* buf[from], counted from 0 as in C.                                      *)
At(buf, from) == buf[from + 1]

(* memcpy(&buf[from], octets, ...): the buffer grows if the write leaves   *)
(* it, which no caller's type allows.                                      *)
Overlay(buf, from, octets) ==
  Slice(buf, 0, from) \o octets \o Slice(buf, from + Len(octets), Len(buf))

(* A pointer to octets the caller owns, or NULL.                           *)
Null == << >>
PointerTo(octets) == <<octets>>
Pointer == {pointer \in Seq(Seq(Octet)) : Len(pointer) <= 1}

(* len octets may be read through it, unless it is NULL.                   *)
PointsTo(pointer, len) == pointer # Null => len <= Len(pointer[1])

(* What memcpy takes of them; nothing is copied, nor dereferenced, when    *)
(* len is 0.                                                               *)
Copied(pointer, len) == IF len = 0 THEN << >> ELSE Slice(pointer[1], 0, len)

(* What arrives of them: a pointer of the peer's to as many octets, and    *)
(* none when there are none.                                               *)
Told(pointer, len) ==
  IF pointer = Null \/ len = 0 THEN Null ELSE PointerTo(Copied(pointer, len))

(* cfdp_write_uint: the low n octets of the value, whatever the others.    *)
WriteUint(value, n) == SubSeq(value, 9 - n, 8)

(* cfdp_read_uint: the octets, extended with zeros to a uint64_t.          *)
ReadUint(octets) == Zeros(8 - Len(octets)) \o octets

(* The same two for the 16-bit lengths, which are counted with.            *)
WriteUint16(value) == <<value \div 256, value % 256>>
ReadUint16(octets) == octets[1] * 256 + octets[2]

(* What is left of a value that travels in a field of n octets.            *)
Truncated(value, n) == ReadUint(WriteUint(value, n))

(* The bits of an octet, most significant of a pair first: the view that   *)
(* CfdpCrc takes of the octets.                                            *)
BitValue == <<1, 2, 4, 8, 16, 32, 64, 128>>

BitsOf(octet) == {k \in 0 .. 7 : (octet \div BitValue[k + 1]) % 2 = 1}
BitsOfPair(pair) == BitsOf(pair[2]) \cup {k + 8 : k \in BitsOf(pair[1])}

OctetWith(bits) ==
  LET Bit(k) == IF k \in bits THEN BitValue[k + 1] ELSE 0
  IN Bit(0) + Bit(1) + Bit(2) + Bit(3) + Bit(4) + Bit(5) + Bit(6) + Bit(7)
PairWith(bits) ==
  <<OctetWith({k - 8 : k \in {j \in bits : j >= 8}}),
    OctetWith({k \in bits : k < 8})>>
=============================================================================
