------------------------------- MODULE CfdpCrc -------------------------------
(***************************************************************************)
(* The 16-bit PDU CRC of src/cfdp_crc.c: the shift register of CCSDS       *)
(* 232.0-B-3 in its bit-serial form.                                       *)
(*                                                                         *)
(* A register, an octet and the generator polynomial are each represented  *)
(* by the set of the bit positions that are 1 (bit 0 is the least          *)
(* significant), so that the C exclusive or is the symmetric difference    *)
(* and nothing is lost to the width of an integer.                         *)
(***************************************************************************)
EXTENDS Integers, Sequences

CONSTANTS
  RegBits,    \* width of the register: 16, the bits of a uint16_t
  OctetBits,  \* bits folded in at a time: 8
  Polynomial  \* CFDP_CRC_POLYNOMIAL without its leading term: {12, 5, 0}

(* What the algorithm needs of its parameters: an octet fits in the        *)
(* register, and the polynomial has a constant term (0x1021 is odd).       *)
ASSUME CrcAssumption ==
  /\ RegBits \in Nat
  /\ OctetBits \in Nat \ {0}
  /\ OctetBits <= RegBits
  /\ Polynomial \subseteq 0 .. RegBits - 1
  /\ 0 \in Polynomial

RegPositions == 0 .. RegBits - 1
OctetPositions == 0 .. OctetBits - 1
Register == SUBSET RegPositions
OctetPattern == SUBSET OctetPositions

(* CFDP_CRC_INIT: the register is preset to all ones.                      *)
Preset == RegPositions

Xor(a, b) == (a \ b) \cup (b \ a)

(* An octet moved into the most significant bits: (uint16_t)data[i] << 8.  *)
AtTop(octet) == {k + (RegBits - OctetBits) : k \in octet}

-----------------------------------------------------------------------------
(* Deviations, used only to show that the properties can fail.             *)

\* the octet is folded into the low bits, as if the << 8 were forgotten
XorOctetLow(crc, octet) == Xor(crc, octet)

\* the register is shifted without the polynomial being fed back
ShiftBitNoFeedback(crc) == {k + 1 : k \in crc \ {RegBits - 1}}
-----------------------------------------------------------------------------

(* crc ^= (uint16_t)data[i] << 8                                           *)
XorOctet(crc, octet) == Xor(crc, AtTop(octet))

(* One iteration of the inner loop: shift left by one, and subtract the    *)
(* polynomial if the bit shifted out was set.                              *)
ShiftBit(crc) ==
  Xor({k + 1 : k \in crc \ {RegBits - 1}},
      IF RegBits - 1 \in crc THEN Polynomial ELSE {})

(* The inner loop.                                                         *)
ShiftBits[crc \in Register] ==
  LET after[bits \in 0 .. OctetBits] ==
        IF bits = 0 THEN crc ELSE ShiftBit(after[bits - 1])
  IN after[OctetBits]

(* cfdp_crc_update: data is a sequence of octets; an empty one returns the *)
(* register unchanged.                                                     *)
CrcUpdate(crc, data) ==
  LET after[n \in 0 .. Len(data)] ==
        IF n = 0 THEN crc ELSE ShiftBits[XorOctet(after[n - 1], data[n])]
  IN after[Len(data)]

CrcCompute(data) == CrcUpdate(Preset, data)
=============================================================================
