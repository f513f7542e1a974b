----------------------------- MODULE CfdpChecksum -----------------------------
(***************************************************************************)
(* The file checksums of src/cfdp_checksum.c.                              *)
(***************************************************************************)
EXTENDS Integers, Sequences, FiniteSetsExt, SequencesExt

CONSTANT Radix  \* 256, the values of an octet; a checksum has four octets

OctetValue == 0 .. Radix - 1

CFDP_CHECKSUM_MODULAR == 0
CFDP_CHECKSUM_NULL == 15

ASSUME RadixAssumption == Radix \in Nat /\ Radix > 1

\* a uint32_t
Modulus == Radix * Radix * Radix * Radix

\* what an octet counts in each of the four lanes: it is shifted by 24, 16,
\* 8 and 0 bits
Weight ==
  [lane \in 0 .. 3 |->
     CASE lane = 0 -> Radix * Radix * Radix
       [] lane = 1 -> Radix * Radix
       [] lane = 2 -> Radix
       [] lane = 3 -> 1]

-----------------------------------------------------------------------------
(* Deviations, used only to show that the properties can fail.             *)

\* the lane follows the index in the segment instead of that in the file
ChecksumUpdateLocalLane(sum, offset, data) ==
  LET after[n \in 0 .. Len(data)] ==
        IF n = 0 THEN sum
        ELSE (after[n - 1] + data[n] * Weight[(n - 1) % 4]) % Modulus
  IN after[Len(data)]

\* the lanes are counted from one
ChecksumUpdateShiftedLane(sum, offset, data) ==
  LET after[n \in 0 .. Len(data)] ==
        IF n = 0 THEN sum
        ELSE (after[n - 1] + data[n] * Radix * Weight[(offset + n - 1) % 4]) % Modulus
  IN after[Len(data)]

\* carries out of the word are kept
ChecksumUpdateWide(sum, offset, data) ==
  LET after[n \in 0 .. Len(data)] ==
        IF n = 0 THEN sum
        ELSE after[n - 1] + data[n] * Weight[(offset + n - 1) % 4]
  IN after[Len(data)]
-----------------------------------------------------------------------------

(* cfdp_checksum_update: each octet is added in the lane of its position   *)
(* in the file, and carries out of the word are lost.  Of no data nothing  *)
(* is added.                                                               *)
ChecksumUpdate(sum, offset, data) ==
  LET after[n \in 0 .. Len(data)] ==
        IF n = 0 THEN sum
        ELSE (after[n - 1] + data[n] * Weight[(offset + n - 1) % 4]) % Modulus
  IN after[Len(data)]

ChecksumCompute(data) == ChecksumUpdate(0, 0, data)

ChecksumTypeSupported(t) == t \in {CFDP_CHECKSUM_MODULAR, CFDP_CHECKSUM_NULL}

(* cfdp_checksum_update_by_type, what it leaves in *checksum: it returns   *)
(* whether the type is supported.                                          *)
UpdateByType(t, sum, offset, data) ==
  IF ~ ChecksumTypeSupported(t) THEN sum
  ELSE IF t = CFDP_CHECKSUM_NULL THEN 0
  ELSE ChecksumUpdate(sum, offset, data)

-----------------------------------------------------------------------------
(* The modular checksum by its definition (CCSDS 727.0-B-5, Annex F): the  *)
(* file, filled up with zeros to a whole number of four-octet words, is    *)
(* added up word by word.                                                  *)
Word(f, w) ==
  LET Lane(k) == IF 4 * w + k \in DOMAIN f THEN f[4 * w + k] ELSE 0
  IN ((Lane(1) * Radix + Lane(2)) * Radix + Lane(3)) * Radix + Lane(4)

Words(f) == (Len(f) + 3) \div 4

WordSum(f) ==
  LET of[n \in 0 .. Words(f)] ==
        IF n = 0 THEN 0 ELSE (of[n - 1] + Word(f, n - 1)) % Modulus
  IN of[Words(f)]
=============================================================================
