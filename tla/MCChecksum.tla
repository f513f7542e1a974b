------------------------------ MODULE MCChecksum ------------------------------
(***************************************************************************)
(* Instances of CfdpChecksumSegments for TLC.                              *)
(***************************************************************************)
EXTENDS CfdpChecksumSegments

\* octets of four bits: the full value, carries in every lane, no whole word
SomeFiles ==
  {<<15, 15, 15, 15, 15, 15, 15>>, <<1, 2, 3, 4, 5>>, <<15, 0, 1, 8, 15, 15>>, << >>}
SomeTypes == {CFDP_CHECKSUM_MODULAR, CFDP_CHECKSUM_NULL, 1}
=============================================================================
