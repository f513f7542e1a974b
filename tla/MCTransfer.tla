------------------------------ MODULE MCTransfer ------------------------------
(***************************************************************************)
(* Instances of CfdpTransfer for TLC.                                      *)
(***************************************************************************)
EXTENDS CfdpTransfer

\* octets of four bits: a carry out of every lane, no whole word, and an octet
\* that counts for nothing when it comes two more times
SomeFile == <<8, 2, 15, 4, 15>>
=============================================================================
