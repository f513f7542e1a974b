----------------------------- MODULE CfdpNakCodec -----------------------------
(***************************************************************************)
(* The octets of a NAK PDU of src/cfdp_directive.c: what is written for a  *)
(* list of file ranges, and which data fields are read as one.  CfdpNak    *)
(* has the decoder, loop and all; CfdpTransfer sends NAKs.                 *)
(***************************************************************************)
EXTENDS CfdpCommon

CONSTANT MaxRequests  \* CFDP_NAK_MAX_SEGMENT_REQUESTS, 32 unless it is redefined

ASSUME MaxRequestsAssumption == MaxRequests \in Nat \ {0}

\* the octets of a range
Pair(flag) == 2 * FileSizeOctets(flag)

\* the directive code and the scope
ScopeLen(flag) == 1 + Pair(flag)

Range64 == [start_offset : UInt64, end_offset : UInt64]

(* Two offsets on the wire, from a position on.                            *)
ReadRange(f, flag, from) ==
  LET middle == from + FileSizeOctets(flag)
  IN [start_offset |-> ReadUint(Slice(f, from, middle)),
      end_offset |-> ReadUint(Slice(f, middle, from + Pair(flag)))]

WriteRange(range, flag) ==
  WriteUint(range.start_offset, FileSizeOctets(flag))
    \o WriteUint(range.end_offset, FileSizeOctets(flag))

WriteRanges(ranges, flag) ==
  LET written[k \in 0 .. Len(ranges)] ==
        IF k = 0 THEN << >> ELSE written[k - 1] \o WriteRange(ranges[k], flag)
  IN written[Len(ranges)]

(* What the encoder is given: the C types of the fields.                   *)
NakToSend ==
  [start_of_scope : UInt64, end_of_scope : UInt64, segment_requests : Seq(Range64)]

(* cfdp_nak_serialize: src.segment_requests holds the first                *)
(* segment_request_count entries of the array.                             *)
NakSerialize(src, flag, bufLen) ==
  LET count == Len(src.segment_requests)
      scope == [start_offset |-> src.start_of_scope, end_offset |-> src.end_of_scope]
  IN IF count > MaxRequests \/ bufLen < ScopeLen(flag) + count * Pair(flag)
     THEN << >>
     ELSE <<CFDP_DIRECTIVE_NAK>> \o WriteRange(scope, flag)
            \o WriteRanges(src.segment_requests, flag)

-----------------------------------------------------------------------------
(* Octets behind the scope, and the requests there is room for in them.    *)
RequestOctets(f, flag) == Len(f) - ScopeLen(flag)
Count(f, flag) == RequestOctets(f, flag) \div Pair(flag)

(* A data field that is not looked at beyond its length and code.          *)
NotNak(f, flag) == Len(f) < ScopeLen(flag) \/ At(f, 0) # CFDP_DIRECTIVE_NAK

(* Deviations, used only to show that the properties can fail.             *)

\* octets that are not a whole request are ignored
UnfitNoRaggedCheck(f, flag) == Count(f, flag) > MaxRequests

\* the last entry of the array is never used
UnfitOffByOne(f, flag) ==
  \/ RequestOctets(f, flag) % Pair(flag) # 0
  \/ Count(f, flag) >= MaxRequests

(* The requests do not fill the rest of the data field exactly, or there   *)
(* are too many of them.                                                   *)
Unfit(f, flag) ==
  \/ RequestOctets(f, flag) % Pair(flag) # 0
  \/ Count(f, flag) > MaxRequests

(* What is decoded without fail.                                           *)
Decodable(f, flag) == ~ (NotNak(f, flag) \/ Unfit(f, flag))

(* What a NAK data field is: a scope and at most MaxRequests ranges, and   *)
(* nothing behind them.                                                    *)
IsNak(f, flag) ==
  /\ \E count \in 0 .. MaxRequests : Len(f) = ScopeLen(flag) + count * Pair(flag)
  /\ At(f, 0) = CFDP_DIRECTIVE_NAK
=============================================================================
