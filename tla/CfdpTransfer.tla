----------------------------- MODULE CfdpTransfer -----------------------------
(***************************************************************************)
(* A file on its way between two users of the library.  The sending user   *)
(* encodes File Data and EOF PDUs as build_file_data and build_eof of      *)
(* examples/example.c do; the receiving user dispatches what arrives as in *)
(* the README's "Parse a received PDU", writes the octets where they       *)
(* belong, and calls cfdp_checksum_update "once per received File Data     *)
(* segment", as include/cfdp_checksum.h:34-36 has it and parse_and_verify  *)
(* does.                                                                   *)
(*                                                                         *)
(* Which segments are sent, and how often, the library leaves to its users *)
(* (README.md:12), and so does this module: any segment may be sent at any *)
(* time, again, or overlapping with others.  The link carries data fields  *)
(* and alters none, as CfdpFramePath shows of the frame path; it may lose  *)
(* them, deliver them again and in any order.                              *)
(***************************************************************************)
EXTENDS CfdpPdu, CfdpDirectives, CfdpChecksum

CONSTANTS
  File,         \* the file: a sequence of octets
  Large,        \* the Large File flag of the transaction
  SegmentLen,   \* the most octets of the file in a segment
  BufLen,       \* room in the buffers PDUs are encoded in
  MaxLink,      \* bound: PDUs on the link at a time
  MaxArrivals   \* bound: File Data PDUs that arrive

ASSUME TransferAssumption ==
  /\ Radix <= 256
  /\ File \in Seq(OctetValue) /\ Len(File) \in 1 .. UINT16_MAX
  /\ Large \in {0, 1}
  /\ SegmentLen \in Nat \ {0}
  /\ BufLen \in Nat
  /\ BufLen >= FileSizeOctets(Large) + SegmentLen
  /\ BufLen >= EofSize(Large)
  /\ MaxLink \in Nat /\ MaxArrivals \in Nat

VARIABLES
  link,      \* PDUs on their way: [kind, octets]
  copy,      \* the octets the receiving user has written, by position
  checksum,  \* its running checksum
  eof,       \* the EOF PDU it has decoded: a sequence of one, or of none
  arrivals,  \* File Data PDUs that have arrived so far
  times      \* history: how often the octet of each position has arrived

receiverVars == <<copy, checksum, eof, arrivals, times>>
vars == <<link, receiverVars>>

\* offsets: positions in the file are small here, uint64_t in a PDU
UInt64Of(n) == Zeros(6) \o WriteUint16(n)
NumberOf(value) == ReadUint16(SubSeq(value, 7, 8))

\* a uint32_t on the wire, most significant octet first
ChecksumOctets(sum) ==
  [k \in 1 .. 4 |-> (sum \div Weight[k - 1]) % Radix]

-----------------------------------------------------------------------------
(* The PDUs, by what is encoded, and what is decoded from them             *)

Offsets == 0 .. Len(File) - 1
Ranges == {range \in [start : Offsets, end : 1 .. Len(File)] : range.start < range.end}
Segments == {range \in Ranges : range.end - range.start <= SegmentLen}

(* build_file_data, of a segment.                                          *)
FileDataOf ==
  [segment \in Segments |->
     FileDataSerialize(
       [NoFileData EXCEPT
          !.offset = UInt64Of(segment.start),
          !.file_data = PointerTo(Slice(File, segment.start, segment.end)),
          !.file_data_len = segment.end - segment.start],
       Large, ABSENT, BufLen)]

(* The octets of a segment and where they belong; none if it is refused.   *)
SegmentIn ==
  [octets \in Range(FileDataOf) |->
     LET read == FileDataDeserialize(octets, Large, ABSENT, NoFileData)
     IN [start |-> NumberOf(read.pdu.offset),
         data |-> IF read.ret = 0 THEN << >>
                  ELSE Copied(read.pdu.file_data, read.pdu.file_data_len)]]

(* build_eof                                                               *)
EofOf ==
  EofSerialize(
    [ClearEof EXCEPT
       !.condition_code = CFDP_COND_NO_ERROR,
       !.file_checksum = ChecksumOctets(ChecksumCompute(File)),
       !.file_size = UInt64Of(Len(File))],
    Large, BufLen)

EofIn == EofDeserialize(EofOf, Large, ClearEof)

-----------------------------------------------------------------------------
Init ==
  /\ link = {}
  /\ copy = << >>
  /\ checksum = 0
  /\ eof = << >>
  /\ arrivals = 0
  /\ times = [k \in DOMAIN File |-> 0]

-----------------------------------------------------------------------------
(* The sending user                                                        *)

Send(pdu) ==
  /\ Cardinality(link) < MaxLink
  /\ link' = link \cup {pdu}
  /\ UNCHANGED receiverVars

SendSegment(segment) == Send([kind |-> FILE_DATA, octets |-> FileDataOf[segment]])

SendEof == Send([kind |-> CFDP_DIRECTIVE_EOF, octets |-> EofOf])

-----------------------------------------------------------------------------
(* The link                                                                *)

Lose(pdu) ==
  /\ link' = link \ {pdu}
  /\ UNCHANGED receiverVars

(* A PDU is taken off the link, or will come again.                        *)
Deliver(pdu, again) == link' = IF again THEN link ELSE link \ {pdu}

-----------------------------------------------------------------------------
(* The receiving user                                                      *)

(* The octets of a segment overwrite what is at their positions, and the   *)
(* whole segment is folded into the running checksum.                      *)
TakeFileData(pdu, again) ==
  LET segment == SegmentIn[pdu.octets]
      written == segment.start + 1 .. segment.start + Len(segment.data)
  IN /\ pdu.kind = FILE_DATA
     /\ arrivals < MaxArrivals
     /\ arrivals' = arrivals + 1
     /\ Deliver(pdu, again)
     /\ copy' = [k \in DOMAIN copy \cup written |->
                   IF k \in written THEN segment.data[k - segment.start] ELSE copy[k]]
     /\ checksum' = ChecksumUpdate(checksum, segment.start, segment.data)
     /\ times' = [k \in DOMAIN times |-> IF k \in written THEN times[k] + 1 ELSE times[k]]
     /\ UNCHANGED eof

TakeEof(pdu, again) ==
  /\ pdu.kind = CFDP_DIRECTIVE_EOF
  /\ EofIn.ret > 0
  /\ Deliver(pdu, again)
  /\ eof' = <<EofIn.pdu>>
  /\ UNCHANGED <<copy, checksum, arrivals, times>>

-----------------------------------------------------------------------------
Next ==
  \/ \E segment \in Segments : SendSegment(segment)
  \/ SendEof
  \/ \E pdu \in link :
       \/ Lose(pdu)
       \/ \E again \in BOOLEAN : TakeFileData(pdu, again) \/ TakeEof(pdu, again)

Spec == Init /\ [][Next]_vars

-----------------------------------------------------------------------------
(* Properties                                                              *)

TypeOK ==
  /\ \A pdu \in link : pdu.octets \in Seq(Octet) \ {<< >>}
  /\ DOMAIN copy \subseteq DOMAIN File
  /\ checksum \in 0 .. Modulus - 1
  /\ \A k \in DOMAIN eof : eof[k] \in Eof
  /\ arrivals \in 0 .. MaxArrivals
  /\ times \in [DOMAIN File -> 0 .. arrivals]

(* The running checksum is the sum of the words of the file in which every *)
(* octet counts as often as it has arrived, in the lane of its position,   *)
(* whatever the order, the alignment and the overlaps of the segments: an  *)
(* octet that comes twice is counted twice (src/cfdp_checksum.c:21-29).    *)
ChecksumOfArrivals ==
  checksum = WordSum([k \in DOMAIN File |-> times[k] * File[k]])

(* When the whole file is there, written over as often as it came, the     *)
(* running checksum is the one in the EOF PDU that was sent, encoded and   *)
(* decoded, exactly if the octets that came again add up to nothing.       *)
SecondArrivalsDecide ==
  eof # << >> /\ copy = File =>
    (ChecksumOctets(checksum) = eof[1].file_checksum
       <=> WordSum([k \in DOMAIN File |-> (times[k] - 1) * File[k]]) = 0)

(* What include/cfdp_checksum.h:34-36 promises a user who makes one call   *)
(* per received segment, in any order: when the file is there as it was    *)
(* sent, its checksum is the one in the EOF PDU.                           *)
ReceivedFileVerifies ==
  eof # << >> /\ copy = File =>
    ChecksumOctets(checksum) = eof[1].file_checksum

-----------------------------------------------------------------------------
(* The strengthening behind the safety properties: what is on the link is  *)
(* what the sending user encodes, every octet written is that of the file, *)
(* at the positions that have arrived, and the EOF PDU is the one sent.    *)
Encoded ==
  {[kind |-> FILE_DATA, octets |-> FileDataOf[segment]] : segment \in Segments}
    \cup {[kind |-> CFDP_DIRECTIVE_EOF, octets |-> EofOf]}

IInv ==
  /\ TypeOK
  /\ link \subseteq Encoded
  /\ copy = [k \in DOMAIN copy |-> File[k]]
  /\ DOMAIN copy = {k \in DOMAIN File : times[k] > 0}
  /\ ChecksumOfArrivals
  /\ eof \in {<< >>, <<EofIn.pdu>>}
=============================================================================
