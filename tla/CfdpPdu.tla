------------------------------- MODULE CfdpPdu -------------------------------
(***************************************************************************)
(* The PDU codec of src/cfdp_pdu.c: fixed header, CRC and File Data data   *)
(* field.                                                                  *)
(*                                                                         *)
(* An operator is given the buffer a C function may read and returns what  *)
(* it returns and what it wrote.  An encoder that fails returns no octets  *)
(* when the C function returns 0 before writing any.  A decoder returns    *)
(* the structure as it leaves it, partly written or not when it fails.     *)
(***************************************************************************)
EXTENDS CfdpCommon

\* CRC-16 of cfdp_crc.h
Crc16 == INSTANCE CfdpCrc WITH
           RegBits <- 16, OctetBits <- 8, Polynomial <- {12, 5, 0}

(* cfdp_pdu_header_t.                                                      *)
Header ==
  [version : 0 .. 7, pdu_type : {DIRECTIVE, FILE_DATA}, direction : {0, 1},
   transmission_mode : {0, 1}, crc_flag : {ABSENT, PRESENT},
   large_file_flag : {0, 1}, data_field_length : UInt16,
   segmentation_control : {0, 1}, entity_id_length : Octet,
   segment_metadata_flag : {ABSENT, PRESENT}, transaction_seq_length : Octet,
   source_entity_id : UInt64, transaction_seq_number : UInt64,
   destination_entity_id : UInt64]

(* cfdp_file_data_pdu_t: each pointer comes with the length to use it at.  *)
FileData ==
  [record_continuation : 0 .. 3, segment_metadata : Pointer,
   segment_metadata_len : Octet, offset : UInt64, file_data : Pointer,
   file_data_len : Nat]

NoFileData ==
  [record_continuation |-> 0, segment_metadata |-> Null,
   segment_metadata_len |-> 0, offset |-> Zeros(8), file_data |-> Null,
   file_data_len |-> 0]

IdLenValid(len) == len \in IdLengths

HeaderSize(hdr) ==
  IF IdLenValid(hdr.entity_id_length) /\ IdLenValid(hdr.transaction_seq_length)
  THEN CFDP_PDU_HEADER_FIXED_LEN + 2 * hdr.entity_id_length
         + hdr.transaction_seq_length
  ELSE 0

PackOctet0(hdr) ==
  32 * hdr.version + 16 * hdr.pdu_type + 8 * hdr.direction
    + 4 * hdr.transmission_mode + 2 * hdr.crc_flag + hdr.large_file_flag

(* The segment flags are 0 in a File Directive PDU (Table 5-1).            *)
SegmentFlag(hdr, flag) == IF hdr.pdu_type = FILE_DATA THEN flag ELSE 0

(* What the peer is told of a header: identifiers lose the octets their    *)
(* fields have no room for, a directive its segment flags.                 *)
HeaderOnWire(hdr) ==
  [hdr EXCEPT
     !.segmentation_control = SegmentFlag(hdr, @),
     !.segment_metadata_flag = SegmentFlag(hdr, @),
     !.source_entity_id = Truncated(@, hdr.entity_id_length),
     !.transaction_seq_number = Truncated(@, hdr.transaction_seq_length),
     !.destination_entity_id = Truncated(@, hdr.entity_id_length)]

PackOctet3(hdr) ==
  128 * SegmentFlag(hdr, hdr.segmentation_control)
    + 16 * (hdr.entity_id_length - 1)
    + 8 * SegmentFlag(hdr, hdr.segment_metadata_flag)
    + (hdr.transaction_seq_length - 1)

(* cfdp_pdu_header_serialize into a buffer of bufLen octets.               *)
HeaderSerialize(hdr, bufLen) ==
  IF \/ hdr.version # CFDP_PROTOCOL_VERSION
     \/ HeaderSize(hdr) = 0
     \/ bufLen < HeaderSize(hdr)
  THEN << >>
  ELSE <<PackOctet0(hdr)>> \o WriteUint16(hdr.data_field_length)
         \o <<PackOctet3(hdr)>>
         \o WriteUint(hdr.source_entity_id, hdr.entity_id_length)
         \o WriteUint(hdr.transaction_seq_number, hdr.transaction_seq_length)
         \o WriteUint(hdr.destination_entity_id, hdr.entity_id_length)

UnpackFlags(buf, hdr) ==
  LET o0 == At(buf, 0)
      o3 == At(buf, 3)
      pdu_type == (o0 \div 16) % 2
      Segment(bit) == IF pdu_type = FILE_DATA THEN bit % 2 ELSE 0
  IN [hdr EXCEPT
        !.version = o0 \div 32,
        !.pdu_type = pdu_type,
        !.direction = (o0 \div 8) % 2,
        !.transmission_mode = (o0 \div 4) % 2,
        !.crc_flag = (o0 \div 2) % 2,
        !.large_file_flag = o0 % 2,
        !.data_field_length = ReadUint16(Slice(buf, 1, 3)),
        !.segmentation_control = Segment(o3 \div 128),
        !.entity_id_length = ((o3 \div 16) % 8) + 1,
        !.segment_metadata_flag = Segment(o3 \div 8),
        !.transaction_seq_length = (o3 % 8) + 1]

(* cfdp_pdu_header_deserialize into the structure hdr.                     *)
HeaderDeserialize(buf, hdr) ==
  IF Len(buf) < CFDP_PDU_HEADER_FIXED_LEN
  THEN [ret |-> 0, pdu |-> hdr]
  ELSE LET flags == UnpackFlags(buf, hdr)
           size == HeaderSize(flags)
           seqAt == CFDP_PDU_HEADER_FIXED_LEN + flags.entity_id_length
           dstAt == seqAt + flags.transaction_seq_length
       IN IF flags.version # CFDP_PROTOCOL_VERSION \/ size = 0 \/ Len(buf) < size
          THEN [ret |-> 0, pdu |-> flags]
          ELSE [ret |-> size,
                pdu |-> [flags EXCEPT
                  !.source_entity_id =
                     ReadUint(Slice(buf, CFDP_PDU_HEADER_FIXED_LEN, seqAt)),
                  !.transaction_seq_number = ReadUint(Slice(buf, seqAt, dstAt)),
                  !.destination_entity_id = ReadUint(Slice(buf, dstAt, size))]]

\* Deviation: the octets of the CRC are left in the payload.
PayloadSizeRaw(hdr) == hdr.data_field_length

(* cfdp_pdu_payload_size: the data field without its CRC.                  *)
PayloadSize(hdr) ==
  IF hdr.crc_flag # PRESENT THEN hdr.data_field_length
  ELSE IF hdr.data_field_length < CFDP_PDU_CRC_LEN THEN 0
  ELSE hdr.data_field_length - CFDP_PDU_CRC_LEN

\* a cfdp_pdu_header_t on the stack: every field is written before it is read
LocalHeader ==
  [version |-> 0, pdu_type |-> 0, direction |-> 0, transmission_mode |-> 0,
   crc_flag |-> 0, large_file_flag |-> 0, data_field_length |-> 0,
   segmentation_control |-> 0, entity_id_length |-> 0,
   segment_metadata_flag |-> 0, transaction_seq_length |-> 0,
   source_entity_id |-> Zeros(8), transaction_seq_number |-> Zeros(8),
   destination_entity_id |-> Zeros(8)]

\* Deviation: the CRC leaves the header out, at both ends.
CrcOfDataField(octets) ==
  LET from == HeaderDeserialize(octets, LocalHeader).ret
  IN Crc16!CrcCompute([i \in 1 .. Len(octets) - from |-> BitsOf(octets[from + i])])

CrcOf(octets) == Crc16!CrcCompute([i \in DOMAIN octets |-> BitsOf(octets[i])])

-----------------------------------------------------------------------------
(* Deviations, used only to show that the properties can fail.             *)

\* the CRC is appended without comparing the header with what was written
CrcAppendUnchecked(buf, pduLen) ==
  LET head == HeaderDeserialize(Slice(buf, 0, pduLen), LocalHeader)
      end == pduLen + CFDP_PDU_CRC_LEN
  IN IF head.ret = 0 \/ head.pdu.crc_flag # PRESENT \/ Len(buf) < end
     THEN [ret |-> 0, buf |-> buf]
     ELSE [ret |-> end,
           buf |-> Overlay(buf, pduLen, PairWith(CrcOf(Slice(buf, 0, pduLen))))]

\* a frame with octets after the PDU is refused
CrcVerifyExact(buf) ==
  LET head == HeaderDeserialize(buf, LocalHeader)
      total == head.ret + head.pdu.data_field_length
      protected == total - CFDP_PDU_CRC_LEN
  IN /\ head.ret # 0
     /\ Len(buf) = total
     /\ head.pdu.crc_flag = PRESENT =>
          /\ head.pdu.data_field_length >= CFDP_PDU_CRC_LEN
          /\ CrcOf(Slice(buf, 0, protected))
               = BitsOfPair(Slice(buf, protected, total))
-----------------------------------------------------------------------------

(* cfdp_pdu_crc_append: pduLen octets of buf hold the header and the       *)
(* payload; the header must describe a PDU one CRC longer.                 *)
CrcAppend(buf, pduLen) ==
  LET head == HeaderDeserialize(Slice(buf, 0, pduLen), LocalHeader)
      end == pduLen + CFDP_PDU_CRC_LEN
  IN IF \/ head.ret = 0
        \/ head.pdu.crc_flag # PRESENT
        \/ Len(buf) < end
        \/ HeaderSize(head.pdu) + head.pdu.data_field_length # end
     THEN [ret |-> 0, buf |-> buf]
     ELSE [ret |-> end,
           buf |-> Overlay(buf, pduLen, PairWith(CrcOf(Slice(buf, 0, pduLen))))]

(* cfdp_pdu_crc_verify: octets beyond the PDU the header describes are     *)
(* ignored, and a PDU whose CRC flag is clear passes.                      *)
CrcVerify(buf) ==
  LET head == HeaderDeserialize(buf, LocalHeader)
      total == head.ret + head.pdu.data_field_length
      protected == total - CFDP_PDU_CRC_LEN
  IN /\ head.ret # 0
     /\ Len(buf) >= total
     /\ head.pdu.crc_flag = PRESENT =>
          /\ head.pdu.data_field_length >= CFDP_PDU_CRC_LEN
          /\ CrcOf(Slice(buf, 0, protected))
               = BitsOfPair(Slice(buf, protected, total))

-----------------------------------------------------------------------------
(* File Data PDU                                                           *)

SegmentMetadataConsistent(fd, flag) ==
  IF flag # PRESENT
  THEN fd.segment_metadata_len = 0 /\ fd.segment_metadata = Null
  ELSE /\ fd.segment_metadata_len <= CFDP_SEGMENT_METADATA_MAX_LEN
       /\ fd.segment_metadata # Null \/ fd.segment_metadata_len = 0

SegmentMetadataWrite(fd) ==
  <<64 * fd.record_continuation + fd.segment_metadata_len>>
    \o Copied(fd.segment_metadata, fd.segment_metadata_len)

(* cfdp_file_data_serialize into a buffer of bufLen octets.                *)
FileDataSerialize(fd, large, flag, bufLen) ==
  LET metadata_size == IF flag = PRESENT THEN fd.segment_metadata_len + 1 ELSE 0
      size == metadata_size + FileSizeOctets(large) + fd.file_data_len
  IN IF \/ fd.file_data = Null /\ fd.file_data_len > 0
        \/ ~ SegmentMetadataConsistent(fd, flag)
        \/ bufLen < size
     THEN << >>
     ELSE (IF flag = PRESENT THEN SegmentMetadataWrite(fd) ELSE << >>)
            \o WriteUint(fd.offset, FileSizeOctets(large))
            \o Copied(fd.file_data, fd.file_data_len)

(* What the peer is told of a File Data PDU.                               *)
FileDataOnWire(fd, large, flag) ==
  [fd EXCEPT
     !.record_continuation = IF flag = PRESENT THEN @ ELSE 0,
     !.segment_metadata = Told(@, fd.segment_metadata_len),
     !.offset = Truncated(@, FileSizeOctets(large)),
     !.file_data = Told(@, fd.file_data_len)]

(* cfdp_segment_metadata_read                                              *)
SegmentMetadataRead(buf, fd) ==
  IF Len(buf) < 1
  THEN [ret |-> 0, pdu |-> fd]
  ELSE LET len == At(buf, 0) % 64
           announced == [fd EXCEPT !.record_continuation = At(buf, 0) \div 64,
                                   !.segment_metadata_len = len]
       IN IF Len(buf) < len + 1
          THEN [ret |-> 0, pdu |-> announced]
          ELSE [ret |-> len + 1,
                pdu |-> [announced EXCEPT
                          !.segment_metadata =
                             IF len > 0 THEN PointerTo(Slice(buf, 1, len + 1))
                             ELSE Null]]

(* cfdp_file_data_deserialize of a data field into the structure fd.       *)
FileDataDeserialize(buf, large, flag, fd) ==
  LET reset == [fd EXCEPT !.record_continuation = 0, !.segment_metadata = Null,
                          !.segment_metadata_len = 0]
      read == IF flag = PRESENT
              THEN SegmentMetadataRead(buf, reset)
              ELSE [ret |-> 0, pdu |-> reset]
      data == read.ret + FileSizeOctets(large)
  IN IF (flag = PRESENT /\ read.ret = 0) \/ Len(buf) < data
     THEN [ret |-> 0, pdu |-> read.pdu]
     ELSE [ret |-> Len(buf),
           pdu |-> [read.pdu EXCEPT
                     !.offset = ReadUint(Slice(buf, read.ret, data)),
                     !.file_data = IF Len(buf) > data
                                   THEN PointerTo(Slice(buf, data, Len(buf)))
                                   ELSE Null,
                     !.file_data_len = Len(buf) - data]]

(* cfdp_pdu_directive_code: whether there is an octet to hold the code.    *)
HasDirectiveCode(buf) == Len(buf) > 0
=============================================================================
