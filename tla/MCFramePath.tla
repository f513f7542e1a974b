----------------------------- MODULE MCFramePath -----------------------------
(***************************************************************************)
(* Instances of CfdpFramePath for TLC.                                     *)
(***************************************************************************)
EXTENDS CfdpFramePath

\* a uint64_t that is small, and one with an octet set that a short field drops
Small(octet) == Zeros(7) \o <<octet>>
Wide(octet) == <<0, 0, 0, 7, 0, 0, 1, octet>>

BaseHeader ==
  [LocalHeader EXCEPT
     !.version = 1, !.pdu_type = FILE_DATA, !.transmission_mode = 1,
     !.crc_flag = PRESENT, !.entity_id_length = 1, !.transaction_seq_length = 1,
     !.source_entity_id = Small(1), !.transaction_seq_number = Small(42),
     !.destination_entity_id = Small(2)]

Segment(offset, data) ==
  [NoFileData EXCEPT
     !.offset = offset,
     !.file_data = IF data = << >> THEN Null ELSE PointerTo(data),
     !.file_data_len = Len(data)]

Request(hdr, fd, directive) == [hdr |-> hdr, fd |-> fd, directive |-> directive]

\* a segment of one octet
Plain == Request(BaseHeader, Segment(Small(0), <<18>>), << >>)
\* identifiers and an offset wider than their fields
WideValues ==
  Request([BaseHeader EXCEPT !.transaction_seq_number = Wide(43)],
          Segment(Wide(5), <<>>), << >>)
\* segment metadata, of one octet, before an offset with no data
WithMetadata ==
  Request([BaseHeader EXCEPT !.segment_metadata_flag = PRESENT],
          [Segment(Small(3), << >>) EXCEPT
             !.record_continuation = 2, !.segment_metadata_len = 1,
             !.segment_metadata = PointerTo(<<9>>)], << >>)
\* metadata without the flag: not encoded, and an empty data field is emitted
NotEncoded ==
  Request(BaseHeader, [WithMetadata.fd EXCEPT !.offset = Small(4)], << >>)
\* a directive, whose segment flags do not travel
Directive ==
  Request([BaseHeader EXCEPT !.pdu_type = DIRECTIVE, !.segmentation_control = 1],
          NoFileData, <<7, 0>>)
\* no room in the output buffer for the payload, or for the CRC after it
TooLong == Request(BaseHeader, Segment(Small(0), <<1, 2, 3, 4, 5, 6>>), << >>)
NoRoomForCrc == Request(BaseHeader, Segment(Small(0), <<1, 2, 3, 4>>), << >>)
\* as long as there is room for: where the length field has 9 values it wraps
Longest == Request(BaseHeader, Segment(Small(1), <<1, 2, 3>>), << >>)
\* no room for the payload behind a longer header
LongIds == [NoRoomForCrc EXCEPT !.hdr.entity_id_length = 2]
\* a header that is not encoded
BadVersion == [Plain EXCEPT !.hdr.version = 2]
\* the same without a CRC
NoCrc(req) == [req EXCEPT !.hdr.crc_flag = ABSENT]

\* 62 in the first octet turns the direction and leaves a header to decode
NoiseOctets == {62, 255}

\* a record continuation state without the flag that lets it travel
Unflagged == [Plain EXCEPT !.fd.record_continuation = 2]
UnflaggedRequests == {Unflagged, WithMetadata}

\* every flag of the first octet, lengths a little too long and far too long
StrayOctets == 32 .. 63 \cup {0, 4, 5, 7, 255}

FaultRequests == {Plain, NoCrc(Plain), Longest, TooLong}
CallerRequests ==
  {Plain, Unflagged, WideValues, WithMetadata, NotEncoded, Directive, TooLong,
   NoRoomForCrc, Longest, BadVersion, NoCrc(Plain), NoCrc(Directive), NoCrc(LongIds)}

\* the catalogue vectors of tests/test_cfdp_crc.c
ASSUME Vectors ==
  LET Crc(octets) ==
        PairWith(Crc16!CrcCompute([i \in DOMAIN octets |-> BitsOf(octets[i])]))
  IN /\ Crc([i \in 1 .. 9 |-> 48 + i]) = <<41, 177>>
     /\ Crc(<<65>>) = <<185, 21>>
=============================================================================
