--------------------------- MODULE MCDecoderSession ---------------------------
(***************************************************************************)
(* Instances of CfdpDecoderSession for TLC.                                *)
(***************************************************************************)
EXTENDS CfdpDecoderSession

WideSize == <<0, 0, 0, 7, 0, 0, 1, 2>>
WideId == <<0, 0, 0, 0, 0, 9, 1, 2>>
Text(octets) == IF octets = << >> THEN Null ELSE PointerTo(octets)

EofPdu(condition, len) ==
  [condition_code |-> condition, file_checksum |-> <<1, 2, 3, 4>>,
   file_size |-> WideSize, fault_location_entity_id |-> WideId,
   fault_location_len |-> len]
AckPdu(code, condition, status) ==
  [ack_directive_code |-> code, condition_code |-> condition,
   transaction_status |-> status]
MetadataPdu(closure, checksum, source, destination, options) ==
  [closure_requested |-> closure, checksum_type |-> checksum,
   file_size |-> WideSize, source_filename |-> Text(source),
   source_filename_len |-> Len(source), destination_filename |-> Text(destination),
   destination_filename_len |-> Len(destination), options |-> Text(options),
   options_len |-> Len(options)]

\* EOFs without and with a fault, with a location that is too short, too long,
\* missing, or not to be sent; ACKs of the two directives and of another;
\* Metadata with and without names and options, and with a NULL name
SizedPdus ==
  {<<"eof", EofPdu(0, 2)>>, <<"eof", EofPdu(4, 2)>>, <<"eof", EofPdu(11, 8)>>,
   <<"eof", EofPdu(15, 0)>>, <<"eof", EofPdu(4, 9)>>,
   <<"metadata", MetadataPdu(TRUE, 0, <<7, 8>>, <<9>>, <<2, 1, 5>>)>>,
   <<"metadata", MetadataPdu(FALSE, 15, << >>, << >>, << >>)>>,
   <<"metadata", MetadataPdu(TRUE, 3, << >>, <<9, 1>>, << >>)>>,
   <<"metadata", [MetadataPdu(FALSE, 0, << >>, <<9>>, << >>)
                    EXCEPT !.source_filename_len = 1]>>,
   <<"keep_alive", WideSize>>}
PlainPdus ==
  {<<"ack", AckPdu(4, 0, 1)>>, <<"ack", AckPdu(5, 15, 2)>>, <<"ack", AckPdu(6, 0, 0)>>,
   <<"prompt", 0>>, <<"prompt", 1>>}

HeaderPdu(type, idLen, seqLen, flag) ==
  [version |-> 1, pdu_type |-> type, direction |-> 1, transmission_mode |-> 0,
   crc_flag |-> flag, large_file_flag |-> 1 - flag, data_field_length |-> 258,
   segmentation_control |-> 1, entity_id_length |-> idLen,
   segment_metadata_flag |-> flag, transaction_seq_length |-> seqLen,
   source_entity_id |-> WideId, transaction_seq_number |-> WideSize,
   destination_entity_id |-> WideId]
FileDataPdu(state, metadata, data) ==
  [record_continuation |-> state, segment_metadata |-> Text(metadata),
   segment_metadata_len |-> Len(metadata), offset |-> WideSize,
   file_data |-> Text(data), file_data_len |-> Len(data)]

\* headers of both types, with shortest and longest identifiers; file data
\* with and without metadata and data, and metadata that disagrees with the flag
Headers ==
  {HeaderPdu(DIRECTIVE, 1, 2, PRESENT), HeaderPdu(FILE_DATA, 2, 1, PRESENT),
   HeaderPdu(FILE_DATA, 1, 1, ABSENT), HeaderPdu(DIRECTIVE, 8, 8, ABSENT),
   HeaderPdu(FILE_DATA, 9, 1, ABSENT)}
FilePdus ==
  {<<FileDataPdu(2, <<7>>, <<1, 2>>), PRESENT>>,
   <<FileDataPdu(1, << >>, <<3>>), PRESENT>>, <<FileDataPdu(0, << >>, << >>), ABSENT>>,
   <<FileDataPdu(0, << >>, <<2, 2, 5>>), ABSENT>>,
   <<FileDataPdu(0, <<8>>, <<4>>), ABSENT>>}

SomeSources ==
  {[kind |-> p[1], pdu |-> p[2], large |-> large, flag |-> ABSENT] :
     p \in SizedPdus, large \in {0, 1}}
    \cup {[kind |-> p[1], pdu |-> p[2], large |-> 0, flag |-> ABSENT] : p \in PlainPdus}
    \cup {[kind |-> "header", pdu |-> hdr, large |-> 0, flag |-> ABSENT] : hdr \in Headers}
    \cup {[kind |-> "file_data", pdu |-> p[1], large |-> large, flag |-> p[2]] :
            p \in FilePdus, large \in {0, 1}}

\* what is wrong with a field of each kind: an ACK's subtype that does not go
\* with its directive, or another directive; an EOF with a fault and no
\* location; a header of another version, or one that is a directive's with
\* the segment flags of file data; segment metadata announced and not there
Wrong ==
  [ack |-> {<<6, 65, 0>>, <<6, 80, 0>>, <<6, 112, 240>>, <<6, 64, 252>>},
   prompt |-> {<<9, 127>>},
   eof |-> {<<4, 64, 1, 2, 3, 4, 0, 0, 0, 5>>, <<5, 64, 1, 2, 3, 4, 0, 0, 0, 5>>},
   metadata |-> {<<7, 0, 0, 0, 0, 1, 2>>}, keep_alive |-> {<<9, 0, 0, 0, 1>>},
   header |-> {<<64, 0, 0, 0, 1, 1, 1>>, <<40, 0, 0, 136, 1, 1, 1>>},
   file_data |-> {<<191, 3>>}]
SpareBits ==
  [[kind \in DOMAIN Clear |-> {}] EXCEPT !.eof = 0 .. 3, !.metadata = {4, 5, 7}]

\* the encoded PDUs, cut, with an octet more, and with every spare bit set
SomeFields ==
  [kind \in DOMAIN Clear |->
     LET whole == {Encoded(src) : src \in {s \in SomeSources : s.kind = kind}}
                    \ {<< >>}
     IN whole \cup Wrong[kind] \cup {<< >>}
          \cup {Slice(f, 0, Len(f) - cut) : f \in whole, cut \in {1, 2}}
          \cup {f \o <<0>> : f \in whole}
          \cup (IF SpareBits[kind] = {} THEN {}
                ELSE {[f EXCEPT ![2] = OctetWith(BitsOf(@) \cup SpareBits[kind])] :
                        f \in whole})]
=============================================================================
