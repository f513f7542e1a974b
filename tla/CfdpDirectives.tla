---------------------------- MODULE CfdpDirectives ----------------------------
(***************************************************************************)
(* The EOF, ACK, Metadata, Prompt and Keep Alive PDUs of                   *)
(* src/cfdp_directive.c (CfdpFinished and CfdpNak have the other two).     *)
(*                                                                         *)
(* An encoder that fails may have written a part of its buffer; no octets  *)
(* stand for that.                                                         *)
(***************************************************************************)
EXTENDS CfdpTlv

CONSTANT SpanModulus  \* 65536: options_len and filestore_responses_len are uint16_t

ASSUME SpanAssumption == SpanModulus \in Nat \ {0}

(* cfdp_eof_pdu_t; the checksum, a uint32_t, is its four octets.           *)
Eof ==
  [condition_code : 0 .. 15, file_checksum : [1 .. 4 -> Octet],
   file_size : UInt64, fault_location_entity_id : UInt64,
   fault_location_len : {0} \cup IdLengths]

(* cfdp_ack_pdu_t; zero before a first ACK has been decoded into it.       *)
Ack ==
  [ack_directive_code : {0, CFDP_DIRECTIVE_EOF, CFDP_DIRECTIVE_FINISHED},
   condition_code : 0 .. 15, transaction_status : 0 .. 3]

(* cfdp_metadata_pdu_t.                                                    *)
Metadata ==
  [closure_requested : BOOLEAN, checksum_type : 0 .. 15, file_size : UInt64,
   source_filename : Pointer, source_filename_len : Octet,
   destination_filename : Pointer, destination_filename_len : Octet,
   options : Pointer, options_len : Nat]

ClearEof ==
  [condition_code |-> 0, file_checksum |-> Zeros(4), file_size |-> Zeros(8),
   fault_location_entity_id |-> Zeros(8), fault_location_len |-> 0]
ClearAck ==
  [ack_directive_code |-> 0, condition_code |-> 0, transaction_status |-> 0]
ClearMetadata ==
  [closure_requested |-> FALSE, checksum_type |-> 0, file_size |-> Zeros(8),
   source_filename |-> Null, source_filename_len |-> 0,
   destination_filename |-> Null, destination_filename_len |-> 0,
   options |-> Null, options_len |-> 0]

-----------------------------------------------------------------------------
(* End of file                                                             *)

EofSize(flag) == FileSizeOctets(flag) + 6

(* cfdp_eof_serialize                                                      *)
EofSerialize(pdu, flag, bufLen) ==
  LET with_fault == pdu.condition_code # CFDP_COND_NO_ERROR
      fault == EntityIdTlvSerialize(pdu.fault_location_entity_id,
                                    pdu.fault_location_len, bufLen - EofSize(flag))
  IN IF \/ with_fault /\ pdu.fault_location_len = 0
        \/ bufLen < EofSize(flag)
        \/ with_fault /\ fault = << >>
     THEN << >>
     ELSE <<CFDP_DIRECTIVE_EOF, 16 * pdu.condition_code>> \o pdu.file_checksum
            \o WriteUint(pdu.file_size, FileSizeOctets(flag))
            \o (IF with_fault THEN fault ELSE << >>)

\* Deviation: the fault location of an earlier PDU is not cleared.
EofFixedNoReset(buf, flag, pdu) ==
  [pdu EXCEPT !.condition_code = At(buf, 1) \div 16,
              !.file_checksum = Slice(buf, 2, 6),
              !.file_size = ReadUint(Slice(buf, 6, EofSize(flag)))]

(* What cfdp_eof_deserialize stores before it looks for a fault location.  *)
EofFixed(buf, flag, pdu) ==
  [pdu EXCEPT !.condition_code = At(buf, 1) \div 16,
              !.file_checksum = Slice(buf, 2, 6),
              !.file_size = ReadUint(Slice(buf, 6, EofSize(flag))),
              !.fault_location_entity_id = Zeros(8),
              !.fault_location_len = 0]

(* cfdp_eof_deserialize: octets after the fault location are not looked at.*)
EofDeserialize(buf, flag, pdu) ==
  LET size == EofSize(flag)
      rest == Slice(buf, size, Len(buf))
  IN IF Len(buf) < size \/ At(buf, 0) # CFDP_DIRECTIVE_EOF
     THEN [ret |-> 0, pdu |-> pdu]
     ELSE IF Len(buf) = size
     THEN [ret |-> size, pdu |-> EofFixed(buf, flag, pdu)]
     ELSE IF EntityIdTlvSize(rest) = 0
     THEN [ret |-> 0, pdu |-> EofFixed(buf, flag, pdu)]
     ELSE [ret |-> size + EntityIdTlvSize(rest),
           pdu |-> [EofFixed(buf, flag, pdu) EXCEPT
                      !.fault_location_entity_id = EntityIdOf(rest),
                      !.fault_location_len = At(rest, 1)]]

-----------------------------------------------------------------------------
(* Acknowledgement                                                         *)

AckLen == 3

\* Deviation: any directive can be acknowledged.
AckDirectiveValidAny(code) == code \in 0 .. 15

(* cfdp_ack_directive_valid                                                *)
AckDirectiveValid(code) == code \in {CFDP_DIRECTIVE_EOF, CFDP_DIRECTIVE_FINISHED}

(* cfdp_ack_directive_subtype                                              *)
AckDirectiveSubtype(code) == IF code = CFDP_DIRECTIVE_FINISHED THEN 1 ELSE 0

(* cfdp_ack_serialize                                                      *)
AckSerialize(pdu, bufLen) ==
  IF bufLen < AckLen \/ ~ AckDirectiveValid(pdu.ack_directive_code)
  THEN << >>
  ELSE <<CFDP_DIRECTIVE_ACK,
         16 * pdu.ack_directive_code + AckDirectiveSubtype(pdu.ack_directive_code),
         16 * pdu.condition_code + pdu.transaction_status>>

\* Deviation: the condition is stored before the directive is looked at.
AckDeserializeEager(buf, pdu) ==
  IF Len(buf) < AckLen \/ At(buf, 0) # CFDP_DIRECTIVE_ACK
  THEN [ret |-> 0, pdu |-> pdu]
  ELSE LET code == At(buf, 1) \div 16
           read == [pdu EXCEPT !.condition_code = At(buf, 2) \div 16,
                               !.transaction_status = At(buf, 2) % 4]
       IN IF ~ AckDirectiveValid(code) \/ At(buf, 1) % 16 # AckDirectiveSubtype(code)
          THEN [ret |-> 0, pdu |-> read]
          ELSE [ret |-> AckLen, pdu |-> [read EXCEPT !.ack_directive_code = code]]

(* cfdp_ack_deserialize: nothing is stored unless the ACK is valid.        *)
AckDeserialize(buf, pdu) ==
  LET code == At(buf, 1) \div 16
  IN IF \/ Len(buf) < AckLen
        \/ At(buf, 0) # CFDP_DIRECTIVE_ACK
        \/ ~ AckDirectiveValid(code)
        \/ At(buf, 1) % 16 # AckDirectiveSubtype(code)
     THEN [ret |-> 0, pdu |-> pdu]
     ELSE [ret |-> AckLen,
           pdu |-> [pdu EXCEPT !.ack_directive_code = code,
                               !.condition_code = At(buf, 2) \div 16,
                               !.transaction_status = At(buf, 2) % 4]]

-----------------------------------------------------------------------------
(* Metadata                                                                *)

(* cfdp_metadata_serialize                                                 *)
MetadataSerialize(pdu, flag, bufLen) ==
  LET need == FileSizeOctets(flag) + pdu.source_filename_len
                + pdu.destination_filename_len + pdu.options_len + 4
      source == LvSerialize(pdu.source_filename, pdu.source_filename_len, bufLen)
      destination == LvSerialize(pdu.destination_filename,
                                 pdu.destination_filename_len, bufLen)
  IN IF \/ pdu.options = Null /\ pdu.options_len > 0
        \/ bufLen < need
        \/ source = << >>
        \/ destination = << >>
     THEN << >>
     ELSE <<CFDP_DIRECTIVE_METADATA,
            (IF pdu.closure_requested THEN 64 ELSE 0) + pdu.checksum_type>>
            \o WriteUint(pdu.file_size, FileSizeOctets(flag))
            \o source \o destination \o Copied(pdu.options, pdu.options_len)

\* Deviation: the closure request is read from a reserved bit.
MetadataFixedReservedBit(buf, flag, pdu) ==
  [pdu EXCEPT !.closure_requested = (At(buf, 1) \div 128) % 2 # 0,
              !.checksum_type = At(buf, 1) % 16,
              !.file_size = ReadUint(Slice(buf, 2, 2 + FileSizeOctets(flag)))]

(* What cfdp_metadata_deserialize stores before it reads the names.        *)
MetadataFixed(buf, flag, pdu) ==
  [pdu EXCEPT !.closure_requested = (At(buf, 1) \div 64) % 2 # 0,
              !.checksum_type = At(buf, 1) % 16,
              !.file_size = ReadUint(Slice(buf, 2, 2 + FileSizeOctets(flag)))]

(* cfdp_metadata_deserialize: what follows the names is the options.       *)
MetadataDeserialize(buf, flag, pdu) ==
  LET names == FileSizeOctets(flag) + 2
      fixed == MetadataFixed(buf, flag, pdu)
      source == LvDeserialize(Slice(buf, names, Len(buf)))
      destination == LvDeserialize(Slice(buf, names + source.ret, Len(buf)))
      pos == names + source.ret + destination.ret
      sourced == [fixed EXCEPT !.source_filename = source.value,
                               !.source_filename_len = source.len]
  IN IF Len(buf) < names \/ At(buf, 0) # CFDP_DIRECTIVE_METADATA
     THEN [ret |-> 0, pdu |-> pdu]
     ELSE IF source.ret = 0
     THEN [ret |-> 0, pdu |-> fixed]
     ELSE IF destination.ret = 0
     THEN [ret |-> 0, pdu |-> sourced]
     ELSE [ret |-> Len(buf),
           pdu |-> [sourced EXCEPT
             !.destination_filename = destination.value,
             !.destination_filename_len = destination.len,
             !.options = IF Len(buf) > pos THEN PointerTo(Slice(buf, pos, Len(buf)))
                         ELSE Null,
             !.options_len = (Len(buf) - pos) % SpanModulus]]

-----------------------------------------------------------------------------
(* Prompt and Keep Alive                                                   *)

PromptLen == 2

(* cfdp_prompt_serialize                                                   *)
PromptSerialize(value, bufLen) ==
  IF bufLen < PromptLen THEN << >> ELSE <<CFDP_DIRECTIVE_PROMPT, 128 * value>>

(* cfdp_prompt_deserialize                                                 *)
PromptDeserialize(buf, value) ==
  IF Len(buf) < PromptLen \/ At(buf, 0) # CFDP_DIRECTIVE_PROMPT
  THEN [ret |-> 0, pdu |-> value]
  ELSE [ret |-> PromptLen, pdu |-> At(buf, 1) \div 128]

KeepAliveSize(flag) == FileSizeOctets(flag) + 1

(* cfdp_keep_alive_serialize                                               *)
KeepAliveSerialize(value, flag, bufLen) ==
  IF bufLen < KeepAliveSize(flag)
  THEN << >>
  ELSE <<CFDP_DIRECTIVE_KEEP_ALIVE>> \o WriteUint(value, FileSizeOctets(flag))

(* cfdp_keep_alive_deserialize                                             *)
KeepAliveDeserialize(buf, flag, value) ==
  IF Len(buf) < KeepAliveSize(flag) \/ At(buf, 0) # CFDP_DIRECTIVE_KEEP_ALIVE
  THEN [ret |-> 0, pdu |-> value]
  ELSE [ret |-> KeepAliveSize(flag), pdu |-> ReadUint(Slice(buf, 1, KeepAliveSize(flag)))]

=============================================================================
