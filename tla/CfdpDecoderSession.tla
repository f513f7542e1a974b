-------------------------- MODULE CfdpDecoderSession --------------------------
(***************************************************************************)
(* A caller that decodes one PDU after another into the same structures.   *)
(*                                                                         *)
(* These decoders have no loop, and a call is a step (CfdpFinished and     *)
(* CfdpNak have the two with one).  What makes them worth a specification  *)
(* is the structure a caller hands to one call after another: each decoder *)
(* writes it field by field, and some have written a part of it when they  *)
(* find the octets wanting.                                                *)
(***************************************************************************)
EXTENDS CfdpDirectives, CfdpPdu

\* as the caller has cleared them before the first call
Clear ==
  [eof |-> ClearEof, ack |-> ClearAck, metadata |-> ClearMetadata, prompt |-> 0,
   keep_alive |-> Zeros(8), header |-> LocalHeader, file_data |-> NoFileData]

CONSTANTS
  Fields,    \* octets that may be given to the decoder of each kind
  Sources,   \* PDUs a peer may have encoded: [kind, pdu, large, flag]
  MaxCalls   \* bound: calls of a decoder

(* A data field comes from a PDU whose header counts it in 16 bits.        *)
ASSUME FieldsAssumption ==
  /\ \A kind \in DOMAIN Clear :
       \A field \in Fields[kind] : field \in Seq(Octet) /\ Len(field) <= SpanModulus
  /\ MaxCalls \in Nat

(* What a caller may have put into a structure of each kind that is to be  *)
(* encoded: any value of the C types of its fields that is not out of the  *)
(* range a bit field has room for, and pointers to as many octets as the   *)
(* lengths with them say.                                                  *)
Filled(kind) ==
  CASE kind = "eof" ->
         [condition_code : 0 .. 15, file_checksum : [1 .. 4 -> Octet], file_size : UInt64,
          fault_location_entity_id : UInt64, fault_location_len : Octet]
    [] kind = "ack" ->
         [ack_directive_code : 0 .. 15, condition_code : 0 .. 15,
          transaction_status : 0 .. 3]
    [] kind = "metadata" ->
         {pdu \in Metadata : /\ PointsTo(pdu.source_filename, pdu.source_filename_len)
                             /\ PointsTo(pdu.destination_filename,
                                         pdu.destination_filename_len)
                             /\ PointsTo(pdu.options, pdu.options_len)}
    [] kind = "prompt" -> {0, 1}
    [] kind = "keep_alive" -> UInt64
    [] kind = "header" -> Header
    [] kind = "file_data" ->
         {pdu \in FileData : /\ PointsTo(pdu.segment_metadata, pdu.segment_metadata_len)
                             /\ PointsTo(pdu.file_data, pdu.file_data_len)}

ASSUME SourcesAssumption ==
  \A src \in Sources :
    /\ src.kind \in DOMAIN Clear /\ src.pdu \in Filled(src.kind)
    /\ src.large \in {0, 1} /\ src.flag \in {ABSENT, PRESENT}

VARIABLES
  out,   \* the caller's structures, one of each kind
  last,  \* the last call: [kind, field, large, flag, ret]
  calls  \* calls so far

vars == <<out, last, calls>>

Structures ==
  [eof : Eof, ack : Ack, metadata : Metadata, prompt : {0, 1}, keep_alive : UInt64,
   header : Header, file_data : FileData]

Init ==
  /\ out = Clear
  /\ last = [kind |-> "none", field |-> << >>, large |-> 0, flag |-> 0, ret |-> 0]
  /\ calls = 0

(* What a decoder of any kind makes of the octets in a structure s.        *)
Decode(kind, field, large, flag, s) ==
  CASE kind = "eof" -> EofDeserialize(field, large, s)
    [] kind = "ack" -> AckDeserialize(field, s)
    [] kind = "metadata" -> MetadataDeserialize(field, large, s)
    [] kind = "prompt" -> PromptDeserialize(field, s)
    [] kind = "keep_alive" -> KeepAliveDeserialize(field, large, s)
    [] kind = "header" -> HeaderDeserialize(field, s)
    [] kind = "file_data" -> FileDataDeserialize(field, large, flag, s)

(* Which decoder the caller takes may follow the directive code            *)
(* (README.md:204-207) or not.                                             *)
Call(kind, field, large, flag) ==
  LET result == Decode(kind, field, large, flag, out[kind])
  IN /\ calls < MaxCalls
     /\ calls' = calls + 1
     /\ out' = [out EXCEPT ![kind] = result.pdu]
     /\ last' = [kind |-> kind, field |-> field, large |-> large, flag |-> flag,
                 ret |-> result.ret]

DecodeEof(field, large) == Call("eof", field, large, ABSENT)
DecodeAck(field) == Call("ack", field, 0, ABSENT)
DecodeMetadata(field, large) == Call("metadata", field, large, ABSENT)
DecodePrompt(field) == Call("prompt", field, 0, ABSENT)
DecodeKeepAlive(field, large) == Call("keep_alive", field, large, ABSENT)
DecodeHeader(octets) == Call("header", octets, 0, ABSENT)
DecodeFileData(field, large, flag) == Call("file_data", field, large, flag)

Next ==
  \/ \E field \in Fields["ack"] : DecodeAck(field)
  \/ \E field \in Fields["prompt"] : DecodePrompt(field)
  \/ \E octets \in Fields["header"] : DecodeHeader(octets)
  \/ \E large \in {0, 1} :
       \/ \E field \in Fields["eof"] : DecodeEof(field, large)
       \/ \E field \in Fields["metadata"] : DecodeMetadata(field, large)
       \/ \E field \in Fields["keep_alive"] : DecodeKeepAlive(field, large)
       \/ \E flag \in {ABSENT, PRESENT}, field \in Fields["file_data"] :
            DecodeFileData(field, large, flag)

Spec == Init /\ [][Next]_vars

-----------------------------------------------------------------------------
(* Properties                                                              *)

TypeOK ==
  /\ out \in Structures
  /\ last.ret \in 0 .. Len(last.field)
  /\ calls \in 0 .. MaxCalls

Accepted(kind) == last.kind = kind /\ last.ret > 0

(* What an accepted PDU leaves in the structure is that PDU and nothing    *)
(* else: the same octets decoded into a clear structure give the same,     *)
(* whatever was decoded, or half decoded, into this one before.            *)
NothingStale ==
  last.ret > 0 =>
    out[last.kind] = Decode(last.kind, last.field, last.large, last.flag,
                            Clear[last.kind]).pdu

(* A refused ACK leaves the last one as it was                             *)
(* (include/cfdp_directive.h:241), and so do a refused Prompt and Keep     *)
(* Alive, in code that writes its output last.                             *)
RefusedUntouched ==
  [][last'.ret = 0 =>
       \A kind \in {"ack", "prompt", "keep_alive"} : out'[kind] = out[kind]]_vars

(* The octets that were decoded, with the spare bits of an octet cleared.  *)
Consumed(at, spare) ==
  [Slice(last.field, 0, last.ret) EXCEPT ![at + 1] = OctetWith(BitsOf(@) \ spare)]

FaultLocationAgrees ==
  out.eof.condition_code # CFDP_COND_NO_ERROR <=> out.eof.fault_location_len > 0

(* What was decoded can be sent on: encoded again, in as many octets, it   *)
(* is the same PDU.  No octet of it was skipped, read twice or read at     *)
(* another place, up to the end of the options or the file data.  The      *)
(* exception is an EOF whose fault location does not go with its           *)
(* condition, which the decoder takes and the encoder refuses to make.     *)
Reencodes ==
  /\ Accepted("eof") /\ FaultLocationAgrees =>
       EofSerialize(out.eof, last.large, last.ret) = Consumed(1, 0 .. 3)
  /\ Accepted("ack") => AckSerialize(out.ack, last.ret) = Consumed(2, {2, 3})
  /\ Accepted("metadata") =>
       MetadataSerialize(out.metadata, last.large, last.ret) = Consumed(1, {4, 5, 7})
  /\ Accepted("prompt") => PromptSerialize(out.prompt, last.ret) = Consumed(1, 0 .. 6)
  /\ Accepted("keep_alive") =>
       KeepAliveSerialize(out.keep_alive, last.large, last.ret) = Consumed(0, {})
  /\ Accepted("header") =>
       HeaderSerialize(out.header, last.ret)
         = Consumed(3, IF out.header.pdu_type = DIRECTIVE THEN {3, 7} ELSE {})
  /\ Accepted("file_data") =>
       FileDataSerialize(out.file_data, last.large, last.flag, last.ret) = Consumed(0, {})

Encoded(src) ==
  CASE src.kind = "eof" -> EofSerialize(src.pdu, src.large, SpanModulus)
    [] src.kind = "ack" -> AckSerialize(src.pdu, SpanModulus)
    [] src.kind = "metadata" -> MetadataSerialize(src.pdu, src.large, SpanModulus)
    [] src.kind = "prompt" -> PromptSerialize(src.pdu, SpanModulus)
    [] src.kind = "keep_alive" -> KeepAliveSerialize(src.pdu, src.large, SpanModulus)
    [] src.kind = "header" -> HeaderSerialize(src.pdu, SpanModulus)
    [] src.kind = "file_data" ->
         FileDataSerialize(src.pdu, src.large, src.flag, SpanModulus)

(* A PDU a peer encoded, decoded under the same flags, is what the peer    *)
(* was told, in the octets its file size, offset and identifiers had room  *)
(* for, and a fault location only with a fault.                            *)
Carried(src) ==
  CASE src.kind = "eof" ->
         LET fault == src.pdu.condition_code # CFDP_COND_NO_ERROR
         IN [src.pdu EXCEPT
               !.file_size = Truncated(@, FileSizeOctets(src.large)),
               !.fault_location_entity_id =
                  IF fault THEN Truncated(@, src.pdu.fault_location_len) ELSE Zeros(8),
               !.fault_location_len = IF fault THEN @ ELSE 0]
    [] src.kind = "metadata" ->
         [src.pdu EXCEPT
            !.file_size = Truncated(@, FileSizeOctets(src.large)),
            !.source_filename = Told(@, src.pdu.source_filename_len),
            !.destination_filename = Told(@, src.pdu.destination_filename_len),
            !.options = Told(@, src.pdu.options_len)]
    [] src.kind = "keep_alive" -> Truncated(src.pdu, FileSizeOctets(src.large))
    [] src.kind = "header" -> HeaderOnWire(src.pdu)
    [] src.kind = "file_data" -> FileDataOnWire(src.pdu, src.large, src.flag)
    [] OTHER -> src.pdu

RoundTrip ==
  \A src \in Sources :
    /\ last.kind = src.kind /\ last.large = src.large /\ last.flag = src.flag
    /\ Encoded(src) # << >> /\ Encoded(src) = last.field
    => last.ret = Len(last.field) /\ out[src.kind] = Carried(src)

-----------------------------------------------------------------------------
(* The strengthening behind the safety properties: the last call returned  *)
(* what it returns for a clear structure, and left the same if it accepted.*)
AsFromClear ==
  LET fresh == Decode(last.kind, last.field, last.large, last.flag, Clear[last.kind])
  IN /\ last.ret = fresh.ret
     /\ last.ret > 0 => out[last.kind] = fresh.pdu

IInv ==
  /\ TypeOK
  /\ last.kind \in DOMAIN Clear \cup {"none"}
  /\ IF last.kind = "none" THEN last.ret = 0 ELSE AsFromClear
=============================================================================
