----------------------------- MODULE CfdpFinished -----------------------------
(***************************************************************************)
(* The Finished PDU of src/cfdp_directive.c.  Its decoder is the one loop  *)
(* of the library over input of unknown structure: a chain of TLVs, each   *)
(* telling where the next one starts.                                      *)
(*                                                                         *)
(* A caller decodes one data field after another into the same             *)
(* cfdp_finished_pdu_t; each iteration of cfdp_finished_parse_tlvs is a    *)
(* step.                                                                   *)
(***************************************************************************)
EXTENDS CfdpDirectives

CONSTANTS
  Fields,   \* data fields that may be received
  Sources,  \* Finished PDUs a peer may have encoded, their responses valid
  MaxCalls  \* bound: data fields decoded

(* A data field comes from a PDU whose header counts it in 16 bits.        *)
ASSUME FieldsAssumption ==
  /\ Fields \subseteq Seq(Octet)
  /\ \A field \in Fields : Len(field) <= SpanModulus
  /\ MaxCalls \in Nat

VARIABLES
  pc,     \* "idle" between calls, "loop" in cfdp_finished_parse_tlvs
  field,  \* the data field being decoded, or decoded last
  pos,    \* octets of it parsed
  fin,    \* the cfdp_finished_pdu_t
  ret,    \* what the last call returned
  calls,  \* calls so far
  walked  \* TLVs taken in this call: [at, end, type] (history)

vars == <<pc, field, pos, fin, ret, calls, walked>>

\* the directive code and the octet of flags before the chain
FixedLen == 2

(* cfdp_finished_pdu_t as decoded: filestore_responses is the position in  *)
(* the data field it points at, 0 for NULL.                                *)
Finished ==
  [condition_code : 0 .. 15, delivery_code : {0, 1}, file_status : 0 .. 3,
   filestore_responses : {0, FixedLen}, filestore_responses_len : Nat,
   fault_location_entity_id : UInt64, fault_location_len : {0} \cup IdLengths]

ClearFinished ==
  [condition_code |-> 0, delivery_code |-> 0, file_status |-> 0,
   filestore_responses |-> 0, filestore_responses_len |-> 0,
   fault_location_entity_id |-> Zeros(8), fault_location_len |-> 0]

FaultLocationRequired(condition_code) ==
  condition_code \notin {CFDP_COND_NO_ERROR, CFDP_COND_UNSUPPORTED_CHECKSUM_TYPE}

(* cfdp_finished_serialize: here filestore_responses is a pointer to       *)
(* encoded responses, copied without a look at them.                       *)
FinishedSerialize(src, bufLen) ==
  LET with_fault == FaultLocationRequired(src.condition_code)
      start == FixedLen + src.filestore_responses_len
      fault == EntityIdTlvSerialize(src.fault_location_entity_id,
                                    src.fault_location_len, bufLen - start)
  IN IF \/ bufLen < FixedLen
        \/ src.filestore_responses = Null /\ src.filestore_responses_len > 0
        \/ with_fault /\ src.fault_location_len = 0
        \/ bufLen < start
        \/ with_fault /\ fault = << >>
     THEN << >>
     ELSE <<CFDP_DIRECTIVE_FINISHED,
            16 * src.condition_code + 4 * src.delivery_code + src.file_status>>
            \o Copied(src.filestore_responses, src.filestore_responses_len)
            \o (IF with_fault THEN fault ELSE << >>)

-----------------------------------------------------------------------------
Init ==
  /\ pc = "idle"
  /\ field = << >>
  /\ pos = 0
  /\ fin = ClearFinished
  /\ ret = 0
  /\ calls = 0
  /\ walked = {}

(* The rest of the data field, where the next TLV is looked for.           *)
Rest == Slice(field, pos, Len(field))

-----------------------------------------------------------------------------
(* Deviations, used only to show that the properties can fail.             *)

\* the fields the chain may not mention are left from the PDU before
CallWithoutReset(f) ==
  /\ pc = "idle"
  /\ calls < MaxCalls
  /\ calls' = calls + 1
  /\ field' = f
  /\ walked' = {}
  /\ IF Len(f) < FixedLen \/ At(f, 0) # CFDP_DIRECTIVE_FINISHED
     THEN /\ ret' = 0
          /\ UNCHANGED <<pc, pos, fin>>
     ELSE /\ pc' = "loop"
          /\ pos' = FixedLen
          /\ fin' = [fin EXCEPT
                       !.condition_code = At(f, 1) \div 16,
                       !.delivery_code = (At(f, 1) \div 4) % 2,
                       !.file_status = At(f, 1) % 4]
          /\ UNCHANGED ret

\* a response is taken after the fault location too
TakeResponseAnywhere ==
  LET end == pos + TlvSize(Rest)
  IN /\ fin' = [fin EXCEPT
                  !.filestore_responses = FixedLen,
                  !.filestore_responses_len = (end - FixedLen) % SpanModulus]
     /\ pos' = end
     /\ walked' = walked \cup
          {[at |-> pos, end |-> end, type |-> CFDP_TLV_FILESTORE_RESPONSE]}
     /\ UNCHANGED <<pc, field, ret, calls>>

\* an octet too many is stepped over
TakeResponsePastEnd ==
  LET end == pos + TlvSize(Rest)
  IN /\ fin.fault_location_len = 0
     /\ fin' = [fin EXCEPT
                  !.filestore_responses = FixedLen,
                  !.filestore_responses_len = (end - FixedLen) % SpanModulus]
     /\ pos' = end + 1
     /\ walked' = walked \cup
          {[at |-> pos, end |-> end, type |-> CFDP_TLV_FILESTORE_RESPONSE]}
     /\ UNCHANGED <<pc, field, ret, calls>>

\* the fault location is taken without stepping over it
TakeFaultLocationInPlace ==
  LET end == pos + TlvSize(Rest)
  IN /\ EntityIdTlvSize(Rest) > 0
     /\ fin' = [fin EXCEPT
                  !.fault_location_entity_id = EntityIdOf(Rest),
                  !.fault_location_len = At(field, pos + 1)]
     /\ walked' = walked \cup
          {[at |-> pos, end |-> end, type |-> CFDP_TLV_ENTITY_ID]}
     /\ UNCHANGED <<pc, field, pos, ret, calls>>
-----------------------------------------------------------------------------

(* cfdp_finished_deserialize, up to the loop.                              *)
Call(f) ==
  /\ pc = "idle"
  /\ calls < MaxCalls
  /\ calls' = calls + 1
  /\ field' = f
  /\ walked' = {}
  /\ IF Len(f) < FixedLen \/ At(f, 0) # CFDP_DIRECTIVE_FINISHED
     THEN /\ ret' = 0
          /\ UNCHANGED <<pc, pos, fin>>
     ELSE /\ pc' = "loop"
          /\ pos' = FixedLen
          /\ fin' = [ClearFinished EXCEPT
                       !.condition_code = At(f, 1) \div 16,
                       !.delivery_code = (At(f, 1) \div 4) % 2,
                       !.file_status = At(f, 1) % 4]
          /\ UNCHANGED ret

Return(value) ==
  /\ pc' = "idle"
  /\ ret' = value
  /\ UNCHANGED <<field, pos, fin, calls, walked>>

(* An iteration that ends the call: no whole TLV is left, or a response    *)
(* follows the fault location, or the entity ID has no legal length, or    *)
(* the TLV is of another type.                                             *)
Reject ==
  /\ pc = "loop"
  /\ pos < Len(field)
  /\ \/ TlvSize(Rest) = 0
     \/ /\ At(field, pos) = CFDP_TLV_FILESTORE_RESPONSE
        /\ fin.fault_location_len > 0
     \/ /\ At(field, pos) = CFDP_TLV_ENTITY_ID
        /\ EntityIdTlvSize(Rest) = 0
     \/ At(field, pos) \notin {CFDP_TLV_FILESTORE_RESPONSE, CFDP_TLV_ENTITY_ID}
  /\ Return(0)

(* The responses span from the first TLV to the end of this one.           *)
TakeResponse ==
  LET end == pos + TlvSize(Rest)
  IN /\ fin.fault_location_len = 0
     /\ fin' = [fin EXCEPT
                  !.filestore_responses = FixedLen,
                  !.filestore_responses_len = (end - FixedLen) % SpanModulus]
     /\ pos' = end
     /\ walked' = walked \cup
          {[at |-> pos, end |-> end, type |-> CFDP_TLV_FILESTORE_RESPONSE]}
     /\ UNCHANGED <<pc, field, ret, calls>>

(* The fault location; a later one replaces it.                            *)
TakeFaultLocation ==
  LET end == pos + TlvSize(Rest)
  IN /\ EntityIdTlvSize(Rest) > 0
     /\ fin' = [fin EXCEPT
                  !.fault_location_entity_id = EntityIdOf(Rest),
                  !.fault_location_len = At(field, pos + 1)]
     /\ pos' = end
     /\ walked' = walked \cup
          {[at |-> pos, end |-> end, type |-> CFDP_TLV_ENTITY_ID]}
     /\ UNCHANGED <<pc, field, ret, calls>>

(* An iteration that takes a TLV.                                          *)
Take ==
  /\ pc = "loop"
  /\ pos < Len(field)
  /\ TlvSize(Rest) > 0
  /\ \/ At(field, pos) = CFDP_TLV_FILESTORE_RESPONSE /\ TakeResponse
     \/ At(field, pos) = CFDP_TLV_ENTITY_ID /\ TakeFaultLocation

(* The loop condition fails.                                               *)
Finish ==
  /\ pc = "loop"
  /\ pos >= Len(field)
  /\ Return(pos)

Iterate == Reject \/ Take \/ Finish

Next == Iterate \/ \E f \in Fields : Call(f)

(* Nothing in the loop waits: a call that has begun runs to its return.    *)
Fairness == WF_vars(Iterate)

Spec == Init /\ [][Next]_vars /\ Fairness

-----------------------------------------------------------------------------
(* Properties                                                              *)

TypeOK ==
  /\ pc \in {"idle", "loop"}
  /\ field \in Seq(Octet)
  /\ pos \in Nat
  /\ fin \in Finished
  /\ ret \in Nat
  /\ calls \in 0 .. MaxCalls
  /\ walked \subseteq
       [at : Nat, end : Nat, type : {CFDP_TLV_FILESTORE_RESPONSE, CFDP_TLV_ENTITY_ID}]

Decoded == pc = "idle" /\ ret > 0

ResponsesEnd == FixedLen + fin.filestore_responses_len

(* Whatever the lengths in the chain say, the decoder never stands beyond  *)
(* the data field it was given, and a PDU it accepts is parsed to its end. *)
InBounds ==
  /\ pc = "loop" => pos <= Len(field)
  /\ Decoded => ret = Len(field)

(* The span the caller is told to walk with the filestore response codec   *)
(* ends between two TLVs, holds every Filestore Response of the chain and  *)
(* no octet of a Fault Location.                                           *)
SpanIsResponses ==
  Decoded =>
    /\ ResponsesEnd \in {FixedLen} \cup {tlv.end : tlv \in walked}
    /\ \A tlv \in walked :
         IF tlv.type = CFDP_TLV_FILESTORE_RESPONSE
         THEN tlv.end <= ResponsesEnd
         ELSE tlv.at >= ResponsesEnd

(* The Fault Location reported is the chain's last TLV, or there is none   *)
(* and nothing of an earlier PDU's is left.                                *)
FaultLocationIsLast ==
  Decoded =>
    IF fin.fault_location_len = 0
    THEN /\ fin.fault_location_entity_id = Zeros(8)
         /\ \A tlv \in walked : tlv.type = CFDP_TLV_FILESTORE_RESPONSE
    ELSE \E tlv \in walked :
           /\ tlv.type = CFDP_TLV_ENTITY_ID
           /\ tlv.end = Len(field)
           /\ tlv.at + CFDP_TLV_HEADER_LEN + fin.fault_location_len = tlv.end
           /\ fin.fault_location_entity_id =
                ReadUint(Slice(field, tlv.at + CFDP_TLV_HEADER_LEN, tlv.end))

(* What a Finished data field is, without a decoder: the octets after the  *)
(* fixed ones are TLVs to the last, responses before fault locations.      *)
StartsTlv(f) ==
  LET boundary[b \in FixedLen .. Len(f)] ==
        \/ b = FixedLen
        \/ \E a \in FixedLen .. b - CFDP_TLV_HEADER_LEN :
             boundary[a] /\ b = a + CFDP_TLV_HEADER_LEN + At(f, a + 1)
  IN {b \in FixedLen .. Len(f) : boundary[b]}

IsFinished(f) ==
  /\ Len(f) >= FixedLen /\ At(f, 0) = CFDP_DIRECTIVE_FINISHED
  /\ Len(f) \in StartsTlv(f)
  /\ \A a \in StartsTlv(f) \ {Len(f)} :
       \/ /\ At(f, a) = CFDP_TLV_FILESTORE_RESPONSE
          /\ \A b \in StartsTlv(f) : b < a => At(f, b) = CFDP_TLV_FILESTORE_RESPONSE
       \/ /\ At(f, a) = CFDP_TLV_ENTITY_ID
          /\ At(f, a + 1) \in IdLengths

(* What a peer encodes: codes that their bits hold, with a pointer to as   *)
(* many octets as it says, and those are Filestore Responses to the last.  *)
AreResponses(octets) ==
  LET f == <<0, 0>> \o octets
  IN /\ Len(f) \in StartsTlv(f)
     /\ \A a \in StartsTlv(f) \ {Len(f)} : At(f, a) = CFDP_TLV_FILESTORE_RESPONSE

Encodable ==
  [condition_code : 0 .. 15, delivery_code : {0, 1}, file_status : 0 .. 3,
   filestore_responses : Pointer, filestore_responses_len : Nat,
   fault_location_entity_id : UInt64, fault_location_len : Octet]

IsSource(src) ==
  /\ src \in Encodable
  /\ PointsTo(src.filestore_responses, src.filestore_responses_len)
  /\ src.filestore_responses # Null =>
       AreResponses(Copied(src.filestore_responses, src.filestore_responses_len))

ASSUME SourcesAssumption == \A src \in Sources : IsSource(src)

(* The decoder accepts exactly the Finished data fields.                   *)
AcceptsFinished ==
  pc = "idle" /\ calls > 0 => (ret > 0 <=> IsFinished(field))

(* A Finished PDU a peer encoded is decoded as what the peer was told,     *)
(* whatever was decoded into the same structure before.                    *)
RoundTrip ==
  pc = "idle" =>
    \A src \in Sources :
      field = FinishedSerialize(src, SpanModulus) /\ field # << >> =>
        /\ ret = Len(field)
        /\ fin.condition_code = src.condition_code
        /\ fin.delivery_code = src.delivery_code
        /\ fin.file_status = src.file_status
        /\ fin.filestore_responses_len = src.filestore_responses_len
        /\ Slice(field, FixedLen, ResponsesEnd)
             = Copied(src.filestore_responses, src.filestore_responses_len)
        /\ IF FaultLocationRequired(src.condition_code)
           THEN /\ fin.fault_location_len = src.fault_location_len
                /\ fin.fault_location_entity_id =
                     Truncated(src.fault_location_entity_id, src.fault_location_len)
           ELSE fin.fault_location_len = 0

(* Every iteration that does not return moves on by a TLV header at least: *)
(* no chain, however malformed, keeps the decoder where it is.             *)
Advances ==
  [][pc = "loop" /\ pc' = "loop" => pos' >= pos + CFDP_TLV_HEADER_LEN]_vars

(* A decoder that is handed any octets at all comes back.                  *)
Terminates == pc = "loop" ~> pc = "idle"

-----------------------------------------------------------------------------
(* The strengthening behind the safety properties: what the TLVs taken so  *)
(* far have in common at every turn of the loop.                           *)
Walk ==
  /\ FixedLen <= pos /\ pos <= Len(field)
  /\ ResponsesEnd <= pos
  /\ ResponsesEnd \in {FixedLen} \cup {tlv.end : tlv \in walked}
  /\ \A tlv \in walked :
       IF tlv.type = CFDP_TLV_FILESTORE_RESPONSE
       THEN tlv.end <= ResponsesEnd
       ELSE tlv.at >= ResponsesEnd
  /\ IF fin.fault_location_len = 0
     THEN /\ ResponsesEnd = pos
          /\ fin.fault_location_entity_id = Zeros(8)
          /\ \A tlv \in walked : tlv.type = CFDP_TLV_FILESTORE_RESPONSE
     ELSE \E tlv \in walked :
            /\ tlv.type = CFDP_TLV_ENTITY_ID
            /\ tlv.end = pos
            /\ tlv.at + CFDP_TLV_HEADER_LEN + fin.fault_location_len = tlv.end
            /\ fin.fault_location_entity_id =
                 ReadUint(Slice(field, tlv.at + CFDP_TLV_HEADER_LEN, tlv.end))

WalkInv ==
  /\ TypeOK
  /\ Len(field) <= SpanModulus
  /\ pc = "loop" => Walk
  /\ Decoded => Walk /\ ret = pos /\ pos = Len(field)

(* What ties the walk to the octets: the TLVs taken so far are those of    *)
(* the chain up to here, none left out, and each is what its octets say;   *)
(* the fixed fields are those of the data field.                           *)
Trail ==
  /\ pos \in StartsTlv(field)
  /\ {b \in StartsTlv(field) : b < pos} = {tlv.at : tlv \in walked}
  /\ \A tlv \in walked :
       /\ tlv.type = At(field, tlv.at)
       /\ tlv.end = tlv.at + CFDP_TLV_HEADER_LEN + At(field, tlv.at + 1)
       /\ tlv.type = CFDP_TLV_ENTITY_ID => At(field, tlv.at + 1) \in IdLengths
  /\ At(field, 0) = CFDP_DIRECTIVE_FINISHED
  /\ fin.condition_code = At(field, 1) \div 16
  /\ fin.delivery_code = (At(field, 1) \div 4) % 2
  /\ fin.file_status = At(field, 1) % 4

IInv ==
  /\ WalkInv
  /\ pc = "loop" \/ Decoded => Trail
  /\ AcceptsFinished
  /\ calls = 0 => pc = "idle" /\ field = << >>
=============================================================================
