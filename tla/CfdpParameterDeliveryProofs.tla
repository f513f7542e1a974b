---------------------- MODULE CfdpParameterDeliveryProofs ----------------------
(***************************************************************************)
(* TLAPS proofs about CfdpFinished and CfdpParameterDelivery.              *)
(*                                                                         *)
(* CfdpFinished, for every set of data fields that a 16-bit length can     *)
(* count and every set of descriptions whose responses buffer holds whole  *)
(* responses.  First what the walk keeps to, in the octets it has passed;  *)
(* then what its answer says about the whole field, for which the places   *)
(* that start a TLV are characterised without the walk (IsChain); last,    *)
(* that an encoding is decoded as what was encoded.                        *)
(*                                                                         *)
(* CfdpParameterDelivery, for all parameters a user may attach, all other  *)
(* fields of the Finished PDU and every size of the buffer: each kind of   *)
(* parameter is decoded as it was encoded, whatever stands behind it; the  *)
(* octets of several lead from one to the next, alone and inside a         *)
(* Finished PDU; from these the invariant of the walk, that it delivers    *)
(* all it was sent, and the refinement of CfdpParameterService.            *)
(***************************************************************************)
EXTENDS CfdpParameterDelivery, CfdpLemmas

-----------------------------------------------------------------------------
(* What the first TLV of the rest of the data field occupies.              *)

LEMMA NextTlv ==
  ASSUME field \in Seq(Octet), pos \in Nat, pos < Len(field), TlvSize(Rest) > 0
  PROVE  LET end == pos + TlvSize(Rest)
         IN /\ end \in Nat
            /\ end >= pos + CFDP_TLV_HEADER_LEN
            /\ end <= Len(field)
            /\ end = pos + CFDP_TLV_HEADER_LEN + At(field, pos + 1)
<1>1. Rest \in Seq(Octet) /\ Len(Rest) = Len(field) - pos
  BY RestProperties DEF Rest
<1>2. /\ TlvSize(Rest) \in Nat
      /\ TlvSize(Rest) >= CFDP_TLV_HEADER_LEN
      /\ TlvSize(Rest) <= Len(Rest)
      /\ TlvSize(Rest) = At(Rest, 1) + CFDP_TLV_HEADER_LEN
  BY <1>1, TlvSizeBound
<1>3. At(Rest, 1) = At(field, pos + 1)
  <2>1. 1 \in 0 .. Len(field) - pos - 1
    <3> HIDE DEF Rest
    <3> QED BY <1>1, <1>2 DEF CFDP_TLV_HEADER_LEN
  <2> QED BY <2>1, RestProperties DEF Rest
<1>4. At(Rest, 1) \in Nat
  <2>1. 1 \in 0 .. Len(field) - pos - 1
    <3> HIDE DEF Rest
    <3> QED BY <1>1, <1>2 DEF CFDP_TLV_HEADER_LEN
  <2>2. At(Rest, 1) \in Octet
    BY <2>1, RestProperties DEF Rest
  <2> QED BY <2>2, OctetIsNat
<1> QED BY <1>1, <1>2, <1>3, <1>4, SMTT(40) DEF CFDP_TLV_HEADER_LEN

-----------------------------------------------------------------------------
(* The inductive invariant.                                                *)

(* Before the first call.                                                  *)
LEMMA InitInvariant ==
  Init => WalkInv
<1> SUFFICES ASSUME Init PROVE WalkInv
  OBVIOUS
<1>1. Zeros(8) \in UInt64
  BY DEF Zeros, UInt64, Octet
<1>2. fin \in Finished
  BY <1>1 DEF Init, ClearFinished, Finished
<1>3. TypeOK
  BY <1>2, FieldsAssumption DEF Init, TypeOK
<1>4. Len(field) <= SpanModulus
  BY SpanAssumption DEF Init
<1> QED BY <1>3, <1>4 DEF Init, WalkInv, Decoded

(* A call that enters the loop has taken no TLV and has nothing of an      *)
(* earlier PDU's.                                                          *)
LEMMA CallInvariant ==
  ASSUME WalkInv, NEW f \in Seq(Octet), Len(f) <= SpanModulus, Call(f)
  PROVE  WalkInv'
<1>1. /\ f \in Seq(Octet) /\ Len(f) <= SpanModulus /\ Len(f) \in Nat
      /\ field' = f
      /\ walked' = {}
      /\ calls' \in 0 .. MaxCalls
  BY FieldsAssumption DEF WalkInv, TypeOK, Call
<1>2. CASE Len(f) < FixedLen \/ At(f, 0) # CFDP_DIRECTIVE_FINISHED
  <2>1. /\ pc' = "idle" /\ ret' = 0
        /\ pos' \in Nat /\ fin' \in Finished
    BY <1>2 DEF WalkInv, TypeOK, Call
  <2> QED BY <1>1, <2>1 DEF WalkInv, TypeOK, Decoded
<1>3. CASE ~ (Len(f) < FixedLen \/ At(f, 0) # CFDP_DIRECTIVE_FINISHED)
  <2>1. /\ pc' = "loop" /\ pos' = FixedLen /\ ret' \in Nat
        /\ fin' = [ClearFinished EXCEPT
                     !.condition_code = At(f, 1) \div 16,
                     !.delivery_code = (At(f, 1) \div 4) % 2,
                     !.file_status = At(f, 1) % 4]
    BY <1>3 DEF WalkInv, TypeOK, Call
  <2>2. At(f, 1) \in Octet
    BY <1>1, <1>3, AtType DEF FixedLen
  <2>3. /\ At(f, 1) \div 16 \in 0 .. 15
        /\ (At(f, 1) \div 4) % 2 \in {0, 1}
        /\ At(f, 1) % 4 \in 0 .. 3
    <3> DEFINE flags == At(f, 1)
    <3>1. flags \in 0 .. 255
      BY <2>2 DEF Octet
    <3> HIDE DEF flags
    <3>2. flags \div 16 \in 0 .. 15 /\ (flags \div 4) % 2 \in {0, 1} /\ flags % 4 \in 0 .. 3
      BY <3>1
    <3> QED BY <3>2 DEF flags
  <2>4. Zeros(8) \in UInt64
    BY DEF Zeros, UInt64, Octet
  <2>5. /\ fin' \in Finished
        /\ fin'.fault_location_len = 0
        /\ fin'.fault_location_entity_id = Zeros(8)
        /\ fin'.filestore_responses_len = 0
    BY <2>1, <2>3, <2>4 DEF ClearFinished, Finished
  <2>6. TypeOK'
    BY <1>1, <2>1, <2>5 DEF TypeOK, FixedLen
  <2>7. FixedLen <= pos' /\ pos' <= Len(field')
    BY <1>1, <1>3, <2>1 DEF FixedLen
  <2>8. ResponsesEnd' = FixedLen
    BY <2>5 DEF ResponsesEnd, FixedLen
  <2>9. Walk'
    BY <1>1, <2>1, <2>5, <2>7, <2>8 DEF Walk, FixedLen
  <2> QED BY <1>1, <2>1, <2>6, <2>9 DEF WalkInv, Decoded
<1> QED BY <1>2, <1>3

(* A response extends the span the caller is told to walk.                 *)
LEMMA TakeResponseInvariant ==
  ASSUME WalkInv, Take, At(field, pos) = CFDP_TLV_FILESTORE_RESPONSE, TakeResponse
  PROVE  WalkInv'
<1> DEFINE end == pos + TlvSize(Rest)
           tlv_taken == [at |-> pos, end |-> end, type |-> CFDP_TLV_FILESTORE_RESPONSE]
<1>1. /\ TypeOK /\ Walk /\ pc = "loop"
      /\ Len(field) <= SpanModulus
      /\ Len(field) \in Nat
      /\ fin.fault_location_len = 0
  BY DEF WalkInv, TypeOK, Take, TakeResponse
<1>2. end \in Nat /\ end > pos /\ end <= Len(field)
  BY <1>1, NextTlv DEF Take, TypeOK, CFDP_TLV_HEADER_LEN
<1>3. /\ pc' = "loop" /\ field' = field /\ ret' = ret /\ calls' = calls
      /\ pos' = end
      /\ walked' = walked \cup {tlv_taken}
      /\ fin' = [fin EXCEPT
                   !.filestore_responses = FixedLen,
                   !.filestore_responses_len = (end - FixedLen) % SpanModulus]
  BY <1>1 DEF TakeResponse
<1> HIDE DEF end
<1>4. (end - FixedLen) % SpanModulus = end - FixedLen /\ end - FixedLen \in Nat
  <2>1. SpanModulus \in Nat /\ FixedLen = 2 /\ FixedLen <= pos /\ pos \in Nat
    BY <1>1, SpanAssumption DEF FixedLen, Walk, TypeOK
  <2>2. end - FixedLen \in Nat /\ end - FixedLen < SpanModulus
    BY <1>1, <1>2, <2>1
  <2> QED BY <2>1, <2>2
<1>5. /\ fin' \in Finished
      /\ fin'.filestore_responses_len = end - FixedLen
      /\ fin'.fault_location_len = fin.fault_location_len
      /\ fin'.fault_location_entity_id = fin.fault_location_entity_id
  BY <1>1, <1>3, <1>4 DEF TypeOK, Finished
<1>6. TypeOK'
  BY <1>1, <1>2, <1>3, <1>5 DEF TypeOK
<1>7. ResponsesEnd' = end
  BY <1>2, <1>5 DEF ResponsesEnd, FixedLen
<1>8. \A tlv \in walked' : tlv.type = CFDP_TLV_FILESTORE_RESPONSE /\ tlv.end <= end
  <2>1. \A tlv \in walked : tlv.type = CFDP_TLV_FILESTORE_RESPONSE
    BY <1>1 DEF Walk
  <2>2. \A tlv \in walked : tlv.end <= ResponsesEnd
    BY <1>1, <2>1 DEF Walk
  <2>3. ResponsesEnd = pos /\ pos \in Nat
    BY <1>1 DEF Walk, TypeOK
  <2>4. \A tlv \in walked : tlv.end \in Nat
    BY <1>1 DEF TypeOK
  <2> QED BY <1>2, <1>3, <2>1, <2>2, <2>3, <2>4
<1>9. ResponsesEnd' \in {FixedLen} \cup {tlv.end : tlv \in walked'}
  <2>1. tlv_taken \in walked' /\ tlv_taken.end = end
    BY <1>3
  <2> HIDE DEF tlv_taken
  <2> QED BY <1>7, <2>1
<1>10. FixedLen <= pos' /\ pos' <= Len(field')
  BY <1>1, <1>2, <1>3 DEF Walk, TypeOK, FixedLen
<1>11. Walk'
  BY <1>1, <1>2, <1>3, <1>5, <1>7, <1>8, <1>9, <1>10 DEF Walk
<1> QED BY <1>1, <1>3, <1>6, <1>11 DEF WalkInv, Decoded

(* A fault location is the last TLV so far, and is reported as it stands.  *)
LEMMA TakeFaultLocationInvariant ==
  ASSUME WalkInv, Take, At(field, pos) = CFDP_TLV_ENTITY_ID, TakeFaultLocation
  PROVE  WalkInv'
<1> DEFINE end == pos + TlvSize(Rest)
           tlv_taken == [at |-> pos, end |-> end, type |-> CFDP_TLV_ENTITY_ID]
           id == ReadUint(Slice(field, pos + CFDP_TLV_HEADER_LEN, end))
           len == At(field, pos + 1)
<1>1. /\ TypeOK /\ Walk /\ pc = "loop"
      /\ Len(field) <= SpanModulus
      /\ field \in Seq(Octet) /\ Len(field) \in Nat /\ pos \in Nat
      /\ pos < Len(field) /\ TlvSize(Rest) > 0
  BY DEF WalkInv, TypeOK, Take
<1>2. /\ end \in Nat /\ end > pos /\ end <= Len(field)
      /\ end = pos + CFDP_TLV_HEADER_LEN + len
  BY <1>1, NextTlv DEF CFDP_TLV_HEADER_LEN
<1>3. /\ Rest \in Seq(Octet) /\ Len(Rest) = Len(field) - pos
      /\ TlvSize(Rest) <= Len(Rest) /\ TlvSize(Rest) >= CFDP_TLV_HEADER_LEN
      /\ TlvSize(Rest) \in Nat
      /\ At(Rest, 1) = len
  <2>1. Rest \in Seq(Octet) /\ Len(Rest) = Len(field) - pos
    BY <1>1, RestProperties DEF Rest
  <2>2. /\ TlvSize(Rest) \in Nat
        /\ TlvSize(Rest) <= Len(Rest)
        /\ TlvSize(Rest) >= CFDP_TLV_HEADER_LEN
    BY <1>1, <2>1, TlvSizeBound
  <2>3. 1 \in 0 .. Len(field) - pos - 1
    <3> HIDE DEF Rest
    <3> QED BY <1>1, <2>1, <2>2 DEF CFDP_TLV_HEADER_LEN
  <2>4. At(Rest, 1) = len
    BY <1>1, <2>3, RestProperties DEF Rest
  <2> QED BY <2>1, <2>2, <2>4
<1>4. EntityIdTlvSize(Rest) = TlvSize(Rest) /\ len \in IdLengths
  BY <1>1, <1>3 DEF TakeFaultLocation, EntityIdTlvSize
<1>5. EntityIdOf(Rest) = id /\ id \in UInt64
  <2> DEFINE a == CFDP_TLV_HEADER_LEN
             b == TlvSize(Rest)
  <2>1. a \in Nat /\ b \in Nat /\ a <= b /\ b <= Len(field) - pos
    BY <1>3 DEF CFDP_TLV_HEADER_LEN
  <2> HIDE DEF a, b
  <2>2. /\ Slice(Rest, a, b) = Slice(field, pos + a, pos + b)
        /\ Slice(field, pos + a, pos + b) \in Seq(Octet)
        /\ Len(Slice(field, pos + a, pos + b)) = b - a
    <3>1. /\ Slice(Slice(field, pos, Len(field)), a, b) = Slice(field, pos + a, pos + b)
          /\ Slice(field, pos + a, pos + b) \in Seq(Octet)
          /\ Len(Slice(field, pos + a, pos + b)) = b - a
      <4>1. field \in Seq(Octet) /\ pos \in Nat /\ pos < Len(field)
        BY <1>1
      <4> QED BY <2>1, <4>1, SliceOfRest, ZenonT(30)
    <3> QED BY <3>1 DEF Rest
  <2>3. b - a = len /\ len \in 1 .. 8
    <3>1. len \in 1 .. 8
      BY <1>4 DEF IdLengths, CFDP_ID_LEN_MIN, CFDP_ID_LEN_MAX
    <3>2. pos + b = pos + 2 + len
      BY <1>2 DEF b, CFDP_TLV_HEADER_LEN
    <3> HIDE DEF len
    <3> QED BY <1>1, <2>1, <3>1, <3>2 DEF a, CFDP_TLV_HEADER_LEN
  <2>4. Len(Slice(field, pos + a, pos + b)) <= 8
    BY <2>2, <2>3
  <2>5. ReadUint(Slice(field, pos + a, pos + b)) \in UInt64
    BY <2>2, <2>4, ReadUintType
  <2> QED BY <1>4, <2>2, <2>5 DEF EntityIdOf, a, b
<1>6. /\ pc' = "loop" /\ field' = field /\ ret' = ret /\ calls' = calls
      /\ pos' = end
      /\ walked' = walked \cup {tlv_taken}
      /\ fin' = [fin EXCEPT !.fault_location_entity_id = id,
                            !.fault_location_len = len]
  BY <1>1, <1>5 DEF TakeFaultLocation
<1> HIDE DEF end, id, len
<1>7. /\ fin' \in Finished
      /\ fin'.filestore_responses_len = fin.filestore_responses_len
      /\ fin'.fault_location_len = len
      /\ fin'.fault_location_entity_id = id
  BY <1>1, <1>4, <1>5, <1>6 DEF TypeOK, Finished
<1>8. TypeOK'
  BY <1>1, <1>2, <1>6, <1>7 DEF TypeOK
<1>9. ResponsesEnd' = ResponsesEnd /\ ResponsesEnd \in Nat
  BY <1>1, <1>7 DEF ResponsesEnd, TypeOK, Finished, FixedLen
<1>10. /\ tlv_taken \in walked'
       /\ tlv_taken.at = pos /\ tlv_taken.end = pos' /\ tlv_taken.type = CFDP_TLV_ENTITY_ID
  BY <1>6
<1>11. ResponsesEnd' <= pos' /\ FixedLen <= pos' /\ pos' <= Len(field')
  BY <1>1, <1>2, <1>6, <1>9 DEF Walk, FixedLen
<1>12. \A tlv \in walked' :
         IF tlv.type = CFDP_TLV_FILESTORE_RESPONSE
         THEN tlv.end <= ResponsesEnd'
         ELSE tlv.at >= ResponsesEnd'
  BY <1>1, <1>6, <1>9, <1>10
     DEF Walk, CFDP_TLV_FILESTORE_RESPONSE, CFDP_TLV_ENTITY_ID
<1>13. ResponsesEnd' \in {FixedLen} \cup {tlv.end : tlv \in walked'}
  BY <1>1, <1>6, <1>9 DEF Walk
<1>14. fin'.fault_location_len # 0
  BY <1>4, <1>7 DEF IdLengths, CFDP_ID_LEN_MIN, CFDP_ID_LEN_MAX
<1>15. /\ tlv_taken.at + CFDP_TLV_HEADER_LEN + fin'.fault_location_len = tlv_taken.end
       /\ fin'.fault_location_entity_id
            = ReadUint(Slice(field', tlv_taken.at + CFDP_TLV_HEADER_LEN, tlv_taken.end))
  BY <1>2, <1>6, <1>7, <1>10 DEF id
<1> HIDE DEF tlv_taken
<1>16. Walk'
  BY <1>6, <1>10, <1>11, <1>12, <1>13, <1>14, <1>15 DEF Walk
<1> QED BY <1>1, <1>6, <1>8, <1>16 DEF WalkInv, Decoded

(* An iteration that returns leaves the walk as it is; at the end of the   *)
(* loop it has reached the end of the data field.                          *)
LEMMA ReturnInvariant ==
  ASSUME WalkInv, Reject \/ Finish
  PROVE  WalkInv'
<1>1. /\ pc = "loop" /\ pc' = "idle"
      /\ UNCHANGED <<field, pos, fin, calls, walked>>
  BY DEF Reject, Finish, Return
<1>2. /\ TypeOK /\ Walk /\ Len(field) <= SpanModulus
      /\ pos \in Nat /\ Len(field) \in Nat
  BY <1>1 DEF WalkInv, TypeOK
<1>3. Walk'
  BY <1>1, <1>2 DEF Walk, ResponsesEnd
<1>4. CASE Reject
  <2>1. ret' = 0
    BY <1>4 DEF Reject, Return
  <2> QED BY <1>1, <1>2, <2>1 DEF WalkInv, TypeOK, Decoded
<1>5. CASE Finish
  <2>1. ret' = pos /\ pos = Len(field)
    BY <1>2, <1>5 DEF Finish, Return, Walk
  <2>2. TypeOK'
    BY <1>1, <1>2, <2>1 DEF TypeOK
  <2> QED BY <1>1, <1>2, <1>3, <2>1, <2>2 DEF WalkInv, Decoded
<1> QED BY <1>4, <1>5

(* A step that changes nothing.                                            *)
LEMMA StutterInvariant ==
  ASSUME WalkInv, UNCHANGED vars
  PROVE  WalkInv'
BY DEF WalkInv, TypeOK, Decoded, Walk, ResponsesEnd, vars

(* An iteration of the loop.                                               *)
LEMMA IterateInvariant ==
  ASSUME WalkInv, Iterate
  PROVE  WalkInv'
<1>1. CASE Reject \/ Finish
  BY <1>1, ReturnInvariant
<1>2. CASE Take
  <2>1. CASE At(field, pos) = CFDP_TLV_FILESTORE_RESPONSE /\ TakeResponse
    BY <1>2, <2>1, TakeResponseInvariant
  <2>2. CASE At(field, pos) = CFDP_TLV_ENTITY_ID /\ TakeFaultLocation
    BY <1>2, <2>2, TakeFaultLocationInvariant
  <2> QED BY <1>2, <2>1, <2>2 DEF Take
<1> QED BY <1>1, <1>2 DEF Iterate

(* What holds at every turn of the loop, for every set of data fields a    *)
(* 16-bit length can count: type correctness, and the walk over the chain. *)
THEOREM WalkHolds == Spec => []WalkInv
<1>1. Init => WalkInv
  BY InitInvariant
<1>2. WalkInv /\ [Next]_vars => WalkInv'
  <2> SUFFICES ASSUME WalkInv, [Next]_vars PROVE WalkInv'
    OBVIOUS
  <2>1. CASE Iterate
    BY <2>1, IterateInvariant
  <2>2. ASSUME NEW f \in Fields, Call(f) PROVE WalkInv'
    BY <2>2, FieldsAssumption, CallInvariant
  <2>3. CASE UNCHANGED vars
    BY <2>3, StutterInvariant
  <2> QED BY <2>1, <2>2, <2>3 DEF Next
<1> QED BY <1>1, <1>2, PTL DEF Spec

(* Every variable keeps its type; in particular the decoded structure is   *)
(* one its C type can hold.                                                *)
THEOREM TypeCorrect == Spec => []TypeOK
<1>1. WalkInv => TypeOK
  BY DEF WalkInv
<1> QED BY <1>1, WalkHolds, PTL

(* The decoder never stands beyond the data field, and parses a PDU it     *)
(* accepts to its end.                                                     *)
THEOREM StaysInBounds == Spec => []InBounds
<1>1. WalkInv => InBounds
  BY DEF WalkInv, InBounds, Walk
<1> QED BY <1>1, WalkHolds, PTL

(* The span reported holds the Filestore Responses of the chain, all of    *)
(* them and nothing else.                                                  *)
THEOREM SpansResponses == Spec => []SpanIsResponses
<1>1. WalkInv => SpanIsResponses
  BY DEF WalkInv, SpanIsResponses, Walk
<1> QED BY <1>1, WalkHolds, PTL

(* The Fault Location reported is the chain's last TLV, or there is none   *)
(* and nothing of an earlier PDU's is left.                                *)
THEOREM ReportsLastFaultLocation == Spec => []FaultLocationIsLast
<1>1. WalkInv => FaultLocationIsLast
  <2> SUFFICES ASSUME WalkInv, Decoded PROVE FaultLocationIsLast
    BY DEF FaultLocationIsLast
  <2>1. Walk /\ pos = Len(field)
    BY DEF WalkInv
  <2> QED BY <2>1 DEF Walk, FaultLocationIsLast
<1> QED BY <1>1, WalkHolds, PTL

(* Every iteration that does not return moves on by a TLV header at least. *)
THEOREM AlwaysAdvances == Spec => Advances
<1>1. WalkInv /\ [Next]_vars =>
        [pc = "loop" /\ pc' = "loop" => pos' >= pos + CFDP_TLV_HEADER_LEN]_vars
  <2> SUFFICES ASSUME WalkInv, Next, pc = "loop", pc' = "loop"
               PROVE  pos' >= pos + CFDP_TLV_HEADER_LEN
    OBVIOUS
  <2>1. Take
    BY DEF Next, Iterate, Call, Reject, Finish, Return
  <2>2. field \in Seq(Octet) /\ pos \in Nat /\ pos < Len(field) /\ TlvSize(Rest) > 0
    BY <2>1 DEF WalkInv, TypeOK, Take
  <2>3. pos' = pos + TlvSize(Rest)
    BY <2>1 DEF Take, TakeResponse, TakeFaultLocation
  <2> QED BY <2>2, <2>3, NextTlv
<1> QED BY <1>1, WalkHolds, PTL DEF Spec, Advances

-----------------------------------------------------------------------------
(* What a chain of TLVs is.                                                *)

(* Where the TLV at a ends.                                                *)
EndOf(f, a) == a + CFDP_TLV_HEADER_LEN + At(f, a + 1)

(* S holds the places from the first TLV on that the lengths lead to.      *)
IsChain(f, S) ==
  /\ S \subseteq FixedLen .. Len(f) /\ FixedLen \in S
  /\ \A b \in FixedLen .. Len(f) :
       b \in S <=> \/ b = FixedLen
                   \/ \E a \in S : a + CFDP_TLV_HEADER_LEN <= b /\ b = EndOf(f, a)

(* The same of the places up to b, with a set that is still growing.       *)
IsChainUpTo(f, S, m) ==
  /\ S \subseteq FixedLen .. m /\ FixedLen \in S
  /\ \A b \in FixedLen .. m :
       b \in S <=> \/ b = FixedLen
                   \/ \E a \in S : a + CFDP_TLV_HEADER_LEN <= b /\ b = EndOf(f, a)

(* One place further.                                                      *)
Onward(f, S, b) ==
  S \cup {c \in {b} : \E a \in S : a + CFDP_TLV_HEADER_LEN <= b /\ b = EndOf(f, a)}

(* The chain up to b + 1 continues the chain up to b.                      *)
LEMMA OnwardIsChain ==
  ASSUME NEW f, NEW m \in Nat, FixedLen <= m, NEW S, IsChainUpTo(f, S, m)
  PROVE  IsChainUpTo(f, Onward(f, S, m + 1), m + 1)
<1> DEFINE Leads(a, b) == a + CFDP_TLV_HEADER_LEN <= b /\ b = EndOf(f, a)
           T == Onward(f, S, m + 1)
<1>1. /\ S \subseteq FixedLen .. m /\ FixedLen \in S
      /\ \A b \in FixedLen .. m : b \in S <=> b = FixedLen \/ \E a \in S : Leads(a, b)
  BY DEF IsChainUpTo
<1>2. T = S \cup {c \in {m + 1} : \E a \in S : Leads(a, m + 1)}
  BY DEF Onward
<1>3. \A a, b : Leads(a, b) => a + 2 <= b
  BY DEF CFDP_TLV_HEADER_LEN
<1>4. FixedLen = 2
  BY DEF FixedLen
<1> HIDE DEF T, Leads
<1>5. T \subseteq FixedLen .. m + 1 /\ FixedLen \in T
  <2>1. T \subseteq S \cup {m + 1} /\ S \subseteq T
    BY <1>2
  <2>2. m + 1 \in FixedLen .. m + 1 /\ FixedLen .. m \subseteq FixedLen .. m + 1
    BY <1>4
  <2> QED BY <1>1, <2>1, <2>2
<1>6. ASSUME NEW b \in FixedLen .. m + 1
      PROVE  b \in T <=> b = FixedLen \/ \E a \in T : Leads(a, b)
  <2>1. ASSUME NEW a \in T, Leads(a, b) PROVE a \in S
    <3>1. a \in Int /\ a # m + 1
      BY <1>3, <1>4, <1>5, <1>6, <2>1
    <3> QED BY <1>2, <2>1, <3>1
  <2>2. S \subseteq T
    BY <1>2
  <2>3. (\E a \in T : Leads(a, b)) <=> (\E a \in S : Leads(a, b))
    BY <2>1, <2>2
  <2>4. CASE b = m + 1
    <3>1. b \notin S /\ b # FixedLen
      BY <1>1, <1>4, <2>4
    <3> QED BY <1>2, <2>3, <2>4, <3>1
  <2>5. CASE b # m + 1
    <3>1. b \in FixedLen .. m
      BY <1>4, <2>5
    <3>2. b \in T <=> b \in S
      BY <1>2, <2>5
    <3> QED BY <1>1, <2>3, <3>1, <3>2
  <2> QED BY <2>4, <2>5
<1>7. IsChainUpTo(f, T, m + 1)
  BY <1>5, <1>6 DEF IsChainUpTo, Leads
<1> QED BY <1>7 DEF T

(* There is such a set for every data field.                               *)
LEMMA ChainExists ==
  ASSUME NEW f \in Seq(Octet), Len(f) >= FixedLen
  PROVE  \E S : IsChain(f, S)
<1> DEFINE n == Len(f) - FixedLen
           Sets == SUBSET Nat
           base == {FixedLen}
           step == [x \in Sets \X (1 .. n) |-> Onward(f, x[1], FixedLen + x[2])]
<1>1. n \in Nat /\ FixedLen = 2
  <2>1. Len(f) \in Nat
    BY LenProperties
  <2> QED BY <2>1 DEF FixedLen
<1>2. base \in Sets
  BY <1>1
<1>3. step \in [Sets \X (1 .. n) -> Sets]
  <2> HIDE DEF n
  <2>1. ASSUME NEW S \in Sets, NEW i \in 1 .. n PROVE Onward(f, S, FixedLen + i) \in Sets
    <3>1. FixedLen + i \in Nat
      BY <1>1
    <3>2. Onward(f, S, FixedLen + i) \subseteq S \cup {FixedLen + i}
      BY DEF Onward
    <3> QED BY <3>1, <3>2
  <2> QED BY <2>1
<1> HIDE DEF n, base, step, Sets
<1>4. PICK h \in [0 .. n -> Sets] : Accumulates(n, base, step, h)
  BY ONLY <1>1, <1>2, <1>3, Recursion
<1> DEFINE T == {k \in 0 .. n : IsChainUpTo(f, h[k], FixedLen + k)}
<1>5. 0 \in T
  <2>1. h[0] = {FixedLen} /\ FixedLen + 0 = FixedLen /\ 0 \in 0 .. n
    BY <1>1, <1>4 DEF Accumulates, base
  <2>2. IsChainUpTo(f, {FixedLen}, FixedLen)
    BY <1>1 DEF IsChainUpTo
  <2> QED BY <2>1, <2>2
<1>6. ASSUME NEW k \in 0 .. n, k \in T, k < n PROVE k + 1 \in T
  <2>1. k + 1 \in 1 .. n /\ (k + 1) - 1 = k /\ k + 1 \in 0 .. n
        /\ (FixedLen + k) + 1 = FixedLen + (k + 1) /\ FixedLen + k \in Nat
        /\ FixedLen <= FixedLen + k
    BY <1>1, <1>6
  <2>2. h[k] \in Sets /\ h[k + 1] = step[<<h[k], k + 1>>]
    BY <1>4, <2>1 DEF Accumulates
  <2>3. h[k + 1] = Onward(f, h[k], (FixedLen + k) + 1)
    BY <2>1, <2>2 DEF step
  <2>4. IsChainUpTo(f, h[k], FixedLen + k)
    BY <1>6
  <2>5. IsChainUpTo(f, Onward(f, h[k], (FixedLen + k) + 1), (FixedLen + k) + 1)
    BY <2>1, <2>4, OnwardIsChain
  <2> QED BY <2>1, <2>3, <2>5
<1>7. 0 .. n \subseteq T
  <2> HIDE DEF T
  <2> QED BY <1>1, <1>5, <1>6, BoundedInduction
<1>8. n \in 0 .. n /\ FixedLen + n = Len(f)
  <2>1. Len(f) \in Nat
    BY LenProperties
  <2> QED BY <1>1, <2>1 DEF n
<1>9. IsChainUpTo(f, h[n], Len(f))
  BY <1>7, <1>8
<1> QED BY <1>9 DEF IsChainUpTo, IsChain

(* What StartsTlv defines is that set.                                     *)
LEMMA StartsTlvIs ==
  ASSUME NEW f \in Seq(Octet), Len(f) >= FixedLen
  PROVE  IsChain(f, StartsTlv(f))
<1> DEFINE Leads(a, b) == a + CFDP_TLV_HEADER_LEN <= b /\ b = EndOf(f, a)
           to == Len(f)
           Turn(g) == [b \in FixedLen .. to |->
                         \/ b = FixedLen
                         \/ \E a \in FixedLen .. b - CFDP_TLV_HEADER_LEN :
                              g[a] /\ b = a + CFDP_TLV_HEADER_LEN + At(f, a + 1)]
           boundary == CHOOSE g : g = Turn(g)
<1>1. StartsTlv(f) = {b \in FixedLen .. to : boundary[b]}
  BY DEF StartsTlv
<1>2. PICK S : IsChain(f, S)
  BY ChainExists
<1>3. /\ S \subseteq FixedLen .. to /\ FixedLen \in S
      /\ \A b \in FixedLen .. to : b \in S <=> b = FixedLen \/ \E a \in S : Leads(a, b)
  BY <1>2 DEF IsChain
<1>4. FixedLen = 2 /\ CFDP_TLV_HEADER_LEN = 2 /\ to \in Nat
  BY LenProperties DEF FixedLen, CFDP_TLV_HEADER_LEN
<1> DEFINE g == [b \in FixedLen .. to |-> b \in S]
           At_(b) == \/ b = FixedLen
                     \/ \E a \in FixedLen .. b - CFDP_TLV_HEADER_LEN :
                          g[a] /\ b = a + CFDP_TLV_HEADER_LEN + At(f, a + 1)
<1>5. g = Turn(g)
  <2>1. ASSUME NEW b \in FixedLen .. to PROVE (b \in S) = At_(b)
    <3>1. ASSUME NEW a \in FixedLen .. b - CFDP_TLV_HEADER_LEN
          PROVE  g[a] <=> a \in S
      <4>1. a \in FixedLen .. to
        BY <1>4
      <4> QED BY <4>1
    <3>2. (\E a \in S : Leads(a, b))
            <=> \E a \in FixedLen .. b - CFDP_TLV_HEADER_LEN :
                  g[a] /\ b = a + CFDP_TLV_HEADER_LEN + At(f, a + 1)
      <4>1. ASSUME NEW a \in S, Leads(a, b)
            PROVE  a \in FixedLen .. b - CFDP_TLV_HEADER_LEN
        BY <1>3, <1>4, <4>1
      <4>2. ASSUME NEW a \in FixedLen .. b - CFDP_TLV_HEADER_LEN,
                   b = a + CFDP_TLV_HEADER_LEN + At(f, a + 1)
            PROVE  Leads(a, b)
        BY <1>4, <4>2 DEF EndOf
      <4>3. \A a : Leads(a, b) => b = a + CFDP_TLV_HEADER_LEN + At(f, a + 1)
        BY DEF EndOf
      <4> HIDE DEF Leads, g
      <4> QED BY <3>1, <4>1, <4>2, <4>3
    <3>3. (b \in S) <=> At_(b)
      <4> HIDE DEF Leads, g
      <4> QED BY <1>3, <3>2
    <3>4. At_(b) \in BOOLEAN /\ (b \in S) \in BOOLEAN
      OBVIOUS
    <3> HIDE DEF At_
    <3> QED BY <3>3, <3>4
  <2> QED BY <2>1
<1>6. boundary = Turn(boundary)
  <2> HIDE DEF Turn, g
  <2> QED BY <1>5
<1> HIDE DEF boundary
<1> DEFINE B == {b \in FixedLen .. to : boundary[b]}
<1>7. \A b \in FixedLen .. to :
        boundary[b] <=> \/ b = FixedLen
                        \/ \E a \in FixedLen .. b - CFDP_TLV_HEADER_LEN :
                             boundary[a] /\ b = a + CFDP_TLV_HEADER_LEN + At(f, a + 1)
  BY <1>6
<1>8. B \subseteq FixedLen .. to /\ FixedLen \in B
  <2>1. FixedLen \in FixedLen .. to
    BY <1>4
  <2> QED BY <1>7, <2>1
<1>9. ASSUME NEW b \in FixedLen .. to
      PROVE  b \in B <=> b = FixedLen \/ \E a \in B : Leads(a, b)
  <2>1. ASSUME NEW a \in B, Leads(a, b)
        PROVE  a \in FixedLen .. b - CFDP_TLV_HEADER_LEN /\ boundary[a]
               /\ b = a + CFDP_TLV_HEADER_LEN + At(f, a + 1)
    BY <1>4, <2>1 DEF EndOf
  <2>2. ASSUME NEW a \in FixedLen .. b - CFDP_TLV_HEADER_LEN, boundary[a],
               b = a + CFDP_TLV_HEADER_LEN + At(f, a + 1)
        PROVE  a \in B /\ Leads(a, b)
    <3>1. a \in FixedLen .. to /\ a + CFDP_TLV_HEADER_LEN <= b
      BY <1>4
    <3> QED BY <2>2, <3>1 DEF EndOf
  <2> HIDE DEF Leads
  <2> QED BY <1>7, <2>1, <2>2
<1>10. IsChain(f, B)
  BY <1>8, <1>9 DEF IsChain
<1> QED BY <1>1, <1>10

(* No TLV of a chain begins within another one.                            *)
LEMMA ChainOrdered ==
  ASSUME NEW f \in Seq(Octet), NEW S, IsChain(f, S), NEW a \in S, NEW b \in S, a < b
  PROVE  a + CFDP_TLV_HEADER_LEN <= b /\ EndOf(f, a) <= b
<1> DEFINE Fits(c, d) == c + CFDP_TLV_HEADER_LEN <= d /\ EndOf(f, c) <= d
           Bad == {d \in S : \E c \in S : c < d /\ ~ Fits(c, d)}
<1>1. /\ S \subseteq FixedLen .. Len(f) /\ FixedLen = 2 /\ S \subseteq Nat
      /\ \A d \in S : d = FixedLen
                      \/ \E c \in S : c + CFDP_TLV_HEADER_LEN <= d /\ d = EndOf(f, c)
  BY DEF IsChain, FixedLen
<1>2. SUFFICES ASSUME Bad # {} PROVE FALSE
  OBVIOUS
<1>3. Bad \subseteq Nat
  BY <1>1
<1>4. PICK m \in Bad : \A k \in Bad : m <= k
  <2> HIDE DEF Bad
  <2> QED BY <1>2, <1>3, LeastElement
<1>5. PICK c \in S : c < m /\ ~ Fits(c, m)
  BY <1>4
<1>6. m \in S /\ m \in Nat /\ c \in Nat /\ c >= 2 /\ m # FixedLen
  BY <1>1, <1>3, <1>4, <1>5
<1>7. PICK e \in S : e + CFDP_TLV_HEADER_LEN <= m /\ m = EndOf(f, e)
  BY <1>1, <1>6
<1>8. e \in Nat /\ e < m /\ Fits(e, m)
  BY <1>1, <1>6, <1>7 DEF CFDP_TLV_HEADER_LEN
<1>9. ASSUME NEW x \in S, NEW d \in S, x < d, d < m PROVE Fits(x, d)
  <2>1. d \in Nat
    BY <1>1
  <2>2. d \notin Bad
    <3> HIDE DEF Bad
    <3> QED BY <1>4, <1>6, <1>9, <2>1
  <2> HIDE DEF Fits
  <2> QED BY <1>9, <2>2
<1>10. CASE e = c
  BY <1>5, <1>8, <1>10
<1>11. CASE e < c
  <2>1. Fits(e, c)
    BY <1>5, <1>9, <1>11
  <2> QED BY <1>5, <1>6, <1>7, <2>1
<1>12. CASE c < e
  <2>1. Fits(c, e)
    BY <1>8, <1>9, <1>12
  <2>2. Fits(c, m)
    <3> DEFINE end == EndOf(f, c)
    <3>1. c + CFDP_TLV_HEADER_LEN <= e /\ end <= e
      BY <2>1
    <3>2. end \in Nat
      <4>1. c + 1 < Len(f) /\ c + 1 \in Nat
        <5>1. Len(f) \in Nat /\ e <= Len(f)
          BY <1>1, LenProperties
        <5> QED BY <1>6, <1>8, <3>1, <5>1 DEF CFDP_TLV_HEADER_LEN
      <4>2. At(f, c + 1) \in Nat
        BY <4>1, AtType, OctetIsNat
      <4> QED BY <1>6, <4>2 DEF EndOf, CFDP_TLV_HEADER_LEN
    <3>3. c + CFDP_TLV_HEADER_LEN <= m
      BY <1>6, <1>8, <3>1 DEF CFDP_TLV_HEADER_LEN
    <3> HIDE DEF end
    <3>4. end <= m
      BY <1>6, <1>8, <3>1, <3>2
    <3> QED BY <3>3, <3>4 DEF end
  <2> QED BY <1>5, <2>2
<1> QED BY <1>6, <1>8, <1>10, <1>11, <1>12

(* A TLV that is taken is the chain's next one.                            *)
LEMMA TakeTrail ==
  ASSUME WalkInv, Trail, Take
  PROVE  Trail'
<1> DEFINE B == StartsTlv(field)
           end == pos + TlvSize(Rest)
           kind == At(field, pos)
           tlv_taken == [at |-> pos, end |-> end, type |-> kind]
<1>1. /\ TypeOK /\ Walk /\ pc = "loop" /\ field \in Seq(Octet) /\ Len(field) \in Nat
      /\ pos \in Nat /\ pos < Len(field) /\ TlvSize(Rest) > 0
      /\ Len(field) >= FixedLen /\ FixedLen \in Nat
  BY LenProperties DEF WalkInv, TypeOK, Take, Walk, FixedLen
<1>2. IsChain(field, B)
  BY <1>1, StartsTlvIs
<1>3. /\ end \in Nat /\ end <= Len(field) /\ end = EndOf(field, pos)
      /\ pos + CFDP_TLV_HEADER_LEN <= end /\ pos < end
  BY <1>1, NextTlv DEF EndOf, CFDP_TLV_HEADER_LEN
<1>4. /\ field' = field /\ pos' = end /\ walked' = walked \cup {tlv_taken}
      /\ fin'.condition_code = fin.condition_code
      /\ fin'.delivery_code = fin.delivery_code
      /\ fin'.file_status = fin.file_status
      /\ kind = CFDP_TLV_ENTITY_ID => EntityIdTlvSize(Rest) > 0
  <2>1. fin \in Finished
    BY <1>1 DEF TypeOK
  <2>2. CASE kind = CFDP_TLV_FILESTORE_RESPONSE /\ TakeResponse
    BY <2>1, <2>2 DEF TakeResponse, Finished, CFDP_TLV_FILESTORE_RESPONSE, CFDP_TLV_ENTITY_ID
  <2>3. CASE kind = CFDP_TLV_ENTITY_ID /\ TakeFaultLocation
    BY <2>1, <2>3 DEF TakeFaultLocation, Finished
  <2> QED BY <2>2, <2>3 DEF Take
<1>5. kind = CFDP_TLV_ENTITY_ID => At(field, pos + 1) \in IdLengths
  <2>1. EntityIdTlvSize(Rest) > 0 => At(Rest, 1) \in IdLengths
    BY DEF EntityIdTlvSize
  <2>2. At(Rest, 1) = At(field, pos + 1)
    <3>1. 1 \in 0 .. Len(field) - pos - 1
      BY <1>1, <1>3 DEF CFDP_TLV_HEADER_LEN
    <3> QED BY <1>1, <3>1, RestProperties DEF Rest
  <2> QED BY <1>4, <2>1, <2>2
<1> HIDE DEF end, B
<1>6. pos \in B /\ B \subseteq Nat /\ B \subseteq FixedLen .. Len(field)
  BY <1>1, <1>2 DEF Trail, B, IsChain
<1>7. end \in B
  <2>1. end \in FixedLen .. Len(field)
    BY <1>1, <1>3, <1>6
  <2> QED BY <1>2, <1>3, <1>6, <2>1 DEF IsChain
<1>8. {b \in B : b < end} = {b \in B : b < pos} \cup {pos}
  <2>1. ASSUME NEW b \in B, b < end PROVE b <= pos
    <3>1. CASE pos < b
      <4>1. EndOf(field, pos) <= b
        BY <1>1, <1>2, <1>6, <3>1, ChainOrdered
      <4> QED BY <1>3, <1>6, <2>1, <4>1
    <3> QED BY <1>1, <1>6, <3>1
  <2>2. \A b \in B : b < pos => b < end
    BY <1>1, <1>3, <1>6
  <2>3. \A b \in B : b <= pos <=> b < pos \/ b = pos
    BY <1>1, <1>6
  <2> QED BY <1>3, <1>6, <2>1, <2>2, <2>3
<1>9. {b \in B : b < end} = {tlv.at : tlv \in walked'}
  <2>1. {b \in B : b < pos} = {tlv.at : tlv \in walked}
    BY DEF Trail, B
  <2>2. {tlv.at : tlv \in walked'} = {tlv.at : tlv \in walked} \cup {pos}
    <3>1. tlv_taken.at = pos
      OBVIOUS
    <3> HIDE DEF tlv_taken
    <3> QED BY <1>4, <3>1
  <2> QED BY <1>8, <2>1, <2>2
<1>10. \A tlv \in walked' :
         /\ tlv.type = At(field, tlv.at)
         /\ tlv.end = tlv.at + CFDP_TLV_HEADER_LEN + At(field, tlv.at + 1)
         /\ tlv.type = CFDP_TLV_ENTITY_ID => At(field, tlv.at + 1) \in IdLengths
  <2>1. /\ tlv_taken.at = pos /\ tlv_taken.type = At(field, tlv_taken.at)
        /\ tlv_taken.end = tlv_taken.at + CFDP_TLV_HEADER_LEN + At(field, tlv_taken.at + 1)
        /\ tlv_taken.type = CFDP_TLV_ENTITY_ID => At(field, tlv_taken.at + 1) \in IdLengths
    BY <1>3, <1>5 DEF EndOf
  <2> HIDE DEF tlv_taken
  <2> QED BY <1>4, <2>1 DEF Trail
<1> QED BY <1>4, <1>7, <1>9, <1>10 DEF Trail, B

(* A chain that has been walked to its end is one of the PDU's.            *)
LEMMA WalkedIsFinished ==
  ASSUME TypeOK, Walk, Trail, pos = Len(field)
  PROVE  IsFinished(field)
<1> DEFINE B == StartsTlv(field)
           to == Len(field)
<1>1. /\ field \in Seq(Octet) /\ to \in Nat /\ to >= FixedLen /\ FixedLen \in Nat
  BY LenProperties DEF TypeOK, Walk, FixedLen
<1>2. IsChain(field, B)
  BY <1>1, StartsTlvIs
<1>3. B \subseteq Nat /\ B \subseteq FixedLen .. to /\ to \in B
  BY <1>1, <1>2 DEF Trail, IsChain
<1> HIDE DEF B
<1>4. ASSUME NEW a \in B \ {to}
      PROVE  \E tlv \in walked : tlv.at = a
  <2>1. a < to
    BY <1>1, <1>3
  <2> QED BY <2>1 DEF Trail, B
<1>5. ASSUME NEW a \in B \ {to}
      PROVE  \/ /\ At(field, a) = CFDP_TLV_FILESTORE_RESPONSE
                /\ \A b \in B : b < a => At(field, b) = CFDP_TLV_FILESTORE_RESPONSE
             \/ /\ At(field, a) = CFDP_TLV_ENTITY_ID
                /\ At(field, a + 1) \in IdLengths
  <2>1. PICK tlv \in walked : tlv.at = a
    BY <1>4
  <2>2. tlv.type = At(field, a) /\ tlv.type \in {CFDP_TLV_FILESTORE_RESPONSE, CFDP_TLV_ENTITY_ID}
    BY <2>1 DEF Trail, TypeOK
  <2>3. CASE tlv.type = CFDP_TLV_ENTITY_ID
    BY <2>1, <2>2, <2>3 DEF Trail
  <2>4. CASE tlv.type = CFDP_TLV_FILESTORE_RESPONSE
    <3>1. ASSUME NEW b \in B, b < a PROVE At(field, b) = CFDP_TLV_FILESTORE_RESPONSE
      <4>1. b # to
        BY <1>1, <1>3, <3>1
      <4>2. PICK before \in walked : before.at = b
        BY <1>4, <4>1
      <4>3. before.type = At(field, b)
        BY <4>2 DEF Trail
      <4>4. before.type = CFDP_TLV_FILESTORE_RESPONSE
        <5>1. SUFFICES ASSUME before.type # CFDP_TLV_FILESTORE_RESPONSE PROVE FALSE
          OBVIOUS
        <5>2. b >= ResponsesEnd /\ tlv.end <= ResponsesEnd
          BY <2>4, <4>2, <5>1 DEF Walk
        <5>3. ResponsesEnd \in Nat /\ tlv.end \in Nat /\ a \in Nat /\ b \in Nat
          BY <1>3 DEF ResponsesEnd, TypeOK, Finished, FixedLen
        <5>4. tlv.end >= a
          <6>1. tlv.end = a + CFDP_TLV_HEADER_LEN + At(field, a + 1)
            BY <2>1 DEF Trail
          <6>2. a + 1 < to \/ a + 1 = to
            BY <1>1, <1>3
          <6>3. EndOf(field, a) <= to /\ a + CFDP_TLV_HEADER_LEN <= to
            <7>1. a < to
              BY <1>1, <1>3
            <7> QED BY <1>1, <1>2, <1>3, <7>1, ChainOrdered DEF B
          <6>4. At(field, a + 1) \in Nat
            <7>1. a + 1 \in Nat /\ a + 1 < to
              BY <1>1, <5>3, <6>3 DEF CFDP_TLV_HEADER_LEN
            <7> QED BY <1>1, <7>1, AtType, OctetIsNat
          <6> QED BY <5>3, <6>1, <6>4 DEF CFDP_TLV_HEADER_LEN
        <5> QED BY <3>1, <5>2, <5>3, <5>4
      <4> QED BY <4>3, <4>4
    <3> QED BY <2>2, <2>4, <3>1
  <2> QED BY <2>2, <2>3, <2>4
<1> QED BY <1>1, <1>3, <1>5 DEF IsFinished, Trail, B

(* A chain with a TLV the loop refuses is none of the PDU's.               *)
LEMMA RejectedIsNone ==
  ASSUME WalkInv, Trail, Reject
  PROVE  ~ IsFinished(field)
<1> DEFINE B == StartsTlv(field)
           to == Len(field)
<1>1. /\ TypeOK /\ Walk /\ field \in Seq(Octet) /\ to \in Nat /\ pos \in Nat /\ pos < to
      /\ to >= FixedLen /\ FixedLen \in Nat
  BY LenProperties DEF WalkInv, TypeOK, Reject, Walk, FixedLen
<1>2. SUFFICES ASSUME IsFinished(field) PROVE FALSE
  OBVIOUS
<1>3. IsChain(field, B) /\ to \in B /\ pos \in B
  BY <1>1, <1>2, StartsTlvIs DEF IsFinished, Trail
<1>4. /\ \/ /\ At(field, pos) = CFDP_TLV_FILESTORE_RESPONSE
            /\ \A b \in B : b < pos => At(field, b) = CFDP_TLV_FILESTORE_RESPONSE
         \/ /\ At(field, pos) = CFDP_TLV_ENTITY_ID
            /\ At(field, pos + 1) \in IdLengths
  <2>1. pos \in B \ {to}
    BY <1>1, <1>3
  <2> QED BY <1>2, <2>1 DEF IsFinished
<1> HIDE DEF B
<1>5. pos + CFDP_TLV_HEADER_LEN <= to /\ EndOf(field, pos) <= to
  BY <1>1, <1>3, ChainOrdered
<1>6. /\ Len(Rest) = to - pos /\ At(Rest, 1) = At(field, pos + 1)
      /\ At(Rest, 0) = At(field, pos) /\ At(field, pos + 1) \in Nat
  <2>1. Len(Rest) = to - pos
    BY <1>1, RestProperties DEF Rest
  <2>2. 0 \in 0 .. to - pos - 1 /\ 1 \in 0 .. to - pos - 1 /\ pos + 0 = pos
    BY <1>1, <1>5 DEF CFDP_TLV_HEADER_LEN
  <2>3. \A k \in 0 .. to - pos - 1 : At(Rest, k) = At(field, pos + k)
    BY <1>1, RestProperties DEF Rest
  <2>4. pos + 1 \in Nat /\ pos + 1 < to
    BY <1>1, <1>5 DEF CFDP_TLV_HEADER_LEN
  <2>5. At(field, pos + 1) \in Nat
    BY <1>1, <2>4, AtType, OctetIsNat
  <2> QED BY <2>1, <2>2, <2>3, <2>5
<1>7. TlvSize(Rest) # 0
  <2> DEFINE len == At(field, pos + 1)
             size == TlvSize(Rest)
  <2>1. size = IF Len(Rest) < 2 \/ Len(Rest) < len + 2 THEN 0 ELSE len + 2
    BY <1>6 DEF TlvSize, CFDP_TLV_HEADER_LEN
  <2>2. pos + 2 <= to /\ pos + 2 + len <= to /\ len \in Nat
    BY <1>5, <1>6 DEF EndOf, CFDP_TLV_HEADER_LEN
  <2> HIDE DEF len, size
  <2>3. size # 0
    BY <1>1, <1>6, <2>1, <2>2
  <2> QED BY <2>3 DEF size
<1>8. CASE At(field, pos) = CFDP_TLV_ENTITY_ID /\ EntityIdTlvSize(Rest) = 0
  <2>1. At(field, pos + 1) \in IdLengths
    BY <1>4, <1>8 DEF CFDP_TLV_FILESTORE_RESPONSE, CFDP_TLV_ENTITY_ID
  <2>2. EntityIdTlvSize(Rest) = TlvSize(Rest)
    BY <1>6, <1>7, <1>8, <2>1 DEF EntityIdTlvSize
  <2> QED BY <1>7, <1>8, <2>2
<1>9. CASE At(field, pos) = CFDP_TLV_FILESTORE_RESPONSE /\ fin.fault_location_len > 0
  <2>1. PICK tlv \in walked : tlv.type = CFDP_TLV_ENTITY_ID
    BY <1>1, <1>9 DEF Walk
  <2>2. tlv.at \in B /\ tlv.at < pos /\ At(field, tlv.at) = CFDP_TLV_ENTITY_ID
    BY <2>1 DEF Trail, B
  <2> QED BY <1>4, <1>9, <2>2 DEF CFDP_TLV_FILESTORE_RESPONSE, CFDP_TLV_ENTITY_ID
<1>10. CASE At(field, pos) \notin {CFDP_TLV_FILESTORE_RESPONSE, CFDP_TLV_ENTITY_ID}
  BY <1>4, <1>10
<1> QED BY <1>7, <1>8, <1>9, <1>10 DEF Reject

(* A call that enters the loop stands at the start of the chain.           *)
LEMMA CallTrail ==
  ASSUME NEW f \in Seq(Octet), Call(f), pc' = "loop"
  PROVE  Trail'
<1>1. f \in Seq(Octet) /\ Len(f) \in Nat /\ ~ (Len(f) < FixedLen) /\ FixedLen \in Nat
  BY LenProperties DEF Call, FixedLen
<1>2. /\ field' = f /\ pos' = FixedLen /\ walked' = {} /\ At(f, 0) = CFDP_DIRECTIVE_FINISHED
      /\ fin' = [ClearFinished EXCEPT !.condition_code = At(f, 1) \div 16,
                                      !.delivery_code = (At(f, 1) \div 4) % 2,
                                      !.file_status = At(f, 1) % 4]
  BY DEF Call
<1>3. /\ fin'.condition_code = At(f, 1) \div 16
      /\ fin'.delivery_code = (At(f, 1) \div 4) % 2 /\ fin'.file_status = At(f, 1) % 4
  BY <1>2 DEF ClearFinished
<1>4. IsChain(f, StartsTlv(f))
  BY <1>1, StartsTlvIs
<1>5. FixedLen \in StartsTlv(f) /\ {b \in StartsTlv(f) : b < FixedLen} = {}
  BY <1>1, <1>4 DEF IsChain
<1>6. {tlv.at : tlv \in walked'} = {}
  BY <1>2
<1> QED BY <1>2, <1>3, <1>5, <1>6 DEF Trail

(* What the octets say, in the loop and between calls.                     *)
Judged ==
  /\ pc = "loop" \/ Decoded => Trail
  /\ AcceptsFinished
  /\ calls = 0 => pc = "idle" /\ field = << >>

(* An iteration keeps what the answer says about the field.                *)
LEMMA IterateJudged ==
  ASSUME WalkInv, Judged, Iterate
  PROVE  Judged'
<1>1. TypeOK /\ calls \in Nat
  BY DEF WalkInv, TypeOK
<1>2. CASE Take
  <2>1. Trail'
    BY <1>2, TakeTrail DEF Take, Judged
  <2>2. pc' = "loop" /\ pc = "loop" /\ calls' = calls
    BY <1>2 DEF Take, TakeResponse, TakeFaultLocation
  <2> QED BY <2>1, <2>2 DEF AcceptsFinished, Judged
<1>3. CASE Reject
  <2>1. pc = "loop" /\ pc' = "idle" /\ ret' = 0 /\ field' = field /\ calls' = calls
    BY <1>3 DEF Reject, Return
  <2>2. ~ IsFinished(field)
    BY <1>3, <2>1, RejectedIsNone DEF Judged
  <2> QED BY <2>1, <2>2 DEF AcceptsFinished, Decoded, Judged
<1>4. CASE Finish
  <2>1. /\ pc = "loop" /\ pc' = "idle" /\ ret' = pos
        /\ UNCHANGED <<field, pos, fin, calls, walked>>
    BY <1>4 DEF Finish, Return
  <2>2. Trail /\ Walk /\ pos = Len(field) /\ pos >= FixedLen /\ pos \in Nat
    BY <1>1, <1>4, <2>1 DEF WalkInv, Walk, Finish, TypeOK, Judged
  <2>3. IsFinished(field) /\ ret' > 0
    BY <1>1, <2>1, <2>2, WalkedIsFinished DEF FixedLen
  <2>4. Trail'
    BY <2>1, <2>2 DEF Trail
  <2> QED BY <2>1, <2>3, <2>4 DEF AcceptsFinished, Judged
<1> QED BY <1>2, <1>3, <1>4 DEF Iterate

(* So does a call.                                                         *)
LEMMA CallJudged ==
  ASSUME WalkInv, NEW f \in Seq(Octet), Call(f)
  PROVE  Judged'
<1>1. calls \in Nat
  BY DEF WalkInv, TypeOK
<1>2. calls' = calls + 1 /\ calls' # 0 /\ field' = f
  BY <1>1 DEF Call
<1>3. CASE Len(f) < FixedLen \/ At(f, 0) # CFDP_DIRECTIVE_FINISHED
  <2>1. ret' = 0 /\ pc' = "idle"
    BY <1>3 DEF Call
  <2>2. ~ IsFinished(f)
    <3>1. Len(f) \in Nat /\ FixedLen \in Nat
      BY LenProperties DEF FixedLen
    <3> QED BY <1>3, <3>1 DEF IsFinished
  <2> QED BY <1>2, <2>1, <2>2 DEF AcceptsFinished, Decoded, Judged
<1>4. CASE ~ (Len(f) < FixedLen \/ At(f, 0) # CFDP_DIRECTIVE_FINISHED)
  <2>1. pc' = "loop"
    BY <1>4 DEF Call
  <2> QED BY <1>2, <2>1, CallTrail DEF AcceptsFinished, Judged
<1> QED BY <1>3, <1>4

(* The two ways the state changes, together with what the walk keeps to.   *)
LEMMA IterateIInv ==
  ASSUME IInv, Iterate
  PROVE  IInv'
<1>1. WalkInv /\ Judged
  BY DEF IInv, Judged
<1>2. WalkInv' /\ Judged'
  BY <1>1, IterateInvariant, IterateJudged
<1> QED BY <1>2 DEF IInv, Judged

(* A call on any data field keeps the invariant.                           *)
LEMMA CallIInv ==
  ASSUME IInv, NEW f \in Seq(Octet), Len(f) <= SpanModulus, Call(f)
  PROVE  IInv'
<1>1. WalkInv /\ Judged
  BY DEF IInv, Judged
<1>2. WalkInv' /\ Judged'
  BY <1>1, CallInvariant, CallJudged
<1> QED BY <1>2 DEF IInv, Judged

(* It holds at the start.                                                  *)
LEMMA InitIInv ==
  Init => IInv
<1> SUFFICES ASSUME Init PROVE IInv
  OBVIOUS
<1>1. WalkInv
  BY InitInvariant
<1>2. Judged
  BY DEF Init, Decoded, AcceptsFinished, Judged
<1> QED BY <1>1, <1>2 DEF IInv, Judged

(* What holds at every turn of the loop and between calls.                 *)
THEOREM Invariance == Spec => []IInv
<1>1. IInv /\ [Next]_vars => IInv'
  <2> SUFFICES ASSUME IInv, [Next]_vars PROVE IInv'
    OBVIOUS
  <2>1. CASE Iterate
    BY <2>1, IterateIInv
  <2>2. ASSUME NEW f \in Fields, Call(f) PROVE IInv'
    BY <2>2, FieldsAssumption, CallIInv
  <2>3. CASE UNCHANGED vars
    <3>1. WalkInv'
      BY <2>3, StutterInvariant DEF IInv
    <3> QED BY <2>3, <3>1 DEF vars, IInv, Decoded, Trail, AcceptsFinished
  <2> QED BY <2>1, <2>2, <2>3 DEF Next
<1> QED BY <1>1, InitIInv, PTL DEF Spec

(* The decoder accepts a data field exactly when it is a Finished PDU: the *)
(* TLVs fill it to the last octet, responses before fault locations, and   *)
(* no identifier has a length the library does not support.                *)
THEOREM AcceptsExactly == Spec => []AcceptsFinished
<1>1. IInv => AcceptsFinished
  BY DEF IInv
<1> QED BY <1>1, Invariance, PTL

-----------------------------------------------------------------------------
(* What is decoded is what was encoded.                                    *)

(* Octets that are the same have the same chain.                           *)
LEMMA ChainsAgree ==
  ASSUME NEW f, NEW S, IsChain(f, S), NEW g, NEW T, IsChain(g, T),
         Len(f) \in Nat, Len(g) \in Nat, Len(g) <= Len(f),
         \A i \in FixedLen .. Len(g) - 1 : At(f, i) = At(g, i)
  PROVE  \A b \in FixedLen .. Len(g) : b \in S <=> b \in T
<1> DEFINE Differ == {b \in FixedLen .. Len(g) : ~ (b \in S <=> b \in T)}
           Leads(h, a, b) == a + CFDP_TLV_HEADER_LEN <= b /\ b = EndOf(h, a)
<1>1. /\ S \subseteq FixedLen .. Len(f) /\ FixedLen \in S
      /\ T \subseteq FixedLen .. Len(g) /\ FixedLen \in T /\ FixedLen = 2
      /\ \A b \in FixedLen .. Len(f) : b \in S <=> b = FixedLen \/ \E a \in S : Leads(f, a, b)
      /\ \A b \in FixedLen .. Len(g) : b \in T <=> b = FixedLen \/ \E a \in T : Leads(g, a, b)
  BY DEF IsChain, FixedLen
<1>2. SUFFICES ASSUME Differ # {} PROVE FALSE
  OBVIOUS
<1>3. Differ \subseteq Nat
  BY <1>1
<1>4. PICK m \in Differ : \A k \in Differ : m <= k
  <2> HIDE DEF Differ
  <2> QED BY <1>2, <1>3, LeastElement
<1>5. m \in FixedLen .. Len(g) /\ m \in FixedLen .. Len(f) /\ ~ (m \in S <=> m \in T)
      /\ m # FixedLen
  BY <1>1, <1>4
<1>6. ASSUME NEW b \in FixedLen .. Len(g), b < m PROVE b \in S <=> b \in T
  <2>1. b \notin Differ
    <3> HIDE DEF Differ
    <3> QED BY <1>1, <1>4, <1>5, <1>6
  <2> QED BY <2>1
<1>7. ASSUME NEW a \in FixedLen .. Len(f), a + CFDP_TLV_HEADER_LEN <= m
      PROVE  a \in FixedLen .. Len(g) /\ a < m /\ EndOf(f, a) = EndOf(g, a)
  <2>1. a \in FixedLen .. Len(g) /\ a < m /\ a + 1 \in FixedLen .. Len(g) - 1
    BY <1>1, <1>5, <1>7 DEF CFDP_TLV_HEADER_LEN
  <2> QED BY <2>1 DEF EndOf
<1>8. ASSUME m \in S PROVE m \in T
  <2>1. PICK a \in S : Leads(f, a, m)
    BY <1>1, <1>5, <1>8
  <2>2. a \in FixedLen .. Len(g) /\ a < m /\ EndOf(f, a) = EndOf(g, a)
    BY <1>1, <1>7, <2>1
  <2>3. a \in T /\ Leads(g, a, m)
    BY <1>6, <2>1, <2>2
  <2> QED BY <1>1, <1>5, <2>3
<1>9. ASSUME m \in T PROVE m \in S
  <2>1. PICK a \in T : Leads(g, a, m)
    BY <1>1, <1>5, <1>9
  <2>2. a \in FixedLen .. Len(f)
    BY <1>1
  <2>3. a \in FixedLen .. Len(g) /\ a < m /\ EndOf(f, a) = EndOf(g, a)
    BY <1>7, <2>1, <2>2
  <2>4. a \in S /\ Leads(f, a, m)
    BY <1>6, <2>1, <2>3
  <2> QED BY <1>1, <1>5, <2>4
<1> QED BY <1>5, <1>8, <1>9

(* The octets of its responses.                                            *)
LEMMA ResponseOctets ==
  ASSUME NEW src \in Encodable,
         PointsTo(src.filestore_responses, src.filestore_responses_len),
         NEW n, FinishedSerialize(src, n) # << >>
  PROVE  /\ Copied(src.filestore_responses, src.filestore_responses_len) \in Seq(Octet)
         /\ Len(Copied(src.filestore_responses, src.filestore_responses_len))
              = src.filestore_responses_len
<1> DEFINE pointer == src.filestore_responses
           len == src.filestore_responses_len
<1>1. ~ (pointer = Null /\ len > 0)
  BY DEF FinishedSerialize
<1>2. pointer \in Pointer /\ len \in Nat
  BY DEF Encodable
<1>3. pointer # Null \/ len = 0
  BY <1>1, <1>2
<1> QED BY <1>2, <1>3, CopiedType

(* The responses of a PDU that was encoded.                                *)
LEMMA ResponsesOf ==
  ASSUME NEW src, IsSource(src), NEW n, FinishedSerialize(src, n) # << >>
  PROVE  /\ AreResponses(Copied(src.filestore_responses, src.filestore_responses_len))
         /\ Copied(src.filestore_responses, src.filestore_responses_len) \in Seq(Octet)
         /\ Len(Copied(src.filestore_responses, src.filestore_responses_len))
              = src.filestore_responses_len
<1> DEFINE pointer == src.filestore_responses
           len == src.filestore_responses_len
<1>1. src \in Encodable /\ PointsTo(pointer, len)
      /\ (pointer # Null => AreResponses(Copied(pointer, len)))
  BY DEF IsSource
<1>2. ~ (pointer = Null /\ len > 0)
  BY DEF FinishedSerialize
<1>3. pointer \in Pointer /\ len \in Nat
  BY <1>1 DEF Encodable
<1>4. Copied(pointer, len) \in Seq(Octet) /\ Len(Copied(pointer, len)) = len
  BY <1>1, ResponseOctets
<1>5. ASSUME pointer = Null PROVE AreResponses(Copied(pointer, len))
  <2> DEFINE g == <<0, 0>> \o << >>
  <2>1. Copied(pointer, len) = << >>
    BY <1>2, <1>3, <1>5 DEF Copied
  <2>2. g \in Seq(Octet) /\ Len(g) = 2
    BY DEF Octet
  <2> HIDE DEF g
  <2>3. IsChain(g, StartsTlv(g))
    <3>1. g \in Seq(Octet) /\ Len(g) >= FixedLen
      BY <2>2 DEF FixedLen
    <3> QED BY ONLY <3>1, StartsTlvIs, ZenonT(30)
  <2>4. StartsTlv(g) = {2}
    BY <2>2, <2>3 DEF IsChain, FixedLen
  <2> QED BY <2>1, <2>2, <2>4 DEF AreResponses, g
<1> QED BY <1>1, <1>4, <1>5

(* The octets of a Finished PDU, part by part.                             *)
EncodedAs(src, octets) ==
  LET start == FixedLen + src.filestore_responses_len
      id_len == src.fault_location_len
      end == IF FaultLocationRequired(src.condition_code) THEN start + 2 + id_len ELSE start
  IN /\ octets \in Seq(Octet) /\ Len(octets) = end /\ start \in Nat
     /\ At(octets, 0) = CFDP_DIRECTIVE_FINISHED
     /\ At(octets, 1) \div 16 = src.condition_code
     /\ (At(octets, 1) \div 4) % 2 = src.delivery_code
     /\ At(octets, 1) % 4 = src.file_status
     /\ Slice(octets, FixedLen, start)
          = Copied(src.filestore_responses, src.filestore_responses_len)
     /\ FaultLocationRequired(src.condition_code) =>
          /\ id_len \in IdLengths
          /\ At(octets, start) = CFDP_TLV_ENTITY_ID /\ At(octets, start + 1) = id_len
          /\ ReadUint(Slice(octets, start + 2, end))
               = Truncated(src.fault_location_entity_id, id_len)

(* An encoding has the parts it was given, at the places they have.        *)
LEMMA EncodedParts ==
  ASSUME NEW src \in Encodable,
         PointsTo(src.filestore_responses, src.filestore_responses_len), NEW n, NEW octets, octets = FinishedSerialize(src, n),
         octets # << >>
  PROVE  EncodedAs(src, octets)
<1> DEFINE len == src.filestore_responses_len
           responses == Copied(src.filestore_responses, len)
           start == FixedLen + len
           fault == FaultLocationRequired(src.condition_code)
           id == src.fault_location_entity_id
           id_len == src.fault_location_len
           tlv == EntityIdTlvSerialize(id, id_len, n - start)
           none == << >>
           tail == IF fault THEN tlv ELSE none
           c == src.condition_code
           d == src.delivery_code
           s == src.file_status
           o1 == 16 * c + 4 * d + s
           head == <<CFDP_DIRECTIVE_FINISHED, o1>>
<1>1. octets = head \o responses \o tail /\ (fault => tlv # << >>)
  BY DEF FinishedSerialize
<1>2. /\ c \in 0 .. 15 /\ d \in {0, 1} /\ s \in 0 .. 3 /\ len \in Nat /\ id \in UInt64
      /\ src.filestore_responses \in Pointer
  BY DEF Encodable
<1>3. responses \in Seq(Octet) /\ Len(responses) = len
  BY ResponseOctets
<1>4. /\ o1 \in Octet /\ o1 \div 16 = c /\ (o1 \div 4) % 2 = d /\ o1 % 4 = s
  <2> HIDE DEF c, d, s
  <2>1. CASE d = 0
    <3>1. o1 = 16 * c + s
      BY <1>2, <2>1
    <3>2. o1 \div 4 = 4 * c
      BY <1>2, <3>1
    <3>3. (4 * c) % 2 = 0
      BY <1>2
    <3> HIDE DEF o1
    <3> QED BY <1>2, <2>1, <3>1, <3>2, <3>3 DEF Octet
  <2>2. CASE d = 1
    <3>1. o1 = 16 * c + 4 + s
      BY <1>2, <2>2
    <3>2. o1 \div 4 = 4 * c + 1
      BY <1>2, <3>1
    <3>3. (4 * c + 1) % 2 = 1
      BY <1>2
    <3> HIDE DEF o1
    <3> QED BY <1>2, <2>2, <3>1, <3>2, <3>3 DEF Octet
  <2> QED BY <1>2, <2>1, <2>2
<1> HIDE DEF o1
<1>5. head \in Seq(Octet) /\ Len(head) = FixedLen /\ At(head, 0) = CFDP_DIRECTIVE_FINISHED
      /\ At(head, 1) = o1 /\ FixedLen = 2
  BY <1>4 DEF Octet, CFDP_DIRECTIVE_FINISHED, At, FixedLen
<1>6. fault => /\ tlv \in Seq(Octet) /\ id_len \in 1 .. 8 /\ id_len \in IdLengths
               /\ Len(tlv) = id_len + 2 /\ EntityIdTlvSize(tlv) = id_len + 2
               /\ At(tlv, 1) = id_len /\ EntityIdOf(tlv) = Truncated(id, id_len)
  <2> HIDE DEF id, id_len, start, fault
  <2> QED BY <1>1, <1>2, EntityIdReadBack
<1>7. none \in Seq(Octet) /\ Len(none) = 0
  OBVIOUS
<1> HIDE DEF head, responses, tlv, none, fault, id, id_len, c, d, s, len
<1>8. tail \in Seq(Octet) /\ Len(tail) = IF fault THEN id_len + 2 ELSE 0
  BY <1>6, <1>7
<1> HIDE DEF tail
<1> DEFINE front == head \o responses
<1>9. Joined(front, head, responses)
  BY <1>3, <1>5, Join
<1>10. front \in Seq(Octet) /\ Len(front) = start /\ start \in Nat
  BY <1>2, <1>3, <1>5, <1>9 DEF Joined
<1> HIDE DEF front
<1>11. Joined(octets, front, tail)
  <2>1. octets = front \o tail
    BY <1>1 DEF front
  <2> QED BY <1>8, <1>10, <2>1, Join
<1> DEFINE end == IF fault THEN start + 2 + id_len ELSE start
<1>12. octets \in Seq(Octet) /\ Len(octets) = end
  <2>1. octets \in Seq(Octet) /\ Len(octets) = start + Len(tail)
    BY <1>10, <1>11 DEF Joined
  <2>2. start + Len(tail) = end
    <3> HIDE DEF start
    <3> QED BY <1>6, <1>8, <1>10, SMTT(40)
  <2> QED BY <2>1, <2>2
<1>13. At(octets, 0) = CFDP_DIRECTIVE_FINISHED /\ At(octets, 1) = o1
  <2>1. 0 \in Nat /\ 1 \in Nat /\ 0 < start /\ 1 < start /\ 0 < FixedLen /\ 1 < FixedLen
    BY <1>2, <1>5
  <2>2. At(octets, 0) = At(front, 0) /\ At(octets, 1) = At(front, 1)
    BY <1>10, <1>11, <2>1 DEF Joined
  <2>3. At(front, 0) = At(head, 0) /\ At(front, 1) = At(head, 1)
    BY <1>5, <1>9, <2>1 DEF Joined
  <2> QED BY <1>5, <2>2, <2>3
<1>14. Slice(octets, FixedLen, start) = responses
  <2>1. Slice((head \o responses) \o tail, Len(head), Len(head) + Len(responses)) = responses
    BY <1>3, <1>5, <1>8, SliceOfConcat
  <2> QED BY <1>1, <1>3, <1>5, <2>1
<1>15. Slice(octets, start, Len(octets)) = tail
  BY <1>10, <1>11 DEF Joined
<1>16. ASSUME fault
       PROVE  /\ id_len \in IdLengths
              /\ At(octets, start) = CFDP_TLV_ENTITY_ID /\ At(octets, start + 1) = id_len
              /\ ReadUint(Slice(octets, start + 2, end)) = Truncated(id, id_len)
  <2>1. tail = tlv /\ At(tlv, 0) = CFDP_TLV_ENTITY_ID /\ end = start + 2 + id_len
    <3>1. EntityIdTlvSize(tlv) # 0
      BY <1>6, <1>16
    <3> QED BY <1>16, <3>1 DEF tail, EntityIdTlvSize
  <2>2. start \in Nat /\ start < Len(octets) /\ Len(octets) - start = id_len + 2
        /\ id_len \in Nat /\ start + 0 = start
    <3> HIDE DEF start
    <3> QED BY <1>6, <1>10, <1>12, <1>16, SMTT(40)
  <2>3. \A i \in 0 .. Len(octets) - start - 1 :
          At(Slice(octets, start, Len(octets)), i) = At(octets, start + i)
    <3> HIDE DEF start, end
    <3> QED BY <1>12, <2>2, RestProperties
  <2>4. 0 \in 0 .. Len(octets) - start - 1 /\ 1 \in 0 .. Len(octets) - start - 1
    <3> HIDE DEF start, end
    <3> QED BY <2>2
  <2>5. At(octets, start) = At(tlv, 0) /\ At(octets, start + 1) = At(tlv, 1)
    <3> HIDE DEF start, end
    <3> QED BY <1>15, <2>1, <2>2, <2>3, <2>4
  <2>6. Slice(tlv, 2, id_len + 2) = Slice(octets, start + 2, start + (id_len + 2))
    <3>1. 2 \in Nat /\ id_len + 2 \in Nat /\ 2 <= id_len + 2
          /\ id_len + 2 <= Len(octets) - start
      BY <2>2
    <3> HIDE DEF start, end
    <3>2. Slice(Slice(octets, start, Len(octets)), 2, id_len + 2)
            = Slice(octets, start + 2, start + (id_len + 2))
      BY <1>12, <2>2, <3>1, SliceOfRest, ZenonT(60)
    <3> QED BY <1>15, <2>1, <3>2
  <2>7. start + (id_len + 2) = end
    <3> HIDE DEF start
    <3> QED BY <2>1, <2>2
  <2>8. ReadUint(Slice(tlv, 2, id_len + 2)) = Truncated(id, id_len)
    BY <1>6, <1>16 DEF EntityIdOf, CFDP_TLV_HEADER_LEN
  <2> QED BY <1>6, <1>16, <2>1, <2>5, <2>6, <2>7, <2>8
<1> QED BY <1>4, <1>10, <1>12, <1>13, <1>14, <1>16
        DEF EncodedAs, start, end, fault, len, responses, id, id_len, c, d, s

(* Their chain: responses, then the fault location if there is one.        *)
ChainedAs(src, octets) ==
  LET S == StartsTlv(octets)
      start == FixedLen + src.filestore_responses_len
  IN /\ IsChain(octets, S) /\ start \in S /\ Len(octets) \in S
     /\ \A a \in S : a < start => At(octets, a) = CFDP_TLV_FILESTORE_RESPONSE
     /\ \A a \in S : a > start => a = Len(octets)

(* The lengths in an encoding lead from part to part.                      *)
LEMMA EncodedChain ==
  ASSUME NEW src, IsSource(src), NEW n, FinishedSerialize(src, n) # << >>, NEW octets,
         EncodedAs(src, octets)
  PROVE  ChainedAs(src, octets)
<1> DEFINE len == src.filestore_responses_len
           responses == Copied(src.filestore_responses, len)
           start == FixedLen + len
           fault == FaultLocationRequired(src.condition_code)
           id_len == src.fault_location_len
           end == Len(octets)
           head == <<0, 0>>
           g == head \o responses
           S == StartsTlv(octets)
           T == StartsTlv(g)
<1>1. /\ octets \in Seq(Octet) /\ start \in Nat
      /\ end = IF fault THEN start + 2 + id_len ELSE start
      /\ Slice(octets, FixedLen, start) = responses
      /\ fault => /\ id_len \in IdLengths
                  /\ At(octets, start) = CFDP_TLV_ENTITY_ID /\ At(octets, start + 1) = id_len
  BY DEF EncodedAs
<1>2. responses \in Seq(Octet) /\ Len(responses) = len /\ AreResponses(responses)
  BY ResponsesOf
<1>3. FixedLen = 2 /\ CFDP_TLV_HEADER_LEN = 2 /\ len \in Nat
  BY DEF IsSource, Encodable, FixedLen, CFDP_TLV_HEADER_LEN
<1>4. fault => id_len \in 1 .. 8
  BY <1>1 DEF IdLengths, CFDP_ID_LEN_MIN, CFDP_ID_LEN_MAX
<1> HIDE DEF responses, fault, id_len, len
<1>5. start <= end /\ end \in Nat /\ start >= FixedLen
  <2> HIDE DEF end
  <2>1. start >= FixedLen
    BY <1>3
  <2> HIDE DEF start
  <2> QED BY <1>1, <1>4, <2>1, SMTT(40)
<1>6. head \in Seq(Octet) /\ Len(head) = FixedLen
  BY DEF Octet, FixedLen
<1>7. Len(g) \in T /\ \A a \in T \ {Len(g)} : At(g, a) = CFDP_TLV_FILESTORE_RESPONSE
  BY <1>2 DEF AreResponses
<1> HIDE DEF head
<1>8. g \in Seq(Octet) /\ Len(g) = start /\ Slice(g, FixedLen, start) = responses
  <2>1. Joined(g, head, responses)
    BY <1>2, <1>6, Join
  <2> HIDE DEF g
  <2> QED BY <1>2, <1>6, <2>1 DEF Joined
<1> HIDE DEF g
<1>9. IsChain(octets, S) /\ IsChain(g, T)
  <2>1. Len(g) >= FixedLen /\ Len(octets) >= FixedLen
    BY <1>1, <1>3, <1>5, <1>8
  <2> QED BY <1>1, <1>8, <2>1, StartsTlvIs
<1> HIDE DEF S, T
<1>10. ASSUME NEW i \in FixedLen .. start - 1 PROVE At(octets, i) = At(g, i)
  <2> DEFINE k == i - FixedLen
  <2>1. k \in Nat /\ k < start - FixedLen /\ FixedLen + k = i /\ FixedLen \in Nat
        /\ FixedLen <= start /\ start <= Len(octets) /\ start <= Len(g)
    <3> HIDE DEF start
    <3> QED BY <1>1, <1>3, <1>5, <1>8
  <2> HIDE DEF k, start
  <2>2. At(Slice(octets, FixedLen, start), k) = At(octets, FixedLen + k)
    BY <1>1, <2>1, SliceAt
  <2>3. At(Slice(g, FixedLen, start), k) = At(g, FixedLen + k)
    BY <1>1, <1>8, <2>1, SliceAt
  <2> QED BY <1>1, <1>8, <2>1, <2>2, <2>3
<1>11. \A b \in FixedLen .. start : b \in S <=> b \in T
  <2>1. Len(octets) \in Nat /\ Len(g) \in Nat /\ Len(g) <= Len(octets)
        /\ \A i \in FixedLen .. Len(g) - 1 : At(octets, i) = At(g, i)
    BY <1>1, <1>5, <1>8, <1>10
  <2> HIDE DEF start, end
  <2>2. \A b \in FixedLen .. Len(g) : b \in S <=> b \in T
    BY <1>9, <2>1, ChainsAgree
  <2> QED BY <1>8, <2>2
<1>12. S \subseteq FixedLen .. end
  BY <1>9 DEF IsChain
<1> HIDE DEF start, end
<1>13. start \in S
  BY <1>1, <1>3, <1>5, <1>7, <1>8, <1>11
<1>14. ASSUME NEW a \in S, a < start PROVE At(octets, a) = CFDP_TLV_FILESTORE_RESPONSE
  <2>1. a \in FixedLen .. start /\ a \in FixedLen .. start - 1 /\ a # start
    BY <1>1, <1>3, <1>5, <1>12, <1>14
  <2> QED BY <1>7, <1>8, <1>10, <1>11, <2>1
<1>15. CASE ~ fault
  <2>1. end = start
    BY <1>1, <1>15
  <2>2. \A a \in S : ~ (a > start)
    BY <1>1, <1>3, <1>12, <2>1
  <2> QED BY <1>9, <1>13, <1>14, <2>1, <2>2 DEF ChainedAs, S, start, len, end
<1>16. CASE fault
  <2>1. EndOf(octets, start) = end /\ start + CFDP_TLV_HEADER_LEN <= end /\ start < end
    BY <1>1, <1>3, <1>4, <1>16 DEF EndOf
  <2>2. end \in S
    <3>1. end >= FixedLen
      BY <1>1, <1>3, <1>5, <1>8, <2>1
    <3>2. end \in FixedLen .. end
      BY <1>3, <1>5, <3>1
    <3> QED BY <1>9, <1>13, <2>1, <3>2 DEF IsChain, end
  <2>3. ASSUME NEW a \in S, a > start PROVE a = end
    <3>1. EndOf(octets, start) <= a
      BY <1>1, <1>9, <1>12, <1>13, <2>3, ChainOrdered
    <3> QED BY <1>3, <1>5, <1>12, <2>1, <3>1
  <2> QED BY <1>9, <1>13, <1>14, <2>2, <2>3 DEF ChainedAs, S, start, len, end
<1> QED BY <1>15, <1>16

(* It is a Finished PDU.                                                   *)
LEMMA EncodedIsFinished ==
  ASSUME NEW src, src.filestore_responses_len \in Nat, NEW octets, EncodedAs(src, octets),
         ChainedAs(src, octets)
  PROVE  IsFinished(octets)
<1> DEFINE S == StartsTlv(octets)
           start == FixedLen + src.filestore_responses_len
           end == Len(octets)
<1>1. /\ IsChain(octets, S) /\ start \in S /\ end \in S
      /\ \A a \in S : a < start => At(octets, a) = CFDP_TLV_FILESTORE_RESPONSE
      /\ \A a \in S : a > start => a = end
  BY DEF ChainedAs
<1>2. S \subseteq FixedLen .. end /\ FixedLen = 2
  BY <1>1 DEF IsChain, FixedLen
<1>3. octets \in Seq(Octet) /\ end \in Nat /\ start \in Nat
      /\ At(octets, 0) = CFDP_DIRECTIVE_FINISHED
  BY LenProperties DEF EncodedAs
<1>4. start # end => At(octets, start) = CFDP_TLV_ENTITY_ID /\ At(octets, start + 1) \in IdLengths
  BY DEF EncodedAs
<1> HIDE DEF S, start, end
<1>5. ASSUME NEW a \in S \ {end}
      PROVE  \/ /\ At(octets, a) = CFDP_TLV_FILESTORE_RESPONSE
                /\ \A b \in S : b < a => At(octets, b) = CFDP_TLV_FILESTORE_RESPONSE
             \/ /\ At(octets, a) = CFDP_TLV_ENTITY_ID
                /\ At(octets, a + 1) \in IdLengths
  <2>1. a \in Nat /\ a <= start /\ S \subseteq Nat
    BY <1>1, <1>2, <1>3
  <2>2. CASE a = start
    BY <1>4, <2>2
  <2>3. CASE a < start
    <3>1. \A b \in S : b < a => b < start
      BY <1>3, <2>1, <2>3
    <3> QED BY <1>1, <2>3, <3>1
  <2> QED BY <1>3, <2>1, <2>2, <2>3
<1>6. end >= FixedLen
  BY <1>1, <1>2
<1> QED BY <1>1, <1>3, <1>5, <1>6 DEF IsFinished, S, end

(* Its responses and its fault location are reported as they were given.   *)
LEMMA ReportsEncoded ==
  ASSUME NEW src, src.filestore_responses_len \in Nat, EncodedAs(src, field),
         ChainedAs(src, field), TypeOK, Walk, Trail, pos = Len(field)
  PROVE  /\ fin.condition_code = src.condition_code
         /\ fin.delivery_code = src.delivery_code
         /\ fin.file_status = src.file_status
         /\ fin.filestore_responses_len = src.filestore_responses_len
         /\ Slice(field, FixedLen, ResponsesEnd)
              = Copied(src.filestore_responses, src.filestore_responses_len)
         /\ IF FaultLocationRequired(src.condition_code)
            THEN /\ fin.fault_location_len = src.fault_location_len
                 /\ fin.fault_location_entity_id =
                      Truncated(src.fault_location_entity_id, src.fault_location_len)
            ELSE fin.fault_location_len = 0
<1> DEFINE S == StartsTlv(field)
           len == src.filestore_responses_len
           start == FixedLen + len
           end == Len(field)
           fault == FaultLocationRequired(src.condition_code)
           id_len == src.fault_location_len
<1>1. /\ IsChain(field, S) /\ start \in S /\ end \in S
      /\ \A a \in S : a < start => At(field, a) = CFDP_TLV_FILESTORE_RESPONSE
      /\ \A a \in S : a > start => a = end
  BY DEF ChainedAs
<1>2. /\ field \in Seq(Octet) /\ start \in Nat /\ end \in Nat /\ FixedLen = 2
      /\ end = IF fault THEN start + 2 + id_len ELSE start
      /\ Slice(field, FixedLen, start) = Copied(src.filestore_responses, len)
      /\ fault => /\ id_len \in IdLengths /\ id_len \in 1 .. 8
                  /\ At(field, start) = CFDP_TLV_ENTITY_ID
                  /\ ReadUint(Slice(field, start + 2, end))
                       = Truncated(src.fault_location_entity_id, id_len)
  BY LenProperties DEF EncodedAs, FixedLen, IdLengths, CFDP_ID_LEN_MIN, CFDP_ID_LEN_MAX
<1>3. S \subseteq FixedLen .. end /\ S \subseteq Nat
  BY <1>1, <1>2 DEF IsChain
<1>4. /\ fin.condition_code = src.condition_code /\ fin.delivery_code = src.delivery_code
      /\ fin.file_status = src.file_status
  BY DEF Trail, EncodedAs
<1>5. /\ {b \in S : b < end} = {tlv.at : tlv \in walked}
      /\ \A tlv \in walked :
           /\ tlv.at \in S /\ tlv.at < end /\ tlv.type = At(field, tlv.at)
           /\ tlv.end = tlv.at + CFDP_TLV_HEADER_LEN + At(field, tlv.at + 1)
  BY DEF Trail
<1> HIDE DEF S, fault, id_len, end
<1>6. ASSUME NEW tlv \in walked
      PROVE  tlv.at <= start /\ (tlv.type = CFDP_TLV_ENTITY_ID => tlv.at = start /\ fault)
  <2>1. tlv.at \in S /\ tlv.at < end /\ tlv.type = At(field, tlv.at)
    BY <1>5
  <2>2. tlv.at \in Nat /\ tlv.at <= start
    <3> DEFINE a == tlv.at
    <3>1. a \in S /\ a < end
      BY <2>1
    <3> HIDE DEF start, a
    <3>2. a \in Nat
      BY <1>3, <3>1
    <3>3. ~ (a > start)
      BY <1>1, <1>2, <3>1, <3>2
    <3>4. a <= start
      BY <1>2, <3>2, <3>3
    <3> QED BY <3>2, <3>4 DEF a
  <2>3. tlv.at < start => tlv.type = CFDP_TLV_FILESTORE_RESPONSE
    BY <1>1, <2>1
  <2>4. tlv.at = start => start < end
    BY <2>1
  <2>5. start < end => fault
    <3> HIDE DEF start
    <3> QED BY <1>2
  <2> HIDE DEF start
  <2> QED BY <1>2, <2>2, <2>3, <2>4, <2>5 DEF CFDP_TLV_FILESTORE_RESPONSE, CFDP_TLV_ENTITY_ID
<1>7. ASSUME fault
      PROVE  \E tlv \in walked : tlv.at = start /\ tlv.type = CFDP_TLV_ENTITY_ID
  <2>1. start < end
    <3> HIDE DEF start
    <3> QED BY <1>2, <1>7
  <2>2. PICK tlv \in walked : tlv.at = start
    <3> HIDE DEF start
    <3> QED BY <1>1, <1>5, <2>1
  <2>3. tlv.type = CFDP_TLV_ENTITY_ID
    <3> HIDE DEF start
    <3> QED BY <1>2, <1>5, <1>7, <2>2
  <2> QED BY <2>2, <2>3
<1>8. /\ ResponsesEnd <= end /\ ResponsesEnd \in Nat /\ FixedLen <= ResponsesEnd
      /\ \A tlv \in walked :
           IF tlv.type = CFDP_TLV_FILESTORE_RESPONSE THEN tlv.end <= ResponsesEnd
           ELSE tlv.at >= ResponsesEnd
  BY DEF Walk, TypeOK, Finished, ResponsesEnd, FixedLen, end
<1>9. ResponsesEnd <= start
  <2>1. CASE fault
    <3>1. PICK tlv \in walked : tlv.at = start /\ tlv.type = CFDP_TLV_ENTITY_ID
      BY <1>7, <2>1
    <3> QED BY <1>8, <3>1 DEF CFDP_TLV_FILESTORE_RESPONSE, CFDP_TLV_ENTITY_ID
  <2>2. CASE ~ fault
    <3> HIDE DEF start
    <3> QED BY <1>2, <1>8, <2>2
  <2> QED BY <2>1, <2>2
<1>10. start <= ResponsesEnd
  <2>1. CASE start = FixedLen
    <3> HIDE DEF start
    <3> QED BY <1>8, <2>1
  <2>2. CASE start # FixedLen
    <3>1. PICK a \in S : a + CFDP_TLV_HEADER_LEN <= start /\ start = EndOf(field, a)
      <4>1. start \in FixedLen .. Len(field)
        <5> HIDE DEF start
        <5> QED BY <1>1, <1>3 DEF end
      <4> HIDE DEF start
      <4> QED BY <1>1, <2>2, <4>1 DEF IsChain
    <3>2. a < start /\ a < end
      <4>1. start <= end
        <5> HIDE DEF start
        <5> QED BY <1>1, <1>3
      <4> HIDE DEF start
      <4> QED BY <1>2, <1>3, <3>1, <4>1 DEF CFDP_TLV_HEADER_LEN
    <3>3. PICK tlv \in walked : tlv.at = a
      BY <1>5, <3>2
    <3>4. tlv.type = CFDP_TLV_FILESTORE_RESPONSE /\ tlv.end = start
      <4> HIDE DEF start
      <4> QED BY <1>1, <1>5, <3>1, <3>2, <3>3 DEF EndOf
    <3> QED BY <1>8, <3>4
  <2> QED BY <2>1, <2>2
<1>11. ResponsesEnd = start /\ fin.filestore_responses_len = len
  <2>1. ResponsesEnd = start
    <3> HIDE DEF start
    <3> QED BY <1>2, <1>8, <1>9, <1>10
  <2>2. ResponsesEnd = FixedLen + fin.filestore_responses_len /\ fin.filestore_responses_len \in Nat
    BY DEF ResponsesEnd, TypeOK, Finished
  <2> QED BY <1>2, <2>1, <2>2
<1>12. ASSUME fin.fault_location_len # 0
       PROVE  /\ fault /\ fin.fault_location_len = id_len
              /\ fin.fault_location_entity_id = ReadUint(Slice(field, start + 2, end))
  <2>1. PICK tlv \in walked :
          /\ tlv.type = CFDP_TLV_ENTITY_ID /\ tlv.end = end
          /\ tlv.at + CFDP_TLV_HEADER_LEN + fin.fault_location_len = tlv.end
          /\ fin.fault_location_entity_id =
               ReadUint(Slice(field, tlv.at + CFDP_TLV_HEADER_LEN, tlv.end))
    BY <1>12 DEF Walk, end
  <2>2. tlv.at = start /\ fault
    BY <1>6, <2>1
  <2>3. fin.fault_location_len \in Nat
    BY DEF TypeOK, Finished, IdLengths, CFDP_ID_LEN_MIN, CFDP_ID_LEN_MAX
  <2>4. fin.fault_location_len = id_len
    <3> DEFINE l == fin.fault_location_len
    <3>1. start + 2 + l = end
      <4> HIDE DEF start
      <4> QED BY <2>1, <2>2 DEF CFDP_TLV_HEADER_LEN
    <3>2. end = start + 2 + id_len /\ id_len \in Nat /\ start \in Nat
      <4> HIDE DEF start
      <4> QED BY <1>2, <2>2
    <3>3. l \in Nat
      BY <2>3
    <3> HIDE DEF start, l
    <3>4. l = id_len
      BY <3>1, <3>2, <3>3
    <3> QED BY <3>4 DEF l
  <2> QED BY <2>1, <2>2, <2>4 DEF CFDP_TLV_HEADER_LEN
<1>13. fault => fin.fault_location_len # 0
  <2> SUFFICES ASSUME fault, fin.fault_location_len = 0 PROVE FALSE
    OBVIOUS
  <2>1. PICK tlv \in walked : tlv.type = CFDP_TLV_ENTITY_ID
    BY <1>7
  <2> QED BY <2>1 DEF Walk, CFDP_TLV_FILESTORE_RESPONSE, CFDP_TLV_ENTITY_ID
<1> QED BY <1>2, <1>4, <1>11, <1>12, <1>13 DEF fault, id_len

(* A Finished PDU that a peer encoded, with however many responses and     *)
(* whichever identifier, is accepted whole, and decoded as what the peer   *)
(* was told.                                                               *)
THEOREM DecodesAsEncoded == Spec => []RoundTrip
<1>1. ASSUME IInv PROVE RoundTrip
  <2> SUFFICES ASSUME pc = "idle", NEW src \in Sources,
                      field = FinishedSerialize(src, SpanModulus), field # << >>
               PROVE  /\ ret = Len(field)
                      /\ fin.condition_code = src.condition_code
                      /\ fin.delivery_code = src.delivery_code
                      /\ fin.file_status = src.file_status
                      /\ fin.filestore_responses_len = src.filestore_responses_len
                      /\ Slice(field, FixedLen, ResponsesEnd)
                           = Copied(src.filestore_responses, src.filestore_responses_len)
                      /\ IF FaultLocationRequired(src.condition_code)
                         THEN /\ fin.fault_location_len = src.fault_location_len
                              /\ fin.fault_location_entity_id =
                                   Truncated(src.fault_location_entity_id,
                                             src.fault_location_len)
                         ELSE fin.fault_location_len = 0
    BY DEF RoundTrip
  <2>1. TypeOK /\ calls \in Nat /\ calls # 0
    BY <1>1 DEF IInv, WalkInv, TypeOK
  <2> IsSource(src)
    BY SourcesAssumption
  <2>2. EncodedAs(src, field)
    BY EncodedParts DEF IsSource
  <2>3. ChainedAs(src, field)
    BY <2>2, EncodedChain
  <2>4. src.filestore_responses_len \in Nat
    BY DEF IsSource, Encodable
  <2>5. IsFinished(field)
    BY <2>2, <2>3, <2>4, EncodedIsFinished
  <2>6. Decoded
    BY <1>1, <2>1, <2>5 DEF IInv, AcceptsFinished, Decoded
  <2>7. Trail /\ Walk /\ ret = pos /\ pos = Len(field)
    BY <1>1, <2>6 DEF IInv, WalkInv
  <2> QED BY <2>1, <2>2, <2>3, <2>4, <2>7, ReportsEncoded
<1> QED BY <1>1, Invariance, PTL

-----------------------------------------------------------------------------
(* Names                                                                   *)

(* A name's octets, and whether they are there.                            *)
LvWire(lv) == <<lv.len>> \o Copied(lv.value, lv.len)
Sayable(lv) == lv \in Name /\ (lv.value # Null \/ lv.len = 0)

(* How many octets a name has on the wire.                                 *)
LEMMA LvWireType ==
  ASSUME NEW lv, Sayable(lv)
  PROVE  /\ LvWire(lv) \in Seq(Octet) /\ Len(LvWire(lv)) = lv.len + 1
         /\ lv.len \in Nat /\ lv.len \in Octet /\ lv.value \in Pointer
         /\ PointsTo(lv.value, lv.len)
<1>1. lv.len \in Octet /\ lv.value \in Pointer /\ PointsTo(lv.value, lv.len)
      /\ (lv.value # Null \/ lv.len = 0)
  BY DEF Sayable, Name, Lv
<1>2. lv.len \in Nat
  BY <1>1, OctetIsNat
<1> DEFINE head == <<lv.len>>
           octets == Copied(lv.value, lv.len)
<1>3. octets \in Seq(Octet) /\ Len(octets) = lv.len
  BY <1>1, <1>2, CopiedType
<1>4. head \in Seq(Octet) /\ Len(head) = 1
  BY <1>1
<1> HIDE DEF head, octets
<1>5. head \o octets \in Seq(Octet) /\ Len(head \o octets) = 1 + lv.len
  <2>1. Joined(head \o octets, head, octets)
    BY <1>3, <1>4, Join
  <2> QED BY <1>3, <1>4, <2>1 DEF Joined
<1>6. 1 + lv.len = lv.len + 1
  BY <1>2
<1> QED BY <1>1, <1>2, <1>5, <1>6 DEF LvWire, head, octets

(* cfdp_lv_serialize succeeds when there is room for the octets.           *)
LEMMA LvWritten ==
  ASSUME NEW lv \in Name, NEW n \in Int
  PROVE  LvOctets(lv, n) # << >> =>
           Sayable(lv) /\ LvOctets(lv, n) = LvWire(lv) /\ lv.len + 1 <= n
<1>1. lv.len \in Nat
  BY OctetIsNat DEF Name, Lv
<1> QED BY <1>1 DEF LvOctets, LvSerialize, Sayable, LvWire, CFDP_LV_HEADER_LEN

(* A name is encoded as its octets where there is room.                    *)
LEMMA LvWritable ==
  ASSUME NEW lv, Sayable(lv), NEW n \in Int, lv.len + 1 <= n
  PROVE  LvOctets(lv, n) = LvWire(lv)
<1>1. lv.len \in Nat
  BY LvWireType
<1> QED BY <1>1 DEF LvOctets, LvSerialize, Sayable, LvWire, CFDP_LV_HEADER_LEN

(* What is read at a place where a name stands.                            *)
LEMMA LvReads ==
  ASSUME NEW lv, Sayable(lv), NEW front \in Seq(Octet), NEW back \in Seq(Octet),
         NEW buf, buf = front \o (LvWire(lv) \o back)
  PROVE  /\ LvAt(buf, Len(front)).ret = lv.len + 1
         /\ LvOf(LvAt(buf, Len(front))) = LvTold(lv)
<1> DEFINE octets == LvWire(lv)
           rest == octets \o back
<1>1. /\ octets \in Seq(Octet) /\ Len(octets) = lv.len + 1 /\ lv.len \in Nat
      /\ lv.len \in Octet /\ lv.value \in Pointer /\ PointsTo(lv.value, lv.len)
  BY LvWireType
<1> DEFINE n == lv.len + 1
<1>2. octets = LvSerialize(lv.value, lv.len, n)
  <2>1. n \in Int /\ n <= n
    BY <1>1
  <2> QED BY <1>1, <2>1, LvWritable DEF LvOctets
<1>3. octets # << >>
  BY <1>1
<1>4. LvReadAs(octets, rest, lv.value, lv.len)
  <2> HIDE DEF n, octets
  <2> QED BY <1>1, <1>2, <1>3, LvReadBack
<1> HIDE DEF octets
<1>5. rest \in Seq(Octet)
  BY <1>1, ConcatProperties
<1> HIDE DEF rest
<1>6. Joined(front \o rest, front, rest)
  BY <1>5, Join
<1>7. Slice(buf, Len(front), Len(buf)) = rest
  BY <1>6 DEF Joined, octets, rest
<1>8. LvAt(buf, Len(front)) = [ret |-> lv.len + 1, value |-> Told(lv.value, lv.len),
                               len |-> lv.len]
  BY <1>4, <1>7 DEF LvAt, LvReadAs
<1>9. lv \in Lv
  BY DEF Sayable, Name
<1>10. LvTold(lv) = [value |-> Told(lv.value, lv.len), len |-> lv.len]
  BY <1>9 DEF LvTold, Lv
<1> QED BY <1>8, <1>10 DEF LvOf

(* What arrives of a name is sent on as it is.                             *)
LEMMA LvToldType ==
  ASSUME NEW lv \in Name
  PROVE  /\ LvTold(lv) \in Name /\ LvTold(LvTold(lv)) = LvTold(lv)
         /\ LvTold(lv).len = lv.len
         /\ Sayable(lv) => Sayable(LvTold(lv)) /\ LvWire(LvTold(lv)) = LvWire(lv)
<1> DEFINE value == lv.value
           len == lv.len
           octets == Copied(value, len)
           told == Told(value, len)
<1>1. value \in Pointer /\ len \in Octet /\ PointsTo(value, len) /\ lv \in Lv
  BY DEF Name, Lv
<1>2. len \in Nat
  BY <1>1, OctetIsNat
<1>3. LvTold(lv) = [value |-> told, len |-> len]
  BY <1>1 DEF LvTold, Lv
<1>4. told \in Pointer
  BY <1>1, <1>2, ToldType
<1>5. CASE value = Null \/ len = 0
  <2>1. told = Null
    BY <1>5 DEF Told
  <2>2. Told(told, len) = Null
    BY <2>1 DEF Told
  <2>3. len = 0 => Copied(told, len) = octets
    BY DEF Copied
  <2>4. PointsTo(told, len)
    BY <2>1 DEF PointsTo
  <2> HIDE DEF told, octets
  <2>5. LvTold(lv) \in Name
    BY <1>1, <1>3, <1>4, <2>4 DEF Name, Lv
  <2>6. LvTold(LvTold(lv)) = LvTold(lv)
    BY <1>3, <2>1, <2>2 DEF LvTold
  <2> QED BY <1>3, <1>5, <2>1, <2>3, <2>5, <2>6 DEF Sayable, LvWire, octets
<1>6. CASE value # Null /\ len # 0
  <2>1. told = PointerTo(octets) /\ octets \in Seq(Octet) /\ Len(octets) = len
    BY <1>1, <1>2, <1>6, CopiedType DEF Told
  <2> HIDE DEF octets, told
  <2>2. told # Null /\ told[1] = octets
    BY <2>1 DEF PointerTo, Null
  <2>3. Copied(told, len) = octets
    <3>1. Copied(told, len) = Slice(octets, 0, len)
      BY <1>6, <2>2 DEF Copied
    <3>2. Slice(octets, 0, len) = SubSeq(octets, 1, Len(octets))
      BY <2>1 DEF Slice
    <3>3. SubSeq(octets, 1, Len(octets)) = octets
      BY <2>1, SubSeqFull
    <3> QED BY <3>1, <3>2, <3>3
  <2>4. Told(told, len) = told
    BY <1>6, <2>1, <2>2, <2>3 DEF Told
  <2>5. PointsTo(told, len)
    BY <1>2, <2>1, <2>2 DEF PointsTo
  <2>6. LvTold(lv) \in Name
    BY <1>1, <1>3, <1>4, <2>5 DEF Name, Lv
  <2>7. LvTold(LvTold(lv)) = LvTold(lv)
    BY <1>3, <2>4 DEF LvTold
  <2> QED BY <1>3, <2>2, <2>3, <2>6, <2>7 DEF Sayable, LvWire, octets
<1> QED BY <1>3, <1>5, <1>6

(* The names of a request or a response.                                   *)
NamesWire(r) ==
  IF HasSecondFilename(r.action_code)
  THEN LvWire(r.first_filename) \o LvWire(r.second_filename)
  ELSE LvWire(r.first_filename)
SayableNames(r) ==
  /\ Sayable(r.first_filename)
  /\ HasSecondFilename(r.action_code) => Sayable(r.second_filename)

(* The same for one or two names.                                          *)
LEMMA NamesWireType ==
  ASSUME NEW r, SayableNames(r)
  PROVE  /\ NamesWire(r) \in Seq(Octet) /\ Len(NamesWire(r)) \in Nat
         /\ Len(NamesWire(r)) >= r.first_filename.len + 1 /\ r.first_filename.len \in Nat
         /\ HasSecondFilename(r.action_code) =>
              /\ r.second_filename.len \in Nat
              /\ Len(NamesWire(r)) = (r.first_filename.len + 1) + (r.second_filename.len + 1)
         /\ ~ HasSecondFilename(r.action_code) =>
              Len(NamesWire(r)) = r.first_filename.len + 1
<1> DEFINE first == LvWire(r.first_filename)
           second == LvWire(r.second_filename)
<1>1. /\ first \in Seq(Octet) /\ Len(first) = r.first_filename.len + 1
      /\ r.first_filename.len \in Nat
  BY LvWireType DEF SayableNames
<1>2. CASE HasSecondFilename(r.action_code)
  <2>1. /\ second \in Seq(Octet) /\ Len(second) = r.second_filename.len + 1
        /\ r.second_filename.len \in Nat
    BY <1>2, LvWireType DEF SayableNames
  <2>2. NamesWire(r) = first \o second
    BY <1>2 DEF NamesWire
  <2> HIDE DEF first, second
  <2>3. Joined(NamesWire(r), first, second)
    BY <1>1, <2>1, <2>2, Join
  <2>4. NamesWire(r) \in Seq(Octet) /\ Len(NamesWire(r)) = Len(first) + Len(second)
    BY <2>3 DEF Joined
  <2> DEFINE a == r.first_filename.len
             b == r.second_filename.len
             w == Len(NamesWire(r))
  <2>5. a \in Nat /\ b \in Nat /\ w = (a + 1) + (b + 1)
    BY <1>1, <2>1, <2>4
  <2> HIDE DEF a, b, w
  <2>6. w \in Nat /\ w >= a + 1
    BY <2>5
  <2> QED BY <1>2, <2>4, <2>5, <2>6 DEF a, b, w
<1>3. CASE ~ HasSecondFilename(r.action_code)
  BY <1>1, <1>3 DEF NamesWire
<1> QED BY <1>2, <1>3

(* cfdp_filestore_names_serialize succeeds when there is room for them.    *)
LEMMA NamesWritten ==
  ASSUME NEW r, r.first_filename \in Name, r.second_filename \in Name, NEW n \in Int,
         NamesSerialize(r, n) # << >>
  PROVE  /\ SayableNames(r) /\ NamesSerialize(r, n) = NamesWire(r)
         /\ Len(NamesWire(r)) <= n
<1> DEFINE first == LvOctets(r.first_filename, n)
           room == n - Len(first)
           second == LvOctets(r.second_filename, room)
<1>1. first # << >>
  BY DEF NamesSerialize
<1>2. /\ Sayable(r.first_filename) /\ first = LvWire(r.first_filename)
      /\ r.first_filename.len + 1 <= n
  BY <1>1, LvWritten
<1>3. Len(first) = r.first_filename.len + 1 /\ r.first_filename.len \in Nat
  BY <1>2, LvWireType
<1>4. CASE HasSecondFilename(r.action_code)
  <2>1. second # << >>
    BY <1>1, <1>4 DEF NamesSerialize
  <2>2. room \in Int
    <3> HIDE DEF first
    <3> QED BY <1>3
  <2>3. /\ Sayable(r.second_filename) /\ second = LvWire(r.second_filename)
        /\ r.second_filename.len + 1 <= room
    <3> HIDE DEF room
    <3> QED BY <2>1, <2>2, LvWritten
  <2>4. NamesSerialize(r, n) = first \o second
    BY <1>1, <1>4, <2>1 DEF NamesSerialize
  <2>5. SayableNames(r)
    BY <1>2, <2>3 DEF SayableNames
  <2>6. NamesSerialize(r, n) = NamesWire(r)
    BY <1>2, <1>4, <2>3, <2>4 DEF NamesWire
  <2>7. Len(NamesWire(r)) = (r.first_filename.len + 1) + (r.second_filename.len + 1)
        /\ r.second_filename.len \in Nat
    BY <1>4, <2>5, NamesWireType
  <2>8. Len(NamesWire(r)) <= n
    <3> DEFINE a == r.first_filename.len
               b == r.second_filename.len
    <3>1. a \in Nat /\ b \in Nat /\ b + 1 <= n - (a + 1)
      BY <1>3, <2>3, <2>7
    <3> HIDE DEF a, b
    <3>2. (a + 1) + (b + 1) <= n
      BY <3>1
    <3> QED BY <2>7, <3>2 DEF a, b
  <2> QED BY <2>5, <2>6, <2>8
<1>5. CASE ~ HasSecondFilename(r.action_code)
  <2>1. NamesSerialize(r, n) = first
    BY <1>1, <1>5 DEF NamesSerialize
  <2>2. NamesWire(r) = first /\ SayableNames(r)
    BY <1>2, <1>5 DEF NamesWire, SayableNames
  <2> QED BY <1>2, <1>3, <2>1, <2>2
<1> QED BY <1>4, <1>5

(* They are encoded as their octets where there is room.                   *)
LEMMA NamesWritable ==
  ASSUME NEW r, SayableNames(r), NEW n \in Int, Len(NamesWire(r)) <= n
  PROVE  NamesSerialize(r, n) = NamesWire(r)
<1> DEFINE first == LvOctets(r.first_filename, n)
           room == n - Len(first)
           second == LvOctets(r.second_filename, room)
<1>1. Sayable(r.first_filename) /\ (HasSecondFilename(r.action_code) => Sayable(r.second_filename))
  BY DEF SayableNames
<1>2. /\ Len(NamesWire(r)) \in Nat
      /\ Len(NamesWire(r)) >= r.first_filename.len + 1 /\ r.first_filename.len \in Nat
      /\ HasSecondFilename(r.action_code) =>
           /\ r.second_filename.len \in Nat
           /\ Len(NamesWire(r)) = (r.first_filename.len + 1) + (r.second_filename.len + 1)
  BY NamesWireType
<1>3. r.first_filename.len + 1 <= n
  BY <1>2
<1>4. first = LvWire(r.first_filename)
  BY <1>1, <1>3, LvWritable
<1>5. Len(first) = r.first_filename.len + 1
  BY <1>1, <1>4, LvWireType
<1>6. first # << >>
  <2> HIDE DEF first
  <2>1. Len(first) # 0
    BY <1>2, <1>5
  <2> QED BY <2>1
<1>7. CASE HasSecondFilename(r.action_code)
  <2>1. room \in Int /\ r.second_filename.len + 1 <= room
    <3> DEFINE a == r.first_filename.len
               b == r.second_filename.len
    <3>1. a \in Nat /\ b \in Nat /\ (a + 1) + (b + 1) <= n
      BY <1>2, <1>7
    <3>2. room = n - (a + 1)
      BY <1>5
    <3> HIDE DEF a, b, room
    <3>3. room \in Int /\ b + 1 <= room
      BY <3>1, <3>2
    <3> QED BY <3>3 DEF b
  <2>2. second = LvWire(r.second_filename)
    <3> HIDE DEF room
    <3> QED BY <1>1, <1>7, <2>1, LvWritable
  <2>3. second # << >>
    <3>1. Len(second) = r.second_filename.len + 1
      BY <1>1, <1>7, <2>2, LvWireType
    <3> HIDE DEF second
    <3>2. Len(second) # 0
      BY <1>2, <1>7, <3>1
    <3> QED BY <3>2
  <2> QED BY <1>4, <1>6, <1>7, <2>2, <2>3 DEF NamesSerialize, NamesWire
<1>8. CASE ~ HasSecondFilename(r.action_code)
  BY <1>4, <1>8 DEF NamesSerialize, NamesWire
<1> QED BY <1>7, <1>8

(* cfdp_filestore_names_deserialize finds the second name behind the first.*)
LEMMA NamesRead ==
  ASSUME NEW r, SayableNames(r), NEW back \in Seq(Octet), NEW q,
         q.action_code = r.action_code
  PROVE  LET named == [q EXCEPT !.first_filename = LvTold(r.first_filename)]
         IN NamesDeserialize(NamesWire(r) \o back, q)
              = [ret |-> Len(NamesWire(r)),
                 tlv |-> IF HasSecondFilename(r.action_code)
                         THEN [named EXCEPT !.second_filename = LvTold(r.second_filename)]
                         ELSE named]
<1> DEFINE one == LvWire(r.first_filename)
           two == LvWire(r.second_filename)
           none == << >>
           buf == NamesWire(r) \o back
           first == LvAt(buf, 0)
           second == LvAt(buf, first.ret)
           has == HasSecondFilename(r.action_code)
           named == [q EXCEPT !.first_filename = LvTold(r.first_filename)]
           rest == IF has THEN two \o back ELSE back
<1>1. Sayable(r.first_filename) /\ (has => Sayable(r.second_filename))
  BY DEF SayableNames
<1>2. /\ one \in Seq(Octet) /\ Len(one) = r.first_filename.len + 1
      /\ r.first_filename.len \in Nat
  BY <1>1, LvWireType
<1>3. has => /\ two \in Seq(Octet) /\ Len(two) = r.second_filename.len + 1
             /\ r.second_filename.len \in Nat
  BY <1>1, LvWireType
<1>4. buf = one \o rest /\ rest \in Seq(Octet)
  <2>1. CASE has
    <3>1. buf = (one \o two) \o back
      BY <2>1 DEF NamesWire
    <3> HIDE DEF one, two
    <3>2. (one \o two) \o back = one \o (two \o back)
      BY <1>2, <1>3, <2>1, ConcatRegroups
    <3>3. two \o back \in Seq(Octet)
      BY <1>3, <2>1, ConcatProperties
    <3> QED BY <2>1, <3>1, <3>2, <3>3
  <2>2. CASE ~ has
    BY <2>2 DEF NamesWire
  <2> QED BY <2>1, <2>2
<1>5. none \in Seq(Octet) /\ Len(none) = 0
  OBVIOUS
<1> HIDE DEF rest, none, has
<1>6. buf = none \o (one \o rest)
  <2> HIDE DEF one, buf
  <2>1. one \o rest \in Seq(Octet)
    BY <1>2, <1>4, ConcatProperties
  <2> QED BY <1>4, <2>1, ConcatEmptySeq DEF none
<1>7. first.ret = Len(one) /\ LvOf(first) = LvTold(r.first_filename)
  <2> HIDE DEF buf
  <2>1. /\ LvAt(buf, Len(none)).ret = r.first_filename.len + 1
        /\ LvOf(LvAt(buf, Len(none))) = LvTold(r.first_filename)
    <3> DEFINE lv == r.first_filename
    <3>1. Sayable(lv) /\ buf = none \o (LvWire(lv) \o rest)
      BY <1>1, <1>6
    <3> HIDE DEF lv
    <3>2. /\ LvAt(buf, Len(none)).ret = lv.len + 1
          /\ LvOf(LvAt(buf, Len(none))) = LvTold(lv)
      BY ONLY <1>4, <1>5, <3>1, LvReads
    <3> QED BY <3>2 DEF lv
  <2> QED BY <1>2, <1>5, <2>1
<1>8. has => second.ret = Len(two) /\ LvOf(second) = LvTold(r.second_filename)
  <2> SUFFICES ASSUME has PROVE second.ret = Len(two) /\ LvOf(second) = LvTold(r.second_filename)
    OBVIOUS
  <2>1. buf = one \o (two \o back)
    BY <1>4 DEF rest
  <2> HIDE DEF buf, one
  <2>2. /\ LvAt(buf, Len(one)).ret = r.second_filename.len + 1
        /\ LvOf(LvAt(buf, Len(one))) = LvTold(r.second_filename)
    BY <1>1, <1>2, <2>1, LvReads, ZenonT(30)
  <2> QED BY <1>3, <1>7, <2>2
<1>9. first.ret # 0 /\ (has => second.ret # 0)
  <2> HIDE DEF first, second, one, two
  <2> QED BY <1>2, <1>3, <1>7, <1>8
<1>10. Len(NamesWire(r)) = IF has THEN Len(one) + Len(two) ELSE Len(one)
  <2>1. CASE has
    <3>1. NamesWire(r) = one \o two
      BY <2>1 DEF NamesWire, has
    <3> HIDE DEF one, two
    <3>2. Joined(one \o two, one, two)
      BY <1>2, <1>3, <2>1, Join
    <3> QED BY <2>1, <3>1, <3>2 DEF Joined
  <2>2. CASE ~ has
    BY <2>2 DEF NamesWire, has
  <2> QED BY <2>1, <2>2
<1>11. HasSecondFilename(q.action_code) = has
  BY DEF has
<1>12. NamesDeserialize(buf, q) =
         IF ~ has THEN [ret |-> first.ret, tlv |-> [q EXCEPT !.first_filename = LvOf(first)]]
         ELSE [ret |-> first.ret + second.ret,
               tlv |-> [[q EXCEPT !.first_filename = LvOf(first)]
                          EXCEPT !.second_filename = LvOf(second)]]
  <2> HIDE DEF buf
  <2> QED BY <1>9, <1>11 DEF NamesDeserialize
<1> HIDE DEF first, second, buf, one, two
<1>13. NamesDeserialize(buf, q) =
         [ret |-> Len(NamesWire(r)),
          tlv |-> IF has THEN [named EXCEPT !.second_filename = LvTold(r.second_filename)]
                  ELSE named]
  BY <1>7, <1>8, <1>10, <1>12
<1> QED BY <1>13 DEF buf, has

-----------------------------------------------------------------------------
(* Parameters                                                              *)

(* The octets of one TLV, by themselves.                                   *)
IsTlv(type, octets) ==
  /\ octets \in Seq(Octet) /\ Len(octets) \in Nat /\ Len(octets) >= 2
  /\ At(octets, 0) = type /\ At(octets, 1) \in Octet /\ Len(octets) = At(octets, 1) + 2

(* Wherever they stand, they are found to be that TLV.                     *)
LEMMA TlvFound ==
  ASSUME NEW type, NEW octets, IsTlv(type, octets), NEW back \in Seq(Octet)
  PROVE  LET buf == octets \o back
         IN /\ buf \in Seq(Octet) /\ TlvSize(buf) = Len(octets) /\ TlvSize(buf) > 0
            /\ At(buf, 0) = type /\ At(buf, 1) = At(octets, 1)
<1> DEFINE buf == octets \o back
<1>1. octets \in Seq(Octet) /\ Len(octets) \in Nat /\ Len(octets) >= 2
      /\ At(octets, 0) = type /\ At(octets, 1) \in Octet /\ Len(octets) = At(octets, 1) + 2
  BY DEF IsTlv
<1>2. Joined(buf, octets, back)
  BY <1>1, Join
<1> HIDE DEF buf
<1>3. buf \in Seq(Octet) /\ Len(buf) = Len(octets) + Len(back) /\ Len(back) \in Nat
  BY <1>2, LenProperties DEF Joined
<1>4. At(buf, 0) = type /\ At(buf, 1) = At(octets, 1)
  <2>1. 0 \in Nat /\ 1 \in Nat /\ 0 < Len(octets) /\ 1 < Len(octets)
    BY <1>1
  <2> QED BY <1>1, <1>2, <2>1 DEF Joined
<1>5. ~ (Len(buf) < 2) /\ ~ (Len(buf) < At(octets, 1) + 2)
  BY <1>1, <1>3
<1>6. TlvSize(buf) = Len(octets)
  BY <1>1, <1>4, <1>5 DEF TlvSize, CFDP_TLV_HEADER_LEN
<1>7. TlvSize(buf) > 0
  BY <1>1, <1>6
<1> QED BY <1>3, <1>4, <1>6, <1>7 DEF buf

(* A type, the number of octets of a value, and the value.                 *)
LEMMA TlvOf ==
  ASSUME NEW type \in Octet, NEW value \in Seq(Octet), Len(value) <= 255,
         NEW octets, octets = <<type, Len(value)>> \o value
  PROVE  /\ IsTlv(type, octets) /\ Len(octets) = Len(value) + 2
         /\ At(octets, 1) = Len(value) /\ Slice(octets, 2, Len(octets)) = value
<1> DEFINE head == <<type, Len(value)>>
<1>1. Len(value) \in Nat /\ Len(value) \in Octet
  <2> DEFINE len == Len(value)
  <2>1. len \in Nat /\ len <= 255
    BY LenProperties
  <2> HIDE DEF len
  <2>2. len \in Octet
    BY ONLY <2>1 DEF Octet
  <2> QED BY <2>1, <2>2 DEF len
<1>2. head \in Seq(Octet) /\ Len(head) = 2 /\ At(head, 0) = type /\ At(head, 1) = Len(value)
  BY <1>1 DEF At
<1> HIDE DEF head
<1>3. Joined(octets, head, value)
  BY <1>2, Join DEF head
<1>4. octets \in Seq(Octet) /\ Len(octets) = 2 + Len(value)
      /\ At(octets, 0) = type /\ At(octets, 1) = Len(value)
      /\ Slice(octets, 2, Len(octets)) = value
  <2>1. 0 \in Nat /\ 1 \in Nat /\ 0 < Len(head) /\ 1 < Len(head)
    BY <1>2
  <2> QED BY <1>2, <1>3, <2>1 DEF Joined
<1>5. Len(octets) = Len(value) + 2 /\ Len(octets) \in Nat /\ Len(octets) >= 2
  BY <1>1, <1>4
<1> QED BY <1>1, <1>4, <1>5 DEF IsTlv

(* A value that begins with an octet of codes and goes on with names.      *)
TlvFrom(octets, type, code, names) ==
  LET value == <<code>> \o names
  IN octets = <<type, Len(value)>> \o value

(* A buffer that begins with a TLV of a code and names reads as one.       *)
LEMMA CodedTlv ==
  ASSUME NEW type \in Octet, NEW code \in Octet, NEW names \in Seq(Octet),
         Len(names) + 1 <= 255, NEW back \in Seq(Octet),
         NEW octets, TlvFrom(octets, type, code, names)
  PROVE  LET buf == octets \o back
         IN /\ IsTlv(type, octets) /\ Len(octets) = Len(names) + 3 /\ Len(names) \in Nat
            /\ TlvSize(buf) = Len(octets) /\ At(buf, 0) = type
            /\ At(buf, 1) = Len(names) + 1 /\ At(buf, 2) = code /\ NamesOf(buf) = names
<1> DEFINE value == <<code>> \o names
           head == <<code>>
           buf == octets \o back
           len == Len(names)
<1>1. head \in Seq(Octet) /\ Len(head) = 1 /\ At(head, 0) = code /\ len \in Nat
  BY LenProperties DEF At
<1> HIDE DEF head
<1>2. Joined(value, head, names) /\ octets = <<type, Len(value)>> \o value
  <2>1. octets = <<type, Len(value)>> \o value
    BY DEF TlvFrom
  <2>2. value = head \o names
    BY DEF head
  <2> HIDE DEF value
  <2> QED BY <1>1, <2>1, <2>2, Join
<1> HIDE DEF value
<1>3. value \in Seq(Octet) /\ Len(value) = 1 + len /\ At(value, 0) = code
      /\ Slice(value, 1, Len(value)) = names
  <2>1. 0 \in Nat /\ 0 < Len(head)
    BY <1>1
  <2> QED BY <1>1, <1>2, <2>1 DEF Joined
<1>4. Len(value) <= 255 /\ Len(value) = len + 1
  BY <1>1, <1>3
<1>5. /\ IsTlv(type, octets) /\ Len(octets) = Len(value) + 2
      /\ At(octets, 1) = Len(value) /\ Slice(octets, 2, Len(octets)) = value
  BY <1>2, <1>3, <1>4, TlvOf, ZenonT(40)
<1>6. /\ buf \in Seq(Octet) /\ TlvSize(buf) = Len(octets)
      /\ At(buf, 0) = type /\ At(buf, 1) = At(octets, 1)
  BY ONLY <1>5, back \in Seq(Octet), TlvFound
<1>7. Joined(buf, octets, back) /\ octets \in Seq(Octet) /\ Len(octets) = len + 3
      /\ Len(octets) \in Nat
  <2>1. octets \in Seq(Octet)
    BY <1>5 DEF IsTlv
  <2>2. Joined(buf, octets, back)
    BY ONLY <2>1, back \in Seq(Octet), Join
  <2> HIDE DEF len, buf
  <2>3. Len(octets) = len + 3
    BY <1>1, <1>4, <1>5
  <2>4. len + 3 \in Nat
    BY <1>1
  <2> QED BY <2>1, <2>2, <2>3, <2>4
<1> HIDE DEF buf, len
<1>8. At(buf, 2) = code
  <2>1. 2 \in Nat /\ 2 < Len(octets) /\ 0 \in Nat /\ 0 < Len(octets) - 2 /\ 2 + 0 = 2
        /\ 2 <= Len(octets) /\ Len(octets) <= Len(octets)
    BY <1>1, <1>7
  <2>2. At(buf, 2) = At(octets, 2)
    BY <1>7, <2>1 DEF Joined
  <2>3. At(Slice(octets, 2, Len(octets)), 0) = At(octets, 2 + 0)
    BY ONLY <1>7, <2>1, SliceAt
  <2> QED BY <1>3, <1>5, <2>1, <2>2, <2>3
<1>9. NamesOf(buf) = names
  <2> DEFINE end == Len(octets)
  <2>1. end \in Nat /\ 0 <= end /\ 0 \in Nat /\ 3 \in Nat /\ 3 <= end /\ end <= end /\ end <= Len(buf)
        /\ end <= end - 0 /\ 0 + 3 = 3 /\ 0 + end = end /\ 2 \in Nat /\ 1 \in Nat
        /\ 2 <= end /\ 1 <= end - 2 /\ 2 + 1 = 3 /\ 2 + (end - 2) = end /\ end - 2 \in Nat
        /\ end - 2 <= end - 2 /\ Len(value) = end - 2
    <3>1. Len(back) \in Nat /\ Len(buf) = Len(octets) + Len(back)
      BY <1>7, LenProperties DEF Joined
    <3> QED BY <1>1, <1>4, <1>7, <3>1
  <2> HIDE DEF end
  <2>2. Slice(Slice(buf, 0, end), 3, end) = Slice(buf, 0 + 3, 0 + end)
    BY <1>6, <2>1, SliceOfSlice
  <2>3. Slice(buf, 0, end) = octets
    BY <1>7 DEF Joined, end
  <2>4. Slice(Slice(octets, 2, end), 1, end - 2) = Slice(octets, 2 + 1, 2 + (end - 2))
    <3> DEFINE to == end - 2
    <3>1. to \in Nat /\ 1 <= to /\ to <= end - 2
      BY <2>1
    <3>2. octets \in Seq(Octet) /\ end <= Len(octets)
      BY <1>7, <2>1 DEF end
    <3> HIDE DEF to
    <3>3. Slice(Slice(octets, 2, end), 1, to) = Slice(octets, 2 + 1, 2 + to)
      BY ONLY <2>1, <3>1, <3>2, SliceOfSlice
    <3> QED BY <3>3 DEF to
  <2>5. Slice(octets, 2, end) = value
    BY <1>5 DEF end
  <2>6. Slice(octets, 3, end) = names
    BY <1>3, <2>1, <2>4, <2>5
  <2>7. Slice(buf, 3, end) = names
    BY <2>1, <2>2, <2>3, <2>6
  <2> QED BY <1>6, <2>7 DEF NamesOf, CFDP_TLV_HEADER_LEN, end
<1> QED BY <1>1, <1>4, <1>5, <1>6, <1>7, <1>8, <1>9 DEF buf, len

-----------------------------------------------------------------------------
(* Requests and responses                                                  *)

(* An action, and a status, in one octet.                                  *)
LEMMA CodeOctet ==
  ASSUME NEW a \in Octet, ActionValid(a), NEW status \in 0 .. 15
  PROVE  /\ 16 * a \in Octet /\ (16 * a) \div 16 = a
         /\ 16 * a + status \in Octet /\ (16 * a + status) \div 16 = a
         /\ (16 * a + status) % 16 = status
<1>1. a \in 0 .. 8
  BY DEF ActionValid, Octet, CFDP_FS_ACTION_DENY_DIRECTORY
<1> QED BY <1>1 DEF Octet

RequestWire(req) ==
  LET value == <<16 * req.action_code>> \o NamesWire(req)
  IN <<CFDP_TLV_FILESTORE_REQUEST, Len(value)>> \o value

(* What can be sent as a request.                                          *)
Requested(req) ==
  /\ ActionValid(req.action_code) /\ SayableNames(req) /\ Len(NamesWire(req)) + 1 <= 255

(* What arrives of it.                                                     *)
RequestTold(req) ==
  [req EXCEPT !.first_filename = LvTold(@), !.second_filename = SecondTold(req)]

RequestFields == [action_code : Octet, first_filename : Name, second_filename : Name]

(* cfdp_filestore_request_tlv_serialize succeeds exactly when there is     *)
(* room in the buffer and in the length octet.                             *)
LEMMA RequestWritten ==
  ASSUME NEW req \in RequestFields, NEW n \in Int, RequestSerialize(req, n) # << >>
  PROVE  /\ Requested(req) /\ RequestSerialize(req, n) = RequestWire(req)
         /\ Len(NamesWire(req)) + 3 <= n
<1> DEFINE room == n - CFDP_TLV_HEADER_LEN - 1
           names == NamesSerialize(req, room)
           value == <<16 * req.action_code>> \o names
<1>1. /\ ~ (n < 3) /\ ActionValid(req.action_code) /\ names # << >>
      /\ RequestSerialize(req, n) = FilestoreTlvFinish(CFDP_TLV_FILESTORE_REQUEST, value)
  BY DEF RequestSerialize, CFDP_TLV_HEADER_LEN
<1>2. ~ (Len(value) > 255)
      /\ RequestSerialize(req, n) = <<CFDP_TLV_FILESTORE_REQUEST, Len(value)>> \o value
  BY <1>1 DEF FilestoreTlvFinish, UINT8_MAX
<1>3. room \in Int /\ room = n - 3
  BY DEF CFDP_TLV_HEADER_LEN
<1>4. req.first_filename \in Name /\ req.second_filename \in Name /\ req.action_code \in Octet
  BY DEF RequestFields
<1> HIDE DEF room
<1>5. SayableNames(req) /\ names = NamesWire(req) /\ Len(NamesWire(req)) <= room
  BY <1>1, <1>3, <1>4, NamesWritten
<1>6. NamesWire(req) \in Seq(Octet) /\ Len(NamesWire(req)) \in Nat
  BY <1>5, NamesWireType
<1>7. Len(value) = 1 + Len(NamesWire(req))
  <2> DEFINE wire == NamesWire(req)
             code == 16 * req.action_code
             head == <<code>>
  <2>1. code \in Octet
    BY <1>1, <1>4, CodeOctet
  <2> HIDE DEF code
  <2>2. head \in Seq(Octet) /\ Len(head) = 1 /\ wire \in Seq(Octet)
    BY <1>6, <2>1
  <2> HIDE DEF wire, head
  <2>3. Joined(head \o wire, head, wire)
    BY <2>2, Join
  <2>4. Len(head \o wire) = 1 + Len(wire)
    BY <2>2, <2>3 DEF Joined
  <2> QED BY <1>5, <2>4 DEF wire, head, code
<1>8. RequestSerialize(req, n) = RequestWire(req)
  BY <1>2, <1>5 DEF RequestWire
<1> DEFINE len == Len(NamesWire(req))
<1>9. len + 1 <= 255 /\ len + 3 <= n
  <2>1. len \in Nat /\ ~ (1 + len > 255) /\ len <= n - 3
    BY <1>2, <1>3, <1>5, <1>6, <1>7
  <2> HIDE DEF len
  <2> QED BY <2>1
<1> QED BY <1>1, <1>5, <1>8, <1>9 DEF Requested

(* What the parts of a request are.                                        *)
LEMMA RequestParts ==
  ASSUME NEW req \in RequestFields, Requested(req), NEW back \in Seq(Octet)
  PROVE  LET octets == RequestWire(req)
             buf == octets \o back
         IN /\ IsTlv(CFDP_TLV_FILESTORE_REQUEST, octets)
            /\ Len(octets) = Len(NamesWire(req)) + 3
            /\ Len(NamesWire(req)) \in Nat /\ Len(NamesWire(req)) > 0
            /\ TlvSize(buf) = Len(octets) /\ At(buf, 0) = CFDP_TLV_FILESTORE_REQUEST
            /\ At(buf, 1) = Len(NamesWire(req)) + 1 /\ At(buf, 2) = 16 * req.action_code
            /\ NamesOf(buf) = NamesWire(req)
<1> DEFINE code == 16 * req.action_code
           names == NamesWire(req)
           value == <<code>> \o names
           octets == <<CFDP_TLV_FILESTORE_REQUEST, Len(value)>> \o value
<1>1. code \in Octet
  BY CodeOctet DEF Requested, RequestFields
<1>2. /\ names \in Seq(Octet) /\ Len(names) \in Nat /\ Len(names) > 0
      /\ Len(names) + 1 <= 255
  <2>1. /\ names \in Seq(Octet) /\ Len(names) \in Nat
        /\ Len(names) >= req.first_filename.len + 1 /\ req.first_filename.len \in Nat
    BY NamesWireType DEF Requested
  <2> HIDE DEF names
  <2>2. Len(names) > 0
    BY <2>1
  <2> QED BY <2>1, <2>2 DEF Requested, names
<1>3. octets = RequestWire(req)
  BY DEF RequestWire
<1>4. CFDP_TLV_FILESTORE_REQUEST \in Octet
  BY DEF CFDP_TLV_FILESTORE_REQUEST, Octet
<1> HIDE DEF code, names, octets
<1>5. LET buf == octets \o back
      IN /\ IsTlv(CFDP_TLV_FILESTORE_REQUEST, octets) /\ Len(octets) = Len(names) + 3
         /\ Len(names) \in Nat
         /\ TlvSize(buf) = Len(octets) /\ At(buf, 0) = CFDP_TLV_FILESTORE_REQUEST
         /\ At(buf, 1) = Len(names) + 1 /\ At(buf, 2) = code /\ NamesOf(buf) = names
  <2>1. TlvFrom(octets, CFDP_TLV_FILESTORE_REQUEST, code, names)
    BY DEF octets, TlvFrom
  <2> QED BY ONLY <1>1, <1>2, <1>4, <2>1, back \in Seq(Octet), CodedTlv
<1> QED BY <1>2, <1>3, <1>5 DEF names, code

(* A request is encoded as its octets where there is room.                 *)
LEMMA RequestWritable ==
  ASSUME NEW req \in RequestFields, Requested(req), NEW n \in Int,
         Len(NamesWire(req)) + 3 <= n
  PROVE  RequestSerialize(req, n) = RequestWire(req)
<1> DEFINE room == n - CFDP_TLV_HEADER_LEN - 1
           names == NamesSerialize(req, room)
           value == <<16 * req.action_code>> \o names
           len == Len(NamesWire(req))
<1>1. ActionValid(req.action_code) /\ SayableNames(req) /\ len + 1 <= 255
  BY DEF Requested
<1>2. len \in Nat /\ len > 0 /\ Len(RequestWire(req)) = len + 3
  <2>1. << >> \in Seq(Octet)
    OBVIOUS
  <2> QED BY <2>1, RequestParts
<1>3. room \in Int /\ len <= room /\ ~ (n < CFDP_TLV_HEADER_LEN + 1)
  <2> HIDE DEF len
  <2>1. len + 3 <= n
    BY DEF len
  <2> QED BY <1>2, <2>1 DEF CFDP_TLV_HEADER_LEN
<1>4. names = NamesWire(req)
  <2> HIDE DEF room
  <2> QED BY <1>1, <1>3, NamesWritable
<1>5. names # << >>
  <2>1. Len(names) # 0
    BY <1>2, <1>4
  <2> HIDE DEF names
  <2> QED BY <2>1
<1>6. RequestWire(req) = <<CFDP_TLV_FILESTORE_REQUEST, Len(value)>> \o value
  BY <1>4 DEF RequestWire
<1>7. ~ (Len(value) > UINT8_MAX)
  <2>1. At(RequestWire(req) \o << >>, 1) = len + 1 /\ At(RequestWire(req), 1) = len + 1
        /\ IsTlv(CFDP_TLV_FILESTORE_REQUEST, RequestWire(req))
    <3> DEFINE octets == RequestWire(req)
    <3>1. << >> \in Seq(Octet)
      OBVIOUS
    <3>2. /\ At(octets \o << >>, 1) = len + 1
          /\ IsTlv(CFDP_TLV_FILESTORE_REQUEST, octets)
      BY <3>1, RequestParts
    <3> HIDE DEF octets
    <3>3. octets \o << >> = octets
      BY <3>2, ConcatEmptySeq DEF IsTlv
    <3> QED BY <3>2, <3>3 DEF octets
  <2>2. Len(value) = len + 1
    <3> DEFINE code == 16 * req.action_code
               wire == NamesWire(req)
               head == <<code>>
    <3>1. code \in Octet
      BY <1>1, CodeOctet DEF RequestFields
    <3>2. wire \in Seq(Octet)
      BY <1>1, NamesWireType
    <3> HIDE DEF code
    <3>3. head \in Seq(Octet) /\ Len(head) = 1
      BY <3>1
    <3> HIDE DEF wire, head
    <3>4. Joined(head \o wire, head, wire)
      BY <3>2, <3>3, Join
    <3>5. Len(head \o wire) = 1 + Len(wire)
      BY <3>3, <3>4 DEF Joined
    <3>6. Len(value) = 1 + len
      BY <1>4, <3>5 DEF wire, head, code
    <3> HIDE DEF value, len
    <3> QED BY <1>2, <3>6
  <2> HIDE DEF value, len
  <2> QED BY <1>1, <1>2, <2>2 DEF UINT8_MAX
<1> QED BY <1>1, <1>3, <1>5, <1>6, <1>7 DEF RequestSerialize, FilestoreTlvFinish

(* cfdp_filestore_request_tlv_deserialize of what was encoded, whatever    *)
(* follows it and whatever was in the structure.                           *)
LEMMA RequestRead ==
  ASSUME NEW req \in RequestFields, Requested(req), NEW back \in Seq(Octet), NEW s
  PROVE  RequestDeserialize(RequestWire(req) \o back, s)
           = [ret |-> Len(RequestWire(req)), tlv |-> RequestTold(req)]
<1> DEFINE octets == RequestWire(req)
           buf == octets \o back
           len == Len(NamesWire(req))
           q == [ClearRequest EXCEPT !.action_code = At(buf, 2) \div 16]
           first == LvTold(req.first_filename)
           second == LvTold(req.second_filename)
           named == [q EXCEPT !.first_filename = first]
           has == HasSecondFilename(req.action_code)
           read == IF has THEN [named EXCEPT !.second_filename = second] ELSE named
           names == NamesDeserialize(NamesOf(buf), q)
<1>1. /\ Len(octets) = len + 3 /\ len \in Nat /\ len > 0
      /\ TlvSize(buf) = Len(octets) /\ At(buf, 0) = CFDP_TLV_FILESTORE_REQUEST
      /\ At(buf, 1) = len + 1 /\ At(buf, 2) = 16 * req.action_code
      /\ NamesOf(buf) = NamesWire(req)
  BY RequestParts
<1>2. ActionValid(req.action_code) /\ SayableNames(req) /\ req.action_code \in Octet
  BY DEF Requested, RequestFields
<1> HIDE DEF octets, buf, len
<1>3. At(buf, 2) \div 16 = req.action_code
  BY <1>1, <1>2, CodeOctet
<1>4. q = [action_code |-> req.action_code, first_filename |-> NoLv, second_filename |-> NoLv]
  BY <1>3 DEF ClearRequest
<1>5. q.action_code = req.action_code
  BY <1>4
<1> HIDE DEF q
<1>6. names = [ret |-> len, tlv |-> read]
  <2> DEFINE wire == NamesWire(req)
             none == << >>
  <2>1. wire \o none = wire /\ none \in Seq(Octet)
    BY <1>2, NamesWireType, ConcatEmptySeq
  <2> HIDE DEF none
  <2>2. NamesDeserialize(wire \o none, q) = [ret |-> Len(wire), tlv |-> read]
    BY <1>2, <1>5, <2>1, NamesRead
  <2> QED BY <1>1, <2>1, <2>2 DEF len
<1>7. RequestTold(req) = [action_code |-> req.action_code, first_filename |-> first,
                          second_filename |-> IF has THEN second ELSE NoLv]
  <2> DEFINE other == SecondTold(req)
  <2>1. other = IF has THEN second ELSE NoLv
    BY DEF SecondTold
  <2>2. RequestTold(req) = [req EXCEPT !.first_filename = first, !.second_filename = other]
    BY DEF RequestTold, RequestFields
  <2> HIDE DEF first, second, has, other
  <2> QED BY <2>1, <2>2 DEF RequestFields
<1>8. read = RequestTold(req)
  <2> DEFINE both == [named EXCEPT !.second_filename = second]
             code == req.action_code
  <2> HIDE DEF first, second, code
  <2>1. named = [action_code |-> code, first_filename |-> first, second_filename |-> NoLv]
    BY <1>4 DEF code
  <2> HIDE DEF named
  <2>2. both = [action_code |-> code, first_filename |-> first, second_filename |-> second]
    BY <2>1
  <2> HIDE DEF both
  <2>3. read = IF has THEN both ELSE named
    BY DEF both, named
  <2> HIDE DEF read, has
  <2> QED BY <1>7, <2>1, <2>2, <2>3 DEF code
<1> HIDE DEF read, names
<1>9. IsFilestoreTlv(buf, CFDP_TLV_FILESTORE_REQUEST)
  <2>1. TlvSize(buf) > 0 /\ At(buf, 1) >= 1
    BY <1>1
  <2> QED BY <1>1, <1>2, <1>3, <2>1 DEF IsFilestoreTlv
<1>10. names.ret # 0 /\ names.ret + 1 = At(buf, 1) /\ names.tlv = RequestTold(req)
  BY <1>1, <1>6, <1>8
<1>11. RequestDeserialize(buf, s) = [ret |-> TlvSize(buf), tlv |-> names.tlv]
  BY <1>9, <1>10 DEF RequestDeserialize, names, q
<1> QED BY <1>1, <1>10, <1>11 DEF buf, octets

(* A response's message is behind its names.                               *)
Text(resp) == NamesWire(resp) \o LvWire(resp.message)
ResponseCode(resp) == 16 * resp.action_code + resp.status_code

ResponseWire(resp) ==
  LET value == <<ResponseCode(resp)>> \o Text(resp)
  IN <<CFDP_TLV_FILESTORE_RESPONSE, Len(value)>> \o value

Responded(resp) ==
  /\ ActionValid(resp.action_code) /\ SayableNames(resp) /\ Sayable(resp.message)
  /\ Len(Text(resp)) + 1 <= 255

ResponseTold(resp) ==
  [resp EXCEPT !.first_filename = LvTold(@), !.second_filename = SecondTold(resp),
               !.message = LvTold(@)]

ResponseFields ==
  [action_code : Octet, status_code : 0 .. 15,
   first_filename : Name, second_filename : Name, message : Name]

(* The octets of a response's names and message.                           *)
LEMMA TextType ==
  ASSUME NEW resp, SayableNames(resp), Sayable(resp.message)
  PROVE  /\ Text(resp) \in Seq(Octet) /\ Len(Text(resp)) \in Nat
         /\ Len(Text(resp)) = Len(NamesWire(resp)) + (resp.message.len + 1)
         /\ Len(NamesWire(resp)) \in Nat /\ Len(NamesWire(resp)) > 0
         /\ resp.message.len \in Nat
<1> DEFINE names == NamesWire(resp)
           message == LvWire(resp.message)
<1>1. names \in Seq(Octet) /\ Len(names) \in Nat
      /\ Len(names) >= resp.first_filename.len + 1 /\ resp.first_filename.len \in Nat
  BY NamesWireType
<1>2. message \in Seq(Octet) /\ Len(message) = resp.message.len + 1 /\ resp.message.len \in Nat
  BY LvWireType
<1> HIDE DEF names, message
<1>3. Joined(names \o message, names, message)
  BY <1>1, <1>2, Join
<1>4. names \o message \in Seq(Octet) /\ Len(names \o message) = Len(names) + Len(message)
  BY <1>3 DEF Joined
<1>5. Len(names) > 0
  BY <1>1
<1>6. Len(names) + (resp.message.len + 1) \in Nat
  BY <1>1, <1>2, SMTT(30)
<1> QED BY <1>1, <1>2, <1>4, <1>5, <1>6 DEF Text, names, message

(* Room for a response, whose value is the octets behind its head.         *)
LEMMA CodedLength ==
  ASSUME NEW code \in Octet, NEW names \in Seq(Octet)
  PROVE  Len(<<code>> \o names) = Len(names) + 1
<1> DEFINE head == <<code>>
<1>1. head \in Seq(Octet) /\ Len(head) = 1
  OBVIOUS
<1> HIDE DEF head
<1>2. Joined(head \o names, head, names)
  BY <1>1, Join
<1>3. Len(head \o names) = 1 + Len(names) /\ Len(names) \in Nat
  BY <1>1, <1>2, LenProperties DEF Joined
<1>4. Len(head \o names) = Len(names) + 1
  BY <1>3
<1> QED BY <1>4 DEF head

(* cfdp_filestore_response_tlv_serialize succeeds exactly when there is    *)
(* room.                                                                   *)
LEMMA ResponseWritten ==
  ASSUME NEW resp \in ResponseFields, NEW n \in Int, ResponseSerialize(resp, n) # << >>
  PROVE  /\ Responded(resp) /\ ResponseSerialize(resp, n) = ResponseWire(resp)
         /\ Len(Text(resp)) + 3 <= n
<1> DEFINE room == n - CFDP_TLV_HEADER_LEN - 1
           names == NamesSerialize(resp, room)
           left == room - Len(names)
           message == LvOctets(resp.message, left)
           code == 16 * resp.action_code + resp.status_code
           value == (<<code>> \o names) \o message
<1>1. /\ ~ (n < 3) /\ ActionValid(resp.action_code) /\ names # << >> /\ message # << >>
      /\ ResponseSerialize(resp, n) = FilestoreTlvFinish(CFDP_TLV_FILESTORE_RESPONSE, value)
  BY DEF ResponseSerialize, CFDP_TLV_HEADER_LEN
<1>2. ~ (Len(value) > 255)
      /\ ResponseSerialize(resp, n) = <<CFDP_TLV_FILESTORE_RESPONSE, Len(value)>> \o value
  BY <1>1 DEF FilestoreTlvFinish, UINT8_MAX
<1>3. room \in Int /\ room = n - 3
  BY DEF CFDP_TLV_HEADER_LEN
<1>4. /\ resp.first_filename \in Name /\ resp.second_filename \in Name
      /\ resp.message \in Name /\ resp.action_code \in Octet /\ resp.status_code \in 0 .. 15
  BY DEF ResponseFields
<1> HIDE DEF room
<1>5. SayableNames(resp) /\ names = NamesWire(resp) /\ Len(NamesWire(resp)) <= room
  BY <1>1, <1>3, <1>4, NamesWritten
<1>6. NamesWire(resp) \in Seq(Octet) /\ Len(NamesWire(resp)) \in Nat
  BY <1>5, NamesWireType
<1>7. left \in Int /\ left = room - Len(NamesWire(resp))
  BY <1>3, <1>5, <1>6
<1> HIDE DEF left
<1>8. /\ Sayable(resp.message) /\ message = LvWire(resp.message)
      /\ resp.message.len + 1 <= left
  BY <1>1, <1>4, <1>7, LvWritten
<1>9. Responded(resp) \/ Len(Text(resp)) + 1 > 255
  BY <1>1, <1>5, <1>8, TextType DEF Responded
<1>10. value = <<code>> \o Text(resp) /\ Text(resp) \in Seq(Octet) /\ code \in Octet
  <2>1. code \in Octet
    BY <1>1, <1>4, CodeOctet
  <2> HIDE DEF code
  <2> DEFINE head == <<code>>
             one == NamesWire(resp)
             two == LvWire(resp.message)
  <2>2. head \in Seq(Octet) /\ one \in Seq(Octet) /\ two \in Seq(Octet)
    BY <1>6, <1>8, <2>1, LvWireType
  <2>3. value = (head \o one) \o two
    BY <1>5, <1>8
  <2> HIDE DEF head, one, two, value
  <2>4. (head \o one) \o two = head \o (one \o two)
    BY <2>2, ConcatRegroups
  <2>5. Text(resp) = one \o two
    BY DEF Text, one, two
  <2>6. Text(resp) \in Seq(Octet)
    BY <1>5, <1>8, TextType
  <2> QED BY <2>1, <2>3, <2>4, <2>5, <2>6 DEF head
<1>11. Len(value) = Len(Text(resp)) + 1
  <2> DEFINE text == Text(resp)
  <2>1. text \in Seq(Octet) /\ code \in Octet /\ value = <<code>> \o text
    BY <1>10
  <2> HIDE DEF text, code, value
  <2> QED BY <2>1, CodedLength DEF text
<1>12. ResponseSerialize(resp, n) = ResponseWire(resp)
  BY <1>2, <1>10 DEF ResponseWire, ResponseCode
<1> DEFINE len == Len(NamesWire(resp))
           more == resp.message.len
           all == Len(Text(resp))
<1>13. all + 1 <= 255 /\ all + 3 <= n
  <2>1. /\ len \in Nat /\ more \in Nat /\ all = len + (more + 1)
        /\ more + 1 <= (n - 3) - len /\ ~ (all + 1 > 255)
    <3>1. len \in Nat /\ more \in Nat /\ all = len + (more + 1)
      BY <1>5, <1>8, TextType
    <3>2. more + 1 <= (n - 3) - len
      BY <1>3, <1>7, <1>8
    <3> QED BY <1>2, <1>11, <3>1, <3>2
  <2> HIDE DEF len, more, all
  <2> QED BY <2>1
<1>14. Responded(resp)
  BY <1>1, <1>5, <1>8, <1>13 DEF Responded
<1> QED BY <1>12, <1>13, <1>14

(* A buffer that begins with a response's octets reads as one.             *)
LEMMA ResponseParts ==
  ASSUME NEW resp \in ResponseFields, Responded(resp), NEW back \in Seq(Octet)
  PROVE  LET octets == ResponseWire(resp)
             buf == octets \o back
         IN /\ IsTlv(CFDP_TLV_FILESTORE_RESPONSE, octets)
            /\ Len(octets) = Len(Text(resp)) + 3
            /\ TlvSize(buf) = Len(octets) /\ At(buf, 0) = CFDP_TLV_FILESTORE_RESPONSE
            /\ At(buf, 1) = Len(Text(resp)) + 1 /\ At(buf, 2) = ResponseCode(resp)
            /\ NamesOf(buf) = Text(resp)
<1> DEFINE code == ResponseCode(resp)
           text == Text(resp)
           octets == ResponseWire(resp)
<1>1. code \in Octet
  BY CodeOctet DEF Responded, ResponseFields, ResponseCode
<1>2. text \in Seq(Octet) /\ Len(text) + 1 <= 255
  BY TextType DEF Responded
<1>3. TlvFrom(octets, CFDP_TLV_FILESTORE_RESPONSE, code, text)
  BY DEF ResponseWire, TlvFrom
<1>4. CFDP_TLV_FILESTORE_RESPONSE \in Octet
  BY DEF CFDP_TLV_FILESTORE_RESPONSE, Octet
<1> HIDE DEF code, text, octets
<1>5. LET buf == octets \o back
      IN /\ IsTlv(CFDP_TLV_FILESTORE_RESPONSE, octets) /\ Len(octets) = Len(text) + 3
         /\ TlvSize(buf) = Len(octets) /\ At(buf, 0) = CFDP_TLV_FILESTORE_RESPONSE
         /\ At(buf, 1) = Len(text) + 1 /\ At(buf, 2) = code /\ NamesOf(buf) = text
  BY ONLY <1>1, <1>2, <1>3, <1>4, back \in Seq(Octet), CodedTlv
<1> QED BY <1>5 DEF text, code, octets

(* A response is encoded as its octets where there is room.                *)
LEMMA ResponseWritable ==
  ASSUME NEW resp \in ResponseFields, Responded(resp), NEW n \in Int,
         Len(Text(resp)) + 3 <= n
  PROVE  ResponseSerialize(resp, n) = ResponseWire(resp)
<1> DEFINE room == n - CFDP_TLV_HEADER_LEN - 1
           names == NamesSerialize(resp, room)
           left == room - Len(names)
           message == LvOctets(resp.message, left)
           code == 16 * resp.action_code + resp.status_code
           value == (<<code>> \o names) \o message
           len == Len(NamesWire(resp))
           more == resp.message.len
           all == Len(Text(resp))
<1>1. /\ ActionValid(resp.action_code) /\ SayableNames(resp) /\ Sayable(resp.message)
      /\ all + 1 <= 255 /\ all + 3 <= n
  BY DEF Responded
<1>2. len \in Nat /\ len > 0 /\ more \in Nat /\ all = len + (more + 1)
      /\ Text(resp) \in Seq(Octet)
  BY <1>1, TextType
<1>3. room \in Int /\ room = n - 3 /\ len <= room /\ ~ (n < CFDP_TLV_HEADER_LEN + 1)
      /\ more + 1 <= room - len /\ room - len \in Int
  <2> HIDE DEF len, more, all
  <2> QED BY <1>1, <1>2 DEF CFDP_TLV_HEADER_LEN
<1>4. names = NamesWire(resp)
  <2> HIDE DEF room
  <2> QED BY <1>1, <1>3, NamesWritable
<1>5. names # << >>
  <2>1. Len(names) # 0
    BY <1>2, <1>4
  <2> HIDE DEF names
  <2> QED BY <2>1
<1>6. message = LvWire(resp.message)
  <2>1. left \in Int /\ more + 1 <= left
    BY <1>3, <1>4
  <2> HIDE DEF left
  <2> QED BY <1>1, <2>1, LvWritable
<1>7. message # << >>
  <2>1. Len(message) = more + 1
    BY <1>1, <1>6, LvWireType
  <2>2. Len(message) # 0
    <3> HIDE DEF message, more
    <3> QED BY <1>2, <2>1
  <2> HIDE DEF message
  <2> QED BY <2>2
<1>8. value = <<code>> \o Text(resp) /\ code \in Octet
  <2>1. code \in Octet
    BY <1>1, CodeOctet DEF ResponseFields
  <2> HIDE DEF code
  <2> DEFINE head == <<code>>
             one == NamesWire(resp)
             two == LvWire(resp.message)
  <2>2. head \in Seq(Octet) /\ one \in Seq(Octet) /\ two \in Seq(Octet)
    BY <1>1, <2>1, LvWireType, NamesWireType
  <2>3. value = (head \o one) \o two
    BY <1>4, <1>6
  <2> HIDE DEF head, one, two, value
  <2>4. (head \o one) \o two = head \o (one \o two)
    BY <2>2, ConcatRegroups
  <2>5. Text(resp) = one \o two
    BY DEF Text, one, two
  <2> QED BY <2>1, <2>3, <2>4, <2>5 DEF head
<1>9. ~ (Len(value) > UINT8_MAX)
  <2> DEFINE text == Text(resp)
  <2>1. text \in Seq(Octet) /\ code \in Octet /\ value = <<code>> \o text
    BY <1>2, <1>8
  <2> HIDE DEF text, code, value
  <2>2. Len(value) = Len(text) + 1
    BY <2>1, CodedLength
  <2>3. Len(value) = all + 1
    BY <2>2 DEF text
  <2> HIDE DEF all, len, more
  <2> QED BY <1>1, <1>2, <2>3 DEF UINT8_MAX
<1>10. ResponseSerialize(resp, n) = <<CFDP_TLV_FILESTORE_RESPONSE, Len(value)>> \o value
  BY <1>1, <1>3, <1>5, <1>7, <1>9 DEF ResponseSerialize, FilestoreTlvFinish
<1> QED BY <1>8, <1>10 DEF ResponseWire, ResponseCode

(* cfdp_filestore_response_tlv_deserialize of what was encoded.            *)
LEMMA ResponseRead ==
  ASSUME NEW resp \in ResponseFields, Responded(resp), NEW back \in Seq(Octet), NEW s
  PROVE  ResponseDeserialize(ResponseWire(resp) \o back, s)
           = [ret |-> Len(ResponseWire(resp)), tlv |-> ResponseTold(resp)]
<1> DEFINE octets == ResponseWire(resp)
           buf == octets \o back
           len == Len(NamesWire(resp))
           more == resp.message.len
           all == Len(Text(resp))
           q == [ClearResponse EXCEPT !.action_code = At(buf, 2) \div 16,
                                      !.status_code = At(buf, 2) % 16]
           first == LvTold(resp.first_filename)
           second == LvTold(resp.second_filename)
           third == LvTold(resp.message)
           named == [q EXCEPT !.first_filename = first]
           both == [named EXCEPT !.second_filename = second]
           has == HasSecondFilename(resp.action_code)
           read == IF has THEN both ELSE named
           names == NamesDeserialize(NamesOf(buf), q)
           message == LvAt(NamesOf(buf), names.ret)
<1>1. /\ Len(octets) = all + 3
      /\ TlvSize(buf) = Len(octets) /\ At(buf, 0) = CFDP_TLV_FILESTORE_RESPONSE
      /\ At(buf, 1) = all + 1 /\ At(buf, 2) = ResponseCode(resp)
      /\ NamesOf(buf) = Text(resp)
  BY ResponseParts
<1>2. /\ ActionValid(resp.action_code) /\ SayableNames(resp) /\ Sayable(resp.message)
      /\ resp.action_code \in Octet /\ resp.status_code \in 0 .. 15
  BY DEF Responded, ResponseFields
<1>3. len \in Nat /\ len > 0 /\ more \in Nat /\ all = len + (more + 1)
  BY <1>2, TextType
<1> HIDE DEF octets, buf, len, more, all
<1>4. At(buf, 2) \div 16 = resp.action_code /\ At(buf, 2) % 16 = resp.status_code
  BY <1>1, <1>2, CodeOctet DEF ResponseCode
<1>5. q = [action_code |-> resp.action_code, status_code |-> resp.status_code,
           first_filename |-> NoLv, second_filename |-> NoLv, message |-> NoLv]
  <2> DEFINE code == At(buf, 2) \div 16
             status == At(buf, 2) % 16
             none == NoLv
  <2> HIDE DEF code, status, none
  <2>1. ClearResponse = [action_code |-> 0, status_code |-> 0, first_filename |-> none,
                         second_filename |-> none, message |-> none]
    BY DEF ClearResponse, none
  <2>2. q = [ClearResponse EXCEPT !.action_code = code, !.status_code = status]
    BY DEF code, status
  <2> HIDE DEF q
  <2>3. q = [action_code |-> code, status_code |-> status, first_filename |-> none,
             second_filename |-> none, message |-> none]
    BY <2>1, <2>2
  <2>4. code = resp.action_code /\ status = resp.status_code
    BY <1>4 DEF code, status
  <2> QED BY <2>3, <2>4 DEF none
<1>6. q.action_code = resp.action_code
  BY <1>5
<1> HIDE DEF q
<1>7. names = [ret |-> len, tlv |-> read]
  <2> DEFINE wire == LvWire(resp.message)
  <2>1. wire \in Seq(Octet)
    BY <1>2, LvWireType
  <2>2. NamesOf(buf) = NamesWire(resp) \o wire
    BY <1>1 DEF Text
  <2> HIDE DEF wire
  <2>3. NamesDeserialize(NamesWire(resp) \o wire, q) = [ret |-> Len(NamesWire(resp)), tlv |-> read]
    BY <1>2, <1>6, <2>1, NamesRead
  <2> QED BY <2>2, <2>3 DEF len
<1>8. message.ret = more + 1 /\ LvOf(message) = third
  <2> DEFINE none == << >>
             front == NamesWire(resp)
             wire == LvWire(resp.message)
             value == NamesOf(buf)
             lv == resp.message
  <2>1. none \in Seq(Octet) /\ front \in Seq(Octet) /\ wire \in Seq(Octet) /\ wire \o none = wire
    BY <1>2, LvWireType, NamesWireType, ConcatEmptySeq
  <2>2. value = front \o (LvWire(lv) \o none) /\ Sayable(lv)
    BY <1>1, <1>2, <2>1 DEF Text
  <2>3. names.ret = Len(front)
    BY <1>7 DEF len
  <2> HIDE DEF none, front, value, lv, names
  <2>4. LvAt(value, Len(front)).ret = lv.len + 1 /\ LvOf(LvAt(value, Len(front))) = LvTold(lv)
    BY ONLY <2>1, <2>2, LvReads
  <2> QED BY <2>3, <2>4 DEF value, lv, more
<1>9. ResponseTold(resp) =
        [action_code |-> resp.action_code, status_code |-> resp.status_code,
         first_filename |-> first, second_filename |-> IF has THEN second ELSE NoLv,
         message |-> third]
  <2> DEFINE other == SecondTold(resp)
  <2>1. other = IF has THEN second ELSE NoLv
    BY DEF SecondTold
  <2>2. ResponseTold(resp) = [resp EXCEPT !.first_filename = first, !.second_filename = other,
                                          !.message = third]
    BY DEF ResponseTold, ResponseFields
  <2> HIDE DEF first, second, third, has, other
  <2> QED BY <2>1, <2>2 DEF ResponseFields
<1>10. [read EXCEPT !.message = third] = ResponseTold(resp)
  <2> DEFINE code == resp.action_code
             status == resp.status_code
  <2> HIDE DEF first, second, third, code, status
  <2>1. named = [action_code |-> code, status_code |-> status, first_filename |-> first,
                 second_filename |-> NoLv, message |-> NoLv]
    BY <1>5 DEF code, status
  <2> HIDE DEF named
  <2>2. both = [action_code |-> code, status_code |-> status, first_filename |-> first,
                second_filename |-> second, message |-> NoLv]
    BY <2>1
  <2> HIDE DEF both
  <2>3. read = IF has THEN both ELSE named
    BY DEF both, named
  <2> HIDE DEF read, has
  <2> QED BY <1>9, <2>1, <2>2, <2>3 DEF code, status
<1> HIDE DEF read
<1>11. IsFilestoreTlv(buf, CFDP_TLV_FILESTORE_RESPONSE)
  <2>1. TlvSize(buf) > 0 /\ At(buf, 1) >= 1
    BY <1>1, <1>3
  <2> QED BY <1>1, <1>2, <1>4, <2>1 DEF IsFilestoreTlv
<1>12. /\ names.ret # 0 /\ message.ret # 0 /\ names.ret + message.ret + 1 = At(buf, 1)
       /\ names.tlv = read
  <2>1. names.ret = len /\ names.tlv = read
    BY <1>7
  <2> HIDE DEF names, message
  <2> QED BY <1>1, <1>3, <1>8, <2>1
<1>13. ResponseDeserialize(buf, s)
         = [ret |-> TlvSize(buf), tlv |-> [names.tlv EXCEPT !.message = LvOf(message)]]
  BY <1>11, <1>12 DEF ResponseDeserialize, names, message, q
<1> HIDE DEF names, message
<1>14. ResponseDeserialize(buf, s) = [ret |-> TlvSize(buf), tlv |-> ResponseTold(resp)]
  BY <1>8, <1>10, <1>12, <1>13
<1> QED BY <1>1, <1>14 DEF buf, octets

-----------------------------------------------------------------------------
(* Overrides, and TLVs whose value is opaque                               *)

OverrideFields == [condition_code : Octet, handler_code : Octet]
OverrideWire(o) ==
  <<CFDP_TLV_FAULT_HANDLER_OVERRIDE, 1, 16 * o.condition_code + o.handler_code>>

(* cfdp_fault_handler_tlv_serialize and _deserialize of what it made.      *)
LEMMA OverrideSent ==
  ASSUME NEW o \in OverrideFields, OverrideValid(o.condition_code, o.handler_code)
  PROVE  /\ IsTlv(CFDP_TLV_FAULT_HANDLER_OVERRIDE, OverrideWire(o))
         /\ Len(OverrideWire(o)) = 3
         /\ \A n \in Int : 3 <= n => OverrideSerialize(o, n) = OverrideWire(o)
         /\ \A back \in Seq(Octet) : \A s :
              OverrideDeserialize(OverrideWire(o) \o back, s) = [ret |-> 3, tlv |-> o]
<1> DEFINE condition == o.condition_code
           handler == o.handler_code
           code == 16 * condition + handler
           type == CFDP_TLV_FAULT_HANDLER_OVERRIDE
           octets == OverrideWire(o)
<1>1. condition \in 1 .. 11 /\ handler \in 1 .. 4
  BY DEF OverrideValid, CFDP_COND_POSITIVE_ACK_LIMIT_REACHED, CFDP_COND_UNSUPPORTED_CHECKSUM_TYPE
<1>2. o = [condition_code |-> condition, handler_code |-> handler]
  BY DEF OverrideFields
<1>3. type = 4
  BY DEF CFDP_TLV_FAULT_HANDLER_OVERRIDE
<1> HIDE DEF condition, handler
<1>4. code \in Octet /\ code \div 16 = condition /\ code % 16 = handler
  <2>1. condition \in Nat /\ handler \in Nat /\ handler < 16 /\ condition < 16
    BY <1>1
  <2> QED BY <2>1 DEF Octet
<1> HIDE DEF type
<1>5. octets = <<type, 1, code>>
  BY DEF OverrideWire, type, condition, handler
<1> HIDE DEF code, octets
<1>6. octets \in Seq(Octet) /\ Len(octets) = 3 /\ At(octets, 0) = type /\ At(octets, 1) = 1
      /\ At(octets, 2) = code
  BY <1>3, <1>4, <1>5 DEF At, Octet
<1>7. IsTlv(type, octets)
  BY <1>6 DEF IsTlv, Octet
<1>8. ASSUME NEW n \in Int, 3 <= n PROVE OverrideSerialize(o, n) = octets
  <2>1. ~ (n < 3)
    BY <1>8
  <2> QED BY <2>1 DEF OverrideSerialize, CFDP_TLV_HEADER_LEN, OverrideWire, octets
<1>9. ASSUME NEW back \in Seq(Octet), NEW s
      PROVE  OverrideDeserialize(octets \o back, s) = [ret |-> 3, tlv |-> o]
  <2> DEFINE buf == octets \o back
  <2>1. buf \in Seq(Octet) /\ TlvSize(buf) = Len(octets) /\ At(buf, 0) = type
        /\ At(buf, 1) = At(octets, 1)
    BY ONLY <1>7, back \in Seq(Octet), TlvFound
  <2>2. At(buf, 2) = code
    <3>1. Joined(buf, octets, back)
      BY <1>6, Join
    <3>2. 2 \in Nat /\ 2 < Len(octets)
      BY <1>6
    <3> QED BY <1>6, <3>1, <3>2 DEF Joined
  <2> HIDE DEF buf
  <2>3. TlvSize(buf) = 3 /\ At(buf, 1) = 1 /\ At(buf, 2) \div 16 = condition
        /\ At(buf, 2) % 16 = handler
    BY <1>4, <1>6, <2>1, <2>2
  <2>4. OverrideValid(condition, handler)
    BY DEF condition, handler
  <2> DEFINE c == At(buf, 2) \div 16
             h == At(buf, 2) % 16
             size == TlvSize(buf)
  <2>5. c = condition /\ h = handler /\ size = 3
    BY <2>3
  <2>6. OverrideDeserialize(buf, s) = [ret |-> size, tlv |-> [condition_code |-> c, handler_code |-> h]]
    <3>1. OverrideValid(c, h)
      BY <2>4, <2>5
    <3>2. ~ (size = 0) /\ ~ (At(buf, 0) # CFDP_TLV_FAULT_HANDLER_OVERRIDE) /\ ~ (At(buf, 1) # 1)
      BY <2>1, <2>3 DEF type
    <3> QED BY <3>1, <3>2 DEF OverrideDeserialize
  <2> HIDE DEF c, h, size
  <2> QED BY <1>2, <2>5, <2>6 DEF buf
<1> QED BY <1>6, <1>7, <1>8, <1>9 DEF type, octets

(* An override is encoded as one octet of two codes.                       *)
LEMMA OverrideWritten ==
  ASSUME NEW o, NEW n \in Int, OverrideSerialize(o, n) # << >>
  PROVE  OverrideValid(o.condition_code, o.handler_code) /\ 3 <= n
<1>1. ~ (n < CFDP_TLV_HEADER_LEN + 1) /\ OverrideValid(o.condition_code, o.handler_code)
  BY DEF OverrideSerialize
<1> QED BY <1>1 DEF CFDP_TLV_HEADER_LEN

OtherFields == {tlv \in Tlv : PointsTo(tlv.value, tlv.length)}
OtherWire(tlv) == <<tlv.type, tlv.length>> \o Copied(tlv.value, tlv.length)
OtherTold(tlv) == [tlv EXCEPT !.value = Told(@, tlv.length)]
Other(tlv) == tlv.value # Null \/ tlv.length = 0

(* Any other TLV is its type, its length and its value.                    *)
LEMMA OtherWritten ==
  ASSUME NEW tlv \in OtherFields, NEW n \in Int, TlvSerialize(tlv, n) # << >>
  PROVE  /\ Other(tlv) /\ TlvSerialize(tlv, n) = OtherWire(tlv)
         /\ tlv.length + 2 <= n
<1>1. tlv.length \in Nat
  BY OctetIsNat DEF OtherFields, Tlv
<1> QED BY <1>1 DEF TlvSerialize, OtherWire, Other, CFDP_TLV_HEADER_LEN

(* cfdp_tlv_serialize, and cfdp_tlv_deserialize of what it made.           *)
LEMMA OtherSent ==
  ASSUME NEW tlv \in OtherFields, Other(tlv)
  PROVE  /\ IsTlv(tlv.type, OtherWire(tlv)) /\ tlv.type \in Octet
         /\ Len(OtherWire(tlv)) = tlv.length + 2 /\ tlv.length \in Nat
         /\ \A n \in Int : tlv.length + 2 <= n => TlvSerialize(tlv, n) = OtherWire(tlv)
         /\ \A back \in Seq(Octet) : \A s :
              TlvDeserialize(OtherWire(tlv) \o back, s)
                = [ret |-> Len(OtherWire(tlv)), tlv |-> OtherTold(tlv)]
<1> DEFINE type == tlv.type
           len == tlv.length
           value == tlv.value
           text == Copied(value, len)
           octets == OtherWire(tlv)
<1>1. type \in Octet /\ len \in Octet /\ value \in Pointer /\ PointsTo(value, len)
      /\ tlv = [type |-> type, length |-> len, value |-> value]
  BY DEF OtherFields, Tlv
<1>2. len \in Nat /\ len <= 255
  BY <1>1 DEF Octet
<1>3. value # Null \/ len = 0
  BY DEF Other
<1>4. text \in Seq(Octet) /\ Len(text) = len
  BY <1>1, <1>2, <1>3, CopiedType
<1>5. octets = <<type, len>> \o text
  BY DEF OtherWire
<1>6. OtherTold(tlv) = [type |-> type, length |-> len, value |-> Told(value, len)]
  <2> DEFINE told == Told(value, len)
  <2>1. OtherTold(tlv) = [tlv EXCEPT !.value = told]
    BY <1>1 DEF OtherTold
  <2> HIDE DEF told, type, len, value
  <2> QED BY <1>1, <2>1 DEF told
<1> HIDE DEF octets
<1>7. Told(value, len) = IF len > 0 THEN PointerTo(text) ELSE Null
  BY <1>2, <1>3 DEF Told
<1> HIDE DEF text, type, len
<1>8. IsTlv(type, octets) /\ Len(octets) = len + 2 /\ At(octets, 1) = len
      /\ Slice(octets, 2, Len(octets)) = text
  <2>1. Len(text) <= 255 /\ octets = <<type, Len(text)>> \o text
    BY <1>2, <1>4, <1>5
  <2>2. /\ IsTlv(type, octets) /\ Len(octets) = Len(text) + 2
        /\ At(octets, 1) = Len(text) /\ Slice(octets, 2, Len(octets)) = text
    BY ONLY <1>1, <1>4, <2>1, TlvOf
  <2> QED BY <1>4, <2>2
<1>9. ASSUME NEW n \in Int, len + 2 <= n PROVE TlvSerialize(tlv, n) = octets
  <2>1. ~ (n < len + 2) /\ ~ (value = Null /\ len > 0)
    BY <1>2, <1>3, <1>9
  <2> QED BY <2>1 DEF TlvSerialize, CFDP_TLV_HEADER_LEN, OtherWire, octets, len
<1>10. ASSUME NEW back \in Seq(Octet), NEW s
       PROVE  TlvDeserialize(octets \o back, s) = [ret |-> Len(octets), tlv |-> OtherTold(tlv)]
  <2> DEFINE buf == octets \o back
             end == Len(octets)
  <2>1. buf \in Seq(Octet) /\ TlvSize(buf) = end /\ TlvSize(buf) > 0 /\ At(buf, 0) = type
        /\ At(buf, 1) = len
    <3>1. /\ buf \in Seq(Octet) /\ TlvSize(buf) = Len(octets) /\ TlvSize(buf) > 0
          /\ At(buf, 0) = type /\ At(buf, 1) = At(octets, 1)
      BY ONLY <1>8, back \in Seq(Octet), TlvFound
    <3> QED BY <1>8, <3>1
  <2>2. Joined(buf, octets, back)
    <3>1. octets \in Seq(Octet)
      BY <1>8 DEF IsTlv
    <3> QED BY <3>1, Join
  <2>3. Slice(buf, 2, end) = text
    <3>1. end = len + 2 /\ Len(back) \in Nat /\ Len(buf) = end + Len(back)
      BY <1>8, <2>2, LenProperties DEF Joined
    <3>2. Slice(buf, 0, end) = octets
      BY <2>2 DEF Joined
    <3> HIDE DEF end, buf
    <3>3. end \in Nat /\ 0 <= end /\ 0 \in Nat /\ 2 \in Nat /\ 2 <= end /\ end <= Len(buf)
          /\ end <= end - 0 /\ 0 + 2 = 2 /\ 0 + end = end
      BY <1>2, <3>1
    <3>4. Slice(Slice(buf, 0, end), 2, end) = Slice(buf, 0 + 2, 0 + end)
      BY <2>1, <3>3, SliceOfSlice
    <3>5. Slice(buf, 2, end) = Slice(octets, 2, end)
      BY <3>2, <3>3, <3>4
    <3> QED BY <1>8, <3>5 DEF end
  <2> HIDE DEF buf, end
  <2> DEFINE size == TlvSize(buf)
             told == IF At(buf, 1) > 0 THEN PointerTo(Slice(buf, 2, size)) ELSE Null
             as_read == [type |-> At(buf, 0), length |-> At(buf, 1), value |-> told]
  <2>4. size # 0
    BY <2>1
  <2>5. TlvDeserialize(buf, s) = [ret |-> size, tlv |-> as_read]
    BY <2>4 DEF TlvDeserialize, CFDP_TLV_HEADER_LEN
  <2>6. told = Told(value, len)
    BY <1>7, <2>1, <2>3
  <2>7. as_read = OtherTold(tlv)
    <3> HIDE DEF told
    <3> QED BY <1>6, <2>1, <2>6
  <2> QED BY <2>1, <2>5, <2>7 DEF buf, end
<1> QED BY <1>1, <1>2, <1>8, <1>9, <1>10 DEF octets, type, len

-----------------------------------------------------------------------------
(* The library, as the instance of the walk has it                         *)

(* Octets.                                                                 *)
LEMMA WalkerSlices ==
  /\ \A buf, from, to : Walker!Slice(buf, from, to) = Slice(buf, from, to)
  /\ \A buf, from : Walker!At(buf, from) = At(buf, from)
  /\ \A value, len : Walker!Copied(value, len) = Copied(value, len)
  /\ \A octets : Walker!PointerTo(octets) = PointerTo(octets)
  /\ Walker!Null = Null
<1>1. \A buf, from, to : Walker!Slice(buf, from, to) = Slice(buf, from, to)
  BY DEF Walker!Slice, Slice
<1> QED BY <1>1 DEF Walker!At, At, Walker!Copied, Copied, Walker!PointerTo, PointerTo, Walker!Null, Null

(* LVs and TLVs.                                                           *)
LEMMA WalkerTlvs ==
  /\ \A buf : Walker!TlvSize(buf) = TlvSize(buf)
  /\ \A lv, n : Walker!LvOctets(lv, n) = LvOctets(lv, n)
  /\ \A buf, from : Walker!LvAt(buf, from) = LvAt(buf, from)
  /\ \A read : Walker!LvOf(read) = LvOf(read)
<1> USE WalkerSlices
<1>1. \A value, len, n : Walker!LvSerialize(value, len, n) = LvSerialize(value, len, n)
  BY DEF Walker!LvSerialize, LvSerialize, Walker!CFDP_LV_HEADER_LEN, CFDP_LV_HEADER_LEN
<1>2. \A buf : Walker!LvDeserialize(buf) = LvDeserialize(buf)
  BY DEF Walker!LvDeserialize, LvDeserialize, Walker!CFDP_LV_HEADER_LEN, CFDP_LV_HEADER_LEN
<1>3. \A buf : Walker!TlvSize(buf) = TlvSize(buf)
  BY DEF Walker!TlvSize, TlvSize, Walker!CFDP_TLV_HEADER_LEN, CFDP_TLV_HEADER_LEN
<1>4. \A lv, n : Walker!LvOctets(lv, n) = LvOctets(lv, n)
  BY <1>1 DEF Walker!LvOctets, LvOctets
<1>5. \A buf, from : Walker!LvAt(buf, from) = LvAt(buf, from)
  BY <1>2 DEF Walker!LvAt, LvAt
<1> QED BY <1>3, <1>4, <1>5 DEF Walker!LvOf, LvOf

(* Names and codes.                                                        *)
LEMMA WalkerNames ==
  /\ \A r, n : Walker!NamesSerialize(r, n) = NamesSerialize(r, n)
  /\ \A type, value : Walker!FilestoreTlvFinish(type, value) = FilestoreTlvFinish(type, value)
  /\ \A a : Walker!ActionValid(a) = ActionValid(a)
  /\ \A c, h : Walker!OverrideValid(c, h) = OverrideValid(c, h)
  /\ \A buf, r : Walker!NamesDeserialize(buf, r) = NamesDeserialize(buf, r)
  /\ \A buf, type : Walker!IsFilestoreTlv(buf, type) = IsFilestoreTlv(buf, type)
  /\ \A buf : Walker!NamesOf(buf) = NamesOf(buf)
<1> USE WalkerSlices, WalkerTlvs
<1>1. \A a : Walker!HasSecondFilename(a) = HasSecondFilename(a)
  BY DEF Walker!HasSecondFilename, HasSecondFilename
<1>2. \A a : Walker!ActionValid(a) = ActionValid(a)
  BY DEF Walker!ActionValid, ActionValid, Walker!CFDP_FS_ACTION_DENY_DIRECTORY,
         CFDP_FS_ACTION_DENY_DIRECTORY
<1>3. \A r, n : Walker!NamesSerialize(r, n) = NamesSerialize(r, n)
  BY <1>1 DEF Walker!NamesSerialize, NamesSerialize
<1>4. \A type, value : Walker!FilestoreTlvFinish(type, value) = FilestoreTlvFinish(type, value)
  BY DEF Walker!FilestoreTlvFinish, FilestoreTlvFinish, Walker!UINT8_MAX, UINT8_MAX
<1>5. \A c, h : Walker!OverrideValid(c, h) = OverrideValid(c, h)
  BY DEF Walker!OverrideValid, OverrideValid,
     Walker!CFDP_COND_POSITIVE_ACK_LIMIT_REACHED, CFDP_COND_POSITIVE_ACK_LIMIT_REACHED,
     Walker!CFDP_COND_UNSUPPORTED_CHECKSUM_TYPE, CFDP_COND_UNSUPPORTED_CHECKSUM_TYPE
<1>6. \A buf, r : Walker!NamesDeserialize(buf, r) = NamesDeserialize(buf, r)
  BY <1>1, ZenonT(30) DEF Walker!NamesDeserialize, NamesDeserialize
<1>7. \A buf, type : Walker!IsFilestoreTlv(buf, type) = IsFilestoreTlv(buf, type)
  BY <1>2 DEF Walker!IsFilestoreTlv, IsFilestoreTlv
<1>8. \A buf : Walker!NamesOf(buf) = NamesOf(buf)
  BY DEF Walker!NamesOf, NamesOf, Walker!CFDP_TLV_HEADER_LEN, CFDP_TLV_HEADER_LEN
<1> QED BY <1>2, <1>3, <1>4, <1>5, <1>6, <1>7, <1>8

(* Constants.                                                              *)
LEMMA WalkerCodes ==
  /\ Walker!CFDP_TLV_HEADER_LEN = CFDP_TLV_HEADER_LEN
  /\ Walker!CFDP_TLV_FILESTORE_REQUEST = CFDP_TLV_FILESTORE_REQUEST
  /\ Walker!CFDP_TLV_FILESTORE_RESPONSE = CFDP_TLV_FILESTORE_RESPONSE
  /\ Walker!CFDP_TLV_FAULT_HANDLER_OVERRIDE = CFDP_TLV_FAULT_HANDLER_OVERRIDE
  /\ Walker!ClearRequest = ClearRequest /\ Walker!ClearResponse = ClearResponse
BY DEF Walker!CFDP_TLV_HEADER_LEN, CFDP_TLV_HEADER_LEN,
  Walker!CFDP_TLV_FILESTORE_REQUEST, CFDP_TLV_FILESTORE_REQUEST,
  Walker!CFDP_TLV_FILESTORE_RESPONSE, CFDP_TLV_FILESTORE_RESPONSE,
  Walker!CFDP_TLV_FAULT_HANDLER_OVERRIDE, CFDP_TLV_FAULT_HANDLER_OVERRIDE,
  Walker!ClearRequest, ClearRequest, Walker!ClearResponse, ClearResponse,
  Walker!NoLv, NoLv, Walker!Null, Null

(* The walk decodes and encodes as the library does.                       *)
LEMMA WalkerCodecs ==
  /\ \A tlv, n : Walker!RequestSerialize(tlv, n) = RequestSerialize(tlv, n)
  /\ \A tlv, n : Walker!ResponseSerialize(tlv, n) = ResponseSerialize(tlv, n)
  /\ \A tlv, n : Walker!OverrideSerialize(tlv, n) = OverrideSerialize(tlv, n)
  /\ \A tlv, n : Walker!TlvSerialize(tlv, n) = TlvSerialize(tlv, n)
  /\ \A buf, s : Walker!RequestDeserialize(buf, s) = RequestDeserialize(buf, s)
  /\ \A buf, s : Walker!ResponseDeserialize(buf, s) = ResponseDeserialize(buf, s)
  /\ \A buf, s : Walker!OverrideDeserialize(buf, s) = OverrideDeserialize(buf, s)
  /\ \A buf, s : Walker!TlvDeserialize(buf, s) = TlvDeserialize(buf, s)
<1> USE WalkerSlices, WalkerTlvs, WalkerNames, WalkerCodes
<1>1. \A tlv, n : Walker!RequestSerialize(tlv, n) = RequestSerialize(tlv, n)
  BY DEF Walker!RequestSerialize, RequestSerialize
<1>2. \A tlv, n : Walker!ResponseSerialize(tlv, n) = ResponseSerialize(tlv, n)
  BY DEF Walker!ResponseSerialize, ResponseSerialize
<1>3. \A tlv, n : Walker!OverrideSerialize(tlv, n) = OverrideSerialize(tlv, n)
  BY DEF Walker!OverrideSerialize, OverrideSerialize
<1>4. \A tlv, n : Walker!TlvSerialize(tlv, n) = TlvSerialize(tlv, n)
  BY DEF Walker!TlvSerialize, TlvSerialize
<1>5. \A buf, s : Walker!RequestDeserialize(buf, s) = RequestDeserialize(buf, s)
  BY DEF Walker!RequestDeserialize, RequestDeserialize
<1>6. \A buf, s : Walker!ResponseDeserialize(buf, s) = ResponseDeserialize(buf, s)
  <2> SUFFICES ASSUME NEW buf, NEW s
               PROVE  Walker!ResponseDeserialize(buf, s) = ResponseDeserialize(buf, s)
    OBVIOUS
  <2> DEFINE value == NamesOf(buf)
             q == [ClearResponse EXCEPT !.action_code = At(buf, 2) \div 16,
                                        !.status_code = At(buf, 2) % 16]
             names == NamesDeserialize(value, q)
             message == LvAt(value, names.ret)
             stored == LvOf(message)
  <2>1. ResponseDeserialize(buf, s) =
          IF ~ IsFilestoreTlv(buf, CFDP_TLV_FILESTORE_RESPONSE) THEN [ret |-> 0, tlv |-> s]
          ELSE IF names.ret = 0 \/ message.ret = 0 THEN [ret |-> 0, tlv |-> names.tlv]
          ELSE [ret |-> IF names.ret + message.ret + 1 = At(buf, 1) THEN TlvSize(buf) ELSE 0,
                tlv |-> [names.tlv EXCEPT !.message = stored]]
    BY ONLY DEF ResponseDeserialize
  <2>2. /\ Walker!NamesOf(buf) = value
        /\ [Walker!ClearResponse EXCEPT !.action_code = Walker!At(buf, 2) \div 16,
                                        !.status_code = Walker!At(buf, 2) % 16] = q
    OBVIOUS
  <2> HIDE DEF value, q
  <2>3. Walker!NamesDeserialize(value, q) = names
    OBVIOUS
  <2> HIDE DEF names
  <2>4. Walker!LvAt(value, names.ret) = message
    OBVIOUS
  <2> HIDE DEF message
  <2>5. Walker!LvOf(message) = stored
    OBVIOUS
  <2> HIDE DEF stored
  <2>6. Walker!IsFilestoreTlv(buf, Walker!CFDP_TLV_FILESTORE_RESPONSE)
          = IsFilestoreTlv(buf, CFDP_TLV_FILESTORE_RESPONSE)
        /\ Walker!At(buf, 1) = At(buf, 1) /\ Walker!TlvSize(buf) = TlvSize(buf)
    OBVIOUS
  <2> HIDE WalkerSlices, WalkerTlvs, WalkerNames, WalkerCodes
  <2>7. Walker!ResponseDeserialize(buf, s) =
          IF ~ Walker!IsFilestoreTlv(buf, Walker!CFDP_TLV_FILESTORE_RESPONSE)
          THEN [ret |-> 0, tlv |-> s]
          ELSE IF names.ret = 0 \/ message.ret = 0 THEN [ret |-> 0, tlv |-> names.tlv]
          ELSE [ret |-> IF names.ret + message.ret + 1 = Walker!At(buf, 1)
                        THEN Walker!TlvSize(buf) ELSE 0,
                tlv |-> [names.tlv EXCEPT !.message = stored]]
    BY <2>2, <2>3, <2>4, <2>5 DEF Walker!ResponseDeserialize
  <2> QED BY <2>1, <2>6, <2>7
<1>7. \A buf, s : Walker!OverrideDeserialize(buf, s) = OverrideDeserialize(buf, s)
  BY DEF Walker!OverrideDeserialize, OverrideDeserialize
<1>8. \A buf, s : Walker!TlvDeserialize(buf, s) = TlvDeserialize(buf, s)
  BY DEF Walker!TlvDeserialize, TlvDeserialize
<1> QED BY <1>1, <1>2, <1>3, <1>4, <1>5, <1>6, <1>7, <1>8

-----------------------------------------------------------------------------
(* A parameter of any kind                                                 *)

ParameterWire(p) ==
  CASE p.kind = "request" -> RequestWire(p.tlv)
    [] p.kind = "response" -> ResponseWire(p.tlv)
    [] p.kind = "override" -> OverrideWire(p.tlv)
    [] p.kind = "other" -> OtherWire(p.tlv)

Sendable(p) ==
  CASE p.kind = "request" -> Requested(p.tlv)
    [] p.kind = "response" -> Responded(p.tlv)
    [] p.kind = "override" -> OverrideValid(p.tlv.condition_code, p.tlv.handler_code)
    [] p.kind = "other" -> Other(p.tlv)

TypeOn(p) ==
  CASE p.kind = "request" -> CFDP_TLV_FILESTORE_REQUEST
    [] p.kind = "response" -> CFDP_TLV_FILESTORE_RESPONSE
    [] p.kind = "override" -> CFDP_TLV_FAULT_HANDLER_OVERRIDE
    [] p.kind = "other" -> p.tlv.type

(* What each kind is and how it is encoded and decoded.                    *)
LEMMA ParameterKinds ==
  ASSUME NEW p \in Attachable
  PROVE  p.kind \in {"request", "response", "override", "other"}
         /\ p = [kind |-> p.kind, tlv |-> p.tlv]
<1>1. CASE p \in [kind : {"request"}, tlv : RequestFields]
  BY <1>1
<1>2. CASE p \in [kind : {"response"}, tlv : ResponseFields]
  BY <1>2
<1>3. CASE p \in [kind : {"override"}, tlv : OverrideFields]
  BY <1>3
<1>4. CASE p \in [kind : {"other"}, tlv : OtherFields]
  BY <1>4
<1>5. \/ p \in [kind : {"request"}, tlv : RequestFields]
      \/ p \in [kind : {"response"}, tlv : ResponseFields]
      \/ p \in [kind : {"override"}, tlv : OverrideFields]
      \/ p \in [kind : {"other"}, tlv : OtherFields]
  BY DEF Attachable, RequestFields, ResponseFields, OverrideFields, OtherFields
<1> QED BY <1>1, <1>2, <1>3, <1>4, <1>5

(* A request is encoded and decoded as a filestore request.                *)
LEMMA RequestKind ==
  ASSUME NEW p \in Attachable, p.kind = "request"
  PROVE  /\ p.tlv \in RequestFields
         /\ ParameterWire(p) = RequestWire(p.tlv) /\ Sendable(p) = Requested(p.tlv)
         /\ TypeOn(p) = CFDP_TLV_FILESTORE_REQUEST
         /\ \A s, n : Walker!Encode(p.kind, s, n) = RequestSerialize(s, n)
         /\ \A buf, s : Walker!Decode(p.kind, buf, s) = RequestDeserialize(buf, s)
         /\ OnWire(p) = [kind |-> p.kind, tlv |-> RequestTold(p.tlv)]
<1>1. p.tlv \in RequestFields
  BY DEF Attachable, RequestFields
<1>2. ParameterWire(p) = RequestWire(p.tlv) /\ Sendable(p) = Requested(p.tlv)
      /\ TypeOn(p) = CFDP_TLV_FILESTORE_REQUEST
  BY DEF ParameterWire, Sendable, TypeOn
<1>3. \A s, n : Walker!Encode(p.kind, s, n) = RequestSerialize(s, n)
  BY WalkerCodecs DEF Walker!Encode
<1>4. \A buf, s : Walker!Decode(p.kind, buf, s) = RequestDeserialize(buf, s)
  BY WalkerCodecs DEF Walker!Decode
<1>5. OnWire(p) = [kind |-> p.kind, tlv |-> RequestTold(p.tlv)]
  <2> DEFINE req == p.tlv
             first == LvTold(req.first_filename)
             second == SecondTold(req)
  <2>1. OnWire(p) = [p EXCEPT !.tlv.first_filename = LvTold(@), !.tlv.second_filename = second]
    BY DEF OnWire
  <2>2. p = [kind |-> p.kind, tlv |-> req]
    BY ParameterKinds
  <2>3. req \in [action_code : Octet, first_filename : Name, second_filename : Name]
    BY <1>1 DEF RequestFields
  <2>4. OnWire(p) = [p EXCEPT !.tlv.first_filename = first, !.tlv.second_filename = second]
    BY <2>1, <2>2, <2>3
  <2>5. RequestTold(req) = [req EXCEPT !.first_filename = first, !.second_filename = second]
    BY <2>3 DEF RequestTold
  <2> HIDE DEF req, first, second
  <2> QED BY <2>2, <2>3, <2>4, <2>5 DEF req
<1> QED BY <1>1, <1>2, <1>3, <1>4, <1>5

(* A response as a filestore response.                                     *)
LEMMA ResponseKind ==
  ASSUME NEW p \in Attachable, p.kind = "response"
  PROVE  /\ p.tlv \in ResponseFields
         /\ ParameterWire(p) = ResponseWire(p.tlv) /\ Sendable(p) = Responded(p.tlv)
         /\ TypeOn(p) = CFDP_TLV_FILESTORE_RESPONSE
         /\ \A s, n : Walker!Encode(p.kind, s, n) = ResponseSerialize(s, n)
         /\ \A buf, s : Walker!Decode(p.kind, buf, s) = ResponseDeserialize(buf, s)
         /\ OnWire(p) = [kind |-> p.kind, tlv |-> ResponseTold(p.tlv)]
<1>1. p.tlv \in ResponseFields
  BY DEF Attachable, ResponseFields
<1>2. ParameterWire(p) = ResponseWire(p.tlv) /\ Sendable(p) = Responded(p.tlv)
      /\ TypeOn(p) = CFDP_TLV_FILESTORE_RESPONSE
  BY DEF ParameterWire, Sendable, TypeOn
<1>3. \A s, n : Walker!Encode(p.kind, s, n) = ResponseSerialize(s, n)
  BY WalkerCodecs DEF Walker!Encode
<1>4. \A buf, s : Walker!Decode(p.kind, buf, s) = ResponseDeserialize(buf, s)
  BY WalkerCodecs DEF Walker!Decode
<1>5. OnWire(p) = [kind |-> p.kind, tlv |-> ResponseTold(p.tlv)]
  <2> DEFINE resp == p.tlv
             first == LvTold(resp.first_filename)
             second == SecondTold(resp)
             third == LvTold(resp.message)
  <2>1. OnWire(p) = [p EXCEPT !.tlv.first_filename = LvTold(@), !.tlv.second_filename = second,
                              !.tlv.message = LvTold(@)]
    BY DEF OnWire
  <2>2. p = [kind |-> p.kind, tlv |-> resp]
    BY ParameterKinds
  <2>3. resp \in [action_code : Octet, status_code : 0 .. 15, first_filename : Name,
                  second_filename : Name, message : Name]
    BY <1>1 DEF ResponseFields
  <2>4. OnWire(p) = [p EXCEPT !.tlv.first_filename = first, !.tlv.second_filename = second,
                              !.tlv.message = third]
    BY <2>1, <2>2, <2>3
  <2>5. ResponseTold(resp) = [resp EXCEPT !.first_filename = first, !.second_filename = second,
                                          !.message = third]
    BY <2>3 DEF ResponseTold
  <2> HIDE DEF resp, first, second, third
  <2> QED BY <2>2, <2>3, <2>4, <2>5 DEF resp
<1> QED BY <1>1, <1>2, <1>3, <1>4, <1>5

(* An override as a fault handler override.                                *)
LEMMA OverrideKind ==
  ASSUME NEW p \in Attachable, p.kind = "override"
  PROVE  /\ p.tlv \in OverrideFields
         /\ ParameterWire(p) = OverrideWire(p.tlv)
         /\ Sendable(p) = OverrideValid(p.tlv.condition_code, p.tlv.handler_code)
         /\ TypeOn(p) = CFDP_TLV_FAULT_HANDLER_OVERRIDE
         /\ \A s, n : Walker!Encode(p.kind, s, n) = OverrideSerialize(s, n)
         /\ \A buf, s : Walker!Decode(p.kind, buf, s) = OverrideDeserialize(buf, s)
         /\ OnWire(p) = p
<1>1. p.tlv \in OverrideFields
  BY DEF Attachable, OverrideFields
<1>2. ParameterWire(p) = OverrideWire(p.tlv) /\ TypeOn(p) = CFDP_TLV_FAULT_HANDLER_OVERRIDE
      /\ Sendable(p) = OverrideValid(p.tlv.condition_code, p.tlv.handler_code)
  BY DEF ParameterWire, Sendable, TypeOn
<1>3. \A s, n : Walker!Encode(p.kind, s, n) = OverrideSerialize(s, n)
  BY WalkerCodecs DEF Walker!Encode
<1>4. \A buf, s : Walker!Decode(p.kind, buf, s) = OverrideDeserialize(buf, s)
  BY WalkerCodecs DEF Walker!Decode
<1>5. OnWire(p) = p
  BY DEF OnWire
<1> QED BY <1>1, <1>2, <1>3, <1>4, <1>5

(* Any other as a TLV that has no decoder of its own.                      *)
LEMMA OtherKind ==
  ASSUME NEW p \in Attachable, p.kind = "other"
  PROVE  /\ p.tlv \in OtherFields /\ Walker!KindOf(p.tlv.type) = "other"
         /\ p.tlv.type # CFDP_TLV_ENTITY_ID
         /\ ParameterWire(p) = OtherWire(p.tlv) /\ Sendable(p) = Other(p.tlv)
         /\ TypeOn(p) = p.tlv.type
         /\ \A s, n : Walker!Encode(p.kind, s, n) = TlvSerialize(s, n)
         /\ \A buf, s : Walker!Decode(p.kind, buf, s) = TlvDeserialize(buf, s)
         /\ OnWire(p) = [kind |-> p.kind, tlv |-> OtherTold(p.tlv)]
<1>1. p.tlv \in OtherFields /\ Walker!KindOf(p.tlv.type) = "other"
      /\ p.tlv.type # CFDP_TLV_ENTITY_ID
  BY DEF Attachable, OtherFields
<1>2. ParameterWire(p) = OtherWire(p.tlv) /\ Sendable(p) = Other(p.tlv)
      /\ TypeOn(p) = p.tlv.type
  BY DEF ParameterWire, Sendable, TypeOn
<1>3. \A s, n : Walker!Encode(p.kind, s, n) = TlvSerialize(s, n)
  BY WalkerCodecs DEF Walker!Encode
<1>4. \A buf, s : Walker!Decode(p.kind, buf, s) = TlvDeserialize(buf, s)
  BY WalkerCodecs DEF Walker!Decode
<1>5. OnWire(p) = [kind |-> p.kind, tlv |-> OtherTold(p.tlv)]
  <2> DEFINE tlv == p.tlv
             told == Told(tlv.value, tlv.length)
  <2>1. OnWire(p) = [p EXCEPT !.tlv.value = Told(@, p.tlv.length)]
    BY DEF OnWire
  <2>2. p = [kind |-> p.kind, tlv |-> tlv]
    BY ParameterKinds
  <2>3. tlv \in [type : Octet, length : Octet, value : Pointer]
    BY <1>1 DEF OtherFields, Tlv
  <2>4. OnWire(p) = [p EXCEPT !.tlv.value = told]
    BY <2>1, <2>2, <2>3
  <2>5. OtherTold(tlv) = [tlv EXCEPT !.value = told]
    BY <2>3 DEF OtherTold
  <2> HIDE DEF tlv, told
  <2> QED BY <2>2, <2>3, <2>4, <2>5 DEF tlv
<1> QED BY <1>1, <1>2, <1>3, <1>4, <1>5

(* An encoder's octets do not depend on the room it is given.              *)
LEMMA ParameterWritten ==
  ASSUME NEW p \in Attachable, NEW n \in Int, Walker!Encode(p.kind, p.tlv, n) # << >>
  PROVE  /\ Sendable(p) /\ Walker!Encode(p.kind, p.tlv, n) = ParameterWire(p)
         /\ Len(ParameterWire(p)) <= n
<1> DEFINE none == << >>
<1>1. none \in Seq(Octet)
  OBVIOUS
<1> HIDE DEF none
<1>2. CASE p.kind = "request"
  <2> DEFINE req == p.tlv
  <2>1. /\ req \in RequestFields /\ ParameterWire(p) = RequestWire(req)
        /\ Sendable(p) = Requested(req)
        /\ Walker!Encode(p.kind, req, n) = RequestSerialize(req, n)
    BY ONLY p \in Attachable, <1>2, RequestKind
  <2> HIDE DEF req
  <2>2. RequestSerialize(req, n) # << >>
    BY <2>1 DEF req
  <2>3. Requested(req) /\ RequestSerialize(req, n) = RequestWire(req)
        /\ Len(NamesWire(req)) + 3 <= n
    BY ONLY n \in Int, <2>1, <2>2, RequestWritten
  <2>4. Len(RequestWire(req)) = Len(NamesWire(req)) + 3
    BY ONLY <1>1, <2>1, <2>3, RequestParts
  <2> QED BY <2>1, <2>3, <2>4 DEF req
<1>3. CASE p.kind = "response"
  <2> DEFINE resp == p.tlv
  <2>1. /\ resp \in ResponseFields /\ ParameterWire(p) = ResponseWire(resp)
        /\ Sendable(p) = Responded(resp)
        /\ Walker!Encode(p.kind, resp, n) = ResponseSerialize(resp, n)
    BY ONLY p \in Attachable, <1>3, ResponseKind
  <2> HIDE DEF resp
  <2>2. ResponseSerialize(resp, n) # << >>
    BY <2>1 DEF resp
  <2>3. Responded(resp) /\ ResponseSerialize(resp, n) = ResponseWire(resp)
        /\ Len(Text(resp)) + 3 <= n
    BY ONLY n \in Int, <2>1, <2>2, ResponseWritten
  <2>4. Len(ResponseWire(resp)) = Len(Text(resp)) + 3
    BY ONLY <1>1, <2>1, <2>3, ResponseParts
  <2> QED BY <2>1, <2>3, <2>4 DEF resp
<1>4. CASE p.kind = "override"
  <2> DEFINE o == p.tlv
  <2>1. /\ o \in OverrideFields /\ ParameterWire(p) = OverrideWire(o)
        /\ Sendable(p) = OverrideValid(o.condition_code, o.handler_code)
        /\ Walker!Encode(p.kind, o, n) = OverrideSerialize(o, n)
    BY ONLY p \in Attachable, <1>4, OverrideKind
  <2> HIDE DEF o
  <2>2. OverrideSerialize(o, n) # << >>
    BY <2>1 DEF o
  <2>3. OverrideValid(o.condition_code, o.handler_code) /\ 3 <= n
    BY ONLY n \in Int, <2>2, OverrideWritten
  <2>4. Len(OverrideWire(o)) = 3 /\ OverrideSerialize(o, n) = OverrideWire(o)
    BY ONLY n \in Int, <2>1, <2>3, OverrideSent
  <2> QED BY <2>1, <2>3, <2>4 DEF o
<1>5. CASE p.kind = "other"
  <2> DEFINE tlv == p.tlv
  <2>1. /\ tlv \in OtherFields /\ ParameterWire(p) = OtherWire(tlv)
        /\ Sendable(p) = Other(tlv)
        /\ Walker!Encode(p.kind, tlv, n) = TlvSerialize(tlv, n)
    BY ONLY p \in Attachable, <1>5, OtherKind
  <2> HIDE DEF tlv
  <2>2. TlvSerialize(tlv, n) # << >>
    BY <2>1 DEF tlv
  <2>3. Other(tlv) /\ TlvSerialize(tlv, n) = OtherWire(tlv) /\ tlv.length + 2 <= n
    BY ONLY n \in Int, <2>1, <2>2, OtherWritten
  <2>4. Len(OtherWire(tlv)) = tlv.length + 2
    BY ONLY <2>1, <2>3, OtherSent
  <2> QED BY <2>1, <2>3, <2>4 DEF tlv
<1> QED BY <1>2, <1>3, <1>4, <1>5, ParameterKinds

(* It needs room for them and no more.                                     *)
LEMMA ParameterWritable ==
  ASSUME NEW p \in Attachable, Sendable(p), NEW n \in Int, Len(ParameterWire(p)) <= n
  PROVE  Walker!Encode(p.kind, p.tlv, n) = ParameterWire(p)
<1> DEFINE none == << >>
<1>1. none \in Seq(Octet)
  OBVIOUS
<1> HIDE DEF none
<1>2. CASE p.kind = "request"
  <2> DEFINE req == p.tlv
  <2>1. /\ req \in RequestFields /\ ParameterWire(p) = RequestWire(req)
        /\ Sendable(p) = Requested(req)
        /\ Walker!Encode(p.kind, req, n) = RequestSerialize(req, n)
    BY ONLY p \in Attachable, <1>2, RequestKind
  <2> HIDE DEF req
  <2>2. Requested(req)
    BY <2>1
  <2>3. Len(RequestWire(req)) = Len(NamesWire(req)) + 3
    BY ONLY <1>1, <2>1, <2>2, RequestParts
  <2>4. Len(NamesWire(req)) + 3 <= n
    BY <2>1, <2>3
  <2>5. RequestSerialize(req, n) = RequestWire(req)
    BY ONLY n \in Int, <2>1, <2>2, <2>4, RequestWritable
  <2> QED BY <2>1, <2>5 DEF req
<1>3. CASE p.kind = "response"
  <2> DEFINE resp == p.tlv
  <2>1. /\ resp \in ResponseFields /\ ParameterWire(p) = ResponseWire(resp)
        /\ Sendable(p) = Responded(resp)
        /\ Walker!Encode(p.kind, resp, n) = ResponseSerialize(resp, n)
    BY ONLY p \in Attachable, <1>3, ResponseKind
  <2> HIDE DEF resp
  <2>2. Responded(resp)
    BY <2>1
  <2>3. Len(ResponseWire(resp)) = Len(Text(resp)) + 3
    BY ONLY <1>1, <2>1, <2>2, ResponseParts
  <2>4. Len(Text(resp)) + 3 <= n
    BY <2>1, <2>3
  <2>5. ResponseSerialize(resp, n) = ResponseWire(resp)
    BY ONLY n \in Int, <2>1, <2>2, <2>4, ResponseWritable
  <2> QED BY <2>1, <2>5 DEF resp
<1>4. CASE p.kind = "override"
  <2> DEFINE o == p.tlv
  <2>1. /\ o \in OverrideFields /\ ParameterWire(p) = OverrideWire(o)
        /\ Sendable(p) = OverrideValid(o.condition_code, o.handler_code)
        /\ Walker!Encode(p.kind, o, n) = OverrideSerialize(o, n)
    BY ONLY p \in Attachable, <1>4, OverrideKind
  <2> HIDE DEF o
  <2>2. OverrideValid(o.condition_code, o.handler_code)
    BY <2>1
  <2>3. Len(OverrideWire(o)) = 3
        /\ \A m \in Int : 3 <= m => OverrideSerialize(o, m) = OverrideWire(o)
    BY ONLY <2>1, <2>2, OverrideSent
  <2> QED BY <2>1, <2>3 DEF o
<1>5. CASE p.kind = "other"
  <2> DEFINE tlv == p.tlv
  <2>1. /\ tlv \in OtherFields /\ ParameterWire(p) = OtherWire(tlv)
        /\ Sendable(p) = Other(tlv)
        /\ Walker!Encode(p.kind, tlv, n) = TlvSerialize(tlv, n)
    BY ONLY p \in Attachable, <1>5, OtherKind
  <2> HIDE DEF tlv
  <2>2. Other(tlv)
    BY <2>1
  <2>3. Len(OtherWire(tlv)) = tlv.length + 2
        /\ \A m \in Int : tlv.length + 2 <= m => TlvSerialize(tlv, m) = OtherWire(tlv)
    BY ONLY <2>1, <2>2, OtherSent
  <2> QED BY <2>1, <2>3 DEF tlv
<1> QED BY <1>2, <1>3, <1>4, <1>5, ParameterKinds

(* They are one TLV, of the type that tells the walk its kind.             *)
LEMMA ParameterIsTlv ==
  ASSUME NEW p \in Attachable, Sendable(p)
  PROVE  /\ IsTlv(TypeOn(p), ParameterWire(p)) /\ TypeOn(p) \in Octet
         /\ Walker!KindOf(TypeOn(p)) = p.kind /\ TypeOn(p) # CFDP_TLV_ENTITY_ID
         /\ TypeOn(p) = CFDP_TLV_FILESTORE_RESPONSE <=> p.kind = "response"
<1> DEFINE none == << >>
<1>1. none \in Seq(Octet)
  OBVIOUS
<1> HIDE DEF none
<1>2. /\ Walker!KindOf(CFDP_TLV_FILESTORE_REQUEST) = "request"
      /\ Walker!KindOf(CFDP_TLV_FILESTORE_RESPONSE) = "response"
      /\ Walker!KindOf(CFDP_TLV_FAULT_HANDLER_OVERRIDE) = "override"
  BY DEF Walker!KindOf, Walker!CFDP_TLV_FILESTORE_REQUEST, CFDP_TLV_FILESTORE_REQUEST,
         Walker!CFDP_TLV_FILESTORE_RESPONSE, CFDP_TLV_FILESTORE_RESPONSE,
         Walker!CFDP_TLV_FAULT_HANDLER_OVERRIDE, CFDP_TLV_FAULT_HANDLER_OVERRIDE
<1>3. /\ CFDP_TLV_FILESTORE_REQUEST = 0 /\ CFDP_TLV_FILESTORE_RESPONSE = 1
      /\ CFDP_TLV_FAULT_HANDLER_OVERRIDE = 4 /\ CFDP_TLV_ENTITY_ID = 6
      /\ 0 \in Octet /\ 1 \in Octet /\ 4 \in Octet
  BY DEF CFDP_TLV_FILESTORE_REQUEST, CFDP_TLV_FILESTORE_RESPONSE,
         CFDP_TLV_FAULT_HANDLER_OVERRIDE, CFDP_TLV_ENTITY_ID, Octet
<1>4. CASE p.kind = "request"
  <2>1. /\ p.tlv \in RequestFields /\ ParameterWire(p) = RequestWire(p.tlv)
        /\ Requested(p.tlv) /\ TypeOn(p) = CFDP_TLV_FILESTORE_REQUEST
    BY <1>4, RequestKind
  <2>2. IsTlv(CFDP_TLV_FILESTORE_REQUEST, RequestWire(p.tlv))
    BY ONLY <1>1, <2>1, RequestParts
  <2> QED BY <1>2, <1>3, <1>4, <2>1, <2>2
<1>5. CASE p.kind = "response"
  <2>1. /\ p.tlv \in ResponseFields /\ ParameterWire(p) = ResponseWire(p.tlv)
        /\ Responded(p.tlv) /\ TypeOn(p) = CFDP_TLV_FILESTORE_RESPONSE
    BY <1>5, ResponseKind
  <2>2. IsTlv(CFDP_TLV_FILESTORE_RESPONSE, ResponseWire(p.tlv))
    BY ONLY <1>1, <2>1, ResponseParts
  <2> QED BY <1>2, <1>3, <1>5, <2>1, <2>2
<1>6. CASE p.kind = "override"
  <2>1. /\ p.tlv \in OverrideFields /\ ParameterWire(p) = OverrideWire(p.tlv)
        /\ OverrideValid(p.tlv.condition_code, p.tlv.handler_code)
        /\ TypeOn(p) = CFDP_TLV_FAULT_HANDLER_OVERRIDE
    BY <1>6, OverrideKind
  <2>2. IsTlv(CFDP_TLV_FAULT_HANDLER_OVERRIDE, OverrideWire(p.tlv))
    BY ONLY <2>1, OverrideSent
  <2> QED BY <1>2, <1>3, <1>6, <2>1, <2>2
<1>7. CASE p.kind = "other"
  <2>1. /\ p.tlv \in OtherFields /\ ParameterWire(p) = OtherWire(p.tlv) /\ Other(p.tlv)
        /\ TypeOn(p) = p.tlv.type /\ Walker!KindOf(p.tlv.type) = "other"
        /\ p.tlv.type # CFDP_TLV_ENTITY_ID
    BY <1>7, OtherKind
  <2>2. IsTlv(p.tlv.type, OtherWire(p.tlv)) /\ p.tlv.type \in Octet
    BY ONLY <2>1, OtherSent
  <2>3. p.tlv.type # CFDP_TLV_FILESTORE_RESPONSE
    BY <1>2, <2>1
  <2> QED BY <1>7, <2>1, <2>2, <2>3
<1> QED BY <1>4, <1>5, <1>6, <1>7, ParameterKinds

(* The decoder of its kind reads it back, whatever follows it and whatever *)
(* it is decoded into.                                                     *)
LEMMA ParameterRead ==
  ASSUME NEW p \in Attachable, Sendable(p), NEW back \in Seq(Octet), NEW s
  PROVE  Walker!Decode(p.kind, ParameterWire(p) \o back, s)
           = [ret |-> Len(ParameterWire(p)), tlv |-> OnWire(p).tlv]
<1>1. CASE p.kind = "request"
  <2> DEFINE req == p.tlv
  <2>1. /\ req \in RequestFields /\ ParameterWire(p) = RequestWire(req) /\ Requested(req)
        /\ \A buf : Walker!Decode(p.kind, buf, s) = RequestDeserialize(buf, s)
        /\ OnWire(p) = [kind |-> p.kind, tlv |-> RequestTold(req)]
    BY <1>1, RequestKind
  <2> HIDE DEF req
  <2>2. RequestDeserialize(RequestWire(req) \o back, s)
          = [ret |-> Len(RequestWire(req)), tlv |-> RequestTold(req)]
    BY ONLY back \in Seq(Octet), <2>1, RequestRead
  <2> QED BY <2>1, <2>2
<1>2. CASE p.kind = "response"
  <2> DEFINE resp == p.tlv
  <2>1. /\ resp \in ResponseFields /\ ParameterWire(p) = ResponseWire(resp) /\ Responded(resp)
        /\ \A buf : Walker!Decode(p.kind, buf, s) = ResponseDeserialize(buf, s)
        /\ OnWire(p) = [kind |-> p.kind, tlv |-> ResponseTold(resp)]
    BY <1>2, ResponseKind
  <2> HIDE DEF resp
  <2>2. ResponseDeserialize(ResponseWire(resp) \o back, s)
          = [ret |-> Len(ResponseWire(resp)), tlv |-> ResponseTold(resp)]
    BY ONLY back \in Seq(Octet), <2>1, ResponseRead
  <2> QED BY <2>1, <2>2
<1>3. CASE p.kind = "override"
  <2> DEFINE o == p.tlv
  <2>1. /\ o \in OverrideFields /\ ParameterWire(p) = OverrideWire(o)
        /\ OverrideValid(o.condition_code, o.handler_code)
        /\ \A buf : Walker!Decode(p.kind, buf, s) = OverrideDeserialize(buf, s)
        /\ OnWire(p) = p
    BY <1>3, OverrideKind
  <2>2. OverrideDeserialize(OverrideWire(o) \o back, s) = [ret |-> 3, tlv |-> o]
        /\ Len(OverrideWire(o)) = 3
    BY ONLY back \in Seq(Octet), <2>1, OverrideSent
  <2> QED BY <2>1, <2>2
<1>4. CASE p.kind = "other"
  <2> DEFINE tlv == p.tlv
  <2>1. /\ tlv \in OtherFields /\ ParameterWire(p) = OtherWire(tlv) /\ Other(tlv)
        /\ \A buf : Walker!Decode(p.kind, buf, s) = TlvDeserialize(buf, s)
        /\ OnWire(p) = [kind |-> p.kind, tlv |-> OtherTold(tlv)]
    BY <1>4, OtherKind
  <2> HIDE DEF tlv
  <2>2. TlvDeserialize(OtherWire(tlv) \o back, s)
          = [ret |-> Len(OtherWire(tlv)), tlv |-> OtherTold(tlv)]
    BY ONLY back \in Seq(Octet), <2>1, OtherSent
  <2> QED BY <2>1, <2>2
<1> QED BY <1>1, <1>2, <1>3, <1>4, ParameterKinds

-----------------------------------------------------------------------------
(* What arrives of a parameter                                             *)

(* It has the same names, and names that have arrived arrive as they are.  *)
LEMMA NamesTold ==
  ASSUME NEW r, r.first_filename \in Name, r.second_filename \in Name,
         NEW told, told.action_code = r.action_code,
         told.first_filename = LvTold(r.first_filename), told.second_filename = SecondTold(r)
  PROVE  /\ told.first_filename \in Name /\ told.second_filename \in Name
         /\ LvTold(told.first_filename) = told.first_filename
         /\ SecondTold(told) = told.second_filename
         /\ SayableNames(r) => SayableNames(told) /\ NamesWire(told) = NamesWire(r)
<1> DEFINE has == HasSecondFilename(r.action_code)
<1>1. HasSecondFilename(told.action_code) = has
  OBVIOUS
<1>2. /\ told.first_filename \in Name
      /\ LvTold(told.first_filename) = told.first_filename
      /\ Sayable(r.first_filename) =>
           Sayable(told.first_filename) /\ LvWire(told.first_filename) = LvWire(r.first_filename)
  BY LvToldType
<1>3. CASE has
  <2>1. told.second_filename = LvTold(r.second_filename)
    BY <1>3 DEF SecondTold
  <2>2. /\ told.second_filename \in Name
        /\ LvTold(told.second_filename) = told.second_filename
        /\ Sayable(r.second_filename) =>
             /\ Sayable(told.second_filename)
             /\ LvWire(told.second_filename) = LvWire(r.second_filename)
    BY <2>1, LvToldType
  <2>3. SecondTold(told) = told.second_filename
    BY <1>1, <1>3, <2>2 DEF SecondTold
  <2> QED BY <1>1, <1>2, <1>3, <2>2, <2>3 DEF SayableNames, NamesWire
<1>4. CASE ~ has
  <2>1. told.second_filename = NoLv /\ SecondTold(told) = NoLv
    BY <1>1, <1>4 DEF SecondTold
  <2>2. NoLv \in Name
    <3>1. 0 \in Octet
      BY DEF Octet
    <3>2. Null \in Pointer
      BY DEF Null, Pointer
    <3>3. PointsTo(Null, 0)
      BY DEF PointsTo
    <3> QED BY <3>1, <3>2, <3>3 DEF NoLv, Name, Lv
  <2> QED BY <1>1, <1>2, <1>4, <2>1, <2>2 DEF SayableNames, NamesWire
<1> QED BY <1>3, <1>4

(* A request as its peer may see it can be attached itself.                *)
LEMMA RequestToldType ==
  ASSUME NEW req \in RequestFields
  PROVE  /\ RequestTold(req) \in RequestFields
         /\ RequestTold(RequestTold(req)) = RequestTold(req)
         /\ Requested(req) => /\ Requested(RequestTold(req))
                              /\ RequestWire(RequestTold(req)) = RequestWire(req)
<1> DEFINE told == RequestTold(req)
           code == req.action_code
           first == LvTold(req.first_filename)
           second == SecondTold(req)
<1>1. code \in Octet /\ req.first_filename \in Name /\ req.second_filename \in Name
  BY DEF RequestFields
<1>2. told = [req EXCEPT !.first_filename = first, !.second_filename = second]
  BY DEF RequestTold, RequestFields
<1> HIDE DEF told, code, first, second
<1>3. told = [action_code |-> code, first_filename |-> first, second_filename |-> second]
  BY <1>2 DEF RequestFields, code
<1>4. told.action_code = code /\ told.first_filename = first /\ told.second_filename = second
  BY <1>3
<1>5. /\ told.first_filename \in Name /\ told.second_filename \in Name
      /\ LvTold(told.first_filename) = told.first_filename
      /\ SecondTold(told) = told.second_filename
      /\ SayableNames(req) => SayableNames(told) /\ NamesWire(told) = NamesWire(req)
  BY ONLY <1>1, <1>4, NamesTold DEF code, first, second
<1>6. told \in RequestFields
  BY <1>1, <1>3, <1>4, <1>5 DEF RequestFields
<1>7. RequestTold(told) = told
  <2> DEFINE again == [told EXCEPT !.first_filename = LvTold(told.first_filename),
                                   !.second_filename = SecondTold(told)]
  <2>1. RequestTold(told) = again
    BY <1>6 DEF RequestTold, RequestFields
  <2>2. again = [told EXCEPT !.first_filename = first, !.second_filename = second]
    BY <1>4, <1>5
  <2> HIDE DEF again
  <2> QED BY <1>3, <2>1, <2>2
<1>8. ASSUME Requested(req) PROVE Requested(told) /\ RequestWire(told) = RequestWire(req)
  <2>1. SayableNames(told) /\ NamesWire(told) = NamesWire(req) /\ ActionValid(told.action_code)
        /\ Len(NamesWire(req)) + 1 <= 255
    BY <1>4, <1>5, <1>8 DEF Requested, code
  <2> QED BY <1>4, <2>1 DEF Requested, RequestWire, code
<1> QED BY <1>6, <1>7, <1>8 DEF told

(* So can a response.                                                      *)
LEMMA ResponseToldType ==
  ASSUME NEW resp \in ResponseFields
  PROVE  /\ ResponseTold(resp) \in ResponseFields
         /\ ResponseTold(ResponseTold(resp)) = ResponseTold(resp)
         /\ Responded(resp) => /\ Responded(ResponseTold(resp))
                               /\ ResponseWire(ResponseTold(resp)) = ResponseWire(resp)
<1> DEFINE told == ResponseTold(resp)
           code == resp.action_code
           status == resp.status_code
           first == LvTold(resp.first_filename)
           second == SecondTold(resp)
           third == LvTold(resp.message)
<1>1. code \in Octet /\ resp.first_filename \in Name /\ resp.second_filename \in Name
      /\ status \in 0 .. 15 /\ resp.message \in Name
  BY DEF ResponseFields
<1>2. told = [resp EXCEPT !.first_filename = first, !.second_filename = second,
                          !.message = third]
  BY DEF ResponseTold, ResponseFields
<1> HIDE DEF told, code, status, first, second, third
<1>3. told = [action_code |-> code, status_code |-> status, first_filename |-> first,
              second_filename |-> second, message |-> third]
  BY <1>2 DEF ResponseFields, code, status
<1>4. told.action_code = code /\ told.first_filename = first /\ told.second_filename = second
      /\ told.message = third /\ told.status_code = status
  BY <1>3
<1>5. /\ told.first_filename \in Name /\ told.second_filename \in Name
      /\ LvTold(told.first_filename) = told.first_filename
      /\ SecondTold(told) = told.second_filename
      /\ SayableNames(resp) => SayableNames(told) /\ NamesWire(told) = NamesWire(resp)
  BY ONLY <1>1, <1>4, NamesTold DEF code, first, second
<1>6. /\ told.message \in Name /\ LvTold(told.message) = told.message
      /\ Sayable(resp.message) =>
           Sayable(told.message) /\ LvWire(told.message) = LvWire(resp.message)
  BY <1>1, <1>4, LvToldType DEF third
<1>7. told \in ResponseFields
  BY <1>1, <1>3, <1>4, <1>5, <1>6 DEF ResponseFields
<1>8. ResponseTold(told) = told
  <2> DEFINE again == [told EXCEPT !.first_filename = LvTold(told.first_filename),
                                   !.second_filename = SecondTold(told),
                                   !.message = LvTold(told.message)]
  <2>1. ResponseTold(told) = again
    BY <1>7 DEF ResponseTold, ResponseFields
  <2>2. again = [told EXCEPT !.first_filename = first, !.second_filename = second,
                             !.message = third]
    BY <1>4, <1>5, <1>6
  <2> HIDE DEF again
  <2> QED BY <1>3, <2>1, <2>2
<1>9. ASSUME Responded(resp) PROVE Responded(told) /\ ResponseWire(told) = ResponseWire(resp)
  <2>1. /\ SayableNames(told) /\ NamesWire(told) = NamesWire(resp)
        /\ Sayable(told.message) /\ LvWire(told.message) = LvWire(resp.message)
        /\ ActionValid(told.action_code) /\ Len(Text(resp)) + 1 <= 255
    BY <1>4, <1>5, <1>6, <1>9 DEF Responded, code
  <2>2. Text(told) = Text(resp) /\ ResponseCode(told) = ResponseCode(resp)
    BY <1>4, <2>1 DEF Text, ResponseCode, code, status
  <2> QED BY <2>1, <2>2 DEF Responded, ResponseWire
<1> QED BY <1>7, <1>8, <1>9 DEF told

(* So can a TLV without a decoder of its own.                              *)
LEMMA OtherToldType ==
  ASSUME NEW tlv \in OtherFields
  PROVE  /\ OtherTold(tlv) \in OtherFields /\ OtherTold(tlv).type = tlv.type
         /\ OtherTold(OtherTold(tlv)) = OtherTold(tlv)
         /\ Other(tlv) => Other(OtherTold(tlv)) /\ OtherWire(OtherTold(tlv)) = OtherWire(tlv)
<1> DEFINE lv == [value |-> tlv.value, len |-> tlv.length]
           told == OtherTold(tlv)
           value == Told(tlv.value, tlv.length)
<1>1. tlv \in [type : Octet, length : Octet, value : Pointer] /\ PointsTo(tlv.value, tlv.length)
  BY DEF OtherFields, Tlv
<1>2. lv \in Name
  BY <1>1 DEF Name, Lv
<1>3. LvTold(lv) = [value |-> value, len |-> tlv.length]
  BY DEF LvTold
<1>4. /\ LvTold(lv) \in Name /\ LvTold(LvTold(lv)) = LvTold(lv)
      /\ Sayable(lv) => Sayable(LvTold(lv)) /\ LvWire(LvTold(lv)) = LvWire(lv)
  <2> HIDE DEF lv
  <2> QED BY <1>2, LvToldType
<1>5. Sayable(lv) <=> Other(tlv)
  BY <1>2 DEF Sayable, Other
<1>6. told = [type |-> tlv.type, length |-> tlv.length, value |-> value]
  <2>1. told = [tlv EXCEPT !.value = value]
    BY <1>1 DEF OtherTold
  <2> HIDE DEF told, value
  <2> QED BY <1>1, <2>1
<1> HIDE DEF value, told
<1>7. Told(value, tlv.length) = value /\ value \in Pointer /\ PointsTo(value, tlv.length)
  <2>1. LvTold(LvTold(lv)) = [value |-> Told(value, tlv.length), len |-> tlv.length]
    <3> DEFINE once == [value |-> value, len |-> tlv.length]
               again == Told(once.value, once.len)
    <3>1. LvTold(once) = [once EXCEPT !.value = again]
      BY DEF LvTold
    <3>2. again = Told(value, tlv.length)
      OBVIOUS
    <3> HIDE DEF again
    <3>3. LvTold(once) = [value |-> again, len |-> tlv.length]
      BY <3>1
    <3> QED BY <1>3, <3>2, <3>3
  <2>2. [value |-> Told(value, tlv.length), len |-> tlv.length].value = value
    BY <1>3, <1>4, <2>1
  <2>3. value \in Pointer /\ PointsTo(value, tlv.length)
    BY <1>3, <1>4 DEF Name, Lv
  <2> QED BY <2>2, <2>3
<1>8. told \in OtherFields
  BY <1>1, <1>6, <1>7 DEF OtherFields, Tlv
<1>9. OtherTold(told) = told
  <2> DEFINE again == Told(told.value, told.length)
  <2>1. OtherTold(told) = [told EXCEPT !.value = again]
    BY <1>6 DEF OtherTold
  <2>2. again = value
    BY <1>6, <1>7
  <2> HIDE DEF again
  <2> QED BY <1>6, <2>1, <2>2
<1>10. ASSUME Other(tlv) PROVE Other(told) /\ OtherWire(told) = OtherWire(tlv)
  <2>1. Sayable(LvTold(lv)) /\ LvWire(LvTold(lv)) = LvWire(lv)
    BY <1>4, <1>5, <1>10
  <2>2. Other(told)
    BY <1>3, <1>6, <2>1 DEF Sayable, Other
  <2>3. Copied(value, tlv.length) = Copied(tlv.value, tlv.length)
    <3> DEFINE n == tlv.length
    <3>1. n \in Nat /\ PointsTo(tlv.value, n) /\ tlv.value \in Pointer
          /\ (tlv.value # Null \/ n = 0) /\ (value # Null \/ n = 0)
      BY <1>1, <1>6, <1>10, <2>2, OctetIsNat DEF Other
    <3> DEFINE octets == Copied(tlv.value, n)
    <3>2. octets \in Seq(Octet) /\ Len(octets) = n
      BY <3>1, CopiedType
    <3>3. CASE n = 0
      BY <3>3 DEF Copied
    <3>4. CASE n # 0
      <4>1. value = PointerTo(octets)
        BY <3>1, <3>4 DEF value, Told
      <4> HIDE DEF octets, n
      <4>2. value[1] = octets
        BY <4>1 DEF PointerTo
      <4>3. Copied(value, n) = SubSeq(octets, 1, Len(octets))
        BY <3>2, <3>4, <4>2 DEF Copied, Slice
      <4>4. SubSeq(octets, 1, Len(octets)) = octets
        BY <3>2, SubSeqFull
      <4> QED BY <4>3, <4>4 DEF n, octets
    <3> QED BY <3>3, <3>4
  <2>4. told.type = tlv.type /\ told.length = tlv.length /\ told.value = value
    BY <1>6
  <2> QED BY <2>2, <2>3, <2>4 DEF OtherWire
<1>11. told.type = tlv.type
  BY <1>6
<1> QED BY <1>8, <1>9, <1>10, <1>11 DEF told

(* A parameter arrives as one that could have been attached, that is       *)
(* encoded as the octets it came in.                                       *)
LEMMA OnWireType ==
  ASSUME NEW p \in Attachable
  PROVE  /\ OnWire(p) \in Attachable /\ OnWire(p).kind = p.kind /\ OnWire(OnWire(p)) = OnWire(p)
         /\ Sendable(p) => Sendable(OnWire(p)) /\ ParameterWire(OnWire(p)) = ParameterWire(p)
<1> DEFINE a == OnWire(p)
<1>1. CASE p.kind = "request"
  <2> DEFINE req == p.tlv
             told == RequestTold(req)
  <2>1. /\ req \in RequestFields /\ ParameterWire(p) = RequestWire(req)
        /\ Sendable(p) = Requested(req) /\ a = [kind |-> "request", tlv |-> told]
    BY <1>1, RequestKind
  <2>2. told \in RequestFields /\ RequestTold(told) = told
        /\ (Requested(req) => Requested(told) /\ RequestWire(told) = RequestWire(req))
    BY <2>1, RequestToldType
  <2> HIDE DEF a, told
  <2>3. a \in Attachable
    BY <2>1, <2>2 DEF Attachable, RequestFields
  <2>4. a.kind = "request" /\ a.tlv = told
    BY <2>1
  <2>5. ParameterWire(a) = RequestWire(told) /\ Sendable(a) = Requested(told)
        /\ OnWire(a) = [kind |-> "request", tlv |-> RequestTold(told)]
    BY <2>3, <2>4, RequestKind
  <2> QED BY <1>1, <2>1, <2>2, <2>3, <2>4, <2>5 DEF a
<1>2. CASE p.kind = "response"
  <2> DEFINE resp == p.tlv
             told == ResponseTold(resp)
  <2>1. /\ resp \in ResponseFields /\ ParameterWire(p) = ResponseWire(resp)
        /\ Sendable(p) = Responded(resp) /\ a = [kind |-> "response", tlv |-> told]
    BY <1>2, ResponseKind
  <2>2. told \in ResponseFields /\ ResponseTold(told) = told
        /\ (Responded(resp) => Responded(told) /\ ResponseWire(told) = ResponseWire(resp))
    BY <2>1, ResponseToldType
  <2> HIDE DEF a, told
  <2>3. a \in Attachable
    BY <2>1, <2>2 DEF Attachable, ResponseFields
  <2>4. a.kind = "response" /\ a.tlv = told
    BY <2>1
  <2>5. ParameterWire(a) = ResponseWire(told) /\ Sendable(a) = Responded(told)
        /\ OnWire(a) = [kind |-> "response", tlv |-> ResponseTold(told)]
    BY <2>3, <2>4, ResponseKind
  <2> QED BY <1>2, <2>1, <2>2, <2>3, <2>4, <2>5 DEF a
<1>3. CASE p.kind = "override"
  BY <1>3, OverrideKind
<1>4. CASE p.kind = "other"
  <2> DEFINE tlv == p.tlv
             told == OtherTold(tlv)
  <2>1. /\ tlv \in OtherFields /\ ParameterWire(p) = OtherWire(tlv)
        /\ Sendable(p) = Other(tlv) /\ a = [kind |-> "other", tlv |-> told]
        /\ Walker!KindOf(tlv.type) = "other" /\ tlv.type # CFDP_TLV_ENTITY_ID
    BY <1>4, OtherKind
  <2>2. told \in OtherFields /\ OtherTold(told) = told /\ told.type = tlv.type
        /\ (Other(tlv) => Other(told) /\ OtherWire(told) = OtherWire(tlv))
    BY <2>1, OtherToldType
  <2> HIDE DEF a, told
  <2>3. a \in Attachable
    BY <2>1, <2>2 DEF Attachable, OtherFields
  <2>4. a.kind = "other" /\ a.tlv = told
    BY <2>1
  <2>5. ParameterWire(a) = OtherWire(told) /\ Sendable(a) = Other(told)
        /\ OnWire(a) = [kind |-> "other", tlv |-> OtherTold(told)]
    BY <2>3, <2>4, OtherKind
  <2> QED BY <1>4, <2>1, <2>2, <2>3, <2>4, <2>5 DEF a
<1> QED BY <1>1, <1>2, <1>3, <1>4, ParameterKinds

(* The caller's structures, as the instance of the walk has them.          *)
LEMMA WalkerTypes ==
  /\ Walker!Request = [action_code : 0 .. 8, first_filename : Lv, second_filename : Lv]
  /\ Walker!Response = [action_code : 0 .. 8, status_code : 0 .. 15,
                        first_filename : Lv, second_filename : Lv, message : Lv]
  /\ Walker!Override = [condition_code : 0 .. 11, handler_code : 0 .. 4]
  /\ Walker!Tlv = [type : Octet, length : Octet, value : Pointer]
  /\ Walker!Structures = [request : Walker!Request, response : Walker!Response,
                          override : Walker!Override, other : Walker!Tlv]
  /\ Walker!Clear \in Walker!Structures
  /\ Walker!Kinds = {"request", "response", "override", "other"}
  /\ Walker!Octet = Octet
<1>1. /\ Walker!Octet = Octet /\ Walker!Pointer = Pointer /\ Walker!Null = Null
      /\ Walker!Lv = Lv /\ Walker!NoLv = NoLv
      /\ Walker!CFDP_FS_ACTION_DENY_DIRECTORY = 8 /\ CFDP_FS_ACTION_DENY_DIRECTORY = 8
  BY DEF Walker!Octet, Octet, Walker!Pointer, Pointer, Walker!Null, Null, Walker!Lv, Lv,
         Walker!NoLv, NoLv, Walker!CFDP_FS_ACTION_DENY_DIRECTORY, CFDP_FS_ACTION_DENY_DIRECTORY
<1>2. /\ Walker!Request = [action_code : 0 .. 8, first_filename : Lv, second_filename : Lv]
      /\ Walker!Response = [action_code : 0 .. 8, status_code : 0 .. 15,
                            first_filename : Lv, second_filename : Lv, message : Lv]
      /\ Walker!Override = [condition_code : 0 .. 11, handler_code : 0 .. 4]
      /\ Walker!Tlv = [type : Octet, length : Octet, value : Pointer]
  BY <1>1 DEF Walker!Request, Walker!Response, Walker!Override, Walker!Tlv
<1>3. NoLv \in Lv /\ 0 \in Octet /\ Null \in Pointer /\ 0 \in 0 .. 8 /\ 0 \in 0 .. 15
      /\ 0 \in 0 .. 11 /\ 0 \in 0 .. 4
  BY DEF NoLv, Lv, Octet, Null, Pointer
<1>4. /\ Walker!ClearRequest \in Walker!Request /\ Walker!ClearResponse \in Walker!Response
      /\ Walker!ClearOverride \in Walker!Override /\ Walker!ClearTlv \in Walker!Tlv
  BY <1>1, <1>2, <1>3 DEF Walker!ClearRequest, Walker!ClearResponse, Walker!ClearOverride,
     Walker!ClearTlv
<1>5. Walker!Clear = [request |-> Walker!ClearRequest, response |-> Walker!ClearResponse,
                      override |-> Walker!ClearOverride, other |-> Walker!ClearTlv]
  BY DEF Walker!Clear
<1>6. Walker!Structures = [request : Walker!Request, response : Walker!Response,
                           override : Walker!Override, other : Walker!Tlv]
  BY DEF Walker!Structures
<1>7. Walker!Clear \in Walker!Structures
  BY <1>4, <1>5, <1>6
<1>8. Walker!Kinds = {"request", "response", "override", "other"}
  BY <1>5 DEF Walker!Kinds
<1> QED BY <1>1, <1>2, <1>6, <1>7, <1>8

(* A parameter fits the one of its kind.                                   *)
LEMMA ParameterStored ==
  ASSUME NEW p \in Attachable, Sendable(p), NEW g \in Walker!Structures
  PROVE  /\ [g EXCEPT ![p.kind] = p.tlv] \in Walker!Structures
         /\ p.kind \in Walker!Kinds
         /\ p.tlv \in Walker!Request \cup Walker!Response \cup Walker!Override \cup Walker!Tlv
<1> DEFINE request == Walker!Request
           response == Walker!Response
           override == Walker!Override
           other == Walker!Tlv
           Fits(kind, tlv) ==
             /\ [g EXCEPT ![kind] = tlv] \in Walker!Structures
             /\ tlv \in request \cup response \cup override \cup other
<1> SUFFICES Fits(p.kind, p.tlv)
  BY ParameterKinds, WalkerTypes DEF Fits
<1> HIDE DEF request, response, override, other
<1>1. Walker!Structures = [request : request, response : response, override : override,
                           other : other]
  BY WalkerTypes DEF request, response, override, other
<1>2. /\ \A tlv \in request : Fits("request", tlv)
      /\ \A tlv \in response : Fits("response", tlv)
      /\ \A tlv \in override : Fits("override", tlv)
      /\ \A tlv \in other : Fits("other", tlv)
  BY <1>1
<1> HIDE DEF Fits
<1>3. \A code \in Octet : ActionValid(code) => code \in 0 .. 8
  BY DEF ActionValid, Octet, CFDP_FS_ACTION_DENY_DIRECTORY
<1>4. Name \subseteq Lv
  BY DEF Name
<1>5. CASE p.kind = "request"
  <2>1. p.tlv \in RequestFields /\ Requested(p.tlv)
    BY <1>5, RequestKind
  <2>2. p.tlv \in request
    BY <1>3, <1>4, <2>1, WalkerTypes DEF RequestFields, Requested, request
  <2> QED BY <1>2, <1>5, <2>2
<1>6. CASE p.kind = "response"
  <2>1. p.tlv \in ResponseFields /\ Responded(p.tlv)
    BY <1>6, ResponseKind
  <2>2. p.tlv \in response
    BY <1>3, <1>4, <2>1, WalkerTypes DEF ResponseFields, Responded, response
  <2> QED BY <1>2, <1>6, <2>2
<1>7. CASE p.kind = "override"
  <2>1. p.tlv \in OverrideFields /\ OverrideValid(p.tlv.condition_code, p.tlv.handler_code)
    BY <1>7, OverrideKind
  <2>2. p.tlv.condition_code \in 0 .. 11 /\ p.tlv.handler_code \in 0 .. 4
    BY <2>1 DEF OverrideValid, CFDP_COND_POSITIVE_ACK_LIMIT_REACHED,
       CFDP_COND_UNSUPPORTED_CHECKSUM_TYPE
  <2>3. p.tlv \in override
    BY <2>1, <2>2, WalkerTypes DEF OverrideFields, override
  <2> QED BY <1>2, <1>7, <2>3
<1>8. CASE p.kind = "other"
  <2>1. p.tlv \in OtherFields
    BY <1>8, OtherKind
  <2>2. p.tlv \in other
    BY <2>1, WalkerTypes DEF OtherFields, Tlv, other
  <2> QED BY <1>2, <1>8, <2>2
<1> QED BY <1>5, <1>6, <1>7, <1>8, ParameterKinds

-----------------------------------------------------------------------------
(* The chain                                                               *)

(* A parameter that has arrived, or will.                                  *)
Travels(p) ==
  /\ p \in Attachable /\ OnWire(p) = p /\ Sendable(p)
  /\ Wire(p) = ParameterWire(p) /\ Wire(p) \in Seq(Octet) /\ Len(Wire(p)) \in Nat
  /\ Len(Wire(p)) >= 2

(* Every parameter that can be encoded is one that travels.                *)
LEMMA TravelsIs ==
  ASSUME NEW p \in ParametersOnWire, Wire(p) # << >>
  PROVE  Travels(p)
<1>1. p \in Attachable /\ OnWire(p) = p
  <2>1. PICK q \in Parameters : p = OnWire(q)
    BY DEF ParametersOnWire
  <2>2. q \in Attachable
    BY <2>1, DeliveryAssumption
  <2> QED BY <2>1, <2>2, OnWireType
<1>2. Sendable(p) /\ Wire(p) = ParameterWire(p)
  <2>1. Capacity \in Int
    BY DeliveryAssumption
  <2> QED BY <1>1, <2>1, ParameterWritten DEF Wire
<1>3. IsTlv(TypeOn(p), ParameterWire(p))
  BY <1>1, <1>2, ParameterIsTlv
<1> QED BY <1>1, <1>2, <1>3 DEF Travels, IsTlv

(* What has been encoded into what was left of the buffer is what would    *)
(* have been encoded into all of it, and from what arrives.                *)
LEMMA EncodedTravels ==
  ASSUME NEW p \in Parameters, NEW n \in Int, n <= Capacity,
         Walker!Encode(p.kind, p.tlv, n) # << >>
  PROVE  /\ OnWire(p) \in ParametersOnWire /\ Travels(OnWire(p))
         /\ Walker!Encode(p.kind, p.tlv, n) = Wire(OnWire(p))
         /\ Len(Wire(OnWire(p))) <= n
<1> DEFINE a == OnWire(p)
           octets == ParameterWire(p)
<1>1. p \in Attachable /\ Capacity \in Nat
  BY DeliveryAssumption
<1>2. Sendable(p) /\ Walker!Encode(p.kind, p.tlv, n) = octets /\ Len(octets) <= n
  BY <1>1, ParameterWritten
<1>3. a \in Attachable /\ OnWire(a) = a /\ Sendable(a) /\ ParameterWire(a) = octets
  BY <1>1, <1>2, OnWireType
<1>4. a \in ParametersOnWire
  BY DEF ParametersOnWire
<1>5. IsTlv(TypeOn(p), octets)
  BY <1>1, <1>2, ParameterIsTlv
<1>6. Len(octets) \in Nat /\ Len(octets) >= 2
  BY <1>5 DEF IsTlv
<1> HIDE DEF a, octets
<1>7. Wire(a) = octets
  <2>1. Len(octets) <= Capacity /\ Capacity \in Int
    BY <1>1, <1>2, <1>6
  <2>2. Len(ParameterWire(a)) <= Capacity
    BY <1>3, <2>1
  <2> QED BY <1>3, <2>1, <2>2, ParameterWritable DEF Wire
<1>8. Wire(a) # << >>
  BY <1>6, <1>7
<1>9. Travels(a)
  BY <1>4, <1>8, TravelsIs
<1> QED BY <1>2, <1>4, <1>7, <1>9 DEF a

(* The joins of a list, one by one.                                        *)
JoinsAs(list, joins) ==
  /\ Len(list) \in Nat /\ joins \in [0 .. Len(list) -> Seq(Octet)]
  /\ joins[0] = << >>
  /\ \A k \in 1 .. Len(list) : joins[k] = joins[k - 1] \o Wire(list[k])

(* Joins is what the recursion over the parameters says.                   *)
LEMMA JoinsIs ==
  ASSUME NEW list, Len(list) \in Nat, \A k \in 1 .. Len(list) : Wire(list[k]) \in Seq(Octet)
  PROVE  JoinsAs(list, Joins(list))
<1> DEFINE len == Len(list)
           none == << >>
           Step(s, k) == s \o Wire(list[k])
           step == [x \in Seq(Octet) \X (1 .. len) |-> Step(x[1], x[2])]
           Turn(g) == [k \in 0 .. len |-> IF k = 0 THEN none ELSE Step(g[k - 1], k)]
           joined == CHOOSE g : g = Turn(g)
<1>1. Joins(list) = joined
  BY DEF Joins
<1>2. len \in Nat /\ none \in Seq(Octet)
  OBVIOUS
<1>3. ASSUME NEW s \in Seq(Octet), NEW k \in 1 .. len PROVE Step(s, k) \in Seq(Octet)
  BY ConcatProperties
<1>4. \A s : \A k \in 1 .. len : Step(s, k) = s \o Wire(list[k])
  OBVIOUS
<1> HIDE DEF Step, none, len
<1>5. step \in [Seq(Octet) \X (1 .. len) -> Seq(Octet)]
  BY <1>3
<1>6. PICK f \in [0 .. len -> Seq(Octet)] : Accumulates(len, none, step, f)
  <2> HIDE DEF step
  <2> QED BY ONLY <1>2, <1>5, Recursion
<1>7. f = Turn(f)
  <2>1. ASSUME NEW k \in 0 .. len PROVE f[k] = IF k = 0 THEN none ELSE Step(f[k - 1], k)
    <3>1. CASE k = 0
      BY <1>6, <3>1 DEF Accumulates
    <3>2. CASE k # 0
      <4>1. k \in 1 .. len /\ k - 1 \in 0 .. len
        BY <1>2, <3>2
      <4>2. f[k] = step[<<f[k - 1], k>>] /\ <<f[k - 1], k>> \in Seq(Octet) \X (1 .. len)
        BY <1>6, <4>1 DEF Accumulates
      <4> QED BY <3>2, <4>2
    <3> QED BY <3>1, <3>2
  <2>2. f = [k \in 0 .. len |-> f[k]]
    BY <1>6
  <2> QED BY <2>1, <2>2
<1>8. joined = Turn(joined)
  <2> HIDE DEF Turn
  <2> QED BY <1>7
<1> HIDE DEF joined
<1>9. DOMAIN joined = 0 .. len
      /\ \A k \in 0 .. len : joined[k] = IF k = 0 THEN none ELSE Step(joined[k - 1], k)
  BY <1>8
<1> DEFINE T == {k \in 0 .. len : joined[k] \in Seq(Octet)}
<1>10. 0 \in T
  BY <1>2, <1>9
<1>11. ASSUME NEW k \in 0 .. len, k \in T, k < len
       PROVE  k + 1 \in T
  <2>1. k + 1 \in 0 .. len /\ k + 1 \in 1 .. len /\ k + 1 # 0 /\ (k + 1) - 1 = k
    BY <1>2, <1>11
  <2>2. joined[k + 1] = Step(joined[k], k + 1)
    BY <1>9, <2>1
  <2> QED BY <1>3, <1>11, <2>1, <2>2
<1>12. 0 .. len \subseteq T
  <2> HIDE DEF T
  <2> QED BY <1>2, <1>10, <1>11, BoundedInduction
<1>13. joined \in [0 .. len -> Seq(Octet)]
  <2>1. joined = [k \in 0 .. len |-> joined[k]]
    BY <1>8
  <2> QED BY <1>12, <2>1
<1>14. joined[0] = none /\ \A k \in 1 .. len : joined[k] = joined[k - 1] \o Wire(list[k])
  <2>1. 0 \in 0 .. len /\ \A k \in 1 .. len : k \in 0 .. len /\ k # 0
    BY <1>2
  <2> QED BY <1>4, <1>9, <2>1
<1> QED BY <1>1, <1>2, <1>13, <1>14 DEF JoinsAs, len, none

(* One more does not change those before it.                               *)
HasOneMore(list, joins, more, longer) ==
  /\ JoinsAs(list, joins) /\ JoinsAs(more, longer)
  /\ Len(more) = Len(list) + 1 /\ \A k \in 1 .. Len(list) : more[k] = list[k]

GoesOnWith(whole, front, p) == whole = front \o Wire(p)

(* One more parameter goes behind the octets of the others.                *)
LEMMA JoinsAppend ==
  ASSUME NEW list, NEW joins, NEW more, NEW longer, HasOneMore(list, joins, more, longer)
  PROVE  GoesOnWith(longer[Len(more)], joins[Len(list)], more[Len(more)])
<1> DEFINE len == Len(list)
           T == {k \in 0 .. len : longer[k] = joins[k]}
<1>1. len \in Nat /\ Len(more) = len + 1
  BY DEF HasOneMore, JoinsAs
<1>2. 0 \in T
  BY <1>1 DEF HasOneMore, JoinsAs
<1>3. ASSUME NEW k \in 0 .. len, k \in T, k < len
      PROVE  k + 1 \in T
  <2>1. k + 1 \in 0 .. len /\ k + 1 \in 1 .. len /\ k + 1 \in 1 .. Len(more) /\ (k + 1) - 1 = k
    BY <1>1, <1>3
  <2>2. joins[k + 1] = joins[k] \o Wire(list[k + 1])
    BY <2>1 DEF HasOneMore, JoinsAs
  <2>3. longer[k + 1] = longer[k] \o Wire(more[k + 1])
    BY <2>1 DEF HasOneMore, JoinsAs
  <2>4. more[k + 1] = list[k + 1]
    BY <2>1 DEF HasOneMore
  <2> QED BY <1>3, <2>1, <2>2, <2>3, <2>4
<1>4. 0 .. len \subseteq T
  <2> HIDE DEF T, len
  <2> QED BY <1>1, <1>2, <1>3, BoundedInduction
<1>5. longer[len + 1] = longer[len] \o Wire(more[len + 1])
  <2>1. len + 1 \in 1 .. Len(more) /\ (len + 1) - 1 = len
    BY <1>1
  <2> QED BY <2>1 DEF HasOneMore, JoinsAs
<1>6. len \in 0 .. len
  BY <1>1
<1> QED BY <1>1, <1>4, <1>5, <1>6 DEF GoesOnWith

(* The whole goes on behind each of its joins.                             *)
Goes(whole, front) == \E back \in Seq(Octet) : whole = front \o back

(* The octets of the first parameters are those of all of them, cut.       *)
LEMMA JoinsGoOn ==
  ASSUME NEW list, NEW joins, JoinsAs(list, joins),
         \A k \in 1 .. Len(list) : Wire(list[k]) \in Seq(Octet)
  PROVE  \A k \in 0 .. Len(list) : Goes(joins[Len(list)], joins[k])
<1> DEFINE len == Len(list)
           none == << >>
           T == {m \in 0 .. len : \A k \in 0 .. m : Goes(joins[m], joins[k])}
<1>1. len \in Nat /\ none \in Seq(Octet) /\ \A k \in 0 .. len : joins[k] \in Seq(Octet)
  BY DEF JoinsAs
<1>2. \A s \in Seq(Octet) : Goes(s, s)
  <2> SUFFICES ASSUME NEW s \in Seq(Octet) PROVE Goes(s, s)
    OBVIOUS
  <2>1. s \o none = s
    BY ConcatEmptySeq
  <2> HIDE DEF none
  <2> QED BY <1>1, <2>1 DEF Goes
<1>3. 0 \in T
  <2>1. \A k \in 0 .. 0 : k = 0
    OBVIOUS
  <2>2. 0 \in 0 .. len
    BY <1>1
  <2> QED BY <1>1, <1>2, <2>1, <2>2
<1>4. ASSUME NEW m \in 0 .. len, m \in T, m < len
      PROVE  m + 1 \in T
  <2>1. m + 1 \in 0 .. len /\ m + 1 \in 1 .. len /\ (m + 1) - 1 = m
    BY <1>1, <1>4
  <2>2. joins[m + 1] = joins[m] \o Wire(list[m + 1]) /\ Wire(list[m + 1]) \in Seq(Octet)
    BY <2>1 DEF JoinsAs
  <2>3. ASSUME NEW k \in 0 .. m + 1 PROVE Goes(joins[m + 1], joins[k])
    <3>1. CASE k = m + 1
      BY <1>1, <1>2, <2>1, <3>1
    <3>2. CASE k # m + 1
      <4>1. k \in 0 .. m /\ k \in 0 .. len
        BY <1>1, <1>4, <2>3, <3>2
      <4>2. PICK back \in Seq(Octet) : joins[m] = joins[k] \o back
        BY <1>4, <4>1 DEF Goes
      <4> DEFINE front == joins[k]
                 wire == Wire(list[m + 1])
      <4>3. front \in Seq(Octet) /\ wire \in Seq(Octet) /\ joins[m + 1] = (front \o back) \o wire
        BY <1>1, <2>2, <4>1, <4>2
      <4> HIDE DEF front, wire
      <4>4. (front \o back) \o wire = front \o (back \o wire)
        BY ONLY back \in Seq(Octet), <4>3, ConcatRegroups
      <4>5. back \o wire \in Seq(Octet)
        BY <4>3, ConcatProperties
      <4> QED BY <4>3, <4>4, <4>5 DEF Goes, front
    <3> QED BY <3>1, <3>2
  <2> QED BY <2>1, <2>3
<1>5. 0 .. len \subseteq T
  <2> HIDE DEF T, len
  <2> QED BY <1>1, <1>3, <1>4, BoundedInduction
<1>6. len \in 0 .. len
  BY <1>1
<1> QED BY <1>5, <1>6

(* Behind every join but the last there is the next parameter.             *)
LEMMA NextInChain ==
  ASSUME NEW list, NEW joins, JoinsAs(list, joins), NEW k \in Nat, k < Len(list),
         \A i \in 1 .. Len(list) : Wire(list[i]) \in Seq(Octet)
  PROVE  /\ joins[k] \in Seq(Octet) /\ joins[k + 1] \in Seq(Octet)
         /\ Len(joins[k + 1]) = Len(joins[k]) + Len(Wire(list[k + 1]))
         /\ \E back \in Seq(Octet) :
              joins[Len(list)] = joins[k] \o (Wire(list[k + 1]) \o back)
<1> DEFINE front == joins[k]
           wire == Wire(list[k + 1])
           whole == joins[Len(list)]
<1>1. Len(list) \in Nat
  BY DEF JoinsAs
<1>2. k \in 0 .. Len(list) /\ k + 1 \in 0 .. Len(list) /\ k + 1 \in 1 .. Len(list)
      /\ (k + 1) - 1 = k
  BY <1>1
<1>3. front \in Seq(Octet) /\ wire \in Seq(Octet) /\ joins[k + 1] = front \o wire
  BY <1>2 DEF JoinsAs
<1>4. PICK back \in Seq(Octet) : whole = (front \o wire) \o back
  <2>1. \A i \in 0 .. Len(list) : Goes(whole, joins[i])
    BY JoinsGoOn
  <2>2. Goes(whole, front \o wire)
    <3> HIDE DEF whole, front, wire
    <3> QED BY <1>2, <1>3, <2>1
  <2> QED BY <2>2 DEF Goes
<1> HIDE DEF front, wire
<1>5. (front \o wire) \o back = front \o (wire \o back)
  BY ONLY back \in Seq(Octet), <1>3, ConcatRegroups
<1>6. Joined(front \o wire, front, wire)
  BY <1>3, Join
<1>7. joins[k + 1] \in Seq(Octet) /\ Len(joins[k + 1]) = Len(front) + Len(wire)
  BY <1>3, <1>6 DEF Joined
<1> QED BY <1>3, <1>4, <1>5, <1>7 DEF front, wire

(* What the walk makes of the octets in front of it: one parameter.        *)
MetAs(p, rest, s) ==
  /\ TlvSize(rest) = Len(Wire(p)) /\ Walker!KindOf(At(rest, 0)) = p.kind
  /\ Walker!Decode(p.kind, rest, s) = [ret |-> Len(Wire(p)), tlv |-> p.tlv]

(* The walk meets it there.                                                *)
LEMMA MeetsNext ==
  ASSUME NEW p, Travels(p), NEW front \in Seq(Octet), NEW back \in Seq(Octet),
         NEW buf, buf = front \o (Wire(p) \o back), NEW s
  PROVE  MetAs(p, Slice(buf, Len(front), Len(buf)), s)
<1> DEFINE wire == Wire(p)
           more == wire \o back
           rest == Slice(buf, Len(front), Len(buf))
<1>1. /\ p \in Attachable /\ OnWire(p) = p /\ Sendable(p) /\ wire = ParameterWire(p)
      /\ wire \in Seq(Octet)
  BY DEF Travels
<1>2. IsTlv(TypeOn(p), wire) /\ Walker!KindOf(TypeOn(p)) = p.kind
  BY <1>1, ParameterIsTlv
<1>3. Walker!Decode(p.kind, more, s) = [ret |-> Len(wire), tlv |-> p.tlv]
  BY <1>1, ParameterRead
<1> HIDE DEF wire
<1>4. more \in Seq(Octet) /\ TlvSize(more) = Len(wire) /\ At(more, 0) = TypeOn(p)
  BY ONLY <1>2, back \in Seq(Octet), TlvFound
<1> HIDE DEF more
<1>5. rest = more
  <2>1. Joined(front \o more, front, more)
    BY <1>4, Join
  <2>2. buf = front \o more
    BY DEF more, wire
  <2> QED BY <2>1, <2>2 DEF Joined
<1> HIDE DEF rest
<1>6. TlvSize(rest) = Len(wire) /\ Walker!KindOf(At(rest, 0)) = p.kind
      /\ Walker!Decode(p.kind, rest, s) = [ret |-> Len(wire), tlv |-> p.tlv]
  BY <1>2, <1>3, <1>4, <1>5
<1> QED BY <1>6 DEF rest, wire, MetAs

(* One more of the first elements of a sequence.                           *)
LEMMA FrontAppend ==
  ASSUME NEW S, NEW list \in Seq(S), NEW k \in Nat, k < Len(list)
  PROVE  /\ SubSeq(list, 1, k + 1) = Append(SubSeq(list, 1, k), list[k + 1])
         /\ Len(SubSeq(list, 1, k)) = k
<1> DEFINE short == SubSeq(list, 1, k)
           long == SubSeq(list, 1, k + 1)
           e == list[k + 1]
<1>1. k + 1 \in 1 .. Len(list) /\ k \in Int /\ k + 1 \in Int /\ 1 \in Int
      /\ \A i \in 1 .. k + 1 : list[i] \in S
  BY LenProperties
<1>2. /\ short \in Seq(S) /\ Len(short) = k
      /\ \A i \in 1 .. k : short[i] = list[i]
  <2>1. short \in Seq(S) /\ Len(short) = (IF 1 <= k THEN k - 1 + 1 ELSE 0)
        /\ \A i \in 1 .. k - 1 + 1 : short[i] = list[1 + i - 1]
    BY <1>1, SubSeqProperties
  <2>2. k - 1 + 1 = k /\ (~ (1 <= k) => k = 0) /\ \A i \in 1 .. k : 1 + i - 1 = i
    OBVIOUS
  <2> HIDE DEF short
  <2> QED BY <2>1, <2>2
<1>3. /\ long \in Seq(S) /\ Len(long) = k + 1
      /\ \A i \in 1 .. k + 1 : long[i] = list[i]
  <2>1. long \in Seq(S) /\ Len(long) = (IF 1 <= k + 1 THEN k + 1 - 1 + 1 ELSE 0)
        /\ \A i \in 1 .. k + 1 - 1 + 1 : long[i] = list[1 + i - 1]
    BY <1>1, SubSeqProperties
  <2>2. k + 1 - 1 + 1 = k + 1 /\ 1 <= k + 1 /\ \A i \in 1 .. k + 1 : 1 + i - 1 = i
    OBVIOUS
  <2> HIDE DEF long
  <2> QED BY <2>1, <2>2
<1>4. e \in S
  BY <1>1
<1> HIDE DEF short, long, e
<1>5. Append(short, e) = long
  <2> DEFINE more == Append(short, e)
  <2>1. /\ more \in Seq(S) /\ Len(more) = Len(short) + 1
        /\ \A i \in 1 .. Len(short) : more[i] = short[i]
        /\ more[Len(short) + 1] = e
    BY <1>2, <1>4, AppendProperties
  <2> HIDE DEF more
  <2>2. \A i \in 1 .. k + 1 : more[i] = long[i]
    <3> SUFFICES ASSUME NEW i \in 1 .. k + 1 PROVE more[i] = long[i]
      OBVIOUS
    <3>1. CASE i = k + 1
      BY <1>2, <1>3, <2>1, <3>1 DEF e
    <3>2. CASE i # k + 1
      <4>1. i \in 1 .. k
        BY <3>2
      <4> QED BY <1>2, <1>3, <2>1, <4>1
    <3> QED BY <3>1, <3>2
  <2>3. Len(more) = Len(long)
    BY <1>2, <1>3, <2>1
  <2>4. more = long
    BY <1>3, <2>1, <2>2, <2>3, SeqEqual
  <2> QED BY <2>4 DEF more
<1> QED BY <1>2, <1>5 DEF short, long, e

(* The user is given every parameter that was taken.                       *)
LEMMA GivenIs ==
  ASSUME NEW met, NEW S, NEW list \in Seq(S), Len(met) \in Nat, Len(met) <= Len(list),
         \A i \in 1 .. Len(met) :
           met[i].ret # 0 /\ list[i] = [kind |-> met[i].kind, tlv |-> met[i].tlv]
  PROVE  Given(met) = SubSeq(list, 1, Len(met))
<1> DEFINE len == Len(met)
           none == << >>
           Entry(k) == [kind |-> met[k].kind, tlv |-> met[k].tlv]
           Step(s, k) == IF met[k].ret = 0 THEN s ELSE Append(s, Entry(k))
           Turn(g) == [k \in 0 .. len |-> IF k = 0 THEN none ELSE Step(g[k - 1], k)]
           given == CHOOSE g : g = Turn(g)
           f == [k \in 0 .. len |-> SubSeq(list, 1, k)]
<1>1. Given(met) = given[len]
  BY DEF Given
<1>2. SubSeq(list, 1, 0) = none
  BY SubSeqEmpty
<1>3. \A k \in 1 .. len : met[k].ret # 0 /\ Entry(k) = list[k]
  OBVIOUS
<1>4. len \in Nat /\ len <= Len(list) /\ Len(list) \in Nat
  BY LenProperties
<1> HIDE DEF Entry, none, len
<1>5. f = Turn(f)
  <2>1. ASSUME NEW k \in 0 .. len
        PROVE  f[k] = IF k = 0 THEN none ELSE Step(f[k - 1], k)
    <3>1. CASE k = 0
      BY <1>2, <3>1
    <3>2. CASE k # 0
      <4> DEFINE m == k - 1
      <4>1. k \in 1 .. len /\ m \in 0 .. len /\ m \in Nat /\ m < Len(list) /\ m + 1 = k
        BY <1>4, <3>2
      <4> HIDE DEF m
      <4>2. SubSeq(list, 1, m + 1) = Append(SubSeq(list, 1, m), list[m + 1])
        BY <4>1, FrontAppend
      <4>3. f[k] = Append(f[m], list[k])
        BY <4>1, <4>2
      <4>4. Step(f[m], k) = Append(f[m], list[k])
        BY <1>3, <4>1
      <4> HIDE DEF f, Step
      <4> QED BY <3>2, <4>1, <4>3, <4>4 DEF m
    <3> QED BY <3>1, <3>2
  <2>2. f = [k \in 0 .. len |-> f[k]]
    OBVIOUS
  <2> HIDE DEF f, Step
  <2> QED BY <2>1, <2>2
<1>6. given = Turn(given)
  <2> HIDE DEF Turn, f
  <2> QED BY <1>5
<1> HIDE DEF given
<1>7. \A k \in 0 .. len : given[k] = IF k = 0 THEN none
                                     ELSE IF met[k].ret = 0 THEN given[k - 1]
                                     ELSE Append(given[k - 1], Entry(k))
  BY <1>6
<1> DEFINE T == {k \in 0 .. len : given[k] = SubSeq(list, 1, k)}
<1>8. 0 \in T
  <2>1. 0 \in 0 .. len
    BY <1>4
  <2>2. given[0] = none
    BY <1>7, <2>1
  <2>3. given[0] = SubSeq(list, 1, 0)
    BY <1>2, <2>2
  <2> QED BY <2>1, <2>3
<1>9. ASSUME NEW k \in 0 .. len, k \in T, k < len
      PROVE  k + 1 \in T
  <2>1. k + 1 \in 0 .. len /\ k + 1 \in 1 .. len /\ k + 1 # 0 /\ (k + 1) - 1 = k
        /\ k \in Nat /\ k < Len(list)
    BY <1>4, <1>9
  <2>2. given[k + 1] = Append(given[k], list[k + 1])
    BY <1>3, <1>7, <2>1
  <2>3. SubSeq(list, 1, k + 1) = Append(SubSeq(list, 1, k), list[k + 1])
    BY <2>1, FrontAppend
  <2> QED BY <1>9, <2>1, <2>2, <2>3
<1>10. 0 .. len \subseteq T
  <2> HIDE DEF T
  <2> QED BY <1>4, <1>8, <1>9, BoundedInduction
<1>11. len \in 0 .. len
  BY <1>4
<1> QED BY <1>1, <1>10, <1>11 DEF len

-----------------------------------------------------------------------------
(* The chain in the Finished PDU                                           *)

(* The octets of a parameter, where they stand in the chain.               *)
LEMMA TlvInChain ==
  ASSUME NEW list, NEW joins, JoinsAs(list, joins), NEW k \in Nat, k < Len(list),
         \A i \in 1 .. Len(list) : Travels(list[i])
  PROVE  LET whole == joins[Len(list)]
             a == Len(joins[k])
             b == Len(joins[k + 1])
         IN /\ whole \in Seq(Octet) /\ a \in Nat /\ b \in Nat /\ a + 2 <= b /\ b <= Len(whole)
            /\ At(whole, a) = TypeOn(list[k + 1]) /\ b = a + 2 + At(whole, a + 1)
<1> DEFINE whole == joins[Len(list)]
           front == joins[k]
           p == list[k + 1]
           wire == Wire(p)
           a == Len(front)
           b == Len(joins[k + 1])
           w == Len(whole)
<1>1. \A i \in 1 .. Len(list) : Wire(list[i]) \in Seq(Octet)
  BY DEF Travels
<1>2. PICK back \in Seq(Octet) : /\ front \in Seq(Octet) /\ joins[k + 1] \in Seq(Octet)
                                 /\ b = a + Len(wire) /\ whole = front \o (wire \o back)
  BY <1>1, NextInChain
<1>3. Travels(p)
  <2>1. k + 1 \in 1 .. Len(list)
    BY DEF JoinsAs
  <2> QED BY <2>1
<1>4. IsTlv(TypeOn(p), wire)
  BY <1>3, ParameterIsTlv DEF Travels
<1> HIDE DEF whole, front, p, wire
<1> DEFINE more == wire \o back
<1>5. /\ more \in Seq(Octet) /\ At(more, 0) = TypeOn(p) /\ At(more, 1) = At(wire, 1)
      /\ TlvSize(more) = Len(wire)
  BY ONLY <1>4, back \in Seq(Octet), TlvFound
<1>6. Len(wire) = At(wire, 1) + 2 /\ At(wire, 1) \in Octet /\ wire \in Seq(Octet)
  BY <1>4 DEF IsTlv
<1>7. Len(more) = Len(wire) + Len(back) /\ Len(back) \in Nat /\ Len(wire) \in Nat
  <2>1. Joined(more, wire, back)
    BY <1>6, Join
  <2> QED BY <1>6, <2>1, LenProperties DEF Joined
<1>8. whole = front \o more
  BY <1>2
<1> DEFINE m == Len(more)
<1> HIDE DEF more
<1>9. Joined(whole, front, more)
  BY <1>2, <1>5, <1>8, Join
<1>10. whole \in Seq(Octet) /\ w = a + m /\ Slice(whole, a, w) = more
       /\ a \in Nat /\ w \in Nat /\ m \in Nat
  BY <1>2, <1>5, <1>9, LenProperties DEF Joined
<1>11. m >= 2 /\ b = a + 2 + At(more, 1) /\ b <= w /\ b \in Nat /\ a + 2 <= b
  <2> DEFINE c == At(wire, 1)
             d == Len(back)
             e == Len(wire)
  <2>1. c \in Nat /\ d \in Nat /\ e = c + 2 /\ m = e + d /\ b = a + e /\ At(more, 1) = c
        /\ a \in Nat /\ w = a + m
    BY <1>2, <1>5, <1>6, <1>7, <1>10, OctetIsNat DEF more
  <2> HIDE DEF c, d, e, b, m, a, w
  <2> QED BY <2>1
<1>12. At(whole, a + 0) = At(more, 0) /\ At(whole, a + 1) = At(more, 1)
  <2> HIDE DEF a, w
  <2>1. a <= w /\ w <= Len(whole) /\ 0 \in Nat /\ 1 \in Nat /\ 0 < w - a /\ 1 < w - a
    <3>1. w = Len(whole)
      BY DEF w
    <3> HIDE DEF m
    <3> QED BY <1>10, <1>11, <3>1
  <2>2. At(Slice(whole, a, w), 0) = At(whole, a + 0)
    BY ONLY <1>10, <2>1, SliceAt
  <2>3. At(Slice(whole, a, w), 1) = At(whole, a + 1)
    BY ONLY <1>10, <2>1, SliceAt
  <2> QED BY <1>10, <2>2, <2>3
<1>13. a + 0 = a
  BY <1>10
<1> QED BY <1>5, <1>10, <1>11, <1>12, <1>13 DEF whole, front, p

(* Octets that hold a chain behind the two fixed ones of a Finished PDU.   *)
Holds(f, whole) ==
  /\ f \in Seq(Octet) /\ FixedLen + Len(whole) <= Len(f)
  /\ Slice(f, FixedLen, FixedLen + Len(whole)) = whole

(* An octet of the span, where it stands in the data field.                *)
LEMMA HoldsAt ==
  ASSUME NEW f, NEW whole \in Seq(Octet), Holds(f, whole), NEW i \in Nat, i < Len(whole)
  PROVE  At(f, FixedLen + i) = At(whole, i)
<1> DEFINE w == Len(whole)
<1>1. w \in Nat /\ FixedLen = 2 /\ f \in Seq(Octet) /\ i < w
  BY LenProperties DEF Holds, FixedLen
<1>2. FixedLen + w <= Len(f) /\ Slice(f, FixedLen, FixedLen + w) = whole
  BY DEF Holds
<1> HIDE DEF w
<1>3. FixedLen \in Nat /\ FixedLen + w \in Nat /\ FixedLen <= FixedLen + w
      /\ i < FixedLen + w - FixedLen
  BY <1>1
<1> QED BY <1>1, <1>2, <1>3, SliceAt

(* The lengths in the chain lead from parameter to parameter.              *)
Places(list, joins) == {FixedLen + Len(joins[k]) : k \in 0 .. Len(list)}

(* A parameter's length octet leads to the next place.                     *)
LEMMA PlaceLeadsOn ==
  ASSUME NEW list, NEW joins, JoinsAs(list, joins), \A i \in 1 .. Len(list) : Travels(list[i]),
         NEW f, Holds(f, joins[Len(list)]), NEW k \in Nat, k < Len(list)
  PROVE  LET a == FixedLen + Len(joins[k])
             b == FixedLen + Len(joins[k + 1])
         IN /\ a \in Nat /\ b \in Nat /\ a + 2 <= b /\ b <= Len(f) /\ b = EndOf(f, a)
            /\ At(f, a) = TypeOn(list[k + 1])
<1> DEFINE whole == joins[Len(list)]
           a == Len(joins[k])
           b == Len(joins[k + 1])
           w == Len(whole)
<1>1. /\ whole \in Seq(Octet) /\ a \in Nat /\ b \in Nat /\ a + 2 <= b /\ b <= w
      /\ At(whole, a) = TypeOn(list[k + 1]) /\ b = a + 2 + At(whole, a + 1)
  BY TlvInChain
<1>2. w \in Nat /\ Len(f) \in Nat /\ FixedLen = 2 /\ CFDP_TLV_HEADER_LEN = 2
      /\ FixedLen + w <= Len(f)
  BY <1>1, LenProperties DEF Holds, FixedLen, CFDP_TLV_HEADER_LEN
<1> HIDE DEF a, b
<1>3. a < w /\ a + 1 < w
  <2> HIDE DEF w
  <2> QED BY <1>1, <1>2
<1>4. At(f, FixedLen + a) = At(whole, a) /\ At(f, FixedLen + (a + 1)) = At(whole, a + 1)
  <2>1. a + 1 \in Nat
    BY <1>1
  <2> HIDE DEF whole
  <2> QED BY <1>1, <1>3, <2>1, HoldsAt DEF w, whole
<1> HIDE DEF w, whole
<1>5. FixedLen + a + 1 = FixedLen + (a + 1)
  BY <1>1, <1>2
<1>6. EndOf(f, FixedLen + a) = FixedLen + a + 2 + At(whole, a + 1)
  BY <1>2, <1>4, <1>5 DEF EndOf
<1>7. FixedLen + a + 2 + At(whole, a + 1) = FixedLen + b
  <2> DEFINE c == At(whole, a + 1)
  <2>1. c \in Nat
    BY <1>1, <1>3, AtType, OctetIsNat DEF w
  <2> HIDE DEF c
  <2> QED BY <1>1, <1>2, <2>1, SMTT(30) DEF c
<1>8. FixedLen + a \in Nat /\ FixedLen + b \in Nat /\ FixedLen + a + 2 <= FixedLen + b
      /\ FixedLen + b <= Len(f)
  BY <1>1, <1>2, SMTT(30)
<1> QED BY <1>1, <1>4, <1>6, <1>7, <1>8 DEF a, b

(* They are the places of the Finished PDU's chain, as far as it goes.     *)
LEMMA ChainPlaces ==
  ASSUME NEW list, NEW joins, JoinsAs(list, joins), \A i \in 1 .. Len(list) : Travels(list[i]),
         NEW f, Holds(f, joins[Len(list)])
  PROVE  /\ IsChain(f, StartsTlv(f)) /\ Places(list, joins) \subseteq StartsTlv(f)
         /\ \A a \in StartsTlv(f) :
              a <= FixedLen + Len(joins[Len(list)]) => a \in Places(list, joins)
<1> DEFINE len == Len(list)
           Place(k) == FixedLen + Len(joins[k])
           S == StartsTlv(f)
           P == Places(list, joins)
           T == {k \in 0 .. len : /\ Place(k) \in S
                                  /\ \A a \in S : a <= Place(k) => a \in P}
<1>1. len \in Nat /\ joins[0] = << >> /\ FixedLen = 2 /\ CFDP_TLV_HEADER_LEN = 2
  BY DEF JoinsAs, FixedLen, CFDP_TLV_HEADER_LEN
<1>2. \A k \in 0 .. len : Place(k) \in P
  BY DEF Places
<1>3. Place(0) = FixedLen
  BY <1>1
<1>4. \A k \in 0 .. len :
        k < len =>
          /\ Place(k) \in Nat /\ Place(k + 1) \in Nat /\ Place(k) + 2 <= Place(k + 1)
          /\ Place(k + 1) <= Len(f) /\ Place(k + 1) = EndOf(f, Place(k))
  <2> SUFFICES ASSUME NEW k \in 0 .. len, k < len
               PROVE  /\ Place(k) \in Nat /\ Place(k + 1) \in Nat
                      /\ Place(k) + 2 <= Place(k + 1)
                      /\ Place(k + 1) <= Len(f) /\ Place(k + 1) = EndOf(f, Place(k))
    OBVIOUS
  <2> k \in Nat
    OBVIOUS
  <2>1. LET a == FixedLen + Len(joins[k])
            b == FixedLen + Len(joins[k + 1])
        IN /\ a \in Nat /\ b \in Nat /\ a + 2 <= b /\ b <= Len(f) /\ b = EndOf(f, a)
           /\ At(f, a) = TypeOn(list[k + 1])
    <3> HIDE DEF Place
    <3> QED BY PlaceLeadsOn
  <2> QED BY <2>1
<1>5. f \in Seq(Octet) /\ Len(f) \in Nat /\ FixedLen <= Len(f)
  <2> DEFINE w == Len(joins[len])
  <2>1. joins[len] \in Seq(Octet)
    BY <1>1 DEF JoinsAs
  <2>2. w \in Nat
    BY <2>1, LenProperties
  <2>3. f \in Seq(Octet) /\ Len(f) \in Nat /\ FixedLen + w <= Len(f)
    BY LenProperties DEF Holds
  <2> HIDE DEF w
  <2> QED BY <1>1, <2>2, <2>3
<1>6. IsChain(f, S)
  BY <1>5, StartsTlvIs
<1>7. /\ S \subseteq FixedLen .. Len(f) /\ FixedLen \in S
      /\ \A b \in FixedLen .. Len(f) :
           b \in S <=> b = FixedLen
                       \/ \E a \in S : a + CFDP_TLV_HEADER_LEN <= b /\ b = EndOf(f, a)
  BY <1>6 DEF IsChain
<1> HIDE DEF Place, S, P
<1>8. 0 \in T
  <2>1. \A a \in S : a <= FixedLen => a = FixedLen
    BY <1>1, <1>5, <1>7
  <2>2. 0 \in 0 .. len
    BY <1>1
  <2> QED BY <1>2, <1>3, <1>7, <2>1, <2>2
<1>9. ASSUME NEW k \in 0 .. len, k \in T, k < len
      PROVE  k + 1 \in T
  <2> DEFINE here == Place(k)
             next == Place(k + 1)
  <2>1. /\ here \in Nat /\ next \in Nat /\ here + 2 <= next /\ next <= Len(f)
        /\ next = EndOf(f, here)
    BY <1>4, <1>9
  <2>2. here \in S /\ \A a \in S : a <= here => a \in P
    BY <1>9
  <2>3. k + 1 \in 0 .. len
    BY <1>1, <1>9
  <2>4. next \in P
    BY <1>2, <2>3
  <2> HIDE DEF here, next
  <2>5. here \in FixedLen .. Len(f)
    BY <1>7, <2>2
  <2>6. next \in FixedLen .. Len(f)
    BY <1>1, <2>1, <2>5
  <2>7. next \in S
    BY <1>1, <1>7, <2>1, <2>2, <2>6
  <2>8. ASSUME NEW a \in S, a <= next PROVE a \in P
    <3>1. CASE a <= here
      BY <2>2, <3>1
    <3>2. CASE ~ (a <= here)
      <4>1. a \in Nat /\ here < a
        BY <1>1, <1>7, <2>1, <3>2
      <4>2. EndOf(f, here) <= a
        BY <1>5, <1>6, <2>2, <4>1, ChainOrdered
      <4>3. a = next
        BY <2>1, <2>8, <4>1, <4>2
      <4> QED BY <2>4, <4>3
    <3> QED BY <3>1, <3>2
  <2> QED BY <2>3, <2>7, <2>8 DEF next
<1>10. 0 .. len \subseteq T
  <2> HIDE DEF T
  <2> QED BY <1>1, <1>8, <1>9, BoundedInduction
<1>11. P \subseteq S
  <2>1. \A k \in 0 .. len : Place(k) \in S
    BY <1>10
  <2> QED BY <2>1 DEF P, Places, Place
<1>12. \A a \in S : a <= Place(len) => a \in P
  <2>1. len \in 0 .. len
    BY <1>1
  <2> QED BY <1>10, <2>1
<1> QED BY <1>6, <1>11, <1>12 DEF S, P, Place

(* So the chain is one of Filestore Responses if the parameters are.       *)
AreAllResponses(list) == \A i \in 1 .. Len(list) : list[i].kind = "response"

(* The octets of responses are responses to the Finished decoder.          *)
LEMMA ResponsesChain ==
  ASSUME NEW list, NEW joins, JoinsAs(list, joins), \A i \in 1 .. Len(list) : Travels(list[i]),
         AreAllResponses(list)
  PROVE  AreResponses(joins[Len(list)])
<1> DEFINE whole == joins[Len(list)]
           head == <<0, 0>>
           f == head \o whole
           S == StartsTlv(f)
           last == FixedLen + Len(whole)
<1>1. Len(list) \in Nat /\ whole \in Seq(Octet)
  BY DEF JoinsAs
<1>2. head \in Seq(Octet) /\ Len(head) = FixedLen /\ FixedLen = 2
  BY DEF Octet, FixedLen
<1> HIDE DEF head, whole
<1>3. Joined(f, head, whole)
  BY <1>1, <1>2, Join
<1> HIDE DEF f
<1>4. f \in Seq(Octet) /\ Len(f) = last /\ Slice(f, FixedLen, Len(f)) = whole
  BY <1>2, <1>3 DEF Joined
<1>5. Len(f) \in Nat
  BY <1>4, LenProperties
<1>6. Holds(f, whole)
  BY <1>4, <1>5 DEF Holds
<1>7. /\ IsChain(f, S) /\ Places(list, joins) \subseteq S
      /\ \A a \in S : a <= last => a \in Places(list, joins)
  BY <1>6, ChainPlaces DEF whole
<1>8. last \in S
  <2>1. Len(list) \in 0 .. Len(list)
    BY <1>1
  <2> QED BY <1>7, <2>1 DEF Places, whole
<1>9. ASSUME NEW a \in S \ {Len(f)} PROVE At(f, a) = CFDP_TLV_FILESTORE_RESPONSE
  <2>1. a \in FixedLen .. last
    BY <1>4, <1>7 DEF IsChain
  <2>2. PICK k \in 0 .. Len(list) : a = FixedLen + Len(joins[k])
    BY <1>2, <1>4, <1>5, <1>7, <2>1 DEF Places
  <2>3. k # Len(list)
    BY <1>4, <1>9, <2>2 DEF whole
  <2>4. k \in Nat /\ k < Len(list) /\ k + 1 \in 1 .. Len(list)
    BY <1>1, <2>3
  <2>5. At(f, a) = TypeOn(list[k + 1])
    BY <1>6, <2>2, <2>4, PlaceLeadsOn DEF whole
  <2>6. list[k + 1].kind = "response"
    BY <2>4 DEF AreAllResponses
  <2> QED BY <2>5, <2>6 DEF TypeOn
<1> QED BY <1>4, <1>8, <1>9 DEF AreResponses, f, head, whole

(* A Finished PDU with a parameter that is none is not one.                *)
LEMMA ForeignIsRefused ==
  ASSUME NEW list, NEW joins, JoinsAs(list, joins), \A i \in 1 .. Len(list) : Travels(list[i]),
         NEW f, Holds(f, joins[Len(list)]), IsFinished(f)
  PROVE  AreAllResponses(list)
<1> SUFFICES ASSUME NEW i \in 1 .. Len(list) PROVE list[i].kind = "response"
  BY DEF AreAllResponses
<1> DEFINE k == i - 1
           p == list[i]
           S == StartsTlv(f)
           a == FixedLen + Len(joins[k])
           b == FixedLen + Len(joins[k + 1])
<1>1. Len(list) \in Nat
  BY DEF JoinsAs
<1>2. k \in Nat /\ k < Len(list) /\ k + 1 = i /\ k \in 0 .. Len(list)
  BY <1>1
<1> HIDE DEF k
<1>3. a \in Nat /\ b \in Nat /\ a + 2 <= b /\ b <= Len(f) /\ At(f, a) = TypeOn(p)
  <2>1. At(f, a) = TypeOn(list[k + 1])
    BY <1>2, PlaceLeadsOn
  <2> QED BY <1>2, <2>1, PlaceLeadsOn
<1>4. a \in S
  BY <1>2, ChainPlaces DEF Places
<1>5. Len(f) \in Nat /\ a # Len(f)
  <2>1. Len(f) \in Nat
    BY LenProperties DEF Holds
  <2> HIDE DEF a, b
  <2> QED BY <1>3, <2>1
<1> HIDE DEF a, b
<1>6. At(f, a) \in {CFDP_TLV_FILESTORE_RESPONSE, CFDP_TLV_ENTITY_ID}
  BY <1>4, <1>5 DEF IsFinished
<1> HIDE DEF p
<1>7. Travels(p)
  BY DEF p
<1>8. TypeOn(p) # CFDP_TLV_ENTITY_ID /\ (TypeOn(p) = CFDP_TLV_FILESTORE_RESPONSE <=> p.kind = "response")
  BY <1>7, ParameterIsTlv DEF Travels
<1> QED BY <1>3, <1>6, <1>8 DEF p

-----------------------------------------------------------------------------
(* The chain in its PDUs                                                   *)

(* All of a sequence.                                                      *)
LEMMA WholeSlice ==
  ASSUME NEW f \in Seq(Octet)
  PROVE  Slice(f, 0, Len(f)) = f
<1> DEFINE none == << >>
<1>1. none \in Seq(Octet) /\ f \o none = f
  BY ConcatEmptySeq
<1> HIDE DEF none
<1>2. Joined(f \o none, f, none)
  BY <1>1, Join
<1> QED BY <1>1, <1>2 DEF Joined

(* The sending user's pointer to the chain.                                *)
LEMMA ChainPointed ==
  ASSUME chain \in Seq(Octet)
  PROVE  /\ ChainPointer \in Pointer /\ Len(chain) \in Nat
         /\ PointsTo(ChainPointer, Len(chain)) /\ Copied(ChainPointer, Len(chain)) = chain
<1> DEFINE n == Len(chain)
           none == << >>
<1>1. n \in Nat /\ (n = 0 <=> chain = none)
  BY LenProperties, EmptySeq
<1>2. CASE chain = none
  <2>1. ChainPointer = Null /\ n = 0
    BY <1>1, <1>2 DEF ChainPointer
  <2>2. Null \in Pointer
    BY PointerToType
  <2> QED BY <1>2, <2>1, <2>2 DEF PointsTo, Copied
<1>3. CASE chain # none
  <2>1. ChainPointer = PointerTo(chain)
    BY <1>3 DEF ChainPointer
  <2>2. PointerTo(chain) \in Pointer
    BY PointerToType
  <2>3. PointerTo(chain)[1] = chain
    BY DEF PointerTo
  <2>6. Slice(chain, 0, n) = chain
    BY WholeSlice
  <2>7. n <= n /\ n # 0
    BY <1>1, <1>3
  <2>8. PointsTo(ChainPointer, n)
    BY <2>1, <2>3, <2>7 DEF PointsTo
  <2>9. Copied(ChainPointer, n) = chain
    BY <2>1, <2>3, <2>6, <2>7 DEF Copied
  <2> QED BY <1>1, <2>1, <2>2, <2>8, <2>9
<1> QED BY <1>2, <1>3

(* A Finished PDU holds the chain, and a 16-bit length counts it.          *)
LEMMA FinishedSent ==
  ASSUME chain \in Seq(Octet), NEW finish \in Finishes,
         NEW sent, sent = FinishedSerialize(FinishedOf(finish), SpanModulus), sent # << >>
  PROVE  LET src == FinishedOf(finish)
         IN /\ src \in Encodable /\ PointsTo(src.filestore_responses, src.filestore_responses_len)
            /\ src.filestore_responses_len = Len(chain) /\ Len(chain) \in Nat
            /\ Copied(src.filestore_responses, src.filestore_responses_len) = chain
            /\ EncodedAs(src, sent) /\ sent \in Seq(Octet) /\ Len(sent) <= SpanModulus
            /\ Holds(sent, chain)
<1> DEFINE src == FinishedOf(finish)
           len == Len(chain)
           start == FixedLen + len
           id_len == src.fault_location_len
           fault == FaultLocationRequired(src.condition_code)
<1>1. ChainPointer \in Pointer /\ len \in Nat /\ PointsTo(ChainPointer, len)
      /\ Copied(ChainPointer, len) = chain
  BY ChainPointed
<1>2. finish \in Encodable
  BY DeliveryAssumption
<1>3. src \in Encodable /\ src.filestore_responses = ChainPointer
      /\ src.filestore_responses_len = len
  BY <1>1, <1>2 DEF FinishedOf, Encodable
<1> HIDE DEF src, len
<1>4. EncodedAs(src, sent)
  BY <1>1, <1>3, EncodedParts DEF src
<1>5. sent \in Seq(Octet) /\ start \in Nat /\ Slice(sent, FixedLen, start) = chain
      /\ Len(sent) = (IF fault THEN start + 2 + id_len ELSE start)
      /\ (fault => id_len \in IdLengths)
  BY <1>1, <1>3, <1>4 DEF EncodedAs
<1>6. ~ (SpanModulus < start)
      /\ (fault => EntityIdTlvSerialize(src.fault_location_entity_id, id_len,
                                        SpanModulus - start) # << >>)
  BY <1>3 DEF FinishedSerialize, src
<1>7. fault => ~ (SpanModulus - start < id_len + 2)
  BY <1>6 DEF EntityIdTlvSerialize, CFDP_TLV_HEADER_LEN
<1>8. SpanModulus \in Nat
  BY SpanAssumption
<1>9. id_len \in Nat
  <2>1. id_len \in Octet
    BY ONLY <1>3 DEF Encodable
  <2> QED BY <2>1, OctetIsNat
<1>10. Len(sent) <= SpanModulus /\ start <= Len(sent)
  <2> HIDE DEF start, id_len, fault
  <2> QED BY <1>5, <1>6, <1>7, <1>8, <1>9
<1>11. Holds(sent, chain)
  BY <1>5, <1>10 DEF Holds, len
<1> QED BY <1>1, <1>3, <1>4, <1>5, <1>10, <1>11 DEF src, len

(* The options of a Metadata PDU arrive as the chain.                      *)
LEMMA MetadataSent ==
  ASSUME chain \in Seq(Octet)
  PROVE  LET src == [ClearMetadata EXCEPT !.options = ChainPointer, !.options_len = Len(chain)]
             sent == MetadataSerialize(src, 0, SpanModulus)
             md == MetadataDeserialize(sent, 0, ClearMetadata)
         IN md.ret > 0 => Copied(md.pdu.options, md.pdu.options_len) = chain
<1> DEFINE src == [ClearMetadata EXCEPT !.options = ChainPointer, !.options_len = Len(chain)]
           sent == MetadataSerialize(src, 0, SpanModulus)
           md == MetadataDeserialize(sent, 0, ClearMetadata)
           len == Len(chain)
           none == << >>
<1>1. ChainPointer \in Pointer /\ len \in Nat /\ PointsTo(ChainPointer, len)
      /\ Copied(ChainPointer, len) = chain
  BY ChainPointed
<1> HIDE DEF len
<1>2. src \in Metadata /\ src.options = ChainPointer /\ src.options_len = len
      /\ src.source_filename = Null /\ src.destination_filename = Null
  <2>1. Zeros(8) \in UInt64
    BY DEF Zeros, UInt64, Octet
  <2>2. Null \in Pointer /\ 0 \in Octet
    BY PointerToType DEF Octet
  <2> DEFINE pointed == [ClearMetadata EXCEPT !.options = ChainPointer]
  <2>3. ClearMetadata \in Metadata /\ ClearMetadata.source_filename = Null
        /\ ClearMetadata.destination_filename = Null
    BY <2>1, <2>2 DEF Metadata, ClearMetadata
  <2>4. pointed \in Metadata /\ pointed.source_filename = Null
        /\ pointed.destination_filename = Null /\ pointed.options = ChainPointer
    BY <1>1, <2>3 DEF Metadata
  <2>5. src = [pointed EXCEPT !.options_len = len]
    BY DEF len
  <2> HIDE DEF src, pointed
  <2> QED BY <1>1, <2>4, <2>5 DEF Metadata
<1> HIDE DEF src
<1>3. SUFFICES ASSUME md.ret > 0 PROVE Copied(md.pdu.options, md.pdu.options_len) = chain
  BY DEF src
<1>4. sent # none
  <2> SUFFICES ASSUME sent = none PROVE FALSE
    OBVIOUS
  <2> HIDE DEF sent
  <2>1. Len(sent) = 0 /\ FileSizeOctets(0) \in Nat
    BY DEF FileSizeOctets
  <2>2. Len(sent) < FileSizeOctets(0) + 2
    BY <2>1, FileSizeWidth
  <2>3. md.ret = 0
    BY <2>2 DEF MetadataDeserialize
  <2> QED BY <1>3, <2>3
<1>5. PointsTo(src.source_filename, src.source_filename_len)
      /\ PointsTo(src.destination_filename, src.destination_filename_len)
      /\ PointsTo(src.options, src.options_len)
  BY <1>1, <1>2 DEF PointsTo
<1>6. ReadBack(md, sent, MetadataTold(src, 0))
  <2>1. 0 \in {0, 1}
    OBVIOUS
  <2> HIDE DEF none
  <2> QED BY <1>2, <1>4, <1>5, <2>1, MetadataReadBack DEF none
<1> HIDE DEF md
<1>7. md.pdu.options = Told(ChainPointer, len) /\ md.pdu.options_len = len
  <2>1. md.pdu = MetadataTold(src, 0)
    BY <1>6 DEF ReadBack
  <2> QED BY <1>2, <2>1 DEF MetadataTold, Metadata
<1>8. CASE len = 0
  <2>1. Copied(md.pdu.options, md.pdu.options_len) = Copied(ChainPointer, len)
    BY <1>7, <1>8 DEF Copied
  <2> QED BY <1>1, <2>1
<1>9. CASE len # 0
  <2>1. ChainPointer # Null
    <3>1. chain # none
      BY <1>9 DEF len
    <3> QED BY <3>1 DEF ChainPointer, PointerTo, Null
  <2>2. md.pdu.options = PointerTo(chain)
    BY <1>1, <1>7, <1>9, <2>1 DEF Told
  <2>3. md.pdu.options[1] = chain
    BY <2>2 DEF PointerTo
  <2>4. Slice(chain, 0, len) = chain
    BY WholeSlice DEF len
  <2> QED BY <1>7, <1>9, <2>3, <2>4 DEF Copied
<1> QED BY <1>8, <1>9

-----------------------------------------------------------------------------
(* The invariant                                                           *)

(* What the sending user's buffer holds.                                   *)
LEMMA BuiltIs ==
  ASSUME Built
  PROVE  /\ attached \in Seq(ParametersOnWire) /\ Len(attached) \in Nat
         /\ \A i \in 1 .. Len(attached) : Travels(attached[i])
         /\ JoinsAs(attached, Joins(attached)) /\ chain = Joins(attached)[Len(attached)]
         /\ DOMAIN attached = 1 .. Len(attached) /\ Joins(attached)[0] = << >>
         /\ chain \in Seq(Octet)
<1>1. attached \in Seq(ParametersOnWire) /\ \A i \in DOMAIN attached : Wire(attached[i]) # << >>
  BY DEF Built
<1>2. Len(attached) \in Nat /\ DOMAIN attached = 1 .. Len(attached)
  BY <1>1, LenProperties
<1>3. ASSUME NEW i \in 1 .. Len(attached) PROVE Travels(attached[i])
  <2>1. attached[i] \in ParametersOnWire
    BY <1>1, <1>3, ElementOfSeq
  <2>2. Wire(attached[i]) # << >>
    BY <1>1, <1>2
  <2> QED BY <2>1, <2>2, TravelsIs
<1>4. \A i \in 1 .. Len(attached) : Wire(attached[i]) \in Seq(Octet)
  BY <1>3 DEF Travels
<1>5. JoinsAs(attached, Joins(attached))
  BY <1>2, <1>4, JoinsIs
<1>6. chain = Joins(attached)[Len(attached)]
  BY DEF Built
<1>7. chain \in Seq(Octet) /\ Joins(attached)[0] = << >>
  <2>1. Len(attached) \in 0 .. Len(attached)
    BY <1>2
  <2> QED BY <1>5, <1>6, <2>1 DEF JoinsAs
<1> QED BY <1>1, <1>2, <1>3, <1>5, <1>6, <1>7

(* What is attached has a structure of its kind.                           *)
AttachedTyped ==
  \A i \in DOMAIN attached : [Walker!Clear EXCEPT ![attached[i].kind] = attached[i].tlv]
                               \in Walker!Structures

(* Everything attached can be stored in the walker's structures.           *)
LEMMA BuiltTyped ==
  ASSUME Built
  PROVE  AttachedTyped
<1> SUFFICES ASSUME NEW i \in DOMAIN attached
             PROVE  [Walker!Clear EXCEPT ![attached[i].kind] = attached[i].tlv]
                      \in Walker!Structures
  BY DEF AttachedTyped
<1>1. Travels(attached[i])
  BY BuiltIs
<1>2. attached[i] \in Attachable /\ Sendable(attached[i])
  BY <1>1 DEF Travels
<1> QED BY <1>2, WalkerTypes, ParameterStored, ZenonT(30)

(* The parts of the invariant that the others do not follow from.          *)
Parts ==
  /\ stage \in {"build", "metadata", "finished", "responses", "refused"}
  /\ Len(chain) <= Capacity /\ tries \in 0 .. MaxParameters
  /\ TypeOK /\ Walker!TypeOK /\ Built
  /\ stage \in {"build", "metadata"} => Init
  /\ stage \in {"build", "finished", "refused"} => Walker!Init
  /\ stage \in {"finished", "responses", "refused"} => Carried
  /\ stage = "responses" => AllResponses
  /\ stage = "refused" => ~ AllResponses
  /\ stage \in {"metadata", "responses"} => Met

(* The parts are the invariant.                                            *)
LEMMA InvariantParts == Parts <=> DeliveryInv
<1>1. ASSUME DeliveryInv PROVE Parts
  BY <1>1 DEF DeliveryInv, DeliveryTypeOK, Parts
<1>2. ASSUME Parts PROVE DeliveryInv
  <2>1. Built
    BY <1>2 DEF Parts
  <2>2. AttachedTyped /\ chain \in Seq(Octet)
    BY <2>1, BuiltTyped, BuiltIs
  <2>3. DeliveryTypeOK
    BY <1>2, <2>2 DEF DeliveryTypeOK, AttachedTyped, Parts
  <2> QED BY <1>2, <2>3 DEF DeliveryInv, Parts
<1> QED BY <1>1, <1>2

(* So they are after a step.                                               *)
LEMMA InvariantPartsNext == Parts' => DeliveryInv'
BY InvariantParts, PTL

(* What does not change.                                                   *)
LEMMA DecoderStays ==
  ASSUME UNCHANGED decoder
  PROVE  /\ (TypeOK => TypeOK') /\ (Init => Init') /\ (IInv => IInv')
         /\ fin' = fin /\ field' = field /\ calls' = calls /\ pc' = pc /\ ret' = ret
<1>1. UNCHANGED vars
  BY DEF decoder
<1>2. UNCHANGED <<pc, field, pos, fin, ret, calls, walked>>
  BY <1>1 DEF vars
<1>3. TypeOK => TypeOK'
  BY <1>2 DEF TypeOK
<1>4. Init => Init'
  BY <1>2 DEF Init
<1>5. IInv => IInv'
  <2> SUFFICES ASSUME IInv PROVE IInv'
    OBVIOUS
  <2>1. WalkInv'
    BY <1>1, StutterInvariant DEF IInv
  <2> QED BY <1>2, <2>1 DEF IInv, Decoded, Trail, AcceptsFinished
<1> QED BY <1>2, <1>3, <1>4, <1>5

(* What the walk leaves as it was.                                         *)
LEMMA WalkerStays ==
  ASSUME UNCHANGED walker
  PROVE  /\ (Walker!TypeOK => Walker!TypeOK') /\ (Walker!Init => Walker!Init')
         /\ span' = span /\ walk_pos' = walk_pos /\ taken' = taken /\ walk_pc' = walk_pc
<1>1. UNCHANGED <<walk_pc, span, walk_pos, got, taken, walks>>
  BY DEF walker
<1> QED BY <1>1 DEF Walker!TypeOK, Walker!Init

(* What the sending user leaves as it was.                                 *)
LEMMA ChainStays ==
  ASSUME Built, UNCHANGED <<chain, tries, attached>>
  PROVE  Built'
<1>1. \A list : Joins(list)' = Joins(list)
  BY DEF Joins
<1> QED BY DEF Built

(* The Finished PDU stays what it was sent as.                             *)
LEMMA CarriedStays ==
  ASSUME Carried, UNCHANGED chain, UNCHANGED decoder
  PROVE  Carried'
<1>1. IInv' /\ fin' = fin /\ field' = field /\ calls' = calls
  BY DecoderStays DEF Carried
<1>2. \A finish : FinishedOf(finish)' = FinishedOf(finish)
  BY DEF FinishedOf, ChainPointer
<1> QED BY <1>1, <1>2 DEF Carried, FinishedOf, ChainPointer

(* The walk stands where it stood.                                         *)
LEMMA MetStays ==
  ASSUME Met, UNCHANGED <<chain, attached>>, UNCHANGED walker
  PROVE  Met'
<1>1. span' = span /\ walk_pos' = walk_pos /\ taken' = taken /\ walk_pc' = walk_pc
  BY WalkerStays
<1> QED BY <1>1 DEF Met, Joins

(* Nothing is attached yet.                                                *)
LEMMA DeliveryInitHolds ==
  DeliveryInit => DeliveryInv
<1> SUFFICES ASSUME DeliveryInit PROVE DeliveryInv
  OBVIOUS
<1>1. /\ stage = "build" /\ chain = << >> /\ tries = 0 /\ attached = << >>
      /\ Init /\ Walker!Init
  BY DEF DeliveryInit
<1>2. chain \in Seq(Octet) /\ Len(chain) <= Capacity /\ tries \in 0 .. MaxParameters
  BY <1>1, DeliveryAssumption
<1>3. TypeOK
  BY <1>1, InitIInv DEF IInv, WalkInv
<1>4. Walker!TypeOK
  <2>1. /\ walk_pc = "idle" /\ span = << >> /\ walk_pos = 0 /\ got = Walker!Clear
        /\ taken = << >> /\ walks = 0
    BY <1>1 DEF Walker!Init
  <2>2. got \in Walker!Structures
    BY <2>1, WalkerTypes
  <2> QED BY <2>1, <2>2 DEF Walker!TypeOK
<1>5. Built
  <2>1. JoinsAs(attached, Joins(attached))
    BY <1>1, JoinsIs
  <2>2. chain = Joins(attached)[Len(attached)]
    BY <1>1, <2>1 DEF JoinsAs
  <2>3. attached \in Seq(ParametersOnWire) /\ Len(attached) <= tries
        /\ \A i \in DOMAIN attached : Wire(attached[i]) # << >>
    BY <1>1
  <2> QED BY <2>2, <2>3 DEF Built
<1> QED BY <1>1, <1>2, <1>3, <1>4, <1>5, InvariantParts DEF Parts

(* The parameter is behind the others, or everything is as it was.         *)
LEMMA AttachBuilt ==
  ASSUME Built, tries \in Nat, Len(chain) <= Capacity, NEW p \in Parameters, Attach(p)
  PROVE  Built' /\ Len(chain') <= Capacity
<1> DEFINE n == Capacity - Len(chain)
           octets == Walker!Encode(p.kind, p.tlv, n)
           none == << >>
           a == OnWire(p)
           len == Len(attached)
           joins == Joins(attached)
<1>1. /\ attached \in Seq(ParametersOnWire) /\ len \in Nat
      /\ \A i \in 1 .. len : Travels(attached[i])
      /\ JoinsAs(attached, joins) /\ chain = joins[len]
      /\ DOMAIN attached = 1 .. len /\ chain \in Seq(Octet)
  BY BuiltIs
<1>2. tries' = tries + 1 /\ chain' = chain \o octets
      /\ attached' = IF octets = none THEN attached ELSE Append(attached, a)
  BY DEF Attach
<1>3. len <= tries /\ \A i \in 1 .. len : Wire(attached[i]) # none
  BY <1>1 DEF Built
<1>5. Capacity \in Nat /\ Len(chain) \in Nat /\ n \in Int /\ n <= Capacity
  <2>1. Capacity \in Nat /\ Len(chain) \in Nat
    BY <1>1, DeliveryAssumption, LenProperties
  <2> QED BY <2>1
<1> HIDE DEF octets, a
<1>6. CASE octets = none
  <2>1. chain' = chain /\ attached' = attached
    BY <1>1, <1>2, <1>6, ConcatEmptySeq
  <2>2. Len(attached') <= tries'
    <3>1. Len(attached') = len /\ len \in Nat
      BY <1>1, <2>1
    <3>2. len <= tries /\ tries' = tries + 1
      BY <1>2, <1>3
    <3> HIDE DEF len
    <3> QED BY ONLY tries \in Nat, <3>1, <3>2
  <2>3. Joins(attached') = joins
    BY <2>1
  <2> QED BY <1>1, <1>3, <2>1, <2>2, <2>3 DEF Built, Joins
<1>7. CASE octets # none
  <2> DEFINE more == Append(attached, a)
             longer == Joins(more)
             wire == Wire(a)
  <2>1. a \in ParametersOnWire /\ Travels(a) /\ octets = wire /\ Len(wire) <= n
    <3> HIDE DEF n, none
    <3> QED BY <1>5, <1>7, EncodedTravels DEF octets, a, none
  <2>2. /\ more \in Seq(ParametersOnWire) /\ Len(more) = len + 1
        /\ (\A i \in 1 .. len : more[i] = attached[i]) /\ more[len + 1] = a
    BY <1>1, <2>1, AppendProperties
  <2>3. attached' = more
    BY <1>2, <1>7
  <2> HIDE DEF more
  <2>4. ASSUME NEW i \in 1 .. Len(more) PROVE Travels(more[i]) /\ Wire(more[i]) # none
    <3>1. CASE i = len + 1
      <4>1. more[i] = a
        BY <2>2, <3>1
      <4>2. Wire(a) # none
        BY <1>7, <2>1
      <4> QED BY <2>1, <4>1, <4>2
    <3>2. CASE i # len + 1
      <4>1. i \in 1 .. len
        BY <1>1, <2>2, <3>2
      <4> QED BY <1>1, <1>3, <2>2, <4>1
    <3> QED BY <3>1, <3>2
  <2>5. Len(more) \in Nat /\ \A i \in 1 .. Len(more) : Wire(more[i]) \in Seq(Octet)
    BY <1>1, <2>2, <2>4 DEF Travels
  <2>6. JoinsAs(more, longer)
    BY <2>5, JoinsIs
  <2>7. longer[len + 1] = chain \o wire
    <3> HIDE DEF longer, joins, wire
    <3>1. longer[Len(more)] = joins[len] \o Wire(more[Len(more)])
      <4>1. HasOneMore(attached, joins, more, longer)
        BY <1>1, <2>2, <2>6 DEF HasOneMore
      <4>2. GoesOnWith(longer[Len(more)], joins[Len(attached)], more[Len(more)])
        BY <4>1, JoinsAppend
      <4> QED BY <4>2 DEF GoesOnWith
    <3> QED BY <1>1, <2>2, <3>1 DEF wire
  <2>8. chain' = longer[Len(more)]
    BY <1>2, <2>1, <2>2, <2>7
  <2>9. Len(chain') <= Capacity
    <3>1. wire \in Seq(Octet)
      BY <2>1 DEF Travels
    <3>2. Joined(chain \o wire, chain, wire)
      BY <1>1, <3>1, Join
    <3>3. Len(chain') = Len(chain) + Len(wire) /\ Len(wire) \in Nat
      BY <1>2, <2>1, <3>1, <3>2, LenProperties DEF Joined
    <3> DEFINE c == Len(chain)
               w == Len(wire)
    <3>4. c \in Nat /\ w \in Nat /\ Len(chain') = c + w /\ w <= Capacity - c
      BY <1>5, <2>1, <3>3
    <3> HIDE DEF c, w
    <3> QED BY <1>5, <3>4
  <2>10. Len(attached') <= tries'
    BY <1>1, <1>2, <1>3, <2>2, <2>3
  <2>11. \A i \in DOMAIN more : Wire(more[i]) # none
    BY <2>2, <2>4, LenProperties
  <2> QED BY <2>2, <2>3, <2>8, <2>9, <2>10, <2>11 DEF Built, Joins
<1> QED BY <1>6, <1>7

(* The sending user encodes one more parameter, or fails to.               *)
LEMMA AttachKeeps ==
  ASSUME DeliveryInv, NEW p \in Parameters, Attach(p)
  PROVE  DeliveryInv'
<1>1. /\ chain \in Seq(Octet) /\ Len(chain) <= Capacity /\ tries \in 0 .. MaxParameters
      /\ TypeOK /\ Walker!TypeOK /\ Built
  BY DEF DeliveryInv, DeliveryTypeOK
<1>2. stage = "build" /\ stage' = "build" /\ tries < MaxParameters /\ tries' = tries + 1
      /\ UNCHANGED decoder /\ UNCHANGED walker
  BY DEF Attach
<1>3. Init /\ Walker!Init
  BY <1>2 DEF DeliveryInv
<1>4. tries \in Nat /\ tries' \in 0 .. MaxParameters
  BY <1>1, <1>2, DeliveryAssumption
<1>5. Built' /\ Len(chain') <= Capacity
  BY <1>1, <1>4, AttachBuilt
<1>6. Init' /\ TypeOK' /\ Walker!Init' /\ Walker!TypeOK'
  BY <1>1, <1>2, <1>3, DecoderStays, WalkerStays
<1>7. Parts'
  BY <1>2, <1>4, <1>5, <1>6 DEF Parts
<1> QED BY <1>7, InvariantPartsNext

(* A walk that begins is over the chain and has met nothing.               *)
LEMMA BeginMeets ==
  ASSUME Built, Walker!TypeOK, Walker!Init, NEW s, s = chain, Walker!Begin(s),
         UNCHANGED <<chain, attached>>
  PROVE  Met' /\ Walker!TypeOK' /\ taken' = << >> /\ taken = << >>
<1>1. /\ walk_pc' = "walk" /\ span' = chain /\ walk_pos' = 0 /\ taken' = << >>
      /\ walks' = walks + 1 /\ walks < 1 /\ got' = got
  BY DEF Walker!Begin
<1>2. walks = 0 /\ taken = << >>
  BY DEF Walker!Init
<1>3. chain \in Seq(Octet) /\ Len(attached) \in Nat /\ Joins(attached)[0] = << >>
  BY BuiltIs
<1>4. Met'
  <2>1. Len(taken') = 0 /\ DOMAIN taken' = {}
    BY <1>1
  <2>2. 0 = Len(Joins(attached)[0])
    BY <1>3
  <2>3. Joins(attached)' = Joins(attached)
    BY DEF Joins
  <2> QED BY <1>1, <1>3, <2>1, <2>2, <2>3 DEF Met, Joins
<1>5. Walker!TypeOK'
  <2>1. got \in Walker!Structures /\ span' \in Seq(Walker!Octet)
    BY <1>1, <1>3, WalkerTypes DEF Walker!TypeOK
  <2> QED BY <1>1, <1>2, <2>1 DEF Walker!TypeOK
<1> QED BY <1>1, <1>2, <1>4, <1>5

(* The span a Metadata PDU reports is the sender's buffer.                 *)
LEMMA SendMetadataKeeps ==
  ASSUME DeliveryInv, SendMetadata
  PROVE  DeliveryInv' /\ taken' = << >> /\ taken = << >>
<1> DEFINE src == [ClearMetadata EXCEPT !.options = ChainPointer, !.options_len = Len(chain)]
           sent == MetadataSerialize(src, 0, SpanModulus)
           md == MetadataDeserialize(sent, 0, ClearMetadata)
           options == Copied(md.pdu.options, md.pdu.options_len)
<1>1. Parts
  BY InvariantParts
<1>2. stage = "build" /\ stage' = "metadata" /\ md.ret > 0 /\ Walker!Begin(options)
      /\ UNCHANGED <<chain, tries, attached>> /\ UNCHANGED decoder
  BY DEF SendMetadata
<1>3. Built /\ Init /\ Walker!Init /\ TypeOK /\ Walker!TypeOK
      /\ Len(chain) <= Capacity /\ tries \in 0 .. MaxParameters
  BY <1>1, <1>2 DEF Parts
<1>4. options = chain
  <2>1. chain \in Seq(Octet)
    BY <1>3, BuiltIs
  <2> QED BY <1>2, <2>1, MetadataSent
<1> HIDE DEF options, md
<1>5. Met' /\ Walker!TypeOK' /\ taken' = << >> /\ taken = << >>
  BY <1>2, <1>3, <1>4, BeginMeets
<1>6. Init' /\ TypeOK'
  BY <1>2, <1>3, DecoderStays
<1>7. Built'
  BY <1>2, <1>3, ChainStays
<1>8. Parts'
  BY <1>2, <1>3, <1>5, <1>6, <1>7 DEF Parts
<1> QED BY <1>5, <1>8, InvariantPartsNext

(* The Finished decoder is handed the encoding.                            *)
LEMMA SendFinishedKeeps ==
  ASSUME DeliveryInv, NEW finish \in Finishes, SendFinished(finish)
  PROVE  DeliveryInv' /\ UNCHANGED walker
<1> DEFINE sent == FinishedSerialize(FinishedOf(finish), SpanModulus)
<1>1. Parts
  BY InvariantParts
<1>2. stage = "build" /\ stage' = "finished" /\ sent # << >> /\ Call(sent)
      /\ UNCHANGED <<chain, tries, attached>> /\ UNCHANGED walker
  BY DEF SendFinished
<1>3. Built /\ Init /\ Walker!Init /\ TypeOK /\ Walker!TypeOK
      /\ Len(chain) <= Capacity /\ tries \in 0 .. MaxParameters
  BY <1>1, <1>2 DEF Parts
<1>4. sent \in Seq(Octet) /\ Len(sent) <= SpanModulus
  <2>1. chain \in Seq(Octet)
    BY <1>3, BuiltIs
  <2> QED BY <1>2, <2>1, FinishedSent
<1>5. \A f : FinishedOf(f)' = FinishedOf(f)
  BY <1>2 DEF FinishedOf, ChainPointer
<1> HIDE DEF sent
<1>6. IInv'
  BY <1>2, <1>3, <1>4, InitIInv, CallIInv
<1>7. calls' = 1 /\ field' = sent
  BY <1>2, <1>3 DEF Call, Init
<1>8. fin'.filestore_responses_len = 0
  <2> DEFINE clear == ClearFinished
             o1 == At(sent, 1) \div 16
             o2 == (At(sent, 1) \div 4) % 2
             o3 == At(sent, 1) % 4
  <2>1. \/ fin' = fin
        \/ fin' = [clear EXCEPT !.condition_code = o1, !.delivery_code = o2, !.file_status = o3]
    BY <1>2 DEF Call
  <2>2. fin = clear
    BY <1>3 DEF Init
  <2>3. clear.filestore_responses_len = 0
    BY DEF ClearFinished
  <2>4. [clear EXCEPT !.condition_code = o1, !.delivery_code = o2,
                      !.file_status = o3].filestore_responses_len = 0
    <3> HIDE DEF o1, o2, o3
    <3> QED BY DEF ClearFinished
  <2> HIDE DEF clear, o1, o2, o3
  <2> QED BY <2>1, <2>2, <2>3, <2>4
<1>9. Carried'
  <2>1. ~ (fin'.filestore_responses_len > 0)
    BY <1>8
  <2>2. field' = FinishedSerialize(FinishedOf(finish), SpanModulus) /\ field' # << >>
    BY <1>2, <1>7 DEF sent
  <2> QED BY <1>2, <1>6, <1>7, <2>1, <2>2 DEF Carried, FinishedOf, ChainPointer
<1>10. TypeOK'
  BY <1>6 DEF IInv, WalkInv
<1>11. Walker!Init' /\ Walker!TypeOK'
  BY <1>2, <1>3, WalkerStays
<1>12. Built'
  BY <1>2, <1>3, ChainStays
<1>13. Parts'
  BY <1>2, <1>3, <1>9, <1>10, <1>11, <1>12 DEF Parts
<1> QED BY <1>2, <1>13, InvariantPartsNext

(* The decoder goes on.                                                    *)
LEMMA DecodeFinishedKeeps ==
  ASSUME DeliveryInv, DecodeFinished
  PROVE  DeliveryInv'
<1>1. Parts
  BY InvariantParts
<1>2. stage = "finished" /\ Iterate /\ UNCHANGED sender /\ UNCHANGED walker
  BY DEF DecodeFinished
<1>3. stage' = stage /\ UNCHANGED <<chain, tries, attached>>
  BY <1>2 DEF sender
<1>4. Built /\ Carried /\ Walker!Init /\ Walker!TypeOK
      /\ Len(chain) <= Capacity /\ tries \in 0 .. MaxParameters
  BY <1>1, <1>2 DEF Parts
<1>5. IInv'
  BY <1>2, <1>4, IterateIInv DEF Carried
<1>6. field' = field /\ calls' = calls
  BY <1>2 DEF Iterate, Reject, Take, TakeResponse, TakeFaultLocation, Finish, Return
<1>7. fin'.filestore_responses_len > 0 => fin'.filestore_responses = FixedLen
  <2>1. fin \in Finished
    BY <1>4 DEF Carried, IInv, WalkInv, TypeOK
  <2>2. CASE Reject \/ Finish
    <3>1. fin' = fin
      BY <2>2 DEF Reject, Finish, Return
    <3> QED BY <1>4, <3>1 DEF Carried
  <2>3. CASE Take
    <3>1. CASE TakeResponse
      BY <2>1, <3>1 DEF TakeResponse, Finished
    <3>2. CASE TakeFaultLocation
      <4>1. fin'.filestore_responses_len = fin.filestore_responses_len
            /\ fin'.filestore_responses = fin.filestore_responses
        BY <2>1, <3>2 DEF TakeFaultLocation, Finished
      <4> QED BY <1>4, <4>1 DEF Carried
    <3> QED BY <2>3, <3>1, <3>2 DEF Take
  <2> QED BY <1>2, <2>2, <2>3 DEF Iterate
<1>8. Carried'
  <2>1. PICK finish \in Finishes :
          field = FinishedSerialize(FinishedOf(finish), SpanModulus) /\ field # << >>
    BY <1>4 DEF Carried
  <2>2. field' = FinishedSerialize(FinishedOf(finish)', SpanModulus) /\ field' # << >>
    BY <1>3, <1>6, <2>1 DEF FinishedOf, ChainPointer
  <2>3. calls' = 1
    BY <1>4, <1>6 DEF Carried
  <2> QED BY <1>3, <1>5, <1>7, <2>2, <2>3 DEF Carried, FinishedOf, ChainPointer
<1>9. TypeOK'
  BY <1>5 DEF IInv, WalkInv
<1>10. Walker!Init' /\ Walker!TypeOK'
  BY <1>2, <1>4, WalkerStays
<1>11. Built'
  BY <1>3, <1>4, ChainStays
<1>12. Parts'
  BY <1>2, <1>3, <1>4, <1>8, <1>9, <1>10, <1>11 DEF Parts
<1> QED BY <1>12, InvariantPartsNext

(* The octets a Finished PDU is refused for are those of a parameter that  *)
(* is no Filestore Response, and the span of one that is accepted is the   *)
(* chain.                                                                  *)
LEMMA ResponsesAll ==
  ASSUME Built
  PROVE  AllResponses <=> AreAllResponses(attached)
<1>1. DOMAIN attached = 1 .. Len(attached)
  BY BuiltIs
<1> QED BY <1>1 DEF AllResponses, AreAllResponses

(* A buffer of responses is one the Finished codec may carry.              *)
LEMMA ChainCarried ==
  ASSUME Built, AllResponses, NEW src, src \in Encodable,
         PointsTo(src.filestore_responses, src.filestore_responses_len),
         Copied(src.filestore_responses, src.filestore_responses_len) = chain
  PROVE  IsSource(src)
<1>1. AreAllResponses(attached)
  BY ResponsesAll
<1>2. AreResponses(chain)
  BY <1>1, BuiltIs, ResponsesChain
<1> QED BY <1>2 DEF IsSource

(* The decoder accepts the PDU for its responses, and reports them.        *)
LEMMA CarriedJudged ==
  ASSUME Built, Carried, pc = "idle"
  PROVE  /\ ret > 0 <=> AllResponses
         /\ ret > 0 => Slice(field, fin.filestore_responses,
                             fin.filestore_responses + fin.filestore_responses_len) = chain
<1>1. /\ IInv /\ calls = 1
      /\ fin.filestore_responses_len > 0 => fin.filestore_responses = FixedLen
  BY DEF Carried
<1>2. PICK finish \in Finishes :
        field = FinishedSerialize(FinishedOf(finish), SpanModulus) /\ field # << >>
  BY DEF Carried
<1> DEFINE src == FinishedOf(finish)
<1>3. chain \in Seq(Octet)
  BY BuiltIs
<1>4. /\ src \in Encodable /\ PointsTo(src.filestore_responses, src.filestore_responses_len)
      /\ src.filestore_responses_len = Len(chain) /\ Len(chain) \in Nat
      /\ Copied(src.filestore_responses, src.filestore_responses_len) = chain
      /\ EncodedAs(src, field) /\ Holds(field, chain)
  BY <1>2, <1>3, FinishedSent
<1>5. ret \in Nat /\ (ret > 0 <=> IsFinished(field))
  BY <1>1 DEF IInv, WalkInv, TypeOK, AcceptsFinished
<1>6. ASSUME ret > 0 PROVE AllResponses
  <2>1. IsFinished(field)
    BY <1>5, <1>6
  <2>2. AreAllResponses(attached)
    BY <1>4, <2>1, BuiltIs, ForeignIsRefused
  <2> QED BY <2>2, ResponsesAll
<1>7. ASSUME AllResponses
      PROVE  ChainedAs(src, field) /\ IsFinished(field)
  <2>1. IsSource(src)
    <3> HIDE DEF src
    <3> QED BY <1>4, <1>7, ChainCarried
  <2>2. FinishedSerialize(src, SpanModulus) # << >>
    BY <1>2
  <2> HIDE DEF src
  <2>3. ChainedAs(src, field)
    BY <1>4, <2>1, <2>2, EncodedChain
  <2> QED BY <1>4, <2>3, EncodedIsFinished
<1>8. ASSUME ret > 0
      PROVE  Slice(field, fin.filestore_responses,
                   fin.filestore_responses + fin.filestore_responses_len) = chain
  <2>1. ChainedAs(src, field)
    BY <1>6, <1>7, <1>8
  <2>2. TypeOK /\ Walk /\ Trail /\ pos = Len(field)
    BY <1>1, <1>8 DEF IInv, WalkInv, Decoded
  <2> HIDE DEF src
  <2>3. fin.filestore_responses_len = Len(chain) /\ Slice(field, FixedLen, ResponsesEnd) = chain
    BY <1>4, <2>1, <2>2, ReportsEncoded
  <2>4. CASE fin.filestore_responses_len > 0
    BY <1>1, <2>3, <2>4 DEF ResponsesEnd
  <2>5. CASE ~ (fin.filestore_responses_len > 0)
    <3>1. chain = << >> /\ fin.filestore_responses_len = 0
      BY <1>3, <1>4, <2>3, <2>5, EmptySeq
    <3> DEFINE at == fin.filestore_responses
    <3>2. at \in Nat
      BY <2>2 DEF TypeOK, Finished, FixedLen
    <3> HIDE DEF at
    <3>3. Slice(field, at, at + 0) = << >>
      <4>1. at + 0 = at /\ at + 1 \in Int /\ at \in Int /\ at < at + 1
        BY <3>2
      <4>2. field \in Seq(Octet)
        BY <2>2 DEF TypeOK
      <4>3. SubSeq(field, at + 1, at) = << >>
        BY <4>1, <4>2, SubSeqEmpty
      <4> QED BY <4>1, <4>3 DEF Slice
    <3> QED BY <3>1, <3>3 DEF at
  <2> QED BY <2>4, <2>5
<1> QED BY <1>5, <1>6, <1>7, <1>8

(* The span of an accepted Finished PDU is the sender's buffer.            *)
LEMMA WalkResponsesKeeps ==
  ASSUME DeliveryInv, WalkResponses
  PROVE  DeliveryInv' /\ taken' = << >> /\ taken = << >> /\ AllResponses
<1> DEFINE responses == Slice(field, fin.filestore_responses,
                              fin.filestore_responses + fin.filestore_responses_len)
<1>1. Parts
  BY InvariantParts
<1>2. stage = "finished" /\ stage' = "responses" /\ pc = "idle" /\ ret > 0
      /\ Walker!Begin(responses) /\ UNCHANGED <<chain, tries, attached>> /\ UNCHANGED decoder
  BY DEF WalkResponses
<1>3. Built /\ Carried /\ Walker!Init /\ TypeOK /\ Walker!TypeOK
      /\ Len(chain) <= Capacity /\ tries \in 0 .. MaxParameters
  BY <1>1, <1>2 DEF Parts
<1>4. AllResponses /\ responses = chain
  BY <1>2, <1>3, CarriedJudged
<1> HIDE DEF responses
<1>5. Met' /\ Walker!TypeOK' /\ taken' = << >> /\ taken = << >>
  BY <1>2, <1>3, <1>4, BeginMeets
<1>6. TypeOK' /\ Carried'
  BY <1>2, <1>3, DecoderStays, CarriedStays
<1>7. Built' /\ AllResponses'
  BY <1>2, <1>3, <1>4, ChainStays DEF AllResponses
<1>8. Parts'
  BY <1>2, <1>3, <1>5, <1>6, <1>7 DEF Parts
<1> QED BY <1>4, <1>5, <1>8, InvariantPartsNext

(* A Finished PDU is refused for a parameter that is no response.          *)
LEMMA RefuseKeeps ==
  ASSUME DeliveryInv, Refuse
  PROVE  DeliveryInv' /\ ~ AllResponses /\ UNCHANGED walker
<1>1. Parts
  BY InvariantParts
<1>2. stage = "finished" /\ stage' = "refused" /\ pc = "idle" /\ ret = 0
      /\ UNCHANGED <<chain, tries, attached>> /\ UNCHANGED decoder /\ UNCHANGED walker
  BY DEF Refuse
<1>3. Built /\ Carried /\ Walker!Init /\ TypeOK /\ Walker!TypeOK
      /\ Len(chain) <= Capacity /\ tries \in 0 .. MaxParameters
  BY <1>1, <1>2 DEF Parts
<1>4. ~ AllResponses
  BY <1>2, <1>3, CarriedJudged
<1>5. TypeOK' /\ Carried' /\ Walker!Init' /\ Walker!TypeOK'
  BY <1>2, <1>3, DecoderStays, CarriedStays, WalkerStays
<1>6. Built' /\ ~ AllResponses'
  BY <1>2, <1>3, <1>4, ChainStays DEF AllResponses
<1>7. Parts'
  BY <1>2, <1>3, <1>5, <1>6 DEF Parts
<1> QED BY <1>2, <1>4, <1>7, InvariantPartsNext

(* Nothing happens.                                                        *)
LEMMA StutterKeeps ==
  ASSUME DeliveryInv, UNCHANGED deliveryVars
  PROVE  DeliveryInv' /\ UNCHANGED walker /\ stage' = stage /\ attached' = attached
<1>1. UNCHANGED sender /\ UNCHANGED decoder /\ UNCHANGED walker
  BY DEF deliveryVars
<1>2. UNCHANGED <<stage, chain, tries, attached>>
  BY <1>1 DEF sender
<1>3. Parts
  BY InvariantParts
<1>4. Built' /\ TypeOK' /\ Walker!TypeOK' /\ (Init => Init') /\ (Walker!Init => Walker!Init')
  BY <1>1, <1>2, <1>3, ChainStays, DecoderStays, WalkerStays DEF Parts
<1>5. Carried => Carried'
  BY <1>1, <1>2, CarriedStays
<1>6. Met => Met'
  BY <1>1, <1>2, MetStays
<1>7. AllResponses' <=> AllResponses
  BY <1>2 DEF AllResponses
<1>8. Parts'
  BY <1>2, <1>3, <1>4, <1>5, <1>6, <1>7 DEF Parts
<1> QED BY <1>1, <1>2, <1>8, InvariantPartsNext

(* Where the walk stands: in front of the next parameter, or at the end.   *)
LEMMA AtParameter ==
  ASSUME Built, Met, Len(taken) \in Nat, Len(taken) < Len(attached)
  PROVE  LET k == Len(taken)
             p == attached[k + 1]
         IN /\ Travels(p) /\ k + 1 \in 1 .. Len(attached)
            /\ Walker!TlvSize(Walker!Rest) = Len(Wire(p)) /\ Walker!TlvSize(Walker!Rest) > 0
            /\ Walker!KindOf(Walker!At(Walker!Rest, 0)) = p.kind
            /\ \A s : Walker!Decode(p.kind, Walker!Rest, s) = [ret |-> Len(Wire(p)), tlv |-> p.tlv]
            /\ walk_pos + Len(Wire(p)) = Len(Joins(attached)[k + 1])
<1> DEFINE k == Len(taken)
           p == attached[k + 1]
           joins == Joins(attached)
           front == joins[k]
           rest == Slice(chain, Len(front), Len(chain))
<1>1. /\ Len(attached) \in Nat /\ \A i \in 1 .. Len(attached) : Travels(attached[i])
      /\ JoinsAs(attached, joins) /\ chain = joins[Len(attached)]
  BY BuiltIs
<1>2. span = chain /\ walk_pos = Len(front)
  BY DEF Met
<1>3. k + 1 \in 1 .. Len(attached) /\ k \in Nat
  BY <1>1
<1>4. Travels(p)
  BY <1>1, <1>3
<1>5. \A i \in 1 .. Len(attached) : Wire(attached[i]) \in Seq(Octet)
  BY <1>1 DEF Travels
<1> HIDE DEF joins, k
<1>6. PICK back \in Seq(Octet) : /\ front \in Seq(Octet)
                                 /\ Len(joins[k + 1]) = Len(front) + Len(Wire(p))
                                 /\ chain = front \o (Wire(p) \o back)
  <2>1. k < Len(attached)
    BY DEF k
  <2>2. /\ joins[k] \in Seq(Octet)
        /\ Len(joins[k + 1]) = Len(joins[k]) + Len(Wire(attached[k + 1]))
        /\ \E back \in Seq(Octet) :
             joins[Len(attached)] = joins[k] \o (Wire(attached[k + 1]) \o back)
    BY ONLY <1>1, <1>3, <1>5, <2>1, NextInChain, ZenonT(30)
  <2> QED BY <1>1, <2>2
<1> HIDE DEF p, front
<1>7. /\ TlvSize(rest) = Len(Wire(p)) /\ Walker!KindOf(At(rest, 0)) = p.kind
      /\ \A s : Walker!Decode(p.kind, rest, s) = [ret |-> Len(Wire(p)), tlv |-> p.tlv]
  <2> SUFFICES ASSUME NEW s
               PROVE  /\ TlvSize(rest) = Len(Wire(p)) /\ Walker!KindOf(At(rest, 0)) = p.kind
                      /\ Walker!Decode(p.kind, rest, s) = [ret |-> Len(Wire(p)), tlv |-> p.tlv]
    OBVIOUS
  <2>1. back \in Seq(Octet) /\ front \in Seq(Octet) /\ chain = front \o (Wire(p) \o back)
    BY <1>6
  <2>2. MetAs(p, rest, s)
    BY <1>4, <2>1, MeetsNext
  <2> QED BY <2>2 DEF MetAs
<1>8. Walker!Rest = rest
  BY <1>2, WalkerSlices DEF Walker!Rest
<1>9. Len(Wire(p)) \in Nat /\ Len(Wire(p)) >= 2
  BY <1>4 DEF Travels
<1> HIDE DEF rest
<1>10. Walker!TlvSize(Walker!Rest) = Len(Wire(p)) /\ Walker!At(Walker!Rest, 0) = At(rest, 0)
  BY <1>7, <1>8, WalkerSlices, WalkerTlvs
<1>11. Len(Wire(p)) > 0
  BY <1>9
<1>12. walk_pos + Len(Wire(p)) = Len(joins[k + 1])
  BY <1>2, <1>6
<1> QED BY <1>3, <1>4, <1>7, <1>8, <1>10, <1>11, <1>12 DEF k, p, joins

(* Behind the last parameter there is nothing that reads as a TLV.         *)
LEMMA AtEnd ==
  ASSUME Built, Met, Len(taken) = Len(attached)
  PROVE  Walker!TlvSize(Walker!Rest) = 0 /\ walk_pos = Len(chain)
<1>1. span = chain /\ walk_pos = Len(chain) /\ chain \in Seq(Octet)
  BY BuiltIs DEF Met
<1> DEFINE n == Len(chain)
           rest == Slice(chain, n, n)
<1>2. n \in Nat
  BY <1>1, LenProperties
<1>3. rest = << >>
  <2>1. n + 1 \in Int /\ n \in Int /\ n < n + 1
    BY <1>2
  <2> HIDE DEF n
  <2> QED BY <1>1, <2>1, SubSeqEmpty DEF Slice
<1>4. Walker!Rest = rest
  BY <1>1, WalkerSlices DEF Walker!Rest
<1>5. TlvSize(rest) = 0
  <2>1. Len(rest) < CFDP_TLV_HEADER_LEN
    BY <1>3 DEF CFDP_TLV_HEADER_LEN
  <2> QED BY <2>1 DEF TlvSize
<1> QED BY <1>1, <1>4, <1>5, WalkerTlvs

(* The walk takes the next parameter as it was attached.                   *)
LEMMA TakeMeets ==
  ASSUME Built, Met, Walker!TypeOK, NEW kind \in Walker!Kinds, Walker!Take(kind),
         UNCHANGED <<chain, attached>>
  PROVE  /\ Met' /\ Walker!TypeOK'
         /\ Len(taken) \in Nat /\ Len(taken) < Len(attached)
         /\ Len(taken') = Len(taken) + 1
<1> DEFINE k == Len(taken)
           p == attached[k + 1]
           Entry == [at |-> walk_pos, end |-> walk_pos + Walker!TlvSize(Walker!Rest),
                     kind |-> kind, ret |-> Walker!Decode(kind, Walker!Rest, got[kind]).ret,
                     tlv |-> Walker!Decode(kind, Walker!Rest, got[kind]).tlv]
           Entries == [at : Nat, end : Nat, kind : Walker!Kinds, ret : Nat,
                       tlv : Walker!Request \cup Walker!Response \cup Walker!Override
                               \cup Walker!Tlv]
<1>1. /\ walk_pc = "walk" /\ Walker!TlvSize(Walker!Rest) > 0
      /\ Walker!KindOf(Walker!At(Walker!Rest, 0)) = kind
      /\ got' = [got EXCEPT ![kind] = Walker!Decode(kind, Walker!Rest, got[kind]).tlv]
      /\ taken' = Append(taken, Entry)
      /\ walk_pos' = walk_pos + Walker!TlvSize(Walker!Rest)
      /\ walk_pc' = walk_pc /\ span' = span /\ walks' = walks
  BY DEF Walker!Take
<1>2. /\ walk_pc \in {"idle", "walk"} /\ span \in Seq(Walker!Octet) /\ walk_pos \in Nat
      /\ got \in Walker!Structures /\ taken \in Seq(Entries) /\ walks \in 0 .. 1
  BY DEF Walker!TypeOK
<1>3. k \in Nat /\ Len(attached) \in Nat
  BY <1>2, BuiltIs, LenProperties
<1>4. k < Len(attached)
  <2>1. k <= Len(attached)
    BY DEF Met
  <2>2. k # Len(attached)
    BY <1>1, AtEnd
  <2> QED BY <1>3, <2>1, <2>2
<1>5. /\ Travels(p) /\ Walker!TlvSize(Walker!Rest) = Len(Wire(p))
      /\ Walker!KindOf(Walker!At(Walker!Rest, 0)) = p.kind
      /\ \A s : Walker!Decode(p.kind, Walker!Rest, s) = [ret |-> Len(Wire(p)), tlv |-> p.tlv]
      /\ walk_pos + Len(Wire(p)) = Len(Joins(attached)[k + 1])
  BY <1>3, <1>4, AtParameter
<1>6. p \in Attachable /\ Sendable(p) /\ Len(Wire(p)) \in Nat /\ Len(Wire(p)) # 0
  <2>1. p \in Attachable /\ Sendable(p) /\ Len(Wire(p)) \in Nat /\ Len(Wire(p)) >= 2
    BY <1>5 DEF Travels
  <2> QED BY <2>1
<1>7. /\ [got EXCEPT ![p.kind] = p.tlv] \in Walker!Structures /\ p.kind \in Walker!Kinds
      /\ p.tlv \in Walker!Request \cup Walker!Response \cup Walker!Override \cup Walker!Tlv
  BY <1>2, <1>6, ParameterStored
<1>8. kind = p.kind
  BY <1>1, <1>5
<1>9. Walker!Decode(kind, Walker!Rest, got[kind]) = [ret |-> Len(Wire(p)), tlv |-> p.tlv]
  BY <1>5, <1>8
<1> HIDE DEF p
<1> DEFINE len == Len(Wire(p))
           entry == [at |-> walk_pos, end |-> walk_pos + len, kind |-> p.kind, ret |-> len,
                     tlv |-> p.tlv]
<1>10. Entry = entry
  BY <1>5, <1>8, <1>9
<1> HIDE DEF len
<1>11. entry \in Entries
  <2>1. len \in Nat
    BY <1>6 DEF len
  <2>2. walk_pos + len \in Nat
    BY <1>2, <2>1
  <2> HIDE DEF Entry
  <2> QED BY <1>2, <1>7, <2>1, <2>2
<1>12. got' \in Walker!Structures
  BY <1>1, <1>7, <1>8, <1>9
<1> HIDE DEF Entries, Entry
<1> DEFINE more == Append(taken, entry)
<1>13. /\ more \in Seq(Entries) /\ Len(more) = k + 1
       /\ (\A i \in 1 .. k : more[i] = taken[i]) /\ more[k + 1] = entry
  <2> HIDE DEF entry
  <2> QED BY <1>2, <1>11, AppendProperties
<1>14. taken' = more
  BY <1>1, <1>10
<1> HIDE DEF more
<1>15. walk_pos' = Len(Joins(attached)[k + 1]) /\ walk_pos' \in Nat
  <2>1. walk_pos' = walk_pos + len
    BY <1>1, <1>5 DEF len
  <2> QED BY <1>2, <1>5, <1>6, <2>1 DEF len
<1>16. Walker!TypeOK'
  BY <1>1, <1>2, <1>12, <1>13, <1>14, <1>15 DEF Walker!TypeOK, Entries
<1>17. ASSUME NEW i \in DOMAIN more
       PROVE  more[i].ret # 0 /\ more[i].kind = attached[i].kind /\ more[i].tlv = attached[i].tlv
  <2>1. i \in 1 .. k + 1
    BY <1>13, <1>17, LenProperties
  <2>2. CASE i = k + 1
    BY <1>6, <1>13, <2>2 DEF p, entry, len
  <2>3. CASE i # k + 1
    <3>1. i \in 1 .. k
      BY <1>3, <2>1, <2>3
    <3>2. i \in DOMAIN taken
      BY <1>2, <3>1, LenProperties
    <3> QED BY <1>13, <3>1, <3>2 DEF Met
  <2> QED BY <2>2, <2>3
<1>18. Joins(attached)' = Joins(attached)
  BY DEF Joins
<1>19. Met'
  <2>1. span' = chain' /\ walk_pc' # "idle" /\ attached' = attached
    BY <1>1 DEF Met
  <2>2. Len(taken') <= Len(attached') /\ walk_pos' = Len(Joins(attached)'[Len(taken')])
    BY <1>3, <1>4, <1>13, <1>14, <1>15, <1>18, <2>1
  <2> QED BY <1>14, <1>17, <2>1, <2>2 DEF Met
<1> QED BY <1>3, <1>4, <1>13, <1>14, <1>16, <1>19

(* It stops when there is none.                                            *)
LEMMA StopMeets ==
  ASSUME Built, Met, Walker!TypeOK, Walker!Stop, UNCHANGED <<chain, attached>>
  PROVE  Met' /\ Walker!TypeOK' /\ taken' = taken
<1>1. /\ Walker!TlvSize(Walker!Rest) = 0 /\ walk_pc' = "idle"
      /\ UNCHANGED <<span, walk_pos, got, taken, walks>>
  BY DEF Walker!Stop
<1>2. Walker!TypeOK'
  BY <1>1 DEF Walker!TypeOK
<1>3. Len(taken) \in Nat /\ Len(attached) \in Nat /\ Len(taken) <= Len(attached)
  BY BuiltIs, LenProperties DEF Walker!TypeOK, Met
<1>4. Len(taken) = Len(attached)
  <2>1. ~ (Len(taken) < Len(attached))
    BY <1>1, <1>3, AtParameter
  <2> QED BY <1>3, <2>1
<1>5. Joins(attached)' = Joins(attached)
  BY DEF Joins
<1>6. Met'
  BY <1>1, <1>4, <1>5 DEF Met
<1> QED BY <1>1, <1>2, <1>6

(* The walk goes on or stops.                                              *)
LEMMA WalkOnKeeps ==
  ASSUME DeliveryInv, WalkOn
  PROVE  /\ DeliveryInv' /\ stage' = stage /\ attached' = attached
         /\ \/ taken' = taken
            \/ Len(taken) \in Nat /\ Len(taken) < Len(attached) /\ Len(taken') = Len(taken) + 1
<1>1. Parts
  BY InvariantParts
<1>2. stage \in {"metadata", "responses"} /\ Walker!Advance
      /\ UNCHANGED sender /\ UNCHANGED decoder
  BY DEF WalkOn
<1>3. UNCHANGED <<stage, chain, tries, attached>>
  BY <1>2 DEF sender
<1>4. Built /\ Met /\ TypeOK /\ Walker!TypeOK
  BY <1>1, <1>2 DEF Parts
<1>5. /\ Met' /\ Walker!TypeOK'
      /\ \/ taken' = taken
         \/ Len(taken) \in Nat /\ Len(taken) < Len(attached) /\ Len(taken') = Len(taken) + 1
  <2>1. CASE Walker!Stop
    BY <1>3, <1>4, <2>1, StopMeets
  <2>2. ASSUME NEW kind \in Walker!Kinds, Walker!Take(kind)
        PROVE  /\ Met' /\ Walker!TypeOK'
               /\ Len(taken) \in Nat /\ Len(taken) < Len(attached)
               /\ Len(taken') = Len(taken) + 1
    BY <1>3, <1>4, <2>2, TakeMeets
  <2> QED BY <1>2, <2>1, <2>2 DEF Walker!Advance
<1>6. TypeOK' /\ (Init => Init') /\ Built' /\ (Carried => Carried')
  BY <1>2, <1>3, <1>4, DecoderStays, ChainStays, CarriedStays
<1>7. AllResponses' <=> AllResponses
  BY <1>3 DEF AllResponses
<1>8. Parts'
  BY <1>1, <1>2, <1>3, <1>5, <1>6, <1>7 DEF Parts
<1> QED BY <1>3, <1>5, <1>8, InvariantPartsNext

-----------------------------------------------------------------------------
(* The theorems                                                            *)

(* A step of either user or of a decoder keeps the invariant.              *)
LEMMA DeliveryStep ==
  DeliveryInv /\ [DeliveryNext]_deliveryVars => DeliveryInv'
<1> SUFFICES ASSUME DeliveryInv, [DeliveryNext]_deliveryVars PROVE DeliveryInv'
  OBVIOUS
<1>1. ASSUME NEW p \in Parameters, Attach(p) PROVE DeliveryInv'
  BY <1>1, AttachKeeps
<1>2. CASE SendMetadata
  BY <1>2, SendMetadataKeeps
<1>3. ASSUME NEW finish \in Finishes, SendFinished(finish) PROVE DeliveryInv'
  BY <1>3, SendFinishedKeeps
<1>4. CASE DecodeFinished
  BY <1>4, DecodeFinishedKeeps
<1>5. CASE WalkResponses
  BY <1>5, WalkResponsesKeeps
<1>6. CASE Refuse
  BY <1>6, RefuseKeeps
<1>7. CASE WalkOn
  BY <1>7, WalkOnKeeps
<1>8. CASE UNCHANGED deliveryVars
  BY <1>8, StutterKeeps
<1> QED BY <1>1, <1>2, <1>3, <1>4, <1>5, <1>6, <1>7, <1>8 DEF DeliveryNext, Receive

(* In every state the buffer holds the parameters attached and nothing     *)
(* else, the Finished decoder has been given that span behind two octets,  *)
(* and the walk stands behind the parameters it has met.                   *)
THEOREM DeliveryInvariance == DeliverySpec => []DeliveryInv
BY DeliveryInitHolds, DeliveryStep, PTL DEF DeliverySpec

(* The senders' buffer never holds more than its capacity, and the two     *)
(* components keep their types where they run together.                    *)
THEOREM DeliveryTypeCorrect == DeliverySpec => []DeliveryTypeOK
<1>1. DeliveryInv => DeliveryTypeOK
  BY DEF DeliveryInv
<1> QED BY <1>1, DeliveryInvariance, PTL

(* What has been given so far is the first of what was attached.           *)
FirstGiven ==
  /\ Len(taken) \in Nat /\ Len(taken) <= Len(attached)
  /\ Delivered = SubSeq(attached, 1, Len(taken))

(* The invariant says so.                                                  *)
LEMMA GivenFirst == DeliveryInv => FirstGiven
<1> SUFFICES ASSUME DeliveryInv PROVE FirstGiven
  OBVIOUS
<1>1. Parts
  BY InvariantParts
<1>2. Built /\ Walker!TypeOK
  BY <1>1 DEF Parts
<1>3. /\ attached \in Seq(ParametersOnWire) /\ Len(attached) \in Nat
      /\ \A i \in 1 .. Len(attached) : Travels(attached[i])
  BY <1>2, BuiltIs
<1>4. Len(taken) \in Nat /\ DOMAIN taken = 1 .. Len(taken)
  BY <1>2, LenProperties DEF Walker!TypeOK
<1>5. Walker!Init \/ Met
  BY <1>1 DEF Parts
<1>6. /\ Len(taken) <= Len(attached)
      /\ \A i \in 1 .. Len(taken) : /\ taken[i].ret # 0
                                    /\ taken[i].kind = attached[i].kind
                                    /\ taken[i].tlv = attached[i].tlv
  <2>1. CASE Walker!Init
    <3>1. taken = << >>
      BY <2>1 DEF Walker!Init
    <3> QED BY <1>3, <3>1
  <2>2. CASE Met
    BY <1>4, <2>2 DEF Met
  <2> QED BY <1>5, <2>1, <2>2
<1>7. ASSUME NEW i \in 1 .. Len(taken)
      PROVE  taken[i].ret # 0 /\ attached[i] = [kind |-> taken[i].kind, tlv |-> taken[i].tlv]
  <2>1. i \in 1 .. Len(attached)
    BY <1>3, <1>4, <1>6
  <2>2. attached[i] \in Attachable
    BY <1>3, <2>1 DEF Travels
  <2>3. attached[i] = [kind |-> attached[i].kind, tlv |-> attached[i].tlv]
    BY <2>2, ParameterKinds
  <2> QED BY <1>6, <2>3
<1>8. Given(taken) = SubSeq(attached, 1, Len(taken))
  BY ONLY <1>3, <1>4, <1>6, <1>7, GivenIs
<1> QED BY <1>4, <1>6, <1>8 DEF FirstGiven, Delivered

(* And after a step.                                                       *)
LEMMA GivenFirstNext == DeliveryInv' => FirstGiven'
BY GivenFirst, PTL

(* When the walk is over every parameter has been delivered and the span   *)
(* read to its end: no TLV before the last stops the walk and no decoder   *)
(* refuses what its encoder made, whatever is attached and however large   *)
(* the buffer.                                                             *)
THEOREM DeliversAll == DeliverySpec => []WalkDeliversAll
<1>1. ASSUME DeliveryInv, stage \in {"metadata", "responses"}, walk_pc = "idle"
      PROVE  Delivered = attached /\ walk_pos = Len(chain)
  <2>1. Parts
    BY <1>1, InvariantParts
  <2>2. Built /\ Met
    BY <1>1, <2>1 DEF Parts
  <2>3. Len(taken) = Len(attached)
    BY <1>1, <2>2 DEF Met
  <2>4. attached \in Seq(ParametersOnWire)
    BY <2>2, BuiltIs
  <2>5. SubSeq(attached, 1, Len(attached)) = attached
    BY <2>4, SubSeqFull
  <2>6. walk_pos = Len(chain)
    BY <2>2, <2>3, AtEnd
  <2> QED BY <1>1, <2>3, <2>5, <2>6, GivenFirst DEF FirstGiven
<1>2. DeliveryInv => WalkDeliversAll
  BY <1>1 DEF WalkDeliversAll
<1> QED BY <1>2, DeliveryInvariance, PTL

(* The route of the service at each stage.                                 *)
RouteAtStage ==
  /\ stage = "build" => Route = "none"
  /\ stage = "metadata" => Route = "metadata"
  /\ stage \in {"finished", "responses", "refused"} => Route = "finished"

(* The definition says so.                                                 *)
LEMMA RouteIs == RouteAtStage
BY DEF RouteAtStage, Route

(* And after a step.                                                       *)
LEMMA RouteIsNext == RouteAtStage'
BY RouteIs, PTL

(* The service's condition on what a Finished PDU carries.                 *)
LEMMA CarriesIs ==
  ASSUME Built
  PROVE  Service!Carries <=> (Route = "finished" => AllResponses)
<1>1. \A i \in DOMAIN attached : attached[i] \in ParametersOnWire
  BY BuiltIs, ElementOfSeq
<1> QED BY <1>1 DEF Service!Carries, AllResponses

(* A step that neither user sees.                                          *)
LEMMA UnseenStep ==
  ASSUME FirstGiven, FirstGiven', attached' = attached, taken' = taken, Route' = Route,
         (stage = "refused")' = (stage = "refused")
  PROVE  UNCHANGED Service!vars
<1>1. Delivered' = Delivered
  BY DEF FirstGiven
<1> QED BY <1>1 DEF Service!vars

(* Each step of the users and decoders is a step of the service, or one    *)
(* that it does not see.                                                   *)
LEMMA AttachServes ==
  ASSUME DeliveryInv, NEW p \in Parameters, Attach(p)
  PROVE  [Service!Next]_Service!vars
<1> DEFINE octets == Walker!Encode(p.kind, p.tlv, Capacity - Len(chain))
<1>1. Parts
  BY InvariantParts
<1>2. /\ stage = "build" /\ stage' = "build" /\ tries < MaxParameters
      /\ attached' = IF octets = << >> THEN attached ELSE Append(attached, OnWire(p))
      /\ UNCHANGED walker
  BY DEF Attach
<1>3. taken' = taken
  BY <1>2, WalkerStays
<1>4. FirstGiven /\ FirstGiven'
  BY AttachKeeps, GivenFirst, GivenFirstNext
<1>5. Route = "none" /\ Route' = "none"
  BY <1>2, RouteIs, RouteIsNext DEF RouteAtStage
<1>6. (stage = "refused") = FALSE /\ (stage = "refused")' = FALSE
  BY <1>2
<1>7. CASE octets = << >>
  BY <1>2, <1>3, <1>4, <1>5, <1>6, <1>7, UnseenStep
<1>8. CASE octets # << >>
  <2>1. Built /\ taken = << >> /\ Len(chain) \in Nat /\ tries \in Nat
    BY <1>1, <1>2, BuiltIs, LenProperties DEF Parts, Walker!Init
  <2>2. Len(attached) \in Nat /\ Len(attached) < MaxParameters
    <3>1. Len(attached) <= tries /\ Len(attached) \in Nat /\ MaxParameters \in Nat
      BY <2>1, BuiltIs, DeliveryAssumption DEF Built
    <3> QED BY <1>2, <2>1, <3>1
  <2>3. OnWire(p) \in ParametersOnWire
    BY DEF ParametersOnWire
  <2>4. attached' = Append(attached, OnWire(p))
    BY <1>2, <1>8
  <2>5. Delivered = << >> /\ Delivered' = << >>
    <3>1. Len(taken) = 0 /\ Len(taken') = 0
      BY <1>3, <2>1
    <3>2. SubSeq(attached, 1, 0) = << >> /\ SubSeq(attached', 1, 0) = << >>
      BY SubSeqEmpty
    <3> QED BY <1>4, <3>1, <3>2 DEF FirstGiven
  <2>6. Service!Attach(OnWire(p))
    BY <1>5, <1>6, <2>2, <2>4, <2>5 DEF Service!Attach
  <2> QED BY <2>3, <2>6 DEF Service!Next
<1> QED BY <1>7, <1>8

(* A PDU is sent: nothing has been given before or is with it.             *)
LEMMA SendServes ==
  ASSUME FirstGiven, FirstGiven', attached' = attached, taken' = taken,
         stage = "build", stage' \in {"metadata", "finished"}
  PROVE  [Service!Next]_Service!vars
<1>1. Delivered' = Delivered
  BY DEF FirstGiven
<1>2. Route = "none" /\ Route' \in {"metadata", "finished"}
  BY RouteIs, RouteIsNext DEF RouteAtStage
<1>3. (stage = "refused") = FALSE /\ (stage = "refused")' = FALSE
  OBVIOUS
<1>4. Service!Send(Route')
  BY <1>1, <1>2, <1>3 DEF Service!Send
<1> QED BY <1>2, <1>4 DEF Service!Next

(* The walk meets a parameter, and the user is given it.                   *)
LEMMA WalkOnServes ==
  ASSUME DeliveryInv, WalkOn
  PROVE  [Service!Next]_Service!vars
<1>1. Parts
  BY InvariantParts
<1>2. stage \in {"metadata", "responses"}
  BY DEF WalkOn
<1>3. stage' = stage /\ attached' = attached
  BY WalkOnKeeps
<1>4. FirstGiven /\ FirstGiven'
  BY WalkOnKeeps, GivenFirst, GivenFirstNext
<1>5. Route' = Route /\ Route # "none" /\ (Route = "finished" => stage = "responses")
  BY <1>2, <1>3, RouteIs, RouteIsNext DEF RouteAtStage
<1>6. (stage = "refused") = FALSE /\ (stage = "refused")' = FALSE
  BY <1>2, <1>3
<1>7. CASE taken' = taken
  BY <1>3, <1>4, <1>5, <1>6, <1>7, UnseenStep
<1>8. CASE Len(taken) \in Nat /\ Len(taken) < Len(attached) /\ Len(taken') = Len(taken) + 1
  <2>1. Built
    BY <1>1 DEF Parts
  <2>2. Service!Carries
    <3>1. stage = "responses" => AllResponses
      BY <1>1 DEF Parts
    <3> QED BY <1>5, <2>1, <3>1, CarriesIs
  <2>3. /\ SubSeq(attached, 1, Len(taken) + 1)
             = Append(SubSeq(attached, 1, Len(taken)), attached[Len(taken) + 1])
        /\ Len(SubSeq(attached, 1, Len(taken))) = Len(taken)
    BY <1>8, <2>1, BuiltIs, FrontAppend
  <2>4. Len(Delivered) = Len(taken) /\ Delivered' = Append(Delivered, attached[Len(taken) + 1])
    BY <1>3, <1>4, <1>8, <2>3 DEF FirstGiven
  <2>5. Service!Deliver
    BY <1>3, <1>5, <1>6, <1>8, <2>2, <2>4 DEF Service!Deliver
  <2> QED BY <2>5 DEF Service!Next
<1> QED BY <1>7, <1>8, WalkOnKeeps

(* A Finished PDU is refused: it carries a foreign parameter.              *)
LEMMA RefuseServes ==
  ASSUME DeliveryInv, Refuse
  PROVE  [Service!Next]_Service!vars
<1>1. Parts
  BY InvariantParts
<1>2. stage = "finished" /\ stage' = "refused" /\ attached' = attached
  BY DEF Refuse
<1>3. taken' = taken
  BY RefuseKeeps, WalkerStays
<1>4. FirstGiven /\ FirstGiven'
  BY RefuseKeeps, GivenFirst, GivenFirstNext
<1>5. Delivered' = Delivered
  BY <1>2, <1>3, <1>4 DEF FirstGiven
<1>6. Route = "finished" /\ Route' = Route
  BY <1>2, RouteIs, RouteIsNext DEF RouteAtStage
<1>7. ~ Service!Carries
  <2>1. Built
    BY <1>1 DEF Parts
  <2> QED BY <1>6, <2>1, RefuseKeeps, CarriesIs
<1>8. (stage = "refused")' = TRUE
  BY <1>2
<1>9. Service!Refuse
  BY <1>2, <1>5, <1>6, <1>7, <1>8 DEF Service!Refuse
<1> QED BY <1>9 DEF Service!Next

(* Any step of the two users is one the service allows.                    *)
LEMMA ServiceStep ==
  DeliveryInv /\ [DeliveryNext]_deliveryVars => [Service!Next]_Service!vars
<1> SUFFICES ASSUME DeliveryInv, [DeliveryNext]_deliveryVars
             PROVE  [Service!Next]_Service!vars
  OBVIOUS
<1>1. FirstGiven /\ FirstGiven'
  BY DeliveryStep, GivenFirst, GivenFirstNext
<1>2. ASSUME NEW p \in Parameters, Attach(p) PROVE [Service!Next]_Service!vars
  BY <1>2, AttachServes
<1>3. CASE SendMetadata
  <2>1. stage = "build" /\ stage' = "metadata" /\ attached' = attached
    BY <1>3 DEF SendMetadata
  <2>2. taken' = taken
    BY <1>3, SendMetadataKeeps
  <2> QED BY <1>1, <2>1, <2>2, SendServes
<1>4. ASSUME NEW finish \in Finishes, SendFinished(finish)
      PROVE  [Service!Next]_Service!vars
  <2>1. stage = "build" /\ stage' = "finished" /\ attached' = attached
    BY <1>4 DEF SendFinished
  <2>2. taken' = taken
    BY <1>4, SendFinishedKeeps, WalkerStays
  <2> QED BY <1>1, <2>1, <2>2, SendServes
<1>5. CASE DecodeFinished
  <2>1. stage = "finished" /\ UNCHANGED sender /\ UNCHANGED walker
    BY <1>5 DEF DecodeFinished
  <2>2. stage' = "finished" /\ attached' = attached
    BY <2>1 DEF sender
  <2>3. taken' = taken
    BY <2>1, WalkerStays
  <2>4. Route' = Route
    BY <2>1, <2>2, RouteIs, RouteIsNext DEF RouteAtStage
  <2>5. (stage = "refused")' = (stage = "refused")
    BY <2>1, <2>2
  <2> QED BY <1>1, <2>2, <2>3, <2>4, <2>5, UnseenStep
<1>6. CASE WalkResponses
  <2>1. stage = "finished" /\ stage' = "responses" /\ attached' = attached
    BY <1>6 DEF WalkResponses
  <2>2. taken' = taken
    BY <1>6, WalkResponsesKeeps
  <2>3. Route' = Route
    BY <2>1, RouteIs, RouteIsNext DEF RouteAtStage
  <2>4. (stage = "refused")' = (stage = "refused")
    BY <2>1
  <2> QED BY <1>1, <2>1, <2>2, <2>3, <2>4, UnseenStep
<1>7. CASE Refuse
  BY <1>7, RefuseServes
<1>8. CASE WalkOn
  BY <1>8, WalkOnServes
<1>9. CASE UNCHANGED deliveryVars
  <2>1. UNCHANGED walker /\ stage' = stage /\ attached' = attached
    BY <1>9, StutterKeeps
  <2>2. taken' = taken
    BY <2>1, WalkerStays
  <2>3. stage \in {"build", "metadata", "finished", "responses", "refused"}
    BY DEF DeliveryInv, DeliveryTypeOK
  <2>4. Route' = Route
    BY <2>1, <2>3, RouteIs, RouteIsNext DEF RouteAtStage
  <2>5. (stage = "refused")' = (stage = "refused")
    BY <2>1
  <2> QED BY <1>1, <2>1, <2>2, <2>4, <2>5, UnseenStep
<1> QED BY <1>2, <1>3, <1>4, <1>5, <1>6, <1>7, <1>8, <1>9 DEF DeliveryNext, Receive

(* Parameters arrive as they were attached, all of them and in order,      *)
(* through either PDU, and a Finished PDU is refused exactly for a foreign *)
(* one: for whatever parameters, PDUs and buffer.                          *)
THEOREM DeliveryImplements == DeliverySpec => ServiceSpec
<1>1. DeliveryInit => Service!Init
  <2> SUFFICES ASSUME DeliveryInit PROVE Service!Init
    OBVIOUS
  <2>1. stage = "build" /\ attached = << >> /\ taken = << >>
    BY DEF DeliveryInit, Walker!Init
  <2>2. Delivered = << >>
    <3>1. FirstGiven
      BY DeliveryInitHolds, GivenFirst
    <3>2. Len(taken) = 0 /\ SubSeq(attached, 1, 0) = << >>
      BY <2>1, SubSeqEmpty
    <3> QED BY <3>1, <3>2 DEF FirstGiven
  <2>3. Route = "none"
    BY <2>1, RouteIs DEF RouteAtStage
  <2>4. (stage = "refused") = FALSE
    BY <2>1
  <2> QED BY <2>1, <2>2, <2>3, <2>4 DEF Service!Init
<1> QED BY <1>1, ServiceStep, DeliveryInvariance, PTL DEF DeliverySpec, ServiceSpec, Service!Spec
=============================================================================
