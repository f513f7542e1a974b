-------------------------- MODULE CfdpFramePathProofs --------------------------
(***************************************************************************)
(* TLAPS proofs about CfdpFramePath, for all requests, buffers and faults  *)
(* of the link.  First what verification guarantees the receiver's pointer *)
(* arithmetic, for every buffer; then what a completed frame is made of,   *)
(* and the inductive invariant from which the types, the self-description  *)
(* of frames and the delivery of intact ones follow.                       *)
(***************************************************************************)
EXTENDS CfdpFramePath, CfdpLemmas

(* cfdp_pdu_crc_verify accepts no octets that do not hold the payload, and *)
(* the CRC behind it, which cfdp_pdu_header_deserialize and                *)
(* cfdp_pdu_payload_size then tell the caller of.                          *)
LEMMA VerifiedHoldsPayload ==
  ASSUME NEW window \in Seq(Octet), CrcVerify(window)
  PROVE  HoldsPayload(window)
<1> DEFINE head == HeaderDeserialize(window, LocalHeader)
           size == head.pdu.data_field_length
<1>1. /\ head.ret # 0
      /\ Len(window) >= head.ret + size
      /\ head.pdu.crc_flag = PRESENT => size >= CFDP_PDU_CRC_LEN
  BY DEF CrcVerify
<1>2. /\ head.ret \in Nat \ {0}
      /\ size \in Nat
      /\ head.pdu.crc_flag \in {0, 1}
  BY <1>1, HeaderDecoded
<1>3. Len(window) \in Nat
  BY LenProperties
<1>4. CASE head.pdu.crc_flag = PRESENT
  <2>1. PayloadSize(head.pdu) = size - 2
    BY <1>1, <1>2, <1>4 DEF PayloadSize, CFDP_PDU_CRC_LEN
  <2> HIDE DEF head
  <2>2. head.ret + (size - 2) + 2 <= Len(window)
    BY <1>1, <1>2, <1>3
  <2> QED
    BY <1>2, <1>4, <2>1, <2>2 DEF HoldsPayload, CFDP_PDU_CRC_LEN, head
<1>5. CASE head.pdu.crc_flag # PRESENT
  <2>1. PayloadSize(head.pdu) = size
    BY <1>5 DEF PayloadSize
  <2> HIDE DEF head
  <2>2. head.ret + size + 0 <= Len(window)
    BY <1>1, <1>2, <1>3
  <2> QED
    BY <1>2, <1>5, <2>1, <2>2 DEF HoldsPayload, head
<1> QED
  BY <1>4, <1>5

(* What the receiver of the README's steps reads is in its buffer: a       *)
(* window of it that cfdp_pdu_crc_verify accepts holds the whole payload,  *)
(* for buffers of any length, any octets in them and any fault of the      *)
(* link.                                                                   *)
THEOREM VerificationIsEnough == TypeOK => VerifiedFits
<1> SUFFICES ASSUME TypeOK, rxLen > 0, CrcVerify(Slice(rxBuf, 0, rxLen))
             PROVE  HoldsPayload(Slice(rxBuf, 0, rxLen))
  BY DEF VerifiedFits
<1>1. rxBuf \in Seq(Octet) /\ Len(rxBuf) = Capacity /\ rxLen \in 0 .. Capacity
  BY DEF TypeOK
<1>2. rxLen \in Nat /\ 0 <= rxLen /\ rxLen <= Len(rxBuf)
  BY <1>1, FramePathAssumption DEF FramePathAssumption
<1>3. Slice(rxBuf, 0, rxLen) \in Seq(Octet)
  BY <1>1, <1>2, SliceType
<1> QED
  BY <1>3, VerifiedHoldsPayload

-----------------------------------------------------------------------------
(* What the sender completes                                               *)

(* The length field of a header holds what it is sized for, up to its      *)
(* modulus.                                                                *)
LEMMA SizedType ==
  ASSUME NEW hdr \in Header, NEW payload \in Seq(Octet), NEW counted \in Nat
  PROVE  /\ Sized(hdr, payload, counted) \in Header
         /\ HeaderSize(Sized(hdr, payload, counted)) = HeaderSize(hdr)
         /\ Sized(hdr, payload, counted).crc_flag = hdr.crc_flag
         /\ Sized(hdr, payload, counted).data_field_length
              = (Len(payload) + counted) % LengthModulus
<1> DEFINE length == (Len(payload) + counted) % LengthModulus
<1>1. length \in UInt16
  <2>1. Len(payload) + counted \in Nat
    BY LenProperties
  <2>2. LengthModulus \in Nat /\ LengthModulus > 0 /\ LengthModulus <= UINT16_MAX + 1
    BY FramePathAssumption DEF FramePathAssumption
  <2>3. length \in 0 .. LengthModulus - 1
    <3> DEFINE sum == Len(payload) + counted
    <3>1. sum \in Int
      BY <2>1
    <3> HIDE DEF sum
    <3>2. sum % LengthModulus \in 0 .. LengthModulus - 1
      BY ONLY <2>2, <3>1, Remainder
    <3> QED BY <3>2 DEF sum
  <2>4. UINT16_MAX \in Nat
    BY DEF UINT16_MAX
  <2> HIDE DEF length
  <2> QED BY <2>2, <2>3, <2>4 DEF UInt16
<1>2. Sized(hdr, payload, counted) = [hdr EXCEPT !.data_field_length = length]
  BY DEF Sized
<1> DEFINE sized == Sized(hdr, payload, counted)
<1> HIDE DEF length, sized
<1>3. sized = [hdr EXCEPT !.data_field_length = length]
  BY <1>2 DEF sized
<1>4. sized \in Header
  BY <1>1, <1>3 DEF Header
<1>5. /\ sized.entity_id_length = hdr.entity_id_length
      /\ sized.transaction_seq_length = hdr.transaction_seq_length
      /\ sized.crc_flag = hdr.crc_flag /\ sized.data_field_length = length
  BY <1>3 DEF Header
<1>6. HeaderSize(sized) = HeaderSize(hdr)
  BY <1>5 DEF HeaderSize
<1> QED BY <1>4, <1>5, <1>6 DEF sized, length

(* The header and the payload, copied one behind the other.                *)
LEMMA Filled ==
  ASSUME NEW buf \in Seq(Octet), NEW head \in Seq(Octet), NEW payload \in Seq(Octet),
         Len(head) + Len(payload) <= Len(buf)
  PROVE  LET filled == Overlay(Overlay(buf, 0, head), Len(head), payload)
         IN /\ Overlay(buf, 0, head) \in Seq(Octet)
            /\ Len(Overlay(buf, 0, head)) = Len(buf)
            /\ filled \in Seq(Octet) /\ Len(filled) = Len(buf)
            /\ Slice(filled, 0, Len(head) + Len(payload)) = head \o payload
<1> DEFINE start == Len(head)
           size == Len(payload)
           one == Overlay(buf, 0, head)
           filled == Overlay(one, start, payload)
<1>1. start \in Nat /\ size \in Nat /\ Len(buf) \in Nat /\ 0 \in Nat
  BY LenProperties
<1>2. 0 + Len(head) <= Len(buf) /\ 0 + Len(head) = start
  BY <1>1
<1>3. one \in Seq(Octet) /\ Len(one) = Len(buf)
  BY ONLY buf \in Seq(Octet), head \in Seq(Octet), <1>1, <1>2, OverlayType
<1>4. Slice(one, 0, start) = head
  <2>1. Slice(one, 0, 0 + Len(head)) = Slice(buf, 0, 0) \o head
    BY ONLY buf \in Seq(Octet), head \in Seq(Octet), <1>1, <1>2, OverlayFront
  <2>2. Slice(buf, 0, 0) = << >>
    <3>1. 0 <= 0 /\ 0 <= Len(buf) /\ 0 - 0 = 0
      BY <1>1
    <3>2. Slice(buf, 0, 0) \in Seq(Octet) /\ Len(Slice(buf, 0, 0)) = 0 - 0
      BY ONLY buf \in Seq(Octet), <1>1, <3>1, SliceType
    <3> DEFINE none == Slice(buf, 0, 0)
    <3>3. none \in Seq(Octet) /\ Len(none) = 0
      BY <3>1, <3>2
    <3> HIDE DEF none
    <3> QED BY <3>3, EmptySeq DEF none
  <2>3. << >> \o head = head
    BY ConcatEmptySeq
  <2> QED BY <1>2, <2>1, <2>2, <2>3
<1> HIDE DEF one
<1>5. start + Len(payload) <= Len(one)
  BY <1>3
<1>6. filled \in Seq(Octet) /\ Len(filled) = Len(one)
  <2> HIDE DEF start
  <2> QED BY ONLY payload \in Seq(Octet), <1>1, <1>3, <1>5, OverlayType
<1>7. Slice(filled, 0, start + Len(payload)) = Slice(one, 0, start) \o payload
  <2> HIDE DEF start
  <2> QED BY ONLY payload \in Seq(Octet), <1>1, <1>3, <1>5, OverlayFront
<1>8. Slice(filled, 0, start + Len(payload)) = head \o payload
  BY <1>4, <1>7
<1> HIDE DEF filled
<1>9. /\ one \in Seq(Octet) /\ Len(one) = Len(buf)
      /\ filled \in Seq(Octet) /\ Len(filled) = Len(buf)
      /\ Slice(filled, 0, Len(head) + Len(payload)) = head \o payload
  BY <1>3, <1>6, <1>8
<1> QED BY <1>9 DEF filled, one

(* What cfdp_pdu_crc_append leaves of octets that a header begins.         *)
AppendedTo(filled, hdr, head, payload, result) ==
  /\ result.buf \in Seq(Octet) /\ Len(result.buf) = Len(filled)
  /\ result.ret \in 0 .. Len(filled)
  /\ result.ret # 0 =>
       /\ hdr.crc_flag = PRESENT
       /\ hdr.data_field_length = Len(payload) + 2
       /\ Slice(result.buf, 0, result.ret)
            = (head \o payload) \o PairWith(CrcOf(head \o payload))

LEMMA Appended ==
  ASSUME NEW hdr \in Header, NEW n \in Nat, NEW payload \in Seq(Octet),
         HeaderSerialize(hdr, n) # << >>,
         NEW filled \in Seq(Octet), NEW end \in Nat, end <= Len(filled),
         end = Len(HeaderSerialize(hdr, n)) + Len(payload),
         Slice(filled, 0, end) = HeaderSerialize(hdr, n) \o payload
  PROVE  AppendedTo(filled, hdr, HeaderSerialize(hdr, n), payload, CrcAppend(filled, end))
<1> DEFINE head == HeaderSerialize(hdr, n)
           result == CrcAppend(filled, end)
           body == head \o payload
           pair == PairWith(CrcOf(body))
           got == HeaderDeserialize(Slice(filled, 0, end), LocalHeader)
           total == end + CFDP_PDU_CRC_LEN
           fails == \/ got.ret = 0
                    \/ got.pdu.crc_flag # PRESENT
                    \/ Len(filled) < total
                    \/ HeaderSize(got.pdu) + got.pdu.data_field_length # total
<1>1. /\ head \in Seq(Octet) /\ Len(head) = HeaderSize(hdr) /\ HeaderSize(hdr) \in Nat \ {0}
      /\ IdLenValid(hdr.entity_id_length) /\ IdLenValid(hdr.transaction_seq_length)
      /\ head # << >> /\ end = Len(head) + Len(payload) /\ Slice(filled, 0, end) = body
  BY HeaderSerializeType
<1>2. Len(payload) \in Nat /\ Len(filled) \in Nat
  BY LenProperties
<1>3. got.pdu = HeaderOnWire(hdr) /\ got.ret = HeaderSize(hdr)
  <2>1. HeaderSerialize(hdr, n) # << >> /\ payload \in Seq(Octet) /\ LocalHeader \in Header
    BY LocalHeaderType
  <2>2. LET head2 == HeaderDeserialize(HeaderSerialize(hdr, n) \o payload, LocalHeader)
        IN head2.ret = HeaderSize(hdr) /\ head2.pdu = HeaderOnWire(hdr)
    BY ONLY hdr \in Header, n \in Nat, <2>1, HeaderRoundTrip
  <2> QED BY <1>1, <2>2
<1>4. /\ got.pdu.crc_flag = hdr.crc_flag
      /\ got.pdu.data_field_length = hdr.data_field_length
      /\ got.pdu.entity_id_length = hdr.entity_id_length
      /\ got.pdu.transaction_seq_length = hdr.transaction_seq_length
  BY <1>3 DEF HeaderOnWire, Header
<1>5. HeaderSize(got.pdu) = HeaderSize(hdr)
  BY <1>4 DEF HeaderSize
<1>6. result = IF fails THEN [ret |-> 0, buf |-> filled]
               ELSE [ret |-> total, buf |-> Overlay(filled, end, PairWith(CrcOf(Slice(filled, 0, end))))]
  BY DEF CrcAppend
<1> HIDE DEF got, head
<1>7. CASE fails
  <2>1. result.ret = 0 /\ result.buf = filled
    BY <1>6, <1>7
  <2> HIDE DEF result
  <2> QED BY <1>2, <2>1 DEF result, AppendedTo
<1>8. CASE ~ fails
  <2>1. result.ret = total /\ result.buf = Overlay(filled, end, pair)
    <3> DEFINE slice == Slice(filled, 0, end)
               other == Overlay(filled, end, PairWith(CrcOf(slice)))
    <3>1. result = [ret |-> total, buf |-> other]
      BY <1>6, <1>8
    <3>2. result.ret = total /\ result.buf = other
      <4> HIDE DEF result, total, other
      <4> QED BY <3>1
    <3>3. slice = body
      BY <1>1
    <3> HIDE DEF result, slice, body
    <3> QED BY <3>2, <3>3
  <2>2. pair \in Seq(Octet) /\ Len(pair) = 2
    BY PairWithType
  <2>3. total = end + 2 /\ total <= Len(filled) /\ total \in Nat
    BY <1>2, <1>8 DEF CFDP_PDU_CRC_LEN
  <2>4. hdr.crc_flag = PRESENT /\ HeaderSize(hdr) + hdr.data_field_length = total
    BY <1>4, <1>5, <1>8
  <2>5. hdr.data_field_length = Len(payload) + 2
    <3>1. hdr.data_field_length \in Nat
      <4>1. UINT16_MAX \in Nat
        BY DEF UINT16_MAX
      <4> QED BY <4>1 DEF Header, UInt16
    <3> DEFINE length == hdr.data_field_length
               start == HeaderSize(hdr)
               size == Len(payload)
    <3>2. /\ length \in Nat /\ start \in Nat /\ size \in Nat
          /\ start + length = (start + size) + 2
      BY <1>1, <1>2, <2>3, <2>4, <3>1
    <3> HIDE DEF length, start, size
    <3>3. length = size + 2
      BY <3>2
    <3> QED BY <3>3 DEF length, size
  <2> HIDE DEF pair, result, total
  <2>6. end + Len(pair) <= Len(filled)
    BY <2>2, <2>3
  <2>7. /\ Overlay(filled, end, pair) \in Seq(Octet)
        /\ Len(Overlay(filled, end, pair)) = Len(filled)
    BY ONLY filled \in Seq(Octet), end \in Nat, <2>2, <2>6, OverlayType
  <2>8. Slice(Overlay(filled, end, pair), 0, end + Len(pair)) = Slice(filled, 0, end) \o pair
    BY ONLY filled \in Seq(Octet), end \in Nat, <2>2, <2>6, OverlayFront
  <2>9. Slice(result.buf, 0, result.ret) = body \o pair
    BY <1>1, <2>1, <2>2, <2>3, <2>8
  <2>10. result.ret \in 0 .. Len(filled)
    BY <1>2, <2>1, <2>3
  <2>11. result.buf \in Seq(Octet) /\ Len(result.buf) = Len(filled)
    BY <2>1, <2>7
  <2> QED BY <2>4, <2>5, <2>9, <2>10, <2>11 DEF pair, result, head, AppendedTo
<1> QED BY <1>7, <1>8
(* What emit_pdu leaves in the output buffer, whether it fails or not, and *)
(* the frame that it completed if it did.                                  *)
PduEmitted(sized, head, payload, buf, result) ==
  /\ result.buf \in Seq(Octet) /\ Len(result.buf) = Len(buf)
  /\ result.ret \in 0 .. Len(buf)
  /\ result.ret # 0 =>
       /\ head # << >> /\ sized.crc_flag = PRESENT
       /\ sized.data_field_length = Len(payload) + 2
       /\ Slice(result.buf, 0, result.ret)
            = (head \o payload) \o PairWith(CrcOf(head \o payload))

LEMMA EmitPduResult ==
  ASSUME NEW hdr \in Header, NEW payload \in Seq(Octet), NEW buf \in Seq(Octet),
         NEW counted \in Nat
  PROVE  PduEmitted(Sized(hdr, payload, counted),
                    HeaderSerialize(Sized(hdr, payload, counted), Len(buf)),
                    payload, buf, EmitPdu(hdr, payload, buf, counted))
<1> DEFINE sized == Sized(hdr, payload, counted)
           head == HeaderSerialize(sized, Len(buf))
           start == HeaderSize(hdr)
           one == Overlay(buf, 0, head)
           filled == Overlay(one, start, payload)
           end == start + Len(payload)
           appended == CrcAppend(filled, end)
           result == EmitPdu(hdr, payload, buf, counted)
<1>1. Len(buf) \in Nat /\ Len(payload) \in Nat
  BY LenProperties
<1>2. sized \in Header /\ HeaderSize(sized) = start
  BY SizedType
<1> HIDE DEF sized
<1>3. head \in Seq(Octet) /\ (head # << >> => Len(head) = start /\ start \in Nat \ {0} /\ start <= Len(buf))
  BY <1>1, <1>2, HeaderSerializeType
<1>4. result = IF head = << >>
               THEN [ret |-> 0, buf |-> buf]
               ELSE IF Len(buf) < end
               THEN [ret |-> 0, buf |-> one]
               ELSE appended
  BY DEF EmitPdu, sized
<1>5. CASE head = << >>
  <2>1. result = [ret |-> 0, buf |-> buf]
    BY <1>4, <1>5
  <2> HIDE DEF result
  <2>2. result.ret = 0 /\ result.buf = buf
    BY <2>1
  <2> QED BY <1>1, <2>2 DEF result, PduEmitted
<1>6. CASE head # << >> /\ Len(buf) < end
  <2>1. result = [ret |-> 0, buf |-> one]
    BY <1>4, <1>6
  <2>2. 0 \in Nat /\ 0 + Len(head) <= Len(buf)
    BY <1>1, <1>3, <1>6
  <2>3. one \in Seq(Octet) /\ Len(one) = Len(buf)
    BY ONLY buf \in Seq(Octet), <1>3, <2>2, OverlayType
  <2> HIDE DEF result, one
  <2>4. result.ret = 0 /\ result.buf = one
    BY <2>1
  <2> QED BY <1>1, <2>3, <2>4 DEF result, PduEmitted
<1>7. CASE head # << >> /\ ~(Len(buf) < end)
  <2>1. result = appended
    BY <1>4, <1>7
  <2>2. /\ Len(head) = start /\ start \in Nat \ {0} /\ end = Len(head) + Len(payload)
        /\ end \in Nat /\ Len(head) + Len(payload) <= Len(buf)
    BY <1>1, <1>3, <1>7
  <2> HIDE DEF end
  <2>3. LET over == Overlay(Overlay(buf, 0, head), Len(head), payload)
        IN /\ over \in Seq(Octet) /\ Len(over) = Len(buf)
           /\ Slice(over, 0, Len(head) + Len(payload)) = head \o payload
    BY <1>3, <2>2, Filled
  <2>4. filled \in Seq(Octet) /\ Len(filled) = Len(buf) /\ Slice(filled, 0, end) = head \o payload
    BY <2>2, <2>3
  <2> HIDE DEF filled, result, appended
  <2>5. end <= Len(filled)
    BY <2>2, <2>4
  <2>6. LET outcomeOf == CrcAppend(filled, end)
        IN /\ outcomeOf.buf \in Seq(Octet) /\ Len(outcomeOf.buf) = Len(filled)
           /\ outcomeOf.ret \in 0 .. Len(filled)
           /\ outcomeOf.ret # 0 =>
                /\ sized.crc_flag = PRESENT
                /\ sized.data_field_length = Len(payload) + 2
                /\ Slice(outcomeOf.buf, 0, outcomeOf.ret)
                     = (head \o payload) \o PairWith(CrcOf(head \o payload))
    <3> DEFINE m == Len(buf)
    <3>1. m \in Nat /\ HeaderSerialize(sized, m) # << >> /\ head = HeaderSerialize(sized, m)
      BY <1>1, <1>7
    <3>2. sized \in Header /\ payload \in Seq(Octet) /\ filled \in Seq(Octet) /\ end \in Nat
      BY <1>2, <2>2, <2>4
    <3>3. end = Len(head) + Len(payload) /\ Slice(filled, 0, end) = head \o payload
      BY <2>2, <2>4
    <3> HIDE DEF m, head
    <3>4. /\ end = Len(HeaderSerialize(sized, m)) + Len(payload)
          /\ Slice(filled, 0, end) = HeaderSerialize(sized, m) \o payload
      BY <3>1, <3>3
    <3>5. AppendedTo(filled, sized, HeaderSerialize(sized, m), payload, CrcAppend(filled, end))
      BY ONLY <2>5, <3>1, <3>2, <3>4, Appended
    <3>6. AppendedTo(filled, sized, head, payload, CrcAppend(filled, end))
      BY <3>1, <3>5
    <3> HIDE DEF m
    <3> DEFINE done == CrcAppend(filled, end)
    <3>7. AppendedTo(filled, sized, head, payload, done)
      BY <3>6
    <3> HIDE DEF done
    <3> QED BY <3>7 DEF AppendedTo, done
  <2>7. /\ appended.buf \in Seq(Octet) /\ Len(appended.buf) = Len(buf)
        /\ appended.ret \in 0 .. Len(buf)
        /\ appended.ret # 0 =>
             /\ sized.crc_flag = PRESENT
             /\ sized.data_field_length = Len(payload) + 2
             /\ Slice(appended.buf, 0, appended.ret)
                  = (head \o payload) \o PairWith(CrcOf(head \o payload))
    BY <2>4, <2>6 DEF appended
  <2>8. result.ret = appended.ret /\ result.buf = appended.buf
    BY <2>1
  <2> QED BY <1>7, <2>7, <2>8 DEF result, sized, PduEmitted
<1> QED BY <1>5, <1>6, <1>7

(* The same without a CRC, where the payload was encoded in the room that  *)
(* there is behind the header.                                             *)
PlainPduEmitted(head, payload, buf, result) ==
  /\ result.buf \in Seq(Octet) /\ Len(result.buf) = Len(buf)
  /\ result.ret \in 0 .. Len(buf)
  /\ head # << >> => Slice(result.buf, 0, result.ret) = head \o payload

LEMMA EmitPlainPduResult ==
  ASSUME NEW hdr \in Header, NEW payload \in Seq(Octet), NEW buf \in Seq(Octet),
         HeaderSize(hdr) \in Nat, HeaderSize(hdr) + Len(payload) <= Len(buf)
  PROVE  PlainPduEmitted(HeaderSerialize(Sized(hdr, payload, 0), Len(buf)),
                         payload, buf, EmitPlainPdu(hdr, payload, buf))
<1> DEFINE sized == Sized(hdr, payload, 0)
           head == HeaderSerialize(sized, Len(buf))
           start == HeaderSize(hdr)
           one == Overlay(buf, 0, head)
           filled == Overlay(one, start, payload)
           end == start + Len(payload)
           result == EmitPlainPdu(hdr, payload, buf)
<1>1. Len(buf) \in Nat /\ Len(payload) \in Nat /\ start \in Nat /\ end <= Len(buf)
  BY LenProperties
<1>2. sized \in Header /\ HeaderSize(sized) = start
  BY SizedType
<1> HIDE DEF sized
<1>3. head \in Seq(Octet) /\ (head # << >> => Len(head) = start)
  BY <1>1, <1>2, HeaderSerializeType
<1>4. result = [ret |-> end, buf |-> filled]
  BY DEF EmitPlainPdu, sized
<1>5. one \in Seq(Octet) /\ Len(one) = Len(buf)
  <2>1. 0 \in Nat /\ 0 + Len(head) <= Len(buf)
    <3>1. Len(head) = 0 \/ Len(head) = start
      BY <1>3
    <3> HIDE DEF head, start
    <3> QED BY <1>1, <3>1
  <2> HIDE DEF head
  <2> QED BY ONLY buf \in Seq(Octet), <1>3, <2>1, OverlayType
<1>6. filled \in Seq(Octet) /\ Len(filled) = Len(buf)
  <2> HIDE DEF one, start
  <2> QED BY <1>1, <1>5, OverlayType
<1>7. result.ret = end /\ result.buf = filled /\ end \in 0 .. Len(buf)
  <2>1. end \in 0 .. Len(buf)
    <3> HIDE DEF start
    <3> QED BY <1>1
  <2> HIDE DEF end, filled, result
  <2> QED BY <1>4, <2>1
<1>8. ASSUME head # << >> PROVE Slice(filled, 0, end) = head \o payload
  <2>1. Len(head) = start /\ Len(head) + Len(payload) <= Len(buf)
    BY <1>1, <1>3, <1>8
  <2> HIDE DEF head
  <2>2. LET over == Overlay(Overlay(buf, 0, head), Len(head), payload)
        IN Slice(over, 0, Len(head) + Len(payload)) = head \o payload
    BY <1>3, <2>1, Filled
  <2> QED BY <2>1, <2>2
<1> HIDE DEF result, filled, end
<1> QED BY <1>6, <1>7, <1>8 DEF sized, result, PlainPduEmitted

-----------------------------------------------------------------------------
(* What the receiver makes of it                                           *)

(* What a caller may ask for has a data field, encoded or not.             *)
LEMMA RequestType ==
  ASSUME NEW req \in Requests
  PROVE  /\ req.hdr \in Header /\ req.fd \in FileData /\ req.directive \in Seq(Octet)
         /\ PointsTo(req.fd.segment_metadata, req.fd.segment_metadata_len)
         /\ PointsTo(req.fd.file_data, req.fd.file_data_len)
         /\ req.hdr.pdu_type \in {DIRECTIVE, FILE_DATA}
         /\ req.hdr.large_file_flag \in {0, 1}
         /\ req.hdr.segment_metadata_flag \in {ABSENT, PRESENT}
         /\ HeaderSize(req.hdr) \in Nat /\ HeaderSize(req.hdr) <= Capacity
<1>1. /\ req.hdr \in Header /\ req.fd \in FileData /\ req.directive \in Seq(Octet)
      /\ PointsTo(req.fd.segment_metadata, req.fd.segment_metadata_len)
      /\ PointsTo(req.fd.file_data, req.fd.file_data_len)
      /\ HeaderSize(req.hdr) <= Capacity
  BY RequestsAssumption
<1>2. /\ req.hdr.pdu_type \in {DIRECTIVE, FILE_DATA}
      /\ req.hdr.large_file_flag \in {0, 1}
      /\ req.hdr.segment_metadata_flag \in {ABSENT, PRESENT}
  BY <1>1 DEF Header
<1>3. HeaderSize(req.hdr) \in Nat
  <2> DEFINE hdr == req.hdr
             m == hdr.entity_id_length
             n == hdr.transaction_seq_length
  <2>1. m \in Nat /\ n \in Nat
    BY <1>1, OctetIsNat DEF Header
  <2>2. HeaderSize(hdr) = IF IdLenValid(m) /\ IdLenValid(n) THEN 4 + 2 * m + n ELSE 0
    BY DEF HeaderSize, CFDP_PDU_HEADER_FIXED_LEN
  <2> HIDE DEF m, n, hdr
  <2> QED BY <2>1, <2>2 DEF hdr
<1> QED BY <1>1, <1>2, <1>3

(* The room behind the header, and that of the array for the payload.      *)
LEMMA RoomType ==
  ASSUME NEW req \in Requests, NEW room \in Rooms(req)
  PROVE  room \in Nat
<1>1. /\ Capacity \in Nat /\ PayloadCap \in Nat
      /\ HeaderSize(req.hdr) \in Nat /\ HeaderSize(req.hdr) <= Capacity
  BY RequestType, FramePathAssumption DEF FramePathAssumption
<1> QED BY <1>1 DEF Rooms

(* A data field is octets, encoded or not, and no more than there is room  *)
(* for.                                                                    *)
LEMMA PayloadType ==
  ASSUME NEW req \in Requests, NEW room \in Nat
  PROVE  PayloadOf(req, room) \in Seq(Octet) /\ Len(PayloadOf(req, room)) <= room
<1> DEFINE fd == req.fd
           large == req.hdr.large_file_flag
           flag == req.hdr.segment_metadata_flag
           file == FileDataSerialize(fd, large, flag, room)
           directive == req.directive
<1>1. /\ fd \in FileData /\ large \in {0, 1} /\ flag \in {ABSENT, PRESENT}
      /\ PointsTo(fd.segment_metadata, fd.segment_metadata_len)
      /\ PointsTo(fd.file_data, fd.file_data_len) /\ directive \in Seq(Octet)
  BY RequestType
<1>2. PayloadOf(req, room) = IF req.hdr.pdu_type = FILE_DATA THEN file
                             ELSE IF Len(directive) <= room THEN directive ELSE << >>
  BY DEF PayloadOf
<1>3. << >> \in Seq(Octet) /\ Len(<< >>) = 0 /\ 0 <= room
  OBVIOUS
<1> HIDE DEF fd, large, flag, directive
<1>4. file \in Seq(Octet)
  BY ONLY <1>1, room \in Nat, FileDataSerializeType
<1>5. Len(file) <= room
  <2>1. CASE file = << >>
    BY <1>3, <2>1
  <2>2. CASE file # << >>
    <3> DEFINE lead == LeadOf(fd, flag)
               metadata == MetadataOf(fd, flag)
               offset == OffsetOf(fd, large)
               data == DataOf(fd)
               a == fd.segment_metadata_len
               b == FileSizeOctets(large)
               c == fd.file_data_len
    <3>1. /\ lead \in Seq(Octet) /\ Len(lead) = IF flag = PRESENT THEN 1 ELSE 0
          /\ metadata \in Seq(Octet) /\ Len(metadata) = a
          /\ offset \in Seq(Octet) /\ Len(offset) = b
          /\ data \in Seq(Octet) /\ Len(data) = c
          /\ flag # PRESENT => a = 0
          /\ file = lead \o metadata \o offset \o data
      BY ONLY <1>1, room \in Nat, <2>2, FileDataParts, ZenonT(60)
    <3>2. ~(room < (IF flag = PRESENT THEN a + 1 ELSE 0) + b + c)
      BY <2>2 DEF FileDataSerialize
    <3> HIDE DEF lead, metadata, offset, data, file, a, b, c
    <3>3. Len(file) = Len(lead) + Len(metadata) + Len(offset) + Len(data)
      <4> DEFINE one == lead \o metadata
                 two == one \o offset
      <4>1. one \in Seq(Octet) /\ Len(one) = Len(lead) + Len(metadata)
        BY ONLY <3>1, ConcatProperties
      <4>2. file = two \o data
        BY <3>1
      <4> HIDE DEF one
      <4>3. two \in Seq(Octet) /\ Len(two) = Len(one) + Len(offset)
        BY ONLY <3>1, <4>1, ConcatProperties
      <4> HIDE DEF two
      <4>4. Len(two \o data) = Len(two) + Len(data)
        BY ONLY <3>1, <4>3, ConcatProperties
      <4> QED BY ONLY <4>1, <4>2, <4>3, <4>4
    <3>4. a \in Nat /\ b \in Nat /\ c \in Nat
      BY ONLY <3>1, LenProperties
    <3> QED BY ONLY <3>1, <3>2, <3>3, <3>4, room \in Nat
  <2> QED BY <2>1, <2>2
<1> HIDE DEF file
<1> QED BY <1>1, <1>2, <1>3, <1>4, <1>5

(* The CRC octets that are counted are a number.                           *)
LEMMA CountedType ==
  ASSUME NEW counted \in Counted \cup {0}
  PROVE  counted \in Nat
<1>1. CFDP_PDU_CRC_LEN \in Nat
  BY DEF CFDP_PDU_CRC_LEN
<1> QED BY <1>1, FramePathAssumption DEF FramePathAssumption

(* The receiver's steps, run on a frame and whatever follows it in the     *)
(* window.                                                                 *)
FrameRead(req, payload, counted, octets, window) ==
  LET got == HeaderDeserialize(window, LocalHeader)
  IN /\ octets \in Seq(Octet)
     /\ got.ret # 0
     /\ got.pdu = HeaderOnWire(Sized(req.hdr, payload, counted))
     /\ got.ret + got.pdu.data_field_length = Len(octets)
     /\ CrcVerify(window)
     /\ Slice(window, got.ret, got.ret + PayloadSize(got.pdu)) = payload

LEMMA FrameIsRead ==
  ASSUME NEW req \in Requests, NEW payload \in Seq(Octet),
         NEW counted \in Counted \cup {0}, NEW octets,
         FrameOf(req, payload, counted, octets), NEW rest \in Seq(Octet)
  PROVE  FrameRead(req, payload, counted, octets, octets \o rest)
<1> DEFINE hdr == Sized(req.hdr, payload, counted)
           head == HeaderSerialize(hdr, Capacity)
           crc == CrcOctets(hdr, head \o payload)
           window == octets \o rest
           got == HeaderDeserialize(window, LocalHeader)
<1>1. payload \in Seq(Octet) /\ req.hdr \in Header /\ counted \in Nat /\ Capacity \in Nat
  BY RequestType, CountedType, FramePathAssumption DEF FramePathAssumption
<1>2. hdr \in Header
  BY <1>1, SizedType
<1>3. /\ head # << >> /\ hdr.data_field_length = Len(payload) + Len(crc)
      /\ octets = head \o payload \o crc
  BY DEF FrameOf, CrcOctets
<1>4. head \in Seq(Octet) /\ crc \in Seq(Octet)
  BY <1>1, <1>2, HeaderSerializeType, CrcOctetsType
<1> HIDE DEF hdr
<1>5. head = HeaderSerialize(hdr, Capacity) /\ crc = CrcOctets(hdr, head \o payload)
  OBVIOUS
<1> HIDE DEF head, crc
<1>6. octets \in Seq(Octet)
  BY <1>1, <1>3, <1>4
<1>7. window = (head \o payload \o crc) \o rest
  BY <1>3
<1> HIDE DEF window
<1>8. PduRead(hdr, head, payload, rest, window)
  BY ONLY <1>1, <1>2, <1>3, <1>5, <1>7, rest \in Seq(Octet), PduRoundTrip
<1> HIDE DEF got
<1>9. /\ got.ret # 0 /\ got.pdu = HeaderOnWire(hdr)
      /\ got.ret + got.pdu.data_field_length + Len(rest) = Len(window)
      /\ CrcVerify(window)
      /\ Slice(window, got.ret, got.ret + PayloadSize(got.pdu)) = payload
  BY <1>8 DEF got, PduRead
<1>10. got.ret + got.pdu.data_field_length = Len(octets)
  <2>1. Len(window) = Len(octets) + Len(rest)
    BY <1>6 DEF window
  <2>2. Len(octets) \in Nat /\ Len(rest) \in Nat
    BY <1>6, LenProperties
  <2>3. got.ret \in Nat /\ got.pdu.data_field_length \in Nat
    <3>1. window \in Seq(Octet) /\ got.ret # 0
      BY <1>8, <1>9 DEF PduRead
    <3> QED BY <3>1, HeaderDecoded DEF got
  <2> DEFINE a == got.ret
             b == got.pdu.data_field_length
             c == Len(rest)
             d == Len(octets)
  <2>4. a \in Nat /\ b \in Nat /\ c \in Nat /\ d \in Nat /\ a + b + c = d + c
    BY <1>9, <2>1, <2>2, <2>3
  <2> HIDE DEF a, b, c, d
  <2>5. a + b = d
    BY ONLY <2>4
  <2> QED BY <2>5 DEF a, b, d
<1> QED BY <1>6, <1>9, <1>10 DEF FrameRead, got, window, hdr

(* The data field of a File Data PDU, read with the flags of the header.   *)
LEMMA FileDataIsRead ==
  ASSUME NEW req \in Requests, NEW room \in Nat, req.hdr.pdu_type = FILE_DATA,
         PayloadOf(req, room) # << >>
  PROVE  LET file == FileDataDeserialize(PayloadOf(req, room), req.hdr.large_file_flag,
                                         req.hdr.segment_metadata_flag, NoFileData)
         IN /\ file.ret # 0
            /\ file.pdu = FileDataOnWire(req.fd, req.hdr.large_file_flag,
                                         req.hdr.segment_metadata_flag)
<1> DEFINE fd == req.fd
           large == req.hdr.large_file_flag
           flag == req.hdr.segment_metadata_flag
           octets == FileDataSerialize(fd, large, flag, room)
<1>1. /\ fd \in FileData /\ large \in {0, 1} /\ flag \in {ABSENT, PRESENT}
      /\ PointsTo(fd.segment_metadata, fd.segment_metadata_len)
      /\ PointsTo(fd.file_data, fd.file_data_len)
  BY RequestType
<1>2. room \in Nat /\ NoFileData \in FileData
  BY NoFileDataType
<1>3. PayloadOf(req, room) = octets
  BY DEF PayloadOf
<1> HIDE DEF fd, large, flag
<1>4. octets # << >>
  BY <1>3
<1>5. LET file == FileDataDeserialize(FileDataSerialize(fd, large, flag, room), large, flag, NoFileData)
      IN file.ret # 0 /\ file.pdu = FileDataOnWire(fd, large, flag)
  BY ONLY <1>1, <1>2, <1>4, FileDataRoundTrip
<1> QED BY <1>3, <1>5 DEF fd, large, flag

(* A completed frame is decoded as what it carries.                        *)
LEMMA FrameIsParsed ==
  ASSUME NEW req \in Requests, NEW room \in Nat, NEW counted \in Counted \cup {0},
         NEW octets, NEW window,
         FrameRead(req, PayloadOf(req, room), counted, octets, window),
         PayloadOf(req, room) # << >>
  PROVE  Parse(window) = <<Carried(req, PayloadOf(req, room), counted)>>
<1> DEFINE payload == PayloadOf(req, room)
           hdr == Sized(req.hdr, payload, counted)
           got == HeaderDeserialize(window, LocalHeader)
           large == got.pdu.large_file_flag
           flag == got.pdu.segment_metadata_flag
           file == FileDataDeserialize(payload, large, flag, NoFileData)
<1>1. payload \in Seq(Octet) /\ payload # << >> /\ req.hdr \in Header /\ counted \in Nat
  BY RequestType, PayloadType, CountedType
<1>2. hdr \in Header /\ hdr = [req.hdr EXCEPT !.data_field_length = hdr.data_field_length]
  <2>1. hdr \in Header
    BY <1>1, SizedType
  <2> QED BY <1>1, <2>1 DEF Sized, Header
<1>3. /\ got.pdu = HeaderOnWire(hdr) /\ CrcVerify(window)
      /\ Slice(window, got.ret, got.ret + PayloadSize(got.pdu)) = payload
  BY DEF FrameRead
<1> HIDE DEF hdr, got, payload
<1>4. /\ hdr.pdu_type = req.hdr.pdu_type /\ hdr.large_file_flag = req.hdr.large_file_flag
      /\ hdr.segment_metadata_flag = req.hdr.segment_metadata_flag
  BY <1>1, <1>2 DEF Header
<1>5. /\ got.pdu.pdu_type = hdr.pdu_type /\ large = hdr.large_file_flag
      /\ flag = SegmentFlag(hdr, hdr.segment_metadata_flag)
  BY <1>2, <1>3 DEF HeaderOnWire, Header
<1>6. Parse(window) =
        IF got.pdu.pdu_type = FILE_DATA
        THEN IF file.ret = 0 THEN << >>
             ELSE <<[hdr |-> got.pdu, fd |-> file.pdu, directive |-> << >>]>>
        ELSE IF HasDirectiveCode(payload)
        THEN <<[hdr |-> got.pdu, fd |-> NoFileData, directive |-> payload]>>
        ELSE << >>
  BY <1>3 DEF Parse, got
<1>7. Carried(req, payload, counted) =
        [hdr |-> HeaderOnWire(hdr),
         fd |-> IF hdr.pdu_type = FILE_DATA
                THEN FileDataOnWire(req.fd, hdr.large_file_flag, hdr.segment_metadata_flag)
                ELSE NoFileData,
         directive |-> IF hdr.pdu_type = FILE_DATA THEN << >> ELSE req.directive]
  BY DEF Carried, hdr
<1>8. CASE req.hdr.pdu_type = FILE_DATA
  <2>1. flag = req.hdr.segment_metadata_flag /\ large = req.hdr.large_file_flag
    BY <1>4, <1>5, <1>8 DEF SegmentFlag
  <2>2. file.ret # 0 /\ file.pdu = FileDataOnWire(req.fd, large, flag)
    BY <1>1, <1>8, <2>1, FileDataIsRead DEF payload
  <2> HIDE DEF file, large, flag
  <2>3. Parse(window) = <<[hdr |-> got.pdu, fd |-> file.pdu, directive |-> << >>]>>
    BY <1>4, <1>5, <1>6, <1>8, <2>2
  <2>4. Carried(req, payload, counted)
          = [hdr |-> got.pdu, fd |-> file.pdu, directive |-> << >>]
    BY <1>3, <1>4, <1>7, <1>8, <2>1, <2>2
  <2> QED BY <2>3, <2>4 DEF payload
<1>9. CASE req.hdr.pdu_type # FILE_DATA
  <2>1. payload = req.directive
    BY <1>1, <1>9 DEF payload, PayloadOf
  <2>2. HasDirectiveCode(payload)
    BY <1>1, EmptySeq, LenProperties DEF HasDirectiveCode
  <2>3. Parse(window) = <<[hdr |-> got.pdu, fd |-> NoFileData, directive |-> payload]>>
    BY <1>4, <1>5, <1>6, <1>9, <2>2
  <2>4. Carried(req, payload, counted)
          = [hdr |-> got.pdu, fd |-> NoFileData, directive |-> payload]
    BY <1>3, <1>4, <1>7, <1>9, <2>1
  <2> QED BY <2>3, <2>4 DEF payload
<1> QED BY <1>8, <1>9

(* The types of the constants, in one place.                               *)
LEMMA ConstantsType ==
  /\ Counted \subseteq Nat /\ Capacity \in Nat /\ PayloadCap \in Nat
  /\ Noise \subseteq Octet /\ Strays \subseteq Octet
  /\ MaxEmits \in Nat /\ MaxFaults \in Nat /\ MaxArrivals \in Nat
<1>1. CFDP_PDU_CRC_LEN \in Nat
  BY DEF CFDP_PDU_CRC_LEN
<1> QED BY <1>1, FramePathAssumption DEF FramePathAssumption

(* The smaller of two lengths.                                             *)
LEMMA MinOfTwo ==
  ASSUME NEW a \in Nat, NEW b \in Nat
  PROVE  /\ Min({a, b}) \in Nat /\ Min({a, b}) <= a /\ Min({a, b}) <= b
<1>1. \E x \in {a, b} : \A y \in {a, b} : x =< y
  OBVIOUS
<1>2. Min({a, b}) \in {a, b} /\ \A y \in {a, b} : Min({a, b}) =< y
  <2> HIDE <1>1
  <2> QED BY <1>1 DEF Min
<1> QED BY <1>2

(* Nothing is verified, nor decoded, of no octets.                         *)
LEMMA NothingParsed == Parse(<< >>) = << >>
<1>1. Len(<< >>) = 0
  OBVIOUS
<1>2. Len(<< >>) < CFDP_PDU_HEADER_FIXED_LEN
  BY <1>1 DEF CFDP_PDU_HEADER_FIXED_LEN
<1>3. HeaderDeserialize(<< >>, LocalHeader).ret = 0
  BY <1>2 DEF HeaderDeserialize
<1>4. ~ CrcVerify(<< >>)
  BY <1>3 DEF CrcVerify
<1> QED BY <1>4 DEF Parse

(* The buffers before anything is written in them.                         *)
LEMMA InitialBuffer == Zeros(Capacity) \in Seq(Octet) /\ Len(Zeros(Capacity)) = Capacity
<1>1. Capacity \in Nat /\ 0 \in Octet
  BY ConstantsType DEF Octet
<1>2. Zeros(Capacity) \in [1 .. Capacity -> Octet]
  BY <1>1 DEF Zeros
<1> DEFINE zeros == Zeros(Capacity)
<1>3. zeros \in [1 .. Capacity -> Octet]
  BY <1>2
<1> HIDE DEF zeros
<1>4. zeros \in Seq(Octet) /\ Len(zeros) = Capacity
  BY <1>1, <1>3
<1> QED BY <1>4 DEF zeros

(* The invariant holds at first.                                           *)
LEMMA Initially == Init => IInv
<1> SUFFICES ASSUME Init PROVE IInv
  OBVIOUS
<1>1. /\ txBuf = Zeros(Capacity) /\ rxBuf = Zeros(Capacity) /\ txTotal = 0
      /\ emits = 0 /\ emitted = {} /\ wire = {} /\ faults = 0 /\ rxLen = 0 /\ arrivals = 0
      /\ outcome.window = << >> /\ outcome.got = << >>
  BY DEF Init, NoOutcome
<1>2. TypeOK
  BY <1>1, InitialBuffer, ConstantsType DEF TypeOK
<1>3. outcome.window \in Seq(Octet) /\ outcome.got = Parse(outcome.window)
  BY <1>1, NothingParsed
<1> QED BY <1>1, <1>2, <1>3 DEF IInv

(* emit_pdu completes a frame or none.                                     *)
LEMMA EmitCompletes ==
  ASSUME NEW req \in Requests, NEW counted \in Counted, NEW buf \in Seq(Octet),
         Len(buf) = Capacity,
         NEW payload, payload = PayloadOf(req, PayloadCap),
         NEW result, result = EmitPdu(req.hdr, payload, buf, counted),
         NEW frame,
         frame = [octets |-> Slice(result.buf, 0, result.ret),
                  encoded |-> payload # << >>, req |-> req,
                  pdu |-> Carried(req, payload, counted)]
  PROVE  /\ result.buf \in Seq(Octet) /\ Len(result.buf) = Capacity
         /\ result.ret \in 0 .. Capacity
         /\ result.ret # 0 => Completed(frame)
<1> DEFINE hdr == Sized(req.hdr, payload, counted)
           head == HeaderSerialize(hdr, Capacity)
<1>1. payload \in Seq(Octet) /\ req.hdr \in Header /\ counted \in Nat
  BY RequestType, PayloadType, ConstantsType
<1>2. PduEmitted(hdr, head, payload, buf, result)
  <2>1. PduEmitted(Sized(req.hdr, payload, counted),
                   HeaderSerialize(Sized(req.hdr, payload, counted), Len(buf)),
                   payload, buf, EmitPdu(req.hdr, payload, buf, counted))
    BY ONLY <1>1, buf \in Seq(Octet), EmitPduResult
  <2> QED BY <2>1
<1>3. ASSUME result.ret # 0 PROVE Completed(frame)
  <2>1. /\ head # << >> /\ hdr.crc_flag = PRESENT
        /\ hdr.data_field_length = Len(payload) + 2
        /\ Slice(result.buf, 0, result.ret) = (head \o payload) \o PairWith(CrcOf(head \o payload))
    BY <1>2, <1>3 DEF PduEmitted
  <2> DEFINE pair == PairWith(CrcOf(head \o payload))
  <2>2. Len(pair) = 2
    BY PairWithType
  <2>3. FrameOf(req, payload, counted, Slice(result.buf, 0, result.ret))
    BY <2>1, <2>2 DEF FrameOf
  <2>4. /\ frame.req = req /\ frame.encoded = (payload # << >>)
        /\ frame.octets = Slice(result.buf, 0, result.ret)
        /\ frame.pdu = Carried(req, payload, counted)
    OBVIOUS
  <2>5. PayloadCap \in Rooms(req) /\ counted \in Counted \cup {0}
    BY DEF Rooms
  <2> HIDE DEF hdr, head
  <2> QED BY <2>3, <2>4, <2>5, Zenon DEF Completed
<1> QED BY <1>2, <1>3 DEF PduEmitted

(* Without a CRC, as long as the length field can tell the payload.        *)
LEMMA EmitPlainCompletes ==
  ASSUME NEW req \in Requests, NEW buf \in Seq(Octet), Len(buf) = Capacity,
         NEW payload, payload = PayloadOf(req, Capacity - HeaderSize(req.hdr)),
         req.hdr.crc_flag = ABSENT, Len(payload) < LengthModulus,
         NEW result, result = EmitPlainPdu(req.hdr, payload, buf),
         NEW frame,
         frame = [octets |-> Slice(result.buf, 0, result.ret),
                  encoded |-> payload # << >>, req |-> req,
                  pdu |-> Carried(req, payload, 0)]
  PROVE  /\ result.buf \in Seq(Octet) /\ Len(result.buf) = Capacity
         /\ result.ret \in 0 .. Capacity
         /\ HeaderSerialize(Sized(req.hdr, payload, 0), Capacity) # << >> => Completed(frame)
<1> DEFINE hdr == Sized(req.hdr, payload, 0)
           head == HeaderSerialize(hdr, Capacity)
           room == Capacity - HeaderSize(req.hdr)
<1>1. /\ req.hdr \in Header /\ HeaderSize(req.hdr) \in Nat /\ Capacity \in Nat
      /\ room \in Rooms(req)
  BY RequestType, ConstantsType DEF Rooms
<1>2. payload \in Seq(Octet) /\ HeaderSize(req.hdr) + Len(payload) <= Len(buf)
  <2>1. room \in Nat
    BY <1>1, RoomType
  <2>2. payload \in Seq(Octet) /\ Len(payload) <= room
    <3> HIDE DEF room
    <3>1. PayloadOf(req, room) \in Seq(Octet) /\ Len(PayloadOf(req, room)) <= room
      BY <2>1, PayloadType
    <3> QED BY <3>1 DEF room
  <2>3. Len(payload) \in Nat
    BY <2>2, LenProperties
  <2> QED BY <1>1, <2>2, <2>3
<1>4. PlainPduEmitted(head, payload, buf, result)
  <2>1. PlainPduEmitted(HeaderSerialize(Sized(req.hdr, payload, 0), Len(buf)),
                        payload, buf, EmitPlainPdu(req.hdr, payload, buf))
    BY ONLY <1>1, <1>2, buf \in Seq(Octet), EmitPlainPduResult
  <2> QED BY <2>1
<1>5. ASSUME head # << >> PROVE Completed(frame)
  <2>1. /\ head # << >> /\ Slice(result.buf, 0, result.ret) = head \o payload
    BY <1>4, <1>5 DEF PlainPduEmitted
  <2>2. hdr.crc_flag = ABSENT /\ hdr.data_field_length = Len(payload)
    <3> DEFINE size == Len(payload)
    <3>1. hdr.crc_flag = req.hdr.crc_flag /\ hdr.data_field_length = (size + 0) % LengthModulus
      <4>1. 0 \in Nat
        OBVIOUS
      <4> QED BY ONLY <1>1, <1>2, <4>1, SizedType DEF size
    <3>2. size \in Nat /\ size < LengthModulus /\ LengthModulus \in Nat
      BY <1>2, LenProperties, FramePathAssumption DEF FramePathAssumption
    <3> HIDE DEF size
    <3>3. (size + 0) % LengthModulus = size
      BY ONLY <3>2
    <3> QED BY <3>1, <3>3 DEF size
  <2>3. head \in Seq(Octet)
    <3>1. hdr \in Header /\ Capacity \in Nat
      BY <1>1, <1>2, SizedType
    <3> HIDE DEF hdr
    <3> QED BY <3>1, HeaderSerializeType
  <2>4. FrameOf(req, payload, 0, Slice(result.buf, 0, result.ret))
    <3>1. (head \o payload) \o << >> = head \o payload
      <4> HIDE DEF head
      <4> QED BY <1>2, <2>3
    <3>2. hdr.crc_flag # PRESENT
      BY <2>2 DEF PRESENT, ABSENT
    <3>3. Len(<< >>) = 0 /\ Len(payload) \in Nat
      BY <1>2, LenProperties
    <3>4. hdr.data_field_length = Len(payload) + Len(<< >>)
      BY <2>2, <3>3
    <3> QED BY <2>1, <3>1, <3>2, <3>4 DEF FrameOf
  <2>5. /\ frame.req = req /\ frame.encoded = (payload # << >>)
        /\ frame.octets = Slice(result.buf, 0, result.ret)
        /\ frame.pdu = Carried(req, payload, 0)
    OBVIOUS
  <2>6. 0 \in Counted \cup {0} /\ payload = PayloadOf(req, room)
    OBVIOUS
  <2> HIDE DEF hdr, head, room
  <2> QED BY <1>1, <2>4, <2>5, <2>6, Zenon DEF Completed
<1> QED BY <1>4, <1>5 DEF PlainPduEmitted

(* A window that begins with a frame is that frame and something else.     *)
LEMMA PrefixRest ==
  ASSUME NEW octets \in Seq(Octet), NEW window \in Seq(Octet), IsPrefix(octets, window)
  PROVE  \E rest \in Seq(Octet) : window = octets \o rest
<1> DEFINE n == Len(octets)
           len == Len(window)
           rest == Slice(window, n, len)
<1>1. n \in Nat /\ len \in Nat /\ n <= len /\ SubSeq(octets, 1, n) = SubSeq(window, 1, n)
  BY LenProperties DEF IsPrefix
<1> HIDE DEF n
<1>2. rest \in Seq(Octet) /\ Len(rest) = len - n
  <2>1. len <= Len(window)
    BY <1>1
  <2> HIDE DEF len
  <2> QED BY ONLY window \in Seq(Octet), <1>1, <2>1, SliceType
<1>3. \A i \in 1 .. n : octets[i] = window[i]
  <2>1. /\ \A i \in 1 .. n : octets[i] \in Octet
        /\ \A i \in 1 .. n : window[i] \in Octet
    BY <1>1, ElementOfSeq DEF n
  <2>2. \A i \in 1 .. n - 1 + 1 : SubSeq(octets, 1, n)[i] = octets[1 + i - 1]
    <3>1. 1 \in Int /\ n \in Int
      BY <1>1
    <3> QED BY <2>1, <3>1, SubSeqProperties
  <2>3. \A i \in 1 .. n - 1 + 1 : SubSeq(window, 1, n)[i] = window[1 + i - 1]
    <3>1. 1 \in Int /\ n \in Int
      BY <1>1
    <3> QED BY <2>1, <3>1, SubSeqProperties
  <2>4. \A i \in 1 .. n : i \in 1 .. n - 1 + 1 /\ 1 + i - 1 = i
    BY <1>1
  <2> QED BY <1>1, <2>2, <2>3, <2>4
<1>4. \A i \in n + 1 .. len : rest[i - n] = window[i]
  <2>1. ASSUME NEW i \in n + 1 .. len PROVE rest[i - n] = window[i]
    <3>1. i - n - 1 \in Nat /\ i - n - 1 < len - n /\ n + (i - n - 1) + 1 = i /\ (i - n - 1) + 1 = i - n
      BY <1>1
    <3>2. At(rest, i - n - 1) = At(window, n + (i - n - 1))
      <4>1. len <= Len(window)
        BY <1>1
      <4> HIDE DEF len
      <4> QED BY ONLY window \in Seq(Octet), <1>1, <3>1, <4>1, SliceAt
    <3> HIDE DEF rest
    <3> QED BY <3>1, <3>2 DEF At
  <2> QED BY <2>1
<1> HIDE DEF rest, len
<1>5. n + Len(rest) = len
  BY <1>1, <1>2
<1>6. \A i \in 1 .. len : window[i] = IF i <= n THEN octets[i] ELSE rest[i - n]
  <2>1. \A i \in 1 .. len : IF i <= n THEN i \in 1 .. n ELSE i \in n + 1 .. len
    BY <1>1
  <2> QED BY <1>3, <1>4, <2>1
<1>7. octets \o rest = window
  <2>1. Len(octets) + Len(rest) = Len(window)
    BY <1>5 DEF n, len
  <2>2. \A i \in 1 .. Len(window) : window[i] = IF i <= Len(octets) THEN octets[i] ELSE rest[i - Len(octets)]
    BY <1>6 DEF n, len
  <2>3. octets \in Seq(Octet) /\ rest \in Seq(Octet) /\ window \in Seq(Octet)
    BY <1>2
  <2> QED BY ONLY <2>1, <2>2, <2>3, ConcatIs
<1> QED BY <1>2, <1>7

(* Every variable keeps its type, whatever the link does to its frames.    *)
LEMMA TypePreserved ==
  ASSUME TypeOK, [Next]_vars
  PROVE  TypeOK'
<1>1. /\ txBuf \in Seq(Octet) /\ Len(txBuf) = Capacity
      /\ txTotal \in 0 .. Capacity
      /\ emits \in 0 .. MaxEmits
      /\ \A frame \in wire : frame.octets \in Seq(Octet)
      /\ rxBuf \in Seq(Octet) /\ Len(rxBuf) = Capacity
      /\ faults \in 0 .. MaxFaults
      /\ rxLen \in 0 .. Capacity
      /\ arrivals \in 0 .. MaxArrivals
  BY DEF TypeOK
<1>2. /\ Capacity \in Nat /\ MaxEmits \in Nat /\ MaxFaults \in Nat /\ MaxArrivals \in Nat
      /\ Noise \subseteq Octet /\ Strays \subseteq Octet /\ BurstOctets = 2
  BY ConstantsType DEF BurstOctets, CFDP_PDU_CRC_LEN
<1>3. ASSUME NEW req \in Requests, NEW counted \in Counted, Emit(req, counted)
      PROVE  TypeOK'
  <2> DEFINE payload == PayloadOf(req, PayloadCap)
             result == EmitPdu(req.hdr, payload, txBuf, counted)
  <2>1. /\ emits < MaxEmits /\ emits' = emits + 1 /\ txBuf' = result.buf /\ txTotal' = result.ret
        /\ wire' = wire /\ faults' = faults /\ rxBuf' = rxBuf /\ rxLen' = rxLen
        /\ arrivals' = arrivals
    BY <1>3 DEF Emit, linkVars, rxVars
  <2>2. /\ result.buf \in Seq(Octet) /\ Len(result.buf) = Capacity
        /\ result.ret \in 0 .. Capacity
    BY <1>1, EmitCompletes
  <2> HIDE DEF result
  <2> QED BY <1>1, <1>2, <2>1, <2>2 DEF TypeOK
<1>4. ASSUME NEW req \in Requests, EmitPlain(req)
      PROVE  TypeOK'
  <2> DEFINE payload == PayloadOf(req, Capacity - HeaderSize(req.hdr))
             result == EmitPlainPdu(req.hdr, payload, txBuf)
  <2>1. /\ req.hdr.crc_flag = ABSENT /\ Len(payload) < LengthModulus
        /\ emits < MaxEmits /\ emits' = emits + 1 /\ txBuf' = result.buf /\ txTotal' = result.ret
        /\ wire' = wire /\ faults' = faults /\ rxBuf' = rxBuf /\ rxLen' = rxLen
        /\ arrivals' = arrivals
    BY <1>4 DEF EmitPlain, linkVars, rxVars
  <2>2. /\ result.buf \in Seq(Octet) /\ Len(result.buf) = Capacity
        /\ result.ret \in 0 .. Capacity
    BY <1>1, <2>1, EmitPlainCompletes
  <2> HIDE DEF result
  <2> QED BY <1>1, <1>2, <2>1, <2>2 DEF TypeOK
<1>5. CASE Transmit
  <2>1. txTotal \in Nat /\ 0 <= txTotal /\ txTotal <= Len(txBuf) /\ 0 \in Nat
    BY <1>1, <1>2
  <2>2. Slice(txBuf, 0, txTotal) \in Seq(Octet)
    BY <1>1, <2>1, SliceType
  <2>3. \A frame \in wire' : frame.octets \in Seq(Octet)
    BY <1>1, <1>5, <2>2 DEF Transmit
  <2>4. UNCHANGED <<txBuf, txTotal, emits, rxBuf, faults, rxLen, arrivals>>
    BY <1>5 DEF Transmit, txVars, rxVars
  <2> QED BY <1>1, <2>3, <2>4 DEF TypeOK
<1>6. CASE TransmitWholeBuffer
  <2>1. \A frame \in wire' : frame.octets \in Seq(Octet)
    BY <1>1, <1>6 DEF TransmitWholeBuffer
  <2>2. UNCHANGED <<txBuf, txTotal, emits, rxBuf, faults, rxLen, arrivals>>
    BY <1>6 DEF TransmitWholeBuffer, txVars, rxVars
  <2> QED BY <1>1, <2>1, <2>2 DEF TypeOK
<1>7. ASSUME NEW frame \in wire, Lose(frame)
      PROVE  TypeOK'
  <2>1. UNCHANGED <<txBuf, txTotal, emits, rxBuf, faults, rxLen, arrivals>>
    BY <1>7 DEF Lose, txVars, rxVars
  <2> QED BY <1>1, <1>7, <2>1 DEF TypeOK, Lose
<1>8. ASSUME NEW frame \in wire, NEW from \in 0 .. Len(frame.octets) - BurstOctets,
             NEW noise \in [1 .. BurstOctets -> Noise], Damage(frame, from, noise)
      PROVE  TypeOK'
  <2> DEFINE octets == frame.octets
  <2>1. octets \in Seq(Octet) /\ Len(octets) \in Nat
    BY <1>1, LenProperties
  <2>2. noise \in Seq(Octet) /\ Len(noise) = 2
    <3>1. noise \in [1 .. 2 -> Octet]
      BY <1>2
    <3> QED BY ONLY <3>1, 2 \in Nat, FunctionIsSeq
  <2>3. from \in Nat /\ from + Len(noise) <= Len(octets)
    <3> HIDE DEF octets
    <3> QED BY <1>2, <2>1, <2>2 DEF octets
  <2>4. Overlay(octets, from, noise) \in Seq(Octet)
    <3> HIDE DEF octets
    <3> QED BY <2>1, <2>2, <2>3, OverlayType
  <2>5. /\ faults < MaxFaults /\ faults' = faults + 1
        /\ wire' = (wire \ {frame}) \cup
                     {[octets |-> Overlay(octets, from, noise), fault |-> "damaged"]}
    BY <1>8 DEF Damage, Faultable
  <2> HIDE DEF octets
  <2>6. \A other \in wire' : other.octets \in Seq(Octet)
    BY <1>1, <2>4, <2>5
  <2>7. UNCHANGED <<txBuf, txTotal, emits, rxBuf, rxLen, arrivals>>
    BY <1>8 DEF Damage, txVars, rxVars
  <2> QED BY <1>1, <1>2, <2>5, <2>6, <2>7 DEF TypeOK
<1>9. ASSUME NEW frame \in wire, NEW at \in 0 .. Len(frame.octets) - 1, NEW octet \in Strays,
             Stray(frame, at, octet)
      PROVE  TypeOK'
  <2> DEFINE octets == frame.octets
             one == <<octet>>
  <2>1. octets \in Seq(Octet) /\ Len(octets) \in Nat
    BY <1>1, LenProperties
  <2>2. one \in Seq(Octet) /\ Len(one) = 1
    BY <1>2
  <2>3. at \in Nat /\ at + Len(one) <= Len(octets)
    <3> HIDE DEF octets, one
    <3> QED BY <2>1, <2>2 DEF octets
  <2>4. Overlay(octets, at, one) \in Seq(Octet)
    <3> HIDE DEF octets, one
    <3> QED BY <2>1, <2>2, <2>3, OverlayType
  <2>5. /\ faults < MaxFaults /\ faults' = faults + 1
        /\ wire' = (wire \ {frame}) \cup
                     {[octets |-> Overlay(octets, at, one), fault |-> "stray"]}
    BY <1>9 DEF Stray, Faultable
  <2> HIDE DEF octets, one
  <2>6. \A other \in wire' : other.octets \in Seq(Octet)
    BY <1>1, <2>4, <2>5
  <2>7. UNCHANGED <<txBuf, txTotal, emits, rxBuf, rxLen, arrivals>>
    BY <1>9 DEF Stray, txVars, rxVars
  <2> QED BY <1>1, <1>2, <2>5, <2>6, <2>7 DEF TypeOK
<1>10. ASSUME NEW frame \in wire, NEW filler \in Noise, Pad(frame, filler)
       PROVE  TypeOK'
  <2> DEFINE octets == frame.octets
             one == <<filler>>
  <2>1. octets \in Seq(Octet) /\ one \in Seq(Octet)
    BY <1>1, <1>2
  <2>2. /\ faults < MaxFaults /\ faults' = faults + 1
        /\ wire' = (wire \ {frame}) \cup {[octets |-> octets \o one, fault |-> "padded"]}
    BY <1>10 DEF Pad, Faultable
  <2>3. octets \o one \in Seq(Octet)
    <3> HIDE DEF octets, one
    <3> QED BY <2>1
  <2>4. \A other \in wire' : other.octets \in Seq(Octet)
    <3> DEFINE padded == octets \o one
    <3>1. /\ padded \in Seq(Octet)
          /\ wire' = (wire \ {frame}) \cup {[octets |-> padded, fault |-> "padded"]}
      BY <2>2, <2>3
    <3> HIDE DEF padded
    <3> QED BY <1>1, <3>1
  <2>5. UNCHANGED <<txBuf, txTotal, emits, rxBuf, rxLen, arrivals>>
    BY <1>10 DEF Pad, txVars, rxVars
  <2> QED BY <1>1, <1>2, <2>2, <2>4, <2>5, SMTT(40) DEF TypeOK
<1>11. ASSUME NEW frame \in wire, NEW count \in 1 .. Len(frame.octets) - 1, Cut(frame, count)
       PROVE  TypeOK'
  <2> DEFINE octets == frame.octets
             end == Len(octets) - count
             cut == Slice(octets, 0, end)
             fault == IF count > BurstOctets /\ HasCrc(octets) THEN "cut short" ELSE "cut"
  <2>1. octets \in Seq(Octet) /\ Len(octets) \in Nat
    BY <1>1, LenProperties
  <2>2. end \in Nat /\ 0 <= end /\ end <= Len(octets) /\ 0 \in Nat
    <3> DEFINE n == Len(octets)
    <3>1. n \in Nat /\ count \in 1 .. n - 1
      BY <2>1
    <3> HIDE DEF n
    <3> QED BY <3>1 DEF n
  <2>3. /\ faults < MaxFaults /\ faults' = faults + 1
        /\ wire' = (wire \ {frame}) \cup {[octets |-> cut, fault |-> fault]}
    BY <1>11 DEF Cut, Faultable
  <2>4. cut \in Seq(Octet)
    <3> HIDE DEF octets, end
    <3> QED BY <2>1, <2>2, SliceType
  <2> HIDE DEF octets, end, cut, fault
  <2>5. \A other \in wire' : other.octets \in Seq(Octet)
    BY <1>1, <2>3, <2>4
  <2>6. UNCHANGED <<txBuf, txTotal, emits, rxBuf, rxLen, arrivals>>
    BY <1>11 DEF Cut, txVars, rxVars
  <2> QED BY <1>1, <1>2, <2>3, <2>5, <2>6 DEF TypeOK
<1>12. ASSUME NEW frame \in wire, NEW whole \in BOOLEAN, NEW again \in BOOLEAN,
              Arrive(frame, whole, again)
       PROVE  TypeOK'
  <2> DEFINE octets == frame.octets
             taken == Min({Len(octets), Capacity})
             front == Slice(octets, 0, taken)
  <2>1. octets \in Seq(Octet) /\ Len(octets) \in Nat
    BY <1>1, LenProperties
  <2>2. taken \in Nat /\ taken <= Len(octets) /\ taken <= Capacity
    BY <1>2, <2>1, MinOfTwo
  <2>3. /\ arrivals < MaxArrivals /\ arrivals' = arrivals + 1
        /\ rxBuf' = Overlay(rxBuf, 0, front)
        /\ rxLen' = IF whole THEN Capacity ELSE taken
        /\ wire' \subseteq wire
    BY <1>12 DEF Arrive
  <2> HIDE DEF octets, taken
  <2>4. front \in Seq(Octet) /\ Len(front) = taken
    <3>1. 0 <= taken /\ 0 \in Nat /\ taken - 0 = taken
      BY <2>2
    <3>2. front \in Seq(Octet) /\ Len(front) = taken - 0
      BY <2>1, <2>2, <3>1, SliceType
    <3> QED BY <3>1, <3>2
  <2> HIDE DEF front
  <2>5. rxBuf' \in Seq(Octet) /\ Len(rxBuf') = Capacity
    <3>1. 0 \in Nat /\ 0 + Len(front) <= Len(rxBuf)
      BY <1>1, <1>2, <2>2, <2>4
    <3> QED BY <1>1, <2>3, <2>4, <3>1, OverlayType
  <2>6. rxLen' \in 0 .. Capacity
    BY <1>2, <2>2, <2>3
  <2>7. \A other \in wire' : other.octets \in Seq(Octet)
    BY <1>1, <2>3
  <2>8. UNCHANGED <<txBuf, txTotal, emits, faults>>
    BY <1>12 DEF Arrive, txVars
  <2> QED BY <1>1, <1>2, <2>3, <2>5, <2>6, <2>7, <2>8 DEF TypeOK
<1>13. CASE Receive
  <2>1. rxLen' = 0 /\ UNCHANGED <<txBuf, txTotal, emits, wire, faults, rxBuf, arrivals>>
    BY <1>13 DEF Receive, txVars, linkVars
  <2> QED BY <1>1, <1>2, <2>1 DEF TypeOK
<1>14. CASE UNCHANGED vars
  BY <1>1, <1>14 DEF TypeOK, vars, txVars, rxVars, linkVars
<1> QED BY <1>3, <1>4, <1>5, <1>6, <1>7, <1>8, <1>9, <1>10, <1>11, <1>12, <1>13, <1>14 DEF Next

(* The history of completed frames grows by completed frames.              *)
LEMMA CompletedPreserved ==
  ASSUME TypeOK, \A frame \in emitted : Completed(frame), [Next]_vars
  PROVE  \A frame \in emitted' : Completed(frame)
<1>1. txBuf \in Seq(Octet) /\ Len(txBuf) = Capacity
  BY DEF TypeOK
<1>2. ASSUME NEW req \in Requests, NEW counted \in Counted, Emit(req, counted)
      PROVE  \A frame \in emitted' : Completed(frame)
  <2> DEFINE payload == PayloadOf(req, PayloadCap)
             result == EmitPdu(req.hdr, payload, txBuf, counted)
             new == [octets |-> Slice(result.buf, 0, result.ret),
                     encoded |-> payload # << >>, req |-> req,
                     pdu |-> Carried(req, payload, counted)]
  <2>1. result.ret # 0 => Completed(new)
    BY <1>1, EmitCompletes
  <2>2. emitted' = IF result.ret = 0 THEN emitted ELSE emitted \cup {new}
    BY <1>2 DEF Emit
  <2> HIDE DEF result, new
  <2> QED BY <2>1, <2>2
<1>3. ASSUME NEW req \in Requests, EmitPlain(req)
      PROVE  \A frame \in emitted' : Completed(frame)
  <2> DEFINE payload == PayloadOf(req, Capacity - HeaderSize(req.hdr))
             result == EmitPlainPdu(req.hdr, payload, txBuf)
             head == HeaderSerialize(Sized(req.hdr, payload, 0), Capacity)
             new == [octets |-> Slice(result.buf, 0, result.ret),
                     encoded |-> payload # << >>, req |-> req,
                     pdu |-> Carried(req, payload, 0)]
  <2>1. /\ req.hdr.crc_flag = ABSENT /\ Len(payload) < LengthModulus
        /\ emitted' = IF head = << >> THEN emitted ELSE emitted \cup {new}
    BY <1>3 DEF EmitPlain
  <2>2. head # << >> => Completed(new)
    BY <1>1, <2>1, EmitPlainCompletes
  <2> HIDE DEF head, new
  <2> QED BY <2>1, <2>2
<1>4. CASE \/ Transmit \/ TransmitWholeBuffer \/ Receive \/ UNCHANGED vars
           \/ \E frame \in wire :
                \/ Lose(frame)
                \/ \E from \in 0 .. Len(frame.octets) - BurstOctets :
                     \E noise \in [1 .. BurstOctets -> Noise] : Damage(frame, from, noise)
                \/ \E at \in 0 .. Len(frame.octets) - 1, octet \in Strays : Stray(frame, at, octet)
                \/ \E filler \in Noise : Pad(frame, filler)
                \/ \E count \in 1 .. Len(frame.octets) - 1 : Cut(frame, count)
                \/ \E whole, again \in BOOLEAN : Arrive(frame, whole, again)
  <2>1. emitted' = emitted
    BY <1>4 DEF Transmit, TransmitWholeBuffer, Receive, vars, txVars, Lose, Damage, Stray,
                Pad, Cut, Arrive
  <2> QED BY <2>1
<1> QED BY <1>2, <1>3, <1>4 DEF Next

(* What came of the last frame is what the README's steps make of it.      *)
LEMMA OutcomePreserved ==
  ASSUME TypeOK, outcome.window \in Seq(Octet), outcome.got = Parse(outcome.window), [Next]_vars
  PROVE  outcome'.window \in Seq(Octet) /\ outcome'.got = Parse(outcome'.window)
<1>1. CASE Receive
  <2> DEFINE window == Slice(rxBuf, 0, rxLen)
  <2>1. outcome' = [window |-> window, got |-> Parse(window)]
    BY <1>1 DEF Receive
  <2>2. window \in Seq(Octet)
    <3>1. /\ rxBuf \in Seq(Octet) /\ Len(rxBuf) = Capacity /\ rxLen \in 0 .. Capacity
          /\ Capacity \in Nat
      BY ConstantsType DEF TypeOK
    <3>2. rxLen \in Nat /\ 0 \in Nat /\ 0 <= rxLen /\ rxLen <= Len(rxBuf)
      BY <3>1
    <3> QED BY <3>1, <3>2, SliceType
  <2> HIDE DEF window
  <2> QED BY <2>1, <2>2
<1>2. ASSUME NEW frame \in wire, NEW whole \in BOOLEAN, NEW again \in BOOLEAN,
             Arrive(frame, whole, again)
      PROVE  outcome'.window \in Seq(Octet) /\ outcome'.got = Parse(outcome'.window)
  <2>1. outcome'.window = << >> /\ outcome'.got = << >>
    BY <1>2 DEF Arrive, NoOutcome
  <2> QED BY <2>1, NothingParsed
<1>3. CASE \/ \E req \in Requests, counted \in Counted : Emit(req, counted)
           \/ \E req \in Requests : EmitPlain(req)
           \/ Transmit \/ TransmitWholeBuffer \/ UNCHANGED vars
           \/ \E frame \in wire :
                \/ Lose(frame)
                \/ \E from \in 0 .. Len(frame.octets) - BurstOctets :
                     \E noise \in [1 .. BurstOctets -> Noise] : Damage(frame, from, noise)
                \/ \E at \in 0 .. Len(frame.octets) - 1, octet \in Strays : Stray(frame, at, octet)
                \/ \E filler \in Noise : Pad(frame, filler)
                \/ \E count \in 1 .. Len(frame.octets) - 1 : Cut(frame, count)
  <2>1. outcome' = outcome
    BY <1>3 DEF Emit, EmitPlain, Transmit, TransmitWholeBuffer, vars, rxVars, Lose, Damage,
                Stray, Pad, Cut
  <2> QED BY <2>1
<1> QED BY <1>1, <1>2, <1>3 DEF Next

(* The types, the completed frames and the last outcome, in every state    *)
(* that the path can reach.                                                *)
THEOREM Invariance == Spec => []IInv
<1>1. Init => IInv
  BY Initially
<1>2. IInv /\ [Next]_vars => IInv'
  <2> SUFFICES ASSUME IInv, [Next]_vars PROVE IInv'
    OBVIOUS
  <2>1. TypeOK'
    BY TypePreserved DEF IInv
  <2>2. \A frame \in emitted' : Completed(frame)
    BY CompletedPreserved DEF IInv
  <2>3. outcome'.window \in Seq(Octet) /\ outcome'.got = Parse(outcome'.window)
    BY OutcomePreserved DEF IInv
  <2> QED BY <2>1, <2>2, <2>3 DEF IInv
<1> QED BY <1>1, <1>2, PTL DEF Spec

(* No buffer, length or counter ever leaves its range.                     *)
THEOREM TypesHold == Spec => []TypeOK
<1>1. IInv => TypeOK
  BY DEF IInv
<1> QED BY <1>1, Invariance, PTL

(* The header of a completed frame describes exactly that frame.           *)
THEOREM FramesDescribeThemselves == Spec => []SelfDescribing
<1>1. ASSUME NEW frame, Completed(frame)
      PROVE  LET head == HeaderDeserialize(frame.octets, LocalHeader)
             IN head.ret # 0 /\ head.ret + head.pdu.data_field_length = Len(frame.octets)
  <2> DEFINE none == << >>
             octets == frame.octets
             req == frame.req
  <2>1. PICK room \in Rooms(req), counted \in Counted \cup {0} :
          FrameOf(req, PayloadOf(req, room), counted, octets)
    BY <1>1 DEF Completed
  <2>2. req \in Requests /\ none \in Seq(Octet)
    BY <1>1 DEF Completed
  <2> DEFINE payload == PayloadOf(req, room)
  <2>3. FrameRead(req, payload, counted, octets, octets \o none)
    <3> HIDE DEF req
    <3>1. payload \in Seq(Octet) /\ FrameOf(req, payload, counted, octets)
      BY <2>1, <2>2, RoomType, PayloadType
    <3> HIDE DEF payload, octets, none
    <3> QED BY ONLY <2>2, <3>1, counted \in Counted \cup {0}, FrameIsRead
  <2>4. octets \o none = octets
    <3>1. octets \in Seq(Octet)
      BY <2>3 DEF FrameRead
    <3> HIDE DEF octets
    <3> QED BY <3>1
  <2> QED BY <2>3, <2>4 DEF FrameRead
<1>2. IInv => SelfDescribing
  BY <1>1 DEF IInv, SelfDescribing
<1> QED BY <1>2, Invariance, PTL

(* A window that begins with a completed frame is decoded as the PDU that  *)
(* the frame carries, whatever stands behind it.                           *)
THEOREM IntactFramesAreDelivered == Spec => []IntactDelivered
<1>1. ASSUME NEW frame, Completed(frame), frame.encoded, NEW window \in Seq(Octet),
             IsPrefix(frame.octets, window)
      PROVE  Parse(window) = <<frame.pdu>>
  <2> DEFINE none == << >>
             octets == frame.octets
             req == frame.req
  <2>1. PICK room \in Rooms(req), counted \in Counted \cup {0} :
          /\ frame.encoded = (PayloadOf(req, room) # << >>)
          /\ FrameOf(req, PayloadOf(req, room), counted, octets)
          /\ frame.pdu = Carried(req, PayloadOf(req, room), counted)
    BY <1>1 DEF Completed
  <2> DEFINE payload == PayloadOf(req, room)
  <2>2. req \in Requests /\ none \in Seq(Octet) /\ payload # << >>
    <3>1. payload # << >>
      BY <1>1, <2>1, Zenon
    <3>2. req \in Requests /\ none \in Seq(Octet)
      BY <1>1 DEF Completed
    <3> QED BY <3>1, <3>2
  <2> HIDE DEF req
  <2>7. room \in Nat /\ payload \in Seq(Octet) /\ FrameOf(req, payload, counted, octets)
    BY <2>1, <2>2, RoomType, PayloadType
  <2>3. octets \in Seq(Octet)
    <3> HIDE DEF octets, none, payload
    <3>1. FrameRead(req, payload, counted, octets, octets \o none)
      BY ONLY <2>2, <2>7, counted \in Counted \cup {0}, FrameIsRead
    <3> QED BY <3>1 DEF FrameRead
  <2>4. PICK rest \in Seq(Octet) : window = octets \o rest
    BY <1>1, <2>3, PrefixRest
  <2> HIDE DEF octets
  <2>5. FrameRead(req, payload, counted, octets, octets \o rest)
    <3> HIDE DEF payload
    <3> QED BY ONLY <2>2, <2>4, <2>7, counted \in Counted \cup {0}, FrameIsRead
  <2>6. Parse(octets \o rest) = <<Carried(req, payload, counted)>>
    BY ONLY <2>2, <2>5, <2>7, counted \in Counted \cup {0}, FrameIsParsed
  <2> QED BY <2>1, <2>4, <2>6
<1>2. IInv => IntactDelivered
  BY <1>1 DEF IInv, IntactDelivered
<1> QED BY <1>2, Invariance, PTL

(* What VerificationIsEnough says holds wherever the path can get.         *)
THEOREM VerifiedPayloadsFit == Spec => []VerifiedFits
<1>1. TypeOK => VerifiedFits
  BY VerificationIsEnough
<1> QED BY <1>1, TypesHold, PTL
=============================================================================
