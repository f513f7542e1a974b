----------------------- MODULE CfdpParameterWalkProofs -----------------------
(***************************************************************************)
(* TLAPS proofs about CfdpParameterWalk, for every chain of octets and any *)
(* number of walks: where the caller stands, what the decoders' structures *)
(* hold, and that what a decoder takes is a parameter of its kind, read    *)
(* from its own TLV to the last octet.  LVs that fill a value are told by  *)
(* Cut, the place that an LV leads to, in which the two directions of the  *)
(* codecs meet.                                                            *)
(***************************************************************************)
EXTENDS CfdpParameterWalk, CfdpLemmas

-----------------------------------------------------------------------------
(* What the decoders return and store.                                     *)

LEMMA LvAtType ==
  ASSUME NEW buf \in Seq(Octet), NEW p \in Nat, p <= Len(buf)
  PROVE  /\ LvAt(buf, p).ret \in Nat
         /\ p + LvAt(buf, p).ret <= Len(buf)
         /\ LvOf(LvAt(buf, p)) \in Lv
<1>1. Len(buf) \in Nat
  BY LenProperties
<1>2. Slice(buf, p, Len(buf)) \in Seq(Octet) /\ Len(Slice(buf, p, Len(buf))) = Len(buf) - p
  <2> DEFINE end == Len(buf)
  <2>1. end \in Nat /\ p <= end /\ end <= Len(buf)
    BY <1>1
  <2> HIDE DEF end
  <2>2. Slice(buf, p, end) \in Seq(Octet) /\ Len(Slice(buf, p, end)) = end - p
    BY <2>1, SliceType
  <2> QED BY <2>2 DEF end
<1>3. /\ LvAt(buf, p).ret \in Nat
      /\ LvAt(buf, p).ret <= Len(buf) - p
      /\ LvAt(buf, p).value \in Pointer
      /\ LvAt(buf, p).len \in Octet
  BY <1>2, LvDeserializeType DEF LvAt
<1> QED BY <1>1, <1>3 DEF LvOf, Lv

LEMMA NamesType ==
  ASSUME NEW buf \in Seq(Octet), NEW r
  PROVE  LET names == NamesDeserialize(buf, r)
         IN /\ names.ret \in Nat
            /\ names.ret <= Len(buf)
            /\ r \in Request => names.tlv \in Request
            /\ r \in Response => names.tlv \in Response
<1> DEFINE first == LvAt(buf, 0)
           second == LvAt(buf, first.ret)
           named == [r EXCEPT !.first_filename = LvOf(first)]
           both == [named EXCEPT !.second_filename = LvOf(second)]
<1>1. Len(buf) \in Nat
  BY LenProperties
<1>2. first.ret \in Nat /\ first.ret <= Len(buf) /\ LvOf(first) \in Lv
  BY <1>1, LvAtType
<1>3. second.ret \in Nat /\ first.ret + second.ret <= Len(buf) /\ LvOf(second) \in Lv
  BY <1>2, LvAtType
<1>4. NamesDeserialize(buf, r) \in
        {[ret |-> 0, tlv |-> r], [ret |-> first.ret, tlv |-> named],
         [ret |-> 0, tlv |-> named], [ret |-> first.ret + second.ret, tlv |-> both]}
  BY DEF NamesDeserialize
<1> HIDE DEF first, second
<1>5. r \in Request => named \in Request /\ both \in Request
  BY <1>2, <1>3 DEF Request
<1>6. r \in Response => named \in Response /\ both \in Response
  BY <1>2, <1>3 DEF Response
<1> HIDE DEF named, both
<1> QED BY <1>1, <1>2, <1>3, <1>4, <1>5, <1>6

(* A TLV in front of the caller, and the octets of its value.              *)
LEMMA ValueType ==
  ASSUME NEW buf \in Seq(Octet), TlvSize(buf) > 0
  PROVE  /\ At(buf, 0) \in Octet /\ At(buf, 1) \in Octet
         /\ TlvSize(buf) = At(buf, 1) + CFDP_TLV_HEADER_LEN
         /\ TlvSize(buf) <= Len(buf)
         /\ Slice(buf, CFDP_TLV_HEADER_LEN, TlvSize(buf)) \in Seq(Octet)
         /\ At(buf, 1) >= 1 =>
              /\ At(buf, 2) \in Octet
              /\ NamesOf(buf) \in Seq(Octet)
<1>1. Len(buf) \in Nat
  BY LenProperties
<1>2. /\ TlvSize(buf) \in Nat
      /\ TlvSize(buf) >= 2 /\ TlvSize(buf) <= Len(buf)
      /\ TlvSize(buf) = At(buf, 1) + 2
  BY TlvSizeBound DEF CFDP_TLV_HEADER_LEN
<1>3. At(buf, 0) \in Octet /\ At(buf, 1) \in Octet
  BY <1>1, <1>2, AtType
<1>4. At(buf, 1) \in Nat
  BY <1>3, OctetIsNat
<1>5. Slice(buf, 2, TlvSize(buf)) \in Seq(Octet)
  BY <1>1, <1>2, SliceType
<1>6. ASSUME At(buf, 1) >= 1
      PROVE  At(buf, 2) \in Octet /\ NamesOf(buf) \in Seq(Octet)
  <2>1. TlvSize(buf) >= 3
    BY <1>2, <1>4, <1>6
  <2>2. At(buf, 2) \in Octet
    BY <1>1, <1>2, <2>1, AtType
  <2>3. Slice(buf, 3, TlvSize(buf)) \in Seq(Octet)
    BY <1>1, <1>2, <2>1, SliceType
  <2> QED BY <2>2, <2>3 DEF NamesOf, CFDP_TLV_HEADER_LEN
<1> QED BY <1>2, <1>3, <1>5, <1>6 DEF CFDP_TLV_HEADER_LEN

LEMMA NoLvType ==
  NoLv \in Lv
BY DEF NoLv, Lv, Null, Pointer, Octet

LEMMA ActionType ==
  ASSUME NEW octet \in Octet
  PROVE  /\ octet \div 16 \in 0 .. 15 /\ octet % 16 \in 0 .. 15
         /\ ActionValid(octet \div 16) => octet \div 16 \in 0 .. CFDP_FS_ACTION_DENY_DIRECTORY
<1>1. octet \in 0 .. 255
  BY DEF Octet
<1>2. octet \div 16 \in 0 .. 15 /\ octet % 16 \in 0 .. 15
  BY <1>1
<1> QED BY <1>2 DEF ActionValid, CFDP_FS_ACTION_DENY_DIRECTORY

LEMMA RequestDeserializeType ==
  ASSUME NEW buf \in Seq(Octet), NEW req \in Request
  PROVE  /\ RequestDeserialize(buf, req).ret \in Nat
         /\ RequestDeserialize(buf, req).tlv \in Request
<1>1. TlvSize(buf) \in Nat
  BY TlvSizeBound
<1>2. CASE ~ IsFilestoreTlv(buf, CFDP_TLV_FILESTORE_REQUEST)
  BY <1>2 DEF RequestDeserialize
<1>3. CASE IsFilestoreTlv(buf, CFDP_TLV_FILESTORE_REQUEST)
  <2> DEFINE begun == [ClearRequest EXCEPT !.action_code = At(buf, 2) \div 16]
             names == NamesDeserialize(NamesOf(buf), begun)
  <2>1. TlvSize(buf) > 0 /\ At(buf, 1) >= 1 /\ ActionValid(At(buf, 2) \div 16)
    BY <1>3 DEF IsFilestoreTlv
  <2>2. At(buf, 2) \in Octet /\ NamesOf(buf) \in Seq(Octet)
    BY <2>1, ValueType
  <2>3. begun \in Request
    BY <2>1, <2>2, ActionType, NoLvType DEF ClearRequest, Request
  <2> HIDE DEF begun
  <2>4. names.tlv \in Request
    BY <2>2, <2>3, NamesType
  <2>5. RequestDeserialize(buf, req) =
          [ret |-> IF names.ret # 0 /\ names.ret + 1 = At(buf, 1) THEN TlvSize(buf) ELSE 0,
           tlv |-> names.tlv]
    BY <1>3 DEF RequestDeserialize, begun
  <2> HIDE DEF names
  <2> QED BY <1>1, <2>4, <2>5
<1> QED BY <1>2, <1>3

LEMMA ResponseDeserializeType ==
  ASSUME NEW buf \in Seq(Octet), NEW resp \in Response
  PROVE  /\ ResponseDeserialize(buf, resp).ret \in Nat
         /\ ResponseDeserialize(buf, resp).tlv \in Response
<1>1. TlvSize(buf) \in Nat
  BY TlvSizeBound
<1>2. CASE ~ IsFilestoreTlv(buf, CFDP_TLV_FILESTORE_RESPONSE)
  BY <1>2 DEF ResponseDeserialize
<1>3. CASE IsFilestoreTlv(buf, CFDP_TLV_FILESTORE_RESPONSE)
  <2> DEFINE begun == [ClearResponse EXCEPT !.action_code = At(buf, 2) \div 16,
                                            !.status_code = At(buf, 2) % 16]
             names == NamesDeserialize(NamesOf(buf), begun)
             message == LvAt(NamesOf(buf), names.ret)
             told == [names.tlv EXCEPT !.message = LvOf(message)]
  <2>1. TlvSize(buf) > 0 /\ At(buf, 1) >= 1 /\ ActionValid(At(buf, 2) \div 16)
    BY <1>3 DEF IsFilestoreTlv
  <2>2. At(buf, 2) \in Octet /\ NamesOf(buf) \in Seq(Octet)
    BY <2>1, ValueType
  <2>3. begun \in Response
    BY <2>1, <2>2, ActionType, NoLvType DEF ClearResponse, Response
  <2> HIDE DEF begun
  <2>4. names.tlv \in Response /\ names.ret \in Nat /\ names.ret <= Len(NamesOf(buf))
    BY <2>2, <2>3, NamesType
  <2>5. ResponseDeserialize(buf, resp).ret \in {0, TlvSize(buf)}
    BY <1>3 DEF ResponseDeserialize
  <2>6. ResponseDeserialize(buf, resp).tlv \in {names.tlv, told}
    BY <1>3 DEF ResponseDeserialize, begun
  <2> HIDE DEF names
  <2>7. LvOf(message) \in Lv
    BY <2>2, <2>4, LvAtType
  <2> HIDE DEF message
  <2>8. told \in Response
    BY <2>4, <2>7 DEF Response
  <2> HIDE DEF told
  <2> QED BY <1>1, <2>4, <2>5, <2>6, <2>8
<1> QED BY <1>2, <1>3

LEMMA OverrideDeserializeType ==
  ASSUME NEW buf \in Seq(Octet), NEW o \in Override
  PROVE  /\ OverrideDeserialize(buf, o).ret \in Nat
         /\ OverrideDeserialize(buf, o).tlv \in Override
<1> DEFINE condition == At(buf, 2) \div 16
           handler == At(buf, 2) % 16
<1>1. TlvSize(buf) \in Nat
  BY TlvSizeBound
<1>2. \/ OverrideDeserialize(buf, o) = [ret |-> 0, tlv |-> o]
      \/ /\ OverrideValid(condition, handler)
         /\ OverrideDeserialize(buf, o) =
              [ret |-> TlvSize(buf),
               tlv |-> [condition_code |-> condition, handler_code |-> handler]]
  BY DEF OverrideDeserialize
<1> HIDE DEF condition, handler
<1>3. OverrideValid(condition, handler) => condition \in 0 .. 11 /\ handler \in 0 .. 4
  BY DEF OverrideValid, CFDP_COND_POSITIVE_ACK_LIMIT_REACHED,
         CFDP_COND_UNSUPPORTED_CHECKSUM_TYPE
<1> QED BY <1>1, <1>2, <1>3 DEF Override

LEMMA TlvDeserializeType ==
  ASSUME NEW buf \in Seq(Octet), NEW tlv \in Tlv
  PROVE  /\ TlvDeserialize(buf, tlv).ret \in Nat
         /\ TlvDeserialize(buf, tlv).tlv \in Tlv
<1>1. TlvSize(buf) \in Nat
  BY TlvSizeBound
<1>2. CASE TlvSize(buf) = 0
  BY <1>2 DEF TlvDeserialize
<1>3. CASE TlvSize(buf) # 0
  <2> DEFINE value == Slice(buf, CFDP_TLV_HEADER_LEN, TlvSize(buf))
  <2>1. At(buf, 0) \in Octet /\ At(buf, 1) \in Octet /\ value \in Seq(Octet)
    BY <1>1, <1>3, ValueType
  <2>2. TlvDeserialize(buf, tlv) =
          [ret |-> TlvSize(buf),
           tlv |-> [type |-> At(buf, 0), length |-> At(buf, 1),
                    value |-> IF At(buf, 1) > 0 THEN PointerTo(value) ELSE Null]]
    BY <1>3 DEF TlvDeserialize
  <2> HIDE DEF value
  <2>3. PointerTo(value) \in Pointer /\ Null \in Pointer
    BY <2>1 DEF PointerTo, Null, Pointer
  <2> QED BY <1>1, <2>1, <2>2, <2>3 DEF Tlv
<1> QED BY <1>2, <1>3

LEMMA DecodeType ==
  ASSUME NEW buf \in Seq(Octet), NEW kind \in Kinds, NEW s \in Structures
  PROVE  /\ Decode(kind, buf, s[kind]).ret \in Nat
         /\ Decode(kind, buf, s[kind]).tlv \in Request \cup Response \cup Override \cup Tlv
         /\ [s EXCEPT ![kind] = Decode(kind, buf, s[kind]).tlv] \in Structures
<1>1. kind \in {"request", "response", "override", "other"}
  BY DEF Kinds, Clear
<1>2. /\ s.request \in Request /\ s.response \in Response
      /\ s.override \in Override /\ s.other \in Tlv
  BY DEF Structures
<1> DEFINE decoded == Decode(kind, buf, s[kind])
<1>3. CASE kind = "request"
  <2>1. decoded.ret \in Nat /\ decoded.tlv \in Request
    BY <1>2, <1>3, RequestDeserializeType DEF Decode
  <2> HIDE DEF decoded
  <2> QED BY <1>3, <2>1 DEF Structures, decoded
<1>4. CASE kind = "response"
  <2>1. decoded.ret \in Nat /\ decoded.tlv \in Response
    BY <1>2, <1>4, ResponseDeserializeType DEF Decode
  <2> HIDE DEF decoded
  <2> QED BY <1>4, <2>1 DEF Structures, decoded
<1>5. CASE kind = "override"
  <2>1. decoded.ret \in Nat /\ decoded.tlv \in Override
    BY <1>2, <1>5, OverrideDeserializeType DEF Decode
  <2> HIDE DEF decoded
  <2> QED BY <1>5, <2>1 DEF Structures, decoded
<1>6. CASE kind = "other"
  <2>1. decoded.ret \in Nat /\ decoded.tlv \in Tlv
    BY <1>2, <1>6, TlvDeserializeType DEF Decode
  <2> HIDE DEF decoded
  <2> QED BY <1>6, <2>1 DEF Structures, decoded
<1> QED BY <1>1, <1>3, <1>4, <1>5, <1>6

-----------------------------------------------------------------------------
(* The inductive invariant.                                                *)

Met ==
  [at : Nat, end : Nat, kind : Kinds, ret : Nat,
   tlv : Request \cup Response \cup Override \cup Tlv]

(* What is left of the chain, and its first TLV.                           *)
LEMMA NextParameter ==
  ASSUME IInv
  PROVE  /\ Rest \in Seq(Octet)
         /\ TlvSize(Rest) \in Nat
         /\ TlvSize(Rest) > 0 =>
              /\ pos + TlvSize(Rest) \in Nat
              /\ pos + TlvSize(Rest) <= Len(span)
              /\ pos + TlvSize(Rest) = pos + CFDP_TLV_HEADER_LEN + At(span, pos + 1)
<1>1. span \in Seq(Octet) /\ pos \in Nat /\ Len(span) \in Nat /\ pos <= Len(span)
  BY LenProperties DEF IInv, TypeOK, OnBoundary
<1>2. Rest \in Seq(Octet) /\ Len(Rest) = Len(span) - pos
  <2> DEFINE end == Len(span)
  <2>1. end \in Nat /\ pos <= end /\ end <= Len(span)
    BY <1>1
  <2> HIDE DEF end
  <2>2. Slice(span, pos, end) \in Seq(Octet) /\ Len(Slice(span, pos, end)) = end - pos
    BY <1>1, <2>1, SliceType
  <2> QED BY <2>2 DEF end, Rest
<1>3. TlvSize(Rest) \in Nat
  BY <1>2, TlvSizeBound
<1>4. ASSUME TlvSize(Rest) > 0
      PROVE  /\ pos + TlvSize(Rest) <= Len(span)
             /\ TlvSize(Rest) = CFDP_TLV_HEADER_LEN + At(span, pos + 1)
  <2>1. /\ TlvSize(Rest) >= CFDP_TLV_HEADER_LEN
        /\ TlvSize(Rest) <= Len(Rest)
        /\ TlvSize(Rest) = At(Rest, 1) + CFDP_TLV_HEADER_LEN
    BY <1>2, <1>3, <1>4, TlvSizeBound
  <2>2. Len(span) - pos >= 2
    BY <1>1, <1>2, <1>3, <2>1 DEF CFDP_TLV_HEADER_LEN
  <2>3. 1 \in 0 .. Len(span) - pos - 1 /\ pos < Len(span)
    BY <1>1, <2>2
  <2>4. At(Rest, 1) = At(span, pos + 1) /\ At(Rest, 1) \in Octet
    BY <1>1, <2>3, RestProperties DEF Rest
  <2>5. At(Rest, 1) \in Nat
    BY <2>4, OctetIsNat
  <2> QED BY <1>1, <1>2, <1>3, <2>1, <2>4, <2>5 DEF CFDP_TLV_HEADER_LEN
<1>5. pos + TlvSize(Rest) \in Nat
  BY <1>1, <1>3
<1>6. ASSUME TlvSize(Rest) > 0
      PROVE  pos + TlvSize(Rest) = pos + CFDP_TLV_HEADER_LEN + At(span, pos + 1)
  <2>1. At(span, pos + 1) \in Int
    <3>1. Len(span) - pos >= 2
      <4>1. TlvSize(Rest) >= 2 /\ TlvSize(Rest) <= Len(Rest)
        BY <1>2, <1>3, <1>6, TlvSizeBound DEF CFDP_TLV_HEADER_LEN
      <4> QED BY <1>1, <1>2, <1>3, <4>1
    <3>2. pos + 1 \in Nat /\ pos + 1 < Len(span)
      BY <1>1, <3>1
    <3>3. At(span, pos + 1) \in Octet
      BY <1>1, <3>2, AtType
    <3> QED BY <3>3 DEF Octet
  <2> QED BY <1>1, <1>4, <1>6, <2>1 DEF CFDP_TLV_HEADER_LEN
<1> QED BY <1>2, <1>3, <1>4, <1>5, <1>6

LEMMA InitInvariant ==
  Init => IInv
<1> SUFFICES ASSUME Init PROVE IInv
  OBVIOUS
<1>1. Null \in Pointer /\ 0 \in Octet
  BY DEF Null, Pointer, Octet
<1>2. /\ ClearRequest \in Request /\ ClearResponse \in Response
      /\ ClearOverride \in Override /\ ClearTlv \in Tlv
  BY <1>1, NoLvType DEF ClearRequest, Request, ClearResponse, Response,
     ClearOverride, Override, ClearTlv, Tlv, CFDP_FS_ACTION_DENY_DIRECTORY
<1>3. Clear \in Structures
  BY <1>2 DEF Clear, Structures
<1> QED BY <1>3, SpansAssumption DEF Init, IInv, TypeOK, OnBoundary

LEMMA BeginInvariant ==
  ASSUME IInv, NEW s \in Spans, Begin(s)
  PROVE  IInv'
<1>1. s \in Seq(Octet) /\ Len(s) \in Nat
  BY SpansAssumption, LenProperties
<1> QED BY <1>1, SpansAssumption DEF IInv, TypeOK, OnBoundary, Begin

(* The TLV that is taken is put behind the others.                         *)
LEMMA TakeInvariant ==
  ASSUME IInv, NEW kind \in Kinds, Take(kind)
  PROVE  IInv'
<1> DEFINE decoded == Decode(kind, Rest, got[kind])
           end == pos + TlvSize(Rest)
           met == [at |-> pos, end |-> end, kind |-> kind,
                   ret |-> decoded.ret, tlv |-> decoded.tlv]
<1>1. /\ pc = "walk" /\ TlvSize(Rest) > 0
      /\ got' = [got EXCEPT ![kind] = decoded.tlv]
      /\ taken' = Append(taken, met)
      /\ pos' = end
      /\ pc' = pc /\ span' = span /\ walks' = walks
  BY DEF Take
<1>2. /\ Rest \in Seq(Octet)
      /\ end \in Nat /\ end <= Len(span)
      /\ end = pos + CFDP_TLV_HEADER_LEN + At(span, pos + 1)
  BY <1>1, NextParameter
<1>3. /\ decoded.ret \in Nat
      /\ decoded.tlv \in Request \cup Response \cup Override \cup Tlv
      /\ got' \in Structures
  BY <1>1, <1>2, DecodeType DEF IInv, TypeOK
<1> HIDE DEF decoded, end
<1>4. met \in Met
  BY <1>2, <1>3 DEF Met, IInv, TypeOK
<1>5. taken \in Seq(Met) /\ Len(taken) \in Nat
  BY LenProperties DEF IInv, TypeOK, Met
<1>6. met.at = pos /\ met.end = end
  OBVIOUS
<1> HIDE DEF met
<1>7. /\ taken' \in Seq(Met)
      /\ Len(taken') = Len(taken) + 1
      /\ taken'[Len(taken) + 1] = met
      /\ \A i \in 1 .. Len(taken) : taken'[i] = taken[i]
      /\ DOMAIN taken' = 1 .. Len(taken) + 1
      /\ DOMAIN taken = 1 .. Len(taken)
  BY <1>1, <1>4, <1>5, AppendProperties, LenProperties
<1>8. TypeOK'
  BY <1>1, <1>2, <1>3, <1>7 DEF IInv, TypeOK, Met
<1>9. OnBoundary'
  <2>1. pos' <= Len(span')
    BY <1>1, <1>2
  <2>2. taken' # << >> /\ pos' = taken'[Len(taken')].end
    BY <1>1, <1>5, <1>6, <1>7
  <2>3. ASSUME NEW i \in DOMAIN taken'
        PROVE  /\ taken'[i].at = IF i = 1 THEN 0 ELSE taken'[i - 1].end
               /\ taken'[i].end =
                    taken'[i].at + CFDP_TLV_HEADER_LEN + At(span', taken'[i].at + 1)
    <3>1. CASE i \in 1 .. Len(taken)
      <4>1. /\ taken[i].at = IF i = 1 THEN 0 ELSE taken[i - 1].end
            /\ taken[i].end =
                 taken[i].at + CFDP_TLV_HEADER_LEN + At(span, taken[i].at + 1)
        BY <1>7, <3>1 DEF IInv, OnBoundary
      <4>2. taken'[i] = taken[i] /\ (i # 1 => taken'[i - 1] = taken[i - 1])
        BY <1>5, <1>7, <3>1
      <4> QED BY <1>1, <4>1, <4>2
    <3>2. CASE i = Len(taken) + 1
      <4>1. taken'[i].at = pos /\ taken'[i].end = end
        BY <1>6, <1>7, <3>2
      <4>2. pos = IF i = 1 THEN 0 ELSE taken'[i - 1].end
        <5>1. pos = IF taken = << >> THEN 0 ELSE taken[Len(taken)].end
          BY DEF IInv, OnBoundary
        <5>2. taken = << >> <=> Len(taken) = 0
          BY <1>5, EmptySeq
        <5>3. i # 1 => i - 1 \in 1 .. Len(taken) /\ i - 1 = Len(taken)
          BY <1>5, <3>2
        <5> QED BY <1>5, <1>7, <3>2, <5>1, <5>2, <5>3
      <4> QED BY <1>1, <1>2, <4>1, <4>2
    <3> QED BY <1>5, <1>7, <3>1, <3>2
  <2> QED BY <2>1, <2>2, <2>3 DEF OnBoundary
<1> QED BY <1>8, <1>9 DEF IInv

LEMMA NextInvariant ==
  ASSUME IInv, [Next]_vars
  PROVE  IInv'
<1>1. CASE \E s \in Spans : Begin(s)
  BY <1>1, BeginInvariant
<1>2. CASE \E kind \in Kinds : Take(kind)
  BY <1>2, TakeInvariant
<1>3. CASE Stop
  BY <1>3 DEF IInv, TypeOK, OnBoundary, Stop
<1>4. CASE UNCHANGED vars
  BY <1>4 DEF IInv, TypeOK, OnBoundary, vars
<1> QED BY <1>1, <1>2, <1>3, <1>4 DEF Next, Advance

-----------------------------------------------------------------------------
(* The inductive invariant holds of every chain and any number of walks.   *)
THEOREM Invariance ==
  Spec => []IInv
<1> QED BY InitInvariant, NextInvariant, PTL DEF Spec

(* The walk stays between two TLVs of the chain, whatever the chain says   *)
(* and whichever of its parameters are refused (README.md:288-291).        *)
THEOREM StaysOnBoundary ==
  Spec => []OnBoundary
<1>1. IInv => OnBoundary
  BY DEF IInv
<1> QED BY <1>1, InitInvariant, NextInvariant, PTL DEF Spec

(* The structures the decoders write keep their type.                      *)
THEOREM TypeCorrect ==
  Spec => []TypeOK
<1>1. IInv => TypeOK
  BY DEF IInv
<1> QED BY <1>1, InitInvariant, NextInvariant, PTL DEF Spec

-----------------------------------------------------------------------------
(* A decoder that refuses its TLV outright leaves the structure; otherwise *)
(* what was in it does not matter.                                         *)
LEMMA DecodeForgets ==
  ASSUME NEW kind \in Kinds, NEW buf, NEW s
  PROVE  \/ Decode(kind, buf, s).tlv = s
         \/ Decode(kind, buf, s).tlv = Decode(kind, buf, Clear[kind]).tlv
<1>1. kind \in {"request", "response", "override", "other"}
  BY DEF Kinds, Clear
<1> DEFINE clear == Clear[kind]
<1> HIDE DEF clear
<1>2. \/ RequestDeserialize(buf, s).tlv = s
      \/ RequestDeserialize(buf, s).tlv = RequestDeserialize(buf, clear).tlv
  BY DEF RequestDeserialize
<1>3. \/ ResponseDeserialize(buf, s).tlv = s
      \/ ResponseDeserialize(buf, s).tlv = ResponseDeserialize(buf, clear).tlv
  BY DEF ResponseDeserialize
<1>4. \/ OverrideDeserialize(buf, s).tlv = s
      \/ OverrideDeserialize(buf, s).tlv = OverrideDeserialize(buf, clear).tlv
  BY DEF OverrideDeserialize
<1>5. \/ TlvDeserialize(buf, s).tlv = s
      \/ TlvDeserialize(buf, s).tlv = TlvDeserialize(buf, clear).tlv
  BY DEF TlvDeserialize
<1> QED BY <1>1, <1>2, <1>3, <1>4, <1>5 DEF Decode, clear

(* No step leaves a structure with parts of two parameters, accepted or    *)
(* refused (memset in cfdp_filestore_request_tlv_deserialize and           *)
(* cfdp_filestore_response_tlv_deserialize).                               *)
THEOREM NeverMixes ==
  Spec => NoMixture
<1>1. ASSUME IInv, [Next]_vars, NEW kind \in Kinds
      PROVE  \/ got'[kind] = got[kind]
             \/ got'[kind] = Decode(kind, Rest, Clear[kind]).tlv
  <2>1. CASE \E s \in Spans : Begin(s)
    BY <2>1 DEF Begin
  <2>2. CASE Stop
    BY <2>2 DEF Stop
  <2>3. CASE UNCHANGED vars
    BY <2>3 DEF vars
  <2>4. ASSUME NEW k \in Kinds, Take(k)
        PROVE  \/ got'[kind] = got[kind]
               \/ got'[kind] = Decode(kind, Rest, Clear[kind]).tlv
    <3>1. got' = [got EXCEPT ![k] = Decode(k, Rest, got[k]).tlv]
      BY <2>4 DEF Take
    <3>2. DOMAIN got = Kinds
      BY <1>1 DEF IInv, TypeOK, Structures, Kinds, Clear
    <3>3. CASE k = kind
      <4>1. got'[kind] = Decode(kind, Rest, got[kind]).tlv
        BY <3>1, <3>2, <3>3
      <4> QED BY <4>1, DecodeForgets
    <3>4. CASE k # kind
      BY <3>1, <3>2, <3>4
    <3> QED BY <3>3, <3>4
  <2> QED BY <1>1, <2>1, <2>2, <2>3, <2>4 DEF Next, Advance
<1>2. IInv /\ [Next]_vars
        => [\A kind \in Kinds :
              \/ got'[kind] = got[kind]
              \/ got'[kind] = Decode(kind, Rest, Clear[kind]).tlv]_vars
  BY <1>1
<1> QED BY <1>2, InitInvariant, NextInvariant, PTL DEF Spec, NoMixture

-----------------------------------------------------------------------------
(* What an accepted parameter is.                                          *)

(* The TLV in front of the caller, taken apart.                            *)
InFront(buf, value) ==
  /\ value \in Seq(Octet) /\ Len(value) \in Octet /\ Len(value) = At(buf, 1)
  /\ TlvSize(buf) = Len(value) + 2 /\ At(buf, 0) \in Octet
  /\ Slice(buf, 0, TlvSize(buf)) = <<At(buf, 0), Len(value)>> \o value
  /\ Len(value) >= 1 =>
       /\ NamesOf(buf) = Slice(value, 1, Len(value))
       /\ value[1] = At(buf, 2)

(* Such a TLV can be taken apart.                                          *)
LEMMA Parted ==
  ASSUME NEW buf \in Seq(Octet), TlvSize(buf) > 0
  PROVE  InFront(buf, Slice(buf, CFDP_TLV_HEADER_LEN, TlvSize(buf)))
<1> DEFINE size == TlvSize(buf)
           value == Slice(buf, 2, size)
<1>1. Len(buf) \in Nat /\ size \in Nat /\ size >= 2 /\ size <= Len(buf)
      /\ size = At(buf, 1) + 2
  BY TlvSizeBound, LenProperties DEF CFDP_TLV_HEADER_LEN
<1>2. At(buf, 0) \in Octet /\ At(buf, 1) \in Octet
  BY ValueType
<1>3. At(buf, 1) \in Nat
  BY <1>2, OctetIsNat
<1> HIDE DEF size
<1>4. value \in Seq(Octet) /\ Len(value) = size - 2
  BY <1>1, SliceType
<1>5. Len(value) = At(buf, 1)
  BY <1>1, <1>3, <1>4
<1>6. Slice(buf, 0, size) = <<At(buf, 0), Len(value)>> \o value
  <2>1. Slice(buf, 0, 1) = <<At(buf, 0)>>
    <3>1. Slice(buf, 0, 0 + 1) = <<At(buf, 0)>>
      BY <1>1, SliceOne
    <3> QED BY <3>1
  <2>2. Slice(buf, 1, 2) = <<At(buf, 1)>>
    <3>1. Slice(buf, 1, 1 + 1) = <<At(buf, 1)>>
      BY <1>1, SliceOne
    <3> QED BY <3>1
  <2>3. Slice(buf, 0, 2) = <<At(buf, 0)>> \o <<At(buf, 1)>>
    <3>1. 0 \in Nat /\ 1 \in Nat /\ 2 \in Nat /\ 2 <= Len(buf)
      BY <1>1
    <3>2. Slice(buf, 0, 1) \o Slice(buf, 1, 2) = Slice(buf, 0, 2)
      BY <3>1, SlicesJoin
    <3> QED BY <2>1, <2>2, <3>2
  <2>4. Slice(buf, 0, 2) = <<At(buf, 0), At(buf, 1)>>
    BY <2>3
  <2>5. Slice(buf, 0, 2) \o value = Slice(buf, 0, size)
    BY <1>1, SlicesJoin
  <2> QED BY <1>5, <2>4, <2>5
<1>7. ASSUME Len(value) >= 1
      PROVE  NamesOf(buf) = Slice(value, 1, Len(value)) /\ value[1] = At(buf, 2)
  <2> DEFINE n == Len(value)
  <2>1. n \in Nat /\ 1 <= n /\ n <= size - 2 /\ 2 + n = size /\ 2 + 1 = 3 /\ 2 <= size
        /\ 0 < size - 2
    BY <1>1, <1>4, <1>7
  <2>2. Slice(Slice(buf, 2, size), 1, n) = Slice(buf, 2 + 1, 2 + n)
    <3> HIDE DEF n
    <3> QED BY <1>1, <2>1, SliceOfSlice
  <2>3. NamesOf(buf) = Slice(buf, 3, size)
    BY DEF NamesOf, CFDP_TLV_HEADER_LEN, size
  <2>4. At(value, 0) = At(buf, 2 + 0)
    BY <1>1, <2>1, SliceAt
  <2> QED BY <2>1, <2>2, <2>3, <2>4 DEF At
<1> HIDE DEF value
<1>8. Len(value) + 2 = size
  BY <1>1, <1>4
<1>9. InFront(buf, value)
  BY <1>2, <1>4, <1>5, <1>6, <1>7, <1>8 DEF InFront, size
<1> QED BY <1>9 DEF value, size, CFDP_TLV_HEADER_LEN

(* Where the LV at c of a value ends, or beyond the value if it does.      *)
Cut(value, c) ==
  IF c >= Len(value) THEN Len(value) + 1 ELSE c + 1 + At(value, c)

(* LVs that fill a value end where it does.                                *)
LEMMA LvsFillIs ==
  ASSUME NEW value, NEW n \in 1 .. 3
  PROVE  LvsFill(value, n)
           <=> Len(value) = IF n = 1 THEN Cut(value, 1)
                            ELSE IF n = 2 THEN Cut(value, Cut(value, 1))
                            ELSE Cut(value, Cut(value, Cut(value, 1)))
<1> DEFINE one == Cut(value, 1)
           two == Cut(value, one)
           three == Cut(value, two)
           F(f) == [i \in 0 .. n |-> IF i = 0 THEN 1 ELSE Cut(value, f[i - 1])]
           cut == CHOOSE f : f = F(f)
           g == [i \in 0 .. n |-> IF i = 0 THEN 1 ELSE IF i = 1 THEN one
                                  ELSE IF i = 2 THEN two ELSE three]
<1>1. LvsFill(value, n) <=> cut[n] = Len(value)
  BY DEF LvsFill, Cut
<1>2. g = F(g)
  <2> HIDE DEF one
  <2>1. ASSUME NEW i \in 0 .. n
        PROVE  g[i] = IF i = 0 THEN 1 ELSE Cut(value, g[i - 1])
    <3>1. CASE i = 0
      BY <3>1
    <3>2. CASE i = 1
      BY <3>2 DEF one
    <3>3. CASE i = 2
      <4>1. g[1] = one /\ g[2] = two
        BY <3>3
      <4> QED BY <3>3, <4>1
    <3>4. CASE i = 3
      <4>1. g[2] = two /\ g[3] = three
        BY <3>4
      <4> QED BY <3>4, <4>1
    <3> QED BY <3>1, <3>2, <3>3, <3>4
  <2> HIDE DEF two, three
  <2> QED BY <2>1
<1>3. cut = F(cut)
  <2> HIDE DEF F, g
  <2> QED BY <1>2
<1> HIDE DEF cut, one
<1>4. cut[0] = 1
  BY <1>3
<1>5. cut[1] = one
  <2>1. cut[1] = Cut(value, cut[0])
    BY <1>3
  <2> QED BY <1>4, <2>1 DEF one
<1>6. n >= 2 => cut[2] = two
  <2>1. n >= 2 => cut[2] = Cut(value, cut[1])
    BY <1>3
  <2> QED BY <1>5, <2>1
<1>7. n = 3 => cut[3] = three
  <2>1. n = 3 => cut[3] = Cut(value, cut[2])
    BY <1>3
  <2> QED BY <1>6, <2>1
<1> HIDE DEF two, three
<1> QED BY <1>1, <1>5, <1>6, <1>7 DEF one, two, three

(* What the LV at c of a value is read as, and that it is written back.    *)
LvRead(value, c, lv) ==
  /\ lv.ret \in Nat /\ LvOf(lv) \in Lv
  /\ lv.ret # 0 <=> Cut(value, c) <= Len(value)
  /\ lv.ret # 0 =>
       /\ c + lv.ret = Cut(value, c)
       /\ \A room \in Int :
            room >= lv.ret => LvOctets(LvOf(lv), room) = Slice(value, c, c + lv.ret)

(* An LV of a value is read, and can be written back.                      *)
LEMMA LvInValue ==
  ASSUME NEW value \in Seq(Octet), Len(value) >= 1, NEW c \in 1 .. Len(value)
  PROVE  LvRead(value, c, LvAt(Slice(value, 1, Len(value)), c - 1))
<1> DEFINE n == Len(value)
           names == Slice(value, 1, n)
           p == c - 1
           rest == Slice(names, p, Len(names))
           lv == LvAt(names, p)
           len == At(rest, 0)
<1>1. n \in Nat /\ 1 \in Nat /\ 1 <= n /\ n <= Len(value) /\ c \in Nat /\ c <= n /\ p \in Nat
  BY LenProperties
<1>2. names \in Seq(Octet) /\ Len(names) = n - 1
  <2> HIDE DEF n
  <2> QED BY <1>1, SliceType
<1>3. rest = Slice(value, c, n)
  <2> DEFINE m == Len(names)
  <2>1. m \in Nat /\ p <= m /\ m <= n - 1 /\ 1 + p = c /\ 1 + m = n
    BY <1>1, <1>2
  <2> HIDE DEF n, p, m
  <2>2. Slice(Slice(value, 1, n), p, m) = Slice(value, 1 + p, 1 + m)
    BY <1>1, <2>1, SliceOfSlice
  <2> QED BY <2>1, <2>2 DEF m
<1>4. rest \in Seq(Octet) /\ Len(rest) = n - c
  <2> HIDE DEF n, rest
  <2> QED BY <1>1, <1>3, SliceType
<1>5. lv = LvDeserialize(rest)
  BY DEF LvAt
<1>6. /\ lv.ret \in Nat /\ LvOf(lv) \in Lv
  <2>1. p <= Len(names)
    BY <1>1, <1>2
  <2> HIDE DEF names, p
  <2> QED BY <1>1, <1>2, <2>1, LvAtType DEF lv
<1>7. c < n => len \in 0 .. 255 /\ len = At(value, c)
  <2> HIDE DEF n, rest
  <2>1. CASE c < n
    <3>1. At(Slice(value, c, n), 0) = At(value, c + 0) /\ At(value, c) \in Octet
      BY <1>1, <2>1, SliceAt, AtType
    <3> QED BY <1>1, <1>3, <3>1 DEF Octet
  <2> QED BY <2>1
<1>8. CASE c >= n \/ c + 1 + len > n
  <2>1. Len(rest) < 1 \/ Len(rest) < len + 1
    <3> HIDE DEF n, rest
    <3>1. CASE c >= n
      BY <1>1, <1>4, <3>1
    <3>2. CASE ~ (c >= n)
      <4> HIDE DEF len
      <4>1. c < n
        BY <1>1, <3>2
      <4>2. len \in Nat /\ c + 1 + len > n
        <5>1. len \in 0 .. 255
          BY <1>7, <4>1
        <5>2. c + 1 + len > n
          BY <1>8, <3>2
        <5> QED BY <5>1, <5>2
      <4> QED BY <1>1, <1>4, <4>2
    <3> QED BY <3>1, <3>2
  <2>2. lv.ret = 0
    <3> HIDE DEF rest, lv
    <3> QED BY <1>5, <2>1 DEF LvDeserialize, CFDP_LV_HEADER_LEN
  <2>3. Cut(value, c) > n
    <3> HIDE DEF rest
    <3>1. CASE c >= n
      BY <1>1, <3>1 DEF Cut
    <3>2. CASE ~ (c >= n)
      <4>1. c < n /\ c + 1 + len > n
        BY <1>1, <1>8, <3>2
      <4>2. Cut(value, c) = c + 1 + len
        BY <1>1, <1>7, <3>2, <4>1 DEF Cut
      <4> QED BY <4>1, <4>2
    <3> QED BY <3>1, <3>2
  <2>4. ~ (Cut(value, c) <= n)
    <3>1. Cut(value, c) \in Nat
      <4> HIDE DEF rest, len
      <4>1. CASE c >= n
        BY <1>1, <4>1 DEF Cut
      <4>2. CASE ~ (c >= n)
        <5>1. c < n
          BY <1>1, <4>2
        <5>2. len \in Nat /\ Cut(value, c) = c + 1 + len
          <6>1. len \in 0 .. 255 /\ len = At(value, c)
            BY <1>7, <5>1
          <6>2. Cut(value, c) = c + 1 + At(value, c)
            BY <4>2 DEF Cut, n
          <6>3. len \in Nat
            <7>1. len \in 0 .. 255
              BY <6>1
            <7> QED BY ONLY <7>1
          <6>4. Cut(value, c) = c + 1 + len
            BY ONLY <6>1, <6>2
          <6> QED BY <6>3, <6>4
        <5> QED BY <1>1, <5>2
      <4> QED BY <4>1, <4>2
    <3> HIDE DEF n
    <3> QED BY <1>1, <2>3, <3>1
  <2> HIDE DEF lv
  <2> QED BY <1>6, <2>2, <2>4 DEF LvRead, lv
<1>9. CASE ~ (c >= n \/ c + 1 + len > n)
  <2>1. c < n /\ len \in 0 .. 255 /\ len = At(value, c) /\ c + 1 + len <= n /\ len \in Nat
    <3> HIDE DEF n, len
    <3>1. c < n
      BY <1>1, <1>9
    <3>2. len \in 0 .. 255
      BY <1>7, <3>1
    <3>3. len \in Nat
      BY <3>2
    <3>4. ~ (c + 1 + len > n)
      BY <1>9
    <3>5. c + 1 + len <= n
      BY <1>1, <3>3, <3>4
    <3> QED BY <1>7, <3>1, <3>2, <3>3, <3>5
  <2>2. ~ (Len(rest) < 1) /\ ~ (Len(rest) < len + 1)
    <3> HIDE DEF n, rest, len
    <3> QED BY <1>1, <1>4, <2>1
  <2> DEFINE bytes == Slice(rest, 1, len + 1)
  <2>3. lv = [ret |-> len + 1, value |-> IF len > 0 THEN PointerTo(bytes) ELSE Null, len |-> len]
    <3> HIDE DEF rest, lv
    <3> QED BY <1>5, <2>2 DEF LvDeserialize, CFDP_LV_HEADER_LEN
  <2>4. Cut(value, c) = c + 1 + len /\ Cut(value, c) <= n
    <3> HIDE DEF len
    <3> QED BY <1>1, <2>1 DEF Cut
  <2>5. bytes \in Seq(Octet) /\ Len(bytes) = len
    <3> DEFINE e == len + 1
    <3>1. e \in Nat /\ 1 <= e /\ e <= Len(rest) /\ e - 1 = len
      <4> DEFINE m == Len(rest)
      <4>1. m = n - c
        BY <1>4
      <4>2. ~ (m < len + 1)
        BY <2>2
      <4> HIDE DEF n, rest, len, m
      <4>3. e <= m
        BY <1>1, <2>1, <4>1, <4>2
      <4> QED BY <2>1, <4>3 DEF m
    <3> HIDE DEF e, rest
    <3>2. Slice(rest, 1, e) \in Seq(Octet) /\ Len(Slice(rest, 1, e)) = e - 1
      BY <1>1, <1>4, <3>1, SliceType
    <3> QED BY <3>1, <3>2 DEF e
  <2> HIDE DEF bytes
  <2>6. Copied(LvOf(lv).value, len) = bytes
    <3> HIDE DEF len, lv
    <3>1. CASE len = 0
      <4>1. bytes = << >>
        BY <2>5, <3>1, EmptySeq
      <4> QED BY <3>1, <4>1 DEF Copied
    <3>2. CASE len # 0
      <4>1. LvOf(lv).value = PointerTo(bytes)
        BY <2>1, <2>3, <3>2 DEF LvOf
      <4>2. Slice(bytes, 0, len) = bytes
        BY <2>5, SubSeqFull DEF Slice
      <4> QED BY <3>2, <4>1, <4>2 DEF Copied, PointerTo
    <3> QED BY <3>1, <3>2
  <2>7. <<len>> \o bytes = Slice(value, c, c + (len + 1))
    <3> DEFINE e == len + 1
    <3>1. e \in Nat /\ 1 <= e /\ e <= Len(rest) /\ 0 \in Nat /\ 0 <= 1 /\ 0 < Len(rest)
          /\ e <= n - c /\ c + 0 = c
      <4> HIDE DEF n, rest, len
      <4> QED BY <1>1, <1>4, <2>1, <2>2
    <3>2. Slice(rest, 0, 0 + 1) = <<len>>
      <4> HIDE DEF rest
      <4> QED BY <1>4, <3>1, SliceOne DEF len
    <3> HIDE DEF e, rest, len
    <3>3. Slice(rest, 0, 1) \o Slice(rest, 1, e) = Slice(rest, 0, e)
      BY <1>1, <1>4, <3>1, SlicesJoin, ZenonT(60)
    <3> HIDE DEF n
    <3>4. Slice(Slice(value, c, n), 0, e) = Slice(value, c + 0, c + e)
      BY <1>1, <3>1, SliceOfSlice
    <3>5. Slice(rest, 0, 1) = <<len>>
      BY <3>2
    <3>6. Slice(rest, 0, e) = Slice(value, c, c + e)
      BY <1>3, <3>1, <3>4
    <3>7. bytes = Slice(rest, 1, e)
      BY DEF bytes, e
    <3>8. <<len>> \o bytes = Slice(value, c, c + e)
      BY <3>3, <3>5, <3>6, <3>7
    <3> QED BY <3>8 DEF e
  <2>8. ASSUME NEW room \in Int, room >= lv.ret
        PROVE  LvOctets(LvOf(lv), room) = Slice(value, c, c + lv.ret)
    <3> HIDE DEF len, lv
    <3>1. lv.ret = len + 1 /\ LvOf(lv).len = len
      BY <2>3 DEF LvOf
    <3>2. ~ (room < len + 1)
      BY <2>1, <2>8, <3>1
    <3>3. ~ (LvOf(lv).value = Null /\ len > 0)
      BY <2>3 DEF LvOf, PointerTo, Null
    <3>4. LvOctets(LvOf(lv), room) = <<len>> \o Copied(LvOf(lv).value, len)
      BY <3>1, <3>2, <3>3 DEF LvOctets, LvSerialize, CFDP_LV_HEADER_LEN
    <3> QED BY <2>6, <2>7, <3>1, <3>4
  <2>9. lv.ret # 0 /\ c + lv.ret = Cut(value, c)
    <3>1. lv.ret = len + 1
      <4> HIDE DEF len, lv
      <4> QED BY <2>3
    <3> DEFINE ret == lv.ret
    <3>2. ret = len + 1
      BY <3>1
    <3> HIDE DEF len, lv, ret
    <3>3. ret # 0 /\ c + ret = Cut(value, c)
      BY <1>1, <2>1, <2>4, <3>2, SMTT(40)
    <3> QED BY <3>3 DEF ret
  <2> HIDE DEF lv
  <2>10. LvRead(value, c, lv)
    BY <1>6, <2>4, <2>8, <2>9 DEF LvRead
  <2> QED BY <2>10 DEF lv
<1> QED BY <1>8, <1>9

(* What the names that a value begins with are read as, and that they are  *)
(* written back.                                                           *)
NamesRead(value, r, names) ==
  LET one == Cut(value, 1)
      end == IF HasSecondFilename(r.action_code) THEN Cut(value, one) ELSE one
  IN /\ names.ret \in Nat
     /\ names.ret # 0 <=> end <= Len(value)
     /\ names.ret # 0 =>
          /\ 1 + names.ret = end
          /\ names.tlv.action_code = r.action_code
          /\ r \in Response => names.tlv.status_code = r.status_code
          /\ \A room \in Int :
               room >= names.ret => NamesSerialize(names.tlv, room) = Slice(value, 1, end)

(* Cuts only move on.                                                      *)
LEMMA CutMoves ==
  ASSUME NEW value \in Seq(Octet), NEW c \in Nat, c >= 1
  PROVE  /\ Cut(value, c) \in Nat /\ Cut(value, c) >= 1
         /\ Cut(value, c) <= Len(value) => c < Cut(value, c) /\ c < Len(value)
<1> DEFINE n == Len(value)
           len == At(value, c)
<1>1. n \in Nat
  BY LenProperties
<1>2. CASE c >= n
  <2> HIDE DEF n
  <2> QED BY <1>1, <1>2 DEF Cut, n
<1>3. CASE ~ (c >= n)
  <2>1. c < n
    BY <1>1, <1>3
  <2>2. len \in Octet
    BY <2>1, AtType
  <2>3. len \in Nat
    BY <2>2, OctetIsNat
  <2>4. Cut(value, c) = c + 1 + len
    BY <1>3 DEF Cut
  <2> HIDE DEF n, len
  <2> QED BY <1>1, <2>1, <2>3, <2>4
<1> QED BY <1>2, <1>3

(* Names at the front of a value are read, and can be written back.        *)
LEMMA NamesInValue ==
  ASSUME NEW value \in Seq(Octet), Len(value) >= 1, NEW r \in Request \cup Response
  PROVE  NamesRead(value, r, NamesDeserialize(Slice(value, 1, Len(value)), r))
<1> DEFINE n == Len(value)
           buf == Slice(value, 1, n)
           first == LvAt(buf, 0)
           second == LvAt(buf, first.ret)
           named == [r EXCEPT !.first_filename = LvOf(first)]
           both == [named EXCEPT !.second_filename = LvOf(second)]
           names == NamesDeserialize(buf, r)
           one == Cut(value, 1)
           two == Cut(value, one)
           a == first.ret
           b == second.ret
           has == HasSecondFilename(r.action_code)
           end == IF has THEN two ELSE one
<1>1. n \in Nat /\ one \in Nat /\ two \in Nat
      /\ (one <= n => 1 < one)
      /\ (two <= n /\ 1 <= one => one < two /\ one < n)
  <2>1. one \in Nat /\ one >= 1 /\ (one <= n => 1 < one) /\ n \in Nat
    BY LenProperties, CutMoves
  <2>2. two \in Nat /\ (two <= n => one < two /\ one < n)
    <3> HIDE DEF one
    <3> QED BY <2>1, CutMoves
  <2> QED BY <2>1, <2>2
<1>2. LvRead(value, 1, first)
  <2>1. 1 \in 1 .. Len(value) /\ 1 - 1 = 0
    BY <1>1
  <2>2. LvRead(value, 1, LvAt(Slice(value, 1, Len(value)), 1 - 1))
    BY <2>1, LvInValue
  <2> QED BY <2>1, <2>2
<1>3. a \in Nat /\ (a # 0 <=> one <= n) /\ (a # 0 => 1 + a = one)
  BY <1>2 DEF LvRead
<1>4. a # 0 => LvRead(value, one, second)
  <2> SUFFICES ASSUME a # 0 PROVE LvRead(value, one, second)
    OBVIOUS
  <2>1. one \in 1 .. Len(value) /\ one - 1 = a
    <3> HIDE DEF one, a
    <3> QED BY <1>1, <1>3
  <2>2. LvRead(value, one, LvAt(Slice(value, 1, Len(value)), one - 1))
    <3> HIDE DEF one, a
    <3> QED BY <2>1, LvInValue
  <2> QED BY <2>1, <2>2
<1>5. a # 0 => b \in Nat /\ (b # 0 <=> two <= n) /\ (b # 0 => one + b = two)
  <2> HIDE DEF second, one, a
  <2> QED BY <1>4 DEF LvRead, b
<1>6. names = IF a = 0 THEN [ret |-> 0, tlv |-> r]
              ELSE IF ~ has THEN [ret |-> a, tlv |-> named]
              ELSE IF b = 0 THEN [ret |-> 0, tlv |-> named]
              ELSE [ret |-> a + b, tlv |-> both]
  BY DEF NamesDeserialize
<1>7. /\ named.action_code = r.action_code /\ named.first_filename = LvOf(first)
      /\ both.action_code = r.action_code /\ both.first_filename = LvOf(first)
      /\ both.second_filename = LvOf(second)
      /\ r \in Response => named.status_code = r.status_code /\ both.status_code = r.status_code
  <2> HIDE DEF first, second
  <2>1. CASE r \in Request
    <3>1. r \notin Response
      BY <2>1, SMTT(40) DEF Request, Response
    <3> QED BY <2>1, <3>1 DEF Request
  <2>2. CASE r \in Response
    BY <2>2 DEF Response
  <2> QED BY <2>1, <2>2
<1>8. a # 0 => \A room \in Int :
        room >= a => LvOctets(LvOf(first), room) = Slice(value, 1, one)
  BY <1>2, <1>3 DEF LvRead
<1>9. a # 0 /\ b # 0 => \A room \in Int :
        room >= b => LvOctets(LvOf(second), room) = Slice(value, one, two)
  <2> HIDE DEF second, one, a
  <2> QED BY <1>4, <1>5 DEF LvRead, b
<1> HIDE DEF first, second, named, both, one, two, a, b, has, names
<1>10. a # 0 => /\ Slice(value, 1, one) # << >> /\ Len(Slice(value, 1, one)) = a
                /\ Slice(value, 1, one) \in Seq(Octet)
  <2> SUFFICES ASSUME a # 0
               PROVE  /\ Slice(value, 1, one) # << >> /\ Len(Slice(value, 1, one)) = a
                      /\ Slice(value, 1, one) \in Seq(Octet)
    OBVIOUS
  <2>1. 1 <= one /\ one <= n /\ one - 1 = a
    BY <1>1, <1>3
  <2> DEFINE s == Slice(value, 1, one)
  <2>2. s \in Seq(Octet) /\ Len(s) = a
    BY <1>1, <2>1, SliceType
  <2> HIDE DEF s
  <2>3. s # << >>
    BY <1>3, <2>2, EmptySeq
  <2> QED BY <2>2, <2>3 DEF s
<1>11. CASE a = 0
  <2>1. names.ret = 0
    BY <1>6, <1>11
  <2>2. ~ (end <= n)
    BY <1>1, <1>3, <1>11
  <2> QED BY <2>1, <2>2 DEF NamesRead, names, one, two, has
<1>12. CASE a # 0 /\ ~ has
  <2>1. names.ret = a /\ names.tlv = named
    BY <1>6, <1>12
  <2>2. end = one
    BY <1>12
  <2>3. ASSUME NEW room \in Int, room >= a
        PROVE  NamesSerialize(named, room) = Slice(value, 1, end)
    BY <1>7, <1>8, <1>12, <2>2, <2>3 DEF NamesSerialize, has
  <2> QED BY <1>3, <1>7, <1>12, <2>1, <2>2, <2>3 DEF NamesRead, names, one, has
<1>13. CASE a # 0 /\ has /\ b = 0
  <2>1. names.ret = 0
    BY <1>6, <1>13
  <2>2. end = two /\ ~ (two <= n)
    BY <1>5, <1>13
  <2> QED BY <2>1, <2>2 DEF NamesRead, names, one, two, has
<1>14. CASE a # 0 /\ has /\ b # 0
  <2>1. names.ret = a + b /\ names.tlv = both
    BY <1>6, <1>14
  <2>2. end = two /\ two <= n /\ one <= two
    BY <1>1, <1>3, <1>5, <1>14
  <2>3. 1 + (a + b) = two /\ a + b # 0 /\ a + b \in Nat
    BY <1>1, <1>3, <1>5, <1>14
  <2>4. Slice(value, one, two) # << >>
    <3>1. one \in Nat /\ two \in Nat /\ two - one = b /\ one <= n
      BY <1>1, <1>3, <1>5, <1>14
    <3>2. Slice(value, one, two) \in Seq(Octet) /\ Len(Slice(value, one, two)) = b
      BY <2>2, <3>1, SliceType
    <3> QED BY <1>14, <3>2, EmptySeq
  <2>5. Slice(value, 1, one) \o Slice(value, one, two) = Slice(value, 1, two)
    <3>1. 1 <= one
      BY <1>1, <1>3, <1>14
    <3> QED BY <1>1, <2>2, <3>1, SlicesJoin
  <2>6. ASSUME NEW room \in Int, room >= a + b
        PROVE  NamesSerialize(both, room) = Slice(value, 1, two)
    <3>1. room >= a /\ room - a \in Int /\ room - a >= b
      BY <1>3, <1>5, <1>14, <2>6
    <3>2. LvOctets(LvOf(first), room) = Slice(value, 1, one)
      BY <1>8, <1>14, <3>1
    <3>3. LvOctets(LvOf(second), room - Len(Slice(value, 1, one))) = Slice(value, one, two)
      <4>1. LvOctets(LvOf(second), room - a) = Slice(value, one, two)
        BY <1>9, <1>14, <3>1
      <4> QED BY <1>10, <1>14, <4>1
    <3> QED BY <1>7, <1>10, <1>14, <2>4, <2>5, <3>2, <3>3 DEF NamesSerialize, has
  <2> QED BY <1>7, <1>14, <2>1, <2>2, <2>3, <2>6 DEF NamesRead, names, one, two, has
<1> QED BY <1>11, <1>12, <1>13, <1>14

(* The octets that stand for a parameter (Table 5-15: a request has four   *)
(* spare bits).                                                            *)
Canonical(kind, octets) ==
  IF kind = "request" THEN [octets EXCEPT ![3] = 16 * (@ \div 16)] ELSE octets

(* A decoder takes exactly the parameters of its kind, whole, and what it  *)
(* stores is encoded as the octets that were read.                         *)
TakenWhole(kind, buf, decoded) ==
  /\ decoded.ret # 0
       <=> IsParameter(kind, Slice(buf, CFDP_TLV_HEADER_LEN, TlvSize(buf)))
  /\ decoded.ret # 0 =>
       /\ decoded.ret = TlvSize(buf)
       /\ Encode(kind, decoded.tlv, decoded.ret)
            = Canonical(kind, Slice(buf, 0, TlvSize(buf)))

(* The octets of an action and a status.                                   *)
LEMMA ActionOctet ==
  ASSUME NEW octet \in Octet
  PROVE  /\ 16 * (octet \div 16) \in Octet
         /\ 16 * (octet \div 16) + (octet % 16) = octet
         /\ octet \div 16 \in Nat /\ octet % 16 \in 0 .. 15
<1>1. octet \in 0 .. 255
  BY DEF Octet
<1>2. 16 * (octet \div 16) + (octet % 16) = octet /\ octet % 16 \in 0 .. 15
      /\ octet \div 16 \in 0 .. 15
  BY <1>1
<1>3. 16 * (octet \div 16) \in 0 .. 255
  BY <1>2
<1> QED BY <1>2, <1>3 DEF Octet

(* A Filestore Request: the spare bits of its action octet are dropped.    *)
LEMMA RequestTaken ==
  ASSUME NEW buf \in Seq(Octet), TlvSize(buf) > 0, At(buf, 0) = CFDP_TLV_FILESTORE_REQUEST,
         NEW req \in Request
  PROVE  TakenWhole("request", buf, RequestDeserialize(buf, req))
<1> DEFINE value == Slice(buf, CFDP_TLV_HEADER_LEN, TlvSize(buf))
           n == Len(value)
           action == value[1] \div 16
           begun == [ClearRequest EXCEPT !.action_code = action]
           names == NamesDeserialize(Slice(value, 1, n), begun)
           decoded == RequestDeserialize(buf, req)
           size == TlvSize(buf)
           octets == Slice(buf, 0, size)
           one == Cut(value, 1)
           end == IF HasSecondFilename(action) THEN Cut(value, one) ELSE one
<1>1. InFront(buf, value)
  BY Parted
<1> HIDE DEF value, octets, size
<1>2. /\ value \in Seq(Octet) /\ n \in Octet /\ n = At(buf, 1) /\ size = n + 2 /\ n \in 0 .. 255
      /\ octets = <<CFDP_TLV_FILESTORE_REQUEST, n>> \o value
      /\ n >= 1 => NamesOf(buf) = Slice(value, 1, n) /\ value[1] = At(buf, 2)
      /\ TlvSize(buf) > 0 /\ TlvSize(buf) = size
  BY <1>1 DEF InFront, octets, size, Octet
<1>3. n \in Nat /\ n <= 255
  <2>1. n \in 0 .. 255
    BY <1>2
  <2> HIDE DEF n
  <2> QED BY <2>1
<1>4. CASE n = 0
  <2>1. value = << >>
    BY <1>2, <1>4, EmptySeq
  <2>2. ~ IsParameter("request", value)
    BY <2>1 DEF IsParameter
  <2>3. decoded.ret = 0
    BY <1>2, <1>4 DEF RequestDeserialize, IsFilestoreTlv
  <2> HIDE DEF decoded
  <2> QED BY <2>2, <2>3 DEF TakenWhole, value, decoded
<1>5. CASE n >= 1 /\ ~ ActionValid(action)
  <2>1. ~ IsParameter("request", value)
    BY <1>5 DEF IsParameter
  <2>2. decoded.ret = 0
    <3>1. ~ ActionValid(At(buf, 2) \div 16)
      BY <1>2, <1>5
    <3> QED BY <3>1 DEF RequestDeserialize, IsFilestoreTlv
  <2> HIDE DEF decoded
  <2> QED BY <2>1, <2>2 DEF TakenWhole, value, decoded
<1>6. CASE n >= 1 /\ ActionValid(action)
  <2>1. value # << >> /\ value[1] \in Octet /\ At(value, 0) = value[1]
    <3>1. 0 < Len(value)
      BY <1>2, <1>6
    <3>2. At(value, 0) \in Octet
      BY <1>2, <3>1, AtType
    <3> QED BY <1>2, <1>6, <3>2, EmptySeq DEF At
  <2>2. 16 * action \in Octet
    BY <2>1, ActionOctet
  <2>3. begun \in Request /\ begun.action_code = action
    BY <1>6, <2>1, ActionType, NoLvType DEF ClearRequest, Request
  <2>4. decoded = [ret |-> IF names.ret # 0 /\ names.ret + 1 = n THEN size ELSE 0,
                   tlv |-> names.tlv]
    <3>1. IsFilestoreTlv(buf, CFDP_TLV_FILESTORE_REQUEST)
      BY <1>2, <1>6 DEF IsFilestoreTlv
    <3>2. NamesOf(buf) = Slice(value, 1, n) /\ At(buf, 2) \div 16 = action /\ At(buf, 1) = n
      BY <1>2, <1>6
    <3> HIDE DEF action, n
    <3> QED BY <1>2, <3>1, <3>2 DEF RequestDeserialize
  <2> HIDE DEF begun
  <2>5. NamesRead(value, begun, names)
    BY <1>2, <1>6, <2>3, NamesInValue
  <2> HIDE DEF names
  <2>6. /\ names.ret \in Nat
        /\ names.ret # 0 <=> end <= n
        /\ names.ret # 0 =>
             /\ 1 + names.ret = end
             /\ names.tlv.action_code = action
             /\ \A room \in Int :
                  room >= names.ret => NamesSerialize(names.tlv, room) = Slice(value, 1, end)
    BY <2>3, <2>5 DEF NamesRead
  <2>7. IsParameter("request", value) <=> end = n
    <3> DEFINE two == Cut(value, one)
               count == IF HasSecondFilename(action) THEN 2 ELSE 1
    <3>1. LvsFill(value, count) <=> end = n
      <4>1. LvsFill(value, 1) <=> n = one
        BY LvsFillIs
      <4>2. LvsFill(value, 2) <=> n = two
        BY LvsFillIs
      <4> HIDE DEF one, two
      <4> QED BY <4>1, <4>2 DEF two
    <3> HIDE DEF end
    <3> QED BY <1>6, <2>1, <3>1 DEF IsParameter
  <2> DEFINE r == names.ret
  <2>8. decoded.ret = (IF r # 0 /\ r + 1 = n THEN size ELSE 0) /\ decoded.tlv = names.tlv
    BY <2>4
  <2> HIDE DEF decoded, end, n, action
  <2>9. (r # 0 /\ r + 1 = n) <=> end = n
    <3>1. r \in Nat /\ (r # 0 <=> end <= n) /\ (r # 0 => 1 + r = end) /\ n \in Nat
      <4>1. r \in Nat /\ (r # 0 <=> end <= n) /\ (r # 0 => 1 + r = end)
        BY <2>6
      <4>2. n \in Nat
        BY <1>3
      <4> QED BY <4>1, <4>2
    <3> HIDE DEF r
    <3> QED BY <3>1
  <2>10. decoded.ret # 0 <=> IsParameter("request", value)
    BY <1>2, <2>7, <2>8, <2>9
  <2>11. ASSUME decoded.ret # 0
         PROVE  /\ decoded.ret = size
                /\ RequestSerialize(decoded.tlv, size) = [octets EXCEPT ![3] = 16 * (@ \div 16)]
    <3>1. r # 0 /\ r + 1 = n /\ end = n /\ decoded.ret = size
      BY <2>8, <2>9, <2>11
    <3> DEFINE room == size - CFDP_TLV_HEADER_LEN - 1
               body == Slice(value, 1, n)
               head == <<16 * action>>
               whole == <<16 * action>> \o body
    <3>2. room \in Int /\ room >= names.ret
      <4>1. room = n - 1
        BY <1>2 DEF CFDP_TLV_HEADER_LEN
      <4>2. r \in Nat /\ r + 1 = n
        BY <2>6, <3>1
      <4> HIDE DEF room, r
      <4>3. room \in Int /\ room >= r
        BY <1>2, <4>1, <4>2
      <4> QED BY <4>3 DEF r
    <3>3. NamesSerialize(decoded.tlv, room) = body /\ decoded.tlv.action_code = action
      <4> HIDE DEF room
      <4> QED BY <2>6, <2>8, <3>1, <3>2
    <3>4. body \in Seq(Octet) /\ Len(body) = n - 1
      <4>1. 1 \in Nat /\ n \in Nat /\ 1 <= n /\ n <= Len(value)
        BY <1>2, <1>6 DEF n
      <4> QED BY <1>2, <4>1, SliceType
    <3>5. body # << >>
      <4>1. Len(body) # 0
        BY <1>2, <2>6, <3>1, <3>4
      <4> QED BY <4>1
    <3> HIDE DEF body
    <3>6. head \in Seq(Octet) /\ Len(head) = 1 /\ head[1] = 16 * action
      BY <2>2 DEF action
    <3>7. whole \in Seq(Octet) /\ Len(whole) = n
          /\ whole = [value EXCEPT ![1] = 16 * action]
      <4> DEFINE z == [value EXCEPT ![1] = 16 * action]
      <4>1. z \in Seq(Octet) /\ Len(z) = n /\ z[1] = 16 * action
            /\ \A i \in 2 .. n : z[i] = value[i]
        <5>1. 1 \in 1 .. Len(value)
          BY <1>2, <1>6 DEF n
        <5>2. 16 * action \in Octet
          BY <2>2 DEF action
        <5> QED BY <1>2, <5>1, <5>2, ExceptSeq DEF n
      <4> HIDE DEF z
      <4>2. ASSUME NEW i \in 1 .. Len(z)
            PROVE  z[i] = IF i <= Len(head) THEN head[i] ELSE body[i - Len(head)]
        <5>1. CASE i = 1
          BY <3>6, <4>1, <5>1
        <5>2. CASE i # 1
          <6> DEFINE k == i - 2
          <6>1. k \in Nat /\ k < n - 1 /\ k + 1 = i - 1 /\ 1 + k = i - 1 /\ i \in 2 .. n
            BY <1>2, <4>1, <5>2
          <6> HIDE DEF k
          <6>2. At(body, k) = At(value, 1 + k)
            <7>1. 1 \in Nat /\ n \in Nat /\ 1 <= n /\ n <= Len(value)
              BY <1>2, <1>6 DEF n
            <7> QED BY <1>2, <6>1, <7>1, SliceAt DEF body
          <6>3. (1 + k) + 1 = i
            BY <1>2, <6>1
          <6>4. body[i - 1] = value[i]
            BY <6>1, <6>2, <6>3 DEF At
          <6> QED BY <3>6, <4>1, <6>1, <6>4
        <5> QED BY <5>1, <5>2
      <4>3. Len(head) + Len(body) = Len(z)
        BY <1>2, <3>4, <3>6, <4>1
      <4> HIDE DEF head
      <4>4. head \o body = z
        BY <3>4, <3>6, <4>1, <4>2, <4>3, ConcatIs
      <4> QED BY <4>1, <4>4 DEF z, head
    <3>8. RequestSerialize(decoded.tlv, size) = <<CFDP_TLV_FILESTORE_REQUEST, n>> \o whole
      <4>1. ~ (size < CFDP_TLV_HEADER_LEN + 1)
        BY <1>2, <1>6 DEF CFDP_TLV_HEADER_LEN
      <4>2. ~ (Len(whole) > UINT8_MAX)
        <5>1. Len(whole) = n
          BY <3>7
        <5> HIDE DEF whole
        <5> QED BY <1>3, <5>1 DEF UINT8_MAX
      <4>3. RequestSerialize(decoded.tlv, size)
              = FilestoreTlvFinish(CFDP_TLV_FILESTORE_REQUEST, whole)
        BY <1>6, <3>3, <3>5, <4>1 DEF RequestSerialize
      <4> HIDE DEF whole
      <4> QED BY <3>7, <4>2, <4>3 DEF FilestoreTlvFinish
    <3>9. <<CFDP_TLV_FILESTORE_REQUEST, n>> \o whole = [octets EXCEPT ![3] = 16 * (@ \div 16)]
      <4> DEFINE h == <<CFDP_TLV_FILESTORE_REQUEST, n>>
                 z == [octets EXCEPT ![3] = 16 * action]
      <4>1. h \in Seq(Octet) /\ Len(h) = 2
        BY <1>2 DEF Octet, CFDP_TLV_FILESTORE_REQUEST
      <4> HIDE DEF h
      <4>2. octets \in Seq(Octet) /\ Len(octets) = n + 2
            /\ \A i \in 1 .. n + 2 : octets[i] = IF i <= 2 THEN h[i] ELSE value[i - 2]
        BY <1>2, <4>1, ConcatProperties DEF h, n
      <4>3. octets[3] = value[1]
        BY <1>2, <1>6, <4>2
      <4>4. z = [octets EXCEPT ![3] = 16 * (@ \div 16)]
        BY <4>3 DEF action
      <4>5. z \in Seq(Octet) /\ Len(z) = n + 2 /\ z[3] = 16 * action
            /\ \A i \in 1 .. n + 2 : i # 3 => z[i] = octets[i]
        <5>1. 3 \in 1 .. Len(octets)
          BY <1>2, <1>6, <4>2
        <5>2. 16 * action \in Octet
          BY <2>2 DEF action
        <5> QED BY <4>2, <5>1, <5>2, ExceptSeq
      <4> HIDE DEF z
      <4>6. /\ \A i \in 1 .. n : whole[i] = IF i = 1 THEN 16 * action ELSE value[i]
        BY <1>2, <3>7 DEF n
      <4> HIDE DEF whole
      <4>7. ASSUME NEW i \in 1 .. Len(z)
            PROVE  z[i] = IF i <= Len(h) THEN h[i] ELSE whole[i - Len(h)]
        <5>1. CASE i <= 2
          BY <1>2, <4>1, <4>2, <4>5, <5>1
        <5>2. CASE ~ (i <= 2)
          <6>1. i - 2 \in 1 .. n /\ i \in 1 .. n + 2 /\ (i = 3 <=> i - 2 = 1)
            BY <1>2, <4>5, <5>2
          <6>2. whole[i - 2] = IF i - 2 = 1 THEN 16 * action ELSE value[i - 2]
            BY <4>6, <6>1
          <6> QED BY <4>1, <4>2, <4>5, <5>2, <6>1, <6>2
        <5> QED BY <5>1, <5>2
      <4>8. Len(h) + Len(whole) = Len(z)
        BY <1>2, <3>7, <4>1, <4>5
      <4>9. h \o whole = z
        BY <3>7, <4>1, <4>5, <4>7, <4>8, ConcatIs
      <4> QED BY <4>4, <4>9 DEF h
    <3> QED BY <3>1, <3>8, <3>9
  <2> QED BY <2>10, <2>11 DEF TakenWhole, Encode, Canonical, value, size, octets, decoded
<1> QED BY <1>2, <1>4, <1>5, <1>6

(* A Filestore Response: it is written back as it was.                     *)
LEMMA ResponseTaken ==
  ASSUME NEW buf \in Seq(Octet), TlvSize(buf) > 0, At(buf, 0) = CFDP_TLV_FILESTORE_RESPONSE,
         NEW resp \in Response
  PROVE  TakenWhole("response", buf, ResponseDeserialize(buf, resp))
<1> DEFINE value == Slice(buf, CFDP_TLV_HEADER_LEN, TlvSize(buf))
           n == Len(value)
           action == value[1] \div 16
           status == value[1] % 16
           begun == [ClearResponse EXCEPT !.action_code = action, !.status_code = status]
           rest == Slice(value, 1, n)
           names == NamesDeserialize(rest, begun)
           message == LvAt(rest, names.ret)
           told == [names.tlv EXCEPT !.message = LvOf(message)]
           decoded == ResponseDeserialize(buf, resp)
           size == TlvSize(buf)
           octets == Slice(buf, 0, size)
           one == Cut(value, 1)
           end == IF HasSecondFilename(action) THEN Cut(value, one) ELSE one
           last == Cut(value, end)
           r == names.ret
           m == message.ret
<1>1. InFront(buf, value)
  BY Parted
<1> HIDE DEF value, octets, size
<1>2. /\ value \in Seq(Octet) /\ n = At(buf, 1) /\ size = n + 2
      /\ octets = <<CFDP_TLV_FILESTORE_RESPONSE, n>> \o value
      /\ n >= 1 => NamesOf(buf) = Slice(value, 1, n) /\ value[1] = At(buf, 2)
      /\ TlvSize(buf) > 0 /\ TlvSize(buf) = size
  BY <1>1 DEF InFront, octets, size
<1>3. n \in Nat /\ n <= 255
  <2>1. n \in 0 .. 255
    BY <1>1 DEF InFront, Octet
  <2> HIDE DEF n
  <2> QED BY <2>1
<1>4. CASE n = 0
  <2>1. value = << >>
    BY <1>2, <1>4, EmptySeq
  <2>2. ~ IsParameter("response", value)
    BY <2>1 DEF IsParameter
  <2>3. decoded.ret = 0
    BY <1>2, <1>4 DEF ResponseDeserialize, IsFilestoreTlv
  <2> HIDE DEF decoded
  <2> QED BY <2>2, <2>3 DEF TakenWhole, value, decoded
<1>5. CASE n >= 1 /\ ~ ActionValid(action)
  <2>1. ~ IsParameter("response", value)
    BY <1>5 DEF IsParameter
  <2>2. decoded.ret = 0
    <3>1. ~ ActionValid(At(buf, 2) \div 16)
      BY <1>2, <1>5
    <3> QED BY <3>1 DEF ResponseDeserialize, IsFilestoreTlv
  <2> HIDE DEF decoded
  <2> QED BY <2>1, <2>2 DEF TakenWhole, value, decoded
<1>6. CASE n >= 1 /\ ActionValid(action)
  <2>1. value # << >> /\ value[1] \in Octet /\ At(value, 0) = value[1]
    <3>1. 0 < Len(value)
      BY <1>3, <1>6
    <3>2. At(value, 0) \in Octet
      BY <1>2, <3>1, AtType
    <3> QED BY <1>2, <1>6, <3>2, EmptySeq DEF At
  <2>2. 16 * action + status = value[1] /\ status \in 0 .. 15
    BY <2>1, ActionOctet
  <2>3. begun \in Response /\ begun.action_code = action /\ begun.status_code = status
    <3>1. action \in 0 .. CFDP_FS_ACTION_DENY_DIRECTORY
      BY <1>6, <2>1, ActionType
    <3> HIDE DEF action, status
    <3> QED BY <2>2, <3>1, NoLvType DEF ClearResponse, Response
  <2>4. decoded = IF r = 0 \/ m = 0 THEN [ret |-> 0, tlv |-> names.tlv]
                  ELSE [ret |-> IF r + m + 1 = n THEN size ELSE 0, tlv |-> told]
    <3>1. IsFilestoreTlv(buf, CFDP_TLV_FILESTORE_RESPONSE)
      BY <1>2, <1>6 DEF IsFilestoreTlv
    <3>2. NamesOf(buf) = rest /\ At(buf, 2) \div 16 = action /\ At(buf, 2) % 16 = status
          /\ At(buf, 1) = n
      BY <1>2, <1>6
    <3> HIDE DEF action, n, status, rest
    <3> QED BY <1>2, <3>1, <3>2 DEF ResponseDeserialize
  <2> HIDE DEF begun
  <2>5. NamesRead(value, begun, names)
    BY <1>2, <1>6, <2>3, NamesInValue
  <2>6. names.tlv \in Response
    <3>1. 1 \in Nat /\ n \in Nat /\ 1 <= n /\ n <= Len(value)
      BY <1>3, <1>6
    <3>2. rest \in Seq(Octet)
      BY <1>2, <3>1, SliceType
    <3> HIDE DEF rest
    <3> QED BY <2>3, <3>2, NamesType
  <2>7. /\ r \in Nat /\ (r # 0 <=> end <= n)
        /\ r # 0 => /\ 1 + r = end /\ names.tlv.action_code = action
                    /\ names.tlv.status_code = status
                    /\ \A room \in Int :
                         room >= r => NamesSerialize(names.tlv, room) = Slice(value, 1, end)
    <3> HIDE DEF names
    <3> QED BY <2>3, <2>5 DEF NamesRead
  <2>8. one \in Nat /\ one >= 1 /\ end \in Nat /\ end >= 1 /\ last \in Nat
        /\ (last <= n => end < last /\ end < n)
    <3>1. one \in Nat /\ one >= 1
      BY <1>2, CutMoves
    <3>2. end \in Nat /\ end >= 1
      <4> HIDE DEF one
      <4> QED BY <1>2, <3>1, CutMoves
    <3>3. last \in Nat /\ (last <= n => end < last /\ end < n)
      <4> HIDE DEF end
      <4> QED BY <1>2, <3>2, CutMoves
    <3> QED BY <3>1, <3>2, <3>3
  <2>9. r # 0 => LvRead(value, end, message)
    <3> SUFFICES ASSUME r # 0 PROVE LvRead(value, end, message)
      OBVIOUS
    <3>1. end \in 1 .. n /\ r = end - 1
      <4> HIDE DEF r, end, n
      <4> QED BY <1>3, <2>7, <2>8
    <3> HIDE DEF end
    <3>2. LvRead(value, end, LvAt(Slice(value, 1, Len(value)), end - 1))
      BY <1>2, <1>6, <3>1, LvInValue
    <3> QED BY <3>1, <3>2
  <2>10. r # 0 => /\ m \in Nat /\ (m # 0 <=> last <= n)
                  /\ m # 0 =>
                       /\ end + m = last
                       /\ \A room \in Int :
                            room >= m => LvOctets(LvOf(message), room) = Slice(value, end, end + m)
    <3> HIDE DEF message, r, end
    <3> QED BY <2>9 DEF LvRead
  <2>11. told.message = LvOf(message) /\ told.action_code = names.tlv.action_code
         /\ told.status_code = names.tlv.status_code
         /\ \A room : NamesSerialize(told, room) = NamesSerialize(names.tlv, room)
    <3> HIDE DEF names, message
    <3>1. /\ told.message = LvOf(message) /\ told.action_code = names.tlv.action_code
          /\ told.status_code = names.tlv.status_code
          /\ told.first_filename = names.tlv.first_filename
          /\ told.second_filename = names.tlv.second_filename
      BY <2>6 DEF Response
    <3> HIDE DEF told
    <3> QED BY <3>1 DEF NamesSerialize
  <2>12. IsParameter("response", value) <=> last = n
    <3> DEFINE two == Cut(value, one)
               count == IF HasSecondFilename(action) THEN 2 ELSE 1
    <3>1. LvsFill(value, count + 1) <=> last = n
      <4>1. LvsFill(value, 2) <=> n = two
        BY LvsFillIs
      <4>2. LvsFill(value, 3) <=> n = Cut(value, two)
        BY LvsFillIs
      <4> HIDE DEF one, n
      <4> QED BY <4>1, <4>2
    <3> HIDE DEF last
    <3> QED BY <1>6, <2>1, <3>1 DEF IsParameter
  <2>13. (r # 0 /\ m # 0 /\ r + m + 1 = n) <=> last = n
    <3>1. CASE r = 0
      <4>1. end > n
        <5> HIDE DEF end, r, n
        <5> QED BY <1>3, <2>7, <2>8, <3>1
      <4>2. last # n
        <5> HIDE DEF end, n, last
        <5> QED BY <1>3, <2>8, <4>1
      <4> QED BY <3>1, <4>2
    <3>2. CASE r # 0
      <4>1. r \in Nat /\ 1 + r = end /\ m \in Nat /\ (m # 0 <=> last <= n)
            /\ (m # 0 => end + m = last)
        <5> HIDE DEF end, n, last, r, m
        <5> QED BY <2>7, <2>10, <3>2
      <4> HIDE DEF end, n, last, r, m
      <4>2. CASE m = 0
        <5>1. last # n
          BY <1>3, <4>1, <4>2
        <5> QED BY <4>2, <5>1
      <4>3. CASE m # 0
        <5>1. end + m = last
          BY <4>1, <4>3
        <5> QED BY <1>3, <2>8, <3>2, <4>1, <4>3, <5>1
      <4> QED BY <4>2, <4>3
    <3> QED BY <3>1, <3>2
  <2>14. decoded.ret # 0 <=> r # 0 /\ m # 0 /\ r + m + 1 = n
    <3>1. size # 0
      BY <1>2
    <3> HIDE DEF decoded, n, r, m
    <3> QED BY <2>4, <3>1
  <2>15. decoded.ret # 0 <=> IsParameter("response", value)
    <3> HIDE DEF decoded, r, m, n, last
    <3> QED BY <2>12, <2>13, <2>14
  <2>16. ASSUME decoded.ret # 0
         PROVE  decoded.ret = size /\ ResponseSerialize(decoded.tlv, size) = octets
    <3>1. r # 0 /\ m # 0 /\ r + m + 1 = n /\ last = n
      <4> HIDE DEF decoded, r, m, n, last
      <4> QED BY <2>13, <2>14, <2>16
    <3>2. decoded.ret = size /\ decoded.tlv = told
      <4> HIDE DEF decoded, n, r, m, told
      <4> QED BY <2>4, <3>1
    <3>3. r \in Nat /\ m \in Nat /\ 1 + r = end /\ end + m = n
      <4> HIDE DEF r, m, n, last, end
      <4> QED BY <2>7, <2>10, <3>1
    <3> DEFINE room == size - CFDP_TLV_HEADER_LEN - 1
               front == Slice(value, 1, end)
               back == Slice(value, end, n)
    <3>4. room \in Int /\ room >= r /\ room - r \in Int /\ room - r >= m
      <4>1. room = n - 1
        <5> HIDE DEF n
        <5> QED BY <1>2, <1>3 DEF CFDP_TLV_HEADER_LEN
      <4> HIDE DEF r, m, n, room
      <4> QED BY <1>3, <3>1, <3>3, <4>1
    <3>5. NamesSerialize(told, room) = front
      <4> HIDE DEF names, told, room, end
      <4>1. NamesSerialize(names.tlv, room) = Slice(value, 1, end)
        BY <2>7, <3>1, <3>4
      <4> QED BY <2>11, <4>1
    <3>6. 1 \in Nat /\ n \in Nat /\ end \in Nat /\ 1 <= end /\ end <= n /\ n <= Len(value)
          /\ end - 1 = r /\ n - end = m
      <4>1. end <= n /\ end - 1 = r /\ n - end = m
        <5> HIDE DEF r, m, n, end
        <5> QED BY <1>3, <2>8, <3>3
      <4> HIDE DEF end
      <4> QED BY <1>3, <2>8, <4>1
    <3>7. front \in Seq(Octet) /\ Len(front) = r /\ back \in Seq(Octet) /\ Len(back) = m
      <4> HIDE DEF r, m, n, end
      <4>1. front \in Seq(Octet) /\ Len(front) = r
        <5>1. end <= Len(value)
          BY <1>3, <3>6 DEF n
        <5> QED BY <1>2, <3>6, <5>1, SliceType
      <4>2. back \in Seq(Octet) /\ Len(back) = m
        BY <1>2, <3>6, SliceType
      <4> QED BY <4>1, <4>2
    <3>8. front # << >> /\ back # << >>
      <4> HIDE DEF front, back, r, m
      <4> QED BY <3>1, <3>7
    <3>9. LvOctets(told.message, room - Len(front)) = back
      <4>1. LvOctets(LvOf(message), room - r) = Slice(value, end, end + m)
        <5> HIDE DEF message, r, end, room
        <5> QED BY <2>10, <3>1, <3>4
      <4> HIDE DEF message, told, r, m, end, n, front, room
      <4> QED BY <2>11, <3>3, <3>7, <4>1
    <3>10. <<16 * action + status>> \o front \o back = value
      <4> HIDE DEF r, m, end, action, status
      <4>1. Slice(value, 0, 0 + 1) = <<At(value, 0)>>
        <5>1. 0 < Len(value)
          BY <1>3, <1>6
        <5> QED BY <1>2, <5>1, SliceOne
      <4>2. Slice(value, 0, 1) = <<16 * action + status>>
        BY <2>1, <2>2, <4>1
      <4> HIDE DEF n
      <4>3. Slice(value, 0, 1) \o front = Slice(value, 0, end)
        <5>1. /\ value \in Seq(Octet) /\ 0 \in Nat /\ 1 \in Nat /\ end \in Nat
              /\ 0 <= 1 /\ 1 <= end /\ end <= Len(value)
          BY <1>2, <1>3, <3>6 DEF n
        <5>2. Slice(value, 0, 1) \o Slice(value, 1, end) = Slice(value, 0, end)
          BY ONLY <5>1, SlicesJoin
        <5> QED BY <5>2
      <4>4. Slice(value, 0, end) \o back = Slice(value, 0, n)
        <5>1. /\ value \in Seq(Octet) /\ 0 \in Nat /\ end \in Nat /\ n \in Nat
              /\ 0 <= end /\ end <= n /\ n <= Len(value)
          BY <1>2, <3>6
        <5>2. Slice(value, 0, end) \o Slice(value, end, n) = Slice(value, 0, n)
          BY ONLY <5>1, SlicesJoin
        <5> QED BY <5>2
      <4>5. Slice(value, 0, n) = value
        BY <1>2, SubSeqFull DEF Slice, n
      <4> HIDE DEF front, back
      <4> QED BY <4>2, <4>3, <4>4, <4>5
    <3>11. told.action_code = action /\ told.status_code = status
      <4> HIDE DEF told, names
      <4> QED BY <2>7, <2>11, <3>1
    <3>12. ResponseSerialize(told, size) = FilestoreTlvFinish(CFDP_TLV_FILESTORE_RESPONSE, value)
      <4>1. ~ (size < CFDP_TLV_HEADER_LEN + 1)
        <5> HIDE DEF n
        <5> QED BY <1>2, <1>3, <1>6 DEF CFDP_TLV_HEADER_LEN
      <4> HIDE DEF told, front, back, action, status
      <4> QED BY <1>6, <3>5, <3>8, <3>9, <3>10, <3>11, <4>1 DEF ResponseSerialize
    <3>13. FilestoreTlvFinish(CFDP_TLV_FILESTORE_RESPONSE, value) = octets
      <4>1. ~ (n > UINT8_MAX)
        <5> HIDE DEF n
        <5> QED BY <1>3 DEF UINT8_MAX
      <4> QED BY <1>2, <4>1 DEF FilestoreTlvFinish
    <3> HIDE DEF decoded, told
    <3> QED BY <3>2, <3>12, <3>13
  <2> HIDE DEF decoded
  <2> QED BY <2>15, <2>16 DEF TakenWhole, Encode, Canonical, value, size, octets, decoded
<1> QED BY <1>3, <1>4, <1>5, <1>6

(* A Fault Handler Override: one octet that holds two valid codes.         *)
LEMMA OverrideTaken ==
  ASSUME NEW buf \in Seq(Octet), TlvSize(buf) > 0,
         At(buf, 0) = CFDP_TLV_FAULT_HANDLER_OVERRIDE, NEW o \in Override
  PROVE  TakenWhole("override", buf, OverrideDeserialize(buf, o))
<1> DEFINE value == Slice(buf, CFDP_TLV_HEADER_LEN, TlvSize(buf))
           n == Len(value)
           condition == value[1] \div 16
           handler == value[1] % 16
           decoded == OverrideDeserialize(buf, o)
           size == TlvSize(buf)
           octets == Slice(buf, 0, size)
<1>1. InFront(buf, value)
  BY Parted
<1> HIDE DEF value, octets, size
<1>2. /\ value \in Seq(Octet) /\ n = At(buf, 1) /\ size = n + 2 /\ n \in Nat
      /\ octets = <<CFDP_TLV_FAULT_HANDLER_OVERRIDE, n>> \o value
      /\ n >= 1 => value[1] = At(buf, 2)
      /\ TlvSize(buf) > 0 /\ TlvSize(buf) = size
  BY <1>1, LenProperties DEF InFront, octets, size
<1>3. CASE n = 1 /\ OverrideValid(condition, handler)
  <2>1. decoded = [ret |-> size, tlv |-> [condition_code |-> condition, handler_code |-> handler]]
    <3>1. At(buf, 2) \div 16 = condition /\ At(buf, 2) % 16 = handler /\ At(buf, 1) = 1
      <4>1. value[1] = At(buf, 2) /\ At(buf, 1) = 1
        <5> HIDE DEF n, condition, handler
        <5> QED BY <1>2, <1>3
      <4> QED BY <4>1
    <3> HIDE DEF condition, handler
    <3> QED BY <1>2, <1>3, <3>1 DEF OverrideDeserialize
  <2>2. IsParameter("override", value)
    BY <1>3 DEF IsParameter
  <2>3. value = <<value[1]>> /\ value[1] \in Octet
    <3>1. Len(value) = 1 /\ value \in Seq(Octet)
      BY <1>2, <1>3
    <3>2. value = <<value[1]>>
      BY ONLY <3>1
    <3>3. value[1] \in Octet
      <4>1. 0 < Len(value)
        BY <3>1
      <4>2. At(value, 0) \in Octet
        BY <3>1, <4>1, AtType
      <4> QED BY <4>2 DEF At
    <3> QED BY <3>2, <3>3
  <2>4. 16 * condition + handler = value[1]
    BY <2>3, ActionOctet
  <2>5. octets = <<CFDP_TLV_FAULT_HANDLER_OVERRIDE, 1, value[1]>>
    <3>1. octets = <<CFDP_TLV_FAULT_HANDLER_OVERRIDE, 1>> \o <<value[1]>>
      BY <1>2, <1>3, <2>3
    <3> DEFINE code == CFDP_TLV_FAULT_HANDLER_OVERRIDE
               octet == value[1]
    <3>2. octets = <<code, 1>> \o <<octet>>
      BY <3>1
    <3>3. <<code, 1>> \o <<octet>> = <<code, 1, octet>>
      <4> DEFINE x == <<code, 1>>
                 y == <<octet>>
                 z == <<code, 1, octet>>
      <4>1. code \in Octet /\ 1 \in Octet /\ octet \in Octet
        BY <2>3 DEF Octet, CFDP_TLV_FAULT_HANDLER_OVERRIDE
      <4> HIDE DEF code, octet
      <4>2. /\ x \in Seq(Octet) /\ Len(x) = 2 /\ y \in Seq(Octet) /\ Len(y) = 1
            /\ z \in Seq(Octet) /\ Len(z) = 3
            /\ x[1] = code /\ x[2] = 1 /\ y[1] = octet
            /\ z[1] = code /\ z[2] = 1 /\ z[3] = octet
        BY <4>1
      <4> HIDE DEF x, y, z
      <4>3. \A i \in 1 .. Len(z) : z[i] = IF i <= Len(x) THEN x[i] ELSE y[i - Len(x)]
        BY <4>2
      <4>4. Len(x) + Len(y) = Len(z)
        BY <4>2
      <4>5. x \o y = z
        BY <4>2, <4>3, <4>4, ConcatIs
      <4> QED BY <4>5 DEF x, y, z
    <3> HIDE DEF code, octet
    <3>4. octets = <<code, 1, octet>>
      BY <3>2, <3>3
    <3> QED BY <3>4 DEF code, octet
  <2>6. size = 3
    <3> HIDE DEF n
    <3> QED BY <1>2, <1>3
  <2>7. OverrideSerialize(decoded.tlv, size) = octets
    <3>1. decoded.tlv.condition_code = condition /\ decoded.tlv.handler_code = handler
      BY <2>1
    <3> HIDE DEF decoded, condition, handler
    <3> QED BY <1>3, <2>4, <2>5, <2>6, <3>1 DEF OverrideSerialize, CFDP_TLV_HEADER_LEN
  <2>8. decoded.ret = size /\ decoded.ret # 0
    BY <2>1, <2>6
  <2> HIDE DEF decoded
  <2> QED BY <2>2, <2>7, <2>8 DEF TakenWhole, Encode, Canonical, value, size, octets, decoded
<1>4. CASE ~ (n = 1 /\ OverrideValid(condition, handler))
  <2>1. decoded.ret = 0
    BY <1>2, <1>4 DEF OverrideDeserialize
  <2>2. ~ IsParameter("override", value)
    BY <1>4 DEF IsParameter
  <2> HIDE DEF decoded
  <2> QED BY <2>1, <2>2 DEF TakenWhole, value, decoded
<1> QED BY <1>3, <1>4

(* A TLV without a decoder of its own: any value will do.                  *)
LEMMA OtherTaken ==
  ASSUME NEW buf \in Seq(Octet), TlvSize(buf) > 0, NEW tlv \in Tlv
  PROVE  TakenWhole("other", buf, TlvDeserialize(buf, tlv))
<1> DEFINE value == Slice(buf, CFDP_TLV_HEADER_LEN, TlvSize(buf))
           n == Len(value)
           decoded == TlvDeserialize(buf, tlv)
           size == TlvSize(buf)
           octets == Slice(buf, 0, size)
<1>1. InFront(buf, value)
  BY Parted
<1>2. decoded = [ret |-> size, tlv |-> [type |-> At(buf, 0), length |-> At(buf, 1),
                   value |-> IF At(buf, 1) > 0 THEN PointerTo(value) ELSE Null]]
  BY DEF TlvDeserialize
<1> HIDE DEF value, octets, size, decoded
<1>3. /\ value \in Seq(Octet) /\ n = At(buf, 1) /\ size = n + 2 /\ n \in Nat
      /\ octets = <<At(buf, 0), n>> \o value
  BY <1>1, LenProperties DEF InFront, octets, size
<1>4. IsParameter("other", value)
  BY DEF IsParameter
<1>5. decoded.ret = size /\ size # 0 /\ ~ (size < n + CFDP_TLV_HEADER_LEN)
  <2> HIDE DEF n
  <2> QED BY <1>2, <1>3 DEF CFDP_TLV_HEADER_LEN
<1>6. /\ decoded.tlv.type = At(buf, 0) /\ decoded.tlv.length = n
      /\ decoded.tlv.value = IF n > 0 THEN PointerTo(value) ELSE Null
  <2> HIDE DEF n
  <2> QED BY <1>2, <1>3
<1>7. Copied(decoded.tlv.value, n) = value
  <2>1. CASE n = 0
    <3>1. value = << >>
      BY <1>3, <2>1, EmptySeq
    <3> HIDE DEF n
    <3> QED BY <2>1, <3>1 DEF Copied
  <2>2. CASE n # 0
    <3>1. decoded.tlv.value = PointerTo(value)
      <4> HIDE DEF n
      <4> QED BY <1>3, <1>6, <2>2
    <3>2. Slice(value, 0, n) = value
      BY <1>3, SubSeqFull DEF Slice
    <3> HIDE DEF n
    <3> QED BY <2>2, <3>1, <3>2 DEF Copied, PointerTo
  <2> QED BY <2>1, <2>2
<1>8. ~ (decoded.tlv.value = Null /\ n > 0)
  <2> HIDE DEF n
  <2> QED BY <1>6 DEF PointerTo, Null
<1>9. TlvSerialize(decoded.tlv, size) = octets
  <2> HIDE DEF n
  <2> QED BY <1>3, <1>5, <1>6, <1>7, <1>8 DEF TlvSerialize
<1> QED BY <1>4, <1>5, <1>9 DEF TakenWhole, Encode, Canonical, value, size, octets, decoded

(* Whichever decoder the type of the TLV in front calls for.               *)
LEMMA DecodeTaken ==
  ASSUME NEW buf \in Seq(Octet), TlvSize(buf) > 0, NEW kind \in Kinds,
         KindOf(At(buf, 0)) = kind, NEW s \in Structures
  PROVE  TakenWhole(kind, buf, Decode(kind, buf, s[kind]))
<1>1. kind \in {"request", "response", "override", "other"}
  BY DEF Kinds, Clear
<1>2. /\ s.request \in Request /\ s.response \in Response
      /\ s.override \in Override /\ s.other \in Tlv
  BY DEF Structures
<1>3. CASE kind = "request"
  <2>1. At(buf, 0) = CFDP_TLV_FILESTORE_REQUEST
    BY <1>3 DEF KindOf
  <2> QED BY <1>2, <1>3, <2>1, RequestTaken DEF Decode
<1>4. CASE kind = "response"
  <2>1. At(buf, 0) = CFDP_TLV_FILESTORE_RESPONSE
    BY <1>4 DEF KindOf
  <2> QED BY <1>2, <1>4, <2>1, ResponseTaken DEF Decode
<1>5. CASE kind = "override"
  <2>1. At(buf, 0) = CFDP_TLV_FAULT_HANDLER_OVERRIDE
    BY <1>5 DEF KindOf
  <2> QED BY <1>2, <1>5, <2>1, OverrideTaken DEF Decode
<1>6. CASE kind = "other"
  BY <1>2, <1>6, OtherTaken DEF Decode
<1> QED BY <1>1, <1>3, <1>4, <1>5, <1>6

(* What the two properties say of one TLV met in the walk.                 *)
TakenRightly(octets, t) ==
  /\ t.ret # 0 <=> IsParameter(t.kind, Slice(octets, t.at + CFDP_TLV_HEADER_LEN, t.end))
  /\ t.ret # 0 =>
       /\ t.ret = t.end - t.at
       /\ Encode(t.kind, t.tlv, t.ret) = Canonical(t.kind, Slice(octets, t.at, t.end))

(* And so of all of them.                                                  *)
AllRightly == \A i \in DOMAIN taken : TakenRightly(span, taken[i])

(* The TLV in front is taken rightly, and those taken stay as they are.    *)
LEMMA TakeRightly ==
  ASSUME IInv, AllRightly, NEW kind \in Kinds, Take(kind)
  PROVE  AllRightly'
<1> DEFINE decoded == Decode(kind, Rest, got[kind])
           size == TlvSize(Rest)
           end == pos + size
           met == [at |-> pos, end |-> end, kind |-> kind,
                   ret |-> decoded.ret, tlv |-> decoded.tlv]
<1>1. /\ size > 0 /\ KindOf(At(Rest, 0)) = kind
      /\ taken' = Append(taken, met) /\ span' = span
  BY DEF Take
<1>2. /\ Rest \in Seq(Octet) /\ size \in Nat /\ end \in Nat /\ end <= Len(span)
  BY <1>1, NextParameter
<1>3. got \in Structures /\ span \in Seq(Octet) /\ pos \in Nat /\ pos <= Len(span)
      /\ Len(span) \in Nat
  BY LenProperties DEF IInv, TypeOK, OnBoundary
<1>4. TakenWhole(kind, Rest, decoded)
  BY <1>1, <1>2, <1>3, DecodeTaken
<1>5. size >= 2
  BY <1>1, <1>2, TlvSizeBound DEF CFDP_TLV_HEADER_LEN
<1> HIDE DEF decoded, size
<1>6. pos < Len(span) /\ size <= Len(span) - pos
  BY <1>2, <1>3, <1>5
<1>7. Slice(Rest, 2, size) = Slice(span, pos + 2, end)
  BY <1>2, <1>3, <1>5, <1>6, SliceOfRest DEF Rest
<1>8. Slice(Rest, 0, size) = Slice(span, pos, end)
  <2>1. Slice(Rest, 0, size) = Slice(span, pos + 0, pos + size)
    BY <1>2, <1>3, <1>6, SliceOfRest DEF Rest
  <2> QED BY <1>3, <2>1
<1>9. end - pos = size
  BY <1>2, <1>3
<1>10. /\ decoded.ret # 0 <=> IsParameter(kind, Slice(span, pos + CFDP_TLV_HEADER_LEN, end))
       /\ decoded.ret # 0 =>
            /\ decoded.ret = end - pos
            /\ Encode(kind, decoded.tlv, decoded.ret)
                 = Canonical(kind, Slice(span, pos, end))
  <2>1. CFDP_TLV_HEADER_LEN = 2
    BY DEF CFDP_TLV_HEADER_LEN
  <2> HIDE DEF end
  <2> QED BY <1>4, <1>7, <1>8, <1>9, <2>1 DEF TakenWhole, size
<1> HIDE DEF end
<1>11. TakenRightly(span, met)
  BY <1>10 DEF TakenRightly
<1> HIDE DEF met
<1>12. taken \in Seq(Met) /\ met \in Met
  <2>1. decoded.ret \in Nat /\ decoded.tlv \in Request \cup Response \cup Override \cup Tlv
    BY <1>2, <1>3, DecodeType DEF decoded
  <2> QED BY <1>2, <1>3, <2>1 DEF IInv, TypeOK, Met, met
<1>13. ASSUME NEW i \in DOMAIN taken' PROVE TakenRightly(span, taken'[i])
  <2>1. /\ DOMAIN taken' = 1 .. Len(taken) + 1 /\ DOMAIN taken = 1 .. Len(taken)
        /\ taken'[Len(taken) + 1] = met
        /\ \A k \in 1 .. Len(taken) : taken'[k] = taken[k]
        /\ Len(taken) \in Nat
    BY <1>1, <1>12, AppendProperties, LenProperties
  <2>2. CASE i = Len(taken) + 1
    BY <1>11, <2>1, <2>2
  <2>3. CASE i # Len(taken) + 1
    <3>1. i \in 1 .. Len(taken)
      BY <2>1, <2>3
    <3> QED BY <2>1, <3>1 DEF AllRightly
  <2> QED BY <2>2, <2>3
<1> QED BY <1>1, <1>13 DEF AllRightly

(* So is every TLV of the walk.                                            *)
LEMMA NextRightly ==
  ASSUME IInv, AllRightly, [Next]_vars
  PROVE  AllRightly'
<1>1. CASE \E s \in Spans : Begin(s)
  BY <1>1 DEF AllRightly, Begin
<1>2. CASE \E kind \in Kinds : Take(kind)
  BY <1>2, TakeRightly
<1>3. CASE Stop
  BY <1>3 DEF AllRightly, Stop
<1>4. CASE UNCHANGED vars
  BY <1>4 DEF AllRightly, vars
<1> QED BY <1>1, <1>2, <1>3, <1>4 DEF Next, Advance

(* Every TLV met in the walk has been taken or refused rightly.            *)
THEOREM TakesRightly == Spec => []AllRightly
<1>1. Init => AllRightly
  BY DEF Init, AllRightly
<1>2. IInv /\ AllRightly /\ [Next]_vars => AllRightly'
  BY NextRightly
<1> QED BY <1>1, <1>2, Invariance, PTL DEF Spec

(* The decoders accept exactly the parameters of their kind, in every      *)
(* chain.                                                                  *)
THEOREM AcceptsExactly == Spec => []AcceptsParameters
<1>1. AllRightly => AcceptsParameters
  BY DEF AllRightly, TakenRightly, AcceptsParameters
<1> QED BY <1>1, TakesRightly, PTL

(* What a decoder accepts it has read from that TLV alone, to its last     *)
(* octet: encoded again it is those octets.                                *)
THEOREM ReadsItsOwnTlv == Spec => []KeepsToItsTlv
<1>1. AllRightly => KeepsToItsTlv
  BY DEF AllRightly, TakenRightly, KeepsToItsTlv, OctetsOf, Canonical
<1> QED BY <1>1, TakesRightly, PTL
=============================================================================
