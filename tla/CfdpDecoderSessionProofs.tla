----------------------- MODULE CfdpDecoderSessionProofs -----------------------
(***************************************************************************)
(* TLAPS proofs about CfdpDecoderSession, for all octets, all structures   *)
(* and all orders of calls: what each decoder makes of any octets in any   *)
(* structure, the inductive invariant that follows from it, that what a    *)
(* peer encoded is what is decoded, and that what is decoded is encoded as *)
(* the octets it came from.                                                *)
(***************************************************************************)
EXTENDS CfdpDecoderSession, CfdpLemmas

-----------------------------------------------------------------------------
(* What the decoders make of any octets.                                   *)

(* A result is of the structure's type, and when the octets are accepted   *)
(* it is what a clear structure would hold.                                *)
DecodedAlike(result, fresh, len, Type) ==
  /\ result.pdu \in Type /\ result.ret \in 0 .. len
  /\ result.ret = fresh.ret
  /\ result.ret > 0 => result.pdu = fresh.pdu

(* A refusal that leaves the structure as it was, or as far as it got.     *)
LEMMA RefusedAlike ==
  ASSUME NEW len \in Nat, NEW Type, NEW s \in Type, NEW t
  PROVE  DecodedAlike([ret |-> 0, pdu |-> s], [ret |-> 0, pdu |-> t], len, Type)
BY DEF DecodedAlike

(* An acceptance that leaves the same in any structure.                    *)
LEMMA AcceptedAlike ==
  ASSUME NEW len \in Nat, NEW ret \in 0 .. len, NEW Type, NEW s \in Type, NEW t,
         ret > 0 => s = t
  PROVE  DecodedAlike([ret |-> ret, pdu |-> s], [ret |-> ret, pdu |-> t], len, Type)
BY DEF DecodedAlike

(* cfdp_ack_deserialize, which writes its output last.                     *)
LEMMA AckDecoded ==
  ASSUME NEW buf \in Seq(Octet), NEW s \in Ack
  PROVE  /\ DecodedAlike(AckDeserialize(buf, s), AckDeserialize(buf, ClearAck), Len(buf), Ack)
         /\ AckDeserialize(buf, s).ret = 0 => AckDeserialize(buf, s).pdu = s
<1> DEFINE code == At(buf, 1) \div 16
           refused == \/ Len(buf) < AckLen
                      \/ At(buf, 0) # CFDP_DIRECTIVE_ACK
                      \/ ~ AckDirectiveValid(code)
                      \/ At(buf, 1) % 16 # AckDirectiveSubtype(code)
           condition == At(buf, 2) \div 16
           status == At(buf, 2) % 4
           Read(t) == [t EXCEPT !.ack_directive_code = code, !.condition_code = condition,
                                !.transaction_status = status]
<1>1. Len(buf) \in Nat /\ ClearAck \in Ack
  BY LenProperties DEF ClearAck, Ack
<1>2. \A t : AckDeserialize(buf, t) = IF refused THEN [ret |-> 0, pdu |-> t]
                                      ELSE [ret |-> AckLen, pdu |-> Read(t)]
  BY DEF AckDeserialize
<1>3. CASE refused
  <2> HIDE DEF refused
  <2>1. \A t : AckDeserialize(buf, t) = [ret |-> 0, pdu |-> t]
    BY <1>2, <1>3
  <2> QED BY <1>1, <2>1, RefusedAlike
<1>4. CASE ~ refused
  <2>1. AckLen <= Len(buf) /\ AckLen = 3 /\ AckDirectiveValid(code)
    BY <1>1, <1>4 DEF AckLen
  <2>2. At(buf, 1) \in Octet /\ At(buf, 2) \in Octet
    BY <1>1, <2>1, AtType
  <2>3. code \in {CFDP_DIRECTIVE_EOF, CFDP_DIRECTIVE_FINISHED}
    BY <2>1 DEF AckDirectiveValid
  <2>4. At(buf, 2) \div 16 \in 0 .. 15 /\ At(buf, 2) % 4 \in 0 .. 3
    BY <2>2, HalvesOfOctet
  <2>5. \A t : AckDeserialize(buf, t) = [ret |-> AckLen, pdu |-> Read(t)]
    <3> HIDE DEF refused, Read
    <3> QED BY <1>2, <1>4
  <2> HIDE DEF refused, code, condition, status
  <2>6. Read(s) \in Ack /\ Read(s) = Read(ClearAck)
    <3>1. ASSUME NEW t \in Ack, NEW u \in Ack PROVE Read(t) = Read(u)
      BY DEF Ack
    <3>2. condition \in 0 .. 15 /\ status \in 0 .. 3
      BY <2>4 DEF condition, status
    <3> QED BY <1>1, <2>3, <3>1, <3>2 DEF Ack
  <2> HIDE DEF Read
  <2> QED BY <1>1, <2>1, <2>5, <2>6, AcceptedAlike
<1> QED BY <1>3, <1>4

(* cfdp_prompt_deserialize, which writes its output last.                  *)
LEMMA PromptDecoded ==
  ASSUME NEW buf \in Seq(Octet), NEW s \in {0, 1}
  PROVE  /\ DecodedAlike(PromptDeserialize(buf, s), PromptDeserialize(buf, 0), Len(buf), {0, 1})
         /\ PromptDeserialize(buf, s).ret = 0 => PromptDeserialize(buf, s).pdu = s
<1> DEFINE refused == Len(buf) < PromptLen \/ At(buf, 0) # CFDP_DIRECTIVE_PROMPT
           response == At(buf, 1) \div 128
           Type == {0, 1}
<1>1. Len(buf) \in Nat /\ s \in Type
  BY LenProperties
<1>2. \A t : PromptDeserialize(buf, t) = IF refused THEN [ret |-> 0, pdu |-> t]
                                         ELSE [ret |-> PromptLen, pdu |-> response]
  BY DEF PromptDeserialize
<1>3. CASE refused
  <2> HIDE DEF refused, Type
  <2>1. \A t : PromptDeserialize(buf, t) = [ret |-> 0, pdu |-> t]
    BY <1>2, <1>3
  <2>2. /\ DecodedAlike(PromptDeserialize(buf, s), PromptDeserialize(buf, 0), Len(buf), Type)
        /\ PromptDeserialize(buf, s).pdu = s
    BY <1>1, <2>1, RefusedAlike
  <2> QED BY <2>2 DEF Type
<1>4. CASE ~ refused
  <2>1. PromptLen <= Len(buf) /\ PromptLen = 2
    BY <1>1, <1>4 DEF PromptLen
  <2>2. At(buf, 1) \in Octet
    BY <1>1, <2>1, AtType
  <2>3. response \in Type
    BY <2>2, HalvesOfOctet
  <2> HIDE DEF refused, response, Type
  <2>4. \A t : PromptDeserialize(buf, t) = [ret |-> PromptLen, pdu |-> response]
    BY <1>2, <1>4
  <2>5. /\ DecodedAlike(PromptDeserialize(buf, s), PromptDeserialize(buf, 0), Len(buf), Type)
        /\ PromptDeserialize(buf, s).ret # 0
    BY <1>1, <2>1, <2>3, <2>4, AcceptedAlike
  <2> QED BY <2>5 DEF Type
<1> QED BY <1>3, <1>4

(* cfdp_keep_alive_deserialize, which writes its output last.              *)
LEMMA KeepAliveDecoded ==
  ASSUME NEW buf \in Seq(Octet), NEW flag \in {0, 1}, NEW s \in UInt64
  PROVE  /\ DecodedAlike(KeepAliveDeserialize(buf, flag, s),
                         KeepAliveDeserialize(buf, flag, Zeros(8)), Len(buf), UInt64)
         /\ KeepAliveDeserialize(buf, flag, s).ret = 0
              => KeepAliveDeserialize(buf, flag, s).pdu = s
<1> DEFINE size == KeepAliveSize(flag)
           refused == Len(buf) < size \/ At(buf, 0) # CFDP_DIRECTIVE_KEEP_ALIVE
           progress == ReadUint(Slice(buf, 1, size))
<1>1. Len(buf) \in Nat
  BY LenProperties
<1>2. \A t : KeepAliveDeserialize(buf, flag, t) = IF refused THEN [ret |-> 0, pdu |-> t]
                                                  ELSE [ret |-> size, pdu |-> progress]
  BY DEF KeepAliveDeserialize
<1>3. CASE refused
  <2> HIDE DEF refused
  <2>1. \A t : KeepAliveDeserialize(buf, flag, t) = [ret |-> 0, pdu |-> t]
    BY <1>2, <1>3
  <2> QED BY <1>1, <2>1, RefusedAlike
<1>4. CASE ~ refused
  <2>1. size \in 5 .. 9
    BY DEF KeepAliveSize, FileSizeOctets
  <2>2. size <= Len(buf)
    <3> HIDE DEF size
    <3> QED BY <1>1, <1>4, <2>1
  <2>3. progress \in UInt64
    <3> HIDE DEF size
    <3>1. Slice(buf, 1, size) \in Seq(Octet) /\ Len(Slice(buf, 1, size)) = size - 1
      BY <2>1, <2>2, SliceType
    <3>2. Len(Slice(buf, 1, size)) <= 8
      BY <2>1, <3>1
    <3> QED BY <3>1, <3>2, ReadUintType
  <2> HIDE DEF refused, progress, size
  <2>4. \A t : KeepAliveDeserialize(buf, flag, t) = [ret |-> size, pdu |-> progress]
    BY <1>2, <1>4
  <2>5. size \in 0 .. Len(buf) /\ size # 0
    BY <1>1, <2>1, <2>2
  <2> QED BY <1>1, <2>3, <2>4, <2>5, AcceptedAlike
<1> QED BY <1>3, <1>4

(* cfdp_eof_deserialize: a fault location that was decoded before does not *)
(* survive an EOF without one.                                             *)
LEMMA EofDecoded ==
  ASSUME NEW buf \in Seq(Octet), NEW flag \in {0, 1}, NEW s \in Eof
  PROVE  DecodedAlike(EofDeserialize(buf, flag, s), EofDeserialize(buf, flag, ClearEof),
                      Len(buf), Eof)
<1> DEFINE size == EofSize(flag)
           rest == Slice(buf, size, Len(buf))
           tlv == EntityIdTlvSize(rest)
           id == EntityIdOf(rest)
           len == At(rest, 1)
           Fixed(t) == EofFixed(buf, flag, t)
           Located(t) == [t EXCEPT !.fault_location_entity_id = id,
                                   !.fault_location_len = len]
           refused == Len(buf) < size \/ At(buf, 0) # CFDP_DIRECTIVE_EOF
<1>1. size \in 10 .. 14 /\ Len(buf) \in Nat
  BY LenProperties DEF EofSize, FileSizeOctets
<1>2. \A t : EofDeserialize(buf, flag, t)
               = IF refused THEN [ret |-> 0, pdu |-> t]
                 ELSE IF Len(buf) = size THEN [ret |-> size, pdu |-> Fixed(t)]
                 ELSE IF tlv = 0 THEN [ret |-> 0, pdu |-> Fixed(t)]
                 ELSE [ret |-> size + tlv, pdu |-> Located(Fixed(t))]
  BY DEF EofDeserialize
<1>3. size <= Len(buf) => Fixed(s) \in Eof /\ Fixed(s) = Fixed(ClearEof)
  BY EofFixedType
<1>4. CASE refused
  <2> HIDE DEF refused
  <2>1. \A t : EofDeserialize(buf, flag, t) = [ret |-> 0, pdu |-> t]
    BY <1>2, <1>4
  <2> QED BY <1>1, <2>1, RefusedAlike
<1>5. CASE ~ refused /\ Len(buf) = size
  <2> HIDE DEF refused, Fixed, size
  <2>1. \A t : EofDeserialize(buf, flag, t) = [ret |-> size, pdu |-> Fixed(t)]
    BY <1>2, <1>5
  <2>2. size \in 0 .. Len(buf)
    BY <1>1, <1>5
  <2> QED BY <1>1, <1>3, <1>5, <2>1, <2>2, AcceptedAlike
<1>6. CASE ~ refused /\ Len(buf) # size
  <2>1. size < Len(buf)
    <3> HIDE DEF size
    <3> QED BY <1>1, <1>6
  <2>2. rest \in Seq(Octet) /\ Len(rest) = Len(buf) - size
    <3> HIDE DEF size
    <3> QED BY <1>1, <2>1, RestProperties
  <2> HIDE DEF rest
  <2>3. tlv # 0 => tlv \in 3 .. Len(rest) /\ len \in IdLengths /\ id \in UInt64
    BY <2>2, EntityIdType
  <2> HIDE DEF refused, Fixed, size, tlv, id, len, Located
  <2>4. CASE tlv = 0
    <3>1. \A t : EofDeserialize(buf, flag, t) = [ret |-> 0, pdu |-> Fixed(t)]
      BY <1>2, <1>6, <2>4
    <3> QED BY <1>1, <1>3, <2>1, <3>1, RefusedAlike
  <2>5. CASE tlv # 0
    <3>1. \A t : EofDeserialize(buf, flag, t) = [ret |-> size + tlv, pdu |-> Located(Fixed(t))]
      BY <1>2, <1>6, <2>5
    <3>2. size + tlv \in 0 .. Len(buf)
      BY <1>1, <2>1, <2>2, <2>3, <2>5
    <3>3. Located(Fixed(s)) = Located(Fixed(ClearEof))
      BY <1>1, <1>3, <2>1
    <3>4. Located(Fixed(s)) \in Eof
      <4>1. ASSUME NEW t \in Eof PROVE Located(t) \in Eof
        BY <2>3, <2>5, <4>1 DEF Eof, Located
      <4> QED BY <1>1, <1>3, <2>1, <4>1
    <3> QED BY <1>1, <3>1, <3>2, <3>3, <3>4, AcceptedAlike
  <2> QED BY <2>4, <2>5
<1> QED BY <1>4, <1>5, <1>6

(* The fixed part of a Metadata PDU does not depend on what was there,     *)
(* except for the names and options behind it.                             *)
LEMMA MetadataFixedType ==
  ASSUME NEW buf \in Seq(Octet), NEW flag \in {0, 1}, FileSizeOctets(flag) + 2 <= Len(buf),
         NEW s \in Metadata
  PROVE  MetadataFixed(buf, flag, s) \in Metadata
<1> DEFINE names == 2 + FileSizeOctets(flag)
           closure == (At(buf, 1) \div 64) % 2 # 0
           checksum == At(buf, 1) % 16
           octets == Slice(buf, 2, names)
           file_size == ReadUint(octets)
<1>1. names \in 6 .. 10 /\ names <= Len(buf) /\ Len(buf) \in Nat
  BY LenProperties DEF FileSizeOctets
<1>2. checksum \in 0 .. 15
  <2>1. At(buf, 1) \in Octet
    BY <1>1, AtType
  <2> QED BY <2>1, HalvesOfOctet
<1>3. octets \in Seq(Octet) /\ Len(octets) <= 8
  <2> HIDE DEF names
  <2>1. 2 \in Nat /\ names \in Nat /\ 2 <= names /\ names - 2 <= 8
    BY <1>1
  <2> QED BY <1>1, <2>1, SliceType
<1>4. closure \in BOOLEAN
  OBVIOUS
<1>5. MetadataFixed(buf, flag, s)
        = [s EXCEPT !.closure_requested = closure, !.checksum_type = checksum,
                    !.file_size = file_size]
  BY DEF MetadataFixed
<1> HIDE DEF octets, closure, checksum
<1>6. file_size \in UInt64
  BY <1>3, ReadUintType
<1> HIDE DEF file_size
<1> QED BY <1>2, <1>4, <1>5, <1>6 DEF Metadata

(* cfdp_metadata_deserialize: every field of an accepted PDU is written,   *)
(* whichever names and options it has.                                     *)
LEMMA MetadataDecoded ==
  ASSUME NEW buf \in Seq(Octet), NEW flag \in {0, 1}, NEW s \in Metadata
  PROVE  DecodedAlike(MetadataDeserialize(buf, flag, s),
                      MetadataDeserialize(buf, flag, ClearMetadata), Len(buf), Metadata)
<1> DEFINE names == FileSizeOctets(flag) + 2
           refused == Len(buf) < names \/ At(buf, 0) # CFDP_DIRECTIVE_METADATA
           source == LvDeserialize(Slice(buf, names, Len(buf)))
           destination == LvDeserialize(Slice(buf, names + source.ret, Len(buf)))
           pos == names + source.ret + destination.ret
           options == IF Len(buf) > pos THEN PointerTo(Slice(buf, pos, Len(buf))) ELSE Null
           options_len == (Len(buf) - pos) % SpanModulus
           Fixed(t) == MetadataFixed(buf, flag, t)
           Sourced(t) == [t EXCEPT !.source_filename = source.value,
                                   !.source_filename_len = source.len]
           Written(t) == [t EXCEPT !.destination_filename = destination.value,
                                  !.destination_filename_len = destination.len,
                                  !.options = options, !.options_len = options_len]
<1>1. names \in 6 .. 10 /\ Len(buf) \in Nat
  BY LenProperties DEF FileSizeOctets
<1>2. \A t : MetadataDeserialize(buf, flag, t)
               = IF refused THEN [ret |-> 0, pdu |-> t]
                 ELSE IF source.ret = 0 THEN [ret |-> 0, pdu |-> Fixed(t)]
                 ELSE IF destination.ret = 0 THEN [ret |-> 0, pdu |-> Sourced(Fixed(t))]
                 ELSE [ret |-> Len(buf), pdu |-> Written(Sourced(Fixed(t)))]
  BY DEF MetadataDeserialize
<1>3. CASE refused
  <2> HIDE DEF refused
  <2>1. \A t : MetadataDeserialize(buf, flag, t) = [ret |-> 0, pdu |-> t]
    BY <1>2, <1>3
  <2> QED BY <1>1, <2>1, RefusedAlike
<1>4. CASE ~ refused
  <2>1. names <= Len(buf)
    <3> HIDE DEF names
    <3> QED BY <1>1, <1>4
  <2>2. \A t \in Metadata : Fixed(t) \in Metadata
    BY <2>1, MetadataFixedType
  <2>3. /\ source.ret \in Nat /\ names + source.ret <= Len(buf)
        /\ source.value \in Pointer /\ source.len \in Octet
    <3> DEFINE first == Slice(buf, names, Len(buf))
    <3>1. first \in Seq(Octet) /\ Len(first) = Len(buf) - names
      <4> HIDE DEF names
      <4>1. names \in Nat /\ Len(buf) <= Len(buf)
        BY <1>1
      <4> QED BY <1>1, <2>1, <4>1, SliceType
    <3> HIDE DEF first
    <3>2. /\ LvDeserialize(first).ret \in Nat /\ LvDeserialize(first).ret <= Len(first)
          /\ LvDeserialize(first).value \in Pointer /\ LvDeserialize(first).len \in Octet
      BY <3>1, LvDeserializeType
    <3> HIDE DEF names
    <3>3. names + LvDeserialize(first).ret <= Len(buf)
      BY <1>1, <3>1, <3>2
    <3> QED BY <3>2, <3>3 DEF first
  <2>4. /\ destination.ret \in Nat /\ pos <= Len(buf)
        /\ destination.value \in Pointer /\ destination.len \in Octet
    <3> DEFINE at == names + source.ret
               second == Slice(buf, at, Len(buf))
    <3>1. at \in Nat /\ at <= Len(buf) /\ Len(buf) <= Len(buf)
      <4> HIDE DEF names, source
      <4> QED BY <1>1, <2>3
    <3> HIDE DEF at
    <3>2. second \in Seq(Octet) /\ Len(second) = Len(buf) - at
      BY <1>1, <3>1, SliceType
    <3> HIDE DEF second
    <3>3. /\ LvDeserialize(second).ret \in Nat /\ LvDeserialize(second).ret <= Len(second)
          /\ LvDeserialize(second).value \in Pointer /\ LvDeserialize(second).len \in Octet
      BY <3>2, LvDeserializeType
    <3>4. at + LvDeserialize(second).ret <= Len(buf)
      BY <1>1, <3>1, <3>2, <3>3
    <3> QED BY <3>3, <3>4 DEF second, at
  <2>5. pos \in Nat
    <3> DEFINE a == source.ret
               b == destination.ret
    <3>1. pos = names + a + b /\ a \in Nat /\ b \in Nat
      BY <2>3, <2>4
    <3> HIDE DEF names, a, b, pos
    <3> QED BY <1>1, <3>1
  <2>6. options \in Pointer
    <3> HIDE DEF pos
    <3>1. Slice(buf, pos, Len(buf)) \in Seq(Octet)
      <4>1. Len(buf) <= Len(buf)
        BY <1>1
      <4> QED BY <1>1, <2>4, <2>5, <4>1, SliceType
    <3> QED BY <3>1, PointerToType
  <2>7. options_len \in Nat
    <3> DEFINE more == Len(buf) - pos
    <3>1. more \in Int
      <4> HIDE DEF pos
      <4> QED BY <1>1, <2>5
    <3> HIDE DEF more
    <3>2. more % SpanModulus \in 0 .. SpanModulus - 1
      BY <3>1, SpanAssumption, Remainder
    <3>3. more % SpanModulus \in Nat
      BY <3>2, SpanAssumption
    <3> QED BY <3>3 DEF more
  <2>8. Fixed(s) \in Metadata /\ Fixed(ClearMetadata) \in Metadata
    BY <2>2, ClearMetadataType DEF ClearMetadataIsMetadata
  <2>9. /\ Fixed(s).closure_requested = Fixed(ClearMetadata).closure_requested
        /\ Fixed(s).checksum_type = Fixed(ClearMetadata).checksum_type
        /\ Fixed(s).file_size = Fixed(ClearMetadata).file_size
    <3> DEFINE closure == (At(buf, 1) \div 64) % 2 # 0
               checksum == At(buf, 1) % 16
               file_size == ReadUint(Slice(buf, 2, 2 + FileSizeOctets(flag)))
    <3>1. \A t : Fixed(t) = [t EXCEPT !.closure_requested = closure,
                                      !.checksum_type = checksum, !.file_size = file_size]
      BY DEF MetadataFixed
    <3> HIDE DEF closure, checksum, file_size, Fixed
    <3>2. ASSUME NEW t \in Metadata
          PROVE  /\ Fixed(t).closure_requested = closure /\ Fixed(t).checksum_type = checksum
                 /\ Fixed(t).file_size = file_size
      BY <3>1 DEF Metadata
    <3> QED BY <3>2, ClearMetadataType DEF ClearMetadataIsMetadata
  <2> DEFINE value == source.value
             len == source.len
             value2 == destination.value
             len2 == destination.len
  <2>10. \A t \in Metadata : Sourced(t) \in Metadata
    <3>1. \A t : Sourced(t) = [t EXCEPT !.source_filename = value, !.source_filename_len = len]
      OBVIOUS
    <3>2. value \in Pointer /\ len \in Octet
      BY <2>3
    <3> HIDE DEF Sourced, value, len
    <3> QED BY <3>1, <3>2 DEF Metadata
  <2>11. \A t \in Metadata : Written(t) \in Metadata
    <3>1. \A t : Written(t) = [t EXCEPT !.destination_filename = value2,
                                       !.destination_filename_len = len2,
                                       !.options = options, !.options_len = options_len]
      OBVIOUS
    <3>2. value2 \in Pointer /\ len2 \in Octet
      BY <2>4
    <3> HIDE DEF Written, value2, len2, options, options_len
    <3> QED BY <2>6, <2>7, <3>1, <3>2 DEF Metadata
  <2>12. ASSUME NEW t \in Metadata, NEW u \in Metadata,
                t.closure_requested = u.closure_requested, t.checksum_type = u.checksum_type,
                t.file_size = u.file_size
         PROVE  Written(Sourced(t)) = Written(Sourced(u))
    <3> HIDE DEF source, destination, options, options_len
    <3> QED BY <2>12 DEF Metadata
  <2> HIDE DEF Written, Sourced, Fixed, refused, names, source, destination, pos
  <2>13. CASE source.ret = 0
    <3>1. \A t : MetadataDeserialize(buf, flag, t) = [ret |-> 0, pdu |-> Fixed(t)]
      BY <1>2, <1>4, <2>13
    <3> QED BY <1>1, <2>8, <3>1, RefusedAlike
  <2>14. CASE source.ret # 0 /\ destination.ret = 0
    <3>1. \A t : MetadataDeserialize(buf, flag, t) = [ret |-> 0, pdu |-> Sourced(Fixed(t))]
      BY <1>2, <1>4, <2>14
    <3> QED BY <1>1, <2>8, <2>10, <3>1, RefusedAlike
  <2>15. CASE source.ret # 0 /\ destination.ret # 0
    <3>1. \A t : MetadataDeserialize(buf, flag, t)
                   = [ret |-> Len(buf), pdu |-> Written(Sourced(Fixed(t)))]
      BY <1>2, <1>4, <2>15
    <3>2. Len(buf) \in 0 .. Len(buf)
      BY <1>1
    <3>3. Written(Sourced(Fixed(s))) \in Metadata
      BY <2>8, <2>10, <2>11
    <3>4. Written(Sourced(Fixed(s))) = Written(Sourced(Fixed(ClearMetadata)))
      BY <2>8, <2>9, <2>12
    <3> QED BY <1>1, <3>1, <3>2, <3>3, <3>4, AcceptedAlike
  <2> QED BY <2>13, <2>14, <2>15
<1> QED BY <1>3, <1>4

(* What the fixed octets say of a header.                                  *)
SameFlags(t, u) ==
  /\ t.version = u.version /\ t.pdu_type = u.pdu_type /\ t.direction = u.direction
  /\ t.transmission_mode = u.transmission_mode /\ t.crc_flag = u.crc_flag
  /\ t.large_file_flag = u.large_file_flag /\ t.data_field_length = u.data_field_length
  /\ t.segmentation_control = u.segmentation_control
  /\ t.entity_id_length = u.entity_id_length
  /\ t.segment_metadata_flag = u.segment_metadata_flag
  /\ t.transaction_seq_length = u.transaction_seq_length

(* They are written over whatever was in the structure.                    *)
LEMMA FlagsAlike ==
  ASSUME NEW buf, NEW s \in Header, NEW t \in Header
  PROVE  SameFlags(UnpackFlags(buf, s), UnpackFlags(buf, t))
<1> DEFINE o0 == At(buf, 0)
           o3 == At(buf, 3)
           Segment(bit) == IF (o0 \div 16) % 2 = FILE_DATA THEN bit % 2 ELSE 0
           version == o0 \div 32
           type == (o0 \div 16) % 2
           direction == (o0 \div 8) % 2
           mode == (o0 \div 4) % 2
           crc == (o0 \div 2) % 2
           large == o0 % 2
           len == ReadUint16(Slice(buf, 1, 3))
           control == Segment(o3 \div 128)
           idLen == ((o3 \div 16) % 8) + 1
           metadata == Segment(o3 \div 8)
           seqLen == (o3 % 8) + 1
           Flags(h) == [h EXCEPT
             !.version = version, !.pdu_type = type, !.direction = direction,
             !.transmission_mode = mode, !.crc_flag = crc, !.large_file_flag = large,
             !.data_field_length = len, !.segmentation_control = control,
             !.entity_id_length = idLen, !.segment_metadata_flag = metadata,
             !.transaction_seq_length = seqLen]
<1>1. \A h : UnpackFlags(buf, h) = Flags(h)
  BY DEF UnpackFlags
<1> HIDE DEF version, type, direction, mode, crc, large, len, control, idLen, metadata, seqLen
<1>2. SameFlags(Flags(s), Flags(t))
  BY ONLY s \in Header, t \in Header DEF Header, SameFlags
<1> HIDE DEF Flags
<1> QED BY <1>1, <1>2

(* With the identifiers set to the same, they are the same header.         *)
WithIdentifiers(hdr, source, number, destination) ==
  [hdr EXCEPT !.source_entity_id = source, !.transaction_seq_number = number,
              !.destination_entity_id = destination]

(* The flags are all of a header that the identifiers do not overwrite.    *)
LEMMA IdentifiedAlike ==
  ASSUME NEW t \in Header, NEW u \in Header, SameFlags(t, u), NEW a, NEW b, NEW c
  PROVE  WithIdentifiers(t, a, b, c) = WithIdentifiers(u, a, b, c)
BY DEF Header, SameFlags, WithIdentifiers

(* cfdp_pdu_header_deserialize, down to the segmentation control that only *)
(* a File Data PDU has.                                                    *)
LEMMA HeaderDecodedAlike ==
  ASSUME NEW buf \in Seq(Octet), NEW s \in Header
  PROVE  DecodedAlike(HeaderDeserialize(buf, s), HeaderDeserialize(buf, LocalHeader),
                      Len(buf), Header)
<1>1. Len(buf) \in Nat
  BY LenProperties
<1>2. CASE Len(buf) < CFDP_PDU_HEADER_FIXED_LEN
  <2>1. \A t : HeaderDeserialize(buf, t) = [ret |-> 0, pdu |-> t]
    BY <1>2 DEF HeaderDeserialize
  <2> QED BY <1>1, <2>1, RefusedAlike
<1>3. CASE ~ (Len(buf) < CFDP_PDU_HEADER_FIXED_LEN)
  <2> DEFINE Flags(t) == UnpackFlags(buf, t)
             m == Flags(s).entity_id_length
             n == Flags(s).transaction_seq_length
             size == HeaderSize(Flags(s))
             seqAt == CFDP_PDU_HEADER_FIXED_LEN + m
             dstAt == seqAt + n
             refused == Flags(s).version # CFDP_PROTOCOL_VERSION \/ size = 0 \/ Len(buf) < size
             source == ReadUint(Slice(buf, CFDP_PDU_HEADER_FIXED_LEN, seqAt))
             number == ReadUint(Slice(buf, seqAt, dstAt))
             destination == ReadUint(Slice(buf, dstAt, size))
             Identified(t) == WithIdentifiers(t, source, number, destination)
  <2>1. CFDP_PDU_HEADER_FIXED_LEN <= Len(buf) /\ CFDP_PDU_HEADER_FIXED_LEN = 4
    BY <1>1, <1>3 DEF CFDP_PDU_HEADER_FIXED_LEN
  <2>2. Flags(s) \in Header /\ Flags(LocalHeader) \in Header
    <3>1. LocalHeader \in Header /\ Len(buf) >= CFDP_PDU_HEADER_FIXED_LEN
      BY <1>1, <1>3, LocalHeaderType DEF CFDP_PDU_HEADER_FIXED_LEN
    <3> QED BY <3>1, UnpackedType
  <2>3. SameFlags(Flags(s), Flags(LocalHeader))
    BY LocalHeaderType, FlagsAlike
  <2>4. HeaderSize(Flags(LocalHeader)) = size
    <3> HIDE DEF Flags
    <3> QED BY <2>3 DEF HeaderSize, SameFlags
  <2>5. HeaderDeserialize(buf, s) = IF refused THEN [ret |-> 0, pdu |-> Flags(s)]
                                    ELSE [ret |-> size, pdu |-> Identified(Flags(s))]
    BY <1>3 DEF HeaderDeserialize, WithIdentifiers
  <2>6. HeaderDeserialize(buf, LocalHeader)
          = IF refused THEN [ret |-> 0, pdu |-> Flags(LocalHeader)]
            ELSE [ret |-> size, pdu |-> Identified(Flags(LocalHeader))]
    <3> DEFINE other == Flags(LocalHeader)
    <3>1. /\ other.version = Flags(s).version /\ other.entity_id_length = m
          /\ other.transaction_seq_length = n /\ HeaderSize(other) = size
      <4> HIDE DEF Flags
      <4> QED BY <2>3, <2>4 DEF SameFlags
    <3>2. HeaderDeserialize(buf, LocalHeader)
            = IF other.version # CFDP_PROTOCOL_VERSION \/ HeaderSize(other) = 0
                   \/ Len(buf) < HeaderSize(other)
              THEN [ret |-> 0, pdu |-> other]
              ELSE [ret |-> HeaderSize(other),
                    pdu |-> [other EXCEPT
                      !.source_entity_id =
                         ReadUint(Slice(buf, CFDP_PDU_HEADER_FIXED_LEN,
                                        CFDP_PDU_HEADER_FIXED_LEN + other.entity_id_length)),
                      !.transaction_seq_number =
                         ReadUint(Slice(buf, CFDP_PDU_HEADER_FIXED_LEN + other.entity_id_length,
                                        CFDP_PDU_HEADER_FIXED_LEN + other.entity_id_length
                                          + other.transaction_seq_length)),
                      !.destination_entity_id =
                         ReadUint(Slice(buf, CFDP_PDU_HEADER_FIXED_LEN + other.entity_id_length
                                               + other.transaction_seq_length,
                                        HeaderSize(other)))]]
      BY <1>3 DEF HeaderDeserialize, WithIdentifiers
    <3> HIDE DEF other, m, n, size
    <3> QED BY <3>1, <3>2 DEF other, WithIdentifiers
  <2> HIDE DEF Flags
  <2>7. CASE refused
    <3> HIDE DEF refused, Identified, size
    <3>1. /\ HeaderDeserialize(buf, s) = [ret |-> 0, pdu |-> Flags(s)]
          /\ HeaderDeserialize(buf, LocalHeader) = [ret |-> 0, pdu |-> Flags(LocalHeader)]
      BY <2>5, <2>6, <2>7
    <3> QED BY <1>1, <2>2, <3>1, RefusedAlike
  <2>8. CASE ~ refused
    <3>1. size # 0 /\ ~ (Len(buf) < size)
      BY <2>8
    <3>2. m \in 1 .. 8 /\ n \in 1 .. 8 /\ size = 4 + 2 * m + n
      BY <2>1, <3>1 DEF HeaderSize, IdLenValid, IdLengths, CFDP_ID_LEN_MIN, CFDP_ID_LEN_MAX
    <3>3. /\ HeaderDeserialize(buf, s) = [ret |-> size, pdu |-> Identified(Flags(s))]
          /\ HeaderDeserialize(buf, LocalHeader)
               = [ret |-> size, pdu |-> Identified(Flags(LocalHeader))]
      <4> HIDE DEF refused, Identified, size
      <4> QED BY <2>5, <2>6, <2>8
    <3> HIDE DEF m, n, size, refused
    <3>4. /\ seqAt \in Nat /\ dstAt \in Nat /\ size \in Nat /\ 4 <= seqAt /\ seqAt <= dstAt
          /\ dstAt <= size /\ size <= Len(buf)
          /\ seqAt - 4 <= 8 /\ dstAt - seqAt <= 8 /\ size - dstAt <= 8
      BY <1>1, <2>1, <3>1, <3>2
    <3> HIDE DEF seqAt, dstAt
    <3>5. ASSUME NEW from \in Nat, NEW to \in Nat, from <= to, to <= size, to - from <= 8
          PROVE  ReadUint(Slice(buf, from, to)) \in UInt64
      <4>1. to <= Len(buf)
        BY <1>1, <3>4, <3>5
      <4>2. Slice(buf, from, to) \in Seq(Octet) /\ Len(Slice(buf, from, to)) = to - from
        BY <3>5, <4>1, SliceType
      <4>3. Len(Slice(buf, from, to)) <= 8
        BY <3>5, <4>2
      <4> QED BY <4>2, <4>3, ReadUintType
    <3>6. source \in UInt64 /\ number \in UInt64 /\ destination \in UInt64
      <4>1. /\ 4 \in Nat /\ seqAt <= size /\ size <= size
        BY <3>4
      <4> QED BY <2>1, <3>4, <3>5, <4>1
    <3> HIDE DEF source, number, destination
    <3>7. ASSUME NEW t \in Header PROVE Identified(t) \in Header
      BY <3>6, <3>7 DEF Header, WithIdentifiers
    <3>8. Identified(Flags(s)) = Identified(Flags(LocalHeader))
      BY <2>2, <2>3, IdentifiedAlike
    <3>9. size \in 0 .. Len(buf)
      BY <1>1, <3>4
    <3> HIDE DEF Identified
    <3> QED BY <1>1, <2>2, <3>3, <3>7, <3>8, <3>9, AcceptedAlike
  <2> QED BY <2>7, <2>8
<1> QED BY <1>2, <1>3

(* What segment metadata leave in the structure.                           *)
SameMetadata(t, u) ==
  /\ t.record_continuation = u.record_continuation
  /\ t.segment_metadata = u.segment_metadata
  /\ t.segment_metadata_len = u.segment_metadata_len

(* The other fields are written over whatever was in the structure.        *)
WithData(fd, offset, pointer, len) ==
  [fd EXCEPT !.offset = offset, !.file_data = pointer, !.file_data_len = len]

(* A structure is overwritten but for what segment metadata leave in it.   *)
LEMMA FilledAlike ==
  ASSUME NEW t \in FileData, NEW u \in FileData, SameMetadata(t, u), NEW a, NEW b, NEW c
  PROVE  WithData(t, a, b, c) = WithData(u, a, b, c)
BY DEF FileData, SameMetadata, WithData

(* A structure with segment metadata attached.                             *)
WithMetadata(fd, state, pointer, len) ==
  [fd EXCEPT !.record_continuation = state, !.segment_metadata = pointer,
             !.segment_metadata_len = len]

(* Segment metadata leave the same in any structure.                       *)
LEMMA MetadataAlike ==
  ASSUME NEW t \in FileData, NEW u \in FileData, NEW state \in 0 .. 3, NEW pointer \in Pointer,
         NEW len \in Octet
  PROVE  /\ WithMetadata(t, state, pointer, len) \in FileData
         /\ SameMetadata(WithMetadata(t, state, pointer, len),
                         WithMetadata(u, state, pointer, len))
BY DEF FileData, SameMetadata, WithMetadata

(* Segment metadata that are announced and not there are of the types, too.*)
LEMMA AnnouncedType ==
  ASSUME NEW t \in FileData, NEW state \in 0 .. 3, NEW len \in Octet
  PROVE  [t EXCEPT !.record_continuation = state, !.segment_metadata_len = len] \in FileData
BY DEF FileData

(* Segment metadata announced by their first octet, if they are all there. *)
LEMMA FileDataDecoded ==
  ASSUME NEW buf \in Seq(Octet), NEW large \in {0, 1}, NEW flag \in {ABSENT, PRESENT},
         NEW s \in FileData
  PROVE  DecodedAlike(FileDataDeserialize(buf, large, flag, s),
                      FileDataDeserialize(buf, large, flag, NoFileData), Len(buf), FileData)
<1> DEFINE Reset(t) == WithMetadata(t, 0, Null, 0)
           o0 == At(buf, 0)
           len == o0 % 64
           state == o0 \div 64
           pointer == IF len > 0 THEN PointerTo(Slice(buf, 1, len + 1)) ELSE Null
           Announced(t) == [Reset(t) EXCEPT !.record_continuation = state,
                                            !.segment_metadata_len = len]
           Attached(t) == WithMetadata(t, state, pointer, len)
           Data(to) == IF Len(buf) > to THEN PointerTo(Slice(buf, to, Len(buf))) ELSE Null
           Written(t, from, to) ==
             WithData(t, ReadUint(Slice(buf, from, to)), Data(to), Len(buf) - to)
           size == FileSizeOctets(large)
<1>1. Len(buf) \in Nat /\ size \in 1 .. 8
  BY LenProperties, FileSizeWidth
<1>2. Null \in Pointer /\ 0 \in Octet /\ 0 \in 0 .. 3
  BY DEF Null, Pointer, Octet
<1>3. NoFileData \in FileData
  BY NoFileDataType
<1>4. ASSUME NEW t \in FileData
      PROVE  FileDataDeserialize(buf, large, flag, t)
               = IF flag = PRESENT
                 THEN IF Len(buf) < 1 THEN [ret |-> 0, pdu |-> Reset(t)]
                      ELSE IF Len(buf) < len + 1 THEN [ret |-> 0, pdu |-> Announced(t)]
                      ELSE IF len + 1 = 0 \/ Len(buf) < len + 1 + size
                      THEN [ret |-> 0, pdu |-> Attached(t)]
                      ELSE [ret |-> Len(buf), pdu |-> Written(Attached(t), len + 1, len + 1 + size)]
                 ELSE IF Len(buf) < 0 + size THEN [ret |-> 0, pdu |-> Reset(t)]
                      ELSE [ret |-> Len(buf), pdu |-> Written(Reset(t), 0, 0 + size)]
  <2> DEFINE Read == IF flag = PRESENT THEN SegmentMetadataRead(buf, Reset(t))
                     ELSE [ret |-> 0, pdu |-> Reset(t)]
  <2>1. FileDataDeserialize(buf, large, flag, t)
          = IF (flag = PRESENT /\ Read.ret = 0) \/ Len(buf) < Read.ret + size
            THEN [ret |-> 0, pdu |-> Read.pdu]
            ELSE [ret |-> Len(buf), pdu |-> Written(Read.pdu, Read.ret, Read.ret + size)]
    BY DEF FileDataDeserialize, WithMetadata, WithData
  <2>2. [Announced(t) EXCEPT !.segment_metadata = pointer] = Attached(t)
    <3> HIDE DEF pointer, state, len
    <3> QED BY DEF WithMetadata, FileData
  <2>3. SegmentMetadataRead(buf, Reset(t))
          = IF Len(buf) < 1 THEN [ret |-> 0, pdu |-> Reset(t)]
            ELSE IF Len(buf) < len + 1 THEN [ret |-> 0, pdu |-> Announced(t)]
            ELSE [ret |-> len + 1, pdu |-> [Announced(t) EXCEPT !.segment_metadata = pointer]]
    BY DEF SegmentMetadataRead
  <2> HIDE DEF Reset, Announced, Attached, Written, pointer, state, len, size
  <2>4. CASE flag # PRESENT
    <3>1. Read = [ret |-> 0, pdu |-> Reset(t)]
      BY <2>4
    <3> HIDE DEF Read
    <3> QED BY <2>1, <2>4, <3>1
  <2>5. CASE flag = PRESENT
    <3>1. Read = IF Len(buf) < 1 THEN [ret |-> 0, pdu |-> Reset(t)]
                 ELSE IF Len(buf) < len + 1 THEN [ret |-> 0, pdu |-> Announced(t)]
                 ELSE [ret |-> len + 1, pdu |-> Attached(t)]
      BY <2>2, <2>3, <2>5
    <3> HIDE DEF Read
    <3>2. CASE Len(buf) < 1
      BY <2>1, <2>5, <3>1, <3>2
    <3>3. CASE ~ (Len(buf) < 1) /\ Len(buf) < len + 1
      BY <2>1, <2>5, <3>1, <3>3
    <3>4. CASE ~ (Len(buf) < 1) /\ ~ (Len(buf) < len + 1)
      BY <2>1, <2>5, <3>1, <3>4
    <3> QED BY <3>2, <3>3, <3>4
  <2> QED BY <2>4, <2>5
<1> HIDE DEF Null
<1>5. ASSUME NEW t \in FileData, NEW from \in Nat, NEW to, to = from + size, to <= Len(buf)
      PROVE  Written(t, from, to) \in FileData
  <2>1. to \in Nat /\ from <= to /\ to - from <= 8 /\ Len(buf) <= Len(buf)
    BY <1>1, <1>5, SMTT(40)
  <2> DEFINE octets == Slice(buf, from, to)
             rest == Slice(buf, to, Len(buf))
             more == Len(buf) - to
  <2>2. octets \in Seq(Octet) /\ Len(octets) = to - from
    BY <1>5, <2>1, SliceType
  <2>3. rest \in Seq(Octet)
    BY <1>1, <1>5, <2>1, SliceType
  <2>4. more \in Nat
    BY <1>1, <1>5, <2>1
  <2> HIDE DEF octets, rest, more
  <2>5. ReadUint(octets) \in UInt64
    <3>1. Len(octets) <= 8
      BY <2>1, <2>2
    <3> QED BY <2>2, <3>1, ReadUintType
  <2>6. Data(to) \in Pointer
    <3>1. Data(to) = IF Len(buf) > to THEN PointerTo(rest) ELSE Null
      BY DEF rest
    <3> QED BY <1>2, <2>3, <3>1, PointerToType
  <2> DEFINE a == ReadUint(octets)
             b == Data(to)
  <2>7. Written(t, from, to) = WithData(t, a, b, more)
    BY DEF octets, more
  <2> HIDE DEF a, b, Written
  <2>8. a \in UInt64 /\ b \in Pointer
    BY <2>5, <2>6 DEF a, b
  <2>9. WithData(t, a, b, more) \in FileData
    BY <2>4, <2>8 DEF WithData, FileData
  <2> QED BY <2>7, <2>9
<1>6. ASSUME NEW t \in FileData
      PROVE  Reset(t) \in FileData /\ SameMetadata(Reset(t), Reset(NoFileData))
  BY <1>2, <1>3, MetadataAlike
<1> HIDE DEF Written, Reset, size
<1>7. ASSUME NEW t \in FileData, NEW u \in FileData, SameMetadata(t, u), NEW from, NEW to
      PROVE  Written(t, from, to) = Written(u, from, to)
  BY <1>7, FilledAlike DEF Written
<1>8. CASE flag # PRESENT
  <2>1. CASE Len(buf) < 0 + size
    <3>1. \A t \in FileData : FileDataDeserialize(buf, large, flag, t)
                                = [ret |-> 0, pdu |-> Reset(t)]
      BY <1>4, <1>8, <2>1
    <3> QED BY <1>1, <1>3, <1>6, <3>1, RefusedAlike
  <2>2. CASE ~ (Len(buf) < 0 + size)
    <3> DEFINE to == 0 + size
    <3>1. \A t \in FileData : FileDataDeserialize(buf, large, flag, t)
                                = [ret |-> Len(buf), pdu |-> Written(Reset(t), 0, to)]
      BY <1>4, <1>8, <2>2
    <3>2. to <= Len(buf) /\ Len(buf) \in 0 .. Len(buf) /\ 0 \in Nat
      BY <1>1, <2>2
    <3>3. Written(Reset(s), 0, to) \in FileData
      BY <1>5, <1>6, <3>2
    <3> HIDE DEF to
    <3>4. Written(Reset(s), 0, to) = Written(Reset(NoFileData), 0, to)
      BY <1>3, <1>6, <1>7
    <3> QED BY <1>1, <1>3, <3>1, <3>2, <3>3, <3>4, AcceptedAlike
  <2> QED BY <2>1, <2>2
<1>9. CASE flag = PRESENT /\ Len(buf) < 1
  <2>1. \A t \in FileData : FileDataDeserialize(buf, large, flag, t)
                              = [ret |-> 0, pdu |-> Reset(t)]
    BY <1>4, <1>9
  <2> QED BY <1>1, <1>3, <1>6, <2>1, RefusedAlike
<1>10. CASE flag = PRESENT /\ ~ (Len(buf) < 1)
  <2>1. o0 \in Octet
    BY <1>1, <1>10, AtType
  <2>2. len \in 0 .. 63 /\ state \in 0 .. 3
    <3> HIDE DEF o0
    <3> QED BY <2>1 DEF Octet
  <2>3. len \in Octet
    <3> HIDE DEF len
    <3> QED BY <2>2 DEF Octet
  <2>4. ASSUME NEW t \in FileData PROVE Announced(t) \in FileData
    <3> HIDE DEF len, state
    <3> QED BY <1>6, <2>2, <2>3, AnnouncedType
  <2>5. CASE Len(buf) < len + 1
    <3> HIDE DEF Announced, len
    <3>1. \A t \in FileData : FileDataDeserialize(buf, large, flag, t)
                                = [ret |-> 0, pdu |-> Announced(t)]
      BY <1>4, <1>10, <2>5
    <3> QED BY <1>1, <1>3, <2>4, <3>1, RefusedAlike
  <2>6. CASE ~ (Len(buf) < len + 1)
    <3> HIDE DEF len, state
    <3>1. Slice(buf, 1, len + 1) \in Seq(Octet)
      <4>1. 1 \in Nat /\ len + 1 \in Nat /\ 1 <= len + 1 /\ len + 1 <= Len(buf)
        BY <1>1, <2>2, <2>6
      <4> QED BY <4>1, SliceType
    <3>2. pointer \in Pointer
      BY <1>2, <3>1, PointerToType
    <3> HIDE DEF pointer
    <3>3. ASSUME NEW t \in FileData
          PROVE  Attached(t) \in FileData /\ SameMetadata(Attached(t), Attached(NoFileData))
      BY <1>3, <2>2, <2>3, <3>2, MetadataAlike
    <3> HIDE DEF Attached
    <3> DEFINE from == len + 1
               to == len + 1 + size
    <3>4. from \in Nat /\ from # 0 /\ to = from + size
      BY <1>1, <2>2
    <3>5. CASE Len(buf) < to
      <4>1. \A t \in FileData : FileDataDeserialize(buf, large, flag, t)
                                  = [ret |-> 0, pdu |-> Attached(t)]
        BY <1>4, <1>10, <2>6, <3>5
      <4> QED BY <1>1, <1>3, <3>3, <4>1, RefusedAlike
    <3>6. CASE ~ (Len(buf) < to)
      <4>1. \A t \in FileData : FileDataDeserialize(buf, large, flag, t)
                                  = [ret |-> Len(buf), pdu |-> Written(Attached(t), from, to)]
        BY <1>4, <1>10, <2>6, <3>4, <3>6
      <4> HIDE DEF from, to
      <4>2. to <= Len(buf) /\ Len(buf) \in 0 .. Len(buf)
        BY <1>1, <3>4, <3>6
      <4>3. Written(Attached(s), from, to) \in FileData
        BY <1>5, <3>3, <3>4, <4>2
      <4>4. Written(Attached(s), from, to) = Written(Attached(NoFileData), from, to)
        BY <1>3, <1>7, <3>3
      <4> QED BY <1>1, <1>3, <4>1, <4>2, <4>3, <4>4, AcceptedAlike
    <3> QED BY <3>5, <3>6
  <2> QED BY <2>5, <2>6
<1> QED BY <1>8, <1>9, <1>10

-----------------------------------------------------------------------------
(* The inductive invariant.                                                *)

(* What a caller may decode, and the C type of the structure for it.       *)
Kinds == {"eof", "ack", "metadata", "prompt", "keep_alive", "header", "file_data"}

(* The kinds of PDU there is a decoder for.                                *)
LEMMA KindsAre == DOMAIN Clear = Kinds
BY DEF Clear, Kinds

TypeOf(kind) ==
  CASE kind = "eof" -> Eof
    [] kind = "ack" -> Ack
    [] kind = "metadata" -> Metadata
    [] kind = "prompt" -> {0, 1}
    [] kind = "keep_alive" -> UInt64
    [] kind = "header" -> Header
    [] kind = "file_data" -> FileData

(* Each of the structures, and the structures with one of them replaced.   *)
LEMMA StructureTypes ==
  ASSUME NEW kind \in Kinds, NEW s \in Structures
  PROVE  /\ s[kind] \in TypeOf(kind)
         /\ \A pdu \in TypeOf(kind) : [s EXCEPT ![kind] = pdu] \in Structures
<1>1. CASE kind = "eof"
  BY <1>1 DEF Structures, TypeOf
<1>2. CASE kind = "ack"
  BY <1>2 DEF Structures, TypeOf
<1>3. CASE kind = "metadata"
  BY <1>3 DEF Structures, TypeOf
<1>4. CASE kind = "prompt"
  BY <1>4 DEF Structures, TypeOf
<1>5. CASE kind = "keep_alive"
  BY <1>5 DEF Structures, TypeOf
<1>6. CASE kind = "header"
  BY <1>6 DEF Structures, TypeOf
<1>7. CASE kind = "file_data"
  BY <1>7 DEF Structures, TypeOf
<1> QED BY <1>1, <1>2, <1>3, <1>4, <1>5, <1>6, <1>7 DEF Kinds

(* The structures a caller has cleared.                                    *)
LEMMA ClearType == Clear \in Structures
<1>1. Zeros(8) \in UInt64 /\ Zeros(4) \in [1 .. 4 -> Octet]
  BY DEF Zeros, UInt64, Octet
<1>2. ClearEof \in Eof
  BY <1>1 DEF ClearEof, Eof
<1>3. ClearAck \in Ack
  BY DEF ClearAck, Ack
<1>4. ClearMetadata \in Metadata
  BY ClearMetadataType DEF ClearMetadataIsMetadata
<1>5. LocalHeader \in Header /\ NoFileData \in FileData
  BY LocalHeaderType, NoFileDataType
<1> QED BY <1>1, <1>2, <1>3, <1>4, <1>5 DEF Clear, Structures

(* The decoder of any kind, given any octets and any structure.            *)
LEMMA Decodes ==
  ASSUME NEW kind \in Kinds, NEW field \in Seq(Octet), NEW big \in {0, 1},
         NEW flag \in {ABSENT, PRESENT}, NEW s \in TypeOf(kind)
  PROVE  DecodedAlike(Decode(kind, field, big, flag, s),
                      Decode(kind, field, big, flag, Clear[kind]), Len(field), TypeOf(kind))
<1>1. CASE kind = "eof"
  BY <1>1, EofDecoded DEF Decode, TypeOf, Clear
<1>2. CASE kind = "ack"
  BY <1>2, AckDecoded DEF Decode, TypeOf, Clear
<1>3. CASE kind = "metadata"
  BY <1>3, MetadataDecoded DEF Decode, TypeOf, Clear
<1>4. CASE kind = "prompt"
  BY <1>4, PromptDecoded DEF Decode, TypeOf, Clear
<1>5. CASE kind = "keep_alive"
  BY <1>5, KeepAliveDecoded DEF Decode, TypeOf, Clear
<1>6. CASE kind = "header"
  BY <1>6, HeaderDecodedAlike DEF Decode, TypeOf, Clear
<1>7. CASE kind = "file_data"
  BY <1>7, FileDataDecoded DEF Decode, TypeOf, Clear
<1> QED BY <1>1, <1>2, <1>3, <1>4, <1>5, <1>6, <1>7 DEF Kinds

(* Whatever call it is, of whatever octets a caller may have.              *)
CallOf(kind, field, big, flag) ==
  /\ kind \in Kinds /\ field \in Seq(Octet) /\ Len(field) <= SpanModulus
  /\ big \in {0, 1} /\ flag \in {ABSENT, PRESENT}
  /\ Call(kind, field, big, flag)

(* Every step is a call of a decoder, with octets a caller may have.       *)
LEMMA NextIsCall ==
  ASSUME Next
  PROVE  \E kind, field, big, flag : CallOf(kind, field, big, flag)
<1>1. /\ 0 \in {0, 1} /\ ABSENT \in {ABSENT, PRESENT}
  OBVIOUS
<1>2. \A kind \in Kinds : \A field \in Fields[kind] :
        field \in Seq(Octet) /\ Len(field) <= SpanModulus
  BY FieldsAssumption, KindsAre
<1>3. CASE \E field \in Fields["ack"] : DecodeAck(field)
  BY <1>1, <1>2, <1>3 DEF DecodeAck, CallOf, Kinds
<1>4. CASE \E field \in Fields["prompt"] : DecodePrompt(field)
  BY <1>1, <1>2, <1>4 DEF DecodePrompt, CallOf, Kinds
<1>5. CASE \E octets \in Fields["header"] : DecodeHeader(octets)
  BY <1>1, <1>2, <1>5 DEF DecodeHeader, CallOf, Kinds
<1>6. ASSUME NEW big \in {0, 1}, NEW field \in Fields["eof"], DecodeEof(field, big)
      PROVE  \E kind, octets, large, flag : CallOf(kind, octets, large, flag)
  BY <1>1, <1>2, <1>6 DEF DecodeEof, CallOf, Kinds
<1>7. ASSUME NEW big \in {0, 1}, NEW field \in Fields["metadata"], DecodeMetadata(field, big)
      PROVE  \E kind, octets, large, flag : CallOf(kind, octets, large, flag)
  BY <1>1, <1>2, <1>7 DEF DecodeMetadata, CallOf, Kinds
<1>8. ASSUME NEW big \in {0, 1}, NEW field \in Fields["keep_alive"], DecodeKeepAlive(field, big)
      PROVE  \E kind, octets, large, flag : CallOf(kind, octets, large, flag)
  BY <1>1, <1>2, <1>8 DEF DecodeKeepAlive, CallOf, Kinds
<1>9. ASSUME NEW big \in {0, 1}, NEW flag \in {ABSENT, PRESENT},
             NEW field \in Fields["file_data"], DecodeFileData(field, big, flag)
      PROVE  \E kind, octets, large, other : CallOf(kind, octets, large, other)
  BY <1>2, <1>9 DEF DecodeFileData, CallOf, Kinds
<1> QED BY <1>3, <1>4, <1>5, <1>6, <1>7, <1>8, <1>9 DEF Next

(* A call keeps the inductive invariant.                                   *)
LEMMA CallInvariant ==
  ASSUME IInv, NEW kind, NEW field, NEW big, NEW flag, CallOf(kind, field, big, flag)
  PROVE  IInv'
<1> DEFINE result == Decode(kind, field, big, flag, out[kind])
           fresh == Decode(kind, field, big, flag, Clear[kind])
<1>1. /\ kind \in Kinds /\ field \in Seq(Octet) /\ big \in {0, 1} /\ flag \in {ABSENT, PRESENT}
      /\ calls < MaxCalls /\ calls' = calls + 1
      /\ out' = [out EXCEPT ![kind] = result.pdu]
      /\ last' = [kind |-> kind, field |-> field, large |-> big, flag |-> flag,
                  ret |-> result.ret]
  BY DEF CallOf, Call
<1>2. out \in Structures /\ calls \in 0 .. MaxCalls
  BY DEF IInv, TypeOK
<1>3. out[kind] \in TypeOf(kind)
  BY <1>1, <1>2, StructureTypes
<1>4. DecodedAlike(result, fresh, Len(field), TypeOf(kind))
  BY <1>1, <1>3, Decodes
<1> HIDE DEF result
<1>5. result.pdu \in TypeOf(kind) /\ result.ret \in 0 .. Len(field)
  BY <1>4 DEF DecodedAlike
<1>6. out' \in Structures
  BY <1>1, <1>2, <1>5, StructureTypes
<1>7. calls' \in 0 .. MaxCalls
  BY <1>1, <1>2, FieldsAssumption
<1>8. TypeOK'
  BY <1>1, <1>5, <1>6, <1>7 DEF TypeOK
<1>9. /\ last'.kind = kind /\ last'.field = field /\ last'.large = big /\ last'.flag = flag
      /\ last'.ret = result.ret
  BY <1>1
<1>10. out'[kind] = result.pdu
  BY <1>1, <1>2 DEF Structures, Kinds
<1>11. AsFromClear'
  <2>1. result.ret = fresh.ret /\ (result.ret > 0 => result.pdu = fresh.pdu)
    BY <1>4 DEF DecodedAlike
  <2> HIDE DEF fresh
  <2>2. fresh = Decode(last'.kind, last'.field, last'.large, last'.flag, Clear[last'.kind])
    BY <1>9 DEF fresh
  <2> QED BY <1>9, <1>10, <2>1, <2>2 DEF AsFromClear
<1>12. last'.kind # "none" /\ last'.kind \in DOMAIN Clear
  BY <1>1, <1>9, KindsAre DEF Kinds
<1> QED BY <1>8, <1>11, <1>12 DEF IInv

(* The inductive invariant, for all octets and all orders of calls.        *)
THEOREM Invariance == Spec => []IInv
<1>1. Init => IInv
  <2> SUFFICES ASSUME Init PROVE IInv
    OBVIOUS
  <2>1. out \in Structures
    BY ClearType DEF Init
  <2>2. last.kind = "none" /\ last.ret = 0 /\ last.field = << >>
    BY DEF Init
  <2>3. TypeOK
    <3>1. last.ret \in 0 .. Len(last.field) /\ calls \in 0 .. MaxCalls
      BY <2>2, FieldsAssumption DEF Init
    <3> QED BY <2>1, <3>1 DEF TypeOK
  <2> QED BY <2>2, <2>3 DEF IInv
<1>2. IInv /\ [Next]_vars => IInv'
  <2> SUFFICES ASSUME IInv, [Next]_vars PROVE IInv'
    OBVIOUS
  <2>1. CASE Next
    <3>1. PICK kind, field, big, flag : CallOf(kind, field, big, flag)
      BY <2>1, NextIsCall
    <3> QED BY <3>1, CallInvariant
  <2>2. CASE UNCHANGED vars
    BY <2>2 DEF vars, IInv, TypeOK, AsFromClear
  <2> QED BY <2>1, <2>2
<1> QED BY <1>1, <1>2, PTL DEF Spec

(* The structures keep their types, and no decoder claims to have consumed *)
(* more octets than it was given, whatever they are.                       *)
THEOREM TypesHold == Spec => []TypeOK
<1>1. IInv => TypeOK
  BY DEF IInv
<1> QED BY <1>1, Invariance, PTL

(* Nothing of an earlier PDU, or of one that was refused half way, is left *)
(* in a structure once a decoder has accepted a PDU into it.               *)
THEOREM NothingIsStale == Spec => []NothingStale
<1>1. IInv => NothingStale
  <2> SUFFICES ASSUME IInv, last.ret > 0
               PROVE  out[last.kind] = Decode(last.kind, last.field, last.large, last.flag,
                                              Clear[last.kind]).pdu
    BY DEF NothingStale
  <2>1. last.kind # "none"
    BY DEF IInv
  <2> QED BY <2>1 DEF IInv, AsFromClear
<1> QED BY <1>1, Invariance, PTL

(* A refused ACK, Prompt or Keep Alive leaves the last one as it was.      *)
THEOREM RefusedLeavesLast == Spec => RefusedUntouched
<1>1. IInv /\ [Next]_vars
        => [last'.ret = 0 =>
              \A kind \in {"ack", "prompt", "keep_alive"} : out'[kind] = out[kind]]_vars
  <2> SUFFICES ASSUME IInv, Next, last'.ret = 0, NEW this \in {"ack", "prompt", "keep_alive"}
               PROVE  out'[this] = out[this]
    BY DEF vars
  <2>1. PICK kind, field, big, flag : CallOf(kind, field, big, flag)
    BY NextIsCall
  <2> DEFINE result == Decode(kind, field, big, flag, out[kind])
  <2>2. /\ kind \in Kinds /\ field \in Seq(Octet) /\ big \in {0, 1}
        /\ out' = [out EXCEPT ![kind] = result.pdu] /\ result.ret = 0
    BY <2>1 DEF CallOf, Call
  <2>3. out \in Structures
    BY DEF IInv, TypeOK
  <2>4. CASE this # kind
    BY <2>2, <2>3, <2>4 DEF Structures
  <2>5. CASE this = kind
    <3>1. result.pdu = out[kind]
      <4>1. CASE kind = "ack"
        <5>1. out[kind] \in Ack /\ result = AckDeserialize(field, out[kind])
          BY <2>3, <4>1 DEF Structures, Decode
        <5> HIDE DEF result
        <5> QED BY <2>2, <5>1, AckDecoded
      <4>2. CASE kind = "prompt"
        <5>1. out[kind] \in {0, 1} /\ result = PromptDeserialize(field, out[kind])
          BY <2>3, <4>2 DEF Structures, Decode
        <5> HIDE DEF result
        <5> QED BY <2>2, <5>1, PromptDecoded
      <4>3. CASE kind = "keep_alive"
        <5>1. out[kind] \in UInt64 /\ result = KeepAliveDeserialize(field, big, out[kind])
          BY <2>3, <4>3 DEF Structures, Decode
        <5> HIDE DEF result
        <5> QED BY <2>2, <5>1, KeepAliveDecoded
      <4> QED BY <2>5, <4>1, <4>2, <4>3
    <3> HIDE DEF result
    <3> QED BY <2>2, <2>3, <2>5, <3>1 DEF Structures
  <2> QED BY <2>4, <2>5
<1> QED BY <1>1, Invariance, PTL DEF Spec, RefusedUntouched

-----------------------------------------------------------------------------
(* What is decoded is what was encoded.                                    *)

(* cfdp_prompt_serialize, then cfdp_prompt_deserialize.                    *)
LEMMA PromptReadBack ==
  ASSUME NEW src \in {0, 1}, NEW n, NEW octets, octets = PromptSerialize(src, n),
         octets # << >>
  PROVE  ReadBack(PromptDeserialize(octets, 0), octets, src)
<1>1. octets = <<CFDP_DIRECTIVE_PROMPT, 128 * src>>
  BY DEF PromptSerialize
<1>2. At(octets, 0) = CFDP_DIRECTIVE_PROMPT /\ At(octets, 1) = 128 * src /\ Len(octets) = 2
  BY <1>1 DEF At
<1>3. (128 * src) \div 128 = src
  OBVIOUS
<1> QED BY <1>2, <1>3 DEF ReadBack, PromptDeserialize, PromptLen

(* cfdp_keep_alive_serialize, then cfdp_keep_alive_deserialize.            *)
LEMMA KeepAliveReadBack ==
  ASSUME NEW src \in UInt64, NEW flag \in {0, 1}, NEW n, NEW octets,
         octets = KeepAliveSerialize(src, flag, n), octets # << >>
  PROVE  ReadBack(KeepAliveDeserialize(octets, flag, Zeros(8)), octets,
                  Truncated(src, FileSizeOctets(flag)))
<1> DEFINE code == <<CFDP_DIRECTIVE_KEEP_ALIVE>>
           width == FileSizeOctets(flag)
           progress == WriteUint(src, width)
<1>1. octets = code \o progress
  BY DEF KeepAliveSerialize
<1>2. code \in Seq(Octet) /\ Len(code) = 1 /\ At(code, 0) = CFDP_DIRECTIVE_KEEP_ALIVE
  BY DEF At, Octet, CFDP_DIRECTIVE_KEEP_ALIVE
<1>3. width \in 1 .. 8 /\ progress \in Seq(Octet) /\ Len(progress) = width
  BY FileSizeWidth, WriteUintType
<1>4. KeepAliveSize(flag) = width + 1 /\ ReadUint(progress) = Truncated(src, width)
  BY DEF KeepAliveSize, Truncated
<1> HIDE DEF code, progress, width
<1>5. Joined(octets, code, progress)
  BY <1>1, <1>2, <1>3, Join
<1>6. /\ Len(octets) = 1 + width /\ At(octets, 0) = CFDP_DIRECTIVE_KEEP_ALIVE
      /\ Slice(octets, 1, Len(octets)) = progress
  <2>1. 0 \in Nat /\ 0 < Len(code)
    BY <1>2
  <2> QED BY <1>2, <1>3, <1>5, <2>1 DEF Joined
<1>7. Len(octets) = KeepAliveSize(flag) /\ Len(octets) > 0 /\ ~ (Len(octets) < KeepAliveSize(flag))
  BY <1>3, <1>4, <1>6
<1>8. KeepAliveDeserialize(octets, flag, Zeros(8))
        = [ret |-> Len(octets), pdu |-> ReadUint(progress)]
  BY <1>6, <1>7 DEF KeepAliveDeserialize
<1> QED BY <1>4, <1>7, <1>8 DEF ReadBack, width

(* cfdp_pdu_header_serialize, then cfdp_pdu_header_deserialize.            *)
LEMMA HeaderReadBack ==
  ASSUME NEW src \in Header, NEW n \in Nat, NEW octets, octets = HeaderSerialize(src, n),
         octets # << >>
  PROVE  ReadBack(HeaderDeserialize(octets, LocalHeader), octets, HeaderOnWire(src))
<1> DEFINE none == << >>
           whole == octets \o none
<1>1. octets \in Seq(Octet) /\ Len(octets) = HeaderSize(src) /\ HeaderSize(src) \in Nat \ {0}
  BY HeaderSerializeType
<1>2. whole = octets /\ none \in Seq(Octet)
  BY <1>1, ConcatEmptySeq
<1> HIDE DEF none
<1>3. LET w == HeaderSerialize(src, n) \o none
          head == HeaderDeserialize(w, LocalHeader)
      IN head.ret = HeaderSize(src) /\ head.pdu = HeaderOnWire(src)
  BY <1>2, LocalHeaderType, HeaderRoundTrip
<1>4. /\ HeaderDeserialize(octets, LocalHeader).ret = HeaderSize(src)
      /\ HeaderDeserialize(octets, LocalHeader).pdu = HeaderOnWire(src)
  BY <1>2, <1>3
<1> QED BY <1>1, <1>4 DEF ReadBack

(* cfdp_file_data_serialize, then cfdp_file_data_deserialize.              *)
LEMMA FileDataReadBack ==
  ASSUME NEW src \in FileData, NEW large \in {0, 1}, NEW flag \in {ABSENT, PRESENT},
         NEW n \in Nat,
         PointsTo(src.segment_metadata, src.segment_metadata_len),
         PointsTo(src.file_data, src.file_data_len),
         NEW octets, octets = FileDataSerialize(src, large, flag, n), octets # << >>
  PROVE  ReadBack(FileDataDeserialize(octets, large, flag, NoFileData), octets,
                  FileDataOnWire(src, large, flag))
<1> DEFINE file == FileDataDeserialize(octets, large, flag, NoFileData)
<1>1. file.ret # 0 /\ file.pdu = FileDataOnWire(src, large, flag)
  BY NoFileDataType, FileDataRoundTrip
<1>2. file.ret \in {0, Len(octets)}
  BY DEF FileDataDeserialize
<1>3. Len(octets) \in Nat
  BY FileDataSerializeType, LenProperties
<1> HIDE DEF file
<1>4. file.ret = Len(octets) /\ file.ret > 0
  BY <1>1, <1>2, <1>3
<1> QED BY <1>1, <1>4 DEF ReadBack, file

(* What a peer encoded is read back, whatever kind of PDU it is.           *)
LEMMA SourceReadBack ==
  ASSUME NEW src \in Sources, Encoded(src) # << >>
  PROVE  ReadBack(Decode(src.kind, Encoded(src), src.large, src.flag, Clear[src.kind]),
                  Encoded(src), Carried(src))
<1> DEFINE kind == src.kind
           pdu == src.pdu
           octets == Encoded(src)
           n == SpanModulus
<1>1. /\ kind \in Kinds /\ pdu \in Filled(kind) /\ src.large \in {0, 1}
      /\ src.flag \in {ABSENT, PRESENT} /\ octets # << >>
  BY SourcesAssumption, KindsAre
<1>2. n \in Nat
  BY SpanAssumption
<1>3. CASE kind = "eof"
  <2>1. octets = EofSerialize(pdu, src.large, n) /\ pdu \in EofSources
    BY <1>1, <1>3 DEF Encoded, Filled, EofSources
  <2>2. ReadBack(EofDeserialize(octets, src.large, ClearEof), octets, EofTold(pdu, src.large))
    BY <1>1, <2>1, EofReadBack
  <2>3. Carried(src) = EofTold(pdu, src.large)
    BY <1>3 DEF Carried, EofTold
  <2> QED BY <1>3, <2>2, <2>3 DEF Decode, Clear
<1>4. CASE kind = "ack"
  <2>1. /\ octets = AckSerialize(pdu, n)
        /\ pdu \in [ack_directive_code : 0 .. 15, condition_code : 0 .. 15,
                    transaction_status : 0 .. 3]
    BY <1>1, <1>4 DEF Encoded, Filled
  <2>2. ReadBack(AckDeserialize(octets, ClearAck), octets, pdu)
    BY <1>1, <2>1, AckReadBack
  <2> QED BY <1>4, <2>2 DEF Decode, Clear, Carried
<1>5. CASE kind = "metadata"
  <2>1. /\ octets = MetadataSerialize(pdu, src.large, n) /\ pdu \in Metadata
        /\ PointsTo(pdu.source_filename, pdu.source_filename_len)
        /\ PointsTo(pdu.destination_filename, pdu.destination_filename_len)
        /\ PointsTo(pdu.options, pdu.options_len)
    BY <1>1, <1>5 DEF Encoded, Filled
  <2>2. ReadBack(MetadataDeserialize(octets, src.large, ClearMetadata), octets,
                 MetadataTold(pdu, src.large))
    BY <1>1, <2>1, MetadataReadBack
  <2>3. Carried(src) = MetadataTold(pdu, src.large)
    BY <1>5 DEF Carried, MetadataTold
  <2> QED BY <1>5, <2>2, <2>3 DEF Decode, Clear
<1>6. CASE kind = "prompt"
  <2>1. octets = PromptSerialize(pdu, n) /\ pdu \in {0, 1}
    BY <1>1, <1>6 DEF Encoded, Filled
  <2>2. ReadBack(PromptDeserialize(octets, 0), octets, pdu)
    BY <1>1, <2>1, PromptReadBack
  <2> QED BY <1>6, <2>2 DEF Decode, Clear, Carried
<1>7. CASE kind = "keep_alive"
  <2>1. octets = KeepAliveSerialize(pdu, src.large, n) /\ pdu \in UInt64
    BY <1>1, <1>7 DEF Encoded, Filled
  <2>2. ReadBack(KeepAliveDeserialize(octets, src.large, Zeros(8)), octets,
                 Truncated(pdu, FileSizeOctets(src.large)))
    BY <1>1, <2>1, KeepAliveReadBack
  <2> QED BY <1>7, <2>2 DEF Decode, Clear, Carried
<1>8. CASE kind = "header"
  <2>1. octets = HeaderSerialize(pdu, n) /\ pdu \in Header
    BY <1>1, <1>8 DEF Encoded, Filled
  <2>2. ReadBack(HeaderDeserialize(octets, LocalHeader), octets, HeaderOnWire(pdu))
    BY <1>1, <1>2, <2>1, HeaderReadBack
  <2> QED BY <1>8, <2>2 DEF Decode, Clear, Carried
<1>9. CASE kind = "file_data"
  <2>1. /\ octets = FileDataSerialize(pdu, src.large, src.flag, n) /\ pdu \in FileData
        /\ PointsTo(pdu.segment_metadata, pdu.segment_metadata_len)
        /\ PointsTo(pdu.file_data, pdu.file_data_len)
    BY <1>1, <1>9 DEF Encoded, Filled
  <2>2. ReadBack(FileDataDeserialize(octets, src.large, src.flag, NoFileData), octets,
                 FileDataOnWire(pdu, src.large, src.flag))
    BY <1>1, <1>2, <2>1, FileDataReadBack
  <2> QED BY <1>9, <2>2 DEF Decode, Clear, Carried
<1> QED BY <1>1, <1>3, <1>4, <1>5, <1>6, <1>7, <1>8, <1>9 DEF Kinds

(* A PDU that a peer encoded, whatever it is, is decoded as what the peer  *)
(* was told, in as many octets, by the decoder of its kind under the       *)
(* flags of its header, and whatever the structure held before.            *)
THEOREM DecodesAsEncoded == Spec => []RoundTrip
<1>1. ASSUME IInv PROVE RoundTrip
  <2> SUFFICES ASSUME NEW src \in Sources, last.kind = src.kind, last.large = src.large,
                      last.flag = src.flag, Encoded(src) # << >>, Encoded(src) = last.field
               PROVE  last.ret = Len(last.field) /\ out[src.kind] = Carried(src)
    BY DEF RoundTrip
  <2>1. last.kind # "none"
    BY SourcesAssumption DEF Clear
  <2>2. AsFromClear
    BY <1>1, <2>1 DEF IInv
  <2> DEFINE fresh == Decode(src.kind, Encoded(src), src.large, src.flag, Clear[src.kind])
  <2>3. ReadBack(fresh, Encoded(src), Carried(src))
    BY SourceReadBack
  <2>4. last.ret = fresh.ret /\ (last.ret > 0 => out[src.kind] = fresh.pdu)
    BY <2>2 DEF AsFromClear
  <2> HIDE DEF fresh
  <2> QED BY <2>3, <2>4 DEF ReadBack
<1> QED BY <1>1, Invariance, PTL

-----------------------------------------------------------------------------
(* What has been decoded is encoded as it was.                             *)

(* An octet is the sum of its bits, and what is left of it is that of      *)
(* those that are left.                                                    *)
OctetLeft(o) ==
  /\ OctetWith(BitsOf(o) \ (0 .. 3)) = 16 * (o \div 16)
  /\ OctetWith(BitsOf(o) \ {2, 3}) = 16 * (o \div 16) + (o % 4)
  /\ OctetWith(BitsOf(o) \ {4, 5, 7})
       = (IF (o \div 64) % 2 # 0 THEN 64 ELSE 0) + (o % 16)
  /\ OctetWith(BitsOf(o) \ (0 .. 6)) = 128 * (o \div 128)
  /\ OctetWith(BitsOf(o) \ {3, 7}) = 16 * ((o \div 16) % 8) + (o % 8)
  /\ OctetWith(BitsOf(o) \ {}) = o

LEMMA OctetIsItsBits ==
  ASSUME NEW o \in Octet
  PROVE  OctetLeft(o)
<1> DEFINE B(k) == (o \div BitValue[k + 1]) % 2
           b0 == o % 2
           b1 == (o \div 2) % 2
           b2 == (o \div 4) % 2
           b3 == (o \div 8) % 2
           b4 == (o \div 16) % 2
           b5 == (o \div 32) % 2
           b6 == (o \div 64) % 2
           b7 == (o \div 128) % 2
           bits == BitsOf(o)
<1>1. o \in 0 .. 255
  BY DEF Octet
<1>2. /\ 0 \in bits <=> b0 = 1
      /\ 1 \in bits <=> b1 = 1
      /\ 2 \in bits <=> b2 = 1
      /\ 3 \in bits <=> b3 = 1
      /\ 4 \in bits <=> b4 = 1
      /\ 5 \in bits <=> b5 = 1
      /\ 6 \in bits <=> b6 = 1
      /\ 7 \in bits <=> b7 = 1
  <2>1. o \div 1 = o
    BY <1>1
  <2> QED BY <2>1 DEF BitsOf, BitValue
<1>3. /\ b0 \in {0, 1} /\ b1 \in {0, 1} /\ b2 \in {0, 1} /\ b3 \in {0, 1} /\ b4 \in {0, 1}
      /\ b5 \in {0, 1} /\ b6 \in {0, 1} /\ b7 \in {0, 1}
  BY <1>1
<1>4. /\ o = 128 * b7 + 64 * b6 + 32 * b5 + 16 * b4 + 8 * b3 + 4 * b2 + 2 * b1 + b0
      /\ o \div 16 = 8 * b7 + 4 * b6 + 2 * b5 + b4
      /\ o \div 128 = b7
      /\ o % 16 = 8 * b3 + 4 * b2 + 2 * b1 + b0
      /\ o % 8 = 4 * b2 + 2 * b1 + b0
      /\ o % 4 = 2 * b1 + b0
      /\ (o \div 16) % 8 = 4 * b6 + 2 * b5 + b4
  BY <1>1
<1>5. (IF b6 # 0 THEN 64 ELSE 0) = 64 * b6
  BY <1>3
<1> DEFINE Sum(s) == (IF 0 \in s THEN 1 ELSE 0) + (IF 1 \in s THEN 2 ELSE 0)
                       + (IF 2 \in s THEN 4 ELSE 0) + (IF 3 \in s THEN 8 ELSE 0)
                       + (IF 4 \in s THEN 16 ELSE 0) + (IF 5 \in s THEN 32 ELSE 0)
                       + (IF 6 \in s THEN 64 ELSE 0) + (IF 7 \in s THEN 128 ELSE 0)
<1>6. \A s : OctetWith(s) = Sum(s)
  BY DEF OctetWith, BitValue
<1> DEFINE has(k, b) == IF k \in bits THEN b ELSE 0
<1>7. /\ has(0, 1) = b0 /\ has(1, 2) = 2 * b1 /\ has(2, 4) = 4 * b2 /\ has(3, 8) = 8 * b3
      /\ has(4, 16) = 16 * b4 /\ has(5, 32) = 32 * b5 /\ has(6, 64) = 64 * b6
      /\ has(7, 128) = 128 * b7
  <2> HIDE DEF bits, b0, b1, b2, b3, b4, b5, b6, b7
  <2> QED BY <1>2, <1>3
<1> HIDE DEF bits, b0, b1, b2, b3, b4, b5, b6, b7
<1>8. Sum(bits \ (0 .. 3)) = 16 * (o \div 16)
  <2>1. Sum(bits \ (0 .. 3)) = has(4, 16) + has(5, 32) + has(6, 64) + has(7, 128)
    OBVIOUS
  <2> QED BY <1>3, <1>4, <1>7, <2>1
<1>9. Sum(bits \ {2, 3}) = 16 * (o \div 16) + (o % 4)
  <2>1. Sum(bits \ {2, 3}) = has(0, 1) + has(1, 2) + has(4, 16) + has(5, 32) + has(6, 64)
                               + has(7, 128)
    OBVIOUS
  <2> QED BY <1>3, <1>4, <1>7, <2>1
<1>10. Sum(bits \ {4, 5, 7}) = (IF b6 # 0 THEN 64 ELSE 0) + (o % 16)
  <2>1. Sum(bits \ {4, 5, 7}) = has(0, 1) + has(1, 2) + has(2, 4) + has(3, 8) + has(6, 64)
    OBVIOUS
  <2> QED BY <1>3, <1>4, <1>5, <1>7, <2>1
<1>11. Sum(bits \ (0 .. 6)) = 128 * (o \div 128)
  <2>1. Sum(bits \ (0 .. 6)) = has(7, 128)
    OBVIOUS
  <2> QED BY <1>3, <1>4, <1>7, <2>1
<1>12. Sum(bits \ {3, 7}) = 16 * ((o \div 16) % 8) + (o % 8)
  <2>1. Sum(bits \ {3, 7}) = has(0, 1) + has(1, 2) + has(2, 4) + has(4, 16) + has(5, 32)
                               + has(6, 64)
    OBVIOUS
  <2> QED BY <1>3, <1>4, <1>7, <2>1
<1>13. Sum(bits \ {}) = o
  <2>1. Sum(bits \ {}) = has(0, 1) + has(1, 2) + has(2, 4) + has(3, 8) + has(4, 16)
                           + has(5, 32) + has(6, 64) + has(7, 128)
    OBVIOUS
  <2> QED BY <1>3, <1>4, <1>7, <2>1
<1> HIDE DEF Sum, has
<1> QED BY <1>6, <1>8, <1>9, <1>10, <1>11, <1>12, <1>13 DEF OctetLeft, bits, b6

(* Octets with the spare bits of one of them cleared.                      *)
Cleared(octets, at, spare) ==
  [octets EXCEPT ![at + 1] = OctetWith(BitsOf(@) \ spare)]

ClearedIs(c, s, at, spare) ==
  /\ c \in Seq(Octet) /\ Len(c) = Len(s)
  /\ \A i \in 1 .. Len(s) :
       c[i] = IF i = at + 1 THEN OctetWith(BitsOf(s[i]) \ spare) ELSE s[i]

LEMMA ClearedType ==
  ASSUME NEW s \in Seq(Octet), NEW at \in Nat, at < Len(s), NEW spare
  PROVE  ClearedIs(Cleared(s, at, spare), s, at, spare)
<1> DEFINE v == OctetWith(BitsOf(s[at + 1]) \ spare)
           n == Len(s)
           c == [s EXCEPT ![at + 1] = v]
<1>1. n \in Nat /\ DOMAIN s = 1 .. n /\ s \in [1 .. n -> Octet] /\ at + 1 \in 1 .. n
  <2>1. n \in Nat /\ DOMAIN s = 1 .. n /\ s \in [1 .. n -> Octet]
    BY LenProperties
  <2> QED BY <2>1
<1>2. v \in Octet
  BY OctetWithType
<1>3. Cleared(s, at, spare) = c
  BY DEF Cleared
<1> HIDE DEF v, n
<1>4. c \in [1 .. n -> Octet]
  BY <1>1, <1>2
<1>5. \A i \in 1 .. n : c[i] = IF i = at + 1 THEN v ELSE s[i]
  BY <1>1
<1> HIDE DEF c
<1>6. c \in Seq(Octet) /\ Len(c) = n
  BY <1>1, <1>4, FunctionIsSeq
<1> QED BY <1>3, <1>5, <1>6 DEF ClearedIs, v, n

(* It stands in the front of them.                                         *)
LEMMA ClearedInFront ==
  ASSUME NEW front \in Seq(Octet), NEW back \in Seq(Octet), NEW at \in Nat,
         at < Len(front), NEW spare
  PROVE  Cleared(front \o back, at, spare) = Cleared(front, at, spare) \o back
<1> DEFINE whole == front \o back
           x == Cleared(front, at, spare)
           z == Cleared(whole, at, spare)
           m == Len(front)
           n == Len(back)
<1>1. /\ m \in Nat /\ n \in Nat /\ whole \in Seq(Octet) /\ Len(whole) = m + n
      /\ \A i \in 1 .. m + n : whole[i] = IF i <= m THEN front[i] ELSE back[i - m]
  BY ConcatProperties, LenProperties
<1>2. /\ x \in Seq(Octet) /\ Len(x) = m
      /\ \A i \in 1 .. m : x[i] = IF i = at + 1 THEN OctetWith(BitsOf(front[i]) \ spare)
                                  ELSE front[i]
  <2>1. ClearedIs(x, front, at, spare)
    BY ClearedType
  <2> HIDE DEF x
  <2> QED BY <2>1 DEF ClearedIs
<1> HIDE DEF whole, m, n, x
<1>3. at < Len(whole)
  BY <1>1 DEF m
<1>4. /\ z \in Seq(Octet) /\ Len(z) = m + n
      /\ \A i \in 1 .. m + n : z[i] = IF i = at + 1 THEN OctetWith(BitsOf(whole[i]) \ spare)
                                      ELSE whole[i]
  <2>1. ClearedIs(z, whole, at, spare)
    BY <1>1, <1>3, ClearedType
  <2> HIDE DEF z
  <2> QED BY <1>1, <2>1 DEF ClearedIs
<1> HIDE DEF z
<1>5. ASSUME NEW i \in 1 .. Len(z)
      PROVE  z[i] = IF i <= Len(x) THEN x[i] ELSE back[i - Len(x)]
  <2>1. i \in 1 .. m + n
    BY <1>4
  <2>2. CASE i <= m
    <3>1. i \in 1 .. m
      BY <1>1, <2>1, <2>2
    <3> QED BY <1>1, <1>2, <1>4, <2>1, <2>2, <3>1
  <2>3. CASE ~ (i <= m)
    <3>1. i # at + 1
      BY <1>1, <2>1, <2>3 DEF m
    <3> QED BY <1>1, <1>2, <1>4, <2>1, <2>3, <3>1
  <2> QED BY <2>2, <2>3
<1>6. Len(x) + Len(back) = Len(z)
  BY <1>2, <1>4 DEF n
<1>7. x \o back = z
  BY <1>2, <1>4, <1>5, <1>6, ConcatIs
<1> QED BY <1>7 DEF x, z, whole

(* Nothing is cleared.                                                     *)
LEMMA NothingCleared ==
  ASSUME NEW s \in Seq(Octet), Len(s) > 0
  PROVE  Cleared(s, 0, {}) = s
<1> DEFINE c == Cleared(s, 0, {})
<1>1. Len(s) \in Nat /\ \A i \in 1 .. Len(s) : s[i] \in Octet
  BY LenProperties, ElementOfSeq
<1>2. /\ c \in Seq(Octet) /\ Len(c) = Len(s)
      /\ \A i \in 1 .. Len(s) : c[i] = IF i = 0 + 1 THEN OctetWith(BitsOf(s[i]) \ {}) ELSE s[i]
  <2>1. 0 \in Nat /\ 0 < Len(s)
    BY <1>1
  <2> QED BY <2>1, ClearedType, ZenonT(60) DEF ClearedIs
<1> HIDE DEF c
<1>3. ASSUME NEW i \in 1 .. Len(s) PROVE c[i] = s[i]
  BY <1>1, <1>2, OctetIsItsBits DEF OctetLeft
<1>4. c = s
  BY <1>1, <1>2, <1>3, SeqEqual
<1> QED BY <1>4 DEF c

(* The first octets of a data field.                                       *)
LEMMA FirstTwo ==
  ASSUME NEW buf \in Seq(Octet), 2 <= Len(buf)
  PROVE  /\ Slice(buf, 0, 2) = <<At(buf, 0), At(buf, 1)>>
         /\ At(buf, 0) \in Octet /\ At(buf, 1) \in Octet
         /\ Slice(buf, 0, 2) \in Seq(Octet) /\ Len(Slice(buf, 0, 2)) = 2
<1>1. /\ 0 \in Nat /\ 1 \in Nat /\ 2 \in Nat /\ 0 < Len(buf) /\ 1 < Len(buf) /\ 0 <= 1
      /\ 1 <= 2 /\ 2 <= Len(buf) /\ 0 <= 2 /\ Len(buf) \in Nat /\ 2 - 0 = 2
  <2>1. Len(buf) \in Nat
    BY LenProperties
  <2> QED BY <2>1
<1>2. Slice(buf, 0, 0 + 1) = <<At(buf, 0)>> /\ Slice(buf, 1, 1 + 1) = <<At(buf, 1)>>
  BY <1>1, SliceOne
<1>3. Slice(buf, 0, 1) \o Slice(buf, 1, 2) = Slice(buf, 0, 2)
  BY <1>1, SlicesJoin
<1>4. At(buf, 0) \in Octet /\ At(buf, 1) \in Octet
  BY <1>1, AtType
<1>5. Slice(buf, 0, 2) = <<At(buf, 0)>> \o <<At(buf, 1)>>
  <2>1. Slice(buf, 0, 1) = <<At(buf, 0)>>
    BY <1>2
  <2>2. Slice(buf, 1, 2) = <<At(buf, 1)>>
    BY <1>2
  <2> QED BY <1>3, <2>1, <2>2
<1>6. Slice(buf, 0, 2) \in Seq(Octet) /\ Len(Slice(buf, 0, 2)) = 2
  <2>1. Slice(buf, 0, 2) \in Seq(Octet) /\ Len(Slice(buf, 0, 2)) = 2 - 0
    BY <1>1, SliceType
  <2> QED BY <1>1, <2>1
<1> QED BY <1>4, <1>5, <1>6

(* Two octets in front, the spare bits of the second cleared.              *)
LEMMA ClearedSecond ==
  ASSUME NEW a \in Octet, NEW b \in Octet, NEW spare
  PROVE  Cleared(<<a, b>>, 1, spare) = <<a, OctetWith(BitsOf(b) \ spare)>>
<1> DEFINE v == OctetWith(BitsOf(b) \ spare)
           two == <<a, b>>
           c == Cleared(two, 1, spare)
<1>1. v \in Octet
  BY OctetWithType
<1>2. two \in Seq(Octet) /\ Len(two) = 2 /\ two[1] = a /\ two[2] = b
  OBVIOUS
<1> HIDE DEF two
<1>3. /\ c \in Seq(Octet) /\ Len(c) = 2
      /\ \A i \in 1 .. 2 : c[i] = IF i = 1 + 1 THEN OctetWith(BitsOf(two[i]) \ spare) ELSE two[i]
  <2>1. 1 \in Nat /\ 1 < Len(two)
    BY <1>2
  <2>2. ClearedIs(c, two, 1, spare)
    BY <1>2, <2>1, ClearedType
  <2> HIDE DEF c
  <2> QED BY <1>2, <2>2 DEF ClearedIs
<1> HIDE DEF c
<1>4. c[1] = a /\ c[2] = v
  <2>1. 1 \in 1 .. 2 /\ 2 \in 1 .. 2 /\ 1 + 1 = 2 /\ 1 # 2
    OBVIOUS
  <2> QED BY <1>2, <1>3, <2>1
<1> HIDE DEF v
<1>5. c = <<a, v>>
  BY <1>1, <1>3, <1>4
<1> QED BY <1>5 DEF c, v, two

(* A number is written as it was read.                                     *)
LEMMA WrittenAsRead ==
  ASSUME NEW s \in Seq(Octet), Len(s) \in 1 .. 8
  PROVE  WriteUint(ReadUint(s), Len(s)) = s
<1> DEFINE n == Len(s)
           zeros == Zeros(8 - n)
           whole == zeros \o s
<1>1. zeros \in Seq(Octet) /\ Len(zeros) = 8 - n
  <2> DEFINE k == 8 - n
  <2>1. k \in Nat
    <3> HIDE DEF n
    <3>1. n \in 1 .. 8
      BY DEF n
    <3> QED BY <3>1
  <2> HIDE DEF k
  <2>2. Zeros(k) \in [1 .. k -> Octet]
    BY DEF Zeros, Octet
  <2> QED BY <2>1, <2>2, FunctionIsSeq DEF k
<1> HIDE DEF zeros
<1>2. Joined(whole, zeros, s)
  BY <1>1, Join
<1> HIDE DEF whole
<1>3. Len(whole) = 8 /\ Slice(whole, 8 - n, 8) = s
  <2>1. Len(whole) = Len(zeros) + Len(s) /\ Slice(whole, Len(zeros), Len(whole)) = s
    BY <1>2 DEF Joined
  <2>2. (8 - n) + n = 8
    OBVIOUS
  <2> QED BY <1>1, <2>1, <2>2
<1>4. (8 - n) + 1 = 9 - n
  OBVIOUS
<1> QED BY <1>3, <1>4 DEF WriteUint, ReadUint, Slice, whole, zeros

(* Octets, all but the first two of which are as they were.                *)
LEMMA ClearedHead ==
  ASSUME NEW buf \in Seq(Octet), NEW n \in Nat, 2 <= n, n <= Len(buf), NEW spare
  PROVE  Cleared(Slice(buf, 0, n), 1, spare)
           = <<At(buf, 0), OctetWith(BitsOf(At(buf, 1)) \ spare)>> \o Slice(buf, 2, n)
<1> DEFINE front == Slice(buf, 0, 2)
           back == Slice(buf, 2, n)
           a == At(buf, 0)
           b == At(buf, 1)
<1>1. Len(buf) \in Nat /\ 0 \in Nat /\ 1 \in Nat /\ 2 \in Nat /\ 0 <= 2 /\ 2 <= Len(buf) /\ 1 < 2
  <2>1. Len(buf) \in Nat
    BY LenProperties
  <2> QED BY <2>1
<1>2. front = <<a, b>> /\ a \in Octet /\ b \in Octet /\ front \in Seq(Octet) /\ Len(front) = 2
  BY <1>1, FirstTwo
<1>3. back \in Seq(Octet) /\ front \o back = Slice(buf, 0, n)
  BY <1>1, SliceType, SlicesJoin
<1> HIDE DEF front, back, a, b
<1>4. 1 < Len(front)
  BY <1>2
<1>5. Cleared(front \o back, 1, spare) = Cleared(front, 1, spare) \o back
  <2>1. front \in Seq(Octet) /\ back \in Seq(Octet) /\ 1 \in Nat /\ 1 < Len(front)
    BY <1>2, <1>3, <1>4
  <2> QED BY ONLY <2>1, ClearedInFront
<1>6. Cleared(<<a, b>>, 1, spare) = <<a, OctetWith(BitsOf(b) \ spare)>>
  BY <1>2, ClearedSecond
<1> QED BY <1>2, <1>3, <1>5, <1>6 DEF a, b, back

(* Octets that were pointed at are copied back.                            *)
LEMMA CopiedBack ==
  ASSUME NEW s \in Seq(Octet), NEW pointer, NEW n, n = Len(s),
         pointer = IF n > 0 THEN PointerTo(s) ELSE Null
  PROVE  Copied(pointer, n) = s /\ (pointer # Null \/ n = 0)
<1>1. n \in Nat
  BY LenProperties
<1>2. CASE n = 0
  <2>1. s = << >>
    BY <1>2, EmptySeq
  <2> QED BY <1>2, <2>1 DEF Copied
<1>3. CASE n # 0
  <2>1. pointer = PointerTo(s)
    BY <1>1, <1>3
  <2>2. Slice(s, 0, n) = s
    BY SubSeqFull DEF Slice
  <2>3. pointer # Null
    BY <2>1, SMTT(40) DEF PointerTo, Null
  <2> QED BY <1>3, <2>1, <2>2, <2>3 DEF Copied, PointerTo
<1> QED BY <1>2, <1>3

(* An LV that was read, written again.                                     *)
LvWrittenBack(rest, lv) ==
  /\ lv.ret \in Nat /\ lv.ret <= Len(rest) /\ lv.ret = lv.len + 1 /\ lv.len \in Nat
  /\ \A room \in Int :
       room >= lv.ret => LvSerialize(lv.value, lv.len, room) = Slice(rest, 0, lv.ret)
  /\ Slice(rest, 0, lv.ret) # << >>

LEMMA LvWrittenAsRead ==
  ASSUME NEW rest \in Seq(Octet), LvDeserialize(rest).ret # 0
  PROVE  LvWrittenBack(rest, LvDeserialize(rest))
<1> DEFINE lv == LvDeserialize(rest)
           len == At(rest, 0)
           n == Len(rest)
           end == len + 1
           value == Slice(rest, 1, end)
<1>1. n \in Nat
  BY LenProperties
<1>2. ~ (n < 1) /\ ~ (n < end)
  BY DEF LvDeserialize, CFDP_LV_HEADER_LEN
<1>3. lv = [ret |-> end, value |-> IF len > 0 THEN PointerTo(value) ELSE Null, len |-> len]
  BY <1>2 DEF LvDeserialize, CFDP_LV_HEADER_LEN
<1>4. len \in Octet
  <2>1. 0 \in Nat /\ 0 < Len(rest)
    BY <1>1, <1>2
  <2> QED BY <2>1, AtType
<1>5. len \in Nat
  BY <1>4, OctetIsNat
<1> HIDE DEF len, n, lv
<1>6. end \in Nat /\ 1 <= end /\ end <= n /\ end - 1 = len /\ 0 < n /\ 0 <= 1
  BY <1>1, <1>2, <1>5
<1> HIDE DEF end
<1>7. value \in Seq(Octet) /\ Len(value) = len
  <2>1. 1 \in Nat /\ end <= Len(rest)
    BY <1>6 DEF n
  <2> QED BY <1>6, <2>1, SliceType
<1> HIDE DEF value
<1>8. Copied(lv.value, len) = value /\ (lv.value # Null \/ len = 0)
  <2>1. lv.value = IF len > 0 THEN PointerTo(value) ELSE Null
    BY <1>3
  <2> HIDE DEF lv
  <2> QED BY <1>7, <2>1, CopiedBack
<1>9. <<len>> \o value = Slice(rest, 0, end)
  <2>1. 0 \in Nat /\ 1 \in Nat /\ 0 < Len(rest) /\ end <= Len(rest)
    BY <1>6 DEF n
  <2>2. Slice(rest, 0, 0 + 1) = <<len>>
    BY <2>1, SliceOne DEF len
  <2>3. Slice(rest, 0, 1) \o Slice(rest, 1, end) = Slice(rest, 0, end)
    BY <1>6, <2>1, SlicesJoin
  <2>4. Slice(rest, 0, 1) = <<len>>
    BY <2>2
  <2> QED BY <2>3, <2>4 DEF value
<1>10. ASSUME NEW room \in Int, room >= end
       PROVE  LvSerialize(lv.value, lv.len, room) = Slice(rest, 0, end)
  <2>1. lv.len = len
    BY <1>3
  <2>2. ~ (room < len + 1) /\ ~ (lv.value = Null /\ len > 0)
    BY <1>5, <1>6, <1>8, <1>10
  <2>3. LvSerialize(lv.value, len, room) = <<len>> \o Copied(lv.value, len)
    <3> HIDE DEF lv
    <3> QED BY <2>2 DEF LvSerialize, CFDP_LV_HEADER_LEN
  <2> QED BY <1>8, <1>9, <2>1, <2>3
<1>11. Slice(rest, 0, end) # << >>
  <2>1. <<len>> \o value # << >>
    BY <1>4, <1>7
  <2> QED BY <1>9, <2>1
<1>12. lv.ret = end /\ lv.len = len /\ end = len + 1
  BY <1>3 DEF end
<1>13. end <= Len(rest)
  BY <1>6 DEF n
<1> QED BY <1>5, <1>6, <1>10, <1>11, <1>12, <1>13 DEF LvWrittenBack, lv

(* So is an identifier.                                                    *)
LEMMA EntityIdWritten ==
  ASSUME NEW rest \in Seq(Octet), EntityIdTlvSize(rest) # 0
  PROVE  /\ EntityIdTlvSerialize(EntityIdOf(rest), At(rest, 1), EntityIdTlvSize(rest))
              = Slice(rest, 0, EntityIdTlvSize(rest))
         /\ Slice(rest, 0, EntityIdTlvSize(rest)) # << >>
<1> DEFINE size == EntityIdTlvSize(rest)
           len == At(rest, 1)
           octets == Slice(rest, 2, size)
           n == Len(rest)
<1>1. size \in 3 .. n /\ size = len + 2 /\ len \in IdLengths
  BY EntityIdType
<1>2. At(rest, 0) = CFDP_TLV_ENTITY_ID
  BY DEF EntityIdTlvSize
<1>3. n \in Nat /\ len \in 1 .. 8
  BY <1>1, LenProperties DEF IdLengths, CFDP_ID_LEN_MIN, CFDP_ID_LEN_MAX
<1> HIDE DEF size, len, n
<1>4. 0 \in Nat /\ 2 \in Nat /\ 0 <= 2 /\ size \in Nat /\ 2 <= size /\ size <= n /\ 2 <= n
      /\ size - 2 = len /\ ~ (size < len + 2)
  BY <1>1, <1>3
<1>5. octets \in Seq(Octet) /\ Len(octets) = len
  <2>1. size <= Len(rest)
    BY <1>4 DEF n
  <2> QED BY <1>4, <2>1, SliceType
<1>6. EntityIdOf(rest) = ReadUint(octets)
  BY DEF EntityIdOf, CFDP_TLV_HEADER_LEN, octets, size
<1> HIDE DEF octets
<1>7. WriteUint(ReadUint(octets), len) = octets
  BY <1>3, <1>5, WrittenAsRead
<1>8. Slice(rest, 0, 2) = <<CFDP_TLV_ENTITY_ID, len>> /\ Slice(rest, 0, 2) \in Seq(Octet)
  BY <1>2, <1>4, FirstTwo DEF len, n
<1>9. Slice(rest, 0, 2) \o octets = Slice(rest, 0, size)
  BY <1>4, SlicesJoin DEF octets, n
<1>10. EntityIdTlvSerialize(EntityIdOf(rest), len, size)
         = <<CFDP_TLV_ENTITY_ID, len>> \o WriteUint(EntityIdOf(rest), len)
  BY <1>1, <1>4 DEF EntityIdTlvSerialize, CFDP_TLV_HEADER_LEN
<1>11. Slice(rest, 0, size) # << >>
  <2>1. Len(Slice(rest, 0, size)) = size - 0
    BY <1>4, SliceType DEF n
  <2> QED BY <1>4, <2>1
<1> QED BY <1>6, <1>7, <1>8, <1>9, <1>10, <1>11 DEF size, len

(* Parts joined from the left are joined from the right.                   *)
Regroups(a, b, c, d) == ((a \o b) \o c) \o d = a \o (b \o (c \o d))

LEMMA FourRegroup ==
  ASSUME NEW a \in Seq(Octet), NEW b \in Seq(Octet), NEW c \in Seq(Octet), NEW d \in Seq(Octet)
  PROVE  Regroups(a, b, c, d)
<1>1. a \o b \in Seq(Octet) /\ c \o d \in Seq(Octet)
  BY ConcatProperties
<1> DEFINE ab == a \o b
           cd == c \o d
<1> HIDE DEF ab, cd
<1>2. (ab \o c) \o d = ab \o cd
  BY <1>1, ConcatRegroups, SMTT(40) DEF ab, cd
<1>3. (a \o b) \o cd = a \o (b \o cd)
  <2>1. cd \in Seq(Octet)
    BY <1>1 DEF cd
  <2> QED BY <2>1, ConcatRegroups, SMTT(40)
<1> QED BY <1>2, <1>3 DEF Regroups, ab, cd

-----------------------------------------------------------------------------
(* What each decoder has read, written again by the encoder, into as many  *)
(* octets, is what was decoded, with its spare bits cleared.               *)
WrittenAgain(octets, buf, ret, at, spare) ==
  octets = Cleared(Slice(buf, 0, ret), at, spare)

LEMMA AckWritten ==
  ASSUME NEW buf \in Seq(Octet), AckDeserialize(buf, ClearAck).ret > 0
  PROVE  LET ack == AckDeserialize(buf, ClearAck)
         IN WrittenAgain(AckSerialize(ack.pdu, ack.ret), buf, ack.ret, 2, {2, 3})
<1> DEFINE a == At(buf, 0)
           b == At(buf, 1)
           c == At(buf, 2)
           code == b \div 16
           refused == \/ Len(buf) < AckLen
                      \/ a # CFDP_DIRECTIVE_ACK
                      \/ ~ AckDirectiveValid(code)
                      \/ b % 16 # AckDirectiveSubtype(code)
           condition == c \div 16
           status == c % 4
           pdu == [ack_directive_code |-> code, condition_code |-> condition,
                   transaction_status |-> status]
           ack == AckDeserialize(buf, ClearAck)
<1>1. ~ refused
  BY DEF AckDeserialize
<1>2. ack = [ret |-> AckLen, pdu |-> pdu]
  <2>1. ack = [ret |-> AckLen, pdu |-> [ClearAck EXCEPT !.ack_directive_code = code,
                                                        !.condition_code = condition,
                                                        !.transaction_status = status]]
    BY <1>1 DEF AckDeserialize
  <2> HIDE DEF ack, code, condition, status
  <2> QED BY <2>1 DEF ClearAck
<1>3. Len(buf) \in Nat /\ 3 <= Len(buf)
  BY <1>1, LenProperties DEF AckLen
<1>4. a \in Octet /\ b \in Octet /\ c \in Octet
  BY <1>3, AtType
<1>5. Slice(buf, 0, 3) = <<a, b, c>>
  <2>1. 0 \in Nat /\ 2 \in Nat /\ 3 \in Nat /\ 0 <= 2 /\ 2 <= 3 /\ 2 < Len(buf) /\ 2 <= Len(buf)
    BY <1>3
  <2>2. Slice(buf, 0, 2) = <<a, b>>
    BY <2>1, FirstTwo
  <2>3. Slice(buf, 2, 2 + 1) = <<c>>
    BY <2>1, SliceOne
  <2>4. Slice(buf, 0, 2) \o Slice(buf, 2, 3) = Slice(buf, 0, 3)
    BY <1>3, <2>1, SlicesJoin
  <2>5. Slice(buf, 2, 3) = <<c>>
    BY <2>3
  <2>6. Slice(buf, 0, 3) = <<a, b>> \o <<c>>
    BY <2>2, <2>4, <2>5
  <2> HIDE DEF a, b, c
  <2>7. <<a, b>> \o <<c>> = <<a, b, c>>
    <3> DEFINE x == <<a, b>>
               y == <<c>>
               z == <<a, b, c>>
    <3>1. /\ x \in Seq(Octet) /\ y \in Seq(Octet) /\ z \in Seq(Octet)
          /\ Len(x) = 2 /\ Len(y) = 1 /\ Len(z) = 3
      BY <1>4
    <3>2. x[1] = a /\ x[2] = b /\ y[1] = c /\ z[1] = a /\ z[2] = b /\ z[3] = c
      OBVIOUS
    <3> HIDE DEF x, y, z
    <3>3. ASSUME NEW i \in 1 .. Len(z) PROVE z[i] = IF i <= Len(x) THEN x[i] ELSE y[i - Len(x)]
      <4>1. i = 1 \/ i = 2 \/ i = 3
        BY <3>1
      <4> QED BY <3>1, <3>2, <4>1
    <3>4. Len(x) + Len(y) = Len(z)
      BY <3>1
    <3>5. x \o y = z
      BY <3>1, <3>3, <3>4, ConcatIs
    <3> QED BY <3>5 DEF x, y, z
  <2> QED BY <2>6, <2>7
<1> DEFINE v == OctetWith(BitsOf(c) \ {2, 3})
<1>6. v = 16 * (c \div 16) + (c % 4) /\ v \in Octet
  BY <1>4, OctetIsItsBits, OctetWithType DEF OctetLeft
<1> DEFINE three == <<a, b, c>>
           cleared == Cleared(three, 2, {2, 3})
<1>7. three \in Seq(Octet) /\ Len(three) = 3 /\ three[1] = a /\ three[2] = b /\ three[3] = c
  <2> HIDE DEF a, b, c
  <2> QED BY <1>4
<1> HIDE DEF three
<1>8. ClearedIs(cleared, three, 2, {2, 3})
  <2>1. 2 \in Nat /\ 2 < Len(three)
    BY <1>7
  <2> QED BY <1>7, <2>1, ClearedType
<1> HIDE DEF cleared
<1>9. cleared = <<a, b, v>>
  <2> HIDE DEF a, b, c
  <2>1. cleared \in Seq(Octet) /\ Len(cleared) = 3
    BY <1>7, <1>8 DEF ClearedIs
  <2>2. cleared[1] = a /\ cleared[2] = b /\ cleared[3] = v
    <3>1. 1 \in 1 .. 3 /\ 2 \in 1 .. 3 /\ 3 \in 1 .. 3 /\ 1 # 2 + 1 /\ 2 # 2 + 1 /\ 3 = 2 + 1
      OBVIOUS
    <3> QED BY <1>7, <1>8, <3>1 DEF ClearedIs
  <2> HIDE DEF v
  <2> QED BY <1>4, <1>6, <2>1, <2>2
<1>10. AckSerialize(pdu, AckLen) = <<a, b, v>>
  <2>1. b = 16 * code + (b % 16)
    <3> HIDE DEF b
    <3> QED BY <1>4 DEF Octet
  <2>2. AckDirectiveValid(code) /\ AckDirectiveSubtype(code) = b % 16 /\ a = CFDP_DIRECTIVE_ACK
    BY <1>1
  <2>3. pdu.ack_directive_code = code /\ 16 * pdu.condition_code + pdu.transaction_status = v
    BY <1>6
  <2>4. ~ (AckLen < AckLen)
    BY DEF AckLen
  <2> HIDE DEF pdu, a, b, c, code, v, condition, status
  <2> QED BY <2>1, <2>2, <2>3, <2>4 DEF AckSerialize
<1> HIDE DEF pdu
<1>11. WrittenAgain(AckSerialize(pdu, AckLen), buf, 3, 2, {2, 3})
  BY <1>5, <1>9, <1>10 DEF WrittenAgain, cleared, three
<1> QED BY <1>2, <1>11 DEF AckLen

LEMMA PromptWritten ==
  ASSUME NEW buf \in Seq(Octet), PromptDeserialize(buf, 0).ret > 0
  PROVE  LET prompt == PromptDeserialize(buf, 0)
         IN WrittenAgain(PromptSerialize(prompt.pdu, prompt.ret), buf, prompt.ret, 1, 0 .. 6)
<1> DEFINE a == At(buf, 0)
           b == At(buf, 1)
<1>1. ~ (Len(buf) < PromptLen) /\ a = CFDP_DIRECTIVE_PROMPT
  BY DEF PromptDeserialize
<1>2. PromptDeserialize(buf, 0) = [ret |-> 2, pdu |-> b \div 128]
  BY <1>1 DEF PromptDeserialize, PromptLen
<1>3. Len(buf) \in Nat /\ 2 <= Len(buf)
  BY <1>1, LenProperties DEF PromptLen
<1>4. a \in Octet /\ b \in Octet /\ Slice(buf, 0, 2) = <<a, b>>
  BY <1>3, FirstTwo
<1> HIDE DEF a, b
<1>5. Cleared(<<a, b>>, 1, 0 .. 6) = <<a, 128 * (b \div 128)>>
  <2> DEFINE spare == 0 .. 6
             v == OctetWith(BitsOf(b) \ spare)
  <2>1. v = 128 * (b \div 128)
    BY <1>4, OctetIsItsBits DEF OctetLeft
  <2> HIDE DEF spare
  <2>2. Cleared(<<a, b>>, 1, spare) = <<a, v>>
    BY <1>4, ClearedSecond
  <2> HIDE DEF v
  <2> QED BY <2>1, <2>2 DEF spare
<1>6. PromptSerialize(b \div 128, 2) = <<a, 128 * (b \div 128)>>
  BY <1>1 DEF PromptSerialize, PromptLen
<1> DEFINE spare == 0 .. 6
           value == b \div 128
<1>7. WrittenAgain(PromptSerialize(value, 2), buf, 2, 1, spare)
  <2> HIDE DEF spare, value
  <2>1. Cleared(Slice(buf, 0, 2), 1, spare) = Cleared(<<a, b>>, 1, spare)
    BY <1>4
  <2> QED BY <1>5, <1>6, <2>1 DEF WrittenAgain, spare, value
<1> HIDE DEF spare, value
<1>8. PromptDeserialize(buf, 0) = [ret |-> 2, pdu |-> value]
  BY <1>2 DEF value
<1>9. LET prompt == PromptDeserialize(buf, 0)
      IN WrittenAgain(PromptSerialize(prompt.pdu, prompt.ret), buf, prompt.ret, 1, spare)
  BY <1>7, <1>8
<1> QED BY <1>9 DEF spare

LEMMA KeepAliveWritten ==
  ASSUME NEW buf \in Seq(Octet), NEW flag \in {0, 1},
         KeepAliveDeserialize(buf, flag, Zeros(8)).ret > 0
  PROVE  LET alive == KeepAliveDeserialize(buf, flag, Zeros(8))
         IN WrittenAgain(KeepAliveSerialize(alive.pdu, flag, alive.ret), buf, alive.ret, 0, {})
<1> DEFINE size == KeepAliveSize(flag)
           width == FileSizeOctets(flag)
           octets == Slice(buf, 1, size)
           alive == KeepAliveDeserialize(buf, flag, Zeros(8))
           a == At(buf, 0)
<1>1. ~ (Len(buf) < size) /\ a = CFDP_DIRECTIVE_KEEP_ALIVE
  BY DEF KeepAliveDeserialize
<1>2. alive = [ret |-> size, pdu |-> ReadUint(octets)]
  BY <1>1 DEF KeepAliveDeserialize
<1>3. width \in 1 .. 8 /\ size = width + 1
  BY DEF FileSizeOctets, KeepAliveSize
<1> HIDE DEF size, width, alive
<1>4. /\ Len(buf) \in Nat /\ size \in Nat /\ 1 \in Nat /\ 0 \in Nat /\ 0 <= 1 /\ 1 <= size
      /\ 0 <= size /\ size <= Len(buf) /\ size - 1 = width /\ ~ (size < size) /\ 0 < Len(buf)
      /\ size - 0 > 0
  <2>1. Len(buf) \in Nat
    BY LenProperties
  <2> QED BY <1>1, <1>3, <2>1
<1>5. octets \in Seq(Octet) /\ Len(octets) = width
  BY <1>4, SliceType
<1>6. Slice(buf, 0, 0 + 1) = <<a>>
  BY <1>4, SliceOne
<1>7. Slice(buf, 0, 1) \o octets = Slice(buf, 0, size)
  BY <1>4, SlicesJoin
<1> HIDE DEF octets, a
<1>8. WriteUint(ReadUint(octets), width) = octets
  BY <1>3, <1>5, WrittenAsRead
<1>9. KeepAliveSerialize(ReadUint(octets), flag, size) = <<a>> \o octets
  BY <1>1, <1>4, <1>8 DEF KeepAliveSerialize, size, width
<1>10. Slice(buf, 0, 1) = <<a>>
  BY <1>6
<1>11. Cleared(Slice(buf, 0, size), 0, {}) = Slice(buf, 0, size)
  <2>1. Slice(buf, 0, size) \in Seq(Octet) /\ Len(Slice(buf, 0, size)) = size - 0
    BY <1>4, SliceType
  <2>2. Len(Slice(buf, 0, size)) > 0
    BY <1>4, <2>1
  <2> QED BY <2>1, <2>2, NothingCleared
<1>12. WrittenAgain(KeepAliveSerialize(ReadUint(octets), flag, size), buf, size, 0, {})
  BY <1>7, <1>9, <1>10, <1>11 DEF WrittenAgain
<1> QED BY <1>2, <1>12 DEF alive

(* The fields of an EOF without a fault location, and of one with it.      *)
EofIs(pdu, condition, checksum, size, id, len) ==
  /\ pdu.condition_code = condition /\ pdu.file_checksum = checksum /\ pdu.file_size = size
  /\ pdu.fault_location_entity_id = id /\ pdu.fault_location_len = len

LEMMA EofFields ==
  ASSUME NEW buf, NEW flag, NEW id, NEW len
  PROVE  /\ EofIs(EofFixed(buf, flag, ClearEof), At(buf, 1) \div 16, Slice(buf, 2, 6),
                  ReadUint(Slice(buf, 6, EofSize(flag))), Zeros(8), 0)
         /\ EofIs([EofFixed(buf, flag, ClearEof) EXCEPT !.fault_location_entity_id = id,
                                                        !.fault_location_len = len],
                  At(buf, 1) \div 16, Slice(buf, 2, 6),
                  ReadUint(Slice(buf, 6, EofSize(flag))), id, len)
<1> DEFINE condition == At(buf, 1) \div 16
           checksum == Slice(buf, 2, 6)
           size == ReadUint(Slice(buf, 6, EofSize(flag)))
           none == Zeros(8)
<1>1. EofFixed(buf, flag, ClearEof)
        = [condition_code |-> condition, file_checksum |-> checksum, file_size |-> size,
           fault_location_entity_id |-> none, fault_location_len |-> 0]
  <2>1. EofFixed(buf, flag, ClearEof)
          = [ClearEof EXCEPT !.condition_code = condition, !.file_checksum = checksum,
                             !.file_size = size, !.fault_location_entity_id = none,
                             !.fault_location_len = 0]
    BY DEF EofFixed
  <2> HIDE DEF condition, checksum, size, none
  <2> QED BY <2>1 DEF ClearEof
<1> HIDE DEF condition, checksum, size, none
<1>2. EofIs(EofFixed(buf, flag, ClearEof), condition, checksum, size, none, 0)
  BY <1>1 DEF EofIs
<1>3. EofIs([EofFixed(buf, flag, ClearEof) EXCEPT !.fault_location_entity_id = id,
                                                  !.fault_location_len = len],
            condition, checksum, size, id, len)
  BY <1>1 DEF EofIs
<1> QED BY <1>2, <1>3 DEF condition, checksum, size, none

LEMMA EofWritten ==
  ASSUME NEW buf \in Seq(Octet), NEW flag \in {0, 1}, NEW eof,
         eof = EofDeserialize(buf, flag, ClearEof), eof.ret > 0,
         eof.pdu.condition_code # CFDP_COND_NO_ERROR <=> eof.pdu.fault_location_len > 0
  PROVE  WrittenAgain(EofSerialize(eof.pdu, flag, eof.ret), buf, eof.ret, 1, 0 .. 3)
<1> DEFINE size == EofSize(flag)
           width == FileSizeOctets(flag)
           rest == Slice(buf, size, Len(buf))
           tlv == EntityIdTlvSize(rest)
           a == At(buf, 0)
           b == At(buf, 1)
           code == b \div 16
           checksum == Slice(buf, 2, 6)
           octets == Slice(buf, 6, size)
           Fixed == EofFixed(buf, flag, ClearEof)
           Located == [Fixed EXCEPT !.fault_location_entity_id = EntityIdOf(rest),
                                    !.fault_location_len = At(rest, 1)]
           pdu == eof.pdu
           ret == eof.ret
           location == Slice(buf, size, ret)
<1>1. ~ (Len(buf) < size) /\ a = CFDP_DIRECTIVE_EOF
  BY DEF EofDeserialize
<1>2. eof = IF Len(buf) = size THEN [ret |-> size, pdu |-> Fixed]
            ELSE IF tlv = 0 THEN [ret |-> 0, pdu |-> Fixed]
            ELSE [ret |-> size + tlv, pdu |-> Located]
  BY <1>1 DEF EofDeserialize
<1>3. width \in 1 .. 8 /\ size = width + 6
  BY DEF EofSize, FileSizeOctets
<1>4. EofIs(Fixed, code, checksum, ReadUint(octets), Zeros(8), 0)
      /\ EofIs(Located, code, checksum, ReadUint(octets), EntityIdOf(rest), At(rest, 1))
  BY EofFields
<1> HIDE DEF size, width, tlv, a, b, Fixed, Located
<1>5. /\ Len(buf) \in Nat /\ size \in Nat /\ size <= Len(buf) /\ 6 <= size /\ 6 \in Nat
      /\ 2 \in Nat /\ 2 <= 6 /\ 6 <= Len(buf) /\ size - 6 = width /\ 2 <= Len(buf) /\ 6 - 2 = 4
      /\ 2 <= size
  <2>1. Len(buf) \in Nat
    BY LenProperties
  <2> QED BY <1>1, <1>3, <2>1
<1>6. a \in Octet /\ b \in Octet
  BY <1>5, FirstTwo DEF a, b
<1>7. checksum \in Seq(Octet) /\ octets \in Seq(Octet) /\ Len(octets) = width
  BY <1>5, SliceType
<1> DEFINE v == OctetWith(BitsOf(b) \ (0 .. 3))
<1>8. v = 16 * code /\ v \in Octet
  BY <1>6, OctetIsItsBits, OctetWithType DEF OctetLeft
<1>9. WriteUint(ReadUint(octets), width) = octets
  <2> HIDE DEF octets
  <2> QED BY <1>3, <1>7, WrittenAsRead
<1>10. /\ ret \in Nat /\ size <= ret /\ ret <= Len(buf)
       /\ EofIs(pdu, code, checksum, ReadUint(octets), pdu.fault_location_entity_id,
                pdu.fault_location_len)
       /\ IF code = 0 THEN location = << >>
          ELSE /\ location # << >>
               /\ EntityIdTlvSerialize(pdu.fault_location_entity_id, pdu.fault_location_len,
                                       ret - size) = location
  <2>1. CASE Len(buf) = size
    <3>1. pdu = Fixed /\ ret = size
      BY <1>2, <2>1
    <3>2. pdu.fault_location_len = 0 /\ pdu.condition_code = code
      BY <1>4, <3>1 DEF EofIs
    <3>3. code = 0
      BY <3>2 DEF CFDP_COND_NO_ERROR
    <3>4. location = << >>
      <4>1. size <= size /\ size - size = 0
        BY <1>5
      <4>2. Slice(buf, size, size) \in Seq(Octet) /\ Len(Slice(buf, size, size)) = size - size
        BY <1>5, <4>1, SliceType
      <4>3. Slice(buf, size, size) = << >>
        BY <4>1, <4>2, EmptySeq
      <4> QED BY <3>1, <4>3
    <3>5. EofIs(pdu, code, checksum, ReadUint(octets), pdu.fault_location_entity_id,
                pdu.fault_location_len)
      BY <1>4, <3>1 DEF EofIs
    <3>6. ret \in Nat /\ size <= ret /\ ret <= Len(buf)
      <4> HIDE DEF ret
      <4> QED BY <1>5, <3>1
    <3> QED BY <3>3, <3>4, <3>5, <3>6
  <2>2. CASE Len(buf) # size
    <3>1. tlv # 0
      <4>1. CASE tlv = 0
        <5>1. eof.ret = 0
          BY <1>2, <2>2, <4>1
        <5> QED BY <5>1
      <4> QED BY <4>1
    <3>2. pdu = Located /\ ret = size + tlv
      BY <1>2, <2>2, <3>1
    <3>3. size < Len(buf)
      BY <1>5, <2>2
    <3>4. rest \in Seq(Octet) /\ Len(rest) = Len(buf) - size
      BY <1>5, <3>3, RestProperties
    <3>5. tlv \in 3 .. Len(rest) /\ At(rest, 1) \in IdLengths
      <4> HIDE DEF rest
      <4> QED BY <3>1, <3>4, EntityIdType DEF tlv
    <3>6. pdu.fault_location_len = At(rest, 1) /\ pdu.condition_code = code
          /\ pdu.fault_location_entity_id = EntityIdOf(rest)
      BY <1>4, <3>2 DEF EofIs
    <3>7. code # 0
      <4>1. pdu.fault_location_len > 0
        BY <3>5, <3>6 DEF IdLengths, CFDP_ID_LEN_MIN, CFDP_ID_LEN_MAX
      <4> QED BY <3>6, <4>1 DEF CFDP_COND_NO_ERROR
    <3>8. /\ tlv \in Nat /\ size + tlv \in Nat /\ 0 <= tlv /\ tlv <= Len(buf) - size
          /\ size + tlv <= Len(buf) /\ size <= size + tlv /\ (size + tlv) - size = tlv
          /\ Len(buf) <= Len(buf) /\ size + 0 = size /\ 0 \in Nat
      <4> HIDE DEF rest
      <4> QED BY <1>5, <3>4, <3>5
    <3>9. Slice(rest, 0, tlv) = Slice(buf, size, size + tlv)
      <4> DEFINE n == Len(buf)
      <4>1. /\ buf \in Seq(Octet) /\ size \in Nat /\ n \in Nat /\ size <= n /\ n <= Len(buf)
            /\ 0 \in Nat /\ tlv \in Nat /\ 0 <= tlv /\ tlv <= n - size
        BY <1>5, <3>8
      <4> HIDE DEF n
      <4>2. Slice(Slice(buf, size, n), 0, tlv) = Slice(buf, size + 0, size + tlv)
        BY ONLY <4>1, SliceOfSlice
      <4> QED BY <3>8, <4>2 DEF rest, n
    <3>10. EntityIdTlvSerialize(EntityIdOf(rest), At(rest, 1), tlv) = Slice(rest, 0, tlv)
           /\ Slice(rest, 0, tlv) # << >>
      <4> HIDE DEF rest
      <4> QED BY <3>1, <3>4, EntityIdWritten DEF tlv
    <3>11. location = Slice(rest, 0, tlv) /\ ret - size = tlv
      BY <3>2, <3>8, <3>9
    <3>12. EofIs(pdu, code, checksum, ReadUint(octets), pdu.fault_location_entity_id,
                 pdu.fault_location_len)
      BY <1>4, <3>2 DEF EofIs
    <3>13. ret \in Nat /\ size <= ret /\ ret <= Len(buf)
      BY <3>2, <3>8
    <3> HIDE DEF location, rest, pdu, ret, code
    <3> QED BY <3>6, <3>7, <3>10, <3>11, <3>12, <3>13
  <2> QED BY <2>1, <2>2
<1>11. location \in Seq(Octet)
  BY <1>5, <1>10, SliceType
<1> HIDE DEF rest, code, checksum, octets, pdu, ret, location, v
<1> DEFINE head == <<a, v>>
<1>12. EofSerialize(pdu, flag, ret) = ((head \o checksum) \o octets) \o location
  <2>1. /\ pdu.condition_code = code /\ pdu.file_checksum = checksum
        /\ pdu.file_size = ReadUint(octets)
    BY <1>10 DEF EofIs
  <2>2. ~ (ret < size)
    BY <1>5, <1>10
  <2>3. EofSerialize(pdu, flag, ret)
          = IF \/ code # 0 /\ pdu.fault_location_len = 0
               \/ ret < size
               \/ code # 0 /\ EntityIdTlvSerialize(pdu.fault_location_entity_id,
                                                   pdu.fault_location_len, ret - size) = << >>
            THEN << >>
            ELSE ((<<CFDP_DIRECTIVE_EOF, 16 * code>> \o checksum) \o WriteUint(ReadUint(octets), width))
                   \o (IF code # 0 THEN EntityIdTlvSerialize(pdu.fault_location_entity_id,
                                                   pdu.fault_location_len, ret - size)
                       ELSE << >>)
    BY <2>1 DEF EofSerialize, size, width, CFDP_COND_NO_ERROR
  <2>4. code # 0 => ~ (pdu.fault_location_len = 0)
    BY <1>10, <2>1 DEF CFDP_COND_NO_ERROR, pdu
  <2>5. CASE code = 0
    BY <1>1, <1>8, <1>9, <1>10, <2>2, <2>3, <2>5
  <2>6. CASE code # 0
    BY <1>1, <1>8, <1>9, <1>10, <2>2, <2>3, <2>4, <2>6
  <2> QED BY <2>5, <2>6
<1>13. head \in Seq(Octet)
  BY <1>6, <1>8
<1> HIDE DEF head
<1>14. ((head \o checksum) \o octets) \o location = head \o (checksum \o (octets \o location))
  <2>1. checksum \in Seq(Octet) /\ octets \in Seq(Octet)
    BY <1>7 DEF checksum, octets
  <2>2. Regroups(head, checksum, octets, location)
    BY <1>11, <1>13, <2>1, FourRegroup
  <2> QED BY <2>2 DEF Regroups
<1>15. octets \o location = Slice(buf, 6, ret)
  BY <1>5, <1>10, SlicesJoin, ZenonT(60) DEF octets, location
<1>16. checksum \o Slice(buf, 6, ret) = Slice(buf, 2, ret)
  <2>1. 6 <= ret
    BY <1>5, <1>10
  <2> QED BY <1>5, <1>10, <2>1, SlicesJoin, ZenonT(60) DEF checksum
<1>17. Cleared(Slice(buf, 0, ret), 1, 0 .. 3) = head \o Slice(buf, 2, ret)
  <2>1. 2 <= ret
    BY <1>5, <1>10
  <2> DEFINE spare == 0 .. 3
  <2> HIDE DEF spare
  <2>2. Cleared(Slice(buf, 0, ret), 1, spare)
          = <<At(buf, 0), OctetWith(BitsOf(At(buf, 1)) \ spare)>> \o Slice(buf, 2, ret)
    BY <1>10, <2>1, ClearedHead
  <2> QED BY <2>2 DEF spare, v, a, b, head
<1>18. EofSerialize(pdu, flag, ret) = Cleared(Slice(buf, 0, ret), 1, 0 .. 3)
  BY <1>12, <1>14, <1>15, <1>16, <1>17
<1> QED BY <1>18 DEF WrittenAgain, pdu, ret

(* The same of five parts.                                                 *)
Regroups5(a, b, c, d, e) ==
  (((a \o b) \o c) \o d) \o e = a \o (b \o (c \o (d \o e)))

LEMMA FiveRegroup ==
  ASSUME NEW a \in Seq(Octet), NEW b \in Seq(Octet), NEW c \in Seq(Octet), NEW d \in Seq(Octet),
         NEW e \in Seq(Octet)
  PROVE  Regroups5(a, b, c, d, e)
<1> DEFINE abc == (a \o b) \o c
           de == d \o e
<1>1. abc \in Seq(Octet) /\ de \in Seq(Octet)
  BY ConcatProperties
<1>2. Regroups(a, b, c, de)
  <2> HIDE DEF de
  <2> QED BY <1>1, FourRegroup
<1>3. (abc \o d) \o e = abc \o de
  <2> HIDE DEF abc
  <2>1. abc \in Seq(Octet)
    BY <1>1
  <2>2. (abc \o d) \o e = abc \o (d \o e)
    BY ONLY <2>1, d \in Seq(Octet), e \in Seq(Octet), ConcatRegroups, ZenonT(60)
  <2> QED BY ONLY <2>2 DEF de
<1>4. abc \o de = a \o (b \o (c \o de))
  <2> HIDE DEF de
  <2> QED BY <1>2 DEF Regroups, abc
<1> QED BY <1>3, <1>4 DEF Regroups5, abc, de

(* The fields of an accepted Metadata PDU.                                 *)
MetadataIs(pdu, b, size, source, destination, options, len) ==
  /\ pdu.closure_requested = ((b \div 64) % 2 # 0) /\ pdu.checksum_type = b % 16
  /\ pdu.file_size = size
  /\ pdu.source_filename = source.value /\ pdu.source_filename_len = source.len
  /\ pdu.destination_filename = destination.value /\ pdu.destination_filename_len = destination.len
  /\ pdu.options = options /\ pdu.options_len = len

LEMMA MetadataFields ==
  ASSUME NEW buf, NEW flag, NEW source, NEW destination, NEW options, NEW len
  PROVE  MetadataIs([[MetadataFixed(buf, flag, ClearMetadata)
                        EXCEPT !.source_filename = source.value,
                               !.source_filename_len = source.len]
                       EXCEPT !.destination_filename = destination.value,
                              !.destination_filename_len = destination.len,
                              !.options = options, !.options_len = len],
                    At(buf, 1), ReadUint(Slice(buf, 2, 2 + FileSizeOctets(flag))),
                    source, destination, options, len)
<1> DEFINE closure == (At(buf, 1) \div 64) % 2 # 0
           checksum == At(buf, 1) % 16
           size == ReadUint(Slice(buf, 2, 2 + FileSizeOctets(flag)))
           none == Zeros(8)
           null == Null
           fixed == [closure_requested |-> closure, checksum_type |-> checksum,
                     file_size |-> size, source_filename |-> null, source_filename_len |-> 0,
                     destination_filename |-> null, destination_filename_len |-> 0,
                     options |-> null, options_len |-> 0]
<1>1. MetadataFixed(buf, flag, ClearMetadata) = fixed
  <2>1. MetadataFixed(buf, flag, ClearMetadata)
          = [ClearMetadata EXCEPT !.closure_requested = closure, !.checksum_type = checksum,
                                  !.file_size = size]
    BY DEF MetadataFixed
  <2>2. ClearMetadata
          = [closure_requested |-> FALSE, checksum_type |-> 0, file_size |-> none,
             source_filename |-> null, source_filename_len |-> 0,
             destination_filename |-> null, destination_filename_len |-> 0,
             options |-> null, options_len |-> 0]
    BY DEF ClearMetadata
  <2> HIDE DEF closure, checksum, size, none, null
  <2> QED BY <2>1, <2>2
<1> HIDE DEF size, checksum, none, null
<1> SUFFICES MetadataIs([[fixed EXCEPT !.source_filename = source.value,
                                       !.source_filename_len = source.len]
                           EXCEPT !.destination_filename = destination.value,
                                  !.destination_filename_len = destination.len,
                                  !.options = options, !.options_len = len],
                        At(buf, 1), size, source, destination, options, len)
  <2> HIDE DEF fixed
  <2> QED BY <1>1 DEF size
<1> QED BY DEF MetadataIs, checksum

LEMMA MetadataWritten ==
  ASSUME NEW buf \in Seq(Octet), Len(buf) <= SpanModulus, NEW flag \in {0, 1}, NEW metadata,
         metadata = MetadataDeserialize(buf, flag, ClearMetadata), metadata.ret > 0
  PROVE  WrittenAgain(MetadataSerialize(metadata.pdu, flag, metadata.ret), buf, metadata.ret,
                      1, {4, 5, 7})
<1> DEFINE n == Len(buf)
           width == FileSizeOctets(flag)
           names == width + 2
           first == Slice(buf, names, n)
           source == LvDeserialize(first)
           at == names + source.ret
           second == Slice(buf, at, n)
           destination == LvDeserialize(second)
           pos == at + destination.ret
           rest == Slice(buf, pos, n)
           pointer == IF n > pos THEN PointerTo(rest) ELSE Null
           len == (n - pos) % SpanModulus
           a == At(buf, 0)
           b == At(buf, 1)
           octets == Slice(buf, 2, names)
           pdu == metadata.pdu
           Written == [[MetadataFixed(buf, flag, ClearMetadata)
                          EXCEPT !.source_filename = source.value,
                                 !.source_filename_len = source.len]
                         EXCEPT !.destination_filename = destination.value,
                                !.destination_filename_len = destination.len,
                                !.options = pointer, !.options_len = len]
<1>1. /\ ~ (n < names) /\ a = CFDP_DIRECTIVE_METADATA /\ source.ret # 0 /\ destination.ret # 0
      /\ metadata = [ret |-> n, pdu |-> Written]
  BY DEF MetadataDeserialize
<1>2. width \in 1 .. 8 /\ names = width + 2
  BY DEF FileSizeOctets
<1>3. MetadataIs(pdu, b, ReadUint(octets), source, destination, pointer, len)
  <2>1. pdu = Written
    BY <1>1
  <2>2. 2 + width = names
    BY <1>2
  <2> HIDE DEF pdu, source, destination, pointer, len
  <2>3. MetadataIs(Written, b, ReadUint(Slice(buf, 2, 2 + width)), source, destination, pointer, len)
    BY MetadataFields
  <2> HIDE DEF Written, width, names
  <2> QED BY <2>1, <2>2, <2>3 DEF octets
<1> HIDE DEF Written, width, names, n
<1>4. /\ n \in Nat /\ names \in Nat /\ 2 <= names /\ names <= n /\ names - 2 = width /\ 2 <= n
      /\ 2 \in Nat /\ n <= Len(buf) /\ n <= n /\ 0 \in Nat
  <2>1. n \in Nat
    BY LenProperties DEF n
  <2> QED BY <1>1, <1>2, <2>1 DEF n
<1>5. first \in Seq(Octet) /\ Len(first) = n - names
  BY <1>4, SliceType
<1>6. LvWrittenBack(first, source)
  <2> HIDE DEF first
  <2> QED BY <1>1, <1>5, LvWrittenAsRead
<1>7. /\ source.ret \in Nat /\ source.ret <= n - names /\ source.len \in Nat
      /\ source.ret = source.len + 1
  <2> HIDE DEF source, first
  <2> QED BY <1>5, <1>6 DEF LvWrittenBack
<1> DEFINE sr == source.ret
<1> HIDE DEF sr
<1>8. at \in Nat /\ at <= n /\ names <= at /\ at - names = sr /\ at = names + sr
  <2>1. at = names + sr /\ sr \in Nat /\ sr <= n - names
    BY <1>7 DEF sr
  <2> HIDE DEF at
  <2> QED BY <1>4, <2>1
<1> HIDE DEF at
<1>9. second \in Seq(Octet) /\ Len(second) = n - at
  BY <1>4, <1>8, SliceType
<1>10. LvWrittenBack(second, destination)
  <2> HIDE DEF second
  <2> QED BY <1>1, <1>9, LvWrittenAsRead
<1>11. /\ destination.ret \in Nat /\ destination.ret <= n - at /\ destination.len \in Nat
       /\ destination.ret = destination.len + 1
  <2> HIDE DEF destination, second
  <2> QED BY <1>9, <1>10 DEF LvWrittenBack
<1> DEFINE dr == destination.ret
<1> HIDE DEF dr
<1>12. pos \in Nat /\ pos <= n /\ at <= pos /\ pos = at + dr /\ pos > 0
  <2>1. pos = at + dr /\ dr \in Nat /\ dr <= n - at
    BY <1>11 DEF dr
  <2> HIDE DEF pos
  <2> QED BY <1>4, <1>8, <2>1
<1> HIDE DEF pos
<1>13. rest \in Seq(Octet) /\ Len(rest) = n - pos
  BY <1>4, <1>12, SliceType
<1>14. len = n - pos
  <2>1. n <= SpanModulus /\ SpanModulus \in Nat
    BY SpanAssumption DEF n
  <2>2. n - pos \in Nat /\ n - pos < SpanModulus
    BY <1>4, <1>12, <2>1
  <2> DEFINE k == n - pos
  <2> HIDE DEF k
  <2>3. k \in Nat /\ k < SpanModulus
    BY <2>2 DEF k
  <2>4. k % SpanModulus = k
    BY <2>1, <2>3
  <2> QED BY <2>4 DEF k
<1>15. Copied(pointer, len) = rest /\ ~ (pointer = Null /\ len > 0)
  <2>1. len \in Nat /\ len = Len(rest) /\ (n > pos <=> len > 0)
    BY <1>4, <1>12, <1>13, <1>14
  <2>2. pointer = IF len > 0 THEN PointerTo(rest) ELSE Null
    BY <2>1
  <2> HIDE DEF rest, len, pointer
  <2>3. Copied(pointer, len) = rest /\ (pointer # Null \/ len = 0)
    BY <1>13, <2>1, <2>2, CopiedBack
  <2> QED BY <2>1, <2>3
<1>16. /\ LvSerialize(source.value, source.len, n) = Slice(buf, names, at)
       /\ LvSerialize(source.value, source.len, n) # << >>
  <2>1. n \in Int /\ n >= source.ret
    <3> HIDE DEF source
    <3> QED BY <1>4, <1>7
  <2>2. LvSerialize(source.value, source.len, n) = Slice(first, 0, sr) /\ Slice(first, 0, sr) # << >>
    <3> HIDE DEF source, first
    <3> QED BY <1>6, <2>1 DEF LvWrittenBack, sr
  <2>3. Slice(first, 0, sr) = Slice(buf, names, at)
    <3>1. /\ buf \in Seq(Octet) /\ names \in Nat /\ n \in Nat /\ names <= n /\ n <= Len(buf)
          /\ 0 \in Nat /\ sr \in Nat /\ 0 <= sr /\ sr <= n - names
      BY <1>4, <1>7 DEF sr
    <3>2. Slice(Slice(buf, names, n), 0, sr) = Slice(buf, names + 0, names + sr)
      BY ONLY <3>1, SliceOfSlice
    <3>3. names + 0 = names /\ names + sr = at
      BY <1>4, <1>8
    <3> QED BY <3>2, <3>3 DEF first
  <2> QED BY <2>2, <2>3
<1>17. /\ LvSerialize(destination.value, destination.len, n) = Slice(buf, at, pos)
       /\ LvSerialize(destination.value, destination.len, n) # << >>
  <2>1. n \in Int /\ n >= destination.ret
    <3> HIDE DEF destination
    <3> QED BY <1>4, <1>8, <1>11
  <2>2. LvSerialize(destination.value, destination.len, n) = Slice(second, 0, dr)
        /\ Slice(second, 0, dr) # << >>
    <3> HIDE DEF destination, second
    <3> QED BY <1>10, <2>1 DEF LvWrittenBack, dr
  <2>3. Slice(second, 0, dr) = Slice(buf, at, pos)
    <3>1. /\ buf \in Seq(Octet) /\ at \in Nat /\ n \in Nat /\ at <= n /\ n <= Len(buf)
          /\ 0 \in Nat /\ dr \in Nat /\ 0 <= dr /\ dr <= n - at
      BY <1>4, <1>8, <1>11 DEF dr
    <3>2. Slice(Slice(buf, at, n), 0, dr) = Slice(buf, at + 0, at + dr)
      BY ONLY <3>1, SliceOfSlice
    <3>3. at + 0 = at /\ at + dr = pos
      BY <1>8, <1>12
    <3> QED BY <3>2, <3>3 DEF second
  <2> QED BY <2>2, <2>3
<1> DEFINE v == OctetWith(BitsOf(b) \ {4, 5, 7})
           head == <<a, v>>
           sname == Slice(buf, names, at)
           dname == Slice(buf, at, pos)
<1>18. a \in Octet /\ b \in Octet
  BY <1>4, FirstTwo DEF n
<1>19. v = (IF (b \div 64) % 2 # 0 THEN 64 ELSE 0) + (b % 16) /\ v \in Octet
  BY <1>18, OctetIsItsBits, OctetWithType DEF OctetLeft
<1> HIDE DEF v, b
<1>20. head \in Seq(Octet)
  <2> HIDE DEF a
  <2> QED BY <1>18, <1>19
<1>21. octets \in Seq(Octet) /\ Len(octets) = width
  <2>1. names <= Len(buf)
    BY <1>4
  <2> QED BY <1>4, <2>1, SliceType
<1>22. WriteUint(ReadUint(octets), width) = octets
  <2> HIDE DEF octets
  <2> QED BY <1>2, <1>21, WrittenAsRead
<1>23. sname \in Seq(Octet) /\ dname \in Seq(Octet)
  <2>1. at <= Len(buf) /\ pos <= Len(buf)
    BY <1>4, <1>8, <1>12
  <2> QED BY <1>4, <1>8, <1>12, <2>1, SliceType
<1> DEFINE sl == source.len
           dl == destination.len
           need == width + sl + dl + len + 4
<1>24. ~ (n < need)
  <2>1. sl \in Nat /\ dl \in Nat /\ sr = sl + 1 /\ dr = dl + 1
    BY <1>7, <1>11 DEF sr, dr
  <2> HIDE DEF sl, dl, len
  <2> QED BY <1>2, <1>4, <1>8, <1>12, <1>14, <2>1
<1> HIDE DEF need, len, pointer, pdu, source, destination, octets, sname, dname, rest, a
<1>25. MetadataSerialize(pdu, flag, n) = (((head \o octets) \o sname) \o dname) \o rest
  <2> DEFINE S == LvSerialize(pdu.source_filename, pdu.source_filename_len, n)
             D == LvSerialize(pdu.destination_filename, pdu.destination_filename_len, n)
             H == <<CFDP_DIRECTIVE_METADATA,
                    (IF pdu.closure_requested THEN 64 ELSE 0) + pdu.checksum_type>>
             W == WriteUint(pdu.file_size, width)
             O == Copied(pdu.options, pdu.options_len)
             refused == \/ pdu.options = Null /\ pdu.options_len > 0
                        \/ n < width + pdu.source_filename_len + pdu.destination_filename_len
                                 + pdu.options_len + 4
                        \/ S = << >>
                        \/ D = << >>
  <2>1. S = sname /\ D = dname /\ S # << >> /\ D # << >>
    BY <1>3, <1>16, <1>17 DEF MetadataIs, sname, dname
  <2>2. H = head
    BY <1>1, <1>3, <1>19 DEF MetadataIs
  <2>3. W = octets /\ O = rest
    BY <1>3, <1>15, <1>22 DEF MetadataIs
  <2>4. ~ refused
    <3>1. ~ (pdu.options = Null /\ pdu.options_len > 0)
      BY <1>3, <1>15 DEF MetadataIs
    <3>2. ~ (n < width + pdu.source_filename_len + pdu.destination_filename_len
                   + pdu.options_len + 4)
      BY <1>3, <1>24 DEF MetadataIs, need
    <3> HIDE DEF S, D
    <3> QED BY <2>1, <3>1, <3>2
  <2>5. MetadataSerialize(pdu, flag, n) = IF refused THEN << >> ELSE (((H \o W) \o S) \o D) \o O
    BY DEF MetadataSerialize, width
  <2> HIDE DEF S, D, H, W, O, refused, head
  <2> QED BY <2>1, <2>2, <2>3, <2>4, <2>5
<1> HIDE DEF head
<1>26. (((head \o octets) \o sname) \o dname) \o rest
         = head \o (octets \o (sname \o (dname \o rest)))
  <2>1. Regroups5(head, octets, sname, dname, rest)
    BY <1>13, <1>20, <1>21, <1>23, FiveRegroup
  <2> QED BY <2>1 DEF Regroups5
<1>27. dname \o rest = second
  <2>1. /\ buf \in Seq(Octet) /\ at \in Nat /\ pos \in Nat /\ n \in Nat /\ at <= pos
        /\ pos <= n /\ n <= Len(buf)
    BY <1>4, <1>8, <1>12
  <2>2. Slice(buf, at, pos) \o Slice(buf, pos, n) = Slice(buf, at, n)
    BY ONLY <2>1, SlicesJoin
  <2> QED BY <2>2 DEF dname, rest
<1>28. sname \o second = first
  BY <1>4, <1>8, SlicesJoin DEF sname
<1>29. octets \o first = Slice(buf, 2, n)
  BY <1>4, SlicesJoin DEF octets
<1>30. Cleared(Slice(buf, 0, n), 1, {4, 5, 7}) = head \o Slice(buf, 2, n)
  <2> DEFINE spare == {4, 5, 7}
  <2> HIDE DEF spare
  <2>1. Cleared(Slice(buf, 0, n), 1, spare)
          = <<At(buf, 0), OctetWith(BitsOf(At(buf, 1)) \ spare)>> \o Slice(buf, 2, n)
    BY <1>4, ClearedHead
  <2> QED BY <2>1 DEF spare, v, a, b, head
<1>31. MetadataSerialize(pdu, flag, n) = Cleared(Slice(buf, 0, n), 1, {4, 5, 7})
  <2> HIDE DEF first, second
  <2> QED BY <1>25, <1>26, <1>27, <1>28, <1>29, <1>30
<1>32. metadata.ret = n
  BY <1>1
<1> QED BY <1>31, <1>32 DEF WrittenAgain, pdu

(* Four octets, the spare bits of the last cleared.                        *)
LEMMA ClearedFourth ==
  ASSUME NEW a \in Octet, NEW b \in Octet, NEW c \in Octet, NEW d \in Octet, NEW spare
  PROVE  Cleared(<<a, b, c, d>>, 3, spare) = <<a, b, c, OctetWith(BitsOf(d) \ spare)>>
<1> DEFINE v == OctetWith(BitsOf(d) \ spare)
           four == <<a, b, c, d>>
           x == Cleared(four, 3, spare)
<1>1. v \in Octet
  BY OctetWithType
<1>2. /\ four \in Seq(Octet) /\ Len(four) = 4
      /\ four[1] = a /\ four[2] = b /\ four[3] = c /\ four[4] = d
  OBVIOUS
<1> HIDE DEF four
<1>3. /\ x \in Seq(Octet) /\ Len(x) = 4
      /\ \A i \in 1 .. 4 : x[i] = IF i = 3 + 1 THEN OctetWith(BitsOf(four[i]) \ spare) ELSE four[i]
  <2>1. 3 \in Nat /\ 3 < Len(four)
    BY <1>2
  <2>2. ClearedIs(x, four, 3, spare)
    BY <1>2, <2>1, ClearedType
  <2> HIDE DEF x
  <2> QED BY <1>2, <2>2 DEF ClearedIs
<1> HIDE DEF x
<1>4. x[1] = a /\ x[2] = b /\ x[3] = c /\ x[4] = v
  <2>1. /\ 1 \in 1 .. 4 /\ 2 \in 1 .. 4 /\ 3 \in 1 .. 4 /\ 4 \in 1 .. 4
        /\ 1 # 3 + 1 /\ 2 # 3 + 1 /\ 3 # 3 + 1 /\ 4 = 3 + 1
    OBVIOUS
  <2> QED BY <1>2, <1>3, <2>1
<1> HIDE DEF v
<1>5. x = <<a, b, c, v>>
  BY <1>1, <1>3, <1>4
<1> QED BY <1>5 DEF x, v, four

(* A 16-bit length is written as it was read.                              *)
LEMMA LengthWritten ==
  ASSUME NEW pair \in Seq(Octet), Len(pair) = 2
  PROVE  /\ WriteUint16(ReadUint16(pair)) = pair /\ pair = <<pair[1], pair[2]>>
         /\ pair[1] \in Octet /\ pair[2] \in Octet
<1> DEFINE high == pair[1]
           low == pair[2]
<1>1. high \in Octet /\ low \in Octet
  <2>1. 1 \in 1 .. Len(pair) /\ 2 \in 1 .. Len(pair)
    OBVIOUS
  <2> QED BY <2>1, ElementOfSeq
<1>2. pair = <<high, low>>
  OBVIOUS
<1> HIDE DEF high, low
<1>3. (high * 256 + low) \div 256 = high /\ (high * 256 + low) % 256 = low
  BY <1>1 DEF Octet
<1>4. ReadUint16(pair) = high * 256 + low
  BY DEF ReadUint16, high, low
<1>5. WriteUint16(high * 256 + low) = <<high, low>>
  BY <1>3 DEF WriteUint16
<1> QED BY <1>1, <1>2, <1>4, <1>5 DEF high, low

(* The flags and lengths of a header, as its fixed octets have them.       *)
HeaderIs(pdu, o0, o3, len) ==
  LET Segment(bit) == IF (o0 \div 16) % 2 = FILE_DATA THEN bit % 2 ELSE 0
  IN /\ pdu.version = o0 \div 32 /\ pdu.pdu_type = (o0 \div 16) % 2
     /\ pdu.direction = (o0 \div 8) % 2 /\ pdu.transmission_mode = (o0 \div 4) % 2
     /\ pdu.crc_flag = (o0 \div 2) % 2 /\ pdu.large_file_flag = o0 % 2
     /\ pdu.data_field_length = len
     /\ pdu.segmentation_control = Segment(o3 \div 128)
     /\ pdu.entity_id_length = ((o3 \div 16) % 8) + 1
     /\ pdu.segment_metadata_flag = Segment(o3 \div 8)
     /\ pdu.transaction_seq_length = (o3 % 8) + 1

LEMMA HeaderFields ==
  ASSUME NEW buf
  PROVE  HeaderIs(UnpackFlags(buf, LocalHeader), At(buf, 0), At(buf, 3),
                  ReadUint16(Slice(buf, 1, 3)))
<1> DEFINE o0 == At(buf, 0)
           o3 == At(buf, 3)
           len == ReadUint16(Slice(buf, 1, 3))
           Segment(bit) == IF (o0 \div 16) % 2 = FILE_DATA THEN bit % 2 ELSE 0
           version == o0 \div 32
           type == (o0 \div 16) % 2
           direction == (o0 \div 8) % 2
           mode == (o0 \div 4) % 2
           crc == (o0 \div 2) % 2
           large == o0 % 2
           control == Segment(o3 \div 128)
           idLen == ((o3 \div 16) % 8) + 1
           metadata == Segment(o3 \div 8)
           seqLen == (o3 % 8) + 1
           pdu == UnpackFlags(buf, LocalHeader)
<1>1. pdu = [LocalHeader EXCEPT
               !.version = version, !.pdu_type = type, !.direction = direction,
               !.transmission_mode = mode, !.crc_flag = crc, !.large_file_flag = large,
               !.data_field_length = len, !.segmentation_control = control,
               !.entity_id_length = idLen, !.segment_metadata_flag = metadata,
               !.transaction_seq_length = seqLen]
  BY DEF UnpackFlags
<1> HIDE DEF pdu
<1>2. /\ pdu.version = version /\ pdu.pdu_type = type /\ pdu.direction = direction
      /\ pdu.transmission_mode = mode /\ pdu.crc_flag = crc /\ pdu.large_file_flag = large
      /\ pdu.data_field_length = len /\ pdu.segmentation_control = control
      /\ pdu.entity_id_length = idLen /\ pdu.segment_metadata_flag = metadata
      /\ pdu.transaction_seq_length = seqLen
  <2> HIDE DEF version, type, direction, mode, crc, large, len, control, idLen, metadata, seqLen
  <2> QED BY <1>1 DEF LocalHeader
<1> HIDE DEF len
<1>3. HeaderIs(pdu, o0, o3, len)
  <2> HIDE DEF o0, o3
  <2> QED BY <1>2 DEF HeaderIs
<1> QED BY <1>3 DEF pdu, len

(* They are packed as they were unpacked, the spare bits cleared.          *)
SpareBits(pdu) == IF pdu.pdu_type = DIRECTIVE THEN {3, 7} ELSE {}

LEMMA RePacked ==
  ASSUME NEW o0 \in Octet, NEW o3 \in Octet, NEW pdu, NEW len, HeaderIs(pdu, o0, o3, len)
  PROVE  /\ PackOctet0(pdu) = o0
         /\ PackOctet3(pdu) = OctetWith(BitsOf(o3) \ SpareBits(pdu))
<1>1. \A o \in 0 .. 255 :
        32 * (o \div 32) + 16 * ((o \div 16) % 2) + 8 * ((o \div 8) % 2)
          + 4 * ((o \div 4) % 2) + 2 * ((o \div 2) % 2) + (o % 2) = o
  OBVIOUS
<1>2. \A o \in 0 .. 255 :
        /\ 128 * ((o \div 128) % 2) + 16 * ((((o \div 16) % 8) + 1) - 1)
             + 8 * ((o \div 8) % 2) + (((o % 8) + 1) - 1) = o
        /\ 128 * 0 + 16 * ((((o \div 16) % 8) + 1) - 1) + 8 * 0 + (((o % 8) + 1) - 1)
             = 16 * ((o \div 16) % 8) + (o % 8)
  OBVIOUS
<1>3. o0 \in 0 .. 255 /\ o3 \in 0 .. 255
  BY DEF Octet
<1>4. PackOctet0(pdu) = o0
  <2>1. PackOctet0(pdu) = 32 * (o0 \div 32) + 16 * ((o0 \div 16) % 2) + 8 * ((o0 \div 8) % 2)
                            + 4 * ((o0 \div 4) % 2) + 2 * ((o0 \div 2) % 2) + (o0 % 2)
    BY DEF HeaderIs, PackOctet0
  <2> QED BY <1>1, <1>3, <2>1
<1>5. OctetLeft(o3)
  BY OctetIsItsBits
<1>6. CASE pdu.pdu_type = DIRECTIVE
  <2>1. /\ SpareBits(pdu) = {3, 7}
        /\ SegmentFlag(pdu, pdu.segmentation_control) = 0
        /\ SegmentFlag(pdu, pdu.segment_metadata_flag) = 0
    BY <1>6 DEF SpareBits, SegmentFlag, DIRECTIVE, FILE_DATA
  <2>2. PackOctet3(pdu)
          = 128 * 0 + 16 * ((((o3 \div 16) % 8) + 1) - 1) + 8 * 0 + (((o3 % 8) + 1) - 1)
    BY <2>1 DEF HeaderIs, PackOctet3
  <2>3. PackOctet3(pdu) = 16 * ((o3 \div 16) % 8) + (o3 % 8)
    BY <1>2, <1>3, <2>2
  <2> QED BY <1>4, <1>5, <2>1, <2>3 DEF OctetLeft
<1>7. CASE pdu.pdu_type # DIRECTIVE
  <2>1. pdu.pdu_type = FILE_DATA /\ (o0 \div 16) % 2 = FILE_DATA
    <3>1. pdu.pdu_type = (o0 \div 16) % 2
      BY DEF HeaderIs
    <3>2. (o0 \div 16) % 2 \in {0, 1}
      BY <1>3
    <3> QED BY <1>7, <3>1, <3>2 DEF DIRECTIVE, FILE_DATA
  <2>2. /\ SpareBits(pdu) = {}
        /\ SegmentFlag(pdu, pdu.segmentation_control) = (o3 \div 128) % 2
        /\ SegmentFlag(pdu, pdu.segment_metadata_flag) = (o3 \div 8) % 2
    BY <1>7, <2>1 DEF SpareBits, SegmentFlag, HeaderIs
  <2>3. PackOctet3(pdu)
          = 128 * ((o3 \div 128) % 2) + 16 * ((((o3 \div 16) % 8) + 1) - 1)
             + 8 * ((o3 \div 8) % 2) + (((o3 % 8) + 1) - 1)
    BY <2>2 DEF HeaderIs, PackOctet3
  <2>4. PackOctet3(pdu) = o3
    BY <1>2, <1>3, <2>3
  <2> QED BY <1>4, <1>5, <2>2, <2>4 DEF OctetLeft
<1> QED BY <1>6, <1>7

(* The identifiers are written over a header.                              *)
LEMMA IdentifiedFields ==
  ASSUME NEW flags \in Header, NEW a, NEW b, NEW c
  PROVE  LET pdu == WithIdentifiers(flags, a, b, c)
         IN /\ \A o0, o3, len : HeaderIs(flags, o0, o3, len) => HeaderIs(pdu, o0, o3, len)
            /\ pdu.source_entity_id = a /\ pdu.transaction_seq_number = b
            /\ pdu.destination_entity_id = c
BY DEF WithIdentifiers, HeaderIs, Header

LEMMA HeaderWritten ==
  ASSUME NEW buf \in Seq(Octet), NEW head, head = HeaderDeserialize(buf, LocalHeader),
         head.ret > 0
  PROVE  WrittenAgain(HeaderSerialize(head.pdu, head.ret), buf, head.ret, 3, SpareBits(head.pdu))
<1> DEFINE flags == UnpackFlags(buf, LocalHeader)
           m == flags.entity_id_length
           n == flags.transaction_seq_length
           size == HeaderSize(flags)
           seqAt == 4 + m
           dstAt == seqAt + n
           source == Slice(buf, 4, seqAt)
           number == Slice(buf, seqAt, dstAt)
           destination == Slice(buf, dstAt, size)
           Identified == WithIdentifiers(flags, ReadUint(source), ReadUint(number),
                                         ReadUint(destination))
           o0 == At(buf, 0)
           o3 == At(buf, 3)
           pair == Slice(buf, 1, 3)
           len == ReadUint16(pair)
           pdu == head.pdu
<1>1. /\ ~ (Len(buf) < 4) /\ flags.version = 1 /\ size # 0 /\ ~ (Len(buf) < size)
      /\ head = [ret |-> size, pdu |-> Identified]
  BY DEF HeaderDeserialize, WithIdentifiers, CFDP_PDU_HEADER_FIXED_LEN, CFDP_PROTOCOL_VERSION
<1> HIDE DEF flags
<1>2. m \in 1 .. 8 /\ n \in 1 .. 8 /\ size = 4 + 2 * m + n
      /\ IdLenValid(m) /\ IdLenValid(n)
  <2>1. IdLenValid(m) /\ IdLenValid(n) /\ size = CFDP_PDU_HEADER_FIXED_LEN + 2 * m + n
    BY <1>1 DEF HeaderSize
  <2> QED BY <2>1 DEF IdLenValid, IdLengths, CFDP_ID_LEN_MIN, CFDP_ID_LEN_MAX,
                      CFDP_PDU_HEADER_FIXED_LEN
<1>3. HeaderIs(flags, o0, o3, len)
  BY HeaderFields DEF flags
<1>4. flags \in Header
  <2>1. Len(buf) >= CFDP_PDU_HEADER_FIXED_LEN
    <3>1. Len(buf) \in Nat
      BY LenProperties
    <3> QED BY <1>1, <3>1 DEF CFDP_PDU_HEADER_FIXED_LEN
  <2> QED BY <2>1, LocalHeaderType, UnpackedType DEF flags
<1>5. /\ HeaderIs(pdu, o0, o3, len) /\ pdu.source_entity_id = ReadUint(source)
      /\ pdu.transaction_seq_number = ReadUint(number)
      /\ pdu.destination_entity_id = ReadUint(destination)
  <2> DEFINE a == ReadUint(source)
             b == ReadUint(number)
             c == ReadUint(destination)
  <2>1. pdu = WithIdentifiers(flags, a, b, c)
    BY <1>1
  <2> HIDE DEF a, b, c, len, o0, o3, pdu
  <2> QED BY <1>3, <1>4, <2>1, IdentifiedFields DEF a, b, c
<1>6. pdu.entity_id_length = m /\ pdu.transaction_seq_length = n /\ pdu.version = 1
      /\ pdu.data_field_length = len
  <2> HIDE DEF pdu, len, o0, o3
  <2> QED BY <1>1, <1>3, <1>5 DEF HeaderIs
<1> HIDE DEF m, n, size, Identified
<1>7. /\ Len(buf) \in Nat /\ seqAt \in Nat /\ dstAt \in Nat /\ size \in Nat
      /\ 4 <= seqAt /\ seqAt <= dstAt /\ dstAt <= size /\ size <= Len(buf)
      /\ seqAt - 4 = m /\ dstAt - seqAt = n /\ size - dstAt = m /\ 4 \in Nat
      /\ seqAt <= size /\ 4 <= size /\ dstAt <= Len(buf) /\ seqAt <= Len(buf) /\ 4 <= Len(buf)
      /\ 0 \in Nat /\ 1 \in Nat /\ 3 \in Nat /\ 0 <= 4 /\ 1 <= 3 /\ 0 <= 1 /\ 0 <= 3 /\ 3 <= 4
      /\ 3 <= Len(buf) /\ 0 < Len(buf) /\ 3 < Len(buf) /\ 3 - 1 = 2 /\ 0 + 1 = 1 /\ 3 + 1 = 4
      /\ m \in 1 .. 8 /\ n \in 1 .. 8 /\ ~ (size < size) /\ size # 0
  <2>1. Len(buf) \in Nat
    BY LenProperties
  <2> QED BY <1>1, <1>2, <2>1
<1> HIDE DEF seqAt, dstAt
<1>8. /\ source \in Seq(Octet) /\ Len(source) = m /\ number \in Seq(Octet) /\ Len(number) = n
      /\ destination \in Seq(Octet) /\ Len(destination) = m
  BY <1>7, SliceType
<1>9. /\ o0 \in Octet /\ o3 \in Octet /\ pair \in Seq(Octet) /\ Len(pair) = 2
  BY <1>7, AtType, SliceType
<1> HIDE DEF source, number, destination, o0, o3, pair, pdu
<1>10. /\ WriteUint(ReadUint(source), m) = source /\ WriteUint(ReadUint(number), n) = number
       /\ WriteUint(ReadUint(destination), m) = destination
  BY <1>7, <1>8, WrittenAsRead
<1>11. /\ WriteUint16(len) = pair /\ pair = <<pair[1], pair[2]>>
       /\ pair[1] \in Octet /\ pair[2] \in Octet
  BY <1>9, LengthWritten
<1> DEFINE spare == SpareBits(pdu)
           v == OctetWith(BitsOf(o3) \ spare)
           p1 == pair[1]
           p2 == pair[2]
           fixed == <<o0, p1, p2, v>>
<1> HIDE DEF len, p1, p2
<1>12. PackOctet0(pdu) = o0 /\ PackOctet3(pdu) = v
  BY <1>5, <1>9, RePacked
<1>13. v \in Octet
  BY OctetWithType
<1> HIDE DEF spare, v
<1>14. p1 \in Octet /\ p2 \in Octet /\ pair = <<p1, p2>>
  BY <1>11 DEF p1, p2
<1>15. (<<o0>> \o pair) \o <<v>> = fixed
  BY <1>9, <1>13, <1>14, FixedOctets
<1>16. fixed \in Seq(Octet)
  BY <1>9, <1>13, <1>14
<1>17. HeaderSerialize(pdu, size) = ((fixed \o source) \o number) \o destination
  <2> DEFINE S == WriteUint(pdu.source_entity_id, pdu.entity_id_length)
             N == WriteUint(pdu.transaction_seq_number, pdu.transaction_seq_length)
             D == WriteUint(pdu.destination_entity_id, pdu.entity_id_length)
             F == (<<PackOctet0(pdu)>> \o WriteUint16(pdu.data_field_length)) \o <<PackOctet3(pdu)>>
             refused == \/ pdu.version # CFDP_PROTOCOL_VERSION
                        \/ HeaderSize(pdu) = 0
                        \/ size < HeaderSize(pdu)
  <2>1. S = source /\ N = number /\ D = destination
    BY <1>5, <1>6, <1>10
  <2>2. F = fixed
    BY <1>6, <1>11, <1>12, <1>15
  <2>3. HeaderSize(pdu) = size
    BY <1>2, <1>6 DEF HeaderSize, CFDP_PDU_HEADER_FIXED_LEN
  <2>4. ~ refused
    BY <1>6, <1>7, <2>3 DEF CFDP_PROTOCOL_VERSION
  <2>5. HeaderSerialize(pdu, size) = IF refused THEN << >> ELSE ((F \o S) \o N) \o D
    BY DEF HeaderSerialize
  <2> HIDE DEF S, N, D, F, refused, fixed
  <2> QED BY <2>1, <2>2, <2>4, <2>5
<1> HIDE DEF fixed
<1>18. ((fixed \o source) \o number) \o destination = fixed \o (source \o (number \o destination))
  <2>1. Regroups(fixed, source, number, destination)
    BY <1>8, <1>16, FourRegroup
  <2> QED BY <2>1 DEF Regroups
<1>19. source \o (number \o destination) = Slice(buf, 4, size)
  <2>1. number \o destination = Slice(buf, seqAt, size)
    BY <1>7, SlicesJoin, ZenonT(60) DEF number, destination
  <2>2. source \o Slice(buf, seqAt, size) = Slice(buf, 4, size)
    BY <1>7, SlicesJoin, ZenonT(60) DEF source
  <2> QED BY <2>1, <2>2
<1> DEFINE front == Slice(buf, 0, 4)
           back == Slice(buf, 4, size)
<1>20. front \in Seq(Octet) /\ Len(front) = 4 /\ back \in Seq(Octet)
       /\ front \o back = Slice(buf, 0, size)
  <2>1. 4 - 0 = 4
    OBVIOUS
  <2>2. front \in Seq(Octet) /\ Len(front) = 4 - 0
    BY <1>7, SliceType
  <2>3. back \in Seq(Octet)
    BY <1>7, SliceType
  <2>4. /\ buf \in Seq(Octet) /\ 0 \in Nat /\ 4 \in Nat /\ size \in Nat /\ 0 <= 4 /\ 4 <= size
        /\ size <= Len(buf)
    BY <1>7
  <2>5. Slice(buf, 0, 4) \o Slice(buf, 4, size) = Slice(buf, 0, size)
    BY ONLY <2>4, SlicesJoin
  <2>6. Len(front) = 4
    BY <2>1, <2>2
  <2>7. front \in Seq(Octet)
    BY <2>2
  <2> QED BY <2>3, <2>5, <2>6, <2>7
<1>21. front = <<o0, p1, p2, o3>>
  <2>1. Slice(buf, 0, 0 + 1) = <<o0>> /\ Slice(buf, 3, 3 + 1) = <<o3>>
    BY <1>7, SliceOne DEF o0, o3
  <2>2. Slice(buf, 0, 1) = <<o0>> /\ Slice(buf, 3, 4) = <<o3>>
    BY <1>7, <2>1
  <2>3. Slice(buf, 0, 1) \o pair = Slice(buf, 0, 3)
    BY <1>7, SlicesJoin, SMTT(40) DEF pair
  <2>4. Slice(buf, 0, 3) \o Slice(buf, 3, 4) = front
    <3>1. /\ buf \in Seq(Octet) /\ 0 \in Nat /\ 3 \in Nat /\ 4 \in Nat /\ 0 <= 3 /\ 3 <= 4
          /\ 4 <= Len(buf)
      BY <1>7
    <3>2. Slice(buf, 0, 3) \o Slice(buf, 3, 4) = Slice(buf, 0, 4)
      BY ONLY <3>1, SlicesJoin
    <3> QED BY <3>2
  <2>5. (<<o0>> \o <<p1, p2>>) \o <<o3>> = <<o0, p1, p2, o3>>
    BY <1>9, <1>14, FixedOctets
  <2> QED BY <1>14, <2>2, <2>3, <2>4, <2>5
<1>22. Cleared(front, 3, spare) = fixed
  <2>1. Cleared(<<o0, p1, p2, o3>>, 3, spare) = <<o0, p1, p2, OctetWith(BitsOf(o3) \ spare)>>
    BY <1>9, <1>14, ClearedFourth
  <2> QED BY <1>21, <2>1 DEF fixed, v
<1>23. Cleared(front \o back, 3, spare) = Cleared(front, 3, spare) \o back
  <2> HIDE DEF front, back
  <2>1. front \in Seq(Octet) /\ back \in Seq(Octet) /\ 3 \in Nat /\ 3 < Len(front)
    BY <1>20
  <2> QED BY ONLY <2>1, ClearedInFront
<1>24. HeaderSerialize(pdu, size) = Cleared(Slice(buf, 0, size), 3, spare)
  BY <1>17, <1>18, <1>19, <1>20, <1>22, <1>23
<1>25. head.ret = size
  BY <1>1
<1> QED BY <1>24, <1>25 DEF WrittenAgain, spare, pdu

(* The fields of an accepted File Data PDU.                                *)
FileDataIs(fd, state, metadata, len, offset, data, dataLen) ==
  /\ fd.record_continuation = state /\ fd.segment_metadata = metadata
  /\ fd.segment_metadata_len = len /\ fd.offset = offset
  /\ fd.file_data = data /\ fd.file_data_len = dataLen

LEMMA FileDataFields ==
  ASSUME NEW t, t = NoFileData, NEW state, NEW metadata, NEW len, NEW offset, NEW data, NEW dataLen
  PROVE  FileDataIs(WithData(WithMetadata(t, state, metadata, len), offset, data, dataLen),
                    state, metadata, len, offset, data, dataLen)
BY DEF FileDataIs, WithData, WithMetadata, NoFileData

(* Where the offset begins, and what stands in front of it.                *)
FileDataFrom(buf, flag, from, state, metadata, len) ==
  IF flag = PRESENT
  THEN /\ Len(buf) >= 1 /\ len = At(buf, 0) % 64 /\ state = At(buf, 0) \div 64 /\ from = len + 1
       /\ metadata = IF len > 0 THEN PointerTo(Slice(buf, 1, len + 1)) ELSE Null
  ELSE len = 0 /\ state = 0 /\ from = 0 /\ metadata = Null

LEMMA FileDataAccepted ==
  ASSUME NEW buf \in Seq(Octet), NEW large \in {0, 1}, NEW flag \in {ABSENT, PRESENT}, NEW read,
         read = FileDataDeserialize(buf, large, flag, NoFileData), read.ret > 0
  PROVE  \E from, state, metadata, len :
           LET to == from + FileSizeOctets(large)
           IN /\ FileDataFrom(buf, flag, from, state, metadata, len)
              /\ ~ (Len(buf) < to) /\ read.ret = Len(buf)
              /\ FileDataIs(read.pdu, state, metadata, len, ReadUint(Slice(buf, from, to)),
                            IF Len(buf) > to THEN PointerTo(Slice(buf, to, Len(buf))) ELSE Null,
                            Len(buf) - to)
<1> DEFINE size == FileSizeOctets(large)
           Data(to) == IF Len(buf) > to THEN PointerTo(Slice(buf, to, Len(buf))) ELSE Null
           Offset(from, to) == ReadUint(Slice(buf, from, to))
           Reset == WithMetadata(NoFileData, 0, Null, 0)
           Read == IF flag = PRESENT THEN SegmentMetadataRead(buf, Reset)
                   ELSE [ret |-> 0, pdu |-> Reset]
           to == Read.ret + size
<1>1. /\ ~ (flag = PRESENT /\ Read.ret = 0) /\ ~ (Len(buf) < to)
      /\ read = [ret |-> Len(buf),
                 pdu |-> WithData(Read.pdu, Offset(Read.ret, to), Data(to), Len(buf) - to)]
  BY DEF FileDataDeserialize, WithMetadata, WithData
<1>2. Len(buf) \in Nat
  BY LenProperties
<1>3. CASE flag # PRESENT
  <2>1. Read.ret = 0 /\ Read.pdu = Reset
    BY <1>3
  <2>2. FileDataFrom(buf, flag, 0, 0, Null, 0)
    BY <1>3 DEF FileDataFrom
  <2> DEFINE end == 0 + size
             offset == Offset(0, end)
             data == Data(end)
             rest == Len(buf) - end
  <2>3. ~ (Len(buf) < end) /\ read.ret = Len(buf) /\ read.pdu = WithData(Reset, offset, data, rest)
    BY <1>1, <2>1
  <2> HIDE DEF offset, data, rest, Read
  <2>4. FileDataIs(read.pdu, 0, Null, 0, offset, data, rest)
    <3> DEFINE none == Null
    <3> HIDE DEF none
    <3>1. FileDataIs(WithData(WithMetadata(NoFileData, 0, none, 0), offset, data, rest),
                     0, none, 0, offset, data, rest)
      BY FileDataFields
    <3> QED BY <2>3, <3>1 DEF none
  <2> WITNESS 0, 0, Null, 0
  <2> QED BY <2>2, <2>3, <2>4 DEF offset, data, rest
<1>4. CASE flag = PRESENT
  <2> DEFINE len == At(buf, 0) % 64
             state == At(buf, 0) \div 64
             metadata == IF len > 0 THEN PointerTo(Slice(buf, 1, len + 1)) ELSE Null
             Announced == [Reset EXCEPT !.record_continuation = state, !.segment_metadata_len = len]
  <2>1. /\ ~ (Len(buf) < 1) /\ Read.ret = len + 1
        /\ Read.pdu = [Announced EXCEPT !.segment_metadata = metadata]
    <3>1. SegmentMetadataRead(buf, Reset)
            = IF Len(buf) < 1 THEN [ret |-> 0, pdu |-> Reset]
              ELSE IF Len(buf) < len + 1 THEN [ret |-> 0, pdu |-> Announced]
              ELSE [ret |-> len + 1, pdu |-> [Announced EXCEPT !.segment_metadata = metadata]]
      BY DEF SegmentMetadataRead
    <3>2. Read = SegmentMetadataRead(buf, Reset) /\ Read.ret # 0
      BY <1>1, <1>4
    <3> HIDE DEF Read, Reset, Announced, metadata, len
    <3>3. ~ (Len(buf) < 1)
      <4>1. CASE Len(buf) < 1
        BY <3>1, <3>2, <4>1
      <4> QED BY <4>1
    <3>4. ~ (Len(buf) < len + 1)
      <4>1. CASE Len(buf) < len + 1
        BY <3>1, <3>2, <3>3, <4>1
      <4> QED BY <4>1
    <3> QED BY <3>1, <3>2, <3>3, <3>4
  <2>2. [Announced EXCEPT !.segment_metadata = metadata]
          = WithMetadata(NoFileData, state, metadata, len)
    <3> HIDE DEF metadata, state, len
    <3> QED BY DEF WithMetadata, NoFileData
  <2> DEFINE from == len + 1
             end == from + size
             offset == Offset(from, end)
             data == Data(end)
             rest == Len(buf) - end
  <2>3. FileDataFrom(buf, flag, from, state, metadata, len)
    <3>1. Len(buf) >= 1
      BY <1>2, <2>1
    <3> QED BY <1>4, <3>1 DEF FileDataFrom
  <2> HIDE DEF Read, Announced, metadata, state, len
  <2>4. to = end
    BY <2>1
  <2>5. ~ (Len(buf) < end) /\ read.ret = Len(buf)
        /\ read.pdu = WithData(WithMetadata(NoFileData, state, metadata, len), offset, data, rest)
    BY <1>1, <2>1, <2>2, <2>4
  <2> HIDE DEF offset, data, rest, end, from
  <2>6. FileDataIs(read.pdu, state, metadata, len, offset, data, rest)
    BY <2>5, FileDataFields
  <2> WITNESS from, state, metadata, len
  <2> QED BY <2>3, <2>5, <2>6 DEF offset, data, rest, end
<1> QED BY <1>3, <1>4

(* What stands in front of the offset is written as it was read.           *)
LEMMA FrontWritten ==
  ASSUME NEW buf \in Seq(Octet), NEW flag \in {ABSENT, PRESENT}, NEW from, NEW state,
         NEW metadata, NEW len, FileDataFrom(buf, flag, from, state, metadata, len),
         NEW width \in 1 .. 8, ~ (Len(buf) < from + width),
         NEW fd, NEW offset, NEW data, NEW dataLen,
         FileDataIs(fd, state, metadata, len, offset, data, dataLen)
  PROVE  /\ from \in Nat /\ from <= Len(buf)
         /\ SegmentMetadataConsistent(fd, flag)
         /\ from = IF flag = PRESENT THEN fd.segment_metadata_len + 1 ELSE 0
         /\ (IF flag = PRESENT THEN SegmentMetadataWrite(fd) ELSE << >>) = Slice(buf, 0, from)
<1>1. Len(buf) \in Nat
  BY LenProperties
<1>2. fd.record_continuation = state /\ fd.segment_metadata = metadata
      /\ fd.segment_metadata_len = len
  BY DEF FileDataIs
<1>3. CASE flag # PRESENT
  <2>1. len = 0 /\ state = 0 /\ from = 0 /\ metadata = Null
    BY <1>3 DEF FileDataFrom
  <2>2. 0 \in Nat /\ 0 <= 0 /\ 0 <= Len(buf) /\ 0 - 0 = 0
    BY <1>1
  <2>3. Slice(buf, 0, 0) \in Seq(Octet) /\ Len(Slice(buf, 0, 0)) = 0 - 0
    BY <2>2, SliceType
  <2>4. Slice(buf, 0, 0) = << >>
    BY <2>2, <2>3, EmptySeq
  <2>5. SegmentMetadataConsistent(fd, flag)
    BY <1>2, <1>3, <2>1 DEF SegmentMetadataConsistent
  <2> QED BY <1>3, <2>1, <2>2, <2>4, <2>5
<1>4. CASE flag = PRESENT
  <2> DEFINE o0 == At(buf, 0)
             octets == Slice(buf, 1, len + 1)
  <2>1. /\ Len(buf) >= 1 /\ len = o0 % 64 /\ state = o0 \div 64 /\ from = len + 1
        /\ metadata = IF len > 0 THEN PointerTo(octets) ELSE Null
    BY <1>4 DEF FileDataFrom
  <2>2. o0 \in Octet
    <3>1. 0 \in Nat /\ 0 < Len(buf)
      BY <1>1, <2>1
    <3> QED BY <3>1, AtType
  <2>3. len \in 0 .. 63 /\ 64 * state + len = o0
    <3> HIDE DEF o0
    <3> QED BY <2>1, <2>2 DEF Octet
  <2>4. /\ from \in Nat /\ from <= Len(buf) /\ from - 1 = len /\ 1 \in Nat /\ 1 <= from
        /\ 0 \in Nat /\ 0 < Len(buf) /\ 0 <= 1 /\ 0 + 1 = 1 /\ len \in Nat
    <3>1. len \in 0 .. 63 /\ from = len + 1 /\ Len(buf) >= 1 /\ ~ (Len(buf) < from + width)
      BY <2>1, <2>3
    <3> DEFINE n == Len(buf)
    <3> HIDE DEF n, o0
    <3> QED BY ONLY <1>1, <3>1, width \in 1 .. 8 DEF n
  <2>5. octets \in Seq(Octet) /\ Len(octets) = len
    BY <2>1, <2>4, SliceType, ZenonT(60)
  <2>6. Slice(buf, 0, 1) = <<o0>>
    <3>1. Slice(buf, 0, 0 + 1) = <<o0>>
      BY <2>4, SliceOne
    <3> QED BY <2>4, <3>1
  <2>7. Slice(buf, 0, 1) \o octets = Slice(buf, 0, from)
    <3>1. /\ buf \in Seq(Octet) /\ 0 \in Nat /\ 1 \in Nat /\ from \in Nat /\ 0 <= 1 /\ 1 <= from
          /\ from <= Len(buf)
      BY <2>4
    <3>2. Slice(buf, 0, 1) \o Slice(buf, 1, from) = Slice(buf, 0, from)
      BY ONLY <3>1, SlicesJoin
    <3>3. from = len + 1
      BY <2>1
    <3> QED BY <3>2, <3>3
  <2> HIDE DEF o0, octets
  <2>8. Copied(metadata, len) = octets /\ (metadata # Null \/ len = 0)
    BY <2>1, <2>5, CopiedBack
  <2>9. SegmentMetadataWrite(fd) = <<o0>> \o octets
    BY <1>2, <2>3, <2>8 DEF SegmentMetadataWrite
  <2>10. SegmentMetadataConsistent(fd, flag)
    <3>1. len <= CFDP_SEGMENT_METADATA_MAX_LEN
      BY <2>3 DEF CFDP_SEGMENT_METADATA_MAX_LEN
    <3> QED BY <1>2, <1>4, <2>8, <3>1 DEF SegmentMetadataConsistent
  <2> QED BY <1>2, <1>4, <2>1, <2>4, <2>6, <2>7, <2>9, <2>10
<1> QED BY <1>3, <1>4

LEMMA FileDataWritten ==
  ASSUME NEW buf \in Seq(Octet), NEW large \in {0, 1}, NEW flag \in {ABSENT, PRESENT}, NEW read,
         read = FileDataDeserialize(buf, large, flag, NoFileData), read.ret > 0
  PROVE  WrittenAgain(FileDataSerialize(read.pdu, large, flag, read.ret), buf, read.ret, 0, {})
<1> DEFINE width == FileSizeOctets(large)
           n == Len(buf)
<1>1. width \in 1 .. 8 /\ n \in Nat
  BY LenProperties, FileSizeWidth
<1>2. PICK from, state, metadata, len :
        LET to == from + width
        IN /\ FileDataFrom(buf, flag, from, state, metadata, len)
           /\ ~ (n < to) /\ read.ret = n
           /\ FileDataIs(read.pdu, state, metadata, len, ReadUint(Slice(buf, from, to)),
                         IF n > to THEN PointerTo(Slice(buf, to, n)) ELSE Null, n - to)
  <2>1. \E from, state, metadata, len :
          LET to == from + width
          IN /\ FileDataFrom(buf, flag, from, state, metadata, len)
             /\ ~ (n < to) /\ read.ret = n
             /\ FileDataIs(read.pdu, state, metadata, len, ReadUint(Slice(buf, from, to)),
                           IF n > to THEN PointerTo(Slice(buf, to, n)) ELSE Null, n - to)
    BY FileDataAccepted
  <2> QED BY <2>1
<1> DEFINE to == from + width
           octets == Slice(buf, from, to)
           rest == Slice(buf, to, n)
           data == IF n > to THEN PointerTo(rest) ELSE Null
           more == n - to
           offset == ReadUint(octets)
           fd == read.pdu
           front == Slice(buf, 0, from)
           written == IF flag = PRESENT THEN SegmentMetadataWrite(fd) ELSE << >>
           metadata_size == IF flag = PRESENT THEN fd.segment_metadata_len + 1 ELSE 0
<1>3. /\ FileDataFrom(buf, flag, from, state, metadata, len) /\ ~ (n < to) /\ read.ret = n
      /\ FileDataIs(fd, state, metadata, len, offset, data, more)
  BY <1>2
<1>4. /\ from \in Nat /\ from <= n /\ SegmentMetadataConsistent(fd, flag)
      /\ metadata_size = from /\ written = front
  <2> HIDE DEF width, offset, data, more, fd
  <2> QED BY <1>1, <1>3, FrontWritten
<1> HIDE DEF width, n
<1>5. /\ to \in Nat /\ from <= to /\ to <= n /\ to - from = width /\ n <= Len(buf) /\ n <= n
      /\ to <= Len(buf) /\ 0 \in Nat /\ 0 <= from /\ 0 <= to /\ more \in Nat /\ more = n - to
      /\ (n > to <=> more > 0) /\ n \in Nat /\ from <= Len(buf) /\ n > 0
  <2>1. n > 0
    BY <1>3
  <2> QED BY <1>1, <1>3, <1>4, <2>1 DEF n
<1>6. octets \in Seq(Octet) /\ Len(octets) = width /\ rest \in Seq(Octet) /\ Len(rest) = more
  BY <1>1, <1>4, <1>5, SliceType
<1> HIDE DEF to
<1>7. WriteUint(offset, width) = octets
  <2> HIDE DEF octets
  <2> QED BY <1>1, <1>6, WrittenAsRead
<1>8. Copied(data, more) = rest /\ (data # Null \/ more = 0)
  <2>1. data = IF more > 0 THEN PointerTo(rest) ELSE Null
    BY <1>5
  <2> HIDE DEF rest, more, data
  <2> QED BY <1>6, <2>1, CopiedBack
<1> HIDE DEF octets, rest, data, more, fd, offset, front, written, metadata_size
<1>9. fd.offset = offset /\ fd.file_data = data /\ fd.file_data_len = more
  BY <1>3 DEF FileDataIs
<1>10. FileDataSerialize(fd, large, flag, n) = (front \o octets) \o rest
  <2> DEFINE refused == \/ fd.file_data = Null /\ fd.file_data_len > 0
                        \/ ~ SegmentMetadataConsistent(fd, flag)
                        \/ n < metadata_size + width + fd.file_data_len
             W == WriteUint(fd.offset, width)
             D == Copied(fd.file_data, fd.file_data_len)
  <2>1. FileDataSerialize(fd, large, flag, n) = IF refused THEN << >> ELSE (written \o W) \o D
    BY DEF FileDataSerialize, width, written, metadata_size
  <2>2. ~ (n < from + width + more)
    BY <1>1, <1>4, <1>5
  <2>3. ~ refused
    <3>1. ~ (fd.file_data = Null /\ fd.file_data_len > 0)
      BY <1>5, <1>8, <1>9
    <3> QED BY <1>4, <1>9, <2>2, <3>1
  <2>4. W = octets /\ D = rest
    BY <1>7, <1>8, <1>9
  <2> HIDE DEF refused, W, D
  <2> QED BY <1>4, <2>1, <2>3, <2>4
<1>11. (front \o octets) \o rest = Slice(buf, 0, n)
  <2>1. front \o octets = Slice(buf, 0, to)
    BY <1>4, <1>5, SlicesJoin, ZenonT(60) DEF front, octets
  <2>2. Slice(buf, 0, to) \o rest = Slice(buf, 0, n)
    BY <1>5, SlicesJoin, ZenonT(60) DEF rest
  <2> QED BY <2>1, <2>2
<1>12. Cleared(Slice(buf, 0, n), 0, {}) = Slice(buf, 0, n)
  <2> DEFINE whole == Slice(buf, 0, n)
  <2>1. whole \in Seq(Octet) /\ Len(whole) = n - 0
    BY <1>5, SliceType
  <2> HIDE DEF whole
  <2>2. Len(whole) > 0
    BY <1>5, <2>1
  <2>3. Cleared(whole, 0, {}) = whole
    BY <2>1, <2>2, NothingCleared
  <2> QED BY <2>3 DEF whole
<1> QED BY <1>3, <1>10, <1>11, <1>12 DEF WrittenAgain, fd

-----------------------------------------------------------------------------
(* The octets that were given to the last call.                            *)
Given ==
  last.kind # "none" =>
    /\ last.field \in Seq(Octet) /\ Len(last.field) <= SpanModulus
    /\ last.large \in {0, 1} /\ last.flag \in {ABSENT, PRESENT}

(* A caller decodes octets of a data field, under flags of a header.       *)
THEOREM GivenHolds == Spec => []Given
<1>1. Init => Given
  BY DEF Init, Given
<1>2. Given /\ [Next]_vars => Given'
  <2> SUFFICES ASSUME Given, [Next]_vars PROVE Given'
    OBVIOUS
  <2>1. CASE Next
    <3>1. PICK kind, field, big, flag : CallOf(kind, field, big, flag)
      BY <2>1, NextIsCall
    <3>2. /\ last'.field = field /\ last'.large = big /\ last'.flag = flag
          /\ field \in Seq(Octet) /\ Len(field) <= SpanModulus
          /\ big \in {0, 1} /\ flag \in {ABSENT, PRESENT}
      BY <3>1 DEF CallOf, Call
    <3> QED BY <3>2 DEF Given
  <2>2. CASE UNCHANGED vars
    BY <2>2 DEF vars, Given
  <2> QED BY <2>1, <2>2
<1> QED BY <1>1, <1>2, PTL DEF Spec

(* What was decoded, from octets of any length, is encoded as the octets   *)
(* that were consumed, but for their spare bits: no decoder has skipped an *)
(* octet, read one twice or read one at another place, and its caller can  *)
(* send the PDU on.                                                        *)
THEOREM CanBeSentOn == Spec => []Reencodes
<1>1. ASSUME IInv, Given PROVE Reencodes
  <2> DEFINE field == last.field
             big == last.large
             flag == last.flag
             ret == last.ret
  <2>1. ASSUME NEW at, NEW spare PROVE Consumed(at, spare) = Cleared(Slice(field, 0, ret), at, spare)
    BY DEF Consumed, Cleared
  <2>2. ASSUME NEW kind \in Kinds, Accepted(kind)
        PROVE  LET fresh == Decode(kind, field, big, flag, Clear[kind])
               IN /\ field \in Seq(Octet) /\ Len(field) <= SpanModulus
                  /\ big \in {0, 1} /\ flag \in {ABSENT, PRESENT}
                  /\ fresh.ret > 0 /\ ret = fresh.ret /\ out[kind] = fresh.pdu
    <3>1. last.kind = kind /\ last.ret > 0 /\ last.kind # "none"
      BY <2>2 DEF Accepted, Kinds
    <3>2. AsFromClear
      BY <1>1, <3>1 DEF IInv
    <3> QED BY <1>1, <3>1, <3>2 DEF Given, AsFromClear
  <2>3. ASSUME Accepted("eof"), FaultLocationAgrees
        PROVE  EofSerialize(out.eof, big, ret) = Consumed(1, 0 .. 3)
    <3> DEFINE fresh == EofDeserialize(field, big, ClearEof)
               spare == 0 .. 3
    <3>1. /\ field \in Seq(Octet) /\ big \in {0, 1} /\ fresh.ret > 0 /\ ret = fresh.ret
          /\ out.eof = fresh.pdu
      BY <2>2, <2>3 DEF Decode, Clear, Kinds
    <3>2. fresh.pdu.condition_code # CFDP_COND_NO_ERROR <=> fresh.pdu.fault_location_len > 0
      BY <2>3, <3>1 DEF FaultLocationAgrees
    <3> HIDE DEF spare
    <3>3. WrittenAgain(EofSerialize(fresh.pdu, big, fresh.ret), field, fresh.ret, 1, spare)
      BY <3>1, <3>2, EofWritten DEF spare
    <3> HIDE DEF fresh
    <3> QED BY <2>1, <3>1, <3>3 DEF WrittenAgain, spare
  <2>4. ASSUME Accepted("ack")
        PROVE  AckSerialize(out.ack, ret) = Consumed(2, {2, 3})
    <3> DEFINE fresh == AckDeserialize(field, ClearAck)
    <3>1. field \in Seq(Octet) /\ fresh.ret > 0 /\ ret = fresh.ret /\ out.ack = fresh.pdu
      BY <2>2, <2>4 DEF Decode, Clear, Kinds
    <3>2. WrittenAgain(AckSerialize(fresh.pdu, fresh.ret), field, fresh.ret, 2, {2, 3})
      BY <3>1, AckWritten
    <3> HIDE DEF fresh
    <3> QED BY <2>1, <3>1, <3>2 DEF WrittenAgain
  <2>5. ASSUME Accepted("metadata")
        PROVE  MetadataSerialize(out.metadata, big, ret) = Consumed(1, {4, 5, 7})
    <3> DEFINE fresh == MetadataDeserialize(field, big, ClearMetadata)
    <3>1. /\ field \in Seq(Octet) /\ Len(field) <= SpanModulus /\ big \in {0, 1}
          /\ fresh.ret > 0 /\ ret = fresh.ret /\ out.metadata = fresh.pdu
      BY <2>2, <2>5 DEF Decode, Clear, Kinds
    <3>2. WrittenAgain(MetadataSerialize(fresh.pdu, big, fresh.ret), field, fresh.ret, 1, {4, 5, 7})
      BY <3>1, MetadataWritten
    <3> HIDE DEF fresh
    <3> QED BY <2>1, <3>1, <3>2 DEF WrittenAgain
  <2>6. ASSUME Accepted("prompt")
        PROVE  PromptSerialize(out.prompt, ret) = Consumed(1, 0 .. 6)
    <3> DEFINE fresh == PromptDeserialize(field, 0)
               spare == 0 .. 6
    <3>1. field \in Seq(Octet) /\ fresh.ret > 0 /\ ret = fresh.ret /\ out.prompt = fresh.pdu
      BY <2>2, <2>6 DEF Decode, Clear, Kinds
    <3> HIDE DEF spare
    <3>2. WrittenAgain(PromptSerialize(fresh.pdu, fresh.ret), field, fresh.ret, 1, spare)
      BY <3>1, PromptWritten DEF spare
    <3> HIDE DEF fresh
    <3> QED BY <2>1, <3>1, <3>2 DEF WrittenAgain, spare
  <2>7. ASSUME Accepted("keep_alive")
        PROVE  KeepAliveSerialize(out.keep_alive, big, ret) = Consumed(0, {})
    <3> DEFINE fresh == KeepAliveDeserialize(field, big, Zeros(8))
    <3>1. /\ field \in Seq(Octet) /\ big \in {0, 1} /\ fresh.ret > 0 /\ ret = fresh.ret
          /\ out.keep_alive = fresh.pdu
      BY <2>2, <2>7 DEF Decode, Clear, Kinds
    <3>2. WrittenAgain(KeepAliveSerialize(fresh.pdu, big, fresh.ret), field, fresh.ret, 0, {})
      BY <3>1, KeepAliveWritten
    <3> HIDE DEF fresh
    <3> QED BY <2>1, <3>1, <3>2 DEF WrittenAgain
  <2>8. ASSUME Accepted("header")
        PROVE  HeaderSerialize(out.header, ret) = Consumed(3, SpareBits(out.header))
    <3> DEFINE fresh == HeaderDeserialize(field, LocalHeader)
    <3>1. field \in Seq(Octet) /\ fresh.ret > 0 /\ ret = fresh.ret /\ out.header = fresh.pdu
      BY <2>2, <2>8 DEF Decode, Clear, Kinds
    <3>2. WrittenAgain(HeaderSerialize(fresh.pdu, fresh.ret), field, fresh.ret, 3,
                       SpareBits(fresh.pdu))
      BY <3>1, HeaderWritten
    <3> HIDE DEF fresh
    <3> QED BY <2>1, <3>1, <3>2 DEF WrittenAgain
  <2>9. ASSUME Accepted("file_data")
        PROVE  FileDataSerialize(out.file_data, big, flag, ret) = Consumed(0, {})
    <3> DEFINE fresh == FileDataDeserialize(field, big, flag, NoFileData)
    <3>1. /\ field \in Seq(Octet) /\ big \in {0, 1} /\ flag \in {ABSENT, PRESENT}
          /\ fresh.ret > 0 /\ ret = fresh.ret /\ out.file_data = fresh.pdu
      BY <2>2, <2>9 DEF Decode, Clear, Kinds
    <3>2. WrittenAgain(FileDataSerialize(fresh.pdu, big, flag, fresh.ret), field, fresh.ret, 0, {})
      BY <3>1, FileDataWritten
    <3> HIDE DEF fresh
    <3> QED BY <2>1, <3>1, <3>2 DEF WrittenAgain
  <2> QED BY <2>3, <2>4, <2>5, <2>6, <2>7, <2>8, <2>9 DEF Reencodes, SpareBits
<1> QED BY <1>1, Invariance, GivenHolds, PTL
=============================================================================
