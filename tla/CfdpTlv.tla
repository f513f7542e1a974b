------------------------------- MODULE CfdpTlv -------------------------------
(***************************************************************************)
(* The LV and TLV parameters of src/cfdp_tlv.c that the directives are     *)
(* built from.  Conventions as in CfdpPdu: an encoder returns the octets   *)
(* of the parameter, or none when the C function returns 0; a decoder      *)
(* returns the octets consumed and what it stored.                         *)
(***************************************************************************)
EXTENDS CfdpCommon

CFDP_LV_HEADER_LEN == 1
CFDP_TLV_HEADER_LEN == 2
CFDP_TLV_FILESTORE_RESPONSE == 1
CFDP_TLV_ENTITY_ID == 6

(* cfdp_lv_serialize                                                       *)
LvSerialize(value, len, bufLen) ==
  IF (value = Null /\ len > 0) \/ bufLen < len + CFDP_LV_HEADER_LEN
  THEN << >>
  ELSE <<len>> \o Copied(value, len)

(* cfdp_lv_deserialize; nothing is stored unless ret is positive.          *)
LvDeserialize(buf) ==
  LET end == At(buf, 0) + CFDP_LV_HEADER_LEN
  IN IF Len(buf) < CFDP_LV_HEADER_LEN \/ Len(buf) < end
     THEN [ret |-> 0, value |-> Null, len |-> 0]
     ELSE [ret |-> end,
           value |-> IF At(buf, 0) > 0
                     THEN PointerTo(Slice(buf, CFDP_LV_HEADER_LEN, end)) ELSE Null,
           len |-> At(buf, 0)]

(* cfdp_tlv_deserialize, what it returns: the octets of the parameter at   *)
(* the start of buf, 0 if they are not all there.                          *)
TlvSize(buf) ==
  IF Len(buf) < CFDP_TLV_HEADER_LEN \/ Len(buf) < At(buf, 1) + CFDP_TLV_HEADER_LEN
  THEN 0
  ELSE At(buf, 1) + CFDP_TLV_HEADER_LEN

(* cfdp_entity_id_tlv_serialize                                            *)
EntityIdTlvSerialize(entity_id, id_len, bufLen) ==
  IF id_len \notin IdLengths \/ bufLen < id_len + CFDP_TLV_HEADER_LEN
  THEN << >>
  ELSE <<CFDP_TLV_ENTITY_ID, id_len>> \o WriteUint(entity_id, id_len)

(* cfdp_entity_id_tlv_deserialize: nothing is stored unless it succeeds.   *)
EntityIdTlvSize(buf) ==
  IF \/ TlvSize(buf) = 0
     \/ At(buf, 0) # CFDP_TLV_ENTITY_ID
     \/ At(buf, 1) \notin IdLengths
  THEN 0
  ELSE TlvSize(buf)

EntityIdOf(buf) == ReadUint(Slice(buf, CFDP_TLV_HEADER_LEN, EntityIdTlvSize(buf)))
=============================================================================
