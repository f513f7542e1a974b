---------------------------- MODULE CfdpFilestore ----------------------------
(***************************************************************************)
(* The TLV parameters of src/cfdp_tlv.c that the directives carry as       *)
(* octets: Filestore Requests and Responses, Fault Handler Overrides, and  *)
(* the TLVs whose value is opaque.  Conventions as in CfdpTlv and CfdpPdu: *)
(* an encoder returns the octets or none, a decoder what the C function    *)
(* returns and the structure as it leaves it.                              *)
(*                                                                         *)
(* A file name or a message, a pointer and a length in C, is an LV here.   *)
(***************************************************************************)
EXTENDS CfdpTlv

CFDP_TLV_FILESTORE_REQUEST == 0
CFDP_TLV_MESSAGE_TO_USER == 2
CFDP_TLV_FAULT_HANDLER_OVERRIDE == 4
CFDP_FS_ACTION_DENY_DIRECTORY == 8

\* the most octets the length field of a TLV can count
UINT8_MAX == 255

Lv == [value : Pointer, len : Octet]
NoLv == [value |-> Null, len |-> 0]

(* cfdp_tlv_t, cfdp_filestore_request_t, cfdp_filestore_response_t, and    *)
(* the two outputs of cfdp_fault_handler_tlv_deserialize.                  *)
Tlv == [type : Octet, length : Octet, value : Pointer]
Request ==
  [action_code : 0 .. CFDP_FS_ACTION_DENY_DIRECTORY,
   first_filename : Lv, second_filename : Lv]
Response ==
  [action_code : 0 .. CFDP_FS_ACTION_DENY_DIRECTORY, status_code : 0 .. 15,
   first_filename : Lv, second_filename : Lv, message : Lv]
Override == [condition_code : 0 .. 11, handler_code : 0 .. 4]

\* what memset leaves
ClearRequest ==
  [action_code |-> 0, first_filename |-> NoLv, second_filename |-> NoLv]
ClearResponse ==
  [action_code |-> 0, status_code |-> 0, first_filename |-> NoLv,
   second_filename |-> NoLv, message |-> NoLv]
ClearOverride == [condition_code |-> 0, handler_code |-> 0]
ClearTlv == [type |-> 0, length |-> 0, value |-> Null]

(* cfdp_filestore_action_has_second_filename: Rename, Append, Replace.     *)
HasSecondFilename(action_code) == action_code \in {2, 3, 4}

(* cfdp_filestore_action_valid                                             *)
ActionValid(action_code) == action_code <= CFDP_FS_ACTION_DENY_DIRECTORY

LvOctets(lv, bufLen) == LvSerialize(lv.value, lv.len, bufLen)
LvAt(buf, pos) == LvDeserialize(Slice(buf, pos, Len(buf)))
LvOf(read) == [value |-> read.value, len |-> read.len]

-----------------------------------------------------------------------------
(* Any TLV                                                                 *)

(* cfdp_tlv_serialize                                                      *)
TlvSerialize(tlv, bufLen) ==
  IF \/ tlv.value = Null /\ tlv.length > 0
     \/ bufLen < tlv.length + CFDP_TLV_HEADER_LEN
  THEN << >>
  ELSE <<tlv.type, tlv.length>> \o Copied(tlv.value, tlv.length)

(* cfdp_tlv_deserialize, what it stores.                                   *)
TlvDeserialize(buf, tlv) ==
  IF TlvSize(buf) = 0
  THEN [ret |-> 0, tlv |-> tlv]
  ELSE [ret |-> TlvSize(buf),
        tlv |-> [type |-> At(buf, 0), length |-> At(buf, 1),
                 value |-> IF At(buf, 1) > 0
                           THEN PointerTo(Slice(buf, CFDP_TLV_HEADER_LEN, TlvSize(buf)))
                           ELSE Null]]

-----------------------------------------------------------------------------
(* Fault Handler Override                                                  *)

(* cfdp_fault_condition_valid and cfdp_fault_handler_valid                 *)
OverrideValid(condition_code, handler_code) ==
  /\ condition_code \in CFDP_COND_POSITIVE_ACK_LIMIT_REACHED
                          .. CFDP_COND_UNSUPPORTED_CHECKSUM_TYPE
  /\ handler_code \in 1 .. 4

(* cfdp_fault_handler_tlv_serialize                                        *)
OverrideSerialize(o, bufLen) ==
  IF bufLen < CFDP_TLV_HEADER_LEN + 1 \/ ~ OverrideValid(o.condition_code, o.handler_code)
  THEN << >>
  ELSE <<CFDP_TLV_FAULT_HANDLER_OVERRIDE, 1, 16 * o.condition_code + o.handler_code>>

(* cfdp_fault_handler_tlv_deserialize: nothing is stored unless both codes *)
(* are valid.                                                              *)
OverrideDeserialize(buf, o) ==
  IF \/ TlvSize(buf) = 0
     \/ At(buf, 0) # CFDP_TLV_FAULT_HANDLER_OVERRIDE
     \/ At(buf, 1) # 1
     \/ ~ OverrideValid(At(buf, 2) \div 16, At(buf, 2) % 16)
  THEN [ret |-> 0, tlv |-> o]
  ELSE [ret |-> TlvSize(buf),
        tlv |-> [condition_code |-> At(buf, 2) \div 16, handler_code |-> At(buf, 2) % 16]]

-----------------------------------------------------------------------------
(* Filestore Requests and Responses                                        *)

\* Deviation: the second name is given the room of both.
NamesSerializeRoomTwice(r, bufLen) ==
  LET first == LvOctets(r.first_filename, bufLen)
      second == LvOctets(r.second_filename, bufLen)
  IN IF first = << >> \/ ~ HasSecondFilename(r.action_code) THEN first
     ELSE IF second = << >> THEN << >>
     ELSE first \o second

(* cfdp_filestore_names_serialize                                          *)
NamesSerialize(r, bufLen) ==
  LET first == LvOctets(r.first_filename, bufLen)
      second == LvOctets(r.second_filename, bufLen - Len(first))
  IN IF first = << >> \/ ~ HasSecondFilename(r.action_code) THEN first
     ELSE IF second = << >> THEN << >>
     ELSE first \o second

\* Deviation: the length of the value is cast without a check.
FilestoreTlvFinishUnchecked(type, value) == <<type, Len(value) % 256>> \o value

(* cfdp_filestore_tlv_finish: the names fit their own length octets, and   *)
(* may still be too much for the TLV's.                                    *)
FilestoreTlvFinish(type, value) ==
  IF Len(value) > UINT8_MAX THEN << >> ELSE <<type, Len(value)>> \o value

(* cfdp_filestore_request_tlv_serialize                                    *)
RequestSerialize(req, bufLen) ==
  LET names == NamesSerialize(req, bufLen - CFDP_TLV_HEADER_LEN - 1)
  IN IF \/ bufLen < CFDP_TLV_HEADER_LEN + 1
        \/ ~ ActionValid(req.action_code)
        \/ names = << >>
     THEN << >>
     ELSE FilestoreTlvFinish(CFDP_TLV_FILESTORE_REQUEST,
                             <<16 * req.action_code>> \o names)

(* cfdp_filestore_response_tlv_serialize                                   *)
ResponseSerialize(resp, bufLen) ==
  LET room == bufLen - CFDP_TLV_HEADER_LEN - 1
      names == NamesSerialize(resp, room)
      message == LvOctets(resp.message, room - Len(names))
  IN IF \/ bufLen < CFDP_TLV_HEADER_LEN + 1
        \/ ~ ActionValid(resp.action_code)
        \/ names = << >>
        \/ message = << >>
     THEN << >>
     ELSE FilestoreTlvFinish(CFDP_TLV_FILESTORE_RESPONSE,
            <<16 * resp.action_code + resp.status_code>> \o names \o message)

(* cfdp_filestore_names_deserialize of buf into the names of r: the first  *)
(* is stored before the second is looked for.                              *)
NamesDeserialize(buf, r) ==
  LET first == LvAt(buf, 0)
      second == LvAt(buf, first.ret)
      named == [r EXCEPT !.first_filename = LvOf(first)]
  IN IF first.ret = 0 THEN [ret |-> 0, tlv |-> r]
     ELSE IF ~ HasSecondFilename(r.action_code) THEN [ret |-> first.ret, tlv |-> named]
     ELSE IF second.ret = 0 THEN [ret |-> 0, tlv |-> named]
     ELSE [ret |-> first.ret + second.ret,
           tlv |-> [named EXCEPT !.second_filename = LvOf(second)]]

(* A TLV of the type whose value begins with a defined action.             *)
IsFilestoreTlv(buf, type) ==
  /\ TlvSize(buf) > 0
  /\ At(buf, 0) = type
  /\ At(buf, 1) >= 1
  /\ ActionValid(At(buf, 2) \div 16)

NamesOf(buf) == Slice(buf, CFDP_TLV_HEADER_LEN + 1, TlvSize(buf))

-----------------------------------------------------------------------------
(* Deviations, used only to show that the properties can fail.             *)

\* the names may leave octets of the value unread
RequestDeserializeTrailing(buf, req) ==
  LET names == NamesDeserialize(NamesOf(buf),
                 [ClearRequest EXCEPT !.action_code = At(buf, 2) \div 16])
  IN IF ~ IsFilestoreTlv(buf, CFDP_TLV_FILESTORE_REQUEST)
     THEN [ret |-> 0, tlv |-> req]
     ELSE [ret |-> IF names.ret = 0 THEN 0 ELSE TlvSize(buf), tlv |-> names.tlv]

\* the structure is not cleared
ResponseDeserializeNoReset(buf, resp) ==
  LET value == NamesOf(buf)
      names == NamesDeserialize(value,
                 [resp EXCEPT !.action_code = At(buf, 2) \div 16,
                              !.status_code = At(buf, 2) % 16])
      message == LvAt(value, names.ret)
  IN IF ~ IsFilestoreTlv(buf, CFDP_TLV_FILESTORE_RESPONSE)
     THEN [ret |-> 0, tlv |-> resp]
     ELSE IF names.ret = 0 \/ message.ret = 0
     THEN [ret |-> 0, tlv |-> names.tlv]
     ELSE [ret |-> IF names.ret + message.ret + 1 = At(buf, 1) THEN TlvSize(buf) ELSE 0,
           tlv |-> [names.tlv EXCEPT !.message = LvOf(message)]]
-----------------------------------------------------------------------------

(* cfdp_filestore_request_tlv_deserialize: cleared before the names are    *)
(* read, which must account for the whole value.                           *)
RequestDeserialize(buf, req) ==
  LET names == NamesDeserialize(NamesOf(buf),
                 [ClearRequest EXCEPT !.action_code = At(buf, 2) \div 16])
  IN IF ~ IsFilestoreTlv(buf, CFDP_TLV_FILESTORE_REQUEST)
     THEN [ret |-> 0, tlv |-> req]
     ELSE [ret |-> IF names.ret # 0 /\ names.ret + 1 = At(buf, 1) THEN TlvSize(buf) ELSE 0,
           tlv |-> names.tlv]

(* cfdp_filestore_response_tlv_deserialize                                 *)
ResponseDeserialize(buf, resp) ==
  LET value == NamesOf(buf)
      names == NamesDeserialize(value,
                 [ClearResponse EXCEPT !.action_code = At(buf, 2) \div 16,
                                       !.status_code = At(buf, 2) % 16])
      message == LvAt(value, names.ret)
  IN IF ~ IsFilestoreTlv(buf, CFDP_TLV_FILESTORE_RESPONSE)
     THEN [ret |-> 0, tlv |-> resp]
     ELSE IF names.ret = 0 \/ message.ret = 0
     THEN [ret |-> 0, tlv |-> names.tlv]
     ELSE [ret |-> IF names.ret + message.ret + 1 = At(buf, 1) THEN TlvSize(buf) ELSE 0,
           tlv |-> [names.tlv EXCEPT !.message = LvOf(message)]]
=============================================================================
