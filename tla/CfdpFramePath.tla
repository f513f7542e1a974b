---------------------------- MODULE CfdpFramePath ----------------------------
(***************************************************************************)
(* A PDU on its way from one CFDP entity to another.                       *)
(*                                                                         *)
(* The sending entity encodes a payload and runs emit_pdu of               *)
(* examples/example.c: header, payload, CRC, in an output buffer that is   *)
(* used again for every PDU.  The link may lose, repeat, reorder, pad, cut *)
(* and damage frames.  The receiving entity takes each frame in a buffer   *)
(* that still holds the tail of earlier ones and runs the steps of the     *)
(* README's "Parse a received PDU".                                        *)
(***************************************************************************)
EXTENDS CfdpPdu, FiniteSetsExt, SequencesExt

CONSTANTS
  Requests,       \* PDUs the sending entity may be asked to send
  Counted,        \* CRC octets the caller may count in data_field_length: 2, or
                  \* 0 when it forgets
  LengthModulus,  \* 65536: data_field_length is a uint16_t
  Capacity,       \* octets of the output and of the receive buffer
  PayloadCap,     \* octets of the array the payload is encoded in
  Noise,          \* values a damaged or a padding octet may take
  Strays,         \* values an octet may take that changes unseen by the CRC, if any
  MaxEmits,       \* bound: calls of emit_pdu
  MaxFrames,      \* bound: frames on the link at a time
  MaxFaults,      \* bound: frames the link damages, pads or cuts
  MaxArrivals     \* bound: frames the receiver takes

ASSUME FramePathAssumption ==
  /\ Counted \subseteq {0, CFDP_PDU_CRC_LEN}
  /\ LengthModulus \in Nat \ {0} /\ LengthModulus <= UINT16_MAX + 1
  /\ Capacity \in Nat /\ PayloadCap \in Nat
  /\ Noise \subseteq Octet /\ Strays \subseteq Octet
  /\ MaxEmits \in Nat /\ MaxFrames \in Nat
  /\ MaxFaults \in Nat /\ MaxArrivals \in Nat

(* Callers fill their structures within the C types of the fields, and     *)
(* give pointers to as many octets as they say.  A buffer that cannot hold *)
(* the header has no place behind it to encode a payload in.               *)
ASSUME RequestsAssumption ==
  \A req \in Requests :
    /\ req.hdr \in Header /\ req.fd \in FileData /\ req.directive \in Seq(Octet)
    /\ PointsTo(req.fd.segment_metadata, req.fd.segment_metadata_len)
    /\ PointsTo(req.fd.file_data, req.fd.file_data_len)
    /\ HeaderSize(req.hdr) <= Capacity

VARIABLES
  txBuf,      \* the sender's output buffer
  txTotal,    \* what the last emit_pdu returned: octets to transmit, or 0
  emits,      \* calls of emit_pdu so far
  wire,       \* frames on the link: [octets, fault]
  faults,     \* faults of the link so far
  rxBuf,      \* the receiver's buffer
  rxLen,      \* octets of it given to the codec; 0 when there is no new frame
  arrivals,   \* frames taken so far
  outcome,    \* what came of the last frame: [window, got]
  emitted,    \* frames completed so far, with what they carry (history)
  delivered   \* PDUs delivered so far (history)

txVars == <<txBuf, txTotal, emits, emitted>>
rxVars == <<rxBuf, rxLen, arrivals, outcome, delivered>>
linkVars == <<wire, faults>>
vars == <<txVars, linkVars, rxVars>>

\* octets a burst may damage for the CRC to find it: as many as it has itself
BurstOctets == CFDP_PDU_CRC_LEN

NoOutcome == [window |-> << >>, got |-> << >>]

-----------------------------------------------------------------------------
(* The sending entity                                                      *)

(* The data field of a request, encoded in room octets; empty when it is   *)
(* not encoded.  A directive's is opaque here.                             *)
PayloadOf(req, room) ==
  IF req.hdr.pdu_type = FILE_DATA
  THEN FileDataSerialize(req.fd, req.hdr.large_file_flag,
                         req.hdr.segment_metadata_flag, room)
  ELSE IF Len(req.directive) <= room THEN req.directive ELSE << >>

\* the array of build_file_data, and the output buffer behind the header
Rooms(req) == {PayloadCap, Capacity - HeaderSize(req.hdr)}

(* data_field_length, for a payload and the CRC octets that are counted.   *)
Sized(hdr, payload, counted) ==
  [hdr EXCEPT !.data_field_length = (Len(payload) + counted) % LengthModulus]

-----------------------------------------------------------------------------
(* Deviations, used only to show that the properties can fail.             *)

\* the room for the payload is not looked at again after the header
EmitPduNoRoomCheck(hdr, payload, buf, counted) ==
  LET head == HeaderSerialize(Sized(hdr, payload, counted), Len(buf))
      start == HeaderSize(hdr)
      filled == Overlay(Overlay(buf, 0, head), start, payload)
      appended == CrcAppend(filled, start + Len(payload))
  IN IF head = << >>
     THEN [ret |-> 0, buf |-> buf]
     ELSE appended
-----------------------------------------------------------------------------

(* emit_pdu.  When it fails it leaves the header over the octets of an     *)
(* earlier PDU, or the header and the payload with no CRC behind them.     *)
EmitPdu(hdr, payload, buf, counted) ==
  LET head == HeaderSerialize(Sized(hdr, payload, counted), Len(buf))
      start == HeaderSize(hdr)
      filled == Overlay(Overlay(buf, 0, head), start, payload)
      appended == CrcAppend(filled, start + Len(payload))
  IN IF head = << >>
     THEN [ret |-> 0, buf |-> buf]
     ELSE IF Len(buf) < start + Len(payload)
     THEN [ret |-> 0, buf |-> Overlay(buf, 0, head)]
     ELSE appended

(* The README's steps without a CRC: the payload is encoded in the place   *)
(* behind the header, the header before it, and what either returned is    *)
(* not looked at.                                                          *)
EmitPlainPdu(hdr, payload, buf) ==
  LET head == HeaderSerialize(Sized(hdr, payload, 0), Len(buf))
      start == HeaderSize(hdr)
  IN [ret |-> start + Len(payload),
      buf |-> Overlay(Overlay(buf, 0, head), start, payload)]

(* What the receiver of a request should be told.                          *)
Carried(req, payload, counted) ==
  LET hdr == Sized(req.hdr, payload, counted)
  IN [hdr |-> HeaderOnWire(hdr),
      fd |-> IF hdr.pdu_type = FILE_DATA
             THEN FileDataOnWire(req.fd, hdr.large_file_flag, hdr.segment_metadata_flag)
             ELSE NoFileData,
      directive |-> IF hdr.pdu_type = FILE_DATA THEN << >> ELSE req.directive]

(* The sending entity asks for a PDU with a CRC.  It may forget to count   *)
(* the CRC in the header.  That the payload was encoded is not checked.    *)
Emit(req, counted) ==
  LET payload == PayloadOf(req, PayloadCap)
      result == EmitPdu(req.hdr, payload, txBuf, counted)
  IN /\ emits < MaxEmits
     /\ emits' = emits + 1
     /\ txBuf' = result.buf
     /\ txTotal' = result.ret
     /\ emitted' = IF result.ret = 0 THEN emitted
                   ELSE emitted \cup
                     {[octets |-> Slice(result.buf, 0, result.ret),
                       encoded |-> payload # << >>,
                       req |-> req,
                       pdu |-> Carried(req, payload, counted)]}
     /\ UNCHANGED <<linkVars, rxVars>>

(* It asks for one without.  No check stands between a payload longer than *)
(* the length field can tell and the link: it must not ask for that.       *)
EmitPlain(req) ==
  LET payload == PayloadOf(req, Capacity - HeaderSize(req.hdr))
      result == EmitPlainPdu(req.hdr, payload, txBuf)
  IN /\ emits < MaxEmits
     /\ req.hdr.crc_flag = ABSENT
     /\ Len(payload) < LengthModulus
     /\ emits' = emits + 1
     /\ txBuf' = result.buf
     /\ txTotal' = result.ret
     /\ emitted' = IF HeaderSerialize(Sized(req.hdr, payload, 0), Capacity) = << >>
                   THEN emitted
                   ELSE emitted \cup
                     {[octets |-> Slice(result.buf, 0, result.ret),
                       encoded |-> payload # << >>,
                       req |-> req,
                       pdu |-> Carried(req, payload, 0)]}
     /\ UNCHANGED <<linkVars, rxVars>>

(* The octets that were counted are handed to the link.                    *)
Transmit ==
  /\ txTotal > 0
  /\ Cardinality(wire) < MaxFrames
  /\ arrivals < MaxArrivals
  /\ wire' = wire \cup {[octets |-> Slice(txBuf, 0, txTotal), fault |-> "none"]}
  /\ UNCHANGED <<txVars, faults, rxVars>>

(* The whole buffer is handed over whatever emit_pdu returned, as main     *)
(* does with file_data_pdu: the octets behind a PDU with it, and what an   *)
(* emit_pdu that failed left.                                              *)
TransmitWholeBuffer ==
  /\ Cardinality(wire) < MaxFrames
  /\ arrivals < MaxArrivals
  /\ wire' = wire \cup {[octets |-> txBuf, fault |-> "none"]}
  /\ UNCHANGED <<txVars, faults, rxVars>>

-----------------------------------------------------------------------------
(* The link                                                                *)

Lose(frame) ==
  /\ wire' = wire \ {frame}
  /\ UNCHANGED <<txVars, faults, rxVars>>

(* How far verification reads and whether it looks at the CRC at all: what *)
(* a frame must not lose for its CRC to mean anything.  A frame that no    *)
(* longer has a header is discarded anyway.                                *)
KeepsExtent(before, after) ==
  LET was == HeaderDeserialize(before, LocalHeader)
      is == HeaderDeserialize(after, LocalHeader)
  IN is.ret # 0 =>
       /\ is.pdu.crc_flag = PRESENT
       /\ is.ret + is.pdu.data_field_length = was.ret + was.pdu.data_field_length

HasCrc(octets) ==
  LET head == HeaderDeserialize(octets, LocalHeader)
  IN head.ret # 0 /\ head.pdu.crc_flag = PRESENT

(* At most one fault befalls a frame.                                      *)
Faultable(frame) == frame.fault = "none" /\ faults < MaxFaults

(* BurstOctets consecutive octets of a frame with a CRC change.            *)
Damage(frame, from, noise) ==
  LET octets == Overlay(frame.octets, from, noise)
  IN /\ Faultable(frame)
     /\ HasCrc(frame.octets)
     /\ octets # frame.octets
     /\ KeepsExtent(frame.octets, octets)
     /\ wire' = (wire \ {frame}) \cup {[octets |-> octets, fault |-> "damaged"]}
     /\ faults' = faults + 1
     /\ UNCHANGED <<txVars, rxVars>>

(* One octet changes, of any frame: of one without a CRC, or a length, or  *)
(* the flag that says that there is a CRC.                                 *)
Stray(frame, at, octet) ==
  /\ Faultable(frame)
  /\ wire' = (wire \ {frame}) \cup
       {[octets |-> Overlay(frame.octets, at, <<octet>>), fault |-> "stray"]}
  /\ faults' = faults + 1
  /\ UNCHANGED <<txVars, rxVars>>

(* A fixed-length link frame carries the PDU and filler.                   *)
Pad(frame, filler) ==
  /\ Faultable(frame)
  /\ wire' = (wire \ {frame})
               \cup {[octets |-> frame.octets \o <<filler>>, fault |-> "padded"]}
  /\ faults' = faults + 1
  /\ UNCHANGED <<txVars, rxVars>>

(* The last count octets do not arrive: more than a burst of a frame with  *)
(* a CRC, or fewer.                                                        *)
Cut(frame, count) ==
  /\ Faultable(frame)
  /\ wire' = (wire \ {frame}) \cup
       {[octets |-> Slice(frame.octets, 0, Len(frame.octets) - count),
         fault |-> IF count > BurstOctets /\ HasCrc(frame.octets)
                   THEN "cut short" ELSE "cut"]}
  /\ faults' = faults + 1
  /\ UNCHANGED <<txVars, rxVars>>

-----------------------------------------------------------------------------
(* The receiving entity                                                    *)

(* A frame is written over the last one; the codec is told its length, or  *)
(* that of the whole buffer.  In the latter case what the link cut off is  *)
(* made up by the octets that were there, which the CRC detects as long as *)
(* a burst covers them.  A frame may come again.                           *)
Arrive(frame, whole, again) ==
  /\ rxLen = 0
  /\ arrivals < MaxArrivals
  /\ whole => frame.fault # "cut short"
  /\ arrivals' = arrivals + 1
  /\ LET taken == Min({Len(frame.octets), Capacity})
     IN /\ rxBuf' = Overlay(rxBuf, 0, Slice(frame.octets, 0, taken))
        /\ rxLen' = IF whole THEN Capacity ELSE taken
  /\ wire' = IF again THEN wire ELSE wire \ {frame}
  /\ outcome' = NoOutcome
  /\ UNCHANGED <<txVars, faults, delivered>>

(* The README's steps, up to the decoded PDU: got is a sequence of one PDU *)
(* or of none.                                                             *)
Parse(buf) ==
  LET head == HeaderDeserialize(buf, LocalHeader)
      payload == Slice(buf, head.ret, head.ret + PayloadSize(head.pdu))
      file == FileDataDeserialize(payload, head.pdu.large_file_flag,
                                  head.pdu.segment_metadata_flag, NoFileData)
  IN IF ~ CrcVerify(buf)
     THEN << >>
     ELSE IF head.pdu.pdu_type = FILE_DATA
     THEN IF file.ret = 0 THEN << >>
          ELSE <<[hdr |-> head.pdu, fd |-> file.pdu, directive |-> << >>]>>
     ELSE IF HasDirectiveCode(payload)
     THEN <<[hdr |-> head.pdu, fd |-> NoFileData, directive |-> payload]>>
     ELSE << >>

Receive ==
  /\ rxLen > 0
  /\ LET window == Slice(rxBuf, 0, rxLen)
         got == Parse(window)
     IN /\ outcome' = [window |-> window, got |-> got]
        /\ delivered' = delivered \o got
  /\ rxLen' = 0
  /\ UNCHANGED <<txVars, linkVars, rxBuf, arrivals>>

-----------------------------------------------------------------------------
Init ==
  /\ txBuf = Zeros(Capacity)
  /\ txTotal = 0
  /\ emits = 0
  /\ emitted = {}
  /\ wire = {}
  /\ faults = 0
  /\ rxBuf = Zeros(Capacity)
  /\ rxLen = 0
  /\ arrivals = 0
  /\ outcome = NoOutcome
  /\ delivered = << >>

Next ==
  \/ \E req \in Requests, counted \in Counted : Emit(req, counted)
  \/ \E req \in Requests : EmitPlain(req)
  \/ Transmit
  \/ TransmitWholeBuffer
  \/ \E frame \in wire :
       \/ Lose(frame)
       \/ \E from \in 0 .. Len(frame.octets) - BurstOctets :
            \E noise \in [1 .. BurstOctets -> Noise] : Damage(frame, from, noise)
       \/ \E at \in 0 .. Len(frame.octets) - 1, octet \in Strays : Stray(frame, at, octet)
       \/ \E filler \in Noise : Pad(frame, filler)
       \/ \E count \in 1 .. Len(frame.octets) - 1 : Cut(frame, count)
       \/ \E whole, again \in BOOLEAN : Arrive(frame, whole, again)
  \/ Receive

Spec == Init /\ [][Next]_vars

-----------------------------------------------------------------------------
(* Properties                                                              *)

TypeOK ==
  /\ txBuf \in Seq(Octet) /\ Len(txBuf) = Capacity
  /\ txTotal \in 0 .. Capacity
  /\ emits \in 0 .. MaxEmits
  /\ \A frame \in wire : frame.octets \in Seq(Octet)
  /\ rxBuf \in Seq(Octet) /\ Len(rxBuf) = Capacity
  /\ faults \in 0 .. MaxFaults
  /\ rxLen \in 0 .. Capacity
  /\ arrivals \in 0 .. MaxArrivals

(* What a frame is made of: the header, as sized, the payload and, behind  *)
(* them, their CRC if the header says that there is one.  The header       *)
(* counts what stands behind it.                                           *)
FrameOf(req, payload, counted, octets) ==
  LET hdr == Sized(req.hdr, payload, counted)
      head == HeaderSerialize(hdr, Capacity)
      crc == IF hdr.crc_flag = PRESENT THEN PairWith(CrcOf(head \o payload)) ELSE << >>
  IN /\ head # << >>
     /\ hdr.data_field_length = Len(payload) + Len(crc)
     /\ octets = head \o payload \o crc

Completed(frame) ==
  /\ frame.req \in Requests
  /\ \E room \in Rooms(frame.req), counted \in Counted \cup {0} :
       LET payload == PayloadOf(frame.req, room)
       IN /\ frame.encoded = (payload # << >>)
          /\ FrameOf(frame.req, payload, counted, frame.octets)
          /\ frame.pdu = Carried(frame.req, payload, counted)

(* The strengthening with which the safety properties are proved.          *)
IInv ==
  /\ TypeOK
  /\ \A frame \in emitted : Completed(frame)
  /\ outcome.window \in Seq(Octet)
  /\ outcome.got = Parse(outcome.window)

(* The header of a completed frame describes exactly that frame, whatever  *)
(* was forgotten and however the 16-bit length wrapped: a receiver that    *)
(* trusts it neither loses the last octets nor reads the next frame's.     *)
SelfDescribing ==
  \A frame \in emitted :
    LET head == HeaderDeserialize(frame.octets, LocalHeader)
    IN head.ret # 0 /\ head.ret + head.pdu.data_field_length = Len(frame.octets)

(* What a window must have that the payload codecs may be handed octets    *)
(* of: a header, behind it as many octets as cfdp_pdu_payload_size says,   *)
(* and the CRC behind those if there is one.                               *)
HoldsPayload(window) ==
  LET head == HeaderDeserialize(window, LocalHeader)
      crc == IF head.pdu.crc_flag = PRESENT THEN CFDP_PDU_CRC_LEN ELSE 0
  IN head.ret > 0 /\ head.ret + PayloadSize(head.pdu) + crc <= Len(window)

(* Verification is all that stands between a frame and the pointer         *)
(* arithmetic of the README's steps.  Whatever octet of it changed, and    *)
(* though a length or the CRC flag did, a frame that passes has the        *)
(* payload that the codecs will read, and none of the CRC in it.           *)
VerifiedFits ==
  rxLen > 0 /\ CrcVerify(Slice(rxBuf, 0, rxLen)) => HoldsPayload(Slice(rxBuf, 0, rxLen))

\* the header says that there is a CRC
Protected(pdu) == pdu.hdr.crc_flag = PRESENT

(* What is delivered under a CRC is a frame that was completed, whole and  *)
(* unaltered: not a damaged one, not a cut one made up by the octets of    *)
(* another, not what an emit_pdu that failed left in the buffer.  It is    *)
(* decoded as what was sent, with neither the CRC nor filler counted as    *)
(* file data.  Of a PDU without a CRC there is no such promise: it is      *)
(* delivered as it lies, though the buffer was left by a cfdp_pdu_crc_     *)
(* append that failed and the last two octets are an earlier PDU's.        *)
DeliveredAsSent ==
  \A i \in DOMAIN outcome.got :
    Protected(outcome.got[i]) =>
      \E frame \in emitted :
        /\ frame.encoded
        /\ IsPrefix(frame.octets, outcome.window)
        /\ outcome.got[i] = frame.pdu

(* A frame that arrives as it was completed is delivered, at the start of  *)
(* whatever window the codec is shown.                                     *)
IntactDelivered ==
  \A frame \in emitted :
    frame.encoded /\ IsPrefix(frame.octets, outcome.window) =>
      outcome.got = <<frame.pdu>>

(* include/cfdp_pdu.h:59-62 of the File Data codec: the record             *)
(* continuation state and the metadata must be left zero and NULL without  *)
(* the segment metadata flag, and a payload that disagrees is rejected.    *)
DisagreementRejected ==
  \A frame \in {f \in emitted : f.encoded /\ f.req.hdr.pdu_type = FILE_DATA} :
    frame.req.hdr.segment_metadata_flag = ABSENT =>
      /\ frame.req.fd.record_continuation = 0
      /\ frame.req.fd.segment_metadata = Null
      /\ frame.req.fd.segment_metadata_len = 0

(* Every PDU the sending entity may ask for, as it should be received.     *)
RequestedPdus ==
  UNION {{Carried(req, PayloadOf(req, room), counted) :
            room \in Rooms(req), counted \in Counted \cup {0}} : req \in Requests}

(* The frame path as the service it implements for PDUs with a CRC:        *)
(* whatever the sender hands over and the link does to it, a step of the   *)
(* path delivers one that was sent, as it was sent, or is not seen by the  *)
(* entities above.                                                         *)
Service == INSTANCE CfdpLinkService WITH
  Pdu <- RequestedPdus,
  sent <- {frame.pdu : frame \in {f \in emitted : f.encoded /\ Protected(f.pdu)}},
  delivered <- SelectSeq(delivered, Protected)

ServiceSpec == Service!Spec
=============================================================================
