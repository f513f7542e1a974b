# Verification of EmbeddedCFDP

TLA+ models of EmbeddedCFDP, a C99 codec library for the PDUs of the CCSDS File
Delivery Protocol (CCSDS 727.0-B-5), with the TLC runs that check them and the
proofs that TLAPS checks. Paths such as `src/cfdp_pdu.c` are relative to the
repository.

1. [The system](#1-the-system)
2. [What is hard about it](#2-what-is-hard-about-it)
3. [The modules and the code](#3-the-modules-and-the-code)
4. [The runs](#4-the-runs)
5. [The proofs](#5-the-proofs)
6. [What is not modelled, and what the models assume](#6-what-is-not-modelled-and-what-the-models-assume)
7. [Divergences between code and documentation](#7-divergences-between-code-and-documentation)
8. [Plan](#8-plan)

## 1. The system

The library has no heap, no threads, no transaction state machine and no
global state. Each function is called with the buffers and structures of its
caller and returns the octets it wrote or consumed, 0 on an error. The *state*
of the system is therefore what a caller keeps between two calls: an output
buffer used for one PDU after another, a receive buffer, a structure decoded
into again and again, a running checksum. Those are the variables of the models.

| Component | Files | State between calls | Operations | Correct when |
|---|---|---|---|---|
| Endian helpers | `include/cfdp_endian.h` | - | `cfdp_write_uint`, `cfdp_read_uint` | a value that fits its field survives; a wider one loses its high octets only |
| PDU CRC | `src/cfdp_crc.c` | the register, passed in and out | `cfdp_crc_update`, `cfdp_crc_compute` | a PDU damaged by a burst the CRC covers is never taken for the one that was sent |
| Fixed header and framing | `src/cfdp_pdu.c` | the caller's frame buffer: header, payload, then CRC | `cfdp_pdu_header_size/_serialize/_deserialize`, `cfdp_pdu_payload_size`, `cfdp_pdu_crc_append`, `cfdp_pdu_crc_verify`, `cfdp_pdu_directive_code` | a completed frame describes itself; the receiver finds the payload without the CRC and without padding |
| File Data | `src/cfdp_pdu.c` | - | `cfdp_file_data_serialize/_deserialize` | the data arrive at the offset they were sent for |
| LV, TLV, Entity ID | `src/cfdp_tlv.c` | - | `cfdp_lv_*`, `cfdp_tlv_*`, `cfdp_entity_id_tlv_*` | a length octet never takes a decoder out of its buffer |
| Fault Handler Override, filestore request and response | `src/cfdp_tlv.c` | the output structure | `cfdp_fault_handler_tlv_*`, `cfdp_filestore_*_tlv_*` | a parameter is read from its own TLV, all of it |
| Finished | `src/cfdp_directive.c` | the output structure; in a call, the position in the TLV chain | `cfdp_finished_serialize/_deserialize` | any chain is walked to its end or rejected; spans and fault location are the right ones |
| NAK | `src/cfdp_directive.c` | the output structure with its array; in a call, the loop counter | `cfdp_nak_serialize/_deserialize` | every request of an accepted NAK is reported; a rejected one loses none of an earlier list |
| EOF, ACK, Metadata, Prompt, Keep Alive | `src/cfdp_directive.c` | the output structure | `cfdp_*_serialize/_deserialize` | a PDU that is accepted is decoded as it was encoded |
| File checksum | `src/cfdp_checksum.c` | the running sum | `cfdp_checksum_update`, `_compute`, `_type_supported`, `_update_by_type` | independent of how the file is split and of the order of the segments |
| Chains of parameters | `src/cfdp_tlv.c`, `README.md` (288-303) | the buffer a chain is built in; the position in a walk | `cfdp_*_tlv_serialize` one behind the other, `cfdp_tlv_deserialize` to walk | what was attached is met again, in order, in full |
| A file transfer | `examples/example.c`, `README.md` | the octets written, the running sum, the EOF | `build_file_data`, `build_eof`, the dispatch of "Parse a received PDU", a `cfdp_checksum_update` per received segment | every octet is in the sum as often as it arrived, at its place in a word, so that the EOF's checksum tells exactly the transfers whose repetitions do not cancel |
| Example and Quick Start | `examples/example.c`, `README.md` | the frame buffers | `emit_pdu`, `build_*`, `parse_and_verify` | the order in which the other parts have to be called |
| Umbrella header, tests, build files | `include/cfdp.h`, `tests/`, `Makefile`, `tools/` | - | - | - |

How they interact, from one entity to the other:

    build_file_data                                    parse_and_verify
      cfdp_file_data_serialize -> payload                cfdp_pdu_crc_verify
      emit_pdu                                             cfdp_pdu_header_deserialize
        cfdp_pdu_header_size                               cfdp_crc_compute
        cfdp_pdu_header_serialize -> out    --- link --> cfdp_pdu_header_deserialize
        copy payload              -> out                 cfdp_pdu_payload_size
        cfdp_pdu_crc_append       -> out                 cfdp_file_data_deserialize
          cfdp_crc_compute                               cfdp_checksum_update

The directive codecs take the payload's place for File Directive PDUs. Finished
and Metadata carry chains of TLVs that other codecs encode and walk. Decoded
pointers alias the receive buffer (zero copy): nothing is copied out.

## 2. What is hard about it

* **The link.** Frames are lost, repeated, reordered, padded, cut and damaged;
  the only protection is the CRC and the lengths in the header.
* **Stale octets and stale fields.** Buffers and structures are reused. A cut
  frame can be completed by the tail of an earlier one; a failed `emit_pdu`
  leaves a new header over old octets; a decoder that fails has written a part
  of its output.
* **Order of calls.** The header is written before the CRC it has to count; the
  CRC must be verified before anything is decoded; the payload is shorter than
  the data field.
* **Lengths.** 16-bit lengths wrap, length octets of a peer point anywhere, 0
  means both "nothing" and "failed".
* **Loops over the input of a peer.** The TLV chain of a Finished PDU and the
  list of a NAK: their bounds, termination and completeness.
* **Order and overlap of segments.** The checksum is summed up in the order of
  arrival, at any alignment; a segment may arrive twice, or overlap with what has
  arrived, and the library keeps no record of it.
* **Lengths within lengths.** A name's length octet stands in a TLV with a length
  octet, in a data field with a 16-bit length, in a frame of some length; each
  codec sees a window of its caller's choice.

`PROJECT.json` lists every hazard at its line with the properties that
cover it.

## 3. The modules and the code

| Module | Models | Extends / instantiates |
|---|---|---|
| `CfdpOctets` | octets, buffers, `cfdp_write_uint`, `cfdp_read_uint` | |
| `CfdpCommon` | limits and codes of `cfdp_common.h` | `CfdpOctets` |
| `CfdpCrc` | `cfdp_crc.c` as pure operators on bit sets | |
| `CfdpCrcStream` | the CRC at both ends of a noisy link, bit by bit | `CfdpCrc` |
| `CfdpPdu` | every function of `cfdp_pdu.c` as a pure operator on octets | `CfdpCommon`, instance of `CfdpCrc` |
| `CfdpFramePath` | callers, `emit_pdu`, link, receive buffer, Quick Start receiver | `CfdpPdu`, instance of `CfdpLinkService` |
| `CfdpLinkService` | abstract: what the frame path promises | |
| `CfdpTlv` | LV and Entity ID codecs, the extent of a TLV | `CfdpCommon` |
| `CfdpFilestore` | TLV codec, Fault Handler Override, Filestore Request and Response | `CfdpTlv` |
| `CfdpParameterWalk` | a caller that walks a chain of TLVs | `CfdpFilestore` |
| `CfdpFinished` | Finished codec, the TLV loop | `CfdpDirectives` |
| `CfdpNakCodec` | the octets of a NAK, and which data fields are one | `CfdpCommon` |
| `CfdpNak` | the NAK decoder, the loop over the requests | `CfdpNakCodec` |
| `CfdpDirectives` | EOF, ACK, Metadata, Prompt and Keep Alive codecs | `CfdpTlv` |
| `CfdpDecoderSession` | a caller that decodes one PDU after another into its structures | `CfdpDirectives`, `CfdpPdu` |
| `CfdpParameterDelivery` | parameters from one user to another, in a Metadata or a Finished PDU | `CfdpFinished`, `CfdpFilestore`, instances of `CfdpParameterWalk`, `CfdpParameterService` |
| `CfdpParameterService` | abstract: what a user who attaches parameters may rely on | |
| `CfdpChecksum` | `cfdp_checksum.c` as pure operators, and the word sum it is to compute | |
| `CfdpChecksumSegments` | the checksum over a file's segments | `CfdpChecksum` |
| `CfdpTransfer` | a file in segments, and its EOF, over a link that loses, repeats and reorders | `CfdpPdu`, `CfdpDirectives`, `CfdpChecksum` |
| `MC*` | instances for TLC | |
| `*Proofs` | theorems and proofs; those of `CfdpFinished` are in `CfdpParameterDeliveryProofs` | |

How they fit together. The codecs are pure modules (`CfdpPdu`, `CfdpDirectives`,
`CfdpTlv`, `CfdpFilestore`, `CfdpNakCodec`, `CfdpChecksum`, `CfdpCrc`), the two with a loop over
what a peer sent are state machines (`CfdpFinished`, `CfdpNak`), and the other
modules are the callers, whose state is what the system has. `CfdpFramePath`
shows that a frame arrives as it was sent, or not at all (`CfdpLinkService`);
`CfdpTransfer` and `CfdpParameterDelivery` start from there: between their users
travel data fields that are not altered. `CfdpParameterDelivery` runs
`CfdpFinished` and `CfdpParameterWalk` as they are, one after the other on the
same span.

**Octets.** A buffer is a sequence as long as the `buf_len` the C function is
given, so that a read beyond it is an error TLC reports. A `uint64_t` is its
eight octets, most significant first. A pointer is `<< >>` for NULL or a
one-element sequence with the octets behind it. An encoder returns its octets,
`<< >>` where the C function returns 0; a decoder returns `ret` and the structure
as it leaves it, also when it fails.

**CRC.** Register, octet and polynomial are the sets of their 1 bits, the
exclusive or is the symmetric difference. `XorOctet` is line 27 of
`cfdp_crc.c`, `ShiftBit` the body of the inner loop. `CfdpCrcStream` runs
`cfdp_crc_update` of the sender (`sent`) and of the receiver (`rcvd`) in step;
`BeginOctet` folds in an octet and what the link made of it, `ShiftInBit` is an
iteration of the inner loop, `VerifyCrc` the comparison in `cfdp_pdu_crc_verify`.
`MCFramePath` asserts two vectors of `tests/test_cfdp_crc.c` of the operators.
The history variables `burst` and `damaged` remember what the link did.

**Frame path.** `Emit` is a caller such as `build_file_data` together with
`emit_pdu`: encode the payload (the result is not checked, as in the example),
write the header, look at the room, copy, append the CRC, and return 0 at any of
these steps with what was written so far left in the buffer. `counted` is what the caller added for the CRC in
`data_field_length`: 2, or 0 when it forgot. `EmitPlain` is the README's variant
without a CRC: the payload is encoded in the place behind the header, and what
the encoders return is not looked at, so that a payload that does not fit makes
a PDU of the header alone. `Transmit` hands `txTotal` octets to the link,
`TransmitWholeBuffer` the whole buffer whatever came of the call, as `main`
does with `file_data_pdu`: it has no guard, so what a failed `emit_pdu` left is
sent too. `Lose`, `Damage`, `Pad`, `Cut` are the link (external),
`Arrive` the driver that writes a frame over the receive buffer and tells the
codec either its length or that of the buffer. `Receive` is the README's "Parse a
received PDU": verify, header, payload size, codec. `CfdpLinkService` has two
actions, `Send` and `Deliver`: a PDU that was sent is delivered any number of
times in any order, and nothing else ever is. The refinement maps `sent` to the
PDUs of the frames completed with an encoded payload, and `delivered` to itself,
both as far as the header says that there is a CRC (`Protected`).

**Finished.** `Call` is `cfdp_finished_deserialize` up to the loop, with the
reset of the output; each turn of the loop in `cfdp_finished_parse_tlvs` is
`Reject`, `Take` (`TakeResponse` or `TakeFaultLocation`) or `Finish`. The
structure `fin` outlives the call. `filestore_responses` is the position in the
data field it points at. `walked` is a history of the TLVs taken.

**NAK.** `RejectCall` is a call that fails before the loop - with the scope
already stored when the requests do not fit -, `EnterLoop` one that gets to it,
`TakeRequest` an iteration, `Finish` the rest of both functions, the case of a
list of no octets included. `kept` is a history: the list of the NAK accepted
last.

**Other directives.** One operator per serialiser and per deserialiser of
`cfdp_directive.c` (`CfdpDirectives`). `CfdpDecoderSession` has one action per
decoder without a loop (`DecodeEof`, `DecodeAck`, `DecodeMetadata`,
`DecodePrompt`, `DecodeKeepAlive`, `DecodeHeader`, `DecodeFileData`), which applies
it to any octets and to the structure as earlier calls have left it. `EofFixed` and
`MetadataFixed` are the assignments a decoder has made by the time it can still
fail. `last` remembers the call.

**Parameters.** A name, with its pointer and its length, is one `Lv`. The decoders
return what they leave in the structure when they give up: nothing written, the
action only, the first name, both. `CfdpParameterWalk` is the loop of the
README (288-291): `Take` looks at the type, hands what is *left of the chain* to
the decoder of that type, as the C signature has it, and advances by what
`cfdp_tlv_deserialize` returns; `Stop` is its 0. In `CfdpParameterDelivery` the
sending user encodes parameters one behind the other into a buffer (`Attach`,
with a failed encoding as the C code has it: no octets, and the user goes on),
points a Metadata or a Finished PDU at it, and the receiving one decodes and
walks. Its own initial state and actions have names that begin with `Delivery`;
`Init`, `Next` and `Spec` are those of `CfdpFinished`, whose variables it shares.
`CfdpParameterService` says what comes of it: `attached` is what could be
encoded, `delivered` what the walk has met, and the map from one to the other is
`OnWire`, which forgets a second name the action does not have, and of what a
pointer points at all that its length does not cover.

**Transfer.** The sending user encodes segments of the file of up to `SegmentLen`
octets (`SendSegment`, `build_file_data`) and the EOF with the checksum of the file
(`SendEof`, `build_eof`), at any time and as often as it likes: what is sent again,
and why, is not the library's (`README.md:12`), and no such procedure is invented
here. `Lose` and `Deliver` are the link (external), which carries each PDU whole, any
number of times and in any order. The receiving user decodes, writes the octets at
their offset over whatever is there, and folds the *whole* segment into its
running checksum (`TakeFileData`), once per received segment, as
`include/cfdp_checksum.h:34-36` has it and `example.c:157` does; `TakeEof` decodes the
EOF. Between the users travel octets: encoders and decoders are those of the other
modules. `times` is a history: how often each octet has arrived.

**Checksum.** `SegmentsInit` picks a file, the file as it arrives (the same, or one octet
different), a checksum type and a division into segments. `FoldSegment` is
`cfdp_checksum_update_by_type` on any segment that has not arrived; `FallBack`
is what the repository's README (318-320) leaves to a receiving caller when a
type is not supported. The segments divide the file here and each is folded in
once; `CfdpTransfer` has any segments, that overlap and come again.

Definitions under *Deviations* in a module are the same operators with a
plausible mistake in them. Substituted for the real ones they break the
properties, which shows that the properties can fail.

## 4. The runs

| Run | Question | Instance |
|---|---|---|
| `crc_bursts` | does the CRC-16 find every burst of up to two octets? do the registers stay apart? is the strengthening true? | the real register (16, 8, 0x1021); 3 octet values, 4 octet and 6 CRC error patterns, up to 4 octets |
| `frame_faults` | is what is delivered under a CRC what was sent, over a faulty link and from a sender that transmits failed buffers? is an intact frame delivered? | 4 PDUs (with a CRC, without, one whose length wraps, one too long for the buffer), the CRC counted or forgotten, 2 emits into one buffer, 1 frame on the link, 1 fault anywhere in it, 2 arrivals |
| `frame_callers` | and with careless callers, when the length wraps, and whatever noise makes of a header? | 13 kinds of request: sound, wider than its fields, not encodable, no room for the payload or for the CRC, bad version, directives, without CRC; CRC counted or forgotten; a length field modulo 9, payloads on both sides of the wrap; one fault: a burst, padding, a cut, or one octet, header included, changed to any of 37 values, among them every set of flags and lengths on both sides of what fits |
| `record_without_flag` | does the codec reject a payload that disagrees with the flag? (no: section 7) | one payload with a record continuation state and no flag |
| `finished` | bounds, acceptance, spans, stale output, round trip, termination | every chain of up to 3 TLVs out of 7, whole and broken, and every one of 0 to 4 octets of {0, 1, 2, 6}; an ID of 8 and of 9 octets; 6 encoded structures; 2 calls into one structure |
| `nak_fields` | completeness, acceptance, what survives a rejection, round trip | 8 NAKs of 0 to 3 requests for an array of 2, cut, extended, with another code, decoded under either Large File flag, 2 calls |
| `decoder_session` | does an accepted PDU mix with what was in the structure; can it be sent on? | PDUs a peer may have encoded or failed to, headers and File Data included, their octets cut, extended and with every spare bit set, wrong subtypes; any decoder on its fields, either Large File and metadata flag, 2 calls |
| `parameter_walk` | is an accepted parameter its TLV, all of it, and of no other? does the walk keep its place, and end? | a chain of options and one of responses, of 3 or 4 TLVs each, cut anywhere and with any octet replaced by 7 others; every chain of 0 to 5 octets of {0, 1, 2, 3, 33}; one walk, through structures that hold what the TLVs before have left |
| `parameter_delivery` | does what was attached arrive? | up to 3 of 11 parameters: one and two names, a name that fills the 255 octets of a TLV and one of an octet more, codes that are not encoded; a buffer of 265 octets that does not hold every three; Metadata, Finished with and without a fault location |
| `transfer` | is every octet in the sum as often as it arrived? when is the sum the one in the EOF? | 5 octets of 4 bits, every segment of up to 3 of them at any offset, two PDUs on the link, each lost or delivered any number of times, 4 arrivals |
| `transfer_repeated` | is a sum made as the header says the EOF's when the file is there? (no: section 7) | the same with segments of up to 5 octets |
| `checksum_segments` | is the sum independent of order, division and alignment, and does it tell a changed octet? | 4 files of 0 to 7 octets of 4 bits, every division, every order, every changed octet, 3 types |

What the main properties say:

* `BurstDetected`, `NeverRejoin` - what the CRC is carried for.
  The last is the reason: registers that differ stay different.
* `SelfDescribing` - header size plus `data_field_length` of every completed
  frame is its length, whatever was forgotten and however it wrapped. This is
  what the comparison in `cfdp_pdu_crc_append` (`cfdp_pdu.c:199`) is for.
* `DeliveredAsSent` - whatever is delivered under a CRC is one of the completed
  frames, whole and unaltered, and is decoded as what the sender was asked to send,
  cut to the widths of its fields. `ServiceSpec` says the same of steps: the frame
  path implements `CfdpLinkService`. Without a CRC there is no such promise, and not
  only because of noise: when the header has no CRC flag but counts the CRC,
  `cfdp_pdu_crc_append` fails (`cfdp_pdu.c:191`) over a buffer that
  `cfdp_pdu_crc_verify` accepts, and with `TransmitWholeBuffer` two stale octets are
  delivered as file data. `IntactDelivered` is the converse, and holds of every
  frame that was completed.
* `IInv` (four runs) - the strengthenings that the proofs rest on. In
  `CfdpFinished` it includes `InBounds`: the decoder never leaves the data field; in
  `CfdpParameterWalk` `OnBoundary`: the caller stands between two TLVs.
  `Terminates` - a call, or a walk, comes back.
* `SpanIsResponses`, `FaultLocationIsLast` - what it reports. `AcceptsFinished` -
  it accepts exactly the data fields that can be cut into TLVs in the legal
  order; the definition (`IsFinished`) does not mention a decoder.
* `NothingDropped`, `AcceptsNak`, `ListOfOneNak` - a NAK is reported whole or
  rejected; the list in the structure is always one NAK's, never a shortened
  or a mixed one.
* `VerifiedFits` - the receiver of "Parse a received PDU" looks at no length after
  `cfdp_pdu_crc_verify`: whatever noise has made of the header, also where it has
  switched the CRC off, what is accepted holds the payload it describes.
* `KeepsToItsTlv`, `AcceptsParameters` - a parameter that is accepted, encoded
  again, is its TLV; what is refused is not a parameter. `IsParameter` defines
  that from the octets without a decoder. `NoMixture` - a structure never shows
  two parameters at once, at whichever length a decoder gave up.
* `WalkDeliversAll`, `ServiceSpec` (`CfdpParameterDelivery`) - the three codecs and
  the Finished loop agree on where a chain and each of its TLVs ends: what one
  user attached the other meets, whole, and nothing else.
* `ChecksumOfArrivals` - the running checksum counts each octet as often as it has
  arrived, at its place in a word, however the segments overlap and in whichever
  order they come. `SecondArrivalsDecide` - when the whole file is there, the checksum
  is the one in the EOF exactly if the octets that came again add up to 0 modulo a
  word; so it is when nothing came twice.
* `NothingStale`, `RefusedUntouched` - what an accepted EOF, ACK or Metadata
  leaves in the structure is that PDU alone, although EOF, Metadata and File Data may have
  written a part of it and failed in the call before; a refused ACK, Prompt or
  Keep Alive leaves the structure alone.
* `Reencodes` - what was decoded, encoded again, is the data field. The exception
  is an EOF whose fault location does not go with its condition: the decoder is
  lenient on purpose (`include/cfdp_directive.h:174-177`), the encoder is not.
* `RunningIsWordSum` - the running sum is that of the file as it has arrived so
  far, by the word-wise definition of CCSDS 727.0-B-5 Annex F.
  `EofChecksumDecides` - in the end it is the one of the EOF PDU, and is not when an
  octet has changed.

**Bounds.** `MaxOctets`, `MaxEmits`, `MaxFrames`, `MaxFaults`, `MaxArrivals`,
`MaxCalls`, `MaxWalks` and `MaxParameters` bound counters in the guards, and `MaxLink`
the PDUs on the link of a transfer; the systems are silent once they are
reached, so deadlock is not checked. Two emits and two arrivals are enough for
one frame to meet the octets another has left in a buffer, on either side; a
third adds no new pair. One fault in a frame is what the CRC is specified for.
`Capacity` leaves room for a complete frame, but not for every request. The
length field wraps at 9, so that a wrapped frame is as short as the others; the
code is the same for any modulus. Three TLVs are
enough for a response before and after a fault location. `MaxRequests` is 2
instead of 32, and 3 requests are one too many: the property is about the
boundary, wherever it is (the proof is for any). The octets of a file have 4
bits (`Radix` is 16) because TLC's integers have 32: lanes, word and carry scale with
them (the proof is for any `Radix`), and
7 octets give two words, the second not whole; in a transfer 5 do. Three
parameters are one between two others. In a transfer two segments of 3 octets
bring the file, in any order and overlapping or not, and two more arrivals bring some of it
again: enough for octets that come again to change the sum, and to cancel (the
first octet, 8, is chosen so that two more of it make 16, a carry out of the
word), and for `SecondArrivalsDecide` to be seen on both sides. Two PDUs on the
link overtake each other, the EOF included. One
walk meets up to four TLVs, and the structures hold what those before have left.

**Fairness.** `CfdpFinished` and `CfdpParameterWalk`: weak fairness of an
iteration of the loop. The code is a `while` without a wait, so a call that has
begun runs. None is assumed in `CfdpFramePath`, nor in `CfdpParameterDelivery`,
which states safety only, nor in `CfdpTransfer`: nothing in the library makes a
user send anything again (`README.md:12`).

## 5. The proofs

All proofs are checked by TLAPS to the last leaf, for every value of the
constants that satisfies the named assumptions.

* `CfdpCrcStreamProofs`. From `CrcAssumption` (an octet fits the register, the
  polynomial has a constant term) and `StreamAssumption`: `DetectsBursts`,
  `StaysApart`, `TypeCorrect`. `NeverRejoin` is not inductive: the
  next damaged octet could in principle cancel a difference. The strengthening
  (`Apart`) says *where* the registers differ: at a position below
  `burst * OctetBits - pending`, in the bits the burst has been shifted into, or
  among the `pending` bits not yet shifted in. A new octet enters above the
  former, so it cannot cancel it (`BeginOctetIInv`); shifting is injective
  because of the constant term (`ShiftKeepsDifference`); and the CRC octets a
  burst can still reach lie above it too (`VerifyCrcIInv`). The theorem holds for
  PDUs of any length, which no run can show.
* `CfdpParameterDeliveryProofs`, first of `CfdpFinished`. From `SpanAssumption`, `FieldsAssumption` (a data field is at most as long
  as 16 bits can say) and `SourcesAssumption`: `Invariance`, `SpansResponses`,
  `ReportsLastFaultLocation`, `AcceptsExactly`, `DecodesAsEncoded`, and, of parts of the
  invariant, `StaysInBounds`, `AlwaysAdvances`, `TypeCorrect`. The invariant (`IInv`) has three
  parts. `WalkInv`: the responses end at the position until a fault location is
  taken, and do not move after it. `Trail`: the TLVs taken are those that the lengths
  in the octets lead to, none left out. `AcceptsFinished`: what a call has decided is
  what `IsFinished` says of the whole field. The last is the hard one, since
  `IsFinished` asks for *some* way to cut the field into TLVs and the loop has found
  one. The proof characterises the places that start a TLV without a loop, as the
  set of the first place and of every place at which a TLV that starts in the
  set ends (`IsChain`), shows that there is one such set (`ChainExists`, `ChainsAgree`) and
  that both ways lead through its places. It also shows that the cast to `uint16_t`
  (`cfdp_directive.c:200`) never loses anything.
* `CfdpParameterDeliveryProofs`, then of the delivery. From `DeliveryAssumption` (the
  users attach values of the C types, behind pointers to as many octets as they say)
  and `SpanAssumption`, for any parameters, names of any length, any other fields of the
  Finished PDU and any size of the buffer: `DeliveryInvariance`, `DeliveryTypeCorrect`,
  `DeliversAll`, `DeliveryImplements`. That all has been delivered when the walk is over
  is not inductive: the walk sees octets, and has to be told whose they are.
  `DeliveryInv` says so: the buffer is the octets of what was attached, one behind the
  other (`Built`), the data field of the Finished PDU is that behind two octets, and maybe
  a fault location (`Carried`), and the walk stands where the octets of the parameters it
  has met end (`Met`). Its leaves are the round trip of each kind of parameter
  (`ParameterRead`), which holds whatever stands behind it; that what is encoded into the
  rest of a buffer is what would be encoded into all of it, and from what arrives
  (`EncodedTravels`); and that the octets of several parameters lead the walk from one to
  the next (`NextInChain`, `MeetsNext`). For the Finished PDU the theorems about its loop
  are used as they stand: the decoder accepts it if and only if every parameter is a
  response (`CarriedJudged`, from `AcceptsFinished`), and the span it reports is the buffer
  (`ChainPointed`); for Metadata it is the round trip of that codec (`MetadataSent`).
  `DeliveryImplements` maps a step of `WalkOn` to a `Deliver`, or to nothing where the
  walk stops, and a refusal to `Refuse`, which the service allows for a foreign
  parameter only.
* `CfdpNakProofs`. From `NakAssumption` and `SourcesAssumption`: `Invariance`, `DropsNothing`,
  `KeepsAcceptedList`, `AcceptsExactly`, `DecodesAsEncoded`. The invariant ties the counter of the
  loop, the count in the structure and the requests taken so far to the data
  field, and keeps the list apart from the calls that fail. The last theorem is
  the round trip for any number of requests: each stands in the list where as
  many requests before it end (`HoldsRanges`).
* `CfdpParameterWalkProofs`. From `SpansAssumption`, for chains of any length:
  `Invariance`, `StaysOnBoundary`, `TypeCorrect`, `AcceptsExactly`, `ReadsItsOwnTlv`, `NeverMixes`.
  `OnBoundary` and `TypeOK` are inductive together (`IInv`): the place of the next TLV
  follows from the last one taken (`NextParameter`), and the types of what a decoder
  reads from the extent of its TLV (`RequestDeserializeType`, `ResponseDeserializeType`
  and the others). `AcceptsParameters` and `KeepsToItsTlv` are then facts about each
  decoder on the octets from the TLV to the end of the chain (`TakesRightly`): it
  succeeds if and only if the TLV alone is a parameter (`IsParameter`), and the
  encoder makes that TLV of what it has read. What stands behind the TLV does not
  matter, which is what a caller who passes the rest of the chain relies on (`Cut`).
  `NoMixture` is a fact about single steps (`DecodeForgets`): each decoder
  either has not written to its structure or has cleared it first.
* `CfdpFramePathProofs`. From `FramePathAssumption` and `RequestsAssumption`, for any
  requests, any buffer size and any faults of the link: `Invariance`, `TypesHold`, `FramesDescribeThemselves`, `IntactFramesAreDelivered`,
  `VerifiedPayloadsFit`, `VerificationIsEnough`. The invariant (`IInv`) says of every completed
  frame what it was made of (`Completed`: a header, a payload that was encoded under
  the flags of that header, and, with the CRC flag, the CRC of both) and of the
  receiver that its outcome is what `Parse` gives for the window. That a frame
  describes itself then follows from the lengths, for a payload of any length
  and a length field that wraps: the comparison in `cfdp_pdu_crc_append` is the only
  thing that holds off a wrapped one. That an intact frame is delivered needs
  both directions of every codec on the way (`HeaderRoundTrip`, `FileDataRoundTrip`) and that
  the two octets of the CRC are read as they were written. The extent of what
  passes `cfdp_pdu_crc_verify` (`VerifiedHoldsPayload`) needs no history at all: it holds
  for any octets in the receive buffer, and rests on the comparison with the
  data field length in both branches of the code, the one that looks at the CRC
  and the one that does not, and on the two octets the first asks for.
* `CfdpDecoderSessionProofs`. From `SpanAssumption`, `FieldsAssumption` and
  `SourcesAssumption`, for any octets, any structures and any order of calls: `Invariance`,
  `TypesHold`, `NothingIsStale`, `RefusedLeavesLast`, `DecodesAsEncoded`, `CanBeSentOn`. The invariant
  compares with a clear structure (`AsFromClear`): the last call returned what it returns for
  one and, when it accepted, left the same. That is where each decoder's resets
  are needed, at each place where it can still give up after writing. With it the
  round trip of all seven encoders is a fact about a clear structure.
  `CanBeSentOn` is the other direction, for octets nobody encoded: the parts each decoder
  reads are slices that meet (`SlicesJoin`), each field is written as it was read, and the
  encoder puts them together again in the same order; of the bits no field holds
  only the spare ones of one octet are lost (`Cleared`). It needs the extent of a
  data field, 16 bits (`GivenHolds`): with more, the length of the options would wrap.
* `CfdpTransferProofs`, first of the checksum alone (`CfdpChecksumSegments`). From
  `RadixAssumption` and `SegmentsAssumption`, for octets of any width and files of any
  length: `SegmentsInvariance`, `RunsAsWordSum`, `DecidesAtEof`.
  `cfdp_checksum_update` adds octets in lanes, the definition of the standard adds
  words; that the two agree is `WordSumIsCompute`, an induction over the words. The
  invariant keeps the segments that have not arrived apart (`Apart`), so that one
  more of them adds to zeros (`ZerosCount`, `SegmentAdds`), and ties the fall-back to
  a sum that is still 0. That the sum tells one changed octet (`OneOctetTells`) is
  the fact that a difference below `Radix` in one lane is no multiple of the word.
* `CfdpTransferProofs`, then of the transfer (`CfdpTransfer`). From `TransferAssumption`
  (a file of 1 to 65535 octets, buffers that hold a segment and an EOF) and
  `RadixAssumption`, for any segment length and any number of PDUs on the link, of
  losses and of arrivals: `Invariance`, `TypeCorrect`, `CountsArrivals`, `DecidedByRepeats`.
  `ChecksumOfArrivals` is not inductive: it needs that what is folded is the file's.
  `IInv` says so: what is on the link is what the sending user encodes (`Encoded`), what
  is written is the file's and stands where something has arrived, and an EOF decoded is
  the one sent. Its leaves are the round trips of the two codecs - a segment
  is read back at its place with its octets (`SegmentReadBack`), an EOF with its
  checksum and size (`EofArrives`) - and that a segment folded in at its offset adds its octets
  to those in their lanes, whatever stands there already (`SegmentAdds`, the lemma of
  the segments' proof, which is about numbers, not octets). That repetitions alone
  decide rests on three facts: the sum of all
  arrivals is the sum of the file plus that of what came again (`ComputeOfSum`), the EOF
  carries the four octets of its sum, and four octets tell two sums apart
  (`OctetsTell`, by division of a word by the weights of its lanes).
* `CfdpLemmas`. Lemmas on slices, fields, headers, TLVs and LVs that the others
  cite, and induction for recursive functions. The library's induction theorems
  take an operator as a parameter, which the provers cannot instantiate; here
  induction is over a *set*, and comes from the well-foundedness of the strict
  subset order (`SetInduction`, `BoundedInduction`). `Recursion` is the theorem that
  a function defined by recursion on its length has the values that its
  definition says.

Only model-checked:

* `Terminates`, because it is liveness. For the two loops the proofs
  give the measure, `AlwaysAdvances` and `StaysOnBoundary`, and its bound, `StaysInBounds`.
* `DeliveredAsSent` and the `ServiceSpec` of the frame path. They say that the link's
  damage never passes the CRC. `CfdpCrcStreamProofs` proves it of one burst; the frame
  path adds octets of another frame behind a cut one, and what only luck decides
  (section 6) is luck for any value of the constants but the checked ones.

`IInv` of `CfdpTransfer` is an invariant of the instance of `transfer` as well. It is not
in the configuration because its parts `TypeOK` and `ChecksumOfArrivals` are. So is
`DeliveryInv` of the instance of `parameter_delivery` without the names of 252
octets and more and with a buffer of 16: on long fields TLC needs too long for its part `IInv`.

## 6. What is not modelled, and what the models assume

* **NULL pointers to buffers and structures.** Every function rejects them
  first. NULL *data* pointers are modelled where they mean something.
* **Luck.** A CRC of 16 bits passes one in 65536 frames damaged beyond its
  guarantee. The models leave out what only luck decides: a frame's header may
  not lose its CRC flag or change its extent by damage (`KeepsExtent`) - then the
  CRC is not looked at, or is computed over other octets; a frame cut by more
  than two octets is not completed by the tail of an earlier one (`"cut short"`
  in `Arrive`). Bursts are put on frames with a CRC only: without one the code
  promises nothing. What a failed `emit_pdu` leaves *is* sent
  (`TransmitWholeBuffer`), stale octets in the place of the CRC included; that these
  do not happen to be the CRC, nor a header to describe a frame that verifies, is
  a matter of the octets of the instances, and a reason why `DeliveredAsSent` is
  not proved.
* **A plain PDU too long for its length field.** Without a CRC nothing compares
  the length with the payload; `EmitPlain` requires callers to ask for less.
* **The example's use of `fd`** after `cfdp_file_data_deserialize` has failed
  (`example.c:151`): indeterminate values in the example only.
* **Aliasing.** Decoded pointers into the receive buffer are taken at the time
  of the call; how long a caller may use them is not modelled.
* **A failed encoder's buffer.** EOF, Metadata, Finished and the filestore TLVs may
  have written a part of it; an encoder that fails returns no octets here.
* **Procedures.** Retransmission, timers and the transaction state machine are not
  the library's (`README.md:12`). `CfdpTransfer` has no such procedure: it lets its
  users send any segment at any time, and states what holds of the octets and the
  sum. That a transfer ends is therefore not stated, and neither is a verdict of the
  receiving user: `parse_and_verify` prints two sums. Metadata, Finished, ACK, NAK,
  Prompt, Keep Alive, faults and cancellation are not part of it.
* **The choice of a checksum type** is in `CfdpChecksumSegments` only; the transfer
  has the modular checksum.
* **Tests, build files, printing:** no behaviour of the library.

## 7. Divergences between code and documentation

`include/cfdp_pdu.h:59-62` says that `record_continuation`, `segment_metadata` and
`segment_metadata_len` "must be left zero/NULL when it is not [present] - the codecs
reject a payload that disagrees with the flag". `cfdp_segment_metadata_consistent`
(`cfdp_pdu.c:259-262`) looks at the last two only: a payload with a record
continuation state and no flag is encoded and the state is dropped. The run
`record_without_flag` finds the frame. Nothing else is affected: the other
properties hold with such a payload among the requests (`frame_callers`).

`include/cfdp_checksum.h:34-36` calls `cfdp_checksum_update` "suitable for streaming: call
once per received or transmitted File Data segment [...] Segments may be supplied in any
order". It does not say that no octet may be supplied twice. The code
(`cfdp_checksum.c:21-29`) adds whatever it is given, so a user who makes that call for a
segment that arrives twice has the file as it was sent and a checksum that is
not the one in the EOF. The run `transfer_repeated` finds the shortest such transfer
(`ReceivedFileVerifies`): one segment, delivered twice. What does hold is
`SecondArrivalsDecide`. To agree with the EOF a user has to leave out of the sum what
it has had before, or compute it of the file it has written.

## 8. Plan

Done: CRC over a noisy link; frame path, also with headers damaged at will;
Finished; NAK; the other directives, the header and File Data as a session of
decoders; the TLV parameters, their walk and their way through a PDU; checksum;
a file transfer over a link that loses, repeats and reorders; proofs of the safety
properties of the CRC, Finished, NAK, the walk, the session of decoders, the checksum
over segments, the transfer, the delivery of parameters with its refinement
and, but for what rests on the CRC against other frames' octets, the frame path. In
the order of weight, what is left:

1. The transfer with Metadata first, and with an unsupported checksum type and the
   fall-back of `README.md` (318-320) at both users.
2. The transfer over the frame path itself, with damaged frames discarded by
   the CRC in the place of lost PDUs.
