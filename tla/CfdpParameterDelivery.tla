------------------------ MODULE CfdpParameterDelivery ------------------------
(***************************************************************************)
(* TLV parameters from one user of the library to another: encoded into a  *)
(* buffer one behind the other, attached as a span of octets to a Metadata *)
(* or a Finished PDU, decoded with it, and walked (README.md:288-303).     *)
(*                                                                         *)
(* CfdpFinished and CfdpParameterWalk run here as they are: the span that  *)
(* the one reports is the chain that the other walks.  The frame path      *)
(* between the two users is CfdpFramePath's, and does not appear.          *)
(***************************************************************************)
EXTENDS CfdpFinished, CfdpFilestore

CONSTANTS
  Parameters,    \* parameters a user may attach: [kind, tlv]
  Finishes,      \* the rest of the Finished PDUs that may carry them
  Capacity,      \* octets of the buffer a user encodes them into
  MaxParameters  \* bound: parameters a user tries to attach

VARIABLES
  stage,     \* "build", "metadata", "finished", "responses" or "refused"
  chain,     \* the octets in the sending user's buffer
  tries,     \* parameters the sending user has tried to attach
  attached,  \* those that could be encoded, as they travel (history)
  \* the walk
  walk_pc, span, walk_pos, got, taken, walks

sender == <<stage, chain, tries, attached>>
decoder == vars
walker == <<walk_pc, span, walk_pos, got, taken, walks>>
deliveryVars == <<sender, decoder, walker>>

Walker == INSTANCE CfdpParameterWalk WITH
            Spans <- {}, MaxWalks <- 1, pc <- walk_pc, pos <- walk_pos

-----------------------------------------------------------------------------
(* What the sending user gives the encoders: the C types of the fields,    *)
(* pointers to as many octets as it says, and codes that a table may not   *)
(* have.  An Entity ID is none of the parameters: the Finished codec       *)
(* encodes it, as the fault location.                                      *)
Name == {lv \in Lv : PointsTo(lv.value, lv.len)}

Attachable ==
  [kind : {"request"},
   tlv : [action_code : Octet, first_filename : Name, second_filename : Name]]
  \cup [kind : {"response"},
        tlv : [action_code : Octet, status_code : 0 .. 15,
               first_filename : Name, second_filename : Name, message : Name]]
  \cup [kind : {"override"}, tlv : [condition_code : Octet, handler_code : Octet]]
  \cup [kind : {"other"},
        tlv : {tlv \in Tlv : /\ PointsTo(tlv.value, tlv.length)
                             /\ Walker!KindOf(tlv.type) = "other"
                             /\ tlv.type # CFDP_TLV_ENTITY_ID}]

ASSUME DeliveryAssumption ==
  /\ Capacity \in Nat /\ MaxParameters \in Nat
  /\ Parameters \subseteq Attachable
  /\ Finishes \subseteq Encodable

(* A parameter as its peer may see it: the octets behind its pointers, and *)
(* a second name only with the actions that have one.                      *)
LvTold(lv) == [lv EXCEPT !.value = Told(lv.value, lv.len)]
SecondTold(tlv) ==
  IF HasSecondFilename(tlv.action_code) THEN LvTold(tlv.second_filename) ELSE NoLv

OnWire(p) ==
  CASE p.kind = "request" ->
         [p EXCEPT !.tlv.first_filename = LvTold(@),
                   !.tlv.second_filename = SecondTold(p.tlv)]
    [] p.kind = "response" ->
         [p EXCEPT !.tlv.first_filename = LvTold(@),
                   !.tlv.second_filename = SecondTold(p.tlv),
                   !.tlv.message = LvTold(@)]
    [] p.kind = "override" -> p
    [] p.kind = "other" -> [p EXCEPT !.tlv.value = Told(@, p.tlv.length)]

-----------------------------------------------------------------------------
DeliveryInit ==
  /\ stage = "build"
  /\ chain = << >>
  /\ tries = 0
  /\ attached = << >>
  /\ Init
  /\ Walker!Init

(* The next parameter is encoded behind the others, into what is left of   *)
(* the buffer; where that fails the user goes on without it.               *)
Attach(p) ==
  LET octets == Walker!Encode(p.kind, p.tlv, Capacity - Len(chain))
  IN /\ stage = "build"
     /\ tries < MaxParameters
     /\ tries' = tries + 1
     /\ chain' = chain \o octets
     /\ attached' = IF octets = << >> THEN attached ELSE Append(attached, OnWire(p))
     /\ UNCHANGED <<stage, decoder, walker>>

ChainPointer == IF chain = << >> THEN Null ELSE PointerTo(chain)

(* The span is the options of a Metadata PDU, and is walked as such at the *)
(* peer.                                                                   *)
SendMetadata ==
  LET sent == MetadataSerialize([ClearMetadata EXCEPT !.options = ChainPointer,
                                                      !.options_len = Len(chain)],
                                0, SpanModulus)
      md == MetadataDeserialize(sent, 0, ClearMetadata)
  IN /\ stage = "build"
     /\ md.ret > 0
     /\ stage' = "metadata"
     /\ Walker!Begin(Copied(md.pdu.options, md.pdu.options_len))
     /\ UNCHANGED <<chain, tries, attached, decoder>>

(* The span is the filestore responses of a Finished PDU.                  *)
FinishedOf(finish) ==
  [finish EXCEPT !.filestore_responses = ChainPointer,
                 !.filestore_responses_len = Len(chain)]

SendFinished(finish) ==
  LET sent == FinishedSerialize(FinishedOf(finish), SpanModulus)
  IN /\ stage = "build"
     /\ sent # << >>
     /\ stage' = "finished"
     /\ Call(sent)
     /\ UNCHANGED <<chain, tries, attached, walker>>

DecodeFinished ==
  /\ stage = "finished"
  /\ Iterate
  /\ UNCHANGED <<sender, walker>>

(* An accepted Finished PDU has its responses walked.                      *)
WalkResponses ==
  /\ stage = "finished" /\ pc = "idle" /\ ret > 0
  /\ stage' = "responses"
  /\ Walker!Begin(Slice(field, fin.filestore_responses,
                        fin.filestore_responses + fin.filestore_responses_len))
  /\ UNCHANGED <<chain, tries, attached, decoder>>

Refuse ==
  /\ stage = "finished" /\ pc = "idle" /\ ret = 0
  /\ stage' = "refused"
  /\ UNCHANGED <<chain, tries, attached, decoder, walker>>

WalkOn ==
  /\ stage \in {"metadata", "responses"}
  /\ Walker!Advance
  /\ UNCHANGED <<sender, decoder>>

Receive == DecodeFinished \/ WalkResponses \/ Refuse \/ WalkOn

DeliveryNext ==
  \/ \E p \in Parameters : Attach(p)
  \/ SendMetadata
  \/ \E finish \in Finishes : SendFinished(finish)
  \/ Receive

DeliverySpec == DeliveryInit /\ [][DeliveryNext]_deliveryVars

-----------------------------------------------------------------------------
(* Properties                                                              *)

DeliveryTypeOK ==
  /\ stage \in {"build", "metadata", "finished", "responses", "refused"}
  /\ chain \in Seq(Octet) /\ Len(chain) <= Capacity
  /\ tries \in 0 .. MaxParameters
  /\ \A i \in DOMAIN attached : [Walker!Clear EXCEPT ![attached[i].kind] = attached[i].tlv]
                                  \in Walker!Structures
  /\ TypeOK
  /\ Walker!TypeOK

(* What the receiving user is given: the parameters its decoders take.     *)
Given(met) ==
  LET given[n \in 0 .. Len(met)] ==
        IF n = 0 THEN << >>
        ELSE IF met[n].ret = 0 THEN given[n - 1]
        ELSE Append(given[n - 1], [kind |-> met[n].kind, tlv |-> met[n].tlv])
  IN given[Len(met)]

Delivered == Given(taken)

(* When the walk is over every parameter has been delivered.  It has not   *)
(* stopped early, at a TLV that says it goes on, nor has a decoder refused *)
(* what its encoder made, and the fault location behind the responses of a *)
(* Finished PDU has not been walked.                                       *)
WalkDeliversAll ==
  stage \in {"metadata", "responses"} /\ walk_pc = "idle" =>
    Delivered = attached /\ walk_pos = Len(chain)

ParametersOnWire == {OnWire(p) : p \in Parameters}

Route == CASE stage = "build" -> "none"
           [] stage = "metadata" -> "metadata"
           [] OTHER -> "finished"

(* Parameters arrive as they were attached, all of them and in order, or   *)
(* the Finished PDU that carries a foreign one is refused.                 *)
Service == INSTANCE CfdpParameterService WITH
  Parameters <- ParametersOnWire,
  Responses <- {p \in ParametersOnWire : p.kind = "response"},
  route <- Route,
  delivered <- Delivered,
  refused <- stage = "refused"

ServiceSpec == Service!Spec

-----------------------------------------------------------------------------
(* The strengthening behind the safety properties.                         *)

(* Parameters encoded one behind the other, after each of them.            *)
Wire(p) == Walker!Encode(p.kind, p.tlv, Capacity)

Joins(parameters) ==
  LET joined[n \in 0 .. Len(parameters)] ==
        IF n = 0 THEN << >> ELSE joined[n - 1] \o Wire(parameters[n])
  IN joined

(* The buffer holds what has been attached and nothing else.               *)
Built ==
  /\ chain = Joins(attached)[Len(attached)]
  /\ attached \in Seq(ParametersOnWire) /\ Len(attached) <= tries
  /\ \A i \in DOMAIN attached : Wire(attached[i]) # << >>

(* The Finished decoder has been given the chain behind two octets.        *)
Carried ==
  /\ IInv
  /\ calls = 1
  /\ fin.filestore_responses_len > 0 => fin.filestore_responses = FixedLen
  /\ \E finish \in Finishes :
       field = FinishedSerialize(FinishedOf(finish), SpanModulus) /\ field # << >>

AllResponses == \A i \in DOMAIN attached : attached[i].kind = "response"

(* The walk is over the chain and has met the first parameters of it.      *)
Met ==
  /\ span = chain
  /\ Len(taken) <= Len(attached)
  /\ walk_pos = Len(Joins(attached)[Len(taken)])
  /\ \A i \in DOMAIN taken :
       /\ taken[i].ret # 0
       /\ taken[i].kind = attached[i].kind
       /\ taken[i].tlv = attached[i].tlv
  /\ walk_pc = "idle" => Len(taken) = Len(attached)

DeliveryInv ==
  /\ DeliveryTypeOK
  /\ Built
  /\ stage \in {"build", "metadata"} => Init
  /\ stage \in {"build", "finished", "refused"} => Walker!Init
  /\ stage \in {"finished", "responses", "refused"} => Carried
  /\ stage = "responses" => AllResponses
  /\ stage = "refused" => ~ AllResponses
  /\ stage \in {"metadata", "responses"} => Met
=============================================================================
