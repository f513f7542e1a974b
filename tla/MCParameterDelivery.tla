------------------------- MODULE MCParameterDelivery -------------------------
(***************************************************************************)
(* Instances of CfdpParameterDelivery for TLC.                             *)
(***************************************************************************)
EXTENDS CfdpParameterDelivery

NameOf(octets) ==
  [value |-> IF octets = << >> THEN Null ELSE PointerTo(octets), len |-> Len(octets)]
RequestOf(action, first, second) ==
  [kind |-> "request",
   tlv |-> [action_code |-> action, first_filename |-> NameOf(first),
            second_filename |-> NameOf(second)]]
ResponseOf(action, status, first, second, message) ==
  [kind |-> "response",
   tlv |-> [action_code |-> action, status_code |-> status,
            first_filename |-> NameOf(first), second_filename |-> NameOf(second),
            message |-> NameOf(message)]]
OverrideOf(condition, handler) ==
  [kind |-> "override", tlv |-> [condition_code |-> condition, handler_code |-> handler]]

\* names whose TLV value has 255 octets, the most there can be, and one more;
\* a second name that is set and does not travel; a code no table defines
LongName == [i \in 1 .. 253 |-> i]
SomeParameters ==
  {RequestOf(2, <<9>>, <<3>>), RequestOf(5, <<7, 8>>, <<6>>),
   RequestOf(0, LongName, << >>), RequestOf(0, LongName \o <<1>>, << >>),
   ResponseOf(3, 15, << >>, <<2>>, << >>), ResponseOf(0, 0, <<4>>, <<1, 6>>, <<5, 6>>),
   ResponseOf(8, 1, Tail(LongName), << >>, << >>), RequestOf(9, <<1>>, << >>), OverrideOf(11, 3),
   OverrideOf(0, 3),
   [kind |-> "other", tlv |-> [type |-> CFDP_TLV_MESSAGE_TO_USER, length |-> 2,
                               value |-> PointerTo(<<1, 0>>)]]}

FinishOf(condition, len) ==
  [ClearFinished EXCEPT !.condition_code = condition, !.filestore_responses = Null,
                        !.fault_location_entity_id = <<0, 0, 0, 0, 0, 0, 1, 2>>,
                        !.fault_location_len = len]
SomeFinishes == {FinishOf(0, 0), FinishOf(4, 2)}
=============================================================================
