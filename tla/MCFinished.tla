------------------------------ MODULE MCFinished ------------------------------
(***************************************************************************)
(* Instances of CfdpFinished for TLC.                                      *)
(***************************************************************************)
EXTENDS CfdpFinished

Source(condition, responses, id, len) ==
  [condition_code |-> condition, delivery_code |-> 1, file_status |-> 2,
   filestore_responses |-> IF responses = << >> THEN Null ELSE PointerTo(responses),
   filestore_responses_len |-> Len(responses),
   fault_location_entity_id |-> id, fault_location_len |-> len]

WideId == <<0, 0, 0, 0, 0, 9, 1, 2>>

\* with and without a fault and responses; a fault with no location, and
\* without a fault a location that does not travel
SomeSources ==
  {Source(0, << >>, Zeros(8), 0), Source(0, <<1, 1, 7>>, WideId, 2),
   Source(4, << >>, WideId, 2), Source(15, <<1, 0, 1, 1, 7>>, WideId, 3),
   Source(4, <<1, 0>>, WideId, 0), Source(11, <<1, 0>>, WideId, 8)}

\* a TLV of either type, with and without a value, of another type, one
\* that stops short, and one that says it goes on
Pieces ==
  {<<1, 0>>, <<1, 1, 6>>, <<6, 1, 3>>, <<6, 0>>, <<2, 0>>, <<6>>, <<1, 2, 0>>}

\* every chain of up to three of them, and every one of up to four octets
Chains ==
  {<< >>} \cup Pieces
    \cup {one \o other : one \in Pieces, other \in Pieces}
    \cup {one \o other \o third : one \in Pieces, other \in Pieces, third \in Pieces}
    \cup UNION {[1 .. length -> {0, 1, 2, 6}] : length \in 1 .. 4}

\* those of the sources, those with every chain, an ID of 8 octets, one
\* of 9, and octets that are no Finished PDU
SomeFields ==
  ({FinishedSerialize(src, SpanModulus) : src \in SomeSources} \ {<< >>})
    \cup {<<CFDP_DIRECTIVE_FINISHED, 64>> \o chain : chain \in Chains}
    \cup {<<5, 0, 6, 9, 1, 2, 3, 4, 5, 6, 7, 8, 9>>, <<5, 0, 6, 8, 1, 2, 3, 4, 5, 6, 7, 8>>,
          <<5>>, <<6, 0>>}
=============================================================================
