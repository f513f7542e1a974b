--------------------------------- MODULE MCNak ---------------------------------
(***************************************************************************)
(* Instances of CfdpNak for TLC.                                           *)
(***************************************************************************)
EXTENDS CfdpNak

\* an offset of one octet, and one that a four-octet field cannot carry
Near(octet) == Zeros(7) \o <<octet>>
Far(octet) == <<0, 0, 0, 3, 0, 0, 0, octet>>
Range(first, last) == [start_offset |-> first, end_offset |-> last]

AllRanges ==
  <<Range(Near(1), Near(2)), Range(Near(4), Far(8)), Range(Near(16), Near(32))>>

\* NAKs of none up to one request more than the structure holds, of small
\* and of large files
NakOf(count, flag) ==
  [nak |-> [start_of_scope |-> Near(count), end_of_scope |-> Far(9),
            segment_requests |-> SubSeq(AllRanges, 1, count)],
   large |-> flag]
SomeNaks == {NakOf(count, flag) : count \in 0 .. 3, flag \in {0, 1}}

\* what a larger cfdp_nak_pdu_t would have encoded
Encoded(src) ==
  <<CFDP_DIRECTIVE_NAK>>
    \o WriteRange(Range(src.nak.start_of_scope, src.nak.end_of_scope), src.large)
    \o WriteRanges(src.nak.segment_requests, src.large)

\* the encoded NAKs, their leading octets, one octet too many, another code
SomeFields ==
  LET whole == {Encoded(src) : src \in SomeNaks}
  IN whole
       \cup UNION {{SubSeq(f, 1, Len(f) - cut) :
                      cut \in {1, 4, 7, 8} \cap 0 .. Len(f)} : f \in whole}
       \cup {f \o <<0>> : f \in whole}
       \cup {<<6>> \o Tail(f) : f \in whole}
       \cup {<< >>}
=============================================================================
